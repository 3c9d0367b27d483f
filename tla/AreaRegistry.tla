------------------------------ MODULE AreaRegistry ------------------------------
(***************************************************************************)
(* The replacement area codes of the Demae Channel: each run of            *)
(* tools/build_demae_area_registry.py reads the town candidates and the    *)
(* previous registry, gives codes to the towns that have none              *)
(* (jwc24/demae_area_registry.py) and writes the new registry under the    *)
(* directory lock, which it takes for the write only.  A console keeps the *)
(* code of its owner's town in its save.                                   *)
(***************************************************************************)
EXTENDS Naturals, FiniteSets

CONSTANTS
  Town,             \* source identities, here in their sorted order: numbers
  Builder, NoBuilder,
  MaxCode,          \* codes between FIRST_LOCAL_CODE and MAX_AREA_CODE
  MaxRuns           \* bound: runs of the tool

VARIABLES
  registry,  \* replacement-area-registry.json: codes of towns, counted from one
  towns,     \* the towns of town-candidates.json, rebuilt from other sources
  lock,      \* the builder that holds the directory lock
  pc, requested, previous,  \* per builder: its next step and what it has read
  runs,
  saved,     \* <<code, town>>: what consoles keep in their saves
  overlapped \* a run has replaced another registry than it had read

builders == <<lock, pc, requested, previous, runs>>
history  == <<saved, overlapped>>
vars     == <<registry, towns, builders, history>>

Empty == [t \in {} |-> 0]

Init ==
  /\ registry = Empty
  /\ towns \in SUBSET Town
  /\ lock = NoBuilder /\ pc = [b \in Builder |-> "idle"]
  /\ requested = [b \in Builder |-> {}] /\ previous = [b \in Builder |-> Empty]
  /\ runs = 0 /\ saved = {} /\ overlapped = FALSE

------------------------------------------------------------------------------
(* assign_area_codes *)

CodesOf(reg) == {reg[t] : t \in DOMAIN reg}
Highest(reg) ==
  IF CodesOf(reg) = {} THEN 0 ELSE CHOOSE n \in CodesOf(reg) : \A m \in CodesOf(reg) : m <= n

\* Mutant: towns that the sources no longer have lose their codes.
Assign_Present(reg, wanted) ==
  [t \in wanted |->
     IF t \in DOMAIN reg THEN reg[t]
     ELSE Highest(reg) + Cardinality({u \in wanted \ DOMAIN reg : u <= t})]

\* New towns are numbered after the highest code, in their sorted order.
Assign(reg, wanted) ==
  [t \in DOMAIN reg \cup wanted |->
     IF t \in DOMAIN reg THEN reg[t]
     ELSE Highest(reg) + Cardinality({u \in wanted \ DOMAIN reg : u <= t})]

Exhausted(reg, wanted) == Highest(reg) + Cardinality(wanted \ DOMAIN reg) > MaxCode

------------------------------------------------------------------------------
(* build_demae_area_registry *)

Go(b, phase) == pc' = [pc EXCEPT ![b] = phase]

End(b) ==
  /\ Go(b, "idle")
  /\ lock' = IF lock = b THEN NoBuilder ELSE lock
  /\ requested' = [requested EXCEPT ![b] = {}]
  /\ previous' = [previous EXCEPT ![b] = Empty]

ReadTowns(b) ==
  /\ pc[b] = "idle" /\ runs < MaxRuns /\ runs' = runs + 1
  /\ requested' = [requested EXCEPT ![b] = towns]
  /\ Go(b, "read")
  /\ UNCHANGED <<registry, towns, lock, previous, history>>

\* The registry is read without a lock; invalid or too many codes end the run.
ReadRegistry(b) ==
  /\ pc[b] = "read"
  /\ IF Exhausted(registry, requested[b])
       THEN End(b)
       ELSE previous' = [previous EXCEPT ![b] = registry] /\ Go(b, "lock")
            /\ UNCHANGED <<lock, requested>>
  /\ UNCHANGED <<registry, towns, runs, history>>

Lock(b) ==
  /\ pc[b] = "lock" /\ lock = NoBuilder
  /\ lock' = b
  /\ Go(b, "write")
  /\ UNCHANGED <<registry, towns, requested, previous, runs, history>>

\* atomic_write: a complete new file takes the place of the old one.
Write(b) ==
  /\ pc[b] = "write"
  /\ registry' = Assign(previous[b], requested[b])
  /\ overlapped' = (overlapped \/ registry # previous[b])
  /\ End(b)
  /\ UNCHANGED <<towns, runs, saved>>

\* A wait of thirty seconds, a failed write, a stop.
Fail(b) ==
  /\ pc[b] # "idle"
  /\ End(b)
  /\ UNCHANGED <<registry, towns, runs, history>>

\* The sources are imported again: towns come and go.
RefreshTowns ==
  /\ \E new \in SUBSET Town : new # towns /\ towns' = new
  /\ UNCHANGED <<registry, builders, history>>

\* A console's owner picks a town and the channel saves its code.
Save ==
  /\ \E t \in DOMAIN registry : saved' = saved \cup {<<registry[t], t>>}
  /\ UNCHANGED <<registry, towns, builders, overlapped>>

Next ==
  \/ \E b \in Builder : ReadTowns(b) \/ ReadRegistry(b) \/ Lock(b) \/ Write(b) \/ Fail(b)
  \/ RefreshTowns \/ Save

Spec == Init /\ [][Next]_vars

------------------------------------------------------------------------------
(* Properties. *)

\* A saved code resolves to the town it was saved for, whatever the sources
\* have dropped since ("Keep retired entries reserved; never renumber when
\* source data changes", assign_area_codes), unless two runs of the tool have
\* overlapped: it reads the registry before it asks for the lock.
LossNeedsOverlap ==
  overlapped \/ \A x \in saved : x[2] \in DOMAIN registry /\ registry[x[2]] = x[1]

==============================================================================
