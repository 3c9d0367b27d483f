------------------------------ MODULE Publication ------------------------------
(***************************************************************************)
(* The publication of generations by jwc24/hbnj_publication.py and         *)
(* jwc24/news_publication.py: a publisher copies its inputs into a staging *)
(* directory, renames that to a new generation and switches one pointer;   *)
(* a server loads the generation that the pointer names and serves it      *)
(* from memory until it ends.                                              *)
(*                                                                         *)
(* The program guide (HBNJ) validates the copy under the directory lock    *)
(* and looks at its age again; News validates its buffers in memory before *)
(* it takes the lock.  channel says which of the two a behaviour is of.    *)
(***************************************************************************)
EXTENDS Naturals, FiniteSets

CONSTANTS
  Edition, NoEdition,   \* what a collector has collected at one time
  Collected, Expires,   \* the first second of an edition, and the first after it
  Publisher, NoPublisher,
  Server,
  MaxGenerations, MaxClock, MaxChanges, MaxDamage  \* bounds

ASSUME EditionAssumption   == /\ NoEdition \notin Edition
                              /\ Collected \in [Edition -> Nat] /\ Expires \in [Edition -> Nat]
ASSUME PublisherAssumption == NoPublisher \notin Publisher
ASSUME BoundsAssumption    == /\ MaxGenerations \in Nat /\ MaxClock \in Nat
                              /\ MaxChanges \in Nat /\ MaxDamage \in Nat

VARIABLES
  channel,         \* "guide" or "news", for ever
  input, changes,  \* the input files: a guide, and payloads packed from one
  generations,     \* generations[n]: the files of generation n, or NoFiles
  published,       \* how many generations there are
  pointer,         \* the generation that current.json names, or 0
  damaged,         \* generations whose files are not what was written
  lock,            \* the publisher that holds the directory lock
  pc, copy, target,  \* per publisher: its next step, the files it has copied,
                     \* the generation that they have become
  validatedAt,     \* per publisher: when its validation ended
  phase, opened,   \* per server: the step of its load, the generation it loads
  memory,          \* memory[s]: the files that server s has read, or NoFiles
  snapshot,        \* snapshot[s]: the files that server s serves, or NoFiles
  clock

inputs     == <<channel, input, changes>>
files      == <<generations, published, pointer, damaged>>
publishers == <<lock, pc, copy, target, validatedAt>>
servers    == <<phase, opened, memory, snapshot>>
vars       == <<inputs, files, publishers, servers, clock>>

Files      == [guide : Edition, payloads : Edition]
NoFiles    == [guide |-> NoEdition, payloads |-> NoEdition]
Generation == 1 .. MaxGenerations

\* The three validators, and the inspection of a News bundle: every file
\* belongs to the same edition.
Coherent(f) == f \in Files /\ f.payloads = f.guide

Current(edition) == Collected[edition] <= clock /\ clock < Expires[edition]

Init ==
  /\ channel \in {"guide", "news"}
  /\ input \in {f \in Files : Coherent(f)} /\ changes = 0
  /\ generations = [n \in Generation |-> NoFiles] /\ published = 0
  /\ pointer = 0 /\ damaged = {}
  /\ lock = NoPublisher /\ pc = [p \in Publisher |-> "idle"]
  /\ copy = [p \in Publisher |-> NoFiles] /\ target = [p \in Publisher |-> 0]
  /\ validatedAt = [p \in Publisher |-> 0]
  /\ phase = [s \in Server |-> "down"] /\ opened = [s \in Server |-> 0]
  /\ memory = [s \in Server |-> NoFiles] /\ snapshot = [s \in Server |-> NoFiles]
  /\ clock = 0

------------------------------------------------------------------------------
(* publish_hbnj_snapshot, write_news_publication *)

Go(p, step) == pc' = [pc EXCEPT ![p] = step]

\* The publisher is through, or has failed: the context manager unlocks.
End(p) ==
  /\ Go(p, "idle")
  /\ lock' = IF lock = p THEN NoPublisher ELSE lock
  /\ copy' = [copy EXCEPT ![p] = NoFiles]
  /\ target' = [target EXCEPT ![p] = 0]
  /\ UNCHANGED validatedAt

ReadGuide(p) ==
  /\ pc[p] = "idle" /\ published < MaxGenerations
  /\ Current(input.guide)
  /\ copy' = [copy EXCEPT ![p] = [guide |-> input.guide, payloads |-> NoEdition]]
  /\ Go(p, "payloads")
  /\ UNCHANGED <<inputs, files, lock, target, validatedAt, servers, clock>>

ReadPayloads(p) ==
  /\ pc[p] = "payloads"
  /\ copy' = [copy EXCEPT ![p] = [guide |-> copy[p].guide, payloads |-> input.payloads]]
  /\ Go(p, IF channel = "guide" THEN "lock" ELSE "prepare")
  /\ UNCHANGED <<inputs, files, lock, target, validatedAt, servers, clock>>

\* Mutant: the buffers are not inspected together.
Prepare_AgeOnly(p) ==
  /\ pc[p] = "prepare"
  /\ IF Current(copy[p].guide)
       THEN /\ validatedAt' = [validatedAt EXCEPT ![p] = clock]
            /\ Go(p, "lock")
            /\ UNCHANGED <<lock, copy, target>>
       ELSE End(p)
  /\ UNCHANGED <<inputs, files, servers, clock>>

\* News only: the buffers are inspected in memory, then the lock is asked for.
Prepare(p) ==
  /\ pc[p] = "prepare"
  /\ IF Coherent(copy[p]) /\ Current(copy[p].guide)
       THEN /\ validatedAt' = [validatedAt EXCEPT ![p] = clock]
            /\ Go(p, "lock")
            /\ UNCHANGED <<lock, copy, target>>
       ELSE End(p)
  /\ UNCHANGED <<inputs, files, servers, clock>>

\* Once it has the lock it writes a staging directory that nobody reads.
Lock(p) ==
  /\ pc[p] = "lock" /\ lock = NoPublisher
  /\ lock' = p
  /\ Go(p, IF channel = "guide" THEN "validate" ELSE "rename")
  /\ UNCHANGED <<inputs, files, copy, target, validatedAt, servers, clock>>

\* Three subprocesses with 120 seconds each: time passes.
Validate(p) ==
  /\ pc[p] = "validate"
  /\ IF Coherent(copy[p])
       THEN /\ validatedAt' = [validatedAt EXCEPT ![p] = clock]
            /\ Go(p, "recheck")
            /\ UNCHANGED <<lock, copy, target>>
       ELSE End(p)
  /\ UNCHANGED <<inputs, files, servers, clock>>

\* Mutant: the age is not looked at again.
Recheck_Skipped(p) ==
  /\ pc[p] = "recheck"
  /\ Go(p, "rename")
  /\ UNCHANGED <<lock, copy, target, validatedAt>>
  /\ UNCHANGED <<inputs, files, servers, clock>>

Recheck(p) ==
  /\ pc[p] = "recheck"
  /\ IF Current(copy[p].guide)
       THEN Go(p, "rename") /\ UNCHANGED <<lock, copy, target, validatedAt>>
       ELSE End(p)
  /\ UNCHANGED <<inputs, files, servers, clock>>

\* The whole staging directory takes the generation's fresh name.
Rename(p) ==
  /\ pc[p] = "rename" /\ published < MaxGenerations
  /\ published' = published + 1
  /\ generations' = [generations EXCEPT ![published + 1] = copy[p]]
  /\ target' = [target EXCEPT ![p] = published + 1]
  /\ Go(p, "switch")
  /\ UNCHANGED <<pointer, damaged, lock, copy, validatedAt>>
  /\ UNCHANGED <<inputs, servers, clock>>

Switch(p) ==
  /\ pc[p] = "switch"
  /\ pointer' = target[p]
  /\ End(p)
  /\ UNCHANGED <<generations, published, damaged>>
  /\ UNCHANGED <<inputs, servers, clock>>

\* Any step raises, thirty seconds pass without the lock, or the process is
\* killed: the pointer stays.  A generation that has its name stays too.
Fail(p) ==
  /\ pc[p] # "idle"
  /\ End(p)
  /\ UNCHANGED <<inputs, files, servers, clock>>

------------------------------------------------------------------------------
(* load_hbnj_snapshot, load_news_publication *)

Leave(s) ==
  /\ phase' = [phase EXCEPT ![s] = "down"]
  /\ opened' = [opened EXCEPT ![s] = 0]
  /\ memory' = [memory EXCEPT ![s] = NoFiles]
  /\ snapshot' = [snapshot EXCEPT ![s] = NoFiles]
  /\ UNCHANGED <<inputs, files, publishers, clock>>

ReadPointer(s) ==
  /\ phase[s] = "down" /\ pointer # 0
  /\ opened' = [opened EXCEPT ![s] = pointer]
  /\ phase' = [phase EXCEPT ![s] = "read"]
  /\ UNCHANGED <<memory, snapshot>>
  /\ UNCHANGED <<inputs, files, publishers, clock>>

\* Mutant: the pointer is read again for the files.
ReadFiles_Pointer(s) ==
  /\ phase[s] = "read" /\ pointer \notin damaged
  /\ Current(generations[pointer].guide)
  /\ memory' = [memory EXCEPT ![s] = generations[pointer]]
  /\ phase' = [phase EXCEPT ![s] = "accept"]
  /\ UNCHANGED <<opened, snapshot>>
  /\ UNCHANGED <<inputs, files, publishers, clock>>

\* The files of the opened generation, whose hashes the manifest holds.
ReadFiles(s) ==
  /\ phase[s] = "read" /\ opened[s] \notin damaged
  /\ Current(generations[opened[s]].guide)
  /\ memory' = [memory EXCEPT ![s] = generations[opened[s]]]
  /\ phase' = [phase EXCEPT ![s] = "accept"]
  /\ UNCHANGED <<opened, snapshot>>
  /\ UNCHANGED <<inputs, files, publishers, clock>>

\* Validated once more; the program guide's files are read twice.
Accept(s) ==
  /\ phase[s] = "accept"
  /\ Coherent(memory[s]) /\ Current(memory[s].guide)
  /\ channel = "guide" => opened[s] \notin damaged
  /\ snapshot' = [snapshot EXCEPT ![s] = memory[s]]
  /\ memory' = [memory EXCEPT ![s] = NoFiles]
  /\ opened' = [opened EXCEPT ![s] = 0]
  /\ phase' = [phase EXCEPT ![s] = "up"]
  /\ UNCHANGED <<inputs, files, publishers, clock>>

\* A load that is refused, or a server that ends.
Quit(s) == phase[s] # "down" /\ Leave(s)

------------------------------------------------------------------------------
\* The next collection replaces the guide and then the payloads.
ChangeInput ==
  /\ changes < MaxChanges /\ changes' = changes + 1
  /\ \/ \E e \in Edition : input' = [guide |-> e, payloads |-> input.payloads]
     \/ input' = [guide |-> input.guide, payloads |-> input.guide]
  /\ UNCHANGED <<channel, files, publishers, servers, clock>>

\* Files that were not on the disk when its power failed, or that decay.
Damage ==
  /\ Cardinality(damaged) < MaxDamage
  /\ \E n \in 1 .. published : damaged' = damaged \cup {n}
  /\ UNCHANGED <<generations, published, pointer>>
  /\ UNCHANGED <<inputs, publishers, servers, clock>>

Tick ==
  /\ clock < MaxClock
  /\ clock' = clock + 1
  /\ UNCHANGED <<inputs, files, publishers, servers>>

Next ==
  \/ \E p \in Publisher :
       \/ ReadGuide(p) \/ ReadPayloads(p) \/ Prepare(p) \/ Lock(p) \/ Validate(p)
       \/ Recheck(p) \/ Rename(p) \/ Switch(p) \/ Fail(p)
  \/ \E s \in Server : ReadPointer(s) \/ ReadFiles(s) \/ Accept(s) \/ Quit(s)
  \/ ChangeInput \/ Damage \/ Tick

Spec == Init /\ [][Next]_vars

------------------------------------------------------------------------------
(* Properties. *)

Partly == [guide : Edition \cup {NoEdition}, payloads : Edition \cup {NoEdition}]

\* Well-formed state; the lock is held from validation to the switch.
TypeOK ==
  /\ channel \in {"guide", "news"}
  /\ input \in Files /\ changes \in Nat /\ clock \in Nat
  /\ generations \in [Generation -> Files \cup {NoFiles}]
  /\ published \in 0 .. MaxGenerations /\ pointer \in 0 .. published
  /\ damaged \subseteq 1 .. published
  /\ lock \in Publisher \cup {NoPublisher}
  /\ pc \in [Publisher -> {"idle", "payloads", "prepare", "lock", "validate", "recheck",
                            "rename", "switch"}]
  /\ copy \in [Publisher -> Partly] /\ target \in [Publisher -> 0 .. published]
  /\ validatedAt \in [Publisher -> Nat]
  /\ phase \in [Server -> {"down", "read", "accept", "up"}]
  /\ opened \in [Server -> 0 .. published]
  /\ memory \in [Server -> Files \cup {NoFiles}] /\ snapshot \in [Server -> Files \cup {NoFiles}]
  /\ \A p \in Publisher : pc[p] \in {"validate", "recheck", "rename", "switch"} => lock = p

\* The pointer names a generation whose files all belong to one edition,
\* though the inputs change while they are copied and publishers overlap or
\* fail ("one coherent generation", "failure preserves the old pointer").
PointerIsWhole == pointer # 0 => Coherent(generations[pointer])

\* "Long offline validation must not publish an input that expired meanwhile":
\* what is switched to had not expired when its validation ended.
NothingExpiredIsPublished ==
  \A p \in Publisher : pc[p] = "switch" => validatedAt[p] < Expires[copy[p].guide]

\* The pointer moves forward only: overlapping publishers do not put back a
\* generation that was made before the one it names.
PointerMovesForward == [][pointer' >= pointer]_vars

EditionOf(f) == IF Coherent(f) THEN f.guide ELSE NoEdition

Register == INSTANCE EditionRegister WITH
  current  <- IF pointer = 0 THEN NoEdition ELSE EditionOf(generations[pointer]),
  opened   <- [s \in Server |-> IF opened[s] = 0 THEN NoEdition
                                ELSE EditionOf(generations[opened[s]])],
  snapshot <- [s \in Server |-> EditionOf(snapshot[s])]

\* Directory, pointer and loads implement the register of whole editions.
ImplementsRegister == Register!Spec
==============================================================================
