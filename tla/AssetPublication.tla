--------------------------- MODULE AssetPublication ---------------------------
(***************************************************************************)
(* The batches of tools/asset_publication.py: a tool reads its sources     *)
(* without a lock, then publish_assets takes the lock of every directory   *)
(* concerned in one order, compares the sources with what was read,        *)
(* replaces the outputs one by one and restores them if one fails.         *)
(*                                                                         *)
(* A file's content is the number of the run that wrote it.                *)
(***************************************************************************)
EXTENDS Naturals, Sequences, FiniteSets

CONSTANTS
  Path,        \* files
  DirectoryOf, \* their directories, here in their sorted order: numbers
  Job,         \* what a tool publishes: outputs in order, and sources
  Publisher, NoPublisher,
  MaxRuns      \* bound: runs of tools

ASSUME PathAssumption      == IsFiniteSet(Path) /\ DirectoryOf \in [Path -> Nat]
ASSUME JobAssumption       == Job \subseteq [outputs : Seq(Path), sources : SUBSET Path]
ASSUME OutputsAssumption   ==
  \A j \in Job : /\ j.outputs # <<>>
                 /\ \A i, k \in DOMAIN j.outputs : j.outputs[i] = j.outputs[k] => i = k
ASSUME PublisherAssumption == NoPublisher \notin Publisher
ASSUME RunsAssumption      == MaxRuns \in Nat

VARIABLES
  content,    \* content[f]: the run that wrote file f, 0 before any
  owner,      \* owner[d]: the publisher that holds the lock of directory d
  pc, job, run,
  captured,   \* captured[p]: contents of the sources that it has read
  originals,  \* originals[p]: contents of the outputs before its batch
  done,       \* done[p]: how many outputs it has replaced
  runs,
  broken      \* files of a batch that a stop or a failed restore cut short

batches == <<pc, job, run, captured, originals, done>>
vars    == <<content, owner, batches, runs, broken>>

NoJob     == [outputs |-> <<>>, sources |-> {}]
Nothing   == [f \in {} |-> 0]
Directory == {DirectoryOf[f] : f \in Path}
OutputsOf(j) == {j.outputs[i] : i \in DOMAIN j.outputs}

Init ==
  /\ content = [f \in Path |-> 0]
  /\ owner = [d \in Directory |-> NoPublisher]
  /\ pc = [p \in Publisher |-> "idle"] /\ job = [p \in Publisher |-> NoJob]
  /\ run = [p \in Publisher |-> 0]
  /\ captured = [p \in Publisher |-> Nothing] /\ originals = [p \in Publisher |-> Nothing]
  /\ done = [p \in Publisher |-> 0]
  /\ runs = 0 /\ broken = {}

Go(p, phase) == pc' = [pc EXCEPT ![p] = phase]

\* The end of a batch or of its process; every directory is unlocked.
End(p) ==
  /\ owner' = [d \in Directory |-> IF owner[d] = p THEN NoPublisher ELSE owner[d]]
  /\ pc' = [pc EXCEPT ![p] = "idle"]
  /\ job' = [job EXCEPT ![p] = NoJob]
  /\ run' = [run EXCEPT ![p] = 0]
  /\ captured' = [captured EXCEPT ![p] = Nothing]
  /\ originals' = [originals EXCEPT ![p] = Nothing]
  /\ done' = [done EXCEPT ![p] = 0]

------------------------------------------------------------------------------
Start(p) ==
  /\ pc[p] = "idle" /\ runs < MaxRuns /\ runs' = runs + 1
  /\ \E j \in Job : job' = [job EXCEPT ![p] = j]
  /\ run' = [run EXCEPT ![p] = runs + 1]
  /\ Go(p, "capture")
  /\ UNCHANGED <<content, owner, captured, originals, done, broken>>

\* The sources are read one by one, while others may publish.
Capture(p) ==
  /\ pc[p] = "capture"
  /\ \E f \in job[p].sources \ DOMAIN captured[p] :
       captured' = [captured EXCEPT ![p] =
                      [g \in DOMAIN captured[p] \cup {f} |-> IF g = f THEN content[f] ELSE captured[p][g]]]
  /\ UNCHANGED <<content, owner, pc, job, run, originals, done, runs, broken>>

\* The outputs are ready.
Publish(p) ==
  /\ pc[p] = "capture" /\ DOMAIN captured[p] = job[p].sources
  /\ Go(p, "lock")
  /\ UNCHANGED <<content, owner, job, run, captured, originals, done, runs, broken>>

------------------------------------------------------------------------------
(* publish_assets *)

\* Mutant: the directories of the outputs only.
Directories_Outputs(j) == {DirectoryOf[f] : f \in OutputsOf(j)}
Directories(j) == {DirectoryOf[f] : f \in OutputsOf(j) \cup j.sources}

Unlocked(p) == {d \in Directories(job[p]) : owner[d] # p}

\* Mutant: the outputs' directories in the order of the outputs, then the rest.
NextLock_InOrder(p) ==
  LET outs  == job[p].outputs
      first == {i \in DOMAIN outs : DirectoryOf[outs[i]] \in Unlocked(p)}
  IN  IF first # {} THEN DirectoryOf[outs[CHOOSE i \in first : \A k \in first : i <= k]]
      ELSE CHOOSE d \in Unlocked(p) : TRUE

\* The next lock that p asks for: directories come in their sorted order.
NextLock(p) == CHOOSE d \in Unlocked(p) : \A e \in Unlocked(p) : d <= e

LockNext(p) ==
  /\ pc[p] = "lock" /\ Unlocked(p) # {}
  /\ owner[NextLock(p)] = NoPublisher
  /\ owner' = [owner EXCEPT ![NextLock(p)] = p]
  /\ UNCHANGED <<content, batches, runs, broken>>

\* Under all locks: the sources are what was read, and the outputs are kept.
Check(p) ==
  /\ pc[p] = "lock" /\ Unlocked(p) = {}
  /\ IF \A f \in job[p].sources : content[f] = captured[p][f]
       THEN /\ originals' = [originals EXCEPT ![p] = [f \in OutputsOf(job[p]) |-> content[f]]]
            /\ Go(p, "write")
            /\ UNCHANGED <<owner, job, run, captured, done>>
       ELSE End(p)
  /\ UNCHANGED <<content, runs, broken>>

\* One output after the other, each by an atomic replacement.
WriteNext(p) ==
  /\ pc[p] = "write" /\ done[p] < Len(job[p].outputs)
  /\ content' = [content EXCEPT ![job[p].outputs[done[p] + 1]] = run[p]]
  /\ done' = [done EXCEPT ![p] = @ + 1]
  /\ UNCHANGED <<owner, pc, job, run, captured, originals, runs, broken>>

Finish(p) ==
  /\ pc[p] = "write" /\ done[p] = Len(job[p].outputs)
  /\ broken' = broken \ OutputsOf(job[p])
  /\ End(p)
  /\ UNCHANGED <<content, runs>>

\* An output cannot be written: those before it are restored.
WriteFails(p) ==
  /\ pc[p] = "write" /\ done[p] < Len(job[p].outputs)
  /\ Go(p, "restore")
  /\ UNCHANGED <<content, owner, job, run, captured, originals, done, runs, broken>>

\* Mutant: the first output is forgotten.
RestoreNext_AllButFirst(p) ==
  /\ pc[p] = "restore"
  /\ IF done[p] <= 1
       THEN End(p) /\ UNCHANGED content
       ELSE /\ content' = [content EXCEPT ![job[p].outputs[done[p]]] =
                             originals[p][job[p].outputs[done[p]]]]
            /\ done' = [done EXCEPT ![p] = @ - 1]
            /\ UNCHANGED <<owner, pc, job, run, captured, originals>>
  /\ UNCHANGED <<runs, broken>>

RestoreNext(p) ==
  /\ pc[p] = "restore"
  /\ IF done[p] = 0
       THEN End(p) /\ UNCHANGED content
       ELSE /\ content' = [content EXCEPT ![job[p].outputs[done[p]]] =
                             originals[p][job[p].outputs[done[p]]]]
            /\ done' = [done EXCEPT ![p] = @ - 1]
            /\ UNCHANGED <<owner, pc, job, run, captured, originals>>
  /\ UNCHANGED <<runs, broken>>

\* An exception before the outputs, a wait of thirty seconds for a lock.
GiveUp(p) ==
  /\ pc[p] \in {"capture", "lock"}
  /\ End(p)
  /\ UNCHANGED <<content, runs, broken>>

\* A stop of the process, or a restore that fails: nothing is put right, and
\* the system gives the locks back.
CutShort(p) ==
  /\ pc[p] \in {"write", "restore"}
  /\ broken' = IF done[p] = 0 THEN broken ELSE broken \cup OutputsOf(job[p])
  /\ End(p)
  /\ UNCHANGED <<content, runs>>

Next == \E p \in Publisher :
  \/ Start(p) \/ Capture(p) \/ Publish(p) \/ LockNext(p) \/ Check(p)
  \/ WriteNext(p) \/ Finish(p) \/ WriteFails(p) \/ RestoreNext(p)
  \/ GiveUp(p) \/ CutShort(p)

Spec == Init /\ [][Next]_vars

------------------------------------------------------------------------------
(* Properties. *)

Partly(S) == UNION {[T -> Nat] : T \in SUBSET S}

\* From the comparison to the last output the sources stay what the outputs
\* were made from, unless an output is itself a source: "Source writers must
\* share directory_lock for the check to remain valid throughout publication".
SourcesHoldWhilePublished ==
  \A p \in Publisher : pc[p] = "write" =>
    \A f \in job[p].sources \ OutputsOf(job[p]) : content[f] = captured[p][f]

\* Files that every job writes together.
Coupled(f, g) ==
  \A j \in Job : f \in OutputsOf(j) <=> g \in OutputsOf(j)

\* Files that are only written together come from one run whenever nobody
\* holds their directories and no stop or failed restore has cut their batch
\* short: an ordinary failure leaves all of a batch or none of it.
BatchesAreWhole ==
  \A f, g \in Path \ broken :
    Coupled(f, g) /\ (\E j \in Job : f \in OutputsOf(j))
      /\ owner[DirectoryOf[f]] = NoPublisher /\ owner[DirectoryOf[g]] = NoPublisher
      => content[f] = content[g]

\* p waits for a lock that q holds.
WaitsFor(p, q) == pc[p] = "lock" /\ Unlocked(p) # {} /\ owner[NextLock(p)] = q

\* No publishers wait for one another in a circle, which only the lock's
\* timeout would end, whatever directories their batches share.
NobodyWaitsInACircle ==
  \A S \in (SUBSET Publisher) \ {{}} : \E p \in S : \A q \in S : ~WaitsFor(p, q)
==============================================================================
