------------------------ MODULE AssetPublicationProofs ------------------------
(***************************************************************************)
(* Theorems about AssetPublication for any finite set of files, any        *)
(* directories, jobs and publishers, and any number of runs.               *)
(***************************************************************************)
EXTENDS AssetPublication, FiniteSetTheorems, TLAPS

Active(p) == pc[p] \in {"write", "restore"}

TypeOK ==
  /\ content \in [Path -> Nat]
  /\ owner \in [Directory -> Publisher \cup {NoPublisher}]
  /\ pc \in [Publisher -> {"idle", "capture", "lock", "write", "restore"}]
  /\ job \in [Publisher -> Job \cup {NoJob}]
  /\ run \in [Publisher -> Nat]
  /\ captured \in [Publisher -> Partly(Path)]
  /\ originals \in [Publisher -> Partly(Path)]
  /\ done \in [Publisher -> Nat]
  /\ runs \in Nat
  /\ broken \subseteq Path

\* What each phase has of its batch.
BatchOK ==
  \A p \in Publisher :
    /\ IF pc[p] = "idle" THEN job[p] = NoJob ELSE job[p] \in Job
    /\ pc[p] \in {"idle", "capture", "lock"} => done[p] = 0
    /\ done[p] <= Len(job[p].outputs)
    /\ DOMAIN captured[p] \subseteq job[p].sources
    /\ pc[p] = "lock" \/ Active(p) => DOMAIN captured[p] = job[p].sources
    /\ Active(p) => DOMAIN originals[p] = OutputsOf(job[p])

\* Only a batch that wants a directory holds its lock; locks come in order, and
\* nothing is compared or written before the last.
LocksOK ==
  /\ \A d \in Directory : owner[d] # NoPublisher =>
       /\ pc[owner[d]] = "lock" \/ Active(owner[d])
       /\ d \in Directories(job[owner[d]])
  /\ \A p \in Publisher : Active(p) => Unlocked(p) = {}
  /\ \A p \in Publisher : pc[p] = "lock" =>
       \A d \in Directories(job[p]) \ Unlocked(p) : \A e \in Unlocked(p) : d < e

\* An output has the run of its batch as soon as it is written, and what it had
\* before until then and when it is restored.
ProgressOK ==
  \A p \in Publisher : Active(p) =>
    \A i \in DOMAIN job[p].outputs :
      content[job[p].outputs[i]] = IF i <= done[p] THEN run[p]
                                   ELSE originals[p][job[p].outputs[i]]

Written(f) == \E j \in Job : f \in OutputsOf(j)

\* What a batch would restore was whole before it.
OriginalsOK ==
  \A p \in Publisher : Active(p) =>
    \A f, g \in OutputsOf(job[p]) \ broken :
      Coupled(f, g) => originals[p][f] = originals[p][g]

\* Files whose batch nobody is writing are whole.
WholeOK ==
  \A f, g \in Path \ broken :
    Coupled(f, g) /\ Written(f)
      /\ (\A p \in Publisher : Active(p) => f \notin OutputsOf(job[p]))
      => content[f] = content[g]

IInv ==
  TypeOK /\ BatchOK /\ LocksOK /\ ProgressOK /\ OriginalsOK /\ WholeOK
    /\ SourcesHoldWhilePublished

------------------------------------------------------------------------------
\* Every set of natural numbers has a least one.
LEMMA LeastNatural ==
  ASSUME NEW S \in SUBSET Nat, S # {}
  PROVE  \E m \in S : \A n \in S : m <= n
  <1>1. PICK m \in S : \A n \in S : ~ (<<n, m>> \in OpToRel(<, Nat))
    BY NatLessThanWellFounded, WFMin
  <1>2. \A n \in S : ~ (n < m)
    BY <1>1 DEF OpToRel
  <1> QED BY <1>2

\* What a publisher publishes: files, each of them once.
LEMMA JobFacts ==
  ASSUME TypeOK, BatchOK, NEW p \in Publisher, pc[p] # "idle"
  PROVE  /\ job[p] \in Job /\ job[p].outputs \in Seq(Path) /\ job[p].sources \subseteq Path
         /\ Len(job[p].outputs) \in Nat /\ DOMAIN job[p].outputs = 1 .. Len(job[p].outputs)
         /\ \A i \in DOMAIN job[p].outputs : job[p].outputs[i] \in OutputsOf(job[p])
         /\ \A i, k \in DOMAIN job[p].outputs :
              job[p].outputs[i] = job[p].outputs[k] => i = k
         /\ OutputsOf(job[p]) \subseteq Path
         /\ Directories(job[p]) \subseteq Directory
  <1>1. job[p] \in Job
    BY DEF BatchOK
  <1>2. job[p].outputs \in Seq(Path) /\ job[p].sources \subseteq Path
    BY <1>1, JobAssumption
  <1>3. \A i, k \in DOMAIN job[p].outputs : job[p].outputs[i] = job[p].outputs[k] => i = k
    BY <1>1, OutputsAssumption
  <1>4. OutputsOf(job[p]) \subseteq Path
    BY <1>2 DEF OutputsOf
  <1>5. Directories(job[p]) \subseteq Directory
    BY <1>2, <1>4 DEF Directories, Directory
  <1> QED BY <1>1, <1>2, <1>3, <1>4, <1>5 DEF OutputsOf

\* Directories are numbers.
LEMMA DirectoriesAreNumbers == Directory \subseteq Nat
  BY PathAssumption DEF Directory

\* The lock that a batch asks for next is the least it has not.
LEMMA NextLockIsLeast ==
  ASSUME TypeOK, BatchOK, NEW p \in Publisher, pc[p] # "idle", Unlocked(p) # {}
  PROVE  NextLock(p) \in Unlocked(p) /\ \A e \in Unlocked(p) : NextLock(p) <= e
  <1>1. Unlocked(p) \in SUBSET Nat
    BY JobFacts, DirectoriesAreNumbers DEF Unlocked
  <1>2. \E d \in Unlocked(p) : \A e \in Unlocked(p) : d <= e
    BY <1>1, LeastNatural
  <1> QED BY <1>2 DEF NextLock

\* Two batches that have all their locks share no file that either writes.
LEMMA Exclusion ==
  ASSUME NEW p \in Publisher, NEW q \in Publisher, p # q, Unlocked(p) = {}, Unlocked(q) = {},
         NEW f \in OutputsOf(job[p])
  PROVE  f \notin OutputsOf(job[q]) /\ f \notin job[q].sources
  BY DEF Unlocked, Directories

\* The end of a batch frees its locks and nobody else's.
LEMMA EndFrees ==
  ASSUME TypeOK, NEW p \in Publisher, End(p)
  PROVE  /\ \A d \in Directory : owner'[d] # p /\ (owner'[d] # NoPublisher => owner'[d] = owner[d])
         /\ \A q \in Publisher \ {p} :
              /\ pc'[q] = pc[q] /\ job'[q] = job[q] /\ run'[q] = run[q] /\ done'[q] = done[q]
              /\ captured'[q] = captured[q] /\ originals'[q] = originals[q]
              /\ \A d \in Directory : owner'[d] = q <=> owner[d] = q
         /\ pc'[p] = "idle" /\ job'[p] = NoJob /\ done'[p] = 0 /\ captured'[p] = Nothing
  BY PublisherAssumption DEF End, TypeOK

------------------------------------------------------------------------------
\* The initial state satisfies the invariant.
LEMMA InitIInv == Init => IInv
  <1> SUFFICES ASSUME Init PROVE IInv
    OBVIOUS
  <1>1. Nothing \in Partly(Path)
    BY DEF Nothing, Partly
  <1>2. TypeOK
    BY <1>1 DEF Init, TypeOK
  <1>3. BatchOK
    BY DEF Init, BatchOK, Active, NoJob, Nothing
  <1> QED
    BY <1>2, <1>3
       DEF Init, IInv, LocksOK, ProgressOK, OriginalsOK, WholeOK, Active, SourcesHoldWhilePublished

\* Partial functions of files.
LEMMA PartlyFacts ==
  /\ Nothing \in Partly(Path)
  /\ \A T \in SUBSET Path : \A g \in [T -> Nat] : g \in Partly(Path)
  /\ \A g \in Partly(Path) : DOMAIN g \subseteq Path /\ g \in [DOMAIN g -> Nat]
  BY DEF Nothing, Partly

\* The state is well formed after every step.
LEMMA NextTypeOK == IInv /\ [Next]_vars => TypeOK'
  <1> SUFFICES ASSUME IInv, [Next]_vars PROVE TypeOK'
    OBVIOUS
  <1> USE DEF IInv
  <1>1. ASSUME NEW p \in Publisher, Start(p) PROVE TypeOK'
    BY <1>1 DEF Start, TypeOK, Go, batches
  <1>2. ASSUME NEW p \in Publisher, Capture(p) PROVE TypeOK'
    <2>1. PICK f \in job[p].sources \ DOMAIN captured[p] :
            captured' = [captured EXCEPT ![p] =
                           [g \in DOMAIN captured[p] \cup {f} |->
                              IF g = f THEN content[f] ELSE captured[p][g]]]
      BY <1>2 DEF Capture
    <2> DEFINE T == DOMAIN captured[p] \cup {f}
               c == [g \in T |-> IF g = f THEN content[f] ELSE captured[p][g]]
    <2>2. T \subseteq Path /\ f \in Path /\ captured[p] \in [DOMAIN captured[p] -> Nat]
      BY <1>2, JobFacts, PartlyFacts DEF Capture, TypeOK
    <2>3. c \in [T -> Nat]
      BY <2>2 DEF TypeOK
    <2>4. c \in Partly(Path)
      BY <2>2, <2>3, PartlyFacts
    <2> QED BY <1>2, <2>1, <2>4 DEF Capture, TypeOK
  <1>3. ASSUME NEW p \in Publisher, Publish(p) PROVE TypeOK'
    BY <1>3 DEF Publish, TypeOK, Go, batches
  <1>4. ASSUME NEW p \in Publisher, LockNext(p) PROVE TypeOK'
    BY <1>4 DEF LockNext, TypeOK, Go, batches
  <1>5. ASSUME NEW p \in Publisher, Check(p) PROVE TypeOK'
    <2>1. CASE \A f \in job[p].sources : content[f] = captured[p][f]
      <3> DEFINE o == [f \in OutputsOf(job[p]) |-> content[f]]
      <3>1. o \in [OutputsOf(job[p]) -> Nat] /\ OutputsOf(job[p]) \in SUBSET Path
        BY <1>5, JobFacts DEF Check, TypeOK
      <3>2. o \in Partly(Path)
        BY <3>1, PartlyFacts
      <3>3. originals' = [originals EXCEPT ![p] = o]
        BY <1>5, <2>1 DEF Check
      <3> HIDE DEF o
      <3> QED BY <1>5, <2>1, <3>2, <3>3 DEF Check, TypeOK, Go
    <2>2. CASE ~(\A f \in job[p].sources : content[f] = captured[p][f])
      <3>1. End(p) /\ UNCHANGED <<content, runs, broken>>
        BY <1>5, <2>2 DEF Check
      <3> QED BY <3>1, PartlyFacts DEF TypeOK, End
    <2> QED BY <2>1, <2>2
  <1>6. ASSUME NEW p \in Publisher, WriteNext(p) PROVE TypeOK'
    <2>1. content' = [content EXCEPT ![job[p].outputs[done[p] + 1]] = run[p]]
      BY <1>6 DEF WriteNext
    <2>2. content' \in [Path -> Nat]
      BY <2>1 DEF TypeOK
    <2>3. done' \in [Publisher -> Nat]
      BY <1>6 DEF WriteNext, TypeOK
    <2> QED BY <1>6, <2>2, <2>3 DEF WriteNext, TypeOK
  <1>7. ASSUME NEW p \in Publisher, Finish(p) PROVE TypeOK'
    BY <1>7, PartlyFacts DEF Finish, TypeOK, End
  <1>8. ASSUME NEW p \in Publisher, WriteFails(p) PROVE TypeOK'
    BY <1>8 DEF WriteFails, TypeOK, Go, batches
  <1>9. ASSUME NEW p \in Publisher, RestoreNext(p) PROVE TypeOK'
    <2>1. CASE done[p] = 0
      <3>1. End(p) /\ UNCHANGED <<content, runs, broken>>
        BY <1>9, <2>1 DEF RestoreNext
      <3> QED BY <3>1, PartlyFacts DEF TypeOK, End
    <2>2. CASE done[p] # 0
      <3>1. originals[p][job[p].outputs[done[p]]] \in Nat
        <4>1. DOMAIN originals[p] = OutputsOf(job[p]) /\ done[p] \in DOMAIN job[p].outputs
          BY <1>9, <2>2, JobFacts DEF RestoreNext, BatchOK, Active, TypeOK
        <4>2. originals[p] \in [DOMAIN originals[p] -> Nat]
          BY PartlyFacts DEF TypeOK
        <4> QED BY <4>1, <4>2 DEF OutputsOf
      <3>2. done[p] - 1 \in Nat
        BY <2>2 DEF TypeOK
      <3> QED BY <1>9, <2>2, <3>1, <3>2 DEF RestoreNext, TypeOK
    <2> QED BY <2>1, <2>2
  <1>10. ASSUME NEW p \in Publisher, GiveUp(p) PROVE TypeOK'
    BY <1>10, PartlyFacts DEF GiveUp, TypeOK, End
  <1>11. ASSUME NEW p \in Publisher, CutShort(p) PROVE TypeOK'
    <2>1. OutputsOf(job[p]) \subseteq Path
      BY <1>11, JobFacts DEF CutShort
    <2>2. End(p) /\ UNCHANGED <<content, runs>> /\ broken' \subseteq Path
      BY <1>11, <2>1 DEF CutShort, TypeOK
    <2> QED BY <2>2, PartlyFacts DEF TypeOK, End
  <1>12. CASE UNCHANGED vars
    BY <1>12 DEF vars, batches, TypeOK
  <1> QED BY <1>1, <1>2, <1>3, <1>4, <1>5, <1>6, <1>7, <1>8, <1>9, <1>10, <1>11, <1>12 DEF Next

\* The end of a batch forgets it.
LEMMA EndBatchOK ==
  ASSUME IInv, NEW p \in Publisher, End(p)
  PROVE  BatchOK'
  BY EndFrees DEF IInv, BatchOK, Active, NoJob, Nothing

\* Each phase has what it needs of its batch.
LEMMA NextBatchOK == IInv /\ [Next]_vars => BatchOK'
  <1> SUFFICES ASSUME IInv, [Next]_vars PROVE BatchOK'
    OBVIOUS
  <1> USE DEF IInv
  <1>1. ASSUME NEW p \in Publisher, Start(p) PROVE BatchOK'
    <2>1. pc'[p] = "capture" /\ job'[p] \in Job
      BY <1>1 DEF Start, TypeOK, Go
    <2>2. \A q \in Publisher \ {p} : pc'[q] = pc[q] /\ job'[q] = job[q]
      BY <1>1 DEF Start, TypeOK, Go
    <2>3. Len(job'[p].outputs) \in Nat
      BY <2>1, JobAssumption
    <2>4. done'[p] = 0 /\ DOMAIN captured'[p] = {}
      BY <1>1 DEF Start, BatchOK, NoJob
    <2> QED BY <1>1, <2>1, <2>2, <2>3, <2>4 DEF Start, BatchOK, Active
  <1>2. ASSUME NEW p \in Publisher, Capture(p) PROVE BatchOK'
    <2>1. \A q \in Publisher : DOMAIN captured'[q] \subseteq job[q].sources
      BY <1>2 DEF Capture, BatchOK, TypeOK
    <2>2. \A q \in Publisher \ {p} : captured'[q] = captured[q]
      BY <1>2 DEF Capture, TypeOK
    <2> QED BY <1>2, <2>1, <2>2 DEF Capture, BatchOK, Active, TypeOK
  <1>3. ASSUME NEW p \in Publisher, Publish(p) PROVE BatchOK'
    BY <1>3, JobFacts DEF Publish, BatchOK, Active, TypeOK, Go, batches
  <1>4. ASSUME NEW p \in Publisher, LockNext(p) PROVE BatchOK'
    BY <1>4, JobFacts DEF LockNext, BatchOK, Active, TypeOK, Go, batches
  <1>5. ASSUME NEW p \in Publisher, Check(p) PROVE BatchOK'
    <2>1. CASE \A f \in job[p].sources : content[f] = captured[p][f]
      BY <1>5, <2>1, JobFacts DEF Check, BatchOK, Active, TypeOK, Go
    <2>2. CASE ~(\A f \in job[p].sources : content[f] = captured[p][f])
      <3>1. End(p)
        BY <1>5, <2>2 DEF Check
      <3> QED BY <3>1, EndBatchOK
    <2> QED BY <2>1, <2>2
  <1>6. ASSUME NEW p \in Publisher, WriteNext(p) PROVE BatchOK'
    BY <1>6, JobFacts DEF WriteNext, BatchOK, Active, TypeOK, Go, batches
  <1>7. ASSUME NEW p \in Publisher, Finish(p) PROVE BatchOK'
    <2>1. End(p)
      BY <1>7 DEF Finish
    <2> QED BY <2>1, EndBatchOK
  <1>8. ASSUME NEW p \in Publisher, WriteFails(p) PROVE BatchOK'
    BY <1>8, JobFacts DEF WriteFails, BatchOK, Active, TypeOK, Go, batches
  <1>9. ASSUME NEW p \in Publisher, RestoreNext(p) PROVE BatchOK'
    <2>1. CASE done[p] = 0
      <3>1. End(p)
        BY <1>9, <2>1 DEF RestoreNext
      <3> QED BY <3>1, EndBatchOK
    <2>2. CASE done[p] # 0
      BY <1>9, <2>2, JobFacts DEF RestoreNext, BatchOK, Active, TypeOK
    <2> QED BY <2>1, <2>2
  <1>10. ASSUME NEW p \in Publisher, GiveUp(p) PROVE BatchOK'
    <2>1. End(p)
      BY <1>10 DEF GiveUp
    <2> QED BY <2>1, EndBatchOK
  <1>11. ASSUME NEW p \in Publisher, CutShort(p) PROVE BatchOK'
    <2>1. End(p)
      BY <1>11 DEF CutShort
    <2> QED BY <2>1, EndBatchOK
  <1>12. CASE UNCHANGED vars
    BY <1>12 DEF vars, batches, BatchOK, Active
  <1> QED BY <1>1, <1>2, <1>3, <1>4, <1>5, <1>6, <1>7, <1>8, <1>9, <1>10, <1>11, <1>12 DEF Next

\* The end of a batch leaves the others with their locks.
LEMMA EndLocksOK ==
  ASSUME IInv, NEW p \in Publisher, End(p)
  PROVE  LocksOK'
  <1> USE DEF IInv
  <1>1. \A d \in Directory : owner'[d] # p /\ (owner'[d] # NoPublisher => owner'[d] = owner[d])
    BY EndFrees
  <1>2. \A q \in Publisher \ {p} : pc'[q] = pc[q] /\ job'[q] = job[q]
    BY EndFrees
  <1>3. pc'[p] = "idle"
    BY EndFrees
  <1>4. \A q \in Publisher \ {p} : Directories(job[q])' = Directories(job[q])
    BY <1>2 DEF Directories, OutputsOf
  <1>5. \A q \in Publisher \ {p} : pc[q] # "idle" => Unlocked(q)' = Unlocked(q)
    <2> SUFFICES ASSUME NEW q \in Publisher \ {p}, pc[q] # "idle"
                 PROVE  Unlocked(q)' = Unlocked(q)
      OBVIOUS
    <2>1. Directories(job[q]) \subseteq Directory
      BY JobFacts
    <2>2. \A d \in Directory : owner'[d] = q <=> owner[d] = q
      BY EndFrees
    <2> QED BY <1>4, <2>1, <2>2 DEF Unlocked
  <1>6. ASSUME NEW d \in Directory, owner'[d] # NoPublisher
        PROVE  /\ (pc[owner[d]] = "lock" \/ Active(owner[d]))'
               /\ d \in Directories(job[owner[d]])'
    <2>1. owner'[d] = owner[d] /\ owner[d] \in Publisher \ {p}
      BY <1>6, <1>1 DEF TypeOK
    <2>2. pc[owner[d]] = "lock" \/ Active(owner[d])
      BY <1>6, <2>1 DEF LocksOK
    <2>3. d \in Directories(job[owner[d]])
      BY <1>6, <2>1 DEF LocksOK
    <2>4. Directories(job'[owner'[d]]) = Directories(job[owner[d]])
      BY <1>2, <2>1
    <2> QED BY <2>1, <2>2, <2>3, <2>4, <1>2 DEF Active
  <1>7. ASSUME NEW q \in Publisher, Active(q)' PROVE Unlocked(q)' = {}
    BY <1>7, <1>2, <1>3, <1>5 DEF LocksOK, Active
  <1>8. ASSUME NEW q \in Publisher, pc'[q] = "lock",
               NEW d \in Directories(job[q])' \ Unlocked(q)', NEW e \in Unlocked(q)'
        PROVE  d < e
    BY <1>8, <1>2, <1>3, <1>4, <1>5 DEF LocksOK
  <1> QED BY <1>6, <1>7, <1>8 DEF LocksOK

\* Locks come in order and are only held by who wants them.
LEMMA NextLocksOK == IInv /\ [Next]_vars => LocksOK'
  <1> SUFFICES ASSUME IInv, [Next]_vars PROVE LocksOK'
    OBVIOUS
  <1> USE DEF IInv
  <1>1. ASSUME NEW p \in Publisher, Start(p) PROVE LocksOK'
    <2>1. \A q \in Publisher \ {p} : pc'[q] = pc[q] /\ job'[q] = job[q]
      BY <1>1 DEF Start, Go, TypeOK
    <2>2. \A d \in Directory : owner[d] # p
      BY <1>1, PublisherAssumption DEF Start, LocksOK, Active
    <2>3. pc'[p] = "capture" /\ owner' = owner
      BY <1>1 DEF Start, Go, TypeOK
    <2> QED BY <2>1, <2>2, <2>3 DEF LocksOK, Active, Unlocked, Directories, OutputsOf, TypeOK
  <1>2. ASSUME NEW p \in Publisher, Capture(p) PROVE LocksOK'
    BY <1>2
       DEF Capture, LocksOK, Active, Unlocked, Directories, OutputsOf, Go, batches, TypeOK
  <1>3. ASSUME NEW p \in Publisher, Publish(p) PROVE LocksOK'
    <2>1. \A q \in Publisher \ {p} : pc'[q] = pc[q]
      BY <1>3 DEF Publish, Go, TypeOK
    <2>2. \A d \in Directory : owner[d] # p
      BY <1>3, PublisherAssumption DEF Publish, LocksOK, Active
    <2>3. pc'[p] = "lock" /\ owner' = owner /\ job' = job
      BY <1>3 DEF Publish, Go, TypeOK
    <2>4. Directories(job[p])' \subseteq Directory
      BY <1>3, <2>3, JobFacts DEF Publish, Directories, OutputsOf
    <2>5. Unlocked(p)' = Directories(job[p])'
      BY <2>2, <2>3, <2>4 DEF Unlocked
    <2> QED BY <2>1, <2>2, <2>3, <2>5 DEF LocksOK, Active, Unlocked, Directories, OutputsOf, TypeOK
  <1>4. ASSUME NEW p \in Publisher, LockNext(p) PROVE LocksOK'
    <2> DEFINE n == NextLock(p)
    <2>1. pc[p] = "lock" /\ n \in Unlocked(p) /\ \A e \in Unlocked(p) : n <= e
      BY <1>4, NextLockIsLeast DEF LockNext
    <2>2. n \in Directory /\ owner[n] = NoPublisher /\ owner' = [owner EXCEPT ![n] = p]
      BY <1>4, <2>1, JobFacts DEF LockNext, Unlocked
    <2>3. UNCHANGED <<pc, job>>
      BY <1>4 DEF LockNext, batches
    <2> HIDE DEF n
    <2>4. \A d \in Directory : owner'[d] = IF d = n THEN p ELSE owner[d]
      BY <2>2 DEF TypeOK
    <2>5. \A q \in Publisher : q # p /\ pc[q] # "idle" => Unlocked(q)' = Unlocked(q)
      <3> SUFFICES ASSUME NEW q \in Publisher, q # p, pc[q] # "idle"
                   PROVE  Unlocked(q)' = Unlocked(q)
        OBVIOUS
      <3>1. Directories(job[q]) \subseteq Directory /\ Directories(job[q])' = Directories(job[q])
        BY JobFacts, <2>3 DEF Directories, OutputsOf
      <3> QED BY <3>1, <2>2, <2>3, <2>4, PublisherAssumption DEF Unlocked
    <2>6. Unlocked(p)' = Unlocked(p) \ {n} /\ Directories(job[p])' = Directories(job[p])
            /\ Directories(job[p]) \subseteq Nat
      <3>1. Directories(job[p]) \subseteq Directory /\ Directories(job[p])' = Directories(job[p])
        BY <2>1, JobFacts, <2>3 DEF Directories, OutputsOf
      <3> QED BY <3>1, <2>1, <2>3, <2>4, DirectoriesAreNumbers DEF Unlocked
    <2>7. \A q \in Publisher : Directories(job[q])' = Directories(job[q])
      BY <2>3 DEF Directories, OutputsOf
    <2>8. ASSUME NEW d \in Directory, owner'[d] # NoPublisher
          PROVE  /\ (pc[owner[d]] = "lock" \/ Active(owner[d]))'
                 /\ d \in Directories(job[owner[d]])'
      BY <2>8, <2>1, <2>3, <2>4, <2>7 DEF LocksOK, Active, Unlocked, Directories, OutputsOf
    <2>9. ASSUME NEW q \in Publisher, Active(q)' PROVE Unlocked(q)' = {}
      BY <2>9, <2>1, <2>3, <2>5 DEF LocksOK, Active
    <2>10. ASSUME NEW q \in Publisher, pc'[q] = "lock",
                  NEW d \in Directories(job[q])' \ Unlocked(q)', NEW e \in Unlocked(q)'
           PROVE  d < e
      <3>1. CASE q = p
        BY <2>10, <3>1, <2>1, <2>6 DEF LocksOK, Unlocked
      <3>2. CASE q # p
        BY <2>10, <3>2, <2>3, <2>5, <2>7 DEF LocksOK
      <3> QED BY <3>1, <3>2
    <2> QED BY <2>8, <2>9, <2>10 DEF LocksOK
  <1>5. ASSUME NEW p \in Publisher, Check(p) PROVE LocksOK'
    <2>1. CASE ~(\A f \in job[p].sources : content[f] = captured[p][f])
      <3>1. End(p)
        BY <1>5, <2>1 DEF Check
      <3> QED BY <3>1, EndLocksOK
    <2>2. CASE \A f \in job[p].sources : content[f] = captured[p][f]
      BY <1>5, <2>2 DEF Check, LocksOK, Active, Unlocked, Directories, OutputsOf, Go, TypeOK
    <2> QED BY <2>1, <2>2
  <1>6. ASSUME NEW p \in Publisher, WriteNext(p) PROVE LocksOK'
    BY <1>6
       DEF WriteNext, LocksOK, Active, Unlocked, Directories, OutputsOf, Go, batches,
           TypeOK
  <1>7. ASSUME NEW p \in Publisher, Finish(p) PROVE LocksOK'
    <2>1. End(p)
      BY <1>7 DEF Finish
    <2> QED BY <2>1, EndLocksOK
  <1>8. ASSUME NEW p \in Publisher, WriteFails(p) PROVE LocksOK'
    <2>1. \A q \in Publisher \ {p} : pc'[q] = pc[q]
      BY <1>8 DEF WriteFails, Go, TypeOK
    <2>2. pc[p] = "write" /\ pc'[p] = "restore" /\ owner' = owner /\ job' = job
      BY <1>8 DEF WriteFails, Go, TypeOK
    <2>3. \A q \in Publisher : Directories(job[q])' = Directories(job[q])
                               /\ Unlocked(q)' = Unlocked(q)
      BY <2>2 DEF Unlocked, Directories, OutputsOf
    <2>4. \A q \in Publisher : Active(q)' => Active(q)
      BY <2>1, <2>2 DEF Active
    <2>5. \A q \in Publisher : pc'[q] = "lock" => pc[q] = "lock"
      BY <2>1, <2>2
    <2>6. ASSUME NEW d \in Directory, owner'[d] # NoPublisher
          PROVE  /\ (pc[owner[d]] = "lock" \/ Active(owner[d]))'
                 /\ d \in Directories(job[owner[d]])'
      <3>1. owner[d] \in Publisher /\ owner'[d] = owner[d]
        BY <2>2, <2>6 DEF TypeOK
      <3>2. (pc[owner[d]] = "lock" \/ Active(owner[d])) /\ d \in Directories(job[owner[d]])
        BY <2>6, <3>1 DEF LocksOK
      <3> QED BY <2>1, <2>2, <2>3, <3>1, <3>2 DEF Active
    <2> QED BY <2>3, <2>4, <2>5, <2>6 DEF LocksOK
  <1>9. ASSUME NEW p \in Publisher, RestoreNext(p) PROVE LocksOK'
    <2>1. CASE done[p] = 0
      <3>1. End(p)
        BY <1>9, <2>1 DEF RestoreNext
      <3> QED BY <3>1, EndLocksOK
    <2>2. CASE ~(done[p] = 0)
      BY <1>9, <2>2 DEF RestoreNext, LocksOK, Active, Unlocked, Directories, OutputsOf
    <2> QED BY <2>1, <2>2
  <1>10. ASSUME NEW p \in Publisher, GiveUp(p) PROVE LocksOK'
    <2>1. End(p)
      BY <1>10 DEF GiveUp
    <2> QED BY <2>1, EndLocksOK
  <1>11. ASSUME NEW p \in Publisher, CutShort(p) PROVE LocksOK'
    <2>1. End(p)
      BY <1>11 DEF CutShort
    <2> QED BY <2>1, EndLocksOK
  <1>12. CASE UNCHANGED vars
    BY <1>12 DEF vars, batches, LocksOK, Active, Unlocked, Directories, OutputsOf
  <1> QED BY <1>1, <1>2, <1>3, <1>4, <1>5, <1>6, <1>7, <1>8, <1>9, <1>10, <1>11, <1>12 DEF Next

\* Nothing changes for the batches that do not step.
LEMMA EndProgressOK ==
  ASSUME IInv, NEW p \in Publisher, End(p), UNCHANGED content
  PROVE  ProgressOK'
  <1>1. \A q \in Publisher \ {p} : pc'[q] = pc[q] /\ job'[q] = job[q] /\ run'[q] = run[q]
                                  /\ originals'[q] = originals[q] /\ done'[q] = done[q]
    BY EndFrees DEF IInv
  <1>2. pc'[p] = "idle"
    BY EndFrees DEF IInv
  <1> QED BY <1>1, <1>2 DEF IInv, ProgressOK, Active

\* A batch that has all its locks is alone with its outputs.
LEMMA OnlyWriter ==
  ASSUME IInv, NEW p \in Publisher, Unlocked(p) = {}, NEW f \in OutputsOf(job[p])
  PROVE  \A q \in Publisher \ {p} : Active(q) => f \notin OutputsOf(job[q]) /\ f \notin job[q].sources
  BY Exclusion DEF IInv, LocksOK

\* Outputs have the batch's run once written, and what they had before until then.
LEMMA NextProgressOK == IInv /\ [Next]_vars => ProgressOK'
  <1> SUFFICES ASSUME IInv, [Next]_vars PROVE ProgressOK'
    OBVIOUS
  <1> USE DEF IInv
  <1>1. ASSUME NEW p \in Publisher, Start(p) PROVE ProgressOK'
    <2>1. \A q \in Publisher \ {p} : pc'[q] = pc[q] /\ job'[q] = job[q] /\ run'[q] = run[q]
      BY <1>1 DEF Start, Go, TypeOK
    <2>2. pc'[p] = "capture" /\ UNCHANGED <<content, originals, done>>
      BY <1>1 DEF Start, Go, TypeOK
    <2> QED BY <2>1, <2>2 DEF ProgressOK, Active
  <1>2. ASSUME NEW p \in Publisher, Capture(p) PROVE ProgressOK'
    BY <1>2 DEF Capture, ProgressOK, Active, Go, batches, TypeOK
  <1>3. ASSUME NEW p \in Publisher, Publish(p) PROVE ProgressOK'
    <2>1. \A q \in Publisher : Active(q)' => Active(q)
      BY <1>3 DEF Publish, Go, TypeOK, Active
    <2>2. UNCHANGED <<content, job, run, originals, done>>
      BY <1>3 DEF Publish
    <2> QED BY <2>1, <2>2 DEF ProgressOK
  <1>4. ASSUME NEW p \in Publisher, LockNext(p) PROVE ProgressOK'
    BY <1>4 DEF LockNext, ProgressOK, Active, Go, batches, TypeOK
  <1>5. ASSUME NEW p \in Publisher, Check(p) PROVE ProgressOK'
    <2>1. CASE ~(\A f \in job[p].sources : content[f] = captured[p][f])
      <3>1. End(p) /\ UNCHANGED <<content, broken>>
        BY <1>5, <2>1 DEF Check
      <3> QED BY <3>1, EndProgressOK
    <2>2. CASE \A f \in job[p].sources : content[f] = captured[p][f]
      <3>1. \A q \in Publisher \ {p} : pc'[q] = pc[q] /\ originals'[q] = originals[q]
        BY <1>5, <2>2 DEF Check, Go, TypeOK
      <3>2. originals'[p] = [f \in OutputsOf(job[p]) |-> content[f]] /\ done'[p] = 0
        BY <1>5, <2>2 DEF Check, TypeOK, BatchOK
      <3>3. UNCHANGED <<content, job, run, done>>
        BY <1>5, <2>2 DEF Check
      <3>4. ASSUME NEW i \in DOMAIN job[p].outputs
            PROVE  content[job[p].outputs[i]] = originals'[p][job[p].outputs[i]] /\ ~(i <= 0)
        <4>1. job[p].outputs[i] \in OutputsOf(job[p]) /\ i \in 1 .. Len(job[p].outputs)
          BY <1>5, JobFacts DEF Check
        <4> QED BY <3>2, <4>1, JobFacts, <1>5 DEF Check
      <3> QED BY <3>1, <3>2, <3>3, <3>4 DEF ProgressOK, Active
    <2> QED BY <2>1, <2>2
  <1>6. ASSUME NEW p \in Publisher, WriteNext(p) PROVE ProgressOK'
    <2>1. PICK k \in DOMAIN job[p].outputs : k = done[p] + 1 /\ job[p].outputs[k] \in Path
      BY <1>6, JobFacts DEF WriteNext, TypeOK, BatchOK, Active
    <2> DEFINE f == job[p].outputs[k]
    <2>2. f \in OutputsOf(job[p]) /\ Unlocked(p) = {}
      BY <1>6, <2>1, JobFacts DEF WriteNext, LocksOK, Active
    <2>3. content' = [content EXCEPT ![f] = run[p]] /\ done' = [done EXCEPT ![p] = @ + 1]
      BY <1>6, <2>1 DEF WriteNext
    <2>4. UNCHANGED <<pc, job, run, originals>>
      BY <1>6 DEF WriteNext
    <2>5. ASSUME NEW q \in Publisher \ {p}, Active(q), NEW i \in DOMAIN job[q].outputs
          PROVE  content'[job[q].outputs[i]] = content[job[q].outputs[i]] /\ done'[q] = done[q]
      <3>1. job[q].outputs[i] \in OutputsOf(job[q]) /\ job[q].outputs[i] \in Path
        BY <2>5, JobFacts DEF Active
      <3>2. job[q].outputs[i] # f
        BY <2>2, <2>5, <3>1, OnlyWriter
      <3> QED BY <2>3, <3>1, <3>2 DEF TypeOK
    <2>6. ASSUME NEW i \in DOMAIN job[p].outputs
          PROVE  content'[job[p].outputs[i]] = IF i <= done'[p] THEN run[p]
                                               ELSE originals[p][job[p].outputs[i]]
      <3>1. i \in Nat /\ k \in Nat /\ done'[p] = done[p] + 1 /\ done[p] \in Nat
        BY <1>6, <2>1, <2>3, JobFacts DEF WriteNext, TypeOK
      <3>2. job[p].outputs[i] \in Path /\ (job[p].outputs[i] = f <=> i = k)
        BY <1>6, <2>1, JobFacts DEF WriteNext
      <3>3. CASE i = k
        <4>1. content'[f] = run[p]
          BY <2>1, <2>3 DEF TypeOK
        <4> QED BY <3>1, <3>3, <2>1, <4>1
      <3>4. CASE i # k
        <4>1. content'[job[p].outputs[i]] = content[job[p].outputs[i]]
          BY <2>3, <3>2, <3>4 DEF TypeOK
        <4>2. content[job[p].outputs[i]] = IF i <= done[p] THEN run[p]
                                           ELSE originals[p][job[p].outputs[i]]
          BY <1>6 DEF WriteNext, ProgressOK, Active
        <4> QED BY <3>1, <3>4, <2>1, <4>1, <4>2
      <3> QED BY <3>3, <3>4
    <2> HIDE DEF f
    <2> QED BY <2>4, <2>5, <2>6 DEF ProgressOK, Active
  <1>7. ASSUME NEW p \in Publisher, Finish(p) PROVE ProgressOK'
    <2>1. End(p) /\ UNCHANGED content
      BY <1>7 DEF Finish
    <2> QED BY <2>1, EndProgressOK
  <1>8. ASSUME NEW p \in Publisher, WriteFails(p) PROVE ProgressOK'
    <2>1. \A q \in Publisher : Active(q)' => Active(q)
      BY <1>8 DEF WriteFails, Go, TypeOK, Active
    <2>2. UNCHANGED <<content, job, run, originals, done>>
      BY <1>8 DEF WriteFails
    <2> QED BY <2>1, <2>2 DEF ProgressOK
  <1>9. ASSUME NEW p \in Publisher, RestoreNext(p) PROVE ProgressOK'
    <2>1. CASE done[p] = 0
      <3>1. End(p) /\ UNCHANGED <<content, broken>>
        BY <1>9, <2>1 DEF RestoreNext
      <3> QED BY <3>1, EndProgressOK
    <2>2. CASE ~(done[p] = 0)
      <3>1. PICK k \in DOMAIN job[p].outputs : k = done[p] /\ job[p].outputs[k] \in Path
        BY <1>9, <2>2, JobFacts DEF RestoreNext, TypeOK, BatchOK, Active
      <3> DEFINE f == job[p].outputs[k]
      <3>2. f \in OutputsOf(job[p]) /\ Unlocked(p) = {}
        BY <1>9, <3>1, JobFacts DEF RestoreNext, LocksOK, Active
      <3>3. content' = [content EXCEPT ![f] = originals[p][f]] /\ done' = [done EXCEPT ![p] = @ - 1]
        BY <1>9, <2>2, <3>1 DEF RestoreNext
      <3>4. UNCHANGED <<pc, job, run, originals>>
        BY <1>9, <2>2 DEF RestoreNext
      <3>5. ASSUME NEW q \in Publisher \ {p}, Active(q), NEW i \in DOMAIN job[q].outputs
            PROVE  content'[job[q].outputs[i]] = content[job[q].outputs[i]] /\ done'[q] = done[q]
        <4>1. job[q].outputs[i] \in OutputsOf(job[q]) /\ job[q].outputs[i] \in Path
          BY <3>5, JobFacts DEF Active
        <4>2. job[q].outputs[i] # f
          BY <3>2, <3>5, <4>1, OnlyWriter
        <4> QED BY <3>3, <4>1, <4>2 DEF TypeOK
      <3>6. ASSUME NEW i \in DOMAIN job[p].outputs
            PROVE  content'[job[p].outputs[i]] = IF i <= done'[p] THEN run[p]
                                                 ELSE originals[p][job[p].outputs[i]]
        <4>1. i \in Nat /\ k \in Nat /\ done'[p] = done[p] - 1 /\ done[p] \in Nat
          BY <1>9, <3>1, <3>3, JobFacts DEF RestoreNext, TypeOK
        <4>2. job[p].outputs[i] \in Path /\ (job[p].outputs[i] = f <=> i = k)
          BY <1>9, <3>1, JobFacts DEF RestoreNext
        <4>3. CASE i = k
          <5>1. content'[f] = originals[p][f]
            BY <3>1, <3>3 DEF TypeOK
          <5> QED BY <4>1, <4>3, <3>1, <5>1
        <4>4. CASE i # k
          <5>1. content'[job[p].outputs[i]] = content[job[p].outputs[i]]
            BY <3>3, <4>2, <4>4 DEF TypeOK
          <5>2. content[job[p].outputs[i]] = IF i <= done[p] THEN run[p]
                                             ELSE originals[p][job[p].outputs[i]]
            BY <1>9 DEF RestoreNext, ProgressOK, Active
          <5> QED BY <4>1, <4>4, <3>1, <5>1, <5>2
        <4> QED BY <4>3, <4>4
      <3> HIDE DEF f
      <3> QED BY <3>4, <3>5, <3>6 DEF ProgressOK, Active
    <2> QED BY <2>1, <2>2
  <1>10. ASSUME NEW p \in Publisher, GiveUp(p) PROVE ProgressOK'
    <2>1. End(p) /\ UNCHANGED content
      BY <1>10 DEF GiveUp
    <2> QED BY <2>1, EndProgressOK
  <1>11. ASSUME NEW p \in Publisher, CutShort(p) PROVE ProgressOK'
    <2>1. End(p) /\ UNCHANGED content
      BY <1>11 DEF CutShort
    <2> QED BY <2>1, EndProgressOK
  <1>12. CASE UNCHANGED vars
    BY <1>12 DEF vars, batches, ProgressOK, Active
  <1> QED BY <1>1, <1>2, <1>3, <1>4, <1>5, <1>6, <1>7, <1>8, <1>9, <1>10, <1>11, <1>12 DEF Next

\* The sources of a batch hold still under its locks.
LEMMA NextSources == IInv /\ [Next]_vars => SourcesHoldWhilePublished'
  <1> SUFFICES ASSUME IInv, [Next]_vars PROVE SourcesHoldWhilePublished'
    OBVIOUS
  <1> USE DEF IInv
  <1>1. ASSUME NEW p \in Publisher, Start(p) PROVE SourcesHoldWhilePublished'
    <2>1. \A q \in Publisher : pc'[q] = "write" => pc[q] = "write" /\ job'[q] = job[q]
      BY <1>1 DEF Start, Go, TypeOK
    <2>2. UNCHANGED <<content, captured>>
      BY <1>1 DEF Start
    <2> QED BY <2>1, <2>2 DEF SourcesHoldWhilePublished, OutputsOf
  <1>2. ASSUME NEW p \in Publisher, Capture(p) PROVE SourcesHoldWhilePublished'
    <2>1. \A q \in Publisher : pc[q] = "write" => captured'[q] = captured[q]
      BY <1>2 DEF Capture, TypeOK
    <2> QED BY <1>2, <2>1 DEF Capture, SourcesHoldWhilePublished, OutputsOf
  <1>3. ASSUME NEW p \in Publisher, Publish(p) PROVE SourcesHoldWhilePublished'
    <2>1. \A q \in Publisher : pc'[q] = "write" => pc[q] = "write" /\ job'[q] = job[q]
      BY <1>3 DEF Publish, Go, TypeOK
    <2>2. UNCHANGED <<content, captured>>
      BY <1>3 DEF Publish
    <2> QED BY <2>1, <2>2 DEF SourcesHoldWhilePublished, OutputsOf
  <1>4. ASSUME NEW p \in Publisher, LockNext(p) PROVE SourcesHoldWhilePublished'
    BY <1>4 DEF LockNext, SourcesHoldWhilePublished, OutputsOf, batches
  <1>5. ASSUME NEW p \in Publisher, Check(p) PROVE SourcesHoldWhilePublished'
    <2>1. CASE ~(\A f \in job[p].sources : content[f] = captured[p][f])
      <3>1. End(p) /\ UNCHANGED <<content, broken>>
        BY <1>5, <2>1 DEF Check
      <3> QED BY <3>1, EndFrees DEF SourcesHoldWhilePublished, OutputsOf
    <2>2. CASE \A f \in job[p].sources : content[f] = captured[p][f]
      BY <1>5, <2>2 DEF Check, Go, SourcesHoldWhilePublished, TypeOK, OutputsOf
    <2> QED BY <2>1, <2>2
  <1>6. ASSUME NEW p \in Publisher, WriteNext(p) PROVE SourcesHoldWhilePublished'
    <2>1. PICK k \in DOMAIN job[p].outputs :
            content' = [content EXCEPT ![job[p].outputs[k]] = run[p]]
      <3>1. done[p] + 1 \in DOMAIN job[p].outputs
        BY <1>6, JobFacts DEF WriteNext, TypeOK, BatchOK, Active
      <3> QED BY <1>6, <3>1 DEF WriteNext
    <2> DEFINE f == job[p].outputs[k]
    <2>2. f \in OutputsOf(job[p]) /\ Unlocked(p) = {}
      BY <1>6, JobFacts DEF WriteNext, LocksOK, Active
    <2>3. UNCHANGED <<pc, job, captured>>
      BY <1>6 DEF WriteNext
    <2> HIDE DEF f
    <2>4. ASSUME NEW q \in Publisher, pc[q] = "write",
                 NEW g \in job[q].sources \ OutputsOf(job[q])
          PROVE  content'[g] = captured[q][g]
      <3>1. g # f
        BY <2>2, <2>4, OnlyWriter DEF Active
      <3>2. g \in Path
        BY <2>4, JobFacts
      <3>3. content'[g] = content[g]
        BY <2>1, <3>1, <3>2 DEF TypeOK, f
      <3> QED BY <2>4, <3>3 DEF SourcesHoldWhilePublished
    <2> QED BY <2>3, <2>4 DEF SourcesHoldWhilePublished, OutputsOf
  <1>7. ASSUME NEW p \in Publisher, Finish(p) PROVE SourcesHoldWhilePublished'
    <2>1. End(p) /\ UNCHANGED content
      BY <1>7 DEF Finish
    <2> QED BY <2>1, EndFrees DEF SourcesHoldWhilePublished, OutputsOf
  <1>8. ASSUME NEW p \in Publisher, WriteFails(p) PROVE SourcesHoldWhilePublished'
    <2>1. \A q \in Publisher : pc'[q] = "write" => pc[q] = "write" /\ job'[q] = job[q]
      BY <1>8 DEF WriteFails, Go, TypeOK
    <2>2. UNCHANGED <<content, captured>>
      BY <1>8 DEF WriteFails
    <2> QED BY <2>1, <2>2 DEF SourcesHoldWhilePublished, OutputsOf
  <1>9. ASSUME NEW p \in Publisher, RestoreNext(p) PROVE SourcesHoldWhilePublished'
    <2>1. CASE done[p] = 0
      <3>1. End(p) /\ UNCHANGED <<content, broken>>
        BY <1>9, <2>1 DEF RestoreNext
      <3> QED BY <3>1, EndFrees DEF SourcesHoldWhilePublished, OutputsOf
    <2>2. CASE ~(done[p] = 0)
      <3>1. PICK k \in DOMAIN job[p].outputs :
              content' = [content EXCEPT ![job[p].outputs[k]] = originals[p][job[p].outputs[k]]]
        <4>1. done[p] \in DOMAIN job[p].outputs
          BY <1>9, <2>2, JobFacts DEF RestoreNext, TypeOK, BatchOK, Active
        <4> QED BY <1>9, <2>2, <4>1 DEF RestoreNext
      <3> DEFINE f == job[p].outputs[k]
      <3>2. f \in OutputsOf(job[p]) /\ Unlocked(p) = {}
        BY <1>9, JobFacts DEF RestoreNext, LocksOK, Active
      <3>3. UNCHANGED <<pc, job, captured>>
        BY <1>9, <2>2 DEF RestoreNext
      <3> HIDE DEF f
      <3>4. ASSUME NEW q \in Publisher, pc[q] = "write",
                   NEW g \in job[q].sources \ OutputsOf(job[q])
            PROVE  content'[g] = captured[q][g]
        <4>1. g # f
          BY <3>2, <3>4, OnlyWriter DEF Active
        <4>2. g \in Path
          BY <3>4, JobFacts
        <4>3. content'[g] = content[g]
          BY <3>1, <4>1, <4>2 DEF TypeOK, f
        <4> QED BY <3>4, <4>3 DEF SourcesHoldWhilePublished
      <3> QED BY <3>3, <3>4 DEF SourcesHoldWhilePublished, OutputsOf
    <2> QED BY <2>1, <2>2
  <1>10. ASSUME NEW p \in Publisher, GiveUp(p) PROVE SourcesHoldWhilePublished'
    <2>1. End(p) /\ UNCHANGED content
      BY <1>10 DEF GiveUp
    <2> QED BY <2>1, EndFrees DEF SourcesHoldWhilePublished, OutputsOf
  <1>11. ASSUME NEW p \in Publisher, CutShort(p) PROVE SourcesHoldWhilePublished'
    <2>1. End(p) /\ UNCHANGED content
      BY <1>11 DEF CutShort
    <2> QED BY <2>1, EndFrees DEF SourcesHoldWhilePublished, OutputsOf
  <1>12. CASE UNCHANGED vars
    BY <1>12 DEF vars, batches, SourcesHoldWhilePublished, OutputsOf
  <1> QED BY <1>1, <1>2, <1>3, <1>4, <1>5, <1>6, <1>7, <1>8, <1>9, <1>10, <1>11, <1>12 DEF Next

\* What batches keep is whole while they keep it.
LEMMA OriginalsStill ==
  ASSUME OriginalsOK, UNCHANGED <<originals, broken>>,
         \A q \in Publisher : Active(q)' => Active(q) /\ job'[q] = job[q]
  PROVE  OriginalsOK'
  <1> SUFFICES ASSUME NEW q \in Publisher, Active(q)',
                      NEW f \in OutputsOf(job'[q]) \ broken', NEW g \in OutputsOf(job'[q]) \ broken',
                      Coupled(f, g)
               PROVE  originals'[q][f] = originals'[q][g]
    BY DEF OriginalsOK, Coupled, OutputsOf
  <1> QED BY DEF OriginalsOK

\* A batch that ends without writing leaves the others what they keep.
LEMMA EndOriginalsOK ==
  ASSUME IInv, NEW p \in Publisher, End(p),
         \A q \in Publisher \ {p} : Active(q) => OutputsOf(job[q]) \ broken' \subseteq OutputsOf(job[q]) \ broken
  PROVE  OriginalsOK'
  <1>1. \A q \in Publisher \ {p} : pc'[q] = pc[q] /\ job'[q] = job[q] /\ originals'[q] = originals[q]
    BY EndFrees DEF IInv
  <1>2. pc'[p] = "idle"
    BY EndFrees DEF IInv
  <1> SUFFICES ASSUME NEW q \in Publisher, Active(q)',
                      NEW f \in OutputsOf(job'[q]) \ broken', NEW g \in OutputsOf(job'[q]) \ broken',
                      Coupled(f, g)
               PROVE  originals'[q][f] = originals'[q][g]
    BY DEF OriginalsOK, Coupled, OutputsOf
  <1>3. q # p /\ Active(q) /\ job'[q] = job[q]
    BY <1>1, <1>2 DEF Active
  <1>4. f \in OutputsOf(job[q]) \ broken /\ g \in OutputsOf(job[q]) \ broken
    BY <1>3
  <1> QED BY <1>1, <1>3, <1>4 DEF IInv, OriginalsOK

\* What a batch would restore is whole.
LEMMA NextOriginalsOK == IInv /\ [Next]_vars => OriginalsOK'
  <1> SUFFICES ASSUME IInv, [Next]_vars PROVE OriginalsOK'
    OBVIOUS
  <1> USE DEF IInv
  <1>1. ASSUME NEW p \in Publisher, Start(p) PROVE OriginalsOK'
    <2>1. \A q \in Publisher : Active(q)' => Active(q) /\ job'[q] = job[q]
      BY <1>1 DEF Start, Go, TypeOK, Active, batches
    <2>2. UNCHANGED <<broken, originals>>
      BY <1>1 DEF Start, batches
    <2> QED BY <2>1, <2>2, OriginalsStill
  <1>2. ASSUME NEW p \in Publisher, Capture(p) PROVE OriginalsOK'
    <2>1. \A q \in Publisher : Active(q)' => Active(q) /\ job'[q] = job[q]
      BY <1>2 DEF Capture, Go, TypeOK, Active, batches
    <2>2. UNCHANGED <<broken, originals>>
      BY <1>2 DEF Capture, batches
    <2> QED BY <2>1, <2>2, OriginalsStill
  <1>3. ASSUME NEW p \in Publisher, Publish(p) PROVE OriginalsOK'
    <2>1. \A q \in Publisher : Active(q)' => Active(q) /\ job'[q] = job[q]
      BY <1>3 DEF Publish, Go, TypeOK, Active, batches
    <2>2. UNCHANGED <<broken, originals>>
      BY <1>3 DEF Publish, batches
    <2> QED BY <2>1, <2>2, OriginalsStill
  <1>4. ASSUME NEW p \in Publisher, LockNext(p) PROVE OriginalsOK'
    <2>1. \A q \in Publisher : Active(q)' => Active(q) /\ job'[q] = job[q]
      BY <1>4 DEF LockNext, Go, TypeOK, Active, batches
    <2>2. UNCHANGED <<broken, originals>>
      BY <1>4 DEF LockNext, batches
    <2> QED BY <2>1, <2>2, OriginalsStill
  <1>5. ASSUME NEW p \in Publisher, Check(p) PROVE OriginalsOK'
    <2>1. CASE ~(\A f \in job[p].sources : content[f] = captured[p][f])
      <3>1. End(p) /\ UNCHANGED <<content, broken>>
        BY <1>5, <2>1 DEF Check
      <3> QED BY <3>1, EndOriginalsOK
    <2>2. CASE \A f \in job[p].sources : content[f] = captured[p][f]
      <3>1. \A q \in Publisher \ {p} : pc'[q] = pc[q] /\ originals'[q] = originals[q]
        BY <1>5, <2>2 DEF Check, Go, TypeOK
      <3>2. originals'[p] = [f \in OutputsOf(job[p]) |-> content[f]] /\ UNCHANGED <<job, broken>>
        BY <1>5, <2>2 DEF Check, TypeOK
      <3>3. pc[p] = "lock" /\ Unlocked(p) = {}
        BY <1>5 DEF Check
      <3>4. ASSUME NEW f \in OutputsOf(job[p]) \ broken, NEW g \in OutputsOf(job[p]) \ broken,
                   Coupled(f, g)
            PROVE  originals'[p][f] = originals'[p][g]
        <4>1. \A q \in Publisher : Active(q) => f \notin OutputsOf(job[q])
          BY <3>3, OnlyWriter DEF Active
        <4>2. f \in Path /\ g \in Path /\ Written(f)
          BY <3>3, JobFacts DEF Written
        <4>3. content[f] = content[g]
          BY <3>4, <4>1, <4>2 DEF WholeOK
        <4> QED BY <3>2, <4>3
      <3> SUFFICES ASSUME NEW q \in Publisher, Active(q)',
                          NEW f \in OutputsOf(job'[q]) \ broken', NEW g \in OutputsOf(job'[q]) \ broken',
                          Coupled(f, g)
                   PROVE  originals'[q][f] = originals'[q][g]
        BY DEF OriginalsOK, Coupled, OutputsOf
      <3> QED BY <3>1, <3>2, <3>4 DEF OriginalsOK, Active
    <2> QED BY <2>1, <2>2
  <1>6. ASSUME NEW p \in Publisher, WriteNext(p) PROVE OriginalsOK'
    <2>1. \A q \in Publisher : Active(q)' => Active(q) /\ job'[q] = job[q]
      BY <1>6 DEF WriteNext, Go, TypeOK, Active, batches
    <2>2. UNCHANGED <<broken, originals>>
      BY <1>6 DEF WriteNext, batches
    <2> QED BY <2>1, <2>2, OriginalsStill
  <1>7. ASSUME NEW p \in Publisher, Finish(p) PROVE OriginalsOK'
    <2>1. End(p) /\ broken' = broken \ OutputsOf(job[p]) /\ Unlocked(p) = {}
      BY <1>7 DEF Finish, LocksOK, Active
    <2>2. \A q \in Publisher \ {p} : Active(q) => OutputsOf(job[q]) \cap OutputsOf(job[p]) = {}
      BY <2>1, OnlyWriter
    <2> QED BY <2>1, <2>2, EndOriginalsOK
  <1>8. ASSUME NEW p \in Publisher, WriteFails(p) PROVE OriginalsOK'
    <2>1. \A q \in Publisher : Active(q)' => Active(q) /\ job'[q] = job[q]
      BY <1>8 DEF WriteFails, Go, TypeOK, Active, batches
    <2>2. UNCHANGED <<broken, originals>>
      BY <1>8 DEF WriteFails, batches
    <2> QED BY <2>1, <2>2, OriginalsStill
  <1>9. ASSUME NEW p \in Publisher, RestoreNext(p) PROVE OriginalsOK'
    <2>1. CASE done[p] = 0
      <3>1. End(p) /\ UNCHANGED <<content, broken>>
        BY <1>9, <2>1 DEF RestoreNext
      <3> QED BY <3>1, EndOriginalsOK
    <2>2. CASE ~(done[p] = 0)
      <3>1. UNCHANGED <<pc, job, originals, broken>>
        BY <1>9, <2>2 DEF RestoreNext
      <3> QED BY <3>1, OriginalsStill DEF Active
    <2> QED BY <2>1, <2>2
  <1>10. ASSUME NEW p \in Publisher, GiveUp(p) PROVE OriginalsOK'
    <2>1. End(p) /\ broken \subseteq broken'
      BY <1>10 DEF GiveUp
    <2> QED BY <2>1, EndOriginalsOK
  <1>11. ASSUME NEW p \in Publisher, CutShort(p) PROVE OriginalsOK'
    <2>1. End(p) /\ broken \subseteq broken'
      BY <1>11 DEF CutShort
    <2> QED BY <2>1, EndOriginalsOK
  <1>12. CASE UNCHANGED vars
    BY <1>12, OriginalsStill DEF vars, batches, Active
  <1> QED BY <1>1, <1>2, <1>3, <1>4, <1>5, <1>6, <1>7, <1>8, <1>9, <1>10, <1>11, <1>12 DEF Next

\* Whole files stay whole while nothing is written.
LEMMA WholeStill ==
  ASSUME WholeOK, UNCHANGED <<content, broken>>,
         \A q \in Publisher : Active(q) => Active(q)' /\ job'[q] = job[q]
  PROVE  WholeOK'
  <1> SUFFICES ASSUME NEW f \in Path \ broken', NEW g \in Path \ broken', Coupled(f, g), Written(f),
                      \A q \in Publisher : Active(q)' => f \notin OutputsOf(job'[q])
               PROVE  content[f] = content[g]
    BY DEF WholeOK, Coupled, Written, OutputsOf
  <1> QED BY DEF WholeOK

\* A batch that ends with its outputs whole, or counted as broken, leaves every
\* file that nobody writes whole.
LEMMA EndWholeOK ==
  ASSUME IInv, NEW p \in Publisher, End(p), UNCHANGED content,
         broken \ OutputsOf(job[p]) \subseteq broken',
         \A f, g \in OutputsOf(job[p]) \ broken' : Coupled(f, g) => content[f] = content[g]
  PROVE  WholeOK'
  <1>1. \A q \in Publisher \ {p} : pc'[q] = pc[q] /\ job'[q] = job[q]
    BY EndFrees DEF IInv
  <1> SUFFICES ASSUME NEW f \in Path \ broken', NEW g \in Path \ broken', Coupled(f, g), Written(f),
                      \A q \in Publisher : Active(q)' => f \notin OutputsOf(job'[q])
               PROVE  content[f] = content[g]
    BY DEF WholeOK, Coupled, Written, OutputsOf
  <1>2. CASE f \in OutputsOf(job[p])
    <2>1. job[p] \in Job
      BY <1>2 DEF IInv, BatchOK, OutputsOf, NoJob
    <2>2. g \in OutputsOf(job[p])
      BY <1>2, <2>1 DEF Coupled
    <2> QED BY <1>2, <2>2
  <1>3. CASE f \notin OutputsOf(job[p]) /\ pc[p] # "idle"
    <2>1. job[p] \in Job
      BY <1>3 DEF IInv, BatchOK
    <2>2. g \notin OutputsOf(job[p])
      BY <1>3, <2>1 DEF Coupled
    <2>3. f \notin broken /\ g \notin broken
      BY <1>3, <2>2
    <2>4. \A q \in Publisher : Active(q) => f \notin OutputsOf(job[q])
      BY <1>1, <1>3 DEF Active
    <2> QED BY <2>3, <2>4 DEF IInv, WholeOK
  <1>4. CASE f \notin OutputsOf(job[p]) /\ pc[p] = "idle"
    <2>1. OutputsOf(job[p]) = {}
      BY <1>4 DEF IInv, BatchOK, OutputsOf, NoJob
    <2>2. \A q \in Publisher : Active(q) => f \notin OutputsOf(job[q])
      BY <1>1, <1>4 DEF Active
    <2> QED BY <2>1, <2>2 DEF IInv, WholeOK
  <1> QED BY <1>2, <1>3, <1>4

\* A batch that has not begun to write, and one that ends before, is whole.
LEMMA NothingWritten ==
  ASSUME IInv, NEW p \in Publisher, Active(p), done[p] = 0
  PROVE  \A f, g \in OutputsOf(job[p]) \ broken : Coupled(f, g) => content[f] = content[g]
  <1>1. \A f \in OutputsOf(job[p]) : content[f] = originals[p][f]
    <2> SUFFICES ASSUME NEW i \in DOMAIN job[p].outputs
                 PROVE  content[job[p].outputs[i]] = originals[p][job[p].outputs[i]]
      BY DEF OutputsOf
    <2>1. ~(i <= done[p])
      BY JobFacts DEF IInv, Active
    <2> QED BY <2>1 DEF IInv, ProgressOK
  <1> QED BY <1>1 DEF IInv, OriginalsOK

\* A command that ends, or does not run, leaves the batches as they are.
LEMMA EndIdleWholeOK ==
  ASSUME IInv, NEW p \in Publisher, End(p), UNCHANGED <<content, broken>>, ~Active(p)
  PROVE  WholeOK'
  <1>1. \A q \in Publisher \ {p} : pc'[q] = pc[q] /\ job'[q] = job[q]
    BY EndFrees DEF IInv
  <1>2. \A q \in Publisher : Active(q) => Active(q)' /\ job'[q] = job[q]
    BY <1>1 DEF Active
  <1> QED BY <1>2, WholeStill DEF IInv

\* Files that nobody writes stay whole.
LEMMA NextWholeOK == IInv /\ [Next]_vars => WholeOK'
  <1> SUFFICES ASSUME IInv, [Next]_vars PROVE WholeOK'
    OBVIOUS
  <1> USE DEF IInv
  <1>1. ASSUME NEW p \in Publisher, Start(p) PROVE WholeOK'
    <2>1. \A q \in Publisher : Active(q) => Active(q)' /\ job'[q] = job[q]
      BY <1>1 DEF Start, Go, TypeOK, Active, batches
    <2>2. UNCHANGED <<broken, content>>
      BY <1>1 DEF Start, batches
    <2> QED BY <2>1, <2>2, WholeStill
  <1>2. ASSUME NEW p \in Publisher, Capture(p) PROVE WholeOK'
    <2>1. \A q \in Publisher : Active(q) => Active(q)' /\ job'[q] = job[q]
      BY <1>2 DEF Capture, Go, TypeOK, Active, batches
    <2>2. UNCHANGED <<broken, content>>
      BY <1>2 DEF Capture, batches
    <2> QED BY <2>1, <2>2, WholeStill
  <1>3. ASSUME NEW p \in Publisher, Publish(p) PROVE WholeOK'
    <2>1. \A q \in Publisher : Active(q) => Active(q)' /\ job'[q] = job[q]
      BY <1>3 DEF Publish, Go, TypeOK, Active, batches
    <2>2. UNCHANGED <<broken, content>>
      BY <1>3 DEF Publish, batches
    <2> QED BY <2>1, <2>2, WholeStill
  <1>4. ASSUME NEW p \in Publisher, LockNext(p) PROVE WholeOK'
    <2>1. \A q \in Publisher : Active(q) => Active(q)' /\ job'[q] = job[q]
      BY <1>4 DEF LockNext, Go, TypeOK, Active, batches
    <2>2. UNCHANGED <<broken, content>>
      BY <1>4 DEF LockNext, batches
    <2> QED BY <2>1, <2>2, WholeStill
  <1>5. ASSUME NEW p \in Publisher, Check(p) PROVE WholeOK'
    <2>1. CASE ~(\A f \in job[p].sources : content[f] = captured[p][f])
      <3>1. End(p) /\ UNCHANGED <<content, broken>>
        BY <1>5, <2>1 DEF Check
      <3> QED BY <3>1, <1>5, EndIdleWholeOK DEF Check, Active
    <2>2. CASE \A f \in job[p].sources : content[f] = captured[p][f]
      <3>1. \A q \in Publisher : Active(q) => Active(q)'
        BY <1>5, <2>2 DEF Check, Go, TypeOK, Active
      <3>2. UNCHANGED <<content, job, broken>>
        BY <1>5, <2>2 DEF Check
      <3> QED BY <3>1, <3>2, WholeStill
    <2> QED BY <2>1, <2>2
  <1>6. ASSUME NEW p \in Publisher, WriteNext(p) PROVE WholeOK'
    <2>1. PICK k \in DOMAIN job[p].outputs :
            content' = [content EXCEPT ![job[p].outputs[k]] = run[p]]
      <3>1. done[p] + 1 \in DOMAIN job[p].outputs
        BY <1>6, JobFacts DEF WriteNext, TypeOK, BatchOK, Active
      <3> QED BY <1>6, <3>1 DEF WriteNext
    <2> DEFINE x == job[p].outputs[k]
    <2>2. x \in OutputsOf(job[p]) /\ job[p] \in Job /\ Active(p)
      BY <1>6, JobFacts DEF WriteNext, Active
    <2>3. UNCHANGED <<pc, job, broken>>
      BY <1>6 DEF WriteNext
    <2>4. \A h \in Path : h # x => content'[h] = content[h]
      BY <2>1 DEF TypeOK
    <2> HIDE DEF x
    <2>5. ASSUME NEW f \in Path \ broken, NEW g \in Path \ broken, Coupled(f, g), Written(f),
                 \A q \in Publisher : Active(q) => f \notin OutputsOf(job[q])
          PROVE  content'[f] = content'[g]
      <3>1. f # x /\ g # x
        BY <2>2, <2>5 DEF Coupled
      <3>2. content[f] = content[g]
        BY <2>5 DEF WholeOK
      <3> QED BY <2>4, <3>1, <3>2
    <2> SUFFICES ASSUME NEW f \in Path \ broken, NEW g \in Path \ broken, Coupled(f, g), Written(f),
                        \A q \in Publisher : Active(q) => f \notin OutputsOf(job[q])
                 PROVE  content'[f] = content'[g]
      BY <2>3 DEF WholeOK, Active, Coupled, Written, OutputsOf
    <2> QED BY <2>5
  <1>7. ASSUME NEW p \in Publisher, Finish(p) PROVE WholeOK'
    <2>1. End(p) /\ UNCHANGED content /\ broken' = broken \ OutputsOf(job[p])
      BY <1>7 DEF Finish
    <2>2. \A f \in OutputsOf(job[p]) : content[f] = run[p]
      <3> SUFFICES ASSUME NEW i \in DOMAIN job[p].outputs
                   PROVE  content[job[p].outputs[i]] = run[p]
        BY DEF OutputsOf
      <3>1. i <= done[p]
        BY <1>7, JobFacts DEF Finish
      <3> QED BY <1>7, <3>1 DEF Finish, ProgressOK, Active
    <2> QED BY <2>1, <2>2, EndWholeOK
  <1>8. ASSUME NEW p \in Publisher, WriteFails(p) PROVE WholeOK'
    <2>1. \A q \in Publisher : Active(q) => Active(q)' /\ job'[q] = job[q]
      BY <1>8 DEF WriteFails, Go, TypeOK, Active, batches
    <2>2. UNCHANGED <<broken, content>>
      BY <1>8 DEF WriteFails, batches
    <2> QED BY <2>1, <2>2, WholeStill
  <1>9. ASSUME NEW p \in Publisher, RestoreNext(p) PROVE WholeOK'
    <2>1. CASE done[p] = 0
      <3>1. End(p) /\ UNCHANGED <<content, broken>>
        BY <1>9, <2>1 DEF RestoreNext
      <3> QED BY <3>1, <1>9, <2>1, NothingWritten, EndWholeOK DEF RestoreNext, Active
    <2>2. CASE ~(done[p] = 0)
      <3>1. PICK k \in DOMAIN job[p].outputs :
              content' = [content EXCEPT ![job[p].outputs[k]] = originals[p][job[p].outputs[k]]]
        <4>1. done[p] \in DOMAIN job[p].outputs
          BY <1>9, <2>2, JobFacts DEF RestoreNext, TypeOK, BatchOK, Active
        <4> QED BY <1>9, <2>2, <4>1 DEF RestoreNext
      <3> DEFINE x == job[p].outputs[k]
      <3>2. x \in OutputsOf(job[p]) /\ job[p] \in Job /\ Active(p)
        BY <1>9, JobFacts DEF RestoreNext, Active
      <3>3. UNCHANGED <<pc, job, broken>>
        BY <1>9, <2>2 DEF RestoreNext
      <3>4. \A h \in Path : h # x => content'[h] = content[h]
        BY <3>1 DEF TypeOK
      <3> HIDE DEF x
      <3>5. ASSUME NEW f \in Path \ broken, NEW g \in Path \ broken, Coupled(f, g), Written(f),
                   \A q \in Publisher : Active(q) => f \notin OutputsOf(job[q])
            PROVE  content'[f] = content'[g]
        <4>1. f # x /\ g # x
          BY <3>2, <3>5 DEF Coupled
        <4>2. content[f] = content[g]
          BY <3>5 DEF WholeOK
        <4> QED BY <3>4, <4>1, <4>2
      <3> SUFFICES ASSUME NEW f \in Path \ broken, NEW g \in Path \ broken, Coupled(f, g), Written(f),
                          \A q \in Publisher : Active(q) => f \notin OutputsOf(job[q])
                   PROVE  content'[f] = content'[g]
        BY <3>3 DEF WholeOK, Active, Coupled, Written, OutputsOf
      <3> QED BY <3>5
    <2> QED BY <2>1, <2>2
  <1>10. ASSUME NEW p \in Publisher, GiveUp(p) PROVE WholeOK'
    <2>1. End(p) /\ UNCHANGED <<content, broken>> /\ pc[p] \in {"capture", "lock"}
      BY <1>10 DEF GiveUp
    <2> QED BY <2>1, EndIdleWholeOK DEF Active
  <1>11. ASSUME NEW p \in Publisher, CutShort(p) PROVE WholeOK'
    <2>1. End(p) /\ UNCHANGED content
      BY <1>11 DEF CutShort
    <2>2. CASE done[p] = 0
      <3>1. broken' = broken /\ Active(p)
        BY <1>11, <2>2 DEF CutShort, Active
      <3> QED BY <2>1, <2>2, <3>1, NothingWritten, EndWholeOK
    <2>3. CASE done[p] # 0
      <3>1. broken' = broken \cup OutputsOf(job[p])
        BY <1>11, <2>3 DEF CutShort
      <3> QED BY <2>1, <3>1, EndWholeOK
    <2> QED BY <2>2, <2>3
  <1>12. CASE UNCHANGED vars
    BY <1>12, WholeStill DEF vars, batches, Active
  <1> QED BY <1>1, <1>2, <1>3, <1>4, <1>5, <1>6, <1>7, <1>8, <1>9, <1>10, <1>11, <1>12 DEF Next

------------------------------------------------------------------------------
\* The invariant is inductive, and holds in every reachable state.
LEMMA Inductive == Spec => []IInv
  <1>1. IInv /\ [Next]_vars => IInv'
    BY NextTypeOK, NextBatchOK, NextLocksOK, NextProgressOK, NextOriginalsOK, NextWholeOK,
       NextSources
       DEF IInv
  <1> QED BY InitIInv, <1>1, PTL DEF Spec

\* The state is always well formed.
THEOREM TypeCorrect == Spec => []TypeOK
  <1>1. IInv => TypeOK
    BY DEF IInv
  <1> QED BY Inductive, <1>1, PTL

\* From the comparison of the sources to the last output nobody has replaced a
\* source of the batch, because whoever writes one needs its directory's lock.
THEOREM SourcesHoldStill == Spec => []SourcesHoldWhilePublished
  <1>1. IInv => SourcesHoldWhilePublished
    BY DEF IInv
  <1> QED BY Inductive, <1>1, PTL

\* Files that are only written together are of one run once their directories
\* are free, after any interleaving, failed write and restore.
THEOREM BatchesStayWhole == Spec => []BatchesAreWhole
  <1>1. IInv => BatchesAreWhole
    <2> SUFFICES ASSUME IInv, NEW f \in Path \ broken, NEW g \in Path \ broken,
                        Coupled(f, g), Written(f), owner[DirectoryOf[f]] = NoPublisher
                 PROVE  content[f] = content[g]
      BY DEF BatchesAreWhole, Written
    <2>1. ASSUME NEW q \in Publisher, Active(q), f \in OutputsOf(job[q])
          PROVE  FALSE
      <3>1. DirectoryOf[f] \in Directories(job[q])
        BY <2>1 DEF Directories
      <3>2. DirectoryOf[f] \in Unlocked(q)
        BY <3>1, PublisherAssumption DEF Unlocked
      <3> QED BY <2>1, <3>2 DEF IInv, LocksOK
    <2> QED BY <2>1 DEF IInv, WholeOK
  <1> QED BY Inductive, <1>1, PTL

\* Whoever holds the lock that p asks for asks for a later one itself.
LEMMA WaitsForLater ==
  ASSUME IInv, NEW p \in Publisher, NEW q \in Publisher, WaitsFor(p, q),
         pc[q] = "lock", Unlocked(q) # {}
  PROVE  NextLock(p) < NextLock(q)
  <1>1. NextLock(p) \in Directory /\ NextLock(p) \in Directories(job[p]) /\ owner[NextLock(p)] = q
    BY NextLockIsLeast, JobFacts DEF IInv, WaitsFor, Unlocked
  <1>2. NextLock(p) \in Directories(job[q]) \ Unlocked(q)
    BY <1>1, PublisherAssumption DEF IInv, LocksOK, Unlocked
  <1>3. NextLock(q) \in Unlocked(q)
    BY NextLockIsLeast DEF IInv
  <1> QED BY <1>2, <1>3 DEF IInv, LocksOK

\* Among publishers that wait there is one whose next lock is the last of all.
LEMMA LatestWaiter ==
  ASSUME NEW S \in SUBSET Publisher, S # {}, \A p \in S : NextLock(p) \in Directory
  PROVE  \E p \in S : \A q \in S : ~(NextLock(p) < NextLock(q))
  <1> DEFINE After(p) == {f \in Path : NextLock(p) < DirectoryOf[f]}
             T == {After(p) : p \in S}
  <1>1. IsWellFoundedOn(StrictSubsetOrdering(Path), SUBSET Path)
    BY PathAssumption, FS_StrictSubsetOrderingWellFounded, FS_FiniteSubsetsOfFinite
  <1>2. T \subseteq SUBSET Path /\ T # {}
    OBVIOUS
  <1> HIDE DEF T
  <1>3. PICK x \in T : \A y \in T : ~(<<y, x>> \in StrictSubsetOrdering(Path))
    BY <1>1, <1>2, WFMin
  <1>4. PICK p \in S : x = After(p)
    BY <1>3 DEF T
  <1>5. ASSUME NEW q \in S, NextLock(p) < NextLock(q)
        PROVE  FALSE
    <2>1. NextLock(p) \in Nat /\ NextLock(q) \in Nat /\ \A f \in Path : DirectoryOf[f] \in Nat
      BY DirectoriesAreNumbers, PathAssumption
    <2>2. After(q) \subseteq After(p)
      BY <1>5, <2>1
    <2>3. PICK f \in Path : DirectoryOf[f] = NextLock(q)
      BY DEF Directory
    <2>4. f \in After(p) /\ f \notin After(q)
      BY <1>5, <2>1, <2>3
    <2>5. <<After(q), After(p)>> \in StrictSubsetOrdering(Path)
      BY <2>2, <2>4 DEF StrictSubsetOrdering
    <2> QED BY <1>3, <1>4, <2>5 DEF T
  <1> QED BY <1>5

\* Publishers never wait for one another in a circle, whatever directories
\* their batches share.
THEOREM NobodyWaitsForHimself == Spec => []NobodyWaitsInACircle
  <1>1. IInv => NobodyWaitsInACircle
    <2> SUFFICES ASSUME IInv, NEW S \in SUBSET Publisher, S # {},
                        \A p \in S : \E q \in S : WaitsFor(p, q)
                 PROVE  FALSE
      BY DEF NobodyWaitsInACircle
    <2>1. \A p \in S : pc[p] = "lock" /\ Unlocked(p) # {}
      BY DEF WaitsFor
    <2>2. \A p \in S : NextLock(p) \in Directory
      BY <2>1, NextLockIsLeast, JobFacts DEF IInv, Unlocked
    <2>3. PICK p \in S : \A q \in S : ~(NextLock(p) < NextLock(q))
      BY <2>2, LatestWaiter
    <2>4. PICK q \in S : WaitsFor(p, q)
      OBVIOUS
    <2> QED BY <2>1, <2>3, <2>4, WaitsForLater
  <1> QED BY Inductive, <1>1, PTL
==============================================================================
