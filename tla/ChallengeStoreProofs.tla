------------------------- MODULE ChallengeStoreProofs -------------------------
(***************************************************************************)
(* Theorems about ChallengeStore for any challenges, bindings, lifetimes,  *)
(* threads, attempts and clock movements.                                  *)
(***************************************************************************)
EXTENDS ChallengeStore, TLAPS

\* Each phase belongs to one kind of call.
JobOK ==
  \A t \in Thread :
    /\ pc[t] \in {"generate", "insert", "check"} => job[t] \in Issue
    /\ pc[t] \in {"read", "verify", "begin", "update", "commit", "return"} => job[t] \in Consume
    /\ pc[t] = "generate" => job[t].left > 0

Inside(r) == r.consumed = None \/ (r.issued <= r.consumed /\ r.consumed < r.expires)

\* What an open transaction is about to write: a new row, or the row it has
\* verified with a time of consumption inside the window.
DraftOK ==
  \A t \in Thread :
    /\ pc[t] = "insert" => draft[t] \in Row /\ draft[t].consumed = None
    /\ pc[t] \in {"verify", "begin", "update", "commit"} => seen[t] \in Row /\ seen[t].consumed = None
    /\ pc[t] = "commit" =>
         /\ row[job[t].challenge] = seen[t]
         /\ draft[t].consumed \in Nat /\ draft[t] = ConsumedAt(seen[t], draft[t].consumed)
         /\ Inside(draft[t])

\* Answers that are still to be given are in the database, and a receipt that
\* is still to be given is the first and only one of its challenge.
AnswerOK ==
  \A t \in Thread :
    /\ pc[t] = "check" => row[job[t].challenge] # None
    /\ pc[t] = "return" =>
         /\ row[job[t].challenge] # None /\ row[job[t].challenge].consumed # None
         /\ receipts[job[t].challenge] = 0
         /\ \A u \in Thread \ {t} : pc[u] = "return" => job[u].challenge # job[t].challenge

IInv == /\ TypeOK /\ JobOK /\ DraftOK /\ AnswerOK
        /\ OneReceipt /\ AnswersAreDurable /\ ConsumedInsideWindow

------------------------------------------------------------------------------
\* It holds before the first request.
LEMMA InitIInv == Init => IInv
  BY NoneAssumption, ThreadAssumption
     DEF Init, IInv, TypeOK, JobOK, DraftOK, AnswerOK, OneReceipt, AnswersAreDurable,
         ConsumedInsideWindow, Phase

\* The end of a call keeps the state well formed, and the writers apart.
LEMMA EndType ==
  ASSUME IInv, NEW t \in Thread, End(t)
  PROVE  /\ writer' \in Thread \cup {NoThread} /\ pc' \in [Thread -> Phase]
         /\ job' \in [Thread -> Issue \cup Consume \cup {NoJob}]
         /\ seen' \in [Thread -> Row \cup {None}] /\ draft' \in [Thread -> Row \cup {None}]
         /\ \A u \in Thread : pc'[u] \in {"insert", "update", "commit"} => writer' = u
  BY DEF End, Go, Phase, IInv, TypeOK

\* Well-formedness is preserved, and with it the exclusion of writers.
LEMMA NextTypeOK == IInv /\ [Next]_vars => TypeOK'
  <1> SUFFICES ASSUME IInv, [Next]_vars PROVE TypeOK'
    OBVIOUS
  <1>1. ASSUME NEW t \in Thread, Call(t) PROVE TypeOK'
    <2>1. \E j \in Issue \cup Consume : job' = [job EXCEPT ![t] = j]
      BY <1>1 DEF Call
    <2>2. job' \in [Thread -> Issue \cup Consume \cup {NoJob}]
      BY <2>1 DEF IInv, TypeOK
    <2>3. pc' = [pc EXCEPT ![t] = "generate"] \/ pc' = [pc EXCEPT ![t] = "read"]
      BY <1>1 DEF Call, Go
    <2>4. pc' \in [Thread -> Phase]
      BY <2>3 DEF IInv, TypeOK, Phase
    <2>5. \A u \in Thread : pc'[u] \in {"insert", "update", "commit"} => pc[u] = pc'[u]
      BY <2>3 DEF IInv, TypeOK
    <2>6. /\ calls' \in Nat /\ row' = row /\ writer' = writer /\ clock' = clock
          /\ setBacks' = setBacks /\ seen' = seen /\ draft' = draft
          /\ answered' = answered /\ receipts' = receipts
      BY <1>1 DEF Call, database, time, history, IInv, TypeOK
    <2> QED BY <2>2, <2>4, <2>5, <2>6 DEF IInv, TypeOK
  <1>2. ASSUME NEW t \in Thread, Generate(t) PROVE TypeOK'
    <2>1. job[t] \in Issue /\ job[t].left > 0
      BY <1>2 DEF Generate, IInv, JobOK
    <2>2. \A c \in Challenge : WithNonce(job[t], c) \in Issue
      BY <2>1, BoundsAssumption DEF WithNonce, Issue
    <2>3. job' \in [Thread -> Issue \cup Consume \cup {NoJob}]
      BY <1>2, <2>2 DEF Generate, IInv, TypeOK
    <2>4. [binding |-> job[t].binding, issued |-> clock, expires |-> clock + job[t].ttl,
           consumed |-> None] \in Row
      BY <2>1, TtlAssumption DEF Issue, Row, IInv, TypeOK
    <2>5. draft' \in [Thread -> Row \cup {None}]
      BY <1>2, <2>4 DEF Generate, IInv, TypeOK
    <2>6. pc' \in [Thread -> Phase]
      BY <1>2 DEF Generate, Go, Phase, IInv, TypeOK
    <2> QED
      BY <1>2, <2>3, <2>5, <2>6, ThreadAssumption
         DEF Generate, Go, IInv, TypeOK, time, history
  <1>3. ASSUME NEW t \in Thread, Insert(t) PROVE TypeOK'
    <2> DEFINE c == job[t].challenge
    <2>1. c \in Challenge /\ draft[t] \in Row
      BY <1>3 DEF Insert, IInv, JobOK, DraftOK, Issue
    <2>2. CASE row[c] = None
      BY <1>3, <2>1, <2>2, ThreadAssumption
         DEF Insert, Go, Phase, IInv, TypeOK, time, history
    <2>3. CASE row[c] # None /\ job[t].left = 0
      <3>1. End(t)
        BY <1>3, <2>3 DEF Insert
      <3> QED BY <1>3, <2>3, <3>1, EndType DEF Insert, IInv, TypeOK, time, history
    <2>4. CASE row[c] # None /\ job[t].left # 0
      BY <1>3, <2>4, ThreadAssumption DEF Insert, Go, Phase, IInv, TypeOK, time, history
    <2> QED BY <2>2, <2>3, <2>4
  <1>4. ASSUME NEW t \in Thread, AnswerIssue(t) PROVE TypeOK'
    BY <1>4, NoneAssumption, ThreadAssumption, TtlAssumption, BoundsAssumption
       DEF AnswerIssue, IInv, TypeOK, JobOK, DraftOK, Phase, Row, Issue, Consume, NoJob,
           WithNonce, ConsumedAt, Go, End, vars, database, time, threads, history
  <1>5. ASSUME NEW t \in Thread, Read(t) PROVE TypeOK'
    <2>1. CASE Fresh(row[job[t].challenge], job[t].binding)
      BY <1>5, <2>1
         DEF Read, IInv, TypeOK, Go, time, history, database, threads, JobOK, Phase,
             Consume, Fresh
    <2>2. CASE ~(Fresh(row[job[t].challenge], job[t].binding))
      <3>1. End(t) /\ row' = row
        BY <1>5, <2>2 DEF Read
      <3> QED
        BY <1>5, <3>1, EndType DEF Read, IInv, TypeOK, Go, time, history, database, threads
    <2> QED BY <2>1, <2>2
  <1>6. ASSUME NEW t \in Thread, Verify(t) PROVE TypeOK'
    <2>1. CASE job[t].valid
      BY <1>6, <2>1 DEF Verify, IInv, TypeOK, Go, time, history, database, threads, Phase
    <2>2. CASE ~(job[t].valid)
      <3>1. End(t) /\ row' = row
        BY <1>6, <2>2 DEF Verify
      <3> QED
        BY <1>6, <3>1, EndType
           DEF Verify, IInv, TypeOK, Go, time, history, database, threads
    <2> QED BY <2>1, <2>2
  <1>7. ASSUME NEW t \in Thread, Begin(t) PROVE TypeOK'
    BY <1>7, NoneAssumption, ThreadAssumption, TtlAssumption, BoundsAssumption
       DEF Begin, IInv, TypeOK, JobOK, DraftOK, Phase, Row, Issue, Consume, NoJob,
           WithNonce, ConsumedAt, Go, End, vars, database, time, threads, history
  <1>8. ASSUME NEW t \in Thread, Update(t) PROVE TypeOK'
    <2> DEFINE ok == Fresh(row[job[t].challenge], job[t].binding) /\ row[job[t].challenge] = seen[t]
    <2>1. CASE ok
      <3>1. ConsumedAt(seen[t], clock) \in Row
        BY <1>8 DEF Update, IInv, TypeOK, DraftOK, ConsumedAt, Row
      <3>2. draft' \in [Thread -> Row \cup {None}]
        BY <1>8, <2>1, <3>1 DEF Update, IInv, TypeOK
      <3>3. pc' \in [Thread -> Phase]
        BY <1>8, <2>1 DEF Update, Go, Phase, IInv, TypeOK
      <3> QED BY <1>8, <2>1, <3>2, <3>3 DEF Update, Go, IInv, TypeOK, time, history
    <2>2. CASE ~ok
      <3>1. End(t)
        BY <1>8, <2>2 DEF Update
      <3> QED BY <1>8, <3>1, EndType DEF Update, IInv, TypeOK, time, history
    <2> QED BY <2>1, <2>2
  <1>9. ASSUME NEW t \in Thread, Commit(t) PROVE TypeOK'
    BY <1>9, NoneAssumption, ThreadAssumption, TtlAssumption, BoundsAssumption
       DEF Commit, IInv, TypeOK, JobOK, DraftOK, Phase, Row, Issue, Consume, NoJob,
           WithNonce, ConsumedAt, Go, End, vars, database, time, threads, history
  <1>10. ASSUME NEW t \in Thread, ReturnReceipt(t) PROVE TypeOK'
    BY <1>10, NoneAssumption, ThreadAssumption, TtlAssumption, BoundsAssumption
       DEF ReturnReceipt, IInv, TypeOK, JobOK, DraftOK, Phase, Row, Issue, Consume, NoJob,
           WithNonce, ConsumedAt, Go, End, vars, database, time, threads, history
  <1>11. ASSUME NEW t \in Thread, Fail(t) PROVE TypeOK'
    BY <1>11, NoneAssumption, ThreadAssumption, TtlAssumption, BoundsAssumption
       DEF Fail, IInv, TypeOK, JobOK, DraftOK, Phase, Row, Issue, Consume, NoJob,
           WithNonce, ConsumedAt, Go, End, vars, database, time, threads, history
  <1>12. ASSUME Tick PROVE TypeOK'
    BY <1>12, NoneAssumption, ThreadAssumption, TtlAssumption, BoundsAssumption
       DEF Tick, IInv, TypeOK, JobOK, DraftOK, Phase, Row, Issue, Consume, NoJob,
           WithNonce, ConsumedAt, Go, End, vars, database, time, threads, history
  <1>13. ASSUME SetBack PROVE TypeOK'
    BY <1>13, NoneAssumption, ThreadAssumption, TtlAssumption, BoundsAssumption
       DEF SetBack, IInv, TypeOK, JobOK, DraftOK, Phase, Row, Issue, Consume, NoJob,
           WithNonce, ConsumedAt, Go, End, vars, database, time, threads, history
  <1>14. ASSUME UNCHANGED vars PROVE TypeOK'
    BY <1>14
       DEF IInv, TypeOK, JobOK, DraftOK, Phase, Row, Issue, Consume, NoJob, WithNonce,
           ConsumedAt, Go, End, vars, database, time, threads, history
  <1> QED
    BY <1>1, <1>2, <1>3, <1>4, <1>5, <1>6, <1>7, <1>8, <1>9, <1>10, <1>11, <1>12, <1>13,
       <1>14
       DEF Next, Step

\* A call keeps its kind.
LEMMA NextJobOK == IInv /\ [Next]_vars => JobOK'
  <1> SUFFICES ASSUME IInv, [Next]_vars PROVE JobOK'
    OBVIOUS
  <1>1. ASSUME NEW t \in Thread, Call(t) PROVE JobOK'
    BY <1>1, NoneAssumption, ThreadAssumption, TtlAssumption, BoundsAssumption
       DEF Call, IInv, TypeOK, JobOK, Phase, Issue, Consume, NoJob, WithNonce, Go, End,
           vars, database, time, threads, history
  <1>2. ASSUME NEW t \in Thread, Generate(t) PROVE JobOK'
    BY <1>2, NoneAssumption, ThreadAssumption, TtlAssumption, BoundsAssumption
       DEF Generate, IInv, TypeOK, JobOK, Phase, Issue, Consume, NoJob, WithNonce, Go,
           End, vars, database, time, threads, history
  <1>3. ASSUME NEW t \in Thread, Insert(t) PROVE JobOK'
    BY <1>3, NoneAssumption, ThreadAssumption, TtlAssumption, BoundsAssumption
       DEF Insert, IInv, TypeOK, JobOK, Phase, Issue, Consume, NoJob, WithNonce, Go, End,
           vars, database, time, threads, history
  <1>4. ASSUME NEW t \in Thread, AnswerIssue(t) PROVE JobOK'
    BY <1>4, NoneAssumption, ThreadAssumption, TtlAssumption, BoundsAssumption
       DEF AnswerIssue, IInv, TypeOK, JobOK, Phase, Issue, Consume, NoJob, WithNonce, Go,
           End, vars, database, time, threads, history
  <1>5. ASSUME NEW t \in Thread, Read(t) PROVE JobOK'
    BY <1>5, NoneAssumption, ThreadAssumption, TtlAssumption, BoundsAssumption
       DEF Read, IInv, TypeOK, JobOK, Phase, Issue, Consume, NoJob, WithNonce, Go, End,
           vars, database, time, threads, history
  <1>6. ASSUME NEW t \in Thread, Verify(t) PROVE JobOK'
    BY <1>6, NoneAssumption, ThreadAssumption, TtlAssumption, BoundsAssumption
       DEF Verify, IInv, TypeOK, JobOK, Phase, Issue, Consume, NoJob, WithNonce, Go, End,
           vars, database, time, threads, history
  <1>7. ASSUME NEW t \in Thread, Begin(t) PROVE JobOK'
    BY <1>7, NoneAssumption, ThreadAssumption, TtlAssumption, BoundsAssumption
       DEF Begin, IInv, TypeOK, JobOK, Phase, Issue, Consume, NoJob, WithNonce, Go, End,
           vars, database, time, threads, history
  <1>8. ASSUME NEW t \in Thread, Update(t) PROVE JobOK'
    BY <1>8, NoneAssumption, ThreadAssumption, TtlAssumption, BoundsAssumption
       DEF Update, IInv, TypeOK, JobOK, Phase, Issue, Consume, NoJob, WithNonce, Go, End,
           vars, database, time, threads, history
  <1>9. ASSUME NEW t \in Thread, Commit(t) PROVE JobOK'
    BY <1>9, NoneAssumption, ThreadAssumption, TtlAssumption, BoundsAssumption
       DEF Commit, IInv, TypeOK, JobOK, Phase, Issue, Consume, NoJob, WithNonce, Go, End,
           vars, database, time, threads, history
  <1>10. ASSUME NEW t \in Thread, ReturnReceipt(t) PROVE JobOK'
    BY <1>10, NoneAssumption, ThreadAssumption, TtlAssumption, BoundsAssumption
       DEF ReturnReceipt, IInv, TypeOK, JobOK, Phase, Issue, Consume, NoJob, WithNonce,
           Go, End, vars, database, time, threads, history
  <1>11. ASSUME NEW t \in Thread, Fail(t) PROVE JobOK'
    BY <1>11, NoneAssumption, ThreadAssumption, TtlAssumption, BoundsAssumption
       DEF Fail, IInv, TypeOK, JobOK, Phase, Issue, Consume, NoJob, WithNonce, Go, End,
           vars, database, time, threads, history
  <1>12. ASSUME Tick PROVE JobOK'
    BY <1>12, NoneAssumption, ThreadAssumption, TtlAssumption, BoundsAssumption
       DEF Tick, IInv, TypeOK, JobOK, Phase, Issue, Consume, NoJob, WithNonce, Go, End,
           vars, database, time, threads, history
  <1>13. ASSUME SetBack PROVE JobOK'
    BY <1>13, NoneAssumption, ThreadAssumption, TtlAssumption, BoundsAssumption
       DEF SetBack, IInv, TypeOK, JobOK, Phase, Issue, Consume, NoJob, WithNonce, Go, End,
           vars, database, time, threads, history
  <1>14. ASSUME UNCHANGED vars PROVE JobOK'
    BY <1>14
       DEF IInv, TypeOK, JobOK, Phase, Issue, Consume, NoJob, WithNonce, Go, End, vars,
           database, time, threads, history
  <1> QED
    BY <1>1, <1>2, <1>3, <1>4, <1>5, <1>6, <1>7, <1>8, <1>9, <1>10, <1>11, <1>12, <1>13,
       <1>14
       DEF Next, Step

\* Between the update and its commit nobody else writes.
LEMMA NextDraftOK == IInv /\ [Next]_vars => DraftOK'
  <1> SUFFICES ASSUME IInv, [Next]_vars PROVE DraftOK'
    OBVIOUS
  <1>1. ASSUME NEW t \in Thread, Call(t) PROVE DraftOK'
    BY <1>1, NoneAssumption, ThreadAssumption, TtlAssumption, BoundsAssumption
       DEF Call, IInv, TypeOK, JobOK, DraftOK, Inside, Fresh, Phase, Row, Issue, Consume,
           WithNonce, ConsumedAt, Go, End, vars, database, time, threads, history
  <1>2. ASSUME NEW t \in Thread, Generate(t) PROVE DraftOK'
    <2>1. job[t] \in Issue
      BY <1>2 DEF Generate, IInv, JobOK
    <2> DEFINE r == [binding |-> job[t].binding, issued |-> clock, expires |-> clock + job[t].ttl,
                     consumed |-> None]
    <2>2. draft'[t] \in Row /\ draft'[t].consumed = None
      <3>1. draft'[t] = r
        BY <1>2 DEF Generate, IInv, TypeOK
      <3>2. job[t].binding \in Binding /\ job[t].ttl \in Nat /\ clock \in Nat
        BY <2>1, TtlAssumption DEF Issue, IInv, TypeOK
      <3>3. r \in Row
        BY <3>2 DEF Row
      <3>4. r.consumed = None
        OBVIOUS
      <3> QED BY <3>1, <3>3, <3>4
    <2>3. \A u \in Thread \ {t} : pc'[u] = pc[u] /\ job'[u] = job[u] /\ draft'[u] = draft[u]
      BY <1>2 DEF Generate, Go, IInv, TypeOK
    <2>4. pc'[t] = "insert"
      BY <1>2 DEF Generate, Go, IInv, TypeOK
    <2> QED BY <1>2, <2>2, <2>3, <2>4 DEF Generate, IInv, DraftOK, Inside
  <1>3. ASSUME NEW t \in Thread, Insert(t) PROVE DraftOK'
    BY <1>3, NoneAssumption, ThreadAssumption, TtlAssumption, BoundsAssumption
       DEF Insert, IInv, TypeOK, JobOK, DraftOK, Inside, Fresh, Phase, Row, Issue,
           Consume, WithNonce, ConsumedAt, Go, End, vars, database, time, threads, history
  <1>4. ASSUME NEW t \in Thread, AnswerIssue(t) PROVE DraftOK'
    BY <1>4, NoneAssumption, ThreadAssumption, TtlAssumption, BoundsAssumption
       DEF AnswerIssue, IInv, TypeOK, JobOK, DraftOK, Inside, Fresh, Phase, Row, Issue,
           Consume, WithNonce, ConsumedAt, Go, End, vars, database, time, threads, history
  <1>5. ASSUME NEW t \in Thread, Read(t) PROVE DraftOK'
    BY <1>5, NoneAssumption, ThreadAssumption, TtlAssumption, BoundsAssumption
       DEF Read, IInv, TypeOK, JobOK, DraftOK, Inside, Fresh, Phase, Row, Issue, Consume,
           WithNonce, ConsumedAt, Go, End, vars, database, time, threads, history
  <1>6. ASSUME NEW t \in Thread, Verify(t) PROVE DraftOK'
    BY <1>6, NoneAssumption, ThreadAssumption, TtlAssumption, BoundsAssumption
       DEF Verify, IInv, TypeOK, JobOK, DraftOK, Inside, Fresh, Phase, Row, Issue,
           Consume, WithNonce, ConsumedAt, Go, End, vars, database, time, threads, history
  <1>7. ASSUME NEW t \in Thread, Begin(t) PROVE DraftOK'
    BY <1>7, NoneAssumption, ThreadAssumption, TtlAssumption, BoundsAssumption
       DEF Begin, IInv, TypeOK, JobOK, DraftOK, Inside, Fresh, Phase, Row, Issue, Consume,
           WithNonce, ConsumedAt, Go, End, vars, database, time, threads, history
  <1>8. ASSUME NEW t \in Thread, Update(t) PROVE DraftOK'
    <2> DEFINE ok == Fresh(row[job[t].challenge], job[t].binding) /\ row[job[t].challenge] = seen[t]
    <2>1. \A u \in Thread \ {t} : pc'[u] = pc[u] /\ job'[u] = job[u] /\ draft'[u] = draft[u]
                                    /\ seen'[u] = seen[u]
      BY <1>8 DEF Update, Go, End, IInv, TypeOK
    <2>2. row' = row
      BY <1>8 DEF Update
    <2>3. CASE ok
      <3>1. /\ pc'[t] = "commit" /\ job'[t] = job[t] /\ seen'[t] = seen[t]
            /\ draft'[t] = ConsumedAt(seen[t], clock)
        BY <1>8, <2>3 DEF Update, Go, IInv, TypeOK
      <3>2. seen[t] \in Row /\ seen[t].issued <= clock /\ clock < seen[t].expires /\ clock \in Nat
        BY <1>8, <2>3 DEF Update, Fresh, IInv, TypeOK, DraftOK
      <3>3. /\ draft'[t].consumed = clock /\ Inside(draft'[t])
            /\ draft'[t] = ConsumedAt(seen'[t], draft'[t].consumed)
        BY <3>1, <3>2 DEF ConsumedAt, Inside
      <3>4. seen'[t].consumed = None
        BY <1>8, <3>1 DEF Update, IInv, DraftOK
      <3> QED BY <2>1, <2>2, <2>3, <3>1, <3>2, <3>3, <3>4 DEF IInv, DraftOK
    <2>4. CASE ~ok
      <3>1. pc'[t] = "idle"
        BY <1>8, <2>4 DEF Update, End, Go, IInv, TypeOK
      <3> QED BY <2>1, <2>2, <3>1 DEF IInv, DraftOK
    <2> QED BY <2>3, <2>4
  <1>9. ASSUME NEW t \in Thread, Commit(t) PROVE DraftOK'
    BY <1>9, NoneAssumption, ThreadAssumption, TtlAssumption, BoundsAssumption
       DEF Commit, IInv, TypeOK, JobOK, DraftOK, Inside, Fresh, Phase, Row, Issue,
           Consume, WithNonce, ConsumedAt, Go, End, vars, database, time, threads, history
  <1>10. ASSUME NEW t \in Thread, ReturnReceipt(t) PROVE DraftOK'
    BY <1>10, NoneAssumption, ThreadAssumption, TtlAssumption, BoundsAssumption
       DEF ReturnReceipt, IInv, TypeOK, JobOK, DraftOK, Inside, Fresh, Phase, Row, Issue,
           Consume, WithNonce, ConsumedAt, Go, End, vars, database, time, threads, history
  <1>11. ASSUME NEW t \in Thread, Fail(t) PROVE DraftOK'
    BY <1>11, NoneAssumption, ThreadAssumption, TtlAssumption, BoundsAssumption
       DEF Fail, IInv, TypeOK, JobOK, DraftOK, Inside, Fresh, Phase, Row, Issue, Consume,
           WithNonce, ConsumedAt, Go, End, vars, database, time, threads, history
  <1>12. ASSUME Tick PROVE DraftOK'
    BY <1>12, NoneAssumption, ThreadAssumption, TtlAssumption, BoundsAssumption
       DEF Tick, IInv, TypeOK, JobOK, DraftOK, Inside, Fresh, Phase, Row, Issue, Consume,
           WithNonce, ConsumedAt, Go, End, vars, database, time, threads, history
  <1>13. ASSUME SetBack PROVE DraftOK'
    BY <1>13, NoneAssumption, ThreadAssumption, TtlAssumption, BoundsAssumption
       DEF SetBack, IInv, TypeOK, JobOK, DraftOK, Inside, Fresh, Phase, Row, Issue,
           Consume, WithNonce, ConsumedAt, Go, End, vars, database, time, threads, history
  <1>14. ASSUME UNCHANGED vars PROVE DraftOK'
    BY <1>14
       DEF IInv, TypeOK, JobOK, DraftOK, Inside, Fresh, Phase, Row, Issue, Consume,
           WithNonce, ConsumedAt, Go, End, vars, database, time, threads, history
  <1> QED
    BY <1>1, <1>2, <1>3, <1>4, <1>5, <1>6, <1>7, <1>8, <1>9, <1>10, <1>11, <1>12, <1>13,
       <1>14
       DEF Next, Step

\* A commit consumes a row that nobody has consumed, for one caller.
LEMMA NextAnswerOK == IInv /\ [Next]_vars => AnswerOK'
  <1> SUFFICES ASSUME IInv, [Next]_vars PROVE AnswerOK'
    OBVIOUS
  <1>1. ASSUME NEW t \in Thread, Call(t) PROVE AnswerOK'
    BY <1>1, NoneAssumption, ThreadAssumption, TtlAssumption, BoundsAssumption
       DEF Call, IInv, TypeOK, JobOK, DraftOK, AnswerOK, OneReceipt, AnswersAreDurable,
           ConsumedAt, Phase, Go, End, vars, database, time, threads, history
  <1>2. ASSUME NEW t \in Thread, Generate(t) PROVE AnswerOK'
    BY <1>2, NoneAssumption, ThreadAssumption, TtlAssumption, BoundsAssumption
       DEF Generate, IInv, TypeOK, JobOK, DraftOK, AnswerOK, OneReceipt,
           AnswersAreDurable, ConsumedAt, Phase, Go, End, vars, database, time, threads,
           history
  <1>3. ASSUME NEW t \in Thread, Insert(t) PROVE AnswerOK'
    <2> DEFINE c == job[t].challenge
    <2>1. c \in Challenge /\ draft[t] # None
      BY <1>3, NoneAssumption DEF Insert, IInv, JobOK, DraftOK, Issue
    <2>2. \A u \in Thread \ {t} : pc'[u] = pc[u] /\ job'[u] = job[u]
      BY <1>3 DEF Insert, End, Go, IInv, TypeOK
    <2>3. receipts' = receipts /\ pc'[t] # "return"
      BY <1>3 DEF Insert, End, Go, history, IInv, TypeOK
    <2>4. \A d \in Challenge : row[d] # None => row'[d] = row[d]
      BY <1>3, <2>1 DEF Insert, IInv, TypeOK
    <2>5. pc'[t] = "check" => job'[t] = job[t] /\ row'[c] # None
      BY <1>3, <2>1 DEF Insert, End, Go, IInv, TypeOK
    <2>6. \A u \in Thread : pc[u] \in {"check", "return"} => job[u].challenge \in Challenge
      BY DEF IInv, JobOK, Issue, Consume
    <2> QED BY <2>2, <2>3, <2>4, <2>5, <2>6 DEF IInv, AnswerOK
  <1>4. ASSUME NEW t \in Thread, AnswerIssue(t) PROVE AnswerOK'
    BY <1>4, NoneAssumption, ThreadAssumption, TtlAssumption, BoundsAssumption
       DEF AnswerIssue, IInv, TypeOK, JobOK, DraftOK, AnswerOK, OneReceipt,
           AnswersAreDurable, ConsumedAt, Phase, Go, End, vars, database, time, threads,
           history
  <1>5. ASSUME NEW t \in Thread, Read(t) PROVE AnswerOK'
    BY <1>5, NoneAssumption, ThreadAssumption, TtlAssumption, BoundsAssumption
       DEF Read, IInv, TypeOK, JobOK, DraftOK, AnswerOK, OneReceipt, AnswersAreDurable,
           ConsumedAt, Phase, Go, End, vars, database, time, threads, history
  <1>6. ASSUME NEW t \in Thread, Verify(t) PROVE AnswerOK'
    BY <1>6, NoneAssumption, ThreadAssumption, TtlAssumption, BoundsAssumption
       DEF Verify, IInv, TypeOK, JobOK, DraftOK, AnswerOK, OneReceipt, AnswersAreDurable,
           ConsumedAt, Phase, Go, End, vars, database, time, threads, history
  <1>7. ASSUME NEW t \in Thread, Begin(t) PROVE AnswerOK'
    BY <1>7, NoneAssumption, ThreadAssumption, TtlAssumption, BoundsAssumption
       DEF Begin, IInv, TypeOK, JobOK, DraftOK, AnswerOK, OneReceipt, AnswersAreDurable,
           ConsumedAt, Phase, Go, End, vars, database, time, threads, history
  <1>8. ASSUME NEW t \in Thread, Update(t) PROVE AnswerOK'
    BY <1>8, NoneAssumption, ThreadAssumption, TtlAssumption, BoundsAssumption
       DEF Update, IInv, TypeOK, JobOK, DraftOK, AnswerOK, OneReceipt, AnswersAreDurable,
           ConsumedAt, Phase, Go, End, vars, database, time, threads, history
  <1>9. ASSUME NEW t \in Thread, Commit(t) PROVE AnswerOK'
    <2> DEFINE c == job[t].challenge
    <2>1. /\ c \in Challenge /\ seen[t] \in Row /\ seen[t].consumed = None /\ row[c] = seen[t]
          /\ draft[t] # None /\ draft[t].consumed # None
      <3>1. draft[t].consumed \in Nat /\ draft[t] = ConsumedAt(seen[t], draft[t].consumed)
        BY <1>9 DEF Commit, IInv, DraftOK
      <3>2. seen[t] \in Row /\ seen[t].consumed = None /\ row[c] = seen[t]
        BY <1>9 DEF Commit, IInv, DraftOK
      <3>3. draft[t] \in Row
        BY <3>1, <3>2 DEF ConsumedAt, Row
      <3> QED BY <1>9, <3>1, <3>2, <3>3, NoneAssumption DEF Commit, IInv, JobOK, Consume
    <2>2. row[c] # None /\ receipts[c] = 0
      BY <2>1, NoneAssumption DEF IInv, AnswersAreDurable, OneReceipt, TypeOK
    <2>3. \A u \in Thread : pc[u] = "return" => job[u].challenge # c
      BY <2>1 DEF IInv, AnswerOK
    <2>4. row'[c] = draft[t] /\ \A d \in Challenge \ {c} : row'[d] = row[d]
      BY <1>9, <2>1 DEF Commit, IInv, TypeOK
    <2>5. job' = job /\ receipts' = receipts /\ pc'[t] = "return"
          /\ \A u \in Thread \ {t} : pc'[u] = pc[u]
      BY <1>9 DEF Commit, Go, history, IInv, TypeOK
    <2>6. \A u \in Thread : pc[u] \in {"check", "return"} => job[u].challenge \in Challenge
      BY DEF IInv, JobOK, Issue, Consume
    <2> QED BY <2>1, <2>2, <2>3, <2>4, <2>5, <2>6 DEF IInv, AnswerOK
  <1>10. ASSUME NEW t \in Thread, ReturnReceipt(t) PROVE AnswerOK'
    BY <1>10, NoneAssumption, ThreadAssumption, TtlAssumption, BoundsAssumption
       DEF ReturnReceipt, IInv, TypeOK, JobOK, DraftOK, AnswerOK, OneReceipt,
           AnswersAreDurable, ConsumedAt, Phase, Go, End, vars, database, time, threads,
           history
  <1>11. ASSUME NEW t \in Thread, Fail(t) PROVE AnswerOK'
    BY <1>11, NoneAssumption, ThreadAssumption, TtlAssumption, BoundsAssumption
       DEF Fail, IInv, TypeOK, JobOK, DraftOK, AnswerOK, OneReceipt, AnswersAreDurable,
           ConsumedAt, Phase, Go, End, vars, database, time, threads, history
  <1>12. ASSUME Tick PROVE AnswerOK'
    BY <1>12, NoneAssumption, ThreadAssumption, TtlAssumption, BoundsAssumption
       DEF Tick, IInv, TypeOK, JobOK, DraftOK, AnswerOK, OneReceipt, AnswersAreDurable,
           ConsumedAt, Phase, Go, End, vars, database, time, threads, history
  <1>13. ASSUME SetBack PROVE AnswerOK'
    BY <1>13, NoneAssumption, ThreadAssumption, TtlAssumption, BoundsAssumption
       DEF SetBack, IInv, TypeOK, JobOK, DraftOK, AnswerOK, OneReceipt, AnswersAreDurable,
           ConsumedAt, Phase, Go, End, vars, database, time, threads, history
  <1>14. ASSUME UNCHANGED vars PROVE AnswerOK'
    BY <1>14
       DEF IInv, TypeOK, JobOK, DraftOK, AnswerOK, OneReceipt, AnswersAreDurable,
           ConsumedAt, Phase, Go, End, vars, database, time, threads, history
  <1> QED
    BY <1>1, <1>2, <1>3, <1>4, <1>5, <1>6, <1>7, <1>8, <1>9, <1>10, <1>11, <1>12, <1>13,
       <1>14
       DEF Next, Step

\* A receipt is given for a challenge that has none.
LEMMA NextOneReceipt == IInv /\ [Next]_vars => OneReceipt'
  <1> SUFFICES ASSUME IInv, [Next]_vars PROVE OneReceipt'
    OBVIOUS
  <1>1. ASSUME NEW t \in Thread, Call(t) PROVE OneReceipt'
    BY <1>1, NoneAssumption, ThreadAssumption, TtlAssumption, BoundsAssumption
       DEF Call, IInv, TypeOK, AnswerOK, OneReceipt, Go, End, vars, database, time,
           threads, history
  <1>2. ASSUME NEW t \in Thread, Generate(t) PROVE OneReceipt'
    BY <1>2, NoneAssumption, ThreadAssumption, TtlAssumption, BoundsAssumption
       DEF Generate, IInv, TypeOK, AnswerOK, OneReceipt, Go, End, vars, database, time,
           threads, history
  <1>3. ASSUME NEW t \in Thread, Insert(t) PROVE OneReceipt'
    BY <1>3, NoneAssumption, ThreadAssumption, TtlAssumption, BoundsAssumption
       DEF Insert, IInv, TypeOK, AnswerOK, OneReceipt, Go, End, vars, database, time,
           threads, history
  <1>4. ASSUME NEW t \in Thread, AnswerIssue(t) PROVE OneReceipt'
    BY <1>4, NoneAssumption, ThreadAssumption, TtlAssumption, BoundsAssumption
       DEF AnswerIssue, IInv, TypeOK, AnswerOK, OneReceipt, Go, End, vars, database, time,
           threads, history
  <1>5. ASSUME NEW t \in Thread, Read(t) PROVE OneReceipt'
    BY <1>5, NoneAssumption, ThreadAssumption, TtlAssumption, BoundsAssumption
       DEF Read, IInv, TypeOK, AnswerOK, OneReceipt, Go, End, vars, database, time,
           threads, history
  <1>6. ASSUME NEW t \in Thread, Verify(t) PROVE OneReceipt'
    BY <1>6, NoneAssumption, ThreadAssumption, TtlAssumption, BoundsAssumption
       DEF Verify, IInv, TypeOK, AnswerOK, OneReceipt, Go, End, vars, database, time,
           threads, history
  <1>7. ASSUME NEW t \in Thread, Begin(t) PROVE OneReceipt'
    BY <1>7, NoneAssumption, ThreadAssumption, TtlAssumption, BoundsAssumption
       DEF Begin, IInv, TypeOK, AnswerOK, OneReceipt, Go, End, vars, database, time,
           threads, history
  <1>8. ASSUME NEW t \in Thread, Update(t) PROVE OneReceipt'
    BY <1>8, NoneAssumption, ThreadAssumption, TtlAssumption, BoundsAssumption
       DEF Update, IInv, TypeOK, AnswerOK, OneReceipt, Go, End, vars, database, time,
           threads, history
  <1>9. ASSUME NEW t \in Thread, Commit(t) PROVE OneReceipt'
    BY <1>9, NoneAssumption, ThreadAssumption, TtlAssumption, BoundsAssumption
       DEF Commit, IInv, TypeOK, AnswerOK, OneReceipt, Go, End, vars, database, time,
           threads, history
  <1>10. ASSUME NEW t \in Thread, ReturnReceipt(t) PROVE OneReceipt'
    BY <1>10, NoneAssumption, ThreadAssumption, TtlAssumption, BoundsAssumption
       DEF ReturnReceipt, IInv, TypeOK, AnswerOK, OneReceipt, Go, End, vars, database,
           time, threads, history
  <1>11. ASSUME NEW t \in Thread, Fail(t) PROVE OneReceipt'
    BY <1>11, NoneAssumption, ThreadAssumption, TtlAssumption, BoundsAssumption
       DEF Fail, IInv, TypeOK, AnswerOK, OneReceipt, Go, End, vars, database, time,
           threads, history
  <1>12. ASSUME Tick PROVE OneReceipt'
    BY <1>12, NoneAssumption, ThreadAssumption, TtlAssumption, BoundsAssumption
       DEF Tick, IInv, TypeOK, AnswerOK, OneReceipt, Go, End, vars, database, time,
           threads, history
  <1>13. ASSUME SetBack PROVE OneReceipt'
    BY <1>13, NoneAssumption, ThreadAssumption, TtlAssumption, BoundsAssumption
       DEF SetBack, IInv, TypeOK, AnswerOK, OneReceipt, Go, End, vars, database, time,
           threads, history
  <1>14. ASSUME UNCHANGED vars PROVE OneReceipt'
    BY <1>14
       DEF IInv, TypeOK, AnswerOK, OneReceipt, Go, End, vars, database, time, threads,
           history
  <1> QED
    BY <1>1, <1>2, <1>3, <1>4, <1>5, <1>6, <1>7, <1>8, <1>9, <1>10, <1>11, <1>12, <1>13,
       <1>14
       DEF Next, Step

\* Rows do not go away, nor does their consumption.
LEMMA NextDurable == IInv /\ [Next]_vars => AnswersAreDurable'
  <1> SUFFICES ASSUME IInv, [Next]_vars PROVE AnswersAreDurable'
    OBVIOUS
  <1>1. ASSUME NEW t \in Thread, Call(t) PROVE AnswersAreDurable'
    BY <1>1, NoneAssumption, ThreadAssumption, TtlAssumption, BoundsAssumption
       DEF Call, IInv, TypeOK, JobOK, DraftOK, AnswerOK, AnswersAreDurable, ConsumedAt,
           Go, End, vars, database, time, threads, history
  <1>2. ASSUME NEW t \in Thread, Generate(t) PROVE AnswersAreDurable'
    BY <1>2, NoneAssumption, ThreadAssumption, TtlAssumption, BoundsAssumption
       DEF Generate, IInv, TypeOK, JobOK, DraftOK, AnswerOK, AnswersAreDurable,
           ConsumedAt, Go, End, vars, database, time, threads, history
  <1>3. ASSUME NEW t \in Thread, Insert(t) PROVE AnswersAreDurable'
    BY <1>3, NoneAssumption, ThreadAssumption, TtlAssumption, BoundsAssumption
       DEF Insert, IInv, TypeOK, JobOK, DraftOK, AnswerOK, AnswersAreDurable, ConsumedAt,
           Go, End, vars, database, time, threads, history
  <1>4. ASSUME NEW t \in Thread, AnswerIssue(t) PROVE AnswersAreDurable'
    BY <1>4, NoneAssumption, ThreadAssumption, TtlAssumption, BoundsAssumption
       DEF AnswerIssue, IInv, TypeOK, JobOK, DraftOK, AnswerOK, AnswersAreDurable,
           ConsumedAt, Go, End, vars, database, time, threads, history
  <1>5. ASSUME NEW t \in Thread, Read(t) PROVE AnswersAreDurable'
    BY <1>5, NoneAssumption, ThreadAssumption, TtlAssumption, BoundsAssumption
       DEF Read, IInv, TypeOK, JobOK, DraftOK, AnswerOK, AnswersAreDurable, ConsumedAt,
           Go, End, vars, database, time, threads, history
  <1>6. ASSUME NEW t \in Thread, Verify(t) PROVE AnswersAreDurable'
    BY <1>6, NoneAssumption, ThreadAssumption, TtlAssumption, BoundsAssumption
       DEF Verify, IInv, TypeOK, JobOK, DraftOK, AnswerOK, AnswersAreDurable, ConsumedAt,
           Go, End, vars, database, time, threads, history
  <1>7. ASSUME NEW t \in Thread, Begin(t) PROVE AnswersAreDurable'
    BY <1>7, NoneAssumption, ThreadAssumption, TtlAssumption, BoundsAssumption
       DEF Begin, IInv, TypeOK, JobOK, DraftOK, AnswerOK, AnswersAreDurable, ConsumedAt,
           Go, End, vars, database, time, threads, history
  <1>8. ASSUME NEW t \in Thread, Update(t) PROVE AnswersAreDurable'
    BY <1>8, NoneAssumption, ThreadAssumption, TtlAssumption, BoundsAssumption
       DEF Update, IInv, TypeOK, JobOK, DraftOK, AnswerOK, AnswersAreDurable, ConsumedAt,
           Go, End, vars, database, time, threads, history
  <1>9. ASSUME NEW t \in Thread, Commit(t) PROVE AnswersAreDurable'
    <2>1. draft[t].consumed \in Nat /\ draft[t] \in Row
      <3>1. draft[t].consumed \in Nat /\ draft[t] = ConsumedAt(seen[t], draft[t].consumed)
            /\ seen[t] \in Row
        BY <1>9 DEF Commit, IInv, DraftOK
      <3> QED BY <3>1 DEF ConsumedAt, Row
    <2>2. draft[t] # None /\ draft[t].consumed # None
      BY <2>1, NoneAssumption
    <2> QED BY <1>9, <2>2 DEF Commit, history, IInv, TypeOK, AnswersAreDurable
  <1>10. ASSUME NEW t \in Thread, ReturnReceipt(t) PROVE AnswersAreDurable'
    BY <1>10, NoneAssumption, ThreadAssumption, TtlAssumption, BoundsAssumption
       DEF ReturnReceipt, IInv, TypeOK, JobOK, DraftOK, AnswerOK, AnswersAreDurable,
           ConsumedAt, Go, End, vars, database, time, threads, history
  <1>11. ASSUME NEW t \in Thread, Fail(t) PROVE AnswersAreDurable'
    BY <1>11, NoneAssumption, ThreadAssumption, TtlAssumption, BoundsAssumption
       DEF Fail, IInv, TypeOK, JobOK, DraftOK, AnswerOK, AnswersAreDurable, ConsumedAt,
           Go, End, vars, database, time, threads, history
  <1>12. ASSUME Tick PROVE AnswersAreDurable'
    BY <1>12, NoneAssumption, ThreadAssumption, TtlAssumption, BoundsAssumption
       DEF Tick, IInv, TypeOK, JobOK, DraftOK, AnswerOK, AnswersAreDurable, ConsumedAt,
           Go, End, vars, database, time, threads, history
  <1>13. ASSUME SetBack PROVE AnswersAreDurable'
    BY <1>13, NoneAssumption, ThreadAssumption, TtlAssumption, BoundsAssumption
       DEF SetBack, IInv, TypeOK, JobOK, DraftOK, AnswerOK, AnswersAreDurable, ConsumedAt,
           Go, End, vars, database, time, threads, history
  <1>14. ASSUME UNCHANGED vars PROVE AnswersAreDurable'
    BY <1>14
       DEF IInv, TypeOK, JobOK, DraftOK, AnswerOK, AnswersAreDurable, ConsumedAt, Go, End,
           vars, database, time, threads, history
  <1> QED
    BY <1>1, <1>2, <1>3, <1>4, <1>5, <1>6, <1>7, <1>8, <1>9, <1>10, <1>11, <1>12, <1>13,
       <1>14
       DEF Next, Step

\* Only a draft inside the window is written.
LEMMA NextWindow == IInv /\ [Next]_vars => ConsumedInsideWindow'
  <1> SUFFICES ASSUME IInv, [Next]_vars PROVE ConsumedInsideWindow'
    OBVIOUS
  <1>1. ASSUME NEW t \in Thread, Call(t) PROVE ConsumedInsideWindow'
    BY <1>1, NoneAssumption, ThreadAssumption, TtlAssumption, BoundsAssumption
       DEF Call, IInv, TypeOK, JobOK, DraftOK, Inside, ConsumedAt, ConsumedInsideWindow,
           Go, End, vars, database, time, threads, history
  <1>2. ASSUME NEW t \in Thread, Generate(t) PROVE ConsumedInsideWindow'
    BY <1>2, NoneAssumption, ThreadAssumption, TtlAssumption, BoundsAssumption
       DEF Generate, IInv, TypeOK, JobOK, DraftOK, Inside, ConsumedAt,
           ConsumedInsideWindow, Go, End, vars, database, time, threads, history
  <1>3. ASSUME NEW t \in Thread, Insert(t) PROVE ConsumedInsideWindow'
    BY <1>3, NoneAssumption, ThreadAssumption, TtlAssumption, BoundsAssumption
       DEF Insert, IInv, TypeOK, JobOK, DraftOK, Inside, ConsumedAt, ConsumedInsideWindow,
           Go, End, vars, database, time, threads, history
  <1>4. ASSUME NEW t \in Thread, AnswerIssue(t) PROVE ConsumedInsideWindow'
    BY <1>4, NoneAssumption, ThreadAssumption, TtlAssumption, BoundsAssumption
       DEF AnswerIssue, IInv, TypeOK, JobOK, DraftOK, Inside, ConsumedAt,
           ConsumedInsideWindow, Go, End, vars, database, time, threads, history
  <1>5. ASSUME NEW t \in Thread, Read(t) PROVE ConsumedInsideWindow'
    BY <1>5, NoneAssumption, ThreadAssumption, TtlAssumption, BoundsAssumption
       DEF Read, IInv, TypeOK, JobOK, DraftOK, Inside, ConsumedAt, ConsumedInsideWindow,
           Go, End, vars, database, time, threads, history
  <1>6. ASSUME NEW t \in Thread, Verify(t) PROVE ConsumedInsideWindow'
    BY <1>6, NoneAssumption, ThreadAssumption, TtlAssumption, BoundsAssumption
       DEF Verify, IInv, TypeOK, JobOK, DraftOK, Inside, ConsumedAt, ConsumedInsideWindow,
           Go, End, vars, database, time, threads, history
  <1>7. ASSUME NEW t \in Thread, Begin(t) PROVE ConsumedInsideWindow'
    BY <1>7, NoneAssumption, ThreadAssumption, TtlAssumption, BoundsAssumption
       DEF Begin, IInv, TypeOK, JobOK, DraftOK, Inside, ConsumedAt, ConsumedInsideWindow,
           Go, End, vars, database, time, threads, history
  <1>8. ASSUME NEW t \in Thread, Update(t) PROVE ConsumedInsideWindow'
    BY <1>8, NoneAssumption, ThreadAssumption, TtlAssumption, BoundsAssumption
       DEF Update, IInv, TypeOK, JobOK, DraftOK, Inside, ConsumedAt, ConsumedInsideWindow,
           Go, End, vars, database, time, threads, history
  <1>9. ASSUME NEW t \in Thread, Commit(t) PROVE ConsumedInsideWindow'
    BY <1>9, NoneAssumption, ThreadAssumption, TtlAssumption, BoundsAssumption
       DEF Commit, IInv, TypeOK, JobOK, DraftOK, Inside, ConsumedAt, ConsumedInsideWindow,
           Go, End, vars, database, time, threads, history
  <1>10. ASSUME NEW t \in Thread, ReturnReceipt(t) PROVE ConsumedInsideWindow'
    BY <1>10, NoneAssumption, ThreadAssumption, TtlAssumption, BoundsAssumption
       DEF ReturnReceipt, IInv, TypeOK, JobOK, DraftOK, Inside, ConsumedAt,
           ConsumedInsideWindow, Go, End, vars, database, time, threads, history
  <1>11. ASSUME NEW t \in Thread, Fail(t) PROVE ConsumedInsideWindow'
    BY <1>11, NoneAssumption, ThreadAssumption, TtlAssumption, BoundsAssumption
       DEF Fail, IInv, TypeOK, JobOK, DraftOK, Inside, ConsumedAt, ConsumedInsideWindow,
           Go, End, vars, database, time, threads, history
  <1>12. ASSUME Tick PROVE ConsumedInsideWindow'
    BY <1>12, NoneAssumption, ThreadAssumption, TtlAssumption, BoundsAssumption
       DEF Tick, IInv, TypeOK, JobOK, DraftOK, Inside, ConsumedAt, ConsumedInsideWindow,
           Go, End, vars, database, time, threads, history
  <1>13. ASSUME SetBack PROVE ConsumedInsideWindow'
    BY <1>13, NoneAssumption, ThreadAssumption, TtlAssumption, BoundsAssumption
       DEF SetBack, IInv, TypeOK, JobOK, DraftOK, Inside, ConsumedAt,
           ConsumedInsideWindow, Go, End, vars, database, time, threads, history
  <1>14. ASSUME UNCHANGED vars PROVE ConsumedInsideWindow'
    BY <1>14
       DEF IInv, TypeOK, JobOK, DraftOK, Inside, ConsumedAt, ConsumedInsideWindow, Go,
           End, vars, database, time, threads, history
  <1> QED
    BY <1>1, <1>2, <1>3, <1>4, <1>5, <1>6, <1>7, <1>8, <1>9, <1>10, <1>11, <1>12, <1>13,
       <1>14
       DEF Next, Step


\* It holds in every state.
LEMMA Invariance == Spec => []IInv
  <1>1. IInv /\ [Next]_vars => IInv'
    BY NextTypeOK, NextJobOK, NextDraftOK, NextAnswerOK, NextOneReceipt, NextDurable,
       NextWindow
       DEF IInv
  <1> QED BY InitIInv, <1>1, PTL DEF Spec

------------------------------------------------------------------------------
\* Calls, rows and answers stay well formed, and whoever inserts or updates
\* holds the write lock (BEGIN IMMEDIATE).
THEOREM TypeCorrect == Spec => []TypeOK
  <1>1. IInv => TypeOK
    BY DEF IInv
  <1> QED BY Invariance, <1>1, PTL

\* However many valid proofs race, consume() returns one receipt at most for a
\* challenge.
THEOREM ReceiptIsSingle == Spec => []OneReceipt
  <1>1. IInv => OneReceipt
    BY DEF IInv
  <1> QED BY Invariance, <1>1, PTL

\* What issue() and consume() have answered is committed, and stays so
\* whichever callers fail.
THEOREM AnswersSurvive == Spec => []AnswersAreDurable
  <1>1. IInv => AnswersAreDurable
    BY DEF IInv
  <1> QED BY Invariance, <1>1, PTL

\* No challenge is consumed outside the window it was issued for, wherever the
\* clock goes while a proof is verified.
THEOREM ConsumptionIsInTime == Spec => []ConsumedInsideWindow
  <1>1. IInv => ConsumedInsideWindow
    BY DEF IInv
  <1> QED BY Invariance, <1>1, PTL

Kept(c) ==
  row[c] # None =>
    /\ row'[c] # None
    /\ row'[c].binding = row[c].binding
    /\ row'[c].issued = row[c].issued /\ row'[c].expires = row[c].expires
    /\ row[c].consumed # None => row'[c] = row[c]

\* No step takes a row away, or changes what is written in it.
LEMMA StepKeepsRows == IInv /\ [Next]_vars => \A c \in Challenge : Kept(c)
  <1> SUFFICES ASSUME IInv, [Next]_vars, NEW c \in Challenge PROVE Kept(c)
    OBVIOUS
  <1>1. CASE row' = row
    BY <1>1 DEF Kept
  <1>2. ASSUME NEW t \in Thread, Insert(t) PROVE Kept(c)
    <2>1. job[t].challenge \in Challenge
      BY <1>2 DEF Insert, IInv, JobOK, Issue
    <2>2. row[c] # None => row'[c] = row[c]
      BY <1>2, <2>1 DEF Insert, IInv, TypeOK
    <2> QED BY <2>2 DEF Kept
  <1>3. ASSUME NEW t \in Thread, Commit(t) PROVE Kept(c)
    <2>1. /\ job[t].challenge \in Challenge
          /\ draft[t].consumed \in Nat /\ draft[t] = ConsumedAt(seen[t], draft[t].consumed)
          /\ seen[t] \in Row /\ seen[t].consumed = None /\ row[job[t].challenge] = seen[t]
      BY <1>3 DEF Commit, IInv, JobOK, DraftOK, Consume
    <2>2. CASE job[t].challenge # c
      <3>1. row'[c] = row[c]
        BY <1>3, <2>1, <2>2 DEF Commit, IInv, TypeOK
      <3> QED BY <3>1 DEF Kept
    <2>3. CASE job[t].challenge = c
      <3>1. row'[c] = draft[t] /\ row[c] = seen[t]
        BY <1>3, <2>1, <2>3 DEF Commit, IInv, TypeOK
      <3>2. /\ draft[t].binding = seen[t].binding /\ draft[t].issued = seen[t].issued
            /\ draft[t].expires = seen[t].expires /\ draft[t] \in Row
        BY <2>1 DEF ConsumedAt, Row
      <3>3. draft[t] # None
        BY <3>2, NoneAssumption
      <3> QED BY <2>1, <3>1, <3>2, <3>3 DEF Kept
    <2> QED BY <2>2, <2>3
  <1>4. ASSUME NEW t \in Thread, Call(t) \/ Step(t) \/ Fail(t), ~Insert(t), ~Commit(t)
        PROVE  row' = row
    BY <1>4 DEF Step, Call, Fail, Generate, AnswerIssue, Read, Verify, Begin, Update,
                ReturnReceipt, database
  <1>5. Tick \/ SetBack \/ UNCHANGED vars => row' = row
    BY DEF Tick, SetBack, vars, database
  <1> QED
    BY <1>1, <1>2, <1>3, <1>4, <1>5 DEF Next

\* A nonce that was issued is never issued again, and a consumption is final.
THEOREM RowsStay == Spec => RowsAreKept
  <1>1. IInv /\ [Next]_vars => [\A c \in Challenge : Kept(c)]_vars
    BY StepKeepsRows
  <1>2. IInv /\ [Next]_vars =>
          [\A c \in Challenge : row[c] # None =>
             /\ row'[c] # None
             /\ row'[c].binding = row[c].binding
             /\ row'[c].issued = row[c].issued /\ row'[c].expires = row[c].expires
             /\ row[c].consumed # None => row'[c] = row[c]]_vars
    BY <1>1 DEF Kept
  <1> QED BY Invariance, <1>2, PTL DEF Spec, RowsAreKept
==============================================================================
