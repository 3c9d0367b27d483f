--------------------------- MODULE MailStoreProofs ---------------------------
(***************************************************************************)
(* Theorems about MailStore for any accounts, mails, threads, batch limit  *)
(* and number of requests.                                                 *)
(***************************************************************************)
EXTENDS MailStore, FiniteSetTheorems, WellFoundedInduction, TLAPS

Active(t) == pc[t] \notin {"idle", "waiting"} \cup Quarantining

\* A thread between its first and its last file operation on the mailboxes has
\* the lock.
LockHeld == \A t \in Thread : Active(t) => lock = t

\* Each phase belongs to one kind of request, and a send that was let in is
\* addressed to registered accounts only.
PhaseOK ==
  \A t \in Thread :
    /\ pc[t] # "idle" => request[t] # NoRequest
    /\ pc[t] \in {"dedup", "publish"} => request[t].op = "send"
    /\ pc[t] \in {"claim", "rename"} => request[t].op = "receive"
    /\ pc[t] \in Quarantining => request[t].op = "send"
    /\ pc[t] = "answer" => request[t].op \in {"send", "delete"}
    /\ Active(t) /\ request[t].op = "send" =>
         todo[t] \subseteq request[t].rcpt /\ request[t].rcpt \subseteq registered
    /\ pc[t] = "answer" /\ request[t].op = "send" => todo[t] = {}
    /\ pc[t] # "rename" => picked[t] = {}

\* A mailbox whose acknowledgment has committed holds no other .sent file,
\* and a batch that was answered exists.
RetireOK ==
  \A a \in Account :
    /\ intent[a] # {} => sent[a] \subseteq intent[a] /\ ~answered[a]
    /\ answered[a] => sent[a] # {}

\* A console could ask for all of these mails at once.
Fits(S) == S # {} => \E b \in Budget : SizeOf(S) <= b

\* What a thread has established about the mailbox it works on.
Established(t, a) ==
  /\ pc[t] \in {"dedup", "publish", "claim", "rename"} => intent[a] = {}
  /\ pc[t] = "publish" =>
       /\ ~Duplicate(t, a)
       /\ \A f \in reported[a] : f[1] < generation[a]
  /\ pc[t] = "rename" =>
       /\ picked[t] \subseteq eml[a]
       /\ picked[t] # {} => ~answered[a]
       /\ Cardinality(sent[a] \cup picked[t]) <= Limit
       /\ Fits(sent[a] \cup picked[t])

WorkOK ==
  \A t \in Thread, a \in Account : Active(t) /\ At(t, a) => Established(t, a)

\* The recipients a send has already served hold its mail.
ServedOK ==
  \A t \in Thread : Active(t) /\ request[t].op = "send" =>
    \A r \in request[t].rcpt \ todo[t] : request[t].mail \in Pending(r)

\* Reported flags carry old markers, stale ones strictly older markers.
FlagsOK ==
  \A a \in Account :
    /\ \A f \in reported[a] : f[1] <= generation[a]
    /\ \A f \in stale[a] : f[1] < generation[a]

\* A refused payload has its file from the moment it is opened.
KeptOK ==
  /\ RetiredMailIsKept
  /\ \A t \in Thread :
       pc[t] \in {"write", "refuse"} => rejected[request[t].mail] # "absent"

BatchWithinLimit == \A a \in Account : Cardinality(sent[a]) <= Limit

BatchFits == \A a \in Account : Fits(sent[a])

IInv ==
  /\ TypeOK /\ LockHeld /\ PhaseOK /\ RetireOK /\ WorkOK /\ ServedOK /\ FlagsOK
  /\ OneCopy /\ OwedMailIsPending /\ KeptOK /\ BatchWithinLimit /\ BatchFits

------------------------------------------------------------------------------
(* Type correctness. *)

\* The initial state is well formed.
LEMMA InitTypeOK == Init => TypeOK
  BY ThreadAssumption, LimitAssumption DEF Init, TypeOK, Phase, Request, NoRequest

\* Giving the lock back preserves the types of the process memory.
LEMMA ReleaseType ==
  ASSUME TypeOK, NEW t \in Thread, Release(t)
  PROVE  /\ lock' \in Thread \cup {NoThread}
         /\ pc' \in [Thread -> Phase]
         /\ request' \in [Thread -> Request]
         /\ todo' \in [Thread -> SUBSET Account]
         /\ picked' \in [Thread -> SUBSET Mail]
  BY DEF TypeOK, Release, Phase, Request, NoRequest

\* What a request holds.
LEMMA RequestType ==
  ASSUME TypeOK, NEW t \in Thread
  PROVE  /\ request[t].op = "send" =>
              request[t].mail \in Mail /\ request[t].rcpt \subseteq Account
         /\ request[t].op \in {"receive", "delete"} => request[t].box \in Account
         /\ request[t].op = "receive" => request[t].maxsize \in Budget
         /\ request[t] # NoRequest => request[t].op \in {"send", "receive", "delete"}
  BY DEF TypeOK, Request, SendRequest, ReceiveRequest, DeleteRequest, NoRequest

\* A refusal leaves the mailboxes and the other threads alone, and needs no lock.
LEMMA RefusalLeaves ==
  ASSUME TypeOK, NEW t \in Thread, Refusal(t)
  PROVE  /\ UNCHANGED <<boxes, sends, owed, answered, reported, stale>>
         /\ ~ Active(t) /\ ~ Active(t)'
         /\ lock # t => lock' = lock
         /\ \A u \in Thread \ {t} :
              UNCHANGED <<pc[u], request[u], todo[u], picked[u]>>
  <1>1. CASE RefuseSend(t)
    BY <1>1 DEF RefuseSend, Go, Active, Quarantining, TypeOK, disk, observer
  <1>2. CASE OpenRejected(t) \/ WriteRejected(t)
    BY <1>2 DEF OpenRejected, WriteRejected, Go, Active, Quarantining, TypeOK, observer
  <1>3. CASE AnswerRefused(t)
    BY <1>3 DEF AnswerRefused, Release, Active, Quarantining, TypeOK, disk
  <1> QED BY <1>1, <1>2, <1>3 DEF Refusal

\* Every step keeps the state well formed.
LEMMA NextTypeOK == IInv /\ [Next]_vars => TypeOK'
  <1> SUFFICES ASSUME IInv, [Next]_vars PROVE TypeOK'
    OBVIOUS
  <1> USE DEF TypeOK
  <1>0. TypeOK
    BY DEF IInv
  <1>1. ASSUME NEW a \in Account, Register(a) PROVE TypeOK'
    BY <1>0, <1>1 DEF Register, memory, observer
  <1>2. ASSUME NEW a \in Account, CheckMail(a) PROVE TypeOK'
    BY <1>0, <1>2 DEF CheckMail, memory, disk, boxes, MailFlag, Pending, Flag
  <1>3. ASSUME NEW t \in Thread, Arrive(t) PROVE TypeOK'
    BY <1>0, <1>3, LimitAssumption DEF Arrive, Go, Phase, disk, boxes, Request
  <1>4. ASSUME NEW t \in Thread, EnterSend(t) PROVE TypeOK'
    <2>1. CASE Release(t)
      BY <1>0, <1>4, <2>1, ReleaseType DEF EnterSend, disk, boxes, observer
    <2>2. CASE ~Release(t)
      BY <1>0, <1>4, <2>2 DEF EnterSend, Go, Phase, disk, boxes, observer
    <2> QED BY <2>1, <2>2
  <1>5. ASSUME NEW t \in Thread, EnterReceive(t) PROVE TypeOK'
    BY <1>0, <1>5 DEF EnterReceive, Go, Phase, disk, boxes, observer
  <1>6. ASSUME NEW t \in Thread, NEW a \in Account, EnterDelete(t, a) PROVE TypeOK'
    <2>1. CASE ResumeAck(t, a)
      BY <1>0, <2>1 DEF ResumeAck, Go, Phase, disk, boxes, observer
    <2>2. CASE CommitAck(t, a)
      BY <1>0, <2>2 DEF CommitAck, Go, Phase
    <2>3. CASE RefuseAck(t, a)
      BY <1>0, <2>3, ReleaseType DEF RefuseAck, disk, boxes, observer
    <2> QED BY <1>6, <2>1, <2>2, <2>3 DEF EnterDelete
  <1>7. ASSUME NEW t \in Thread, AnswerSend(t) PROVE TypeOK'
    BY <1>0, <1>7, ReleaseType, RequestType DEF AnswerSend, disk, boxes
  <1>8. ASSUME NEW t \in Thread, AnswerDelete(t) PROVE TypeOK'
    BY <1>0, <1>8, ReleaseType DEF AnswerDelete, disk, boxes, observer
  <1>9. ASSUME NEW t \in Thread, Fail(t) PROVE TypeOK'
    BY <1>0, <1>9, ReleaseType DEF Fail, disk, boxes, observer
  <1>10. ASSUME NEW t \in Thread, NEW a \in Account, UnlinkRetired(t, a) PROVE TypeOK'
    BY <1>0, <1>10 DEF UnlinkRetired, memory, observer
  <1>11. ASSUME NEW t \in Thread, NEW a \in Account, EndRetire(t, a) PROVE TypeOK'
    BY <1>0, <1>11 DEF EndRetire, Go, Phase, observer
  <1>12. ASSUME NEW t \in Thread, NEW a \in Account, SkipDuplicate(t, a) PROVE TypeOK'
    BY <1>0, <1>12 DEF SkipDuplicate, ServedRecipient, Go, Phase, disk, boxes, observer
  <1>13. ASSUME NEW t \in Thread, NEW a \in Account, AdvanceFlag(t, a) PROVE TypeOK'
    BY <1>0, <1>13 DEF AdvanceFlag, Go, Phase, observer
  <1>14. ASSUME NEW t \in Thread, NEW a \in Account, Publish(t, a) PROVE TypeOK'
    <2>1. request[t].op = "send" /\ request[t].mail \in Mail /\ Active(t)
      BY <1>0, <1>14, RequestType DEF Publish, IInv, PhaseOK, Active, Quarantining
    <2>2. a \in registered
      BY <1>14, <2>1 DEF Publish, At, Least, IInv, PhaseOK
    <2> QED
      BY <1>0, <1>14, <2>1, <2>2 DEF Publish, ServedRecipient, Go, Phase
  <1>15. ASSUME NEW t \in Thread, NEW a \in Account, Replay(t, a) PROVE TypeOK'
    BY <1>0, <1>15, ReleaseType DEF Replay, Go, Phase, disk, boxes, observer
  <1>16. ASSUME NEW t \in Thread, NEW a \in Account, Select(t, a) PROVE TypeOK'
    BY <1>0, <1>16 DEF Select, Go, Phase, disk, boxes, observer
  <1>17. ASSUME NEW t \in Thread, NEW a \in Account, RenameOne(t, a) PROVE TypeOK'
    <2>1. picked[t] \subseteq eml[a]
      BY <1>17 DEF RenameOne, IInv, WorkOK, Established, Active, Quarantining
    <2> QED BY <1>0, <1>17, <2>1 DEF RenameOne, Least, observer
  <1>18. ASSUME NEW t \in Thread, NEW a \in Account, AnswerReceive(t, a) PROVE TypeOK'
    BY <1>0, <1>18, ReleaseType DEF AnswerReceive, disk, boxes
  <1>19. ASSUME Restart PROVE TypeOK'
    BY <1>0, <1>19, ThreadAssumption DEF Restart, Phase, Request, NoRequest,
       disk, boxes, observer
  <1>20. ASSUME UNCHANGED vars PROVE TypeOK'
    BY <1>0, <1>20 DEF vars, disk, boxes, memory, observer
  <1>21. ASSUME NEW t \in Thread, Refusal(t) PROVE TypeOK'
    <2>1. RefuseSend(t) => TypeOK'
      BY <1>0 DEF RefuseSend, Go, Phase, Quarantining, disk, boxes, observer
    <2>2. OpenRejected(t) \/ WriteRejected(t) => TypeOK'
      BY <1>0 DEF OpenRejected, WriteRejected, Go, Phase, Quarantining, boxes, observer
    <2>3. AnswerRefused(t) => TypeOK'
      <3>1. ASSUME AnswerRefused(t) PROVE retired' \subseteq Mail
        BY <1>0, <3>1, RequestType DEF AnswerRefused, IInv, PhaseOK, Quarantining
      <3> QED BY <1>0, <3>1, ReleaseType DEF AnswerRefused, disk, boxes
    <2> QED BY <1>21, <2>1, <2>2, <2>3 DEF Refusal
  <1> QED
    BY <1>1, <1>2, <1>3, <1>4, <1>5, <1>6, <1>7, <1>8, <1>9, <1>10, <1>11,
       <1>12, <1>13, <1>14, <1>15, <1>16, <1>17, <1>18, <1>19, <1>20, <1>21
       DEF Next, Step

------------------------------------------------------------------------------
(* Control: the lock, the phases and the requests. *)

\* No step lets a second thread in.
LEMMA NextLockHeld == IInv /\ [Next]_vars => LockHeld'
  <1> SUFFICES ASSUME IInv, [Next]_vars PROVE LockHeld'
    OBVIOUS
  <1>1. ASSUME NEW a \in Account, Register(a) PROVE LockHeld'
    BY <1>1, ThreadAssumption DEF Register, memory, observer, LockHeld, Active,
       Quarantining,
       IInv, TypeOK
  <1>2. ASSUME NEW a \in Account, CheckMail(a) PROVE LockHeld'
    BY <1>2, ThreadAssumption DEF CheckMail, disk, boxes, memory, LockHeld, Active,
       Quarantining,
       IInv, TypeOK
  <1>3. ASSUME NEW t \in Thread, Arrive(t) PROVE LockHeld'
    BY <1>3, ThreadAssumption DEF Arrive, Go, disk, boxes, LockHeld, Active,
       Quarantining, IInv,
       TypeOK
  <1>4. ASSUME NEW t \in Thread, EnterSend(t) PROVE LockHeld'
    BY <1>4, ThreadAssumption DEF EnterSend, Release, Go, disk, boxes, observer,
       LockHeld, Active, Quarantining, IInv, TypeOK
  <1>5. ASSUME NEW t \in Thread, EnterReceive(t) PROVE LockHeld'
    BY <1>5, ThreadAssumption DEF EnterReceive, Go, disk, boxes, observer, LockHeld,
       Active, Quarantining, IInv, TypeOK
  <1>6. ASSUME NEW t \in Thread, NEW a \in Account, EnterDelete(t, a) PROVE LockHeld'
    BY <1>6, ThreadAssumption DEF EnterDelete, ResumeAck, CommitAck, RefuseAck,
       Release, Go, disk, boxes, observer, LockHeld, Active, Quarantining, IInv, TypeOK
  <1>7. ASSUME NEW t \in Thread, NEW a \in Account, UnlinkRetired(t, a) PROVE LockHeld'
    BY <1>7, ThreadAssumption DEF UnlinkRetired, memory, observer, LockHeld,
       Active, Quarantining, IInv, TypeOK
  <1>8. ASSUME NEW t \in Thread, NEW a \in Account, EndRetire(t, a) PROVE LockHeld'
    BY <1>8, ThreadAssumption DEF EndRetire, Go, observer, LockHeld, Active, Quarantining,
       IInv, TypeOK
  <1>9. ASSUME NEW t \in Thread, NEW a \in Account, SkipDuplicate(t, a) PROVE LockHeld'
    BY <1>9, ThreadAssumption DEF SkipDuplicate, ServedRecipient, Duplicate, Go,
       disk, boxes, observer, LockHeld, Active, Quarantining, IInv, TypeOK
  <1>10. ASSUME NEW t \in Thread, NEW a \in Account, AdvanceFlag(t, a) PROVE LockHeld'
    BY <1>10, ThreadAssumption DEF AdvanceFlag, Duplicate, Go, observer,
       LockHeld, Active, Quarantining, IInv, TypeOK
  <1>11. ASSUME NEW t \in Thread, NEW a \in Account, Publish(t, a) PROVE LockHeld'
    BY <1>11, ThreadAssumption DEF Publish, ServedRecipient, Go, LockHeld,
       Active, Quarantining, IInv, TypeOK
  <1>12. ASSUME NEW t \in Thread, AnswerSend(t) PROVE LockHeld'
    BY <1>12, ThreadAssumption DEF AnswerSend, Release, disk, boxes, LockHeld,
       Active, Quarantining,
       IInv, TypeOK
  <1>13. ASSUME NEW t \in Thread, NEW a \in Account, Replay(t, a) PROVE LockHeld'
    BY <1>13, ThreadAssumption DEF Replay, Release, Go, disk, boxes, observer,
       LockHeld, Active, Quarantining, IInv, TypeOK
  <1>14. ASSUME NEW t \in Thread, NEW a \in Account, Select(t, a) PROVE LockHeld'
    BY <1>14, ThreadAssumption DEF Select, Go, disk, boxes, observer, LockHeld,
       Active, Quarantining,
       IInv, TypeOK
  <1>15. ASSUME NEW t \in Thread, NEW a \in Account, RenameOne(t, a) PROVE LockHeld'
    BY <1>15, ThreadAssumption DEF RenameOne, observer, LockHeld, Active,
       Quarantining, IInv,
       TypeOK
  <1>16. ASSUME NEW t \in Thread, NEW a \in Account, AnswerReceive(t, a) PROVE LockHeld'
    BY <1>16, ThreadAssumption DEF AnswerReceive, Release, disk, boxes, LockHeld,
       Active, Quarantining, IInv, TypeOK
  <1>17. ASSUME NEW t \in Thread, AnswerDelete(t) PROVE LockHeld'
    BY <1>17, ThreadAssumption DEF AnswerDelete, Release, disk, boxes, observer,
       LockHeld, Active, Quarantining, IInv, TypeOK
  <1>18. ASSUME NEW t \in Thread, Fail(t) PROVE LockHeld'
    BY <1>18, ThreadAssumption DEF Fail, Release, disk, boxes, observer, LockHeld,
       Active, Quarantining, IInv, TypeOK
  <1>19. ASSUME Restart PROVE LockHeld'
    BY <1>19, ThreadAssumption DEF Restart, disk, boxes, observer, LockHeld, Active,
       Quarantining,
       IInv, TypeOK
  <1>20. ASSUME UNCHANGED vars PROVE LockHeld'
    BY <1>20, ThreadAssumption DEF vars, disk, boxes, memory, observer, LockHeld,
       Active, Quarantining, IInv, TypeOK
  <1>21. ASSUME NEW t \in Thread, Refusal(t) PROVE LockHeld'
    BY <1>21, RefusalLeaves DEF LockHeld, Active, IInv
  <1> QED
    BY <1>1, <1>2, <1>3, <1>4, <1>5, <1>6, <1>7, <1>8, <1>9, <1>10, <1>11,
       <1>12, <1>13, <1>14, <1>15, <1>16, <1>17, <1>18, <1>19, <1>20, <1>21
       DEF Next, Step

\* Each phase follows from a request of its kind.
LEMMA NextPhaseOK == IInv /\ [Next]_vars => PhaseOK'
  <1> SUFFICES ASSUME IInv, [Next]_vars PROVE PhaseOK'
    OBVIOUS
  <1>1. ASSUME NEW a \in Account, Register(a) PROVE PhaseOK'
    BY <1>1 DEF Register, memory, observer, Active, Quarantining, IInv, TypeOK, PhaseOK,
       NoRequest
  <1>2. ASSUME NEW a \in Account, CheckMail(a) PROVE PhaseOK'
    BY <1>2 DEF CheckMail, disk, boxes, memory, Active, Quarantining, IInv, TypeOK, PhaseOK,
       NoRequest
  <1>3. ASSUME NEW t \in Thread, Arrive(t) PROVE PhaseOK'
    BY <1>3 DEF Arrive, Go, disk, boxes, Active, Quarantining, IInv, TypeOK, PhaseOK,
       NoRequest,
       SendRequest, ReceiveRequest, DeleteRequest
  <1>4. ASSUME NEW t \in Thread, EnterSend(t) PROVE PhaseOK'
    BY <1>4 DEF EnterSend, Release, Go, disk, boxes, observer, Active, Quarantining,
       IInv, TypeOK,
       PhaseOK, NoRequest
  <1>5. ASSUME NEW t \in Thread, EnterReceive(t) PROVE PhaseOK'
    BY <1>5 DEF EnterReceive, Go, disk, boxes, observer, Active, Quarantining, IInv,
       TypeOK, PhaseOK,
       NoRequest
  <1>6. ASSUME NEW t \in Thread, NEW a \in Account, EnterDelete(t, a) PROVE PhaseOK'
    BY <1>6 DEF EnterDelete, ResumeAck, CommitAck, RefuseAck, Release, Go, disk, boxes,
       observer, Active, Quarantining, IInv, TypeOK, PhaseOK, NoRequest
  <1>7. ASSUME NEW t \in Thread, NEW a \in Account, UnlinkRetired(t, a) PROVE PhaseOK'
    BY <1>7 DEF UnlinkRetired, memory, observer, Active, Quarantining, IInv, TypeOK,
       PhaseOK,
       NoRequest
  <1>8. ASSUME NEW t \in Thread, NEW a \in Account, EndRetire(t, a) PROVE PhaseOK'
    BY <1>8 DEF EndRetire, Go, observer, Active, Quarantining, IInv, TypeOK, PhaseOK,
       NoRequest
  <1>9. ASSUME NEW t \in Thread, NEW a \in Account, SkipDuplicate(t, a) PROVE PhaseOK'
    BY <1>9 DEF SkipDuplicate, ServedRecipient, Duplicate, Go, disk, boxes, observer,
       Active, Quarantining, IInv, TypeOK, PhaseOK, NoRequest
  <1>10. ASSUME NEW t \in Thread, NEW a \in Account, AdvanceFlag(t, a) PROVE PhaseOK'
    BY <1>10 DEF AdvanceFlag, Duplicate, Go, observer, Active, Quarantining, IInv, TypeOK,
       PhaseOK, NoRequest
  <1>11. ASSUME NEW t \in Thread, NEW a \in Account, Publish(t, a) PROVE PhaseOK'
    BY <1>11 DEF Publish, ServedRecipient, Go, Active, Quarantining, IInv, TypeOK, PhaseOK,
       NoRequest
  <1>12. ASSUME NEW t \in Thread, AnswerSend(t) PROVE PhaseOK'
    BY <1>12 DEF AnswerSend, Release, disk, boxes, Active, Quarantining, IInv,
       TypeOK, PhaseOK,
       NoRequest
  <1>13. ASSUME NEW t \in Thread, NEW a \in Account, Replay(t, a) PROVE PhaseOK'
    BY <1>13 DEF Replay, Release, Go, disk, boxes, observer, Active, Quarantining,
       IInv, TypeOK,
       PhaseOK, NoRequest
  <1>14. ASSUME NEW t \in Thread, NEW a \in Account, Select(t, a) PROVE PhaseOK'
    BY <1>14 DEF Select, Go, disk, boxes, observer, Active, Quarantining, IInv,
       TypeOK, PhaseOK,
       NoRequest
  <1>15. ASSUME NEW t \in Thread, NEW a \in Account, RenameOne(t, a) PROVE PhaseOK'
    BY <1>15 DEF RenameOne, observer, Active, Quarantining, IInv, TypeOK, PhaseOK, NoRequest
  <1>16. ASSUME NEW t \in Thread, NEW a \in Account, AnswerReceive(t, a) PROVE PhaseOK'
    BY <1>16 DEF AnswerReceive, Release, disk, boxes, Active, Quarantining, IInv,
       TypeOK, PhaseOK,
       NoRequest
  <1>17. ASSUME NEW t \in Thread, AnswerDelete(t) PROVE PhaseOK'
    BY <1>17 DEF AnswerDelete, Release, disk, boxes, observer, Active, Quarantining,
       IInv, TypeOK,
       PhaseOK, NoRequest
  <1>18. ASSUME NEW t \in Thread, Fail(t) PROVE PhaseOK'
    BY <1>18 DEF Fail, Release, disk, boxes, observer, Active, Quarantining, IInv,
       TypeOK, PhaseOK,
       NoRequest
  <1>19. ASSUME Restart PROVE PhaseOK'
    BY <1>19 DEF Restart, disk, boxes, observer, Active, Quarantining, IInv, TypeOK,
       PhaseOK,
       NoRequest
  <1>20. ASSUME UNCHANGED vars PROVE PhaseOK'
    BY <1>20 DEF vars, disk, boxes, memory, observer, Active, Quarantining, IInv,
       TypeOK, PhaseOK,
       NoRequest
  <1>21. ASSUME NEW t \in Thread, Refusal(t) PROVE PhaseOK'
    BY <1>21 DEF Refusal, RefuseSend, OpenRejected, WriteRejected, AnswerRefused,
       Release, Go, disk, boxes, Active, Quarantining, IInv, TypeOK, PhaseOK, NoRequest
  <1> QED
    BY <1>1, <1>2, <1>3, <1>4, <1>5, <1>6, <1>7, <1>8, <1>9, <1>10, <1>11,
       <1>12, <1>13, <1>14, <1>15, <1>16, <1>17, <1>18, <1>19, <1>20, <1>21
       DEF Next, Step

------------------------------------------------------------------------------
(* The bytes of a batch.  SizeOf adds sizes up in an order that is not given; *)
(* what it is worth is proved over a smallest counterexample.                *)

\* Among sets of mails there is one that has none of the others as a part.
LEMMA SmallestSet ==
  ASSUME NEW B \in SUBSET SUBSET Mail, B # {}
  PROVE  \E S \in B : \A T \in SUBSET S : T # S => T \notin B
  <1>1. IsWellFoundedOn(StrictSubsetOrdering(Mail), SUBSET Mail)
    BY MailAssumption, FS_StrictSubsetOrderingWellFounded, FS_FiniteSubsetsOfFinite
  <1>2. PICK S \in B : \A T \in B : ~ (<<T, S>> \in StrictSubsetOrdering(Mail))
    BY <1>1, WFMin
  <1> QED BY <1>2 DEF StrictSubsetOrdering

\* The element that a sum over s takes first, and the recursive equation of the
\* function that SizeOf chooses.
First(s) == CHOOSE x \in s : TRUE

Adds(S, g) ==
  g = [s \in SUBSET S |-> IF s = {} THEN 0 ELSE Size[First(s)] + g[s \ {First(s)}]]

\* SizeOf is a value of the function that its equation picks.
LEMMA ChosenSum ==
  ASSUME NEW S
  PROVE  SizeOf(S) = (CHOOSE g : Adds(S, g))[S]
  BY DEF SizeOf, MapThenSumSet, MapThenFoldSet, Adds, First

\* What such a function is worth.
LEMMA AddsValue ==
  ASSUME NEW S, NEW g, Adds(S, g), NEW s \in SUBSET S
  PROVE  g[s] = IF s = {} THEN 0 ELSE Size[First(s)] + g[s \ {First(s)}]
  BY DEF Adds

\* The first element is one.
LEMMA FirstIsElement ==
  ASSUME NEW s, s # {}
  PROVE  First(s) \in s
  BY DEF First

\* Two such functions agree where both are defined.
LEMMA SumsAgree ==
  ASSUME NEW S \in SUBSET Mail, NEW T \in SUBSET Mail, NEW g, NEW h,
         Adds(S, g), Adds(T, h), NEW s \in SUBSET (S \cap T)
  PROVE  g[s] = h[s]
  <1> DEFINE Bad == {r \in SUBSET (S \cap T) : g[r] # h[r]}
  <1> SUFFICES ASSUME Bad # {} PROVE FALSE
    OBVIOUS
  <1>1. PICK r \in Bad : \A q \in SUBSET r : q # r => q \notin Bad
    <2>1. Bad \in SUBSET SUBSET Mail
      OBVIOUS
    <2> HIDE DEF Bad
    <2> QED BY <2>1, SmallestSet
  <1>2. r \in SUBSET S /\ r \in SUBSET T
    BY <1>1
  <1>3. CASE r = {}
    BY <1>1, <1>2, <1>3, AddsValue
  <1>4. CASE r # {}
    <2> DEFINE q == r \ {First(r)}
    <2>1. q \in SUBSET r /\ q # r
      BY <1>4, FirstIsElement
    <2>2. g[q] = h[q]
      BY <2>1, <1>1, <1>2
    <2>3. g[r] = Size[First(r)] + g[q]
      BY <1>2, <1>4, AddsValue
    <2>4. h[r] = Size[First(r)] + h[q]
      BY <1>2, <1>4, AddsValue
    <2> QED BY <1>1, <2>2, <2>3, <2>4
  <1> QED BY <1>3, <1>4

\* There is one for every set of mails: a smallest set without one could take its
\* values from those of its parts.
LEMMA SumsExist ==
  ASSUME NEW S \in SUBSET Mail
  PROVE  \E g : Adds(S, g)
  <1> DEFINE Bad == {T \in SUBSET Mail : ~ \E g : Adds(T, g)}
  <1> SUFFICES ASSUME Bad # {} PROVE FALSE
    OBVIOUS
  <1>1. PICK T \in Bad : \A U \in SUBSET T : U # T => U \notin Bad
    <2>1. Bad \in SUBSET SUBSET Mail
      OBVIOUS
    <2> HIDE DEF Bad
    <2> QED BY <2>1, SmallestSet
  <1>2. T \in SUBSET Mail /\ ~ \E g : Adds(T, g)
    BY <1>1
  <1> DEFINE Part(U) == (CHOOSE g : Adds(U, g))[U]
  <1>3. ASSUME NEW U \in SUBSET T, U # T
        PROVE  Part(U) = IF U = {} THEN 0 ELSE Size[First(U)] + Part(U \ {First(U)})
    <2>1. U \in SUBSET Mail /\ \E g : Adds(U, g)
      BY <1>1, <1>2, <1>3
    <2> DEFINE gU == CHOOSE g : Adds(U, g)
    <2>2. Adds(U, gU)
      BY <2>1
    <2> HIDE DEF gU
    <2>3. gU[U] = IF U = {} THEN 0 ELSE Size[First(U)] + gU[U \ {First(U)}]
      BY <2>2, AddsValue
    <2>4. CASE U = {}
      BY <2>3, <2>4 DEF gU
    <2>5. CASE U # {}
      <3> DEFINE V == U \ {First(U)}
                 gV == CHOOSE g : Adds(V, g)
      <3>1. V \in SUBSET U /\ V # U
        BY <2>5, FirstIsElement
      <3>2. V \in SUBSET T /\ V # T /\ V \in SUBSET Mail
        BY <3>1, <1>2
      <3>3. \E g : Adds(V, g)
        BY <3>2, <1>1
      <3>4. Adds(V, gV)
        BY <3>3
      <3> HIDE DEF gV
      <3>5. gU[V] = gV[V]
        <4>1. V \in SUBSET (U \cap V)
          OBVIOUS
        <4> HIDE DEF V
        <4> QED BY <4>1, <3>2, <3>4, <2>1, <2>2, SumsAgree
      <3> QED BY <3>5, <2>3, <2>5 DEF gV, gU
    <2> QED BY <2>4, <2>5
  <1> DEFINE f == [s \in SUBSET T |->
                     IF s # T THEN Part(s)
                     ELSE IF s = {} THEN 0 ELSE Size[First(s)] + Part(s \ {First(s)})]
             f2 == [s \in SUBSET T |->
                     IF s = {} THEN 0 ELSE Size[First(s)] + f[s \ {First(s)}]]
  <1> HIDE DEF Part
  <1>4. \A s \in SUBSET T : f[s] = f2[s]
    <2> TAKE s \in SUBSET T
    <2>1. CASE s = {}
      BY <2>1, <1>3
    <2>2. CASE s # {}
      <3>1. s \ {First(s)} \in SUBSET T /\ s \ {First(s)} # T
        BY <2>2, FirstIsElement
      <3>2. f[s \ {First(s)}] = Part(s \ {First(s)})
        BY <3>1
      <3> QED BY <3>2, <2>2, <1>3
    <2> QED BY <2>1, <2>2
  <1>5. f = [s \in SUBSET T |-> f[s]] /\ f2 = [s \in SUBSET T |-> f2[s]]
    OBVIOUS
  <1>6. f = f2
    <2> HIDE DEF f, f2
    <2> QED BY <1>4, <1>5
  <1>7. Adds(T, f)
    <2>1. f2 = [s \in SUBSET T |->
                     IF s = {} THEN 0 ELSE Size[First(s)] + f[s \ {First(s)}]]
      OBVIOUS
    <2> HIDE DEF f, f2
    <2> QED BY <1>6, <2>1 DEF Adds
  <1> QED BY <1>2, <1>7

\* What the sum is of no mail, and of a mail and the rest.
LEMMA SizeOfValue ==
  ASSUME NEW S \in SUBSET Mail
  PROVE  SizeOf(S) = IF S = {} THEN 0 ELSE Size[First(S)] + SizeOf(S \ {First(S)})
  <1> DEFINE g == CHOOSE k : Adds(S, k)
             T == S \ {First(S)}
             h == CHOOSE k : Adds(T, k)
  <1>1. Adds(S, g) /\ Adds(T, h)
    BY SumsExist
  <1>2. SizeOf(S) = g[S] /\ SizeOf(T) = h[T]
    BY ChosenSum
  <1> HIDE DEF g, h
  <1>3. g[S] = IF S = {} THEN 0 ELSE Size[First(S)] + g[T]
    BY <1>1, AddsValue
  <1>4. g[T] = h[T]
    <2>1. T \in SUBSET Mail /\ T \in SUBSET (S \cap T)
      OBVIOUS
    <2> HIDE DEF T
    <2> QED BY <1>1, <2>1, SumsAgree
  <1> QED BY <1>2, <1>3, <1>4

\* A sum of sizes is a number.
LEMMA SizeOfType ==
  ASSUME NEW S \in SUBSET Mail
  PROVE  SizeOf(S) \in Nat
  <1> DEFINE Bad == {T \in SUBSET Mail : SizeOf(T) \notin Nat}
  <1> SUFFICES ASSUME Bad # {} PROVE FALSE
    OBVIOUS
  <1>1. PICK T \in Bad : \A U \in SUBSET T : U # T => U \notin Bad
    <2>1. Bad \in SUBSET SUBSET Mail
      OBVIOUS
    <2> HIDE DEF Bad
    <2> QED BY <2>1, SmallestSet
  <1>2. CASE T = {}
    <2>1. SizeOf(T) = 0
      BY <1>1, <1>2, SizeOfValue
    <2> QED BY <1>1, <2>1
  <1>3. CASE T # {}
    <2> DEFINE U == T \ {First(T)}
    <2>1. First(T) \in T /\ U \in SUBSET T /\ U # T /\ U \in SUBSET Mail
      BY <1>1, <1>3, FirstIsElement
    <2>2. SizeOf(U) \in Nat
      BY <2>1, <1>1
    <2>3. Size[First(T)] \in Nat
      BY <2>1, <1>1, SizeAssumption
    <2>4. SizeOf(T) = Size[First(T)] + SizeOf(U)
      BY <1>1, <1>3, SizeOfValue
    <2> QED BY <1>1, <2>2, <2>3, <2>4
  <1> QED BY <1>2, <1>3

\* One more mail adds its size, whichever mail the sum takes first.
LEMMA SizeOfMore ==
  ASSUME NEW S \in SUBSET Mail, NEW m \in Mail \ S
  PROVE  SizeOf(S \cup {m}) = Size[m] + SizeOf(S)
  <1> DEFINE Bad == {T \in SUBSET Mail :
                       \E x \in Mail \ T : SizeOf(T \cup {x}) # Size[x] + SizeOf(T)}
  <1> SUFFICES ASSUME Bad # {} PROVE FALSE
    OBVIOUS
  <1>1. PICK T \in Bad : \A U \in SUBSET T : U # T => U \notin Bad
    <2>1. Bad \in SUBSET SUBSET Mail
      OBVIOUS
    <2> HIDE DEF Bad
    <2> QED BY <2>1, SmallestSet
  <1>2. PICK x \in Mail \ T : SizeOf(T \cup {x}) # Size[x] + SizeOf(T)
    BY <1>1
  <1> DEFINE W == T \cup {x}
             p == First(W)
  <1>3. W \in SUBSET Mail /\ W # {} /\ p \in W
    BY <1>1, FirstIsElement
  <1>4. SizeOf(W) = Size[p] + SizeOf(W \ {p})
    <2> HIDE DEF W
    <2> QED BY <1>3, SizeOfValue
  <1>5. CASE p = x
    <2>1. W \ {p} = T
      BY <1>5
    <2> QED BY <1>2, <1>4, <1>5, <2>1
  <1>6. CASE p # x
    <2> DEFINE U == T \ {p}
    <2>1. p \in T /\ U \in SUBSET T /\ U # T /\ U \in SUBSET Mail /\ p \in Mail \ U
            /\ x \in Mail \ U
      BY <1>1, <1>3, <1>6
    <2>2. U \notin Bad
      BY <2>1, <1>1
    <2>3. SizeOf(U \cup {x}) = Size[x] + SizeOf(U) /\ SizeOf(U \cup {p}) = Size[p] + SizeOf(U)
      BY <2>1, <2>2
    <2>4. U \cup {x} = W \ {p} /\ U \cup {p} = T
      BY <2>1, <1>6
    <2>5. Size[x] \in Nat /\ Size[p] \in Nat /\ SizeOf(U) \in Nat
      <3>1. Size[x] \in Nat /\ Size[p] \in Nat
        BY <2>1, SizeAssumption
      <3>2. SizeOf(U) \in Nat
        BY <2>1, SizeOfType
      <3> QED BY <3>1, <3>2
    <2>6. SizeOf(W) = Size[p] + (Size[x] + SizeOf(U)) /\ SizeOf(T) = Size[p] + SizeOf(U)
      BY <2>3, <2>4, <1>4
    <2> HIDE DEF U, p
    <2> QED BY <2>5, <2>6, <1>2
  <1> QED BY <1>5, <1>6

\* Fewer mails are no larger.
LEMMA SizeOfFewer ==
  ASSUME NEW S \in SUBSET Mail, NEW T \in SUBSET S
  PROVE  SizeOf(T) <= SizeOf(S)
  <1> DEFINE Bad == {U \in SUBSET Mail : T \subseteq U /\ ~ SizeOf(T) <= SizeOf(U)}
  <1> SUFFICES ASSUME Bad # {} PROVE FALSE
    OBVIOUS
  <1>1. PICK U \in Bad : \A V \in SUBSET U : V # U => V \notin Bad
    <2>1. Bad \in SUBSET SUBSET Mail
      OBVIOUS
    <2> HIDE DEF Bad
    <2> QED BY <2>1, SmallestSet
  <1>2. SizeOf(T) \in Nat
    BY SizeOfType
  <1>3. PICK x \in U : x \notin T
    <2>1. U # T
      BY <1>1, <1>2
    <2> QED BY <1>1, <2>1
  <1> DEFINE V == U \ {x}
  <1>4. V \in SUBSET U /\ V # U /\ V \in SUBSET Mail /\ T \subseteq V /\ x \in Mail \ V
          /\ V \cup {x} = U
    BY <1>1, <1>3
  <1>5. SizeOf(T) <= SizeOf(V)
    BY <1>4, <1>1
  <1>6. SizeOf(U) = Size[x] + SizeOf(V)
    <2> HIDE DEF V
    <2> QED BY <1>4, SizeOfMore
  <1>7. SizeOf(V) \in Nat /\ Size[x] \in Nat /\ SizeOf(U) \in Nat
    <2>1. SizeOf(V) \in Nat /\ SizeOf(U) \in Nat
      BY <1>1, <1>4, SizeOfType
    <2> QED BY <2>1, <1>4, SizeAssumption
  <1> HIDE DEF V
  <1>8. ~ SizeOf(T) <= SizeOf(U)
    BY <1>1
  <1> QED BY <1>2, <1>5, <1>6, <1>7, <1>8

\* A part of what fits does too.
LEMMA FewerFit ==
  ASSUME NEW S \in SUBSET Mail, NEW T \in SUBSET S, Fits(S)
  PROVE  Fits(T)
  <1>1. SizeOf(T) <= SizeOf(S) /\ SizeOf(T) \in Nat /\ SizeOf(S) \in Nat
    BY SizeOfFewer, SizeOfType
  <1>2. CASE T = {}
    BY <1>2 DEF Fits
  <1>3. CASE T # {}
    <2>1. PICK b \in Budget : SizeOf(S) <= b
      BY <1>3 DEF Fits
    <2>2. b \in Nat
      BY SizeAssumption
    <2>3. SizeOf(T) <= b
      BY <1>1, <2>1, <2>2
    <2> QED BY <2>3 DEF Fits
  <1> QED BY <1>2, <1>3

------------------------------------------------------------------------------
(* The files. *)

\* The acting thread has the lock, and what it has established holds.
LEMMA AtWork ==
  ASSUME IInv, NEW t \in Thread, NEW a \in Account, Active(t), At(t, a)
  PROVE  lock = t /\ Established(t, a)
  BY DEF IInv, LockHeld, WorkOK

\* A smaller set of mails has no more elements.
LEMMA FewerMails ==
  ASSUME NEW S \in SUBSET Mail, NEW T \in SUBSET S
  PROVE  /\ Cardinality(T) \in Nat /\ Cardinality(S) \in Nat
         /\ Cardinality(T) <= Cardinality(S)
  <1>1. IsFiniteSet(S)
    BY MailAssumption, FS_Subset
  <1>2. IsFiniteSet(T)
    BY <1>1, FS_Subset
  <1> QED
    BY <1>1, <1>2, FS_Subset, FS_CardinalityType

\* A committed acknowledgment names every .sent file until it is finished.
LEMMA NextRetireOK == IInv /\ [Next]_vars => RetireOK'
  <1> SUFFICES ASSUME IInv, [Next]_vars PROVE RetireOK'
    OBVIOUS
  <1>1. ASSUME NEW a \in Account, Register(a) PROVE RetireOK'
    BY <1>1 DEF Register, memory, observer, Active, Quarantining, IInv, TypeOK, RetireOK,
       Established
  <1>2. ASSUME NEW a \in Account, CheckMail(a) PROVE RetireOK'
    BY <1>2 DEF CheckMail, disk, boxes, memory, Active, Quarantining, IInv, TypeOK,
       RetireOK,
       Established
  <1>3. ASSUME NEW t \in Thread, Arrive(t) PROVE RetireOK'
    BY <1>3 DEF Arrive, Go, disk, boxes, Active, Quarantining, IInv, TypeOK,
       RetireOK, Established
  <1>4. ASSUME NEW t \in Thread, EnterSend(t) PROVE RetireOK'
    BY <1>4 DEF EnterSend, Release, Go, disk, boxes, observer, Active, Quarantining,
       IInv, TypeOK,
       RetireOK, Established
  <1>5. ASSUME NEW t \in Thread, EnterReceive(t) PROVE RetireOK'
    BY <1>5 DEF EnterReceive, Go, disk, boxes, observer, Active, Quarantining, IInv, TypeOK,
       RetireOK, Established
  <1>6. ASSUME NEW t \in Thread, NEW a \in Account, EnterDelete(t, a) PROVE RetireOK'
    BY <1>6 DEF EnterDelete, ResumeAck, CommitAck, RefuseAck, Release, Go, disk, boxes,
       observer, Active, Quarantining, IInv, TypeOK, RetireOK, Established
  <1>7. ASSUME NEW t \in Thread, NEW a \in Account, UnlinkRetired(t, a) PROVE RetireOK'
    BY <1>7 DEF UnlinkRetired, memory, observer, Active, Quarantining, IInv, TypeOK,
       RetireOK,
       Least, Established
  <1>8. ASSUME NEW t \in Thread, NEW a \in Account, EndRetire(t, a) PROVE RetireOK'
    BY <1>8 DEF EndRetire, Go, observer, Active, Quarantining, IInv, TypeOK,
       RetireOK, Least,
       Established
  <1>9. ASSUME NEW t \in Thread, NEW a \in Account, SkipDuplicate(t, a) PROVE RetireOK'
    BY <1>9 DEF SkipDuplicate, ServedRecipient, Duplicate, Go, disk, boxes, observer,
       Active, Quarantining, IInv, TypeOK, RetireOK, Least, Established
  <1>10. ASSUME NEW t \in Thread, NEW a \in Account, AdvanceFlag(t, a) PROVE RetireOK'
    BY <1>10 DEF AdvanceFlag, Duplicate, Go, observer, Active, Quarantining, IInv, TypeOK,
       RetireOK, Least, Established
  <1>11. ASSUME NEW t \in Thread, NEW a \in Account, Publish(t, a) PROVE RetireOK'
    BY <1>11 DEF Publish, ServedRecipient, Go, Active, Quarantining, IInv, TypeOK, RetireOK,
       Least, Established
  <1>12. ASSUME NEW t \in Thread, AnswerSend(t) PROVE RetireOK'
    BY <1>12 DEF AnswerSend, Release, disk, boxes, Active, Quarantining, IInv,
       TypeOK, RetireOK,
       Established
  <1>13. ASSUME NEW t \in Thread, NEW a \in Account, Replay(t, a) PROVE RetireOK'
    BY <1>13 DEF Replay, Release, Go, disk, boxes, observer, Active, Quarantining,
       IInv, TypeOK,
       RetireOK, Least, Established
  <1>14. ASSUME NEW t \in Thread, NEW a \in Account, Select(t, a) PROVE RetireOK'
    BY <1>14 DEF Select, Go, disk, boxes, observer, Active, Quarantining, IInv,
       TypeOK, RetireOK,
       Least, Established
  <1>15. ASSUME NEW t \in Thread, NEW a \in Account, RenameOne(t, a) PROVE RetireOK'
    <2>1. intent[a] = {} /\ ~answered[a]
      BY <1>15, AtWork DEF RenameOne, Established, Active, Quarantining, Least
    <2> QED
      BY <1>15, <2>1 DEF RenameOne, observer, IInv, TypeOK, RetireOK
  <1>16. ASSUME NEW t \in Thread, NEW a \in Account, AnswerReceive(t, a) PROVE RetireOK'
    <2>1. intent[a] = {}
      BY <1>16, AtWork DEF AnswerReceive, Established, Active, Quarantining
    <2> QED
      BY <1>16, <2>1 DEF AnswerReceive, disk, boxes, IInv, TypeOK, RetireOK
  <1>17. ASSUME NEW t \in Thread, AnswerDelete(t) PROVE RetireOK'
    BY <1>17 DEF AnswerDelete, Release, disk, boxes, observer, Active, Quarantining,
       IInv, TypeOK,
       RetireOK, Established
  <1>18. ASSUME NEW t \in Thread, Fail(t) PROVE RetireOK'
    BY <1>18 DEF Fail, Release, disk, boxes, observer, Active, Quarantining, IInv,
       TypeOK, RetireOK,
       Established
  <1>19. ASSUME Restart PROVE RetireOK'
    BY <1>19 DEF Restart, disk, boxes, observer, Active, Quarantining, IInv, TypeOK,
       RetireOK,
       Established
  <1>20. ASSUME UNCHANGED vars PROVE RetireOK'
    BY <1>20 DEF vars, disk, boxes, memory, observer, Active, Quarantining, IInv,
       TypeOK, RetireOK,
       Established
  <1>21. ASSUME NEW t \in Thread, Refusal(t) PROVE RetireOK'
    BY <1>21, RefusalLeaves DEF boxes, IInv, RetireOK
  <1> QED
    BY <1>1, <1>2, <1>3, <1>4, <1>5, <1>6, <1>7, <1>8, <1>9, <1>10, <1>11,
       <1>12, <1>13, <1>14, <1>15, <1>16, <1>17, <1>18, <1>19, <1>20, <1>21
       DEF Next, Step

\* Queued and outstanding names stay apart.
LEMMA NextOneCopy == IInv /\ [Next]_vars => OneCopy'
  <1> SUFFICES ASSUME IInv, [Next]_vars PROVE OneCopy'
    OBVIOUS
  <1>1. ASSUME NEW a \in Account, Register(a) PROVE OneCopy'
    BY <1>1 DEF Register, memory, observer, Active, Quarantining, IInv, TypeOK, OneCopy
  <1>2. ASSUME NEW a \in Account, CheckMail(a) PROVE OneCopy'
    BY <1>2 DEF CheckMail, disk, boxes, memory, Active, Quarantining, IInv, TypeOK, OneCopy
  <1>3. ASSUME NEW t \in Thread, Arrive(t) PROVE OneCopy'
    BY <1>3 DEF Arrive, Go, disk, boxes, Active, Quarantining, IInv, TypeOK, OneCopy
  <1>4. ASSUME NEW t \in Thread, EnterSend(t) PROVE OneCopy'
    BY <1>4 DEF EnterSend, Release, Go, disk, boxes, observer, Active, Quarantining,
       IInv, TypeOK,
       OneCopy
  <1>5. ASSUME NEW t \in Thread, EnterReceive(t) PROVE OneCopy'
    BY <1>5 DEF EnterReceive, Go, disk, boxes, observer, Active, Quarantining, IInv,
       TypeOK, OneCopy
  <1>6. ASSUME NEW t \in Thread, NEW a \in Account, EnterDelete(t, a) PROVE OneCopy'
    BY <1>6 DEF EnterDelete, ResumeAck, CommitAck, RefuseAck, Release, Go, disk, boxes,
       observer, Active, Quarantining, IInv, TypeOK, OneCopy
  <1>7. ASSUME NEW t \in Thread, NEW a \in Account, UnlinkRetired(t, a) PROVE OneCopy'
    BY <1>7 DEF UnlinkRetired, memory, observer, Active, Quarantining, IInv, TypeOK,
       OneCopy,
       Least
  <1>8. ASSUME NEW t \in Thread, NEW a \in Account, EndRetire(t, a) PROVE OneCopy'
    BY <1>8 DEF EndRetire, Go, observer, Active, Quarantining, IInv, TypeOK, OneCopy, Least
  <1>9. ASSUME NEW t \in Thread, NEW a \in Account, SkipDuplicate(t, a) PROVE OneCopy'
    BY <1>9 DEF SkipDuplicate, ServedRecipient, Duplicate, Go, disk, boxes, observer,
       Active, Quarantining, IInv, TypeOK, OneCopy, Least
  <1>10. ASSUME NEW t \in Thread, NEW a \in Account, AdvanceFlag(t, a) PROVE OneCopy'
    BY <1>10 DEF AdvanceFlag, Duplicate, Go, observer, Active, Quarantining, IInv, TypeOK,
       OneCopy, Least
  <1>11. ASSUME NEW t \in Thread, NEW a \in Account, Publish(t, a) PROVE OneCopy'
    <2>1. ~Duplicate(t, a)
      BY <1>11, AtWork DEF Publish, Established, Active, Quarantining
    <2> QED
      BY <1>11, <2>1 DEF Publish, Duplicate, IInv, TypeOK, OneCopy
  <1>12. ASSUME NEW t \in Thread, AnswerSend(t) PROVE OneCopy'
    BY <1>12 DEF AnswerSend, Release, disk, boxes, Active, Quarantining, IInv,
       TypeOK, OneCopy
  <1>13. ASSUME NEW t \in Thread, NEW a \in Account, Replay(t, a) PROVE OneCopy'
    BY <1>13 DEF Replay, Release, Go, disk, boxes, observer, Active, Quarantining,
       IInv, TypeOK,
       OneCopy, Least
  <1>14. ASSUME NEW t \in Thread, NEW a \in Account, Select(t, a) PROVE OneCopy'
    BY <1>14 DEF Select, Go, disk, boxes, observer, Active, Quarantining, IInv,
       TypeOK, OneCopy,
       Least
  <1>15. ASSUME NEW t \in Thread, NEW a \in Account, RenameOne(t, a) PROVE OneCopy'
    BY <1>15 DEF RenameOne, observer, Active, Quarantining, IInv, TypeOK, OneCopy, Least
  <1>16. ASSUME NEW t \in Thread, NEW a \in Account, AnswerReceive(t, a) PROVE OneCopy'
    BY <1>16 DEF AnswerReceive, Release, disk, boxes, Active, Quarantining, IInv,
       TypeOK, OneCopy,
       Least
  <1>17. ASSUME NEW t \in Thread, AnswerDelete(t) PROVE OneCopy'
    BY <1>17 DEF AnswerDelete, Release, disk, boxes, observer, Active, Quarantining,
       IInv, TypeOK,
       OneCopy
  <1>18. ASSUME NEW t \in Thread, Fail(t) PROVE OneCopy'
    BY <1>18 DEF Fail, Release, disk, boxes, observer, Active, Quarantining, IInv,
       TypeOK, OneCopy
  <1>19. ASSUME Restart PROVE OneCopy'
    BY <1>19 DEF Restart, disk, boxes, observer, Active, Quarantining, IInv, TypeOK, OneCopy
  <1>20. ASSUME UNCHANGED vars PROVE OneCopy'
    BY <1>20 DEF vars, disk, boxes, memory, observer, Active, Quarantining, IInv,
       TypeOK, OneCopy
  <1>21. ASSUME NEW t \in Thread, Refusal(t) PROVE OneCopy'
    BY <1>21, RefusalLeaves DEF boxes, IInv, OneCopy
  <1> QED
    BY <1>1, <1>2, <1>3, <1>4, <1>5, <1>6, <1>7, <1>8, <1>9, <1>10, <1>11,
       <1>12, <1>13, <1>14, <1>15, <1>16, <1>17, <1>18, <1>19, <1>20, <1>21
       DEF Next, Step

\* A batch never grows past the limit.
LEMMA NextBatchWithinLimit == IInv /\ [Next]_vars => BatchWithinLimit'
  <1> SUFFICES ASSUME IInv, [Next]_vars PROVE BatchWithinLimit'
    OBVIOUS
  <1>1. ASSUME NEW a \in Account, Register(a) PROVE BatchWithinLimit'
    BY <1>1 DEF Register, memory, observer, Active, Quarantining, IInv, TypeOK,
       BatchWithinLimit
  <1>2. ASSUME NEW a \in Account, CheckMail(a) PROVE BatchWithinLimit'
    BY <1>2 DEF CheckMail, disk, boxes, memory, Active, Quarantining, IInv, TypeOK,
       BatchWithinLimit
  <1>3. ASSUME NEW t \in Thread, Arrive(t) PROVE BatchWithinLimit'
    BY <1>3 DEF Arrive, Go, disk, boxes, Active, Quarantining, IInv, TypeOK,
       BatchWithinLimit
  <1>4. ASSUME NEW t \in Thread, EnterSend(t) PROVE BatchWithinLimit'
    BY <1>4 DEF EnterSend, Release, Go, disk, boxes, observer, Active, Quarantining,
       IInv, TypeOK,
       BatchWithinLimit
  <1>5. ASSUME NEW t \in Thread, EnterReceive(t) PROVE BatchWithinLimit'
    BY <1>5 DEF EnterReceive, Go, disk, boxes, observer, Active, Quarantining, IInv, TypeOK,
       BatchWithinLimit
  <1>6. ASSUME NEW t \in Thread, NEW a \in Account, EnterDelete(t, a) PROVE BatchWithinLimit'
    BY <1>6 DEF EnterDelete, ResumeAck, CommitAck, RefuseAck, Release, Go, disk, boxes,
       observer, Active, Quarantining, IInv, TypeOK, BatchWithinLimit
  <1>7. ASSUME NEW t \in Thread, NEW a \in Account, UnlinkRetired(t, a) PROVE BatchWithinLimit'
    <2>1. PICK m \in Mail : sent' = [sent EXCEPT ![a] = @ \ {m}]
      BY <1>7 DEF UnlinkRetired
    <2>2. Cardinality(sent[a] \ {m}) <= Cardinality(sent[a]) /\ Cardinality(sent[a] \ {m}) \in Nat
             /\ Cardinality(sent[a]) \in Nat
      BY FewerMails DEF IInv, TypeOK
    <2> QED
      BY <2>1, <2>2, LimitAssumption DEF IInv, TypeOK, BatchWithinLimit
  <1>8. ASSUME NEW t \in Thread, NEW a \in Account, EndRetire(t, a) PROVE BatchWithinLimit'
    BY <1>8 DEF EndRetire, Go, observer, Active, Quarantining, IInv, TypeOK,
       BatchWithinLimit,
       Least
  <1>9. ASSUME NEW t \in Thread, NEW a \in Account, SkipDuplicate(t, a) PROVE BatchWithinLimit'
    BY <1>9 DEF SkipDuplicate, ServedRecipient, Duplicate, Go, disk, boxes, observer,
       Active, Quarantining, IInv, TypeOK, BatchWithinLimit, Least
  <1>10. ASSUME NEW t \in Thread, NEW a \in Account, AdvanceFlag(t, a) PROVE BatchWithinLimit'
    BY <1>10 DEF AdvanceFlag, Duplicate, Go, observer, Active, Quarantining, IInv, TypeOK,
       BatchWithinLimit, Least
  <1>11. ASSUME NEW t \in Thread, NEW a \in Account, Publish(t, a) PROVE BatchWithinLimit'
    BY <1>11 DEF Publish, ServedRecipient, Go, Active, Quarantining, IInv, TypeOK,
       BatchWithinLimit, Least
  <1>12. ASSUME NEW t \in Thread, AnswerSend(t) PROVE BatchWithinLimit'
    BY <1>12 DEF AnswerSend, Release, disk, boxes, Active, Quarantining, IInv, TypeOK,
       BatchWithinLimit
  <1>13. ASSUME NEW t \in Thread, NEW a \in Account, Replay(t, a) PROVE BatchWithinLimit'
    BY <1>13 DEF Replay, Release, Go, disk, boxes, observer, Active, Quarantining,
       IInv, TypeOK,
       BatchWithinLimit, Least
  <1>14. ASSUME NEW t \in Thread, NEW a \in Account, Select(t, a) PROVE BatchWithinLimit'
    BY <1>14 DEF Select, Go, disk, boxes, observer, Active, Quarantining, IInv, TypeOK,
       BatchWithinLimit, Least
  <1>15. ASSUME NEW t \in Thread, NEW a \in Account, RenameOne(t, a) PROVE BatchWithinLimit'
    <2>1. Cardinality(sent[a] \cup picked[t]) <= Limit
      BY <1>15, AtWork DEF RenameOne, Established, Active, Quarantining
    <2>2. PICK m \in picked[t] : sent' = [sent EXCEPT ![a] = @ \cup {m}]
      BY <1>15 DEF RenameOne, Least
    <2> DEFINE all == sent[a] \cup picked[t]
    <2>3. Cardinality(sent[a] \cup {m}) <= Cardinality(all)
             /\ Cardinality(sent[a] \cup {m}) \in Nat /\ Cardinality(all) \in Nat
      <3>1. all \in SUBSET Mail /\ sent[a] \cup {m} \in SUBSET all
        BY <2>2 DEF IInv, TypeOK
      <3> HIDE DEF all
      <3> QED BY <3>1, FewerMails
    <2> QED
      BY <2>1, <2>2, <2>3, LimitAssumption DEF IInv, TypeOK, BatchWithinLimit
  <1>16. ASSUME NEW t \in Thread, NEW a \in Account, AnswerReceive(t, a) PROVE BatchWithinLimit'
    BY <1>16 DEF AnswerReceive, Release, disk, boxes, Active, Quarantining, IInv, TypeOK,
       BatchWithinLimit, Least
  <1>17. ASSUME NEW t \in Thread, AnswerDelete(t) PROVE BatchWithinLimit'
    BY <1>17 DEF AnswerDelete, Release, disk, boxes, observer, Active, Quarantining,
       IInv, TypeOK,
       BatchWithinLimit
  <1>18. ASSUME NEW t \in Thread, Fail(t) PROVE BatchWithinLimit'
    BY <1>18 DEF Fail, Release, disk, boxes, observer, Active, Quarantining, IInv, TypeOK,
       BatchWithinLimit
  <1>19. ASSUME Restart PROVE BatchWithinLimit'
    BY <1>19 DEF Restart, disk, boxes, observer, Active, Quarantining, IInv, TypeOK,
       BatchWithinLimit
  <1>20. ASSUME UNCHANGED vars PROVE BatchWithinLimit'
    BY <1>20 DEF vars, disk, boxes, memory, observer, Active, Quarantining, IInv, TypeOK,
       BatchWithinLimit
  <1>21. ASSUME NEW t \in Thread, Refusal(t) PROVE BatchWithinLimit'
    BY <1>21, RefusalLeaves DEF boxes, IInv, BatchWithinLimit
  <1> QED
    BY <1>1, <1>2, <1>3, <1>4, <1>5, <1>6, <1>7, <1>8, <1>9, <1>10, <1>11,
       <1>12, <1>13, <1>14, <1>15, <1>16, <1>17, <1>18, <1>19, <1>20, <1>21
       DEF Next, Step

\* Nor past what a console asks for.
LEMMA NextBatchFits == IInv /\ [Next]_vars => BatchFits'
  <1> SUFFICES ASSUME IInv, [Next]_vars PROVE BatchFits'
    OBVIOUS
  <1>1. ASSUME NEW a \in Account, Register(a) PROVE BatchFits'
    BY <1>1 DEF Register, memory, observer, Active, Quarantining, IInv, TypeOK,
       BatchFits
  <1>2. ASSUME NEW a \in Account, CheckMail(a) PROVE BatchFits'
    BY <1>2 DEF CheckMail, disk, boxes, memory, Active, Quarantining, IInv, TypeOK,
       BatchFits
  <1>3. ASSUME NEW t \in Thread, Arrive(t) PROVE BatchFits'
    BY <1>3 DEF Arrive, Go, disk, boxes, Active, Quarantining, IInv, TypeOK, BatchFits
  <1>4. ASSUME NEW t \in Thread, EnterSend(t) PROVE BatchFits'
    BY <1>4 DEF EnterSend, Release, Go, disk, boxes, observer, Active, Quarantining,
       IInv, TypeOK,
       BatchFits
  <1>5. ASSUME NEW t \in Thread, EnterReceive(t) PROVE BatchFits'
    BY <1>5 DEF EnterReceive, Go, disk, boxes, observer, Active, Quarantining, IInv, TypeOK,
       BatchFits
  <1>6. ASSUME NEW t \in Thread, NEW a \in Account, EnterDelete(t, a) PROVE BatchFits'
    BY <1>6 DEF EnterDelete, ResumeAck, CommitAck, RefuseAck, Release, Go, disk, boxes,
       observer, Active, Quarantining, IInv, TypeOK, BatchFits
  <1>7. ASSUME NEW t \in Thread, NEW a \in Account, UnlinkRetired(t, a) PROVE BatchFits'
    <2>1. PICK m \in Mail : sent' = [sent EXCEPT ![a] = @ \ {m}]
      BY <1>7 DEF UnlinkRetired
    <2>2. Fits(sent[a] \ {m})
      BY FewerFit DEF IInv, TypeOK, BatchFits
    <2> QED
      BY <2>1, <2>2 DEF IInv, TypeOK, BatchFits
  <1>8. ASSUME NEW t \in Thread, NEW a \in Account, EndRetire(t, a) PROVE BatchFits'
    BY <1>8 DEF EndRetire, Go, observer, Active, Quarantining, IInv, TypeOK, BatchFits,
       Least
  <1>9. ASSUME NEW t \in Thread, NEW a \in Account, SkipDuplicate(t, a) PROVE BatchFits'
    BY <1>9 DEF SkipDuplicate, ServedRecipient, Duplicate, Go, disk, boxes, observer,
       Active, Quarantining, IInv, TypeOK, BatchFits, Least
  <1>10. ASSUME NEW t \in Thread, NEW a \in Account, AdvanceFlag(t, a) PROVE BatchFits'
    BY <1>10 DEF AdvanceFlag, Duplicate, Go, observer, Active, Quarantining, IInv, TypeOK,
       BatchFits, Least
  <1>11. ASSUME NEW t \in Thread, NEW a \in Account, Publish(t, a) PROVE BatchFits'
    BY <1>11 DEF Publish, ServedRecipient, Go, Active, Quarantining, IInv, TypeOK,
       BatchFits, Least
  <1>12. ASSUME NEW t \in Thread, AnswerSend(t) PROVE BatchFits'
    BY <1>12 DEF AnswerSend, Release, disk, boxes, Active, Quarantining, IInv, TypeOK,
       BatchFits
  <1>13. ASSUME NEW t \in Thread, NEW a \in Account, Replay(t, a) PROVE BatchFits'
    BY <1>13 DEF Replay, Release, Go, disk, boxes, observer, Active, Quarantining,
       IInv, TypeOK,
       BatchFits, Least
  <1>14. ASSUME NEW t \in Thread, NEW a \in Account, Select(t, a) PROVE BatchFits'
    BY <1>14 DEF Select, Go, disk, boxes, observer, Active, Quarantining, IInv, TypeOK,
       BatchFits, Least
  <1>15. ASSUME NEW t \in Thread, NEW a \in Account, RenameOne(t, a) PROVE BatchFits'
    <2>1. Fits(sent[a] \cup picked[t])
      BY <1>15, AtWork DEF RenameOne, Established, Active, Quarantining
    <2>2. PICK m \in picked[t] : sent' = [sent EXCEPT ![a] = @ \cup {m}]
      BY <1>15 DEF RenameOne, Least
    <2>3. Fits(sent[a] \cup {m})
      BY <2>1, <2>2, FewerFit DEF IInv, TypeOK
    <2> QED
      BY <2>2, <2>3 DEF IInv, TypeOK, BatchFits
  <1>16. ASSUME NEW t \in Thread, NEW a \in Account, AnswerReceive(t, a) PROVE BatchFits'
    BY <1>16 DEF AnswerReceive, Release, disk, boxes, Active, Quarantining, IInv, TypeOK,
       BatchFits, Least
  <1>17. ASSUME NEW t \in Thread, AnswerDelete(t) PROVE BatchFits'
    BY <1>17 DEF AnswerDelete, Release, disk, boxes, observer, Active, Quarantining,
       IInv, TypeOK,
       BatchFits
  <1>18. ASSUME NEW t \in Thread, Fail(t) PROVE BatchFits'
    BY <1>18 DEF Fail, Release, disk, boxes, observer, Active, Quarantining, IInv, TypeOK,
       BatchFits
  <1>19. ASSUME Restart PROVE BatchFits'
    BY <1>19 DEF Restart, disk, boxes, observer, Active, Quarantining, IInv, TypeOK,
       BatchFits
  <1>20. ASSUME UNCHANGED vars PROVE BatchFits'
    BY <1>20 DEF vars, disk, boxes, memory, observer, Active, Quarantining, IInv, TypeOK,
       BatchFits
  <1>21. ASSUME NEW t \in Thread, Refusal(t) PROVE BatchFits'
    BY <1>21, RefusalLeaves DEF boxes, IInv, BatchFits
  <1> QED
    BY <1>1, <1>2, <1>3, <1>4, <1>5, <1>6, <1>7, <1>8, <1>9, <1>10, <1>11,
       <1>12, <1>13, <1>14, <1>15, <1>16, <1>17, <1>18, <1>19, <1>20, <1>21
       DEF Next, Step

\* A served recipient keeps the mail while the send goes on.
LEMMA NextServedOK == IInv /\ [Next]_vars => ServedOK'
  <1> SUFFICES ASSUME IInv, [Next]_vars PROVE ServedOK'
    OBVIOUS
  <1>1. ASSUME NEW a \in Account, Register(a) PROVE ServedOK'
    BY <1>1 DEF Register, memory, observer, Active, Quarantining, IInv, TypeOK, ServedOK,
       PhaseOK, RetireOK, Pending
  <1>2. ASSUME NEW a \in Account, CheckMail(a) PROVE ServedOK'
    BY <1>2 DEF CheckMail, disk, boxes, memory, Active, Quarantining, IInv, TypeOK,
       ServedOK,
       PhaseOK, RetireOK, Pending
  <1>3. ASSUME NEW t \in Thread, Arrive(t) PROVE ServedOK'
    BY <1>3 DEF Arrive, Go, disk, boxes, Active, Quarantining, IInv, TypeOK,
       ServedOK, PhaseOK,
       RetireOK, Pending
  <1>4. ASSUME NEW t \in Thread, EnterSend(t) PROVE ServedOK'
    BY <1>4 DEF EnterSend, Release, Go, disk, boxes, observer, Active, Quarantining,
       IInv, TypeOK,
       ServedOK, PhaseOK, RetireOK, Pending
  <1>5. ASSUME NEW t \in Thread, EnterReceive(t) PROVE ServedOK'
    BY <1>5 DEF EnterReceive, Go, disk, boxes, observer, Active, Quarantining, IInv, TypeOK,
       ServedOK, PhaseOK, RetireOK, Pending
  <1>6. ASSUME NEW t \in Thread, NEW a \in Account, EnterDelete(t, a) PROVE ServedOK'
    <2>1. \A u \in Thread : ~Active(u)
      BY <1>6, ThreadAssumption DEF EnterDelete, IInv, LockHeld
    <2>2. \A u \in Thread : Active(u)' /\ u # t => Active(u)
      BY <1>6 DEF EnterDelete, ResumeAck, CommitAck, RefuseAck, Go, Release,
         Active, Quarantining, IInv, TypeOK
    <2>3. request'[t].op # "send" \/ ~Active(t)'
      BY <1>6 DEF EnterDelete, ResumeAck, CommitAck, RefuseAck, Go, Release,
         Active, Quarantining, IInv, TypeOK
    <2> QED BY <2>1, <2>2, <2>3 DEF ServedOK
  <1>7. ASSUME NEW t \in Thread, NEW a \in Account, UnlinkRetired(t, a) PROVE ServedOK'
    BY <1>7 DEF UnlinkRetired, memory, observer, Active, Quarantining, IInv, TypeOK,
       ServedOK,
       PhaseOK, RetireOK, Pending, Least, At
  <1>8. ASSUME NEW t \in Thread, NEW a \in Account, EndRetire(t, a) PROVE ServedOK'
    BY <1>8 DEF EndRetire, Go, observer, Active, Quarantining, IInv, TypeOK, ServedOK,
       PhaseOK, RetireOK, Pending, Least, At
  <1>9. ASSUME NEW t \in Thread, NEW a \in Account, SkipDuplicate(t, a) PROVE ServedOK'
    <2>1. lock = t /\ intent[a] = {} /\ request[t].mail \in eml[a] \cup sent[a]
      BY <1>9, AtWork DEF SkipDuplicate, Established, Active, Quarantining, Duplicate
    <2> QED
      BY <1>9, <2>1 DEF SkipDuplicate, ServedRecipient, Go, disk, boxes, observer,
         IInv, TypeOK, Active, Quarantining, ServedOK, Pending
  <1>10. ASSUME NEW t \in Thread, NEW a \in Account, AdvanceFlag(t, a) PROVE ServedOK'
    BY <1>10 DEF AdvanceFlag, Duplicate, Go, observer, Active, Quarantining, IInv, TypeOK,
       ServedOK, PhaseOK, RetireOK, Pending, Least, At
  <1>11. ASSUME NEW t \in Thread, NEW a \in Account, Publish(t, a) PROVE ServedOK'
    <2>1. lock = t /\ intent[a] = {}
      BY <1>11, AtWork DEF Publish, Established, Active, Quarantining
    <2> QED
      BY <1>11, <2>1 DEF Publish, ServedRecipient, Go, IInv, TypeOK, Active, Quarantining,
         ServedOK, Pending
  <1>12. ASSUME NEW t \in Thread, AnswerSend(t) PROVE ServedOK'
    BY <1>12 DEF AnswerSend, Release, disk, boxes, Active, Quarantining, IInv,
       TypeOK, ServedOK,
       PhaseOK, RetireOK, Pending
  <1>13. ASSUME NEW t \in Thread, NEW a \in Account, Replay(t, a) PROVE ServedOK'
    BY <1>13 DEF Replay, Release, Go, disk, boxes, observer, Active, Quarantining,
       IInv, TypeOK,
       ServedOK, PhaseOK, RetireOK, Pending, Least, At
  <1>14. ASSUME NEW t \in Thread, NEW a \in Account, Select(t, a) PROVE ServedOK'
    BY <1>14 DEF Select, Go, disk, boxes, observer, Active, Quarantining, IInv,
       TypeOK, ServedOK,
       PhaseOK, RetireOK, Pending, Least, At
  <1>15. ASSUME NEW t \in Thread, NEW a \in Account, RenameOne(t, a) PROVE ServedOK'
    BY <1>15 DEF RenameOne, observer, Active, Quarantining, IInv, TypeOK, ServedOK, PhaseOK,
       RetireOK, Pending, Least, At
  <1>16. ASSUME NEW t \in Thread, NEW a \in Account, AnswerReceive(t, a) PROVE ServedOK'
    BY <1>16 DEF AnswerReceive, Release, disk, boxes, Active, Quarantining, IInv,
       TypeOK, ServedOK,
       PhaseOK, RetireOK, Pending, Least, At
  <1>17. ASSUME NEW t \in Thread, AnswerDelete(t) PROVE ServedOK'
    BY <1>17 DEF AnswerDelete, Release, disk, boxes, observer, Active, Quarantining,
       IInv, TypeOK,
       ServedOK, PhaseOK, RetireOK, Pending
  <1>18. ASSUME NEW t \in Thread, Fail(t) PROVE ServedOK'
    BY <1>18 DEF Fail, Release, disk, boxes, observer, Active, Quarantining, IInv,
       TypeOK, ServedOK,
       PhaseOK, RetireOK, Pending
  <1>19. ASSUME Restart PROVE ServedOK'
    BY <1>19 DEF Restart, disk, boxes, observer, Active, Quarantining, IInv, TypeOK,
       ServedOK,
       PhaseOK, RetireOK, Pending
  <1>20. ASSUME UNCHANGED vars PROVE ServedOK'
    BY <1>20 DEF vars, disk, boxes, memory, observer, Active, Quarantining, IInv,
       TypeOK, ServedOK,
       PhaseOK, RetireOK, Pending
  <1>21. ASSUME NEW t \in Thread, Refusal(t) PROVE ServedOK'
    BY <1>21, RefusalLeaves DEF boxes, IInv, ServedOK, Active, Pending
  <1> QED
    BY <1>1, <1>2, <1>3, <1>4, <1>5, <1>6, <1>7, <1>8, <1>9, <1>10, <1>11,
       <1>12, <1>13, <1>14, <1>15, <1>16, <1>17, <1>18, <1>19, <1>20, <1>21
       DEF Next, Step

\* Only a committed acknowledgment takes owed mail away.
LEMMA NextOwed == IInv /\ [Next]_vars => OwedMailIsPending'
  <1> SUFFICES ASSUME IInv, [Next]_vars PROVE OwedMailIsPending'
    OBVIOUS
  <1>1. ASSUME NEW a \in Account, Register(a) PROVE OwedMailIsPending'
    BY <1>1 DEF Register, memory, observer, Active, Quarantining, IInv, TypeOK,
       OwedMailIsPending, ServedOK, PhaseOK, RetireOK, Pending
  <1>2. ASSUME NEW a \in Account, CheckMail(a) PROVE OwedMailIsPending'
    BY <1>2 DEF CheckMail, disk, boxes, memory, Active, Quarantining, IInv, TypeOK,
       OwedMailIsPending, ServedOK, PhaseOK, RetireOK, Pending
  <1>3. ASSUME NEW t \in Thread, Arrive(t) PROVE OwedMailIsPending'
    BY <1>3 DEF Arrive, Go, disk, boxes, Active, Quarantining, IInv, TypeOK,
       OwedMailIsPending,
       ServedOK, PhaseOK, RetireOK, Pending
  <1>4. ASSUME NEW t \in Thread, EnterSend(t) PROVE OwedMailIsPending'
    BY <1>4 DEF EnterSend, Release, Go, disk, boxes, observer, Active, Quarantining,
       IInv, TypeOK,
       OwedMailIsPending, ServedOK, PhaseOK, RetireOK, Pending
  <1>5. ASSUME NEW t \in Thread, EnterReceive(t) PROVE OwedMailIsPending'
    BY <1>5 DEF EnterReceive, Go, disk, boxes, observer, Active, Quarantining, IInv, TypeOK,
       OwedMailIsPending, ServedOK, PhaseOK, RetireOK, Pending
  <1>6. ASSUME NEW t \in Thread, NEW a \in Account, EnterDelete(t, a) PROVE OwedMailIsPending'
    BY <1>6 DEF EnterDelete, ResumeAck, CommitAck, RefuseAck, Release, Go, disk, boxes,
       observer, Active, Quarantining, IInv, TypeOK, OwedMailIsPending, ServedOK, PhaseOK,
       RetireOK, Pending
  <1>7. ASSUME NEW t \in Thread, NEW a \in Account, UnlinkRetired(t, a) PROVE OwedMailIsPending'
    BY <1>7 DEF UnlinkRetired, memory, observer, Active, Quarantining, IInv, TypeOK,
       OwedMailIsPending, ServedOK, PhaseOK, RetireOK, Pending, Least
  <1>8. ASSUME NEW t \in Thread, NEW a \in Account, EndRetire(t, a) PROVE OwedMailIsPending'
    BY <1>8 DEF EndRetire, Go, observer, Active, Quarantining, IInv, TypeOK,
       OwedMailIsPending, ServedOK, PhaseOK, RetireOK, Pending, Least
  <1>9. ASSUME NEW t \in Thread, NEW a \in Account, SkipDuplicate(t, a) PROVE OwedMailIsPending'
    BY <1>9 DEF SkipDuplicate, ServedRecipient, Duplicate, Go, disk, boxes, observer,
       Active, Quarantining, IInv, TypeOK, OwedMailIsPending, ServedOK, PhaseOK, RetireOK,
       Pending, Least
  <1>10. ASSUME NEW t \in Thread, NEW a \in Account, AdvanceFlag(t, a) PROVE OwedMailIsPending'
    BY <1>10 DEF AdvanceFlag, Duplicate, Go, observer, Active, Quarantining, IInv, TypeOK,
       OwedMailIsPending, ServedOK, PhaseOK, RetireOK, Pending, Least
  <1>11. ASSUME NEW t \in Thread, NEW a \in Account, Publish(t, a) PROVE OwedMailIsPending'
    BY <1>11 DEF Publish, ServedRecipient, Go, Active, Quarantining, IInv, TypeOK,
       OwedMailIsPending, ServedOK, PhaseOK, RetireOK, Pending, Least
  <1>12. ASSUME NEW t \in Thread, AnswerSend(t) PROVE OwedMailIsPending'
    BY <1>12 DEF AnswerSend, Release, disk, boxes, Active, Quarantining, IInv, TypeOK,
       OwedMailIsPending, ServedOK, PhaseOK, RetireOK, Pending
  <1>13. ASSUME NEW t \in Thread, NEW a \in Account, Replay(t, a) PROVE OwedMailIsPending'
    BY <1>13 DEF Replay, Release, Go, disk, boxes, observer, Active, Quarantining,
       IInv, TypeOK,
       OwedMailIsPending, ServedOK, PhaseOK, RetireOK, Pending, Least
  <1>14. ASSUME NEW t \in Thread, NEW a \in Account, Select(t, a) PROVE OwedMailIsPending'
    BY <1>14 DEF Select, Go, disk, boxes, observer, Active, Quarantining, IInv, TypeOK,
       OwedMailIsPending, ServedOK, PhaseOK, RetireOK, Pending, Least
  <1>15. ASSUME NEW t \in Thread, NEW a \in Account, RenameOne(t, a) PROVE OwedMailIsPending'
    BY <1>15 DEF RenameOne, observer, Active, Quarantining, IInv, TypeOK, OwedMailIsPending,
       ServedOK, PhaseOK, RetireOK, Pending, Least
  <1>16. ASSUME NEW t \in Thread, NEW a \in Account, AnswerReceive(t, a) PROVE OwedMailIsPending'
    BY <1>16 DEF AnswerReceive, Release, disk, boxes, Active, Quarantining, IInv, TypeOK,
       OwedMailIsPending, ServedOK, PhaseOK, RetireOK, Pending, Least
  <1>17. ASSUME NEW t \in Thread, AnswerDelete(t) PROVE OwedMailIsPending'
    BY <1>17 DEF AnswerDelete, Release, disk, boxes, observer, Active, Quarantining,
       IInv, TypeOK,
       OwedMailIsPending, ServedOK, PhaseOK, RetireOK, Pending
  <1>18. ASSUME NEW t \in Thread, Fail(t) PROVE OwedMailIsPending'
    BY <1>18 DEF Fail, Release, disk, boxes, observer, Active, Quarantining, IInv, TypeOK,
       OwedMailIsPending, ServedOK, PhaseOK, RetireOK, Pending
  <1>19. ASSUME Restart PROVE OwedMailIsPending'
    BY <1>19 DEF Restart, disk, boxes, observer, Active, Quarantining, IInv, TypeOK,
       OwedMailIsPending, ServedOK, PhaseOK, RetireOK, Pending
  <1>20. ASSUME UNCHANGED vars PROVE OwedMailIsPending'
    BY <1>20 DEF vars, disk, boxes, memory, observer, Active, Quarantining, IInv, TypeOK,
       OwedMailIsPending, ServedOK, PhaseOK, RetireOK, Pending
  <1>21. ASSUME NEW t \in Thread, Refusal(t) PROVE OwedMailIsPending'
    BY <1>21, RefusalLeaves DEF boxes, IInv, OwedMailIsPending, Pending
  <1> QED
    BY <1>1, <1>2, <1>3, <1>4, <1>5, <1>6, <1>7, <1>8, <1>9, <1>10, <1>11,
       <1>12, <1>13, <1>14, <1>15, <1>16, <1>17, <1>18, <1>19, <1>20, <1>21
       DEF Next, Step

\* A file in rejected/ can be emptied, but nothing removes it.
LEMMA NextKeptOK == IInv /\ [Next]_vars => KeptOK'
  <1> SUFFICES ASSUME IInv, [Next]_vars PROVE KeptOK'
    OBVIOUS
  <1> DEFINE Writing(u) == pc[u] \in {"write", "refuse"}
  <1>1. TypeOK /\ KeptOK /\ PhaseOK
    BY DEF IInv
  <1>2. ASSUME NEW t \in Thread, Refusal(t) PROVE KeptOK'
    <2>1. CASE RefuseSend(t)
      BY <1>1, <2>1 DEF RefuseSend, Go, disk, observer, TypeOK, KeptOK, RetiredMailIsKept
    <2>2. CASE OpenRejected(t) \/ WriteRejected(t)
      <3>1. request[t].mail \in Mail
        BY <1>1, <2>2, RequestType DEF OpenRejected, WriteRejected, PhaseOK, Quarantining
      <3>2. PICK x \in {"cut", "whole"} : rejected' = [rejected EXCEPT ![request[t].mail] = x]
        BY <2>2 DEF OpenRejected, WriteRejected
      <3>3. /\ rejected'[request[t].mail] # "absent"
            /\ \A m \in Mail : rejected[m] # "absent" => rejected'[m] # "absent"
        BY <1>1, <3>1, <3>2 DEF TypeOK
      <3>4. UNCHANGED <<request, retired>> /\ \A u \in Thread \ {t} : pc'[u] = pc[u]
        BY <1>1, <2>2 DEF OpenRejected, WriteRejected, Go, observer, TypeOK
      <3>5. RetiredMailIsKept'
        BY <1>1, <3>3, <3>4 DEF KeptOK, RetiredMailIsKept, TypeOK
      <3>6. ASSUME NEW u \in Thread, Writing(u)' PROVE rejected'[request'[u].mail] # "absent"
        <4>1. CASE u = t
          BY <3>3, <3>4, <4>1
        <4>2. CASE u # t
          <5>1. request[u].mail \in Mail /\ rejected[request[u].mail] # "absent"
            BY <1>1, <3>4, <3>6, <4>2, RequestType DEF KeptOK, PhaseOK, Quarantining
          <5> QED BY <3>3, <3>4, <5>1
        <4> QED BY <4>1, <4>2
      <3> QED BY <3>5, <3>6 DEF KeptOK
    <2>3. CASE AnswerRefused(t)
      BY <1>1, <2>3 DEF AnswerRefused, Release, disk, TypeOK, KeptOK, RetiredMailIsKept
    <2> QED BY <1>2, <2>1, <2>2, <2>3 DEF Refusal
  <1>3. ASSUME UNCHANGED <<rejected, retired>>,
               \A u \in Thread : Writing(u)' => Writing(u) /\ request'[u] = request[u]
        PROVE  KeptOK'
    BY <1>1, <1>3 DEF KeptOK, RetiredMailIsKept
  <1>4. ASSUME NEW t \in Thread, Arrive(t) \/ Fail(t) PROVE KeptOK'
    BY <1>1, <1>3, <1>4 DEF Arrive, Fail, Release, Go, disk, observer, TypeOK
  <1>5. ASSUME NEW t \in Thread,
               EnterSend(t) \/ EnterReceive(t) \/ AnswerSend(t) \/ AnswerDelete(t)
        PROVE  KeptOK'
    BY <1>1, <1>3, <1>5 DEF EnterSend, EnterReceive, AnswerSend, AnswerDelete, Release,
       Go, disk, observer, TypeOK
  <1>6. ASSUME NEW t \in Thread, NEW a \in Account,
               EnterDelete(t, a) \/ UnlinkRetired(t, a) \/ EndRetire(t, a)
        PROVE  KeptOK'
    BY <1>1, <1>3, <1>6 DEF EnterDelete, ResumeAck, CommitAck, RefuseAck, UnlinkRetired,
       EndRetire, Release, Go, disk, memory, observer, TypeOK
  <1>7. ASSUME NEW t \in Thread, NEW a \in Account,
               SkipDuplicate(t, a) \/ AdvanceFlag(t, a) \/ Publish(t, a)
        PROVE  KeptOK'
    BY <1>1, <1>3, <1>7 DEF SkipDuplicate, AdvanceFlag, Publish, ServedRecipient, Go,
       disk, observer, TypeOK
  <1>8. ASSUME NEW t \in Thread, NEW a \in Account,
               Replay(t, a) \/ Select(t, a) \/ RenameOne(t, a) \/ AnswerReceive(t, a)
        PROVE  KeptOK'
    BY <1>1, <1>3, <1>8 DEF Replay, Select, RenameOne, AnswerReceive, Release, Go, disk,
       observer, TypeOK
  <1>9. ASSUME NEW a \in Account, Register(a) \/ CheckMail(a) PROVE KeptOK'
    BY <1>1, <1>3, <1>9 DEF Register, CheckMail, disk, memory, observer
  <1>10. ASSUME Restart \/ UNCHANGED vars PROVE KeptOK'
    BY <1>1, <1>3, <1>10 DEF Restart, vars, disk, memory, observer
  <1> QED
    BY <1>2, <1>4, <1>5, <1>6, <1>7, <1>8, <1>9, <1>10 DEF Next, Step

\* Markers only grow, and a mail is published under a new one.
LEMMA NextFlagsOK == IInv /\ [Next]_vars => FlagsOK'
  <1> SUFFICES ASSUME IInv, [Next]_vars PROVE FlagsOK'
    OBVIOUS
  <1>1. ASSUME NEW a \in Account, Register(a) PROVE FlagsOK'
    BY <1>1 DEF Register, memory, observer, Active, Quarantining, IInv, TypeOK, FlagsOK
  <1>2. ASSUME NEW a \in Account, CheckMail(a) PROVE FlagsOK'
    BY <1>2 DEF CheckMail, disk, boxes, memory, Active, Quarantining, IInv, TypeOK,
       FlagsOK, MailFlag
  <1>3. ASSUME NEW t \in Thread, Arrive(t) PROVE FlagsOK'
    BY <1>3 DEF Arrive, Go, disk, boxes, Active, Quarantining, IInv, TypeOK, FlagsOK
  <1>4. ASSUME NEW t \in Thread, EnterSend(t) PROVE FlagsOK'
    BY <1>4 DEF EnterSend, Release, Go, disk, boxes, observer, Active, Quarantining,
       IInv, TypeOK,
       FlagsOK
  <1>5. ASSUME NEW t \in Thread, EnterReceive(t) PROVE FlagsOK'
    BY <1>5 DEF EnterReceive, Go, disk, boxes, observer, Active, Quarantining, IInv,
       TypeOK, FlagsOK
  <1>6. ASSUME NEW t \in Thread, NEW a \in Account, EnterDelete(t, a) PROVE FlagsOK'
    BY <1>6 DEF EnterDelete, ResumeAck, CommitAck, RefuseAck, Release, Go, disk, boxes,
       observer, Active, Quarantining, IInv, TypeOK, FlagsOK
  <1>7. ASSUME NEW t \in Thread, NEW a \in Account, UnlinkRetired(t, a) PROVE FlagsOK'
    BY <1>7 DEF UnlinkRetired, memory, observer, Active, Quarantining, IInv, TypeOK, FlagsOK
  <1>8. ASSUME NEW t \in Thread, NEW a \in Account, EndRetire(t, a) PROVE FlagsOK'
    BY <1>8 DEF EndRetire, Go, observer, Active, Quarantining, IInv, TypeOK, FlagsOK
  <1>9. ASSUME NEW t \in Thread, NEW a \in Account, SkipDuplicate(t, a) PROVE FlagsOK'
    BY <1>9 DEF SkipDuplicate, ServedRecipient, Duplicate, Go, disk, boxes, observer,
       Active, Quarantining, IInv, TypeOK, FlagsOK
  <1>10. ASSUME NEW t \in Thread, NEW a \in Account, AdvanceFlag(t, a) PROVE FlagsOK'
    BY <1>10 DEF AdvanceFlag, Duplicate, Release, Go, disk, boxes, memory, observer,
       LockHeld, Active, Quarantining, IInv, TypeOK, FlagsOK, MailFlag, Flag
  <1>11. ASSUME NEW t \in Thread, NEW a \in Account, Publish(t, a) PROVE FlagsOK'
    <2>1. \A f \in reported[a] : f[1] < generation[a]
      BY <1>11, AtWork DEF Publish, Established, Active, Quarantining
    <2> QED
      BY <1>11, <2>1 DEF Publish, IInv, TypeOK, FlagsOK
  <1>12. ASSUME NEW t \in Thread, AnswerSend(t) PROVE FlagsOK'
    BY <1>12 DEF AnswerSend, Release, disk, boxes, Active, Quarantining, IInv,
       TypeOK, FlagsOK
  <1>13. ASSUME NEW t \in Thread, NEW a \in Account, Replay(t, a) PROVE FlagsOK'
    BY <1>13 DEF Replay, Release, Go, disk, boxes, observer, Active, Quarantining,
       IInv, TypeOK,
       FlagsOK
  <1>14. ASSUME NEW t \in Thread, NEW a \in Account, Select(t, a) PROVE FlagsOK'
    BY <1>14 DEF Select, Go, disk, boxes, observer, Active, Quarantining, IInv,
       TypeOK, FlagsOK
  <1>15. ASSUME NEW t \in Thread, NEW a \in Account, RenameOne(t, a) PROVE FlagsOK'
    BY <1>15 DEF RenameOne, observer, Active, Quarantining, IInv, TypeOK, FlagsOK
  <1>16. ASSUME NEW t \in Thread, NEW a \in Account, AnswerReceive(t, a) PROVE FlagsOK'
    BY <1>16 DEF AnswerReceive, Release, disk, boxes, Active, Quarantining, IInv,
       TypeOK, FlagsOK
  <1>17. ASSUME NEW t \in Thread, AnswerDelete(t) PROVE FlagsOK'
    BY <1>17 DEF AnswerDelete, Release, disk, boxes, observer, Active, Quarantining,
       IInv, TypeOK,
       FlagsOK
  <1>18. ASSUME NEW t \in Thread, Fail(t) PROVE FlagsOK'
    BY <1>18 DEF Fail, Release, disk, boxes, observer, Active, Quarantining, IInv,
       TypeOK, FlagsOK
  <1>19. ASSUME Restart PROVE FlagsOK'
    BY <1>19 DEF Restart, disk, boxes, observer, Active, Quarantining, IInv, TypeOK, FlagsOK
  <1>20. ASSUME UNCHANGED vars PROVE FlagsOK'
    BY <1>20 DEF vars, disk, boxes, memory, observer, Active, Quarantining, IInv,
       TypeOK, FlagsOK
  <1>21. ASSUME NEW t \in Thread, Refusal(t) PROVE FlagsOK'
    BY <1>21, RefusalLeaves DEF boxes, IInv, FlagsOK
  <1> QED
    BY <1>1, <1>2, <1>3, <1>4, <1>5, <1>6, <1>7, <1>8, <1>9, <1>10, <1>11,
       <1>12, <1>13, <1>14, <1>15, <1>16, <1>17, <1>18, <1>19, <1>20, <1>21
       DEF Next, Step

\* While one thread acts the others only wait, so a step that leaves them so
\* need establish WorkOK of that thread alone.
LEMMA WorkOfActor ==
  ASSUME IInv, NEW t \in Thread, lock \in {t, NoThread},
         \A u \in Thread \ {t} : pc'[u] = pc[u],
         \A a \in Account : Active(t)' /\ At(t, a)' => Established(t, a)'
  PROVE  WorkOK'
  <1>1. \A u \in Thread \ {t} : ~Active(u)'
    BY ThreadAssumption DEF IInv, LockHeld, Active, Quarantining
  <1> QED
    BY <1>1 DEF WorkOK

\* What a thread has established about its mailbox stays true while it works.
LEMMA NextWorkOK == IInv /\ [Next]_vars => WorkOK'
  <1> SUFFICES ASSUME IInv, [Next]_vars PROVE WorkOK'
    OBVIOUS
  <1>1. ASSUME NEW a \in Account, Register(a) PROVE WorkOK'
    BY <1>1 DEF Register, memory, observer, Active, Quarantining, IInv, TypeOK, WorkOK,
       Established, PhaseOK, RetireOK, At, Least, Duplicate
  <1>2. ASSUME NEW a \in Account, CheckMail(a) PROVE WorkOK'
    <2>1. \A u \in Thread : ~Active(u)'
      BY <1>2, ThreadAssumption DEF CheckMail, memory, IInv, LockHeld, Active, Quarantining
    <2> QED BY <2>1 DEF WorkOK
  <1>3. ASSUME NEW t \in Thread, Arrive(t) PROVE WorkOK'
    <2>1. ~Active(t)'
      BY <1>3 DEF Arrive, Go, Active, Quarantining, IInv, TypeOK
    <2>2. \A u \in Thread \ {t} :
            pc'[u] = pc[u] /\ request'[u] = request[u] /\ todo'[u] = todo[u]
      BY <1>3 DEF Arrive, Go, IInv, TypeOK
    <2>3. ASSUME NEW u \in Thread \ {t}, NEW b \in Account, Active(u)', At(u, b)'
          PROVE  Established(u, b)'
      <3>1. Established(u, b)
        BY <2>2, <2>3 DEF IInv, WorkOK, Active, Quarantining, At
      <3> QED BY <1>3, <2>2, <3>1 DEF Arrive, disk, boxes, Established, Duplicate
    <2> QED BY <2>1, <2>3 DEF WorkOK
  <1>4. ASSUME NEW t \in Thread, EnterSend(t) PROVE WorkOK'
    <2>1. lock \in {t, NoThread} /\ \A u \in Thread \ {t} : pc'[u] = pc[u]
      BY <1>4 DEF EnterSend, Go, Release, IInv, TypeOK, Active, Quarantining
    <2>2. ASSUME NEW b \in Account, Active(t)', At(t, b)' PROVE Established(t, b)'
      BY <1>4, <2>2 DEF EnterSend, Established, Go, Release, Active, Quarantining, IInv,
         TypeOK
    <2> QED BY <2>1, <2>2, WorkOfActor
  <1>5. ASSUME NEW t \in Thread, EnterReceive(t) PROVE WorkOK'
    <2>1. lock \in {t, NoThread} /\ \A u \in Thread \ {t} : pc'[u] = pc[u]
      BY <1>5 DEF EnterReceive, Go, IInv, TypeOK, Active, Quarantining
    <2>2. ASSUME NEW b \in Account, Active(t)', At(t, b)' PROVE Established(t, b)'
      BY <1>5, <2>2 DEF EnterReceive, Established, Go, Active, Quarantining, IInv, TypeOK
    <2> QED BY <2>1, <2>2, WorkOfActor
  <1>6. ASSUME NEW t \in Thread, NEW a \in Account, EnterDelete(t, a) PROVE WorkOK'
    <2>1. lock \in {t, NoThread} /\ \A u \in Thread \ {t} : pc'[u] = pc[u]
      BY <1>6 DEF EnterDelete, ResumeAck, CommitAck, RefuseAck, Go, Release,
         IInv, TypeOK, Active, Quarantining
    <2>2. ASSUME NEW b \in Account, Active(t)', At(t, b)' PROVE Established(t, b)'
      BY <1>6, <2>2 DEF EnterDelete, ResumeAck, CommitAck, RefuseAck,
         Established, Go, Release, Active, Quarantining, IInv, TypeOK
    <2> QED BY <2>1, <2>2, WorkOfActor
  <1>7. ASSUME NEW t \in Thread, NEW a \in Account, UnlinkRetired(t, a) PROVE WorkOK'
    BY <1>7 DEF UnlinkRetired, Release, Go, disk, boxes, memory, observer, LockHeld,
       Active, Quarantining, IInv, TypeOK, WorkOK, Established, PhaseOK, RetireOK, At, Least,
       Duplicate, Flag
  <1>8. ASSUME NEW t \in Thread, NEW a \in Account, EndRetire(t, a) PROVE WorkOK'
    <2>1. lock \in {t, NoThread} /\ \A u \in Thread \ {t} : pc'[u] = pc[u]
      BY <1>8 DEF EndRetire, Go, Release, IInv, TypeOK, LockHeld, Active, Quarantining
    <2>2. ASSUME NEW b \in Account, Active(t)', At(t, b)' PROVE Established(t, b)'
      BY <1>8, <2>2, AccountAssumption DEF EndRetire, Established, Go, Active, Quarantining,
         IInv, TypeOK, At, Least
    <2> QED BY <2>1, <2>2, WorkOfActor
  <1>9. ASSUME NEW t \in Thread, NEW a \in Account, SkipDuplicate(t, a) PROVE WorkOK'
    BY <1>9 DEF SkipDuplicate, ServedRecipient, Duplicate, Release, Go, disk, boxes,
       memory, observer, LockHeld, Active, Quarantining, IInv, TypeOK, WorkOK, Established,
       PhaseOK, RetireOK, At, Least, Flag
  <1>10. ASSUME NEW t \in Thread, NEW a \in Account, AdvanceFlag(t, a) PROVE WorkOK'
    <2>1. lock \in {t, NoThread} /\ \A u \in Thread \ {t} : pc'[u] = pc[u]
      BY <1>10 DEF AdvanceFlag, Go, Release, IInv, TypeOK, LockHeld, Active, Quarantining
    <2>2. ASSUME NEW b \in Account, Active(t)', At(t, b)' PROVE Established(t, b)'
      <3>1. intent[a] = {} /\ request[t].op = "send"
        BY <1>10, AtWork DEF AdvanceFlag, Established, Active, Quarantining, IInv, PhaseOK
      <3>2. b = a /\ pc'[t] = "publish" /\ generation'[a] = generation[a] + 1
        BY <1>10, <2>2, <3>1, AccountAssumption DEF AdvanceFlag, At, Least,
           Go, IInv, TypeOK
      <3>3. \A f \in reported[a] : f[1] < generation'[a]
        BY <3>2 DEF IInv, FlagsOK, TypeOK, Flag
      <3> QED
        BY <1>10, <3>1, <3>2, <3>3 DEF AdvanceFlag, Established, Duplicate,
           observer
    <2> QED BY <2>1, <2>2, WorkOfActor
  <1>11. ASSUME NEW t \in Thread, NEW a \in Account, Publish(t, a) PROVE WorkOK'
    BY <1>11 DEF Publish, ServedRecipient, Release, Go, disk, boxes, memory, observer,
       LockHeld, Active, Quarantining, IInv, TypeOK, WorkOK, Established, PhaseOK, RetireOK,
       At, Least, Duplicate, Flag
  <1>12. ASSUME NEW t \in Thread, AnswerSend(t) PROVE WorkOK'
    BY <1>12 DEF AnswerSend, Release, Go, disk, boxes, memory, observer, LockHeld,
       Active, Quarantining, IInv, TypeOK, WorkOK, Established, PhaseOK, RetireOK, At, Least,
       Duplicate, Flag
  <1>13. ASSUME NEW t \in Thread, NEW a \in Account, Replay(t, a) PROVE WorkOK'
    <2>1. lock \in {t, NoThread} /\ \A u \in Thread \ {t} : pc'[u] = pc[u]
      BY <1>13 DEF Replay, Go, Release, IInv, TypeOK, LockHeld, Active, Quarantining
    <2>2. ASSUME NEW b \in Account, Active(t)', At(t, b)' PROVE Established(t, b)'
      <3>1. intent[a] = {} /\ picked[t] = {}
        BY <1>13, AtWork DEF Replay, Established, Active, Quarantining, IInv, TypeOK,
           PhaseOK
      <3>2. b = a
        BY <1>13, <2>2 DEF Replay, At, Go, Release, Active, Quarantining, IInv, TypeOK,
           PhaseOK
      <3>3. pc'[t] = "rename" /\ picked' = picked
        BY <1>13, <2>2 DEF Replay, Go, Release, Active, IInv, TypeOK
      <3>4. UNCHANGED <<eml, sent, intent, answered>>
        BY <1>13 DEF Replay, disk, boxes, observer
      <3>5. sent[a] \cup picked[t] = sent[a]
        BY <3>1
      <3>6. Cardinality(sent[a]) <= Limit /\ Fits(sent[a])
        BY DEF IInv, BatchWithinLimit, BatchFits
      <3> QED
        BY <3>1, <3>2, <3>3, <3>4, <3>5, <3>6 DEF Established
    <2> QED BY <2>1, <2>2, WorkOfActor
  <1>14. ASSUME NEW t \in Thread, NEW a \in Account, Select(t, a) PROVE WorkOK'
    <2>1. lock \in {t, NoThread} /\ \A u \in Thread \ {t} : pc'[u] = pc[u]
      BY <1>14 DEF Select, Go, Release, IInv, TypeOK, LockHeld, Active, Quarantining
    <2>2. ASSUME NEW b \in Account, Active(t)', At(t, b)' PROVE Established(t, b)'
      <3>1. intent[a] = {} /\ request[t].op # "send"
        BY <1>14, AtWork DEF Select, Established, Active, Quarantining, IInv, PhaseOK
      <3>2. b = a /\ pc'[t] = "rename"
        BY <1>14, <2>2, <3>1 DEF Select, At, Go, IInv, TypeOK
      <3>3. PICK S \in SUBSET eml[a] : /\ Cardinality(S) <= Limit
                                      /\ SizeOf(S) <= request[t].maxsize
                                      /\ picked' = [picked EXCEPT ![t] = S]
        BY <1>14 DEF Select, IsSelection
      <3>4. sent[a] = {} /\ ~answered[a]
        BY <1>14 DEF Select, IInv, RetireOK
      <3>5. sent[a] \cup S = S /\ picked'[t] = S
        BY <3>3, <3>4 DEF IInv, TypeOK
      <3>6. Fits(S)
        <4>1. request[t].op = "receive"
          BY <1>14 DEF Select, IInv, PhaseOK
        <4>2. request[t].maxsize \in Budget
          BY <4>1, RequestType DEF IInv
        <4> QED BY <3>3, <4>2 DEF Fits
      <3> QED
        BY <1>14, <3>1, <3>2, <3>3, <3>4, <3>5, <3>6 DEF Select, Established,
           IInv, TypeOK, disk, boxes, observer
    <2> QED BY <2>1, <2>2, WorkOfActor
  <1>15. ASSUME NEW t \in Thread, NEW a \in Account, RenameOne(t, a) PROVE WorkOK'
    <2>1. lock \in {t, NoThread} /\ \A u \in Thread \ {t} : pc'[u] = pc[u]
      BY <1>15 DEF RenameOne, Go, Release, IInv, TypeOK, LockHeld, Active, Quarantining
    <2>2. ASSUME NEW b \in Account, Active(t)', At(t, b)' PROVE Established(t, b)'
      <3>1. /\ intent[a] = {} /\ request[t].op # "send" /\ ~answered[a]
            /\ picked[t] \subseteq eml[a] /\ Cardinality(sent[a] \cup picked[t]) <= Limit
            /\ Fits(sent[a] \cup picked[t])
        BY <1>15, AtWork DEF RenameOne, Established, Active, Quarantining, Least, IInv,
           PhaseOK
      <3>2. b = a
        BY <1>15, <2>2, <3>1 DEF RenameOne, At
      <3>3. PICK m \in picked[t] : /\ picked' = [picked EXCEPT ![t] = @ \ {m}]
                                  /\ eml' = [eml EXCEPT ![a] = @ \ {m}]
                                  /\ sent' = [sent EXCEPT ![a] = @ \cup {m}]
        BY <1>15 DEF RenameOne, Least
      <3>4. /\ picked'[t] = picked[t] \ {m} /\ eml'[a] = eml[a] \ {m}
            /\ sent'[a] \cup picked'[t] = sent[a] \cup picked[t]
        BY <3>1, <3>3 DEF IInv, TypeOK
      <3> QED
        BY <1>15, <3>1, <3>2, <3>4 DEF RenameOne, Established, observer
    <2> QED BY <2>1, <2>2, WorkOfActor
  <1>16. ASSUME NEW t \in Thread, NEW a \in Account, AnswerReceive(t, a) PROVE WorkOK'
    BY <1>16 DEF AnswerReceive, Release, Go, disk, boxes, memory, observer, LockHeld,
       Active, Quarantining, IInv, TypeOK, WorkOK, Established, PhaseOK, RetireOK, At, Least,
       Duplicate, Flag
  <1>17. ASSUME NEW t \in Thread, AnswerDelete(t) PROVE WorkOK'
    BY <1>17 DEF AnswerDelete, Release, Go, disk, boxes, memory, observer, LockHeld,
       Active, Quarantining, IInv, TypeOK, WorkOK, Established, PhaseOK, RetireOK, At, Least,
       Duplicate, Flag
  <1>18. ASSUME NEW t \in Thread, Fail(t) PROVE WorkOK'
    <2>1. ~Active(t)'
      BY <1>18 DEF Fail, Release, Active, Quarantining, IInv, TypeOK
    <2>2. \A u \in Thread \ {t} : /\ pc'[u] = pc[u] /\ request'[u] = request[u]
                                 /\ todo'[u] = todo[u] /\ picked'[u] = picked[u]
      BY <1>18 DEF Fail, Release, IInv, TypeOK
    <2>3. ASSUME NEW u \in Thread \ {t}, NEW b \in Account, Active(u)', At(u, b)'
          PROVE  Established(u, b)'
      <3>1. Established(u, b)
        BY <2>2, <2>3 DEF IInv, WorkOK, Active, Quarantining, At
      <3> QED BY <1>18, <2>2, <3>1 DEF Fail, disk, boxes, observer, Established, Duplicate
    <2> QED BY <2>1, <2>3 DEF WorkOK
  <1>19. ASSUME Restart PROVE WorkOK'
    BY <1>19 DEF Restart, disk, boxes, observer, Active, Quarantining, IInv, TypeOK, WorkOK,
       Established, PhaseOK, RetireOK, At, Least, Duplicate
  <1>20. ASSUME UNCHANGED vars PROVE WorkOK'
    BY <1>20 DEF vars, disk, boxes, memory, observer, Active, Quarantining, IInv,
       TypeOK, WorkOK,
       Established, PhaseOK, RetireOK, At, Least, Duplicate
  <1>21. ASSUME NEW t \in Thread, Refusal(t) PROVE WorkOK'
    <2>1. ASSUME NEW u \in Thread \ {t}, NEW b \in Account, Active(u)', At(u, b)'
          PROVE  Established(u, b)'
      <3>1. Established(u, b)
        BY <1>21, <2>1, RefusalLeaves DEF IInv, WorkOK, Active, At
      <3> QED BY <1>21, <3>1, RefusalLeaves DEF IInv, boxes, Established, Duplicate
    <2> QED BY <1>21, <2>1, RefusalLeaves DEF IInv, WorkOK
  <1> QED
    BY <1>1, <1>2, <1>3, <1>4, <1>5, <1>6, <1>7, <1>8, <1>9, <1>10, <1>11,
       <1>12, <1>13, <1>14, <1>15, <1>16, <1>17, <1>18, <1>19, <1>20, <1>21
       DEF Next, Step

------------------------------------------------------------------------------
(* The theorems. *)

\* The strengthened invariant holds initially.
LEMMA InitIInv == Init => IInv
  <1> SUFFICES ASSUME Init PROVE IInv
    OBVIOUS
  <1>1. TypeOK
    BY InitTypeOK
  <1>2. Cardinality({}) = 0
    BY FS_EmptySet
  <1>3. BatchWithinLimit
    BY <1>2, LimitAssumption DEF Init, BatchWithinLimit
  <1>4. BatchFits
    BY DEF Init, BatchFits, Fits
  <1> QED
    BY <1>1, <1>3, <1>4 DEF Init, IInv, LockHeld, PhaseOK, RetireOK, WorkOK, ServedOK,
       FlagsOK, OneCopy, OwedMailIsPending, KeptOK, RetiredMailIsKept, Active,
       Quarantining, NoRequest

\* Every step preserves it.
LEMMA NextIInv == IInv /\ [Next]_vars => IInv'
  BY NextTypeOK, NextLockHeld, NextPhaseOK, NextRetireOK, NextWorkOK,
     NextServedOK, NextFlagsOK, NextOneCopy, NextOwed, NextKeptOK, NextBatchWithinLimit,
     NextBatchFits
  DEF IInv

\* It holds in every state.
LEMMA Invariance == Spec => []IInv
  BY InitIInv, NextIInv, PTL DEF Spec

\* The state of the store is always well formed; mail is only in the mailboxes
\* of registered accounts.
THEOREM TypeCorrect == Spec => []TypeOK
  <1>1. IInv => TypeOK
    BY DEF IInv
  <1> QED
    BY <1>1, Invariance, PTL

\* Nothing of what a sender was told is accepted is dropped, whatever fails or
\* stops in between: stored mail stays pending until an acknowledgment of its
\* batch commits, and mail acknowledged without being stored shows the recognised
\* corruption and has its file in rejected/ (store_message, _complete_ack,
\* delete_claimed, quarantine_rejected).
THEOREM AcceptedMailIsKept == Spec => []AcknowledgedMailIsKept
  <1>1. IInv => AcknowledgedMailIsKept
    BY DEF IInv, KeptOK, AcknowledgedMailIsKept
  <1> QED
    BY <1>1, Invariance, PTL

\* No mailbox holds a mail twice (store_message, claim).
THEOREM MailIsHeldOnce == Spec => []OneCopy
  <1>1. IInv => OneCopy
    BY DEF IInv
  <1> QED
    BY <1>1, Invariance, PTL

\* New mail always changes the flag that check.cgi reports (_advance_flag before
\* _atomic_write in store_message, check_response).
THEOREM NewMailIsAnnounced == Spec => []NewMailChangesFlag
  <1>1. IInv => NewMailChangesFlag
    BY DEF IInv, FlagsOK, NewMailChangesFlag, MailFlag, TypeOK, Flag
  <1> QED
    BY <1>1, Invariance, PTL

\* An outstanding batch, one that a failed claim left half renamed included, is
\* within the limit and within what some console asks for: claim need never
\* refuse to replay it (claim, _complete_ack).
THEOREM BatchIsReplayed == Spec => []BatchCanBeReplayed
  <1>1. IInv => BatchCanBeReplayed
    BY DEF IInv, BatchWithinLimit, BatchFits, Fits, BatchCanBeReplayed
  <1> QED
    BY <1>1, Invariance, PTL

\* The files implement the abstract mailbox of MailQueue.
THEOREM FilesImplementQueue == Spec => ImplementsQueue
  <1>1. Init => Queue!Init
    BY DEF Init, Queue!Init
  <1>2. IInv /\ [Next]_vars => [Queue!Next]_(Queue!vars)
    <2> SUFFICES ASSUME IInv, [Next]_vars PROVE [Queue!Next]_(Queue!vars)
      OBVIOUS
    <2>1. ASSUME NEW a \in Account, Register(a) PROVE [Queue!Next]_(Queue!vars)
      BY <2>1 DEF Register, disk, boxes, observer, Queue!vars
    <2>2. ASSUME NEW a \in Account, CheckMail(a) PROVE [Queue!Next]_(Queue!vars)
      BY <2>2 DEF CheckMail, disk, boxes, observer, Queue!vars
    <2>3. ASSUME NEW t \in Thread, Arrive(t) PROVE [Queue!Next]_(Queue!vars)
      BY <2>3 DEF Arrive, disk, boxes, observer, Queue!vars
    <2>4. ASSUME NEW t \in Thread, EnterSend(t) PROVE [Queue!Next]_(Queue!vars)
      BY <2>4 DEF EnterSend, disk, boxes, observer, Queue!vars
    <2>5. ASSUME NEW t \in Thread, EnterReceive(t) PROVE [Queue!Next]_(Queue!vars)
      BY <2>5 DEF EnterReceive, disk, boxes, observer, Queue!vars
    <2>6. ASSUME NEW t \in Thread, NEW a \in Account, EnterDelete(t, a) PROVE [Queue!Next]_(Queue!vars)
      <3>1. CASE ~CommitAck(t, a)
        BY <2>6, <3>1 DEF EnterDelete, ResumeAck, RefuseAck, disk, boxes, observer,
           Queue!vars
      <3>2. CASE CommitAck(t, a)
        <4>1. Queue!Acknowledge(a)
          BY <3>2 DEF CommitAck, Queue!Acknowledge, IInv, TypeOK
        <4> QED BY <4>1 DEF Queue!Next
      <3> QED BY <3>1, <3>2
    <2>7. ASSUME NEW t \in Thread, NEW a \in Account, UnlinkRetired(t, a) PROVE [Queue!Next]_(Queue!vars)
      <3>1. UNCHANGED <<eml, answered, intent>>
        BY <2>7 DEF UnlinkRetired, observer
      <3>2. \A b \in Account : sent'[b] \ intent[b] = sent[b] \ intent[b]
        BY <2>7 DEF UnlinkRetired, Least, IInv, TypeOK
      <3> QED BY <3>1, <3>2 DEF Queue!vars
    <2>8. ASSUME NEW t \in Thread, NEW a \in Account, EndRetire(t, a) PROVE [Queue!Next]_(Queue!vars)
      <3>1. UNCHANGED <<eml, answered, sent>>
        BY <2>8 DEF EndRetire, observer
      <3>2. \A b \in Account : sent[b] \ intent'[b] = sent[b] \ intent[b]
        BY <2>8 DEF EndRetire, IInv, TypeOK, RetireOK
      <3> QED BY <3>1, <3>2 DEF Queue!vars
    <2>9. ASSUME NEW t \in Thread, NEW a \in Account, SkipDuplicate(t, a) PROVE [Queue!Next]_(Queue!vars)
      BY <2>9 DEF SkipDuplicate, disk, boxes, observer, Queue!vars
    <2>10. ASSUME NEW t \in Thread, NEW a \in Account, AdvanceFlag(t, a) PROVE [Queue!Next]_(Queue!vars)
      BY <2>10 DEF AdvanceFlag, disk, boxes, observer, Queue!vars
    <2>11. ASSUME NEW t \in Thread, NEW a \in Account, Publish(t, a) PROVE [Queue!Next]_(Queue!vars)
      <3>1. request[t].mail \in Mail /\ ~Duplicate(t, a) /\ intent[a] = {}
        BY <2>11, AtWork, RequestType DEF Publish, Established, Active, Quarantining,
           IInv, PhaseOK
      <3>2. Queue!Accept(a, request[t].mail)
        BY <2>11, <3>1 DEF Publish, Queue!Accept, Queue!Held, Duplicate
      <3> QED BY <3>1, <3>2 DEF Queue!Next
    <2>12. ASSUME NEW t \in Thread, AnswerSend(t) PROVE [Queue!Next]_(Queue!vars)
      BY <2>12 DEF AnswerSend, disk, boxes, observer, Queue!vars
    <2>13. ASSUME NEW t \in Thread, NEW a \in Account, Replay(t, a) PROVE [Queue!Next]_(Queue!vars)
      BY <2>13 DEF Replay, disk, boxes, observer, Queue!vars
    <2>14. ASSUME NEW t \in Thread, NEW a \in Account, Select(t, a) PROVE [Queue!Next]_(Queue!vars)
      BY <2>14 DEF Select, disk, boxes, observer, Queue!vars
    <2>15. ASSUME NEW t \in Thread, NEW a \in Account, RenameOne(t, a) PROVE [Queue!Next]_(Queue!vars)
      <3>1. /\ intent[a] = {} /\ ~answered[a] /\ picked[t] \subseteq eml[a]
        BY <2>15, AtWork DEF RenameOne, Established, Active, Quarantining, Least
      <3>2. PICK m \in picked[t] : /\ eml' = [eml EXCEPT ![a] = @ \ {m}]
                                  /\ sent' = [sent EXCEPT ![a] = @ \cup {m}]
        BY <2>15 DEF RenameOne, Least
      <3>3. UNCHANGED <<intent, answered>>
        BY <2>15 DEF RenameOne, observer
      <3>4. Queue!Offer(a, {m})
        BY <3>1, <3>2, <3>3 DEF Queue!Offer, IInv, TypeOK
      <3> QED BY <3>1, <3>4 DEF Queue!Next
    <2>16. ASSUME NEW t \in Thread, NEW a \in Account, AnswerReceive(t, a) PROVE [Queue!Next]_(Queue!vars)
      <3>1. intent[a] = {}
        BY <2>16, AtWork DEF AnswerReceive, Established, Active, Quarantining
      <3>2. CASE sent[a] = {} \/ answered[a]
        BY <2>16, <3>2 DEF AnswerReceive, disk, boxes, Queue!vars, IInv, TypeOK,
           RetireOK
      <3>3. CASE sent[a] # {} /\ ~answered[a]
        <4>1. Queue!Offer(a, {})
          BY <2>16, <3>1, <3>3 DEF AnswerReceive, disk, boxes, Queue!Offer, IInv, TypeOK
        <4> QED BY <4>1 DEF Queue!Next
      <3> QED BY <3>2, <3>3
    <2>17. ASSUME NEW t \in Thread, AnswerDelete(t) PROVE [Queue!Next]_(Queue!vars)
      BY <2>17 DEF AnswerDelete, disk, boxes, observer, Queue!vars
    <2>18. ASSUME NEW t \in Thread, Fail(t) PROVE [Queue!Next]_(Queue!vars)
      BY <2>18 DEF Fail, disk, boxes, observer, Queue!vars
    <2>19. ASSUME Restart PROVE [Queue!Next]_(Queue!vars)
      BY <2>19 DEF Restart, disk, boxes, observer, Queue!vars
    <2>20. ASSUME UNCHANGED vars PROVE [Queue!Next]_(Queue!vars)
      BY <2>20 DEF vars, disk, boxes, observer, Queue!vars
    <2>21. ASSUME NEW t \in Thread, Refusal(t) PROVE [Queue!Next]_(Queue!vars)
      BY <2>21, RefusalLeaves DEF IInv, boxes, Queue!vars
    <2> QED
      BY <2>1, <2>2, <2>3, <2>4, <2>5, <2>6, <2>7, <2>8, <2>9, <2>10, <2>11,
         <2>12, <2>13, <2>14, <2>15, <2>16, <2>17, <2>18, <2>19, <2>20, <2>21
         DEF Next, Step
  <1> QED
    BY <1>1, <1>2, Invariance, PTL DEF Spec, ImplementsQueue, Queue!Spec

------------------------------------------------------------------------------
(* A claim selects one batch. *)

\* Every set of natural numbers has a least one.
LEMMA LeastNatural ==
  ASSUME NEW S \in SUBSET Nat, S # {}
  PROVE  \E m \in S : \A n \in S : m <= n
  <1>1. PICK m \in S : \A n \in S : ~ (<<n, m>> \in OpToRel(<, Nat))
    BY NatLessThanWellFounded, WFMin
  <1>2. \A n \in S : ~ (n < m)
    BY <1>1 DEF OpToRel
  <1> QED BY <1>2

\* Mails of a batch fit alone.
LEMMA PartFits ==
  ASSUME NEW S \in SUBSET Mail, NEW w \in Nat, SizeOf(S) <= w, NEW m \in S
  PROVE  m \in Nat /\ Size[m] \in Nat /\ Size[m] <= w
  <1>1. m \in Nat /\ Size[m] \in Nat
    BY MailAssumption, SizeAssumption
  <1>2. SizeOf({}) = 0
    BY SizeOfValue
  <1>3. SizeOf({} \cup {m}) = Size[m] + SizeOf({})
    BY SizeOfMore
  <1>4. SizeOf({m}) <= SizeOf(S) /\ SizeOf({m}) \in Nat /\ SizeOf(S) \in Nat
    BY SizeOfFewer, SizeOfType
  <1> QED BY <1>1, <1>2, <1>3, <1>4

\* A mail more: one in number, its size in bytes.
LEMMA OneMore ==
  ASSUME NEW S \in SUBSET Mail, NEW m \in Mail \ S
  PROVE  /\ Cardinality(S \cup {m}) = Cardinality(S) + 1 /\ Cardinality(S) \in Nat
         /\ SizeOf(S \cup {m}) = Size[m] + SizeOf(S) /\ SizeOf(S) \in Nat
         /\ Size[m] \in Nat
  <1>1. IsFiniteSet(S)
    BY MailAssumption, FS_Subset
  <1>2. Cardinality(S \cup {m}) = Cardinality(S) + 1 /\ Cardinality(S) \in Nat
    BY <1>1, FS_AddElement, FS_CardinalityType
  <1>3. Size[m] \in Nat
    BY SizeAssumption
  <1> QED BY <1>2, <1>3, SizeOfMore, SizeOfType

\* Of two selections one is a part of the other: neither leaves a mail out that fits,
\* except behind its last one.
LEMMA SelectionsNest ==
  ASSUME NEW c \in SUBSET Mail, NEW w \in Nat, NEW S, NEW T,
         IsSelection(S, c, w), IsSelection(T, c, w), NEW s \in S \ T
  PROVE  T \subseteq S
  <1>1. /\ S \in SUBSET Mail /\ T \in SUBSET Mail /\ c \subseteq Nat
        /\ SizeOf(S) <= w /\ SizeOf(T) <= w /\ s \in c \ T
    BY MailAssumption DEF IsSelection
  <1>2. \A m \in S \cup T : m \in Nat /\ Size[m] \in Nat /\ Size[m] <= w
    BY <1>1, PartFits
  <1>3. \A t \in T : t < s
    BY <1>1, <1>2 DEF IsSelection
  <1> SUFFICES ASSUME NEW t \in T \ S PROVE FALSE
    OBVIOUS
  <1>4. t < s /\ t \in c \ S
    BY <1>3 DEF IsSelection
  <1>5. \A x \in S : x < t
    BY <1>2, <1>4 DEF IsSelection
  <1> QED BY <1>2, <1>4, <1>5

\* A selection ends only where the next mail does not fit.
LEMMA SelectionIsLargest ==
  ASSUME NEW c \in SUBSET Mail, NEW w \in Nat, NEW S, NEW T,
         IsSelection(S, c, w), IsSelection(T, c, w), S \subseteq T
  PROVE  S = T
  <1> SUFFICES ASSUME NEW x \in T \ S PROVE FALSE
    OBVIOUS
  <1>1. /\ S \in SUBSET Mail /\ T \in SUBSET Mail /\ c \subseteq Nat
        /\ SizeOf(S) <= w /\ SizeOf(T) <= w /\ T \subseteq c
    BY MailAssumption DEF IsSelection
  <1>2. \A m \in T : m \in Nat /\ Size[m] \in Nat /\ Size[m] <= w
    BY <1>1, PartFits
  <1>3. S # {} /\ \A s \in S : s < x
    BY <1>1, <1>2 DEF IsSelection
  <1> DEFINE Behind == {m \in c \ S : \A s \in S : s < m}
  <1>4. PICK m \in Behind : \A n \in Behind : m <= n
    <2>1. x \in Behind /\ Behind \in SUBSET Nat
      BY <1>1, <1>3
    <2> QED BY <2>1, LeastNatural
  <1>5. m \in T
    <2> SUFFICES ASSUME m \notin T PROVE FALSE
      OBVIOUS
    <2>1. m <= x /\ m \in c \ T /\ m \in Nat
      BY <1>1, <1>3, <1>4
    <2>2. \/ \A t \in T : m < t
          \/ \A t \in T : t < m
      BY <2>1 DEF IsSelection
    <2> QED BY <1>2, <1>3, <1>4, <2>1, <2>2
  <1>6. Cardinality(S) = Limit \/ SizeOf(S) + Size[m] > w
    <2>1. ~ \E n \in c \ S : n < m /\ \A s \in S : s < n
      BY <1>1, <1>4
    <2> QED BY <1>3, <1>4, <2>1 DEF IsSelection
  <1>7. /\ Cardinality(S \cup {m}) = Cardinality(S) + 1 /\ Cardinality(S) \in Nat
        /\ SizeOf(S \cup {m}) = Size[m] + SizeOf(S) /\ SizeOf(S) \in Nat
        /\ Size[m] \in Nat
    BY <1>1, <1>4, OneMore
  <1>8. S \cup {m} \subseteq T
    BY <1>5
  <1>9. /\ Cardinality(S \cup {m}) <= Cardinality(T) /\ Cardinality(T) \in Nat
        /\ SizeOf(S \cup {m}) <= SizeOf(T) /\ SizeOf(T) \in Nat
    BY <1>1, <1>8, FewerMails, SizeOfFewer, SizeOfType
  <1>10. Cardinality(T) <= Limit /\ Limit \in Nat
    BY LimitAssumption DEF IsSelection
  <1> QED BY <1>1, <1>6, <1>7, <1>9, <1>10

\* An unbroken row of mails from the first that fits, within number and bytes.
Row(S, c, w) ==
  /\ S \in SUBSET c /\ S # {}
  /\ \A m \in c \ S : \/ Size[m] > w /\ \A s \in S : m < s
                      \/ \A s \in S : s < m
  /\ Cardinality(S) <= Limit /\ SizeOf(S) <= w

\* The longest row is a selection.
LEMMA LongestRow ==
  ASSUME NEW c \in SUBSET Mail, NEW w \in Nat, NEW S, Row(S, c, w),
         \A m \in c \ S : ~ Row(S \cup {m}, c, w)
  PROVE  IsSelection(S, c, w)
  <1>1. /\ S \in SUBSET Mail /\ S \subseteq c /\ S # {} /\ c \subseteq Nat
        /\ Cardinality(S) <= Limit /\ SizeOf(S) <= w
    BY MailAssumption DEF Row
  <1>2. ASSUME NEW m \in c \ S, \A s \in S : s < m,
               ~ \E n \in c \ S : n < m /\ \A s \in S : s < n
        PROVE  Cardinality(S) = Limit \/ SizeOf(S) + Size[m] > w
    <2> SUFFICES ASSUME Cardinality(S) # Limit, ~ SizeOf(S) + Size[m] > w
                 PROVE  Row(S \cup {m}, c, w)
      OBVIOUS
    <2>1. /\ Cardinality(S \cup {m}) = Cardinality(S) + 1 /\ Cardinality(S) \in Nat
          /\ SizeOf(S \cup {m}) = Size[m] + SizeOf(S) /\ SizeOf(S) \in Nat
          /\ Size[m] \in Nat
      BY <1>1, OneMore
    <2>2. Cardinality(S \cup {m}) <= Limit /\ SizeOf(S \cup {m}) <= w
      BY <1>1, <2>1, LimitAssumption
    <2>3. ASSUME NEW n \in c \ (S \cup {m})
          PROVE  \/ Size[n] > w /\ \A s \in S \cup {m} : n < s
                 \/ \A s \in S \cup {m} : s < n
      <3>1. CASE Size[n] > w /\ \A s \in S : n < s
        BY <1>1, <1>2, <3>1
      <3>2. CASE \A s \in S : s < n
        <4>1. m < n
          BY <1>1, <1>2, <3>2
        <4> QED BY <3>2, <4>1
      <3> QED BY <3>1, <3>2 DEF Row
    <2> QED BY <1>1, <2>2, <2>3 DEF Row
  <1> QED BY <1>1, <1>2 DEF IsSelection, Row

\* There is a selection: nothing, or the longest row.
LEMMA SelectionExists ==
  ASSUME NEW c \in SUBSET Mail, NEW w \in Nat
  PROVE  \E S \in SUBSET c : IsSelection(S, c, w)
  <1> DEFINE Alone == {m \in c : Size[m] <= w}
  <1>1. c \subseteq Nat /\ \A m \in c : Size[m] \in Nat
    BY MailAssumption, SizeAssumption
  <1>2. SizeOf({}) = 0 /\ Cardinality({}) = 0
    BY SizeOfValue, FS_EmptySet
  <1>3. CASE Alone = {}
    <2>1. \A m \in c : Size[m] > w
      BY <1>1, <1>3
    <2>2. IsSelection({}, c, w)
      BY <1>2, <2>1, LimitAssumption DEF IsSelection
    <2> QED BY <2>2
  <1>4. CASE Alone # {}
    <2>1. PICK f \in Alone : \A m \in Alone : f <= m
      BY <1>1, <1>4, LeastNatural
    <2>2. Row({f}, c, w)
      <3>1. Cardinality({f}) = 1 /\ SizeOf({f}) = Size[f]
        <4>1. {} \in SUBSET Mail /\ f \in Mail \ {} /\ {} \cup {f} = {f}
          OBVIOUS
        <4>2. Cardinality({} \cup {f}) = 0 + 1 /\ SizeOf({} \cup {f}) = Size[f] + 0
          BY <1>2, <4>1, OneMore
        <4> QED BY <1>1, <4>1, <4>2
      <3>2. ASSUME NEW m \in c \ {f} PROVE (Size[m] > w /\ m < f) \/ f < m
        BY <1>1, <2>1, <3>2
      <3> QED BY <3>1, <3>2, LimitAssumption DEF Row
    <2> DEFINE Rests == {c \ S : S \in {R \in SUBSET c : Row(R, c, w)}}
    <2>3. PICK D \in Rests : \A U \in SUBSET D : U # D => U \notin Rests
      <3>1. Rests \in SUBSET SUBSET Mail /\ Rests # {}
        BY <2>2
      <3> HIDE DEF Rests
      <3> QED BY <3>1, SmallestSet
    <2>4. PICK S \in SUBSET c : Row(S, c, w) /\ D = c \ S
      BY <2>3
    <2>5. ASSUME NEW m \in c \ S, Row(S \cup {m}, c, w) PROVE FALSE
      <3>1. c \ (S \cup {m}) \in Rests
        BY <2>5
      <3>2. c \ (S \cup {m}) \in SUBSET D /\ c \ (S \cup {m}) # D
        BY <2>4
      <3> QED BY <2>3, <3>1, <3>2
    <2> QED BY <2>4, <2>5, LongestRow
  <1> QED BY <1>3, <1>4

\* For any queue and any byte budget exactly one batch is a selection: a claim can
\* always go on, and what it takes is determined, as the loop of claim has it.
THEOREM ClaimIsDetermined ==
  ASSUME NEW candidates \in SUBSET Mail, NEW maxsize \in Nat
  PROVE  \E S \in SUBSET candidates :
           \A T : IsSelection(T, candidates, maxsize) <=> T = S
  <1>1. PICK S \in SUBSET candidates : IsSelection(S, candidates, maxsize)
    BY SelectionExists
  <1>2. ASSUME NEW T, IsSelection(T, candidates, maxsize) PROVE T = S
    <2>1. S \subseteq T \/ T \subseteq S
      BY <1>1, <1>2, SelectionsNest
    <2> QED BY <1>1, <1>2, <2>1, SelectionIsLargest
  <1> QED BY <1>1, <1>2

------------------------------------------------------------------------------
(* Every operation ends. *)

\* Files that an acknowledgment has retired in the mailbox of a thread.
Retiring(t) == {m \in Mail : \E a \in Account : At(t, a) /\ m \in intent[a] \cap sent[a]}

\* Files that a thread has still to unlink, or to rename, in its phase.
Left(t) ==
  CASE pc[t] = "retire" -> Cardinality(Retiring(t))
    [] pc[t] = "rename" -> Cardinality(picked[t])
    [] OTHER            -> 0

\* The order of the phases, from the last on.
Ahead(phase) ==
  CASE phase = "retire"               -> 3
    [] phase \in {"dedup", "claim"}    -> 2
    [] phase \in {"publish", "rename"} -> 1
    [] OTHER                          -> 0

\* A recipient less, or a later phase for the same one, or a file less in the phase.
Nearer(t) ==
  \/ Cardinality(todo'[t]) < Cardinality(todo[t])
  \/ /\ todo'[t] = todo[t]
     /\ \/ Ahead(pc'[t]) < Ahead(pc[t])
        \/ pc'[t] = pc[t] /\ Left(t)' < Left(t)

\* What remains of an operation is a number of recipients, phases and files ...
WorkIsCounted ==
  \A t \in Thread : Cardinality(todo[t]) \in Nat /\ Left(t) \in Nat

\* ... that each of its steps reduces and nobody else touches.
WorkShrinks ==
  \A t \in Thread : Active(t) /\ Active(t)' =>
    IF Step(t) THEN Nearer(t) ELSE UNCHANGED <<todo[t], pc[t], Left(t)>>

\* Sets of mails and of recipients are finite.
LEMMA FiniteWork ==
  ASSUME TypeOK, NEW t \in Thread
  PROVE  /\ IsFiniteSet(todo[t]) /\ IsFiniteSet(picked[t]) /\ IsFiniteSet(Retiring(t))
         /\ Cardinality(todo[t]) \in Nat /\ Left(t) \in Nat
  <1>1. todo[t] \subseteq Account /\ picked[t] \subseteq Mail /\ Retiring(t) \subseteq Mail
    BY DEF TypeOK, Retiring
  <1>2. IsFiniteSet(todo[t]) /\ IsFiniteSet(picked[t]) /\ IsFiniteSet(Retiring(t))
    BY <1>1, FS_Subset, AccountAssumption, MailAssumption
  <1>3. /\ Cardinality(todo[t]) \in Nat /\ Cardinality(picked[t]) \in Nat
        /\ Cardinality(Retiring(t)) \in Nat
    BY <1>2, FS_CardinalityType
  <1> QED BY <1>2, <1>3 DEF Left

\* The mailbox that a thread works on is one.
LEMMA OneMailbox ==
  ASSUME TypeOK, NEW t \in Thread, NEW a \in Account, At(t, a)
  PROVE  \A b \in Account : At(t, b) => b = a
  <1>1. \A b \in Account : b \in Nat
    BY AccountAssumption
  <1> QED BY <1>1 DEF At, Least

\* A recipient is served.
LEMMA RecipientLess ==
  ASSUME TypeOK, NEW t \in Thread, NEW a \in Account, request[t].op = "send", At(t, a),
         todo' = [todo EXCEPT ![t] = @ \ {a}]
  PROVE  Nearer(t)
  <1>1. a \in todo[t] /\ IsFiniteSet(todo[t])
    BY FiniteWork DEF At, Least
  <1>2. Cardinality(todo[t] \ {a}) = Cardinality(todo[t]) - 1
    BY <1>1, FS_RemoveElement
  <1>3. Cardinality(todo'[t]) = Cardinality(todo[t]) - 1 /\ Cardinality(todo[t]) \in Nat
    BY <1>2, FiniteWork DEF TypeOK
  <1>4. Cardinality(todo'[t]) < Cardinality(todo[t])
    BY <1>3
  <1> QED BY <1>4 DEF Nearer

\* A phase is over.
LEMMA PhaseLess ==
  ASSUME TypeOK, NEW t \in Thread, NEW phase, UNCHANGED todo, Go(t, phase),
         Ahead(phase) < Ahead(pc[t])
  PROVE  Nearer(t)
  BY DEF TypeOK, Go, Nearer

\* A file is unlinked.
LEMMA RetiredLess ==
  ASSUME TypeOK, NEW t \in Thread, NEW a \in Account, UnlinkRetired(t, a)
  PROVE  Nearer(t)
  <1>1. PICK m \in Mail : Least(intent[a] \cap sent[a], m) /\ sent' = [sent EXCEPT ![a] = @ \ {m}]
    BY DEF UnlinkRetired
  <1>2. pc[t] = "retire" /\ At(t, a) /\ UNCHANGED <<intent, pc, todo, request>>
    BY DEF UnlinkRetired, memory
  <1>3. Retiring(t) = intent[a] \cap sent[a]
    BY <1>2, OneMailbox DEF Retiring, TypeOK
  <1>4. Retiring(t)' = Retiring(t) \ {m} /\ m \in Retiring(t)
    <2>1. \A b \in Account : At(t, b)' <=> At(t, b)
      BY <1>2 DEF At
    <2>2. Retiring(t)' = {x \in Mail : \E b \in Account : At(t, b) /\ x \in intent[b] \cap sent'[b]}
      BY <1>2, <2>1 DEF Retiring
    <2>3. Retiring(t)' = intent[a] \cap sent'[a]
      BY <1>1, <1>2, <2>2, OneMailbox DEF TypeOK
    <2> QED BY <1>1, <1>3, <2>3 DEF Least, TypeOK
  <1>5. Cardinality(Retiring(t) \ {m}) = Cardinality(Retiring(t)) - 1
        /\ Cardinality(Retiring(t)) \in Nat
    BY <1>4, FiniteWork, FS_RemoveElement, FS_CardinalityType
  <1>6. Left(t) = Cardinality(Retiring(t)) /\ Left(t)' = Cardinality(Retiring(t)')
    BY <1>2 DEF Left
  <1> QED BY <1>2, <1>4, <1>5, <1>6 DEF Nearer

\* A file is renamed.
LEMMA PickedLess ==
  ASSUME TypeOK, NEW t \in Thread, NEW a \in Account, RenameOne(t, a)
  PROVE  Nearer(t)
  <1>1. PICK m \in picked[t] : picked' = [picked EXCEPT ![t] = @ \ {m}]
    BY DEF RenameOne, Least
  <1>2. pc[t] = "rename" /\ UNCHANGED <<pc, todo>> /\ picked'[t] = picked[t] \ {m}
    BY <1>1 DEF RenameOne, TypeOK
  <1>3. Cardinality(picked[t] \ {m}) = Cardinality(picked[t]) - 1
        /\ Cardinality(picked[t]) \in Nat
    BY <1>1, FiniteWork, FS_RemoveElement, FS_CardinalityType
  <1>4. Left(t) = Cardinality(picked[t]) /\ Left(t)' = Cardinality(picked'[t])
    BY <1>2 DEF Left
  <1> QED BY <1>2, <1>3, <1>4 DEF Nearer

\* A step of a thread's operation reduces what remains of it.
LEMMA StepShrinks ==
  ASSUME IInv, NEW t \in Thread, Active(t), Active(t)', Step(t)
  PROVE  Nearer(t)
  <1>0. TypeOK /\ PhaseOK /\ pc'[t] # "idle"
    BY DEF IInv, Active, Quarantining
  <1>1. ~ Release(t)
    BY <1>0 DEF Release, TypeOK
  <1>2. /\ ~ EnterSend(t) /\ ~ EnterReceive(t) /\ ~ Refusal(t)
        /\ \A a \in Account : ~ EnterDelete(t, a)
    BY <1>0, RefusalLeaves DEF Active, EnterSend, EnterReceive, EnterDelete
  <1>3. ~ AnswerSend(t) /\ ~ AnswerDelete(t) /\ \A a \in Account : ~ AnswerReceive(t, a)
    BY <1>1 DEF AnswerSend, AnswerDelete, AnswerReceive
  <1>4. PICK a \in Account :
          \/ UnlinkRetired(t, a) \/ EndRetire(t, a)
          \/ SkipDuplicate(t, a) \/ AdvanceFlag(t, a) \/ Publish(t, a)
          \/ Replay(t, a) \/ Select(t, a) \/ RenameOne(t, a)
    BY <1>2, <1>3 DEF Step
  <1>5. CASE UnlinkRetired(t, a)
    BY <1>0, <1>5, RetiredLess
  <1>6. CASE EndRetire(t, a)
    <2>1. PICK phase \in {"dedup", "claim", "answer"} : Go(t, phase)
      BY <1>6 DEF EndRetire
    <2>2. pc[t] = "retire" /\ UNCHANGED todo
      BY <1>6 DEF EndRetire
    <2>3. Ahead(phase) < Ahead(pc[t])
      BY <2>1, <2>2 DEF Ahead
    <2> QED BY <1>0, <2>1, <2>2, <2>3, PhaseLess
  <1>7. CASE SkipDuplicate(t, a)
    <2>1. request[t].op = "send" /\ At(t, a) /\ todo' = [todo EXCEPT ![t] = @ \ {a}]
      BY <1>0, <1>7 DEF SkipDuplicate, ServedRecipient, PhaseOK
    <2> QED BY <1>0, <2>1, RecipientLess
  <1>8. CASE AdvanceFlag(t, a)
    <2>1. Go(t, "publish") /\ pc[t] = "dedup" /\ UNCHANGED todo
      BY <1>8 DEF AdvanceFlag
    <2>2. Ahead("publish") < Ahead(pc[t])
      BY <2>1 DEF Ahead
    <2> QED BY <1>0, <2>1, <2>2, PhaseLess
  <1>9. CASE Publish(t, a)
    <2>1. request[t].op = "send" /\ At(t, a) /\ todo' = [todo EXCEPT ![t] = @ \ {a}]
      BY <1>0, <1>9 DEF Publish, ServedRecipient, PhaseOK
    <2> QED BY <1>0, <2>1, RecipientLess
  <1>10. CASE Replay(t, a)
    <2>1. Go(t, "rename") /\ pc[t] = "claim" /\ UNCHANGED todo
      BY <1>1, <1>10 DEF Replay
    <2>2. Ahead("rename") < Ahead(pc[t])
      BY <2>1 DEF Ahead
    <2> QED BY <1>0, <2>1, <2>2, PhaseLess
  <1>11. CASE Select(t, a)
    <2>1. Go(t, "rename") /\ pc[t] = "claim" /\ UNCHANGED todo
      BY <1>11 DEF Select
    <2>2. Ahead("rename") < Ahead(pc[t])
      BY <2>1 DEF Ahead
    <2> QED BY <1>0, <2>1, <2>2, PhaseLess
  <1>12. CASE RenameOne(t, a)
    BY <1>0, <1>12, PickedLess
  <1> QED
    BY <1>4, <1>5, <1>6, <1>7, <1>8, <1>9, <1>10, <1>11, <1>12

\* What others do leaves the work of the thread alone that has the lock.
LEMMA OthersWait ==
  ASSUME IInv, [Next]_vars, NEW t \in Thread, Active(t), Active(t)', ~ Step(t)
  PROVE  UNCHANGED <<todo[t], pc[t], Left(t)>>
  <1>1. TypeOK /\ lock = t /\ lock # NoThread /\ pc[t] \notin {"idle", "waiting"}
    BY ThreadAssumption DEF IInv, LockHeld, Active
  <1>2. \A u \in Thread : u # t => pc[u] \in {"idle", "waiting"} \cup Quarantining
    BY <1>1 DEF IInv, LockHeld, Active, Quarantining
  <1>3. ASSUME UNCHANGED <<sent, intent>>, UNCHANGED <<todo[t], pc[t], request[t], picked[t]>>
        PROVE  UNCHANGED <<todo[t], pc[t], Left(t)>>
    <2>1. \A b \in Account : At(t, b)' <=> At(t, b)
      BY <1>3 DEF At
    <2>2. Retiring(t)' = Retiring(t)
      BY <1>3, <2>1 DEF Retiring
    <2> QED BY <1>3, <2>2 DEF Left
  <1>4. \A a \in Account : ~ Register(a) /\ ~ CheckMail(a)
    BY <1>1 DEF Register, CheckMail
  <1>5. ASSUME NEW u \in Thread, u # t, Step(u) PROVE Refusal(u)
    <2>1. lock # NoThread /\ pc[u] \in {"idle", "waiting"} \cup Quarantining
      BY <1>1, <1>2, <1>5
    <2> QED
      BY <1>5, <2>1 DEF Quarantining, Step, EnterSend, EnterReceive, AnswerSend,
         AnswerDelete, EnterDelete,
         UnlinkRetired, EndRetire, SkipDuplicate, AdvanceFlag, Publish, Replay, Select,
         RenameOne, AnswerReceive
  <1>6. ASSUME NEW u \in Thread, Arrive(u) PROVE UNCHANGED <<todo[t], pc[t], Left(t)>>
    <2>1. u # t
      BY <1>1, <1>6 DEF Arrive
    <2> QED BY <1>1, <1>3, <1>6, <2>1 DEF Arrive, Go, disk, boxes, TypeOK
  <1>7. ASSUME NEW u \in Thread, Fail(u) PROVE UNCHANGED <<todo[t], pc[t], Left(t)>>
    <2>1. u # t
      BY <1>1, <1>7 DEF Fail, Release, Active, Quarantining, TypeOK
    <2> QED BY <1>1, <1>3, <1>7, <2>1 DEF Fail, Release, disk, boxes, TypeOK
  <1>8. ~ Restart
    BY DEF Restart, Active, Quarantining
  <1>9. CASE UNCHANGED vars
    BY <1>3, <1>9 DEF vars, disk, boxes, memory
  <1>10. ASSUME NEW u \in Thread, Refusal(u) PROVE UNCHANGED <<todo[t], pc[t], Left(t)>>
    <2>1. u # t
      BY <1>1, <1>10, RefusalLeaves
    <2> QED BY <1>1, <1>3, <1>10, <2>1, RefusalLeaves DEF boxes
  <1> QED BY <1>4, <1>5, <1>6, <1>7, <1>8, <1>9, <1>10 DEF Next

\* An operation that has the lock is a finite number of steps from its end, for any
\* recipients and any files: each of its own steps reduces that number, and nobody
\* else's step changes it.  (That it takes those steps is up to the scheduler.)
THEOREM OperationsAreFinite == Spec => []WorkIsCounted /\ [][WorkShrinks]_vars
  <1>1. IInv => WorkIsCounted
    BY FiniteWork DEF IInv, WorkIsCounted
  <1>2. IInv /\ [Next]_vars => WorkShrinks
    BY StepShrinks, OthersWait DEF WorkShrinks
  <1> QED BY <1>1, <1>2, Invariance, PTL DEF Spec
==============================================================================
