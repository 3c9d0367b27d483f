------------------------- MODULE NoticeDispatchProofs -------------------------
(***************************************************************************)
(* Theorems about NoticeDispatch for any notices, outboxes, recipients,    *)
(* handler threads and bounds.                                             *)
(***************************************************************************)
EXTENDS NoticeDispatch, TLAPS

TypeOK ==
  /\ created \subseteq Notice /\ expired \subseteq Notice
  /\ confirmed \subseteq Notice /\ dispatched \subseteq Notice
  /\ registered \subseteq Recipient /\ pending \subseteq Notice
  /\ writer \in [Box -> Thread \cup {NoThread}]
  /\ pc \in [Thread -> {"idle", "begin", "send", "stopped"}]
  /\ box \in [Thread -> Box]
  /\ rows \in [Thread -> SUBSET Notice]
  /\ marked \in [Thread -> SUBSET Notice]
  /\ posts \in Nat /\ faults \in Nat /\ waits \in Nat
  /\ delivered \in [Notice -> 0 .. MaxCopies]
  /\ undone \in [Notice -> 0 .. MaxCopies]

\* A thread sends inside the write transaction of its outbox only.
WriterOK == \A t \in Thread : pc[t] = "send" => writer[box[t]] = t

\* The rows of a transaction are of its outbox, not dispatched yet, and either
\* still to be sent or marked.
RoundOK ==
  \A t \in Thread :
    /\ pc[t] # "send" => rows[t] = {} /\ marked[t] = {}
    /\ rows[t] \cup marked[t] \subseteq RowsOf(box[t]) \ dispatched
    /\ rows[t] \cap marked[t] = {}

\* Nothing is marked before it was stored.
StoredOK ==
  \A n \in Notice :
    n \in dispatched \/ (\E t \in Thread : n \in marked[t])
      => n \in pending \/ delivered[n] > 0

\* A notice that no transaction has marked was sent at most as often as a
\* transaction was rolled back after it, up to the bound of the count.
UnmarkedOK ==
  \A n \in Notice :
    n \notin dispatched /\ (\A t \in Thread : n \notin marked[t])
      => Copies(n) <= undone[n] \/ undone[n] = MaxCopies

IInv == TypeOK /\ WriterOK /\ RoundOK /\ StoredOK /\ UnmarkedOK /\ CopyNeedsRollback

------------------------------------------------------------------------------
\* Where a thread goes.
LEMMA LeaveFacts ==
  ASSUME TypeOK, NEW t \in Thread, Leave(t)
  PROVE  /\ rows'[t] = {} /\ marked'[t] = {} /\ pc'[t] \in {"begin", "idle"}
         /\ \A u \in Thread \ {t} : /\ pc'[u] = pc[u] /\ box'[u] = box[u]
                                    /\ rows'[u] = rows[u] /\ marked'[u] = marked[u]
         /\ pc' \in [Thread -> {"idle", "begin", "send", "stopped"}] /\ box' \in [Thread -> Box]
         /\ rows' \in [Thread -> SUBSET Notice] /\ marked' \in [Thread -> SUBSET Notice]
  BY DEF Leave, TypeOK, Box

\* A rollback counts what it undoes, up to the bound.
LEMMA UndoFacts ==
  ASSUME TypeOK, NEW S, Undo(S)
  PROVE  /\ undone' \in [Notice -> 0 .. MaxCopies]
         /\ \A n \in Notice : /\ undone[n] <= undone'[n]
                              /\ n \in S => undone'[n] = undone[n] + 1 \/ undone'[n] = MaxCopies
  BY BoundsAssumption DEF Undo, TypeOK

\* Only one thread sends what is in an outbox.
LEMMA OneSender ==
  ASSUME IInv, NEW t \in Thread, NEW u \in Thread, t # u, pc[t] = "send",
         NEW n \in rows[t] \cup marked[t]
  PROVE  n \notin rows[u] \cup marked[u]
  <1>1. CASE pc[u] # "send"
    BY <1>1 DEF IInv, RoundOK
  <1>2. CASE pc[u] = "send"
    <2>1. box[t] # box[u] /\ box[t] \in Box /\ box[u] \in Box
      BY <1>2 DEF IInv, WriterOK, TypeOK
    <2>2. RowsOf(box[t]) \cap RowsOf(box[u]) = {}
      BY <2>1 DEF RowsOf, Box
    <2> QED BY <2>2 DEF IInv, RoundOK
  <1> QED BY <1>1, <1>2

\* At most one copy is in the mailbox, and the acknowledged ones are counted.
LEMMA CopiesFacts ==
  ASSUME TypeOK, NEW n \in Notice
  PROVE  /\ Copies(n) \in Nat /\ delivered[n] <= MaxCopies
         /\ Copies(n) = IF n \in pending THEN delivered[n] + 1 ELSE delivered[n]
         /\ Copies(n) <= MaxCopies + 1
  BY BoundsAssumption DEF TypeOK, Copies

\* It holds before the first round.
LEMMA InitIInv == Init => IInv
  BY BoundsAssumption, ThreadAssumption
     DEF Init, IInv, TypeOK, WriterOK, RoundOK, StoredOK, UnmarkedOK, CopyNeedsRollback, Copies, Box, Thread

\* The state is well formed after every step.
LEMMA NextTypeOK == IInv /\ [Next]_vars => TypeOK'
  <1> SUFFICES ASSUME IInv, [Next]_vars PROVE TypeOK'
    OBVIOUS
  <1> USE DEF IInv
  <1>1. ASSUME NEW n \in Notice, Create(n) PROVE TypeOK'
    BY <1>1, BoundsAssumption, ThreadAssumption, NoticeAssumption
       DEF Create, TypeOK, durable, mail, server, counts, history, Box, Stored, Thread,
           Recipient, RowsOf
  <1>2. ASSUME NEW n \in Notice, Expire(n) PROVE TypeOK'
    BY <1>2, BoundsAssumption, ThreadAssumption, NoticeAssumption
       DEF Expire, TypeOK, durable, mail, server, counts, history, Box, Stored, Thread,
           Recipient, RowsOf
  <1>3. ASSUME NEW n \in Notice, Acknowledge(n) PROVE TypeOK'
    BY <1>3, BoundsAssumption, ThreadAssumption, NoticeAssumption
       DEF Acknowledge, TypeOK, durable, mail, server, counts, history
  <1>4. ASSUME NEW t \in Handler, NEW n \in Notice, Confirm(t, n) PROVE TypeOK'
    BY <1>4, BoundsAssumption, ThreadAssumption, NoticeAssumption
       DEF Confirm, TypeOK, durable, mail, server, counts, history, Box, Stored, Thread,
           Recipient, RowsOf
  <1>5. ASSUME RecordPermanentClosure PROVE TypeOK'
    BY <1>5, BoundsAssumption, ThreadAssumption, NoticeAssumption
       DEF RecordPermanentClosure, TypeOK, durable, mail, server, counts, history, Box,
           Stored, Thread, Recipient, RowsOf
  <1>6. ASSUME Wake PROVE TypeOK'
    BY <1>6, BoundsAssumption, ThreadAssumption, NoticeAssumption
       DEF Wake, TypeOK, durable, mail, server, counts, history, Box, Stored, Thread,
           Recipient, RowsOf
  <1>7. ASSUME NEW t \in Thread, Begin(t) PROVE TypeOK'
    BY <1>7, BoundsAssumption, ThreadAssumption, NoticeAssumption
       DEF Begin, TypeOK, durable, mail, server, counts, history, Box, Stored, Thread,
           Recipient, RowsOf
  <1>8. ASSUME NEW t \in Thread, Commit(t) PROVE TypeOK'
    BY <1>8, LeaveFacts DEF Commit, TypeOK, mail, counts, history
  <1>9. ASSUME NEW t \in Thread, NEW n \in Notice, Send(t, n) PROVE TypeOK'
    BY <1>9, BoundsAssumption, ThreadAssumption, NoticeAssumption
       DEF Send, TypeOK, durable, mail, server, counts, history, Box, Stored, Thread,
           Recipient, RowsOf
  <1>10. ASSUME NEW t \in Thread, NEW n \in Notice, SendFails(t, n) PROVE TypeOK'
    <2>1. Leave(t) /\ Undo(marked[t] \cup (pending' \ pending)) /\ pending' \subseteq Notice
      BY <1>10 DEF SendFails, Stored, TypeOK
    <2>2. faults' \in Nat
      BY <1>10 DEF SendFails, Fault, TypeOK
    <2> QED BY <1>10, <2>1, <2>2, LeaveFacts, UndoFacts DEF SendFails, TypeOK, durable
  <1>11. ASSUME NEW t \in Thread, LockTimeout(t) PROVE TypeOK'
    BY <1>11, BoundsAssumption, ThreadAssumption, NoticeAssumption
       DEF LockTimeout, TypeOK, durable, mail, server, counts, history, Box, Stored,
           Thread, Recipient, RowsOf
  <1>12. ASSUME Restart PROVE TypeOK'
    <2>1. undone' \in [Notice -> 0 .. MaxCopies]
      BY <1>12, UndoFacts DEF Restart
    <2> QED BY <1>12, <2>1 DEF Restart, TypeOK, durable, mail, Fault, Box
  <1>13. ASSUME NEW r \in Recipient, Register(r) PROVE TypeOK'
    BY <1>13, BoundsAssumption, ThreadAssumption, NoticeAssumption
       DEF Register, TypeOK, durable, mail, server, counts, history, Box, Stored, Thread,
           Recipient, RowsOf
  <1>14. CASE UNCHANGED vars
    BY <1>14
       DEF vars, durable, mail, server, counts, history, TypeOK, durable, mail, server,
           counts, history
  <1> QED
    BY <1>1, <1>2, <1>3, <1>4, <1>5, <1>6, <1>7, <1>8, <1>9, <1>10, <1>11, <1>12, <1>13,
       <1>14
       DEF Next, Dispatch

\* Whoever sends holds the write lock of its database.
LEMMA NextWriterOK == IInv /\ [Next]_vars => WriterOK'
  <1> SUFFICES ASSUME IInv, [Next]_vars PROVE WriterOK'
    OBVIOUS
  <1> USE DEF IInv
  <1>1. ASSUME NEW n \in Notice, Create(n) PROVE WriterOK'
    BY <1>1, ThreadAssumption DEF Create, WriterOK, TypeOK, server, counts, Thread
  <1>2. ASSUME NEW n \in Notice, Expire(n) PROVE WriterOK'
    BY <1>2, ThreadAssumption DEF Expire, WriterOK, TypeOK, server, counts, Thread
  <1>3. ASSUME NEW n \in Notice, Acknowledge(n) PROVE WriterOK'
    BY <1>3, ThreadAssumption DEF Acknowledge, WriterOK, TypeOK, server, counts, Thread
  <1>4. ASSUME NEW t \in Handler, NEW n \in Notice, Confirm(t, n) PROVE WriterOK'
    BY <1>4, ThreadAssumption DEF Confirm, WriterOK, TypeOK, server, counts, Thread
  <1>5. ASSUME RecordPermanentClosure PROVE WriterOK'
    BY <1>5, ThreadAssumption
       DEF RecordPermanentClosure, WriterOK, TypeOK, server, counts, Thread
  <1>6. ASSUME Wake PROVE WriterOK'
    BY <1>6, ThreadAssumption DEF Wake, WriterOK, TypeOK, server, counts, Thread
  <1>7. ASSUME NEW t \in Thread, Begin(t) PROVE WriterOK'
    BY <1>7, ThreadAssumption DEF Begin, WriterOK, TypeOK, server, counts, Thread
  <1>8. ASSUME NEW t \in Thread, Commit(t) PROVE WriterOK'
    BY <1>8, LeaveFacts DEF Commit, WriterOK, TypeOK
  <1>9. ASSUME NEW t \in Thread, NEW n \in Notice, Send(t, n) PROVE WriterOK'
    BY <1>9, ThreadAssumption DEF Send, WriterOK, TypeOK, server, counts, Thread
  <1>10. ASSUME NEW t \in Thread, NEW n \in Notice, SendFails(t, n) PROVE WriterOK'
    BY <1>10, LeaveFacts DEF SendFails, WriterOK, TypeOK
  <1>11. ASSUME NEW t \in Thread, LockTimeout(t) PROVE WriterOK'
    BY <1>11, ThreadAssumption DEF LockTimeout, WriterOK, TypeOK, server, counts, Thread
  <1>12. ASSUME Restart PROVE WriterOK'
    BY <1>12, ThreadAssumption DEF Restart, WriterOK, TypeOK, server, counts, Thread
  <1>13. ASSUME NEW r \in Recipient, Register(r) PROVE WriterOK'
    BY <1>13, ThreadAssumption DEF Register, WriterOK, TypeOK, server, counts, Thread
  <1>14. CASE UNCHANGED vars
    BY <1>14 DEF vars, durable, mail, server, counts, history, WriterOK
  <1> QED
    BY <1>1, <1>2, <1>3, <1>4, <1>5, <1>6, <1>7, <1>8, <1>9, <1>10, <1>11, <1>12, <1>13,
       <1>14
       DEF Next, Dispatch

\* A transaction keeps to the rows of its outbox.
LEMMA NextRoundOK == IInv /\ [Next]_vars => RoundOK'
  <1> SUFFICES ASSUME IInv, [Next]_vars PROVE RoundOK'
    OBVIOUS
  <1> USE DEF IInv
  <1>1. ASSUME NEW n \in Notice, Create(n) PROVE RoundOK'
    BY <1>1 DEF Create, RoundOK, TypeOK, durable, mail, server, counts, history, Thread
  <1>2. ASSUME NEW n \in Notice, Expire(n) PROVE RoundOK'
    BY <1>2 DEF Expire, RoundOK, TypeOK, durable, mail, server, counts, history, Thread
  <1>3. ASSUME NEW n \in Notice, Acknowledge(n) PROVE RoundOK'
    BY <1>3 DEF Acknowledge, RoundOK, TypeOK, durable, mail, server, counts, history, Thread
  <1>4. ASSUME NEW t \in Handler, NEW n \in Notice, Confirm(t, n) PROVE RoundOK'
    BY <1>4 DEF Confirm, RoundOK, TypeOK, durable, mail, server, counts, history, Thread
  <1>5. ASSUME RecordPermanentClosure PROVE RoundOK'
    BY <1>5
       DEF RecordPermanentClosure, RoundOK, TypeOK, durable, mail, server, counts,
           history, Thread
  <1>6. ASSUME Wake PROVE RoundOK'
    BY <1>6 DEF Wake, RoundOK, TypeOK, durable, mail, server, counts, history, Thread
  <1>7. ASSUME NEW t \in Thread, Begin(t) PROVE RoundOK'
    BY <1>7 DEF Begin, RoundOK, TypeOK, durable, mail, server, counts, history, Thread
  <1>8. ASSUME NEW t \in Thread, Commit(t) PROVE RoundOK'
    <2>1. \A u \in Thread \ {t} : marked[t] \cap (rows[u] \cup marked[u]) = {}
      BY <1>8, OneSender DEF Commit
    <2> QED BY <1>8, <2>1, LeaveFacts DEF Commit, RoundOK
  <1>9. ASSUME NEW t \in Thread, NEW n \in Notice, Send(t, n) PROVE RoundOK'
    <2>1. n \in rows[t] /\ pc[t] = "send" /\ UNCHANGED <<pc, box, dispatched>>
      BY <1>9 DEF Send, Least, durable
    <2>2. rows'[t] = rows[t] \ {n} /\ marked'[t] = marked[t] \cup {n}
      BY <1>9 DEF Send, TypeOK
    <2>3. \A u \in Thread \ {t} : rows'[u] = rows[u] /\ marked'[u] = marked[u]
      BY <1>9 DEF Send, TypeOK
    <2> QED BY <2>1, <2>2, <2>3 DEF RoundOK
  <1>10. ASSUME NEW t \in Thread, NEW n \in Notice, SendFails(t, n) PROVE RoundOK'
    BY <1>10, LeaveFacts DEF SendFails, RoundOK, durable
  <1>11. ASSUME NEW t \in Thread, LockTimeout(t) PROVE RoundOK'
    BY <1>11
       DEF LockTimeout, RoundOK, TypeOK, durable, mail, server, counts, history, Thread
  <1>12. ASSUME Restart PROVE RoundOK'
    BY <1>12 DEF Restart, RoundOK, TypeOK, durable, mail, server, counts, history, Thread
  <1>13. ASSUME NEW r \in Recipient, Register(r) PROVE RoundOK'
    BY <1>13 DEF Register, RoundOK, TypeOK, durable, mail, server, counts, history, Thread
  <1>14. CASE UNCHANGED vars
    BY <1>14
       DEF vars, durable, mail, server, counts, history, RoundOK, durable, mail, server,
           counts, history
  <1> QED
    BY <1>1, <1>2, <1>3, <1>4, <1>5, <1>6, <1>7, <1>8, <1>9, <1>10, <1>11, <1>12, <1>13,
       <1>14
       DEF Next, Dispatch

\* Nothing is marked or dispatched before it was stored.
LEMMA NextStoredOK == IInv /\ [Next]_vars => StoredOK'
  <1> SUFFICES ASSUME IInv, [Next]_vars PROVE StoredOK'
    OBVIOUS
  <1> USE DEF IInv
  <1>1. ASSUME NEW n \in Notice, Create(n) PROVE StoredOK'
    BY <1>1 DEF Create, StoredOK, TypeOK, Stored, durable, mail, server, counts, history
  <1>2. ASSUME NEW n \in Notice, Expire(n) PROVE StoredOK'
    BY <1>2 DEF Expire, StoredOK, TypeOK, Stored, durable, mail, server, counts, history
  <1>3. ASSUME NEW n \in Notice, Acknowledge(n) PROVE StoredOK'
    <2>1. delivered'[n] > 0 /\ \A m \in Notice \ {n} : delivered'[m] = delivered[m]
      BY <1>3 DEF Acknowledge, TypeOK
    <2> QED BY <1>3, <2>1 DEF Acknowledge, StoredOK, durable, server
  <1>4. ASSUME NEW t \in Handler, NEW n \in Notice, Confirm(t, n) PROVE StoredOK'
    BY <1>4 DEF Confirm, StoredOK, TypeOK, Stored, durable, mail, server, counts, history
  <1>5. ASSUME RecordPermanentClosure PROVE StoredOK'
    BY <1>5
       DEF RecordPermanentClosure, StoredOK, TypeOK, Stored, durable, mail, server,
           counts, history
  <1>6. ASSUME Wake PROVE StoredOK'
    BY <1>6 DEF Wake, StoredOK, TypeOK, Stored, durable, mail, server, counts, history
  <1>7. ASSUME NEW t \in Thread, Begin(t) PROVE StoredOK'
    BY <1>7 DEF Begin, StoredOK, TypeOK, Stored, durable, mail, server, counts, history
  <1>8. ASSUME NEW t \in Thread, Commit(t) PROVE StoredOK'
    BY <1>8, LeaveFacts DEF Commit, StoredOK, durable, mail, history, Stored, TypeOK
  <1>9. ASSUME NEW t \in Thread, NEW n \in Notice, Send(t, n) PROVE StoredOK'
    BY <1>9 DEF Send, StoredOK, TypeOK, Stored, durable, mail, server, counts, history
  <1>10. ASSUME NEW t \in Thread, NEW n \in Notice, SendFails(t, n) PROVE StoredOK'
    BY <1>10, LeaveFacts DEF SendFails, StoredOK, durable, mail, history, Stored, TypeOK
  <1>11. ASSUME NEW t \in Thread, LockTimeout(t) PROVE StoredOK'
    BY <1>11
       DEF LockTimeout, StoredOK, TypeOK, Stored, durable, mail, server, counts, history
  <1>12. ASSUME Restart PROVE StoredOK'
    BY <1>12 DEF Restart, StoredOK, TypeOK, Stored, durable, mail, server, counts, history
  <1>13. ASSUME NEW r \in Recipient, Register(r) PROVE StoredOK'
    BY <1>13 DEF Register, StoredOK, TypeOK, Stored, durable, mail, server, counts, history
  <1>14. CASE UNCHANGED vars
    BY <1>14
       DEF vars, durable, mail, server, counts, history, StoredOK, durable, mail, server,
           counts, history
  <1> QED
    BY <1>1, <1>2, <1>3, <1>4, <1>5, <1>6, <1>7, <1>8, <1>9, <1>10, <1>11, <1>12, <1>13,
       <1>14
       DEF Next, Dispatch

\* A notice without a mark has been sent as often as it was rolled back.
LEMMA NextUnmarkedOK == IInv /\ [Next]_vars => UnmarkedOK'
  <1> SUFFICES ASSUME IInv, [Next]_vars PROVE UnmarkedOK'
    OBVIOUS
  <1> USE DEF IInv
  <1>1. ASSUME NEW n \in Notice, Create(n) PROVE UnmarkedOK'
    <2>1. UNCHANGED <<pending, delivered, undone, dispatched, marked>>
      BY <1>1 DEF Create, durable, mail, server, counts, history
    <2> QED BY <2>1 DEF UnmarkedOK, Copies
  <1>2. ASSUME NEW n \in Notice, Expire(n) PROVE UnmarkedOK'
    <2>1. UNCHANGED <<pending, delivered, undone, dispatched, marked>>
      BY <1>2 DEF Expire, durable, mail, server, counts, history
    <2> QED BY <2>1 DEF UnmarkedOK, Copies
  <1>3. ASSUME NEW n \in Notice, Acknowledge(n) PROVE UnmarkedOK'
    <2>1. \A m \in Notice : Copies(m)' = Copies(m)
      BY <1>3 DEF Acknowledge, TypeOK, Copies
    <2> QED BY <1>3, <2>1 DEF Acknowledge, UnmarkedOK, durable, server
  <1>4. ASSUME NEW t \in Handler, NEW n \in Notice, Confirm(t, n) PROVE UnmarkedOK'
    <2>1. UNCHANGED <<pending, delivered, undone, dispatched, marked>>
      BY <1>4 DEF Confirm, durable, mail, server, counts, history
    <2> QED BY <2>1 DEF UnmarkedOK, Copies
  <1>5. ASSUME RecordPermanentClosure PROVE UnmarkedOK'
    <2>1. UNCHANGED <<pending, delivered, undone, dispatched, marked>>
      BY <1>5 DEF RecordPermanentClosure, durable, mail, server, counts, history
    <2> QED BY <2>1 DEF UnmarkedOK, Copies
  <1>6. ASSUME Wake PROVE UnmarkedOK'
    <2>1. UNCHANGED <<pending, delivered, undone, dispatched, marked>>
      BY <1>6 DEF Wake, durable, mail, server, counts, history
    <2> QED BY <2>1 DEF UnmarkedOK, Copies
  <1>7. ASSUME NEW t \in Thread, Begin(t) PROVE UnmarkedOK'
    <2>1. UNCHANGED <<pending, delivered, undone, dispatched, marked>>
      BY <1>7 DEF Begin, durable, mail, server, counts, history
    <2> QED BY <2>1 DEF UnmarkedOK, Copies
  <1>8. ASSUME NEW t \in Thread, Commit(t) PROVE UnmarkedOK'
    <2>1. \A m \in Notice : Copies(m)' = Copies(m)
      BY <1>8 DEF Commit, Copies, mail, history
    <2> QED BY <1>8, <2>1, LeaveFacts DEF Commit, UnmarkedOK, history
  <1>9. ASSUME NEW t \in Thread, NEW n \in Notice, Send(t, n) PROVE UnmarkedOK'
    <2>1. \A m \in Notice \ {n} : Copies(m)' = Copies(m)
      BY <1>9 DEF Send, TypeOK, Copies, Stored, history
    <2>2. n \in marked'[t] /\ \A u \in Thread : marked[u] \subseteq marked'[u]
      BY <1>9 DEF Send, TypeOK
    <2> QED BY <1>9, <2>1, <2>2 DEF Send, UnmarkedOK, durable, history
  <1>10. ASSUME NEW t \in Thread, NEW n \in Notice, SendFails(t, n) PROVE UnmarkedOK'
    <2>1. Leave(t) /\ Undo(marked[t] \cup (pending' \ pending)) /\ UNCHANGED <<dispatched, delivered>>
      BY <1>10 DEF SendFails, durable
    <2>2. pending' = pending \/ pending' = pending \cup {n}
      BY <1>10 DEF SendFails, Stored
    <2> SUFFICES ASSUME NEW m \in Notice, m \notin dispatched, \A u \in Thread : m \notin marked'[u]
                 PROVE  Copies(m)' <= undone'[m] \/ undone'[m] = MaxCopies
      BY <2>1 DEF UnmarkedOK
    <2>3. undone[m] \in Nat /\ undone'[m] \in Nat /\ undone[m] <= undone'[m] /\ undone'[m] <= MaxCopies
            /\ MaxCopies \in Nat
      BY <2>1, UndoFacts, BoundsAssumption DEF TypeOK
    <2>4. CASE m \in marked[t]
      <3>1. Copies(m) <= 1 + undone[m] /\ Copies(m) \in Nat
        BY CopiesFacts DEF CopyNeedsRollback
      <3>2. m \in pending \/ delivered[m] > 0
        BY <2>4 DEF StoredOK
      <3>3. n # m
        BY <1>10, <2>4 DEF SendFails, Least, RoundOK
      <3>4. Copies(m)' = Copies(m)
        BY <2>1, <2>2, <3>3 DEF Copies
      <3>5. undone'[m] = undone[m] + 1 \/ undone'[m] = MaxCopies
        BY <2>1, <2>4, UndoFacts
      <3> QED BY <2>3, <3>1, <3>4, <3>5
    <2>5. CASE m \notin marked[t]
      <3>1. \A u \in Thread : m \notin marked[u]
        BY <2>1, <2>5, LeaveFacts
      <3>2. (Copies(m) <= undone[m] \/ undone[m] = MaxCopies) /\ Copies(m) \in Nat
        BY <3>1, CopiesFacts DEF UnmarkedOK
      <3>3. CASE m \in pending' \ pending
        <4>1. Copies(m)' = Copies(m) + 1
          BY <2>1, <3>3, CopiesFacts DEF Copies
        <4>2. undone'[m] = undone[m] + 1 \/ undone'[m] = MaxCopies
          BY <2>1, <3>3, UndoFacts
        <4> QED BY <2>3, <3>2, <4>1, <4>2
      <3>4. CASE m \notin pending' \ pending
        <4>1. Copies(m)' = Copies(m)
          BY <2>1, <2>2, <3>4 DEF Copies
        <4> QED BY <2>3, <3>2, <4>1
      <3> QED BY <3>3, <3>4
    <2> QED BY <2>4, <2>5
  <1>11. ASSUME NEW t \in Thread, LockTimeout(t) PROVE UnmarkedOK'
    <2>1. UNCHANGED <<pending, delivered, undone, dispatched, marked>>
      BY <1>11 DEF LockTimeout, durable, mail, server, counts, history
    <2> QED BY <2>1 DEF UnmarkedOK, Copies
  <1>12. ASSUME Restart PROVE UnmarkedOK'
    <2>1. Undo(UNION {marked[t] : t \in Thread}) /\ UNCHANGED <<dispatched, delivered, pending>>
      BY <1>12 DEF Restart, durable, mail
    <2>2. \A m \in Notice : Copies(m)' = Copies(m) /\ Copies(m) \in Nat /\ Copies(m) <= 1 + undone[m]
      BY <2>1, CopiesFacts DEF Copies, CopyNeedsRollback
    <2> SUFFICES ASSUME NEW m \in Notice, m \notin dispatched
                 PROVE  Copies(m) <= undone'[m] \/ undone'[m] = MaxCopies
      BY <2>1, <2>2 DEF UnmarkedOK
    <2>3. undone[m] \in Nat /\ undone'[m] \in Nat /\ undone[m] <= undone'[m] /\ undone'[m] <= MaxCopies
            /\ MaxCopies \in Nat
      BY <2>1, UndoFacts, BoundsAssumption DEF TypeOK
    <2>4. CASE \E t \in Thread : m \in marked[t]
      <3>1. undone'[m] = undone[m] + 1 \/ undone'[m] = MaxCopies
        BY <2>1, <2>4, UndoFacts
      <3> QED BY <2>2, <2>3, <3>1
    <2>5. CASE ~ \E t \in Thread : m \in marked[t]
      BY <2>2, <2>3, <2>5 DEF UnmarkedOK
    <2> QED BY <2>4, <2>5
  <1>13. ASSUME NEW r \in Recipient, Register(r) PROVE UnmarkedOK'
    <2>1. UNCHANGED <<pending, delivered, undone, dispatched, marked>>
      BY <1>13 DEF Register, durable, mail, server, counts, history
    <2> QED BY <2>1 DEF UnmarkedOK, Copies
  <1>14. CASE UNCHANGED vars
    BY <1>14
       DEF vars, durable, mail, server, counts, history, UnmarkedOK, Copies, durable,
           mail, server, counts, history
  <1> QED
    BY <1>1, <1>2, <1>3, <1>4, <1>5, <1>6, <1>7, <1>8, <1>9, <1>10, <1>11, <1>12, <1>13,
       <1>14
       DEF Next, Dispatch

\* A further copy is the retry of a rolled back transaction.
LEMMA NextCopyNeedsRollback == IInv /\ [Next]_vars => CopyNeedsRollback'
  <1> SUFFICES ASSUME IInv, [Next]_vars PROVE CopyNeedsRollback'
    OBVIOUS
  <1> USE DEF IInv
  <1>1. ASSUME NEW n \in Notice, Create(n) PROVE CopyNeedsRollback'
    <2>1. UNCHANGED <<pending, delivered, undone>>
      BY <1>1 DEF Create, durable, mail, server, counts, history
    <2> QED BY <2>1 DEF CopyNeedsRollback, Copies
  <1>2. ASSUME NEW n \in Notice, Expire(n) PROVE CopyNeedsRollback'
    <2>1. UNCHANGED <<pending, delivered, undone>>
      BY <1>2 DEF Expire, durable, mail, server, counts, history
    <2> QED BY <2>1 DEF CopyNeedsRollback, Copies
  <1>3. ASSUME NEW n \in Notice, Acknowledge(n) PROVE CopyNeedsRollback'
    <2>1. \A m \in Notice : Copies(m)' = Copies(m)
      BY <1>3 DEF Acknowledge, TypeOK, Copies
    <2> QED BY <1>3, <2>1 DEF Acknowledge, CopyNeedsRollback
  <1>4. ASSUME NEW t \in Handler, NEW n \in Notice, Confirm(t, n) PROVE CopyNeedsRollback'
    <2>1. UNCHANGED <<pending, delivered, undone>>
      BY <1>4 DEF Confirm, durable, mail, server, counts, history
    <2> QED BY <2>1 DEF CopyNeedsRollback, Copies
  <1>5. ASSUME RecordPermanentClosure PROVE CopyNeedsRollback'
    <2>1. UNCHANGED <<pending, delivered, undone>>
      BY <1>5 DEF RecordPermanentClosure, durable, mail, server, counts, history
    <2> QED BY <2>1 DEF CopyNeedsRollback, Copies
  <1>6. ASSUME Wake PROVE CopyNeedsRollback'
    <2>1. UNCHANGED <<pending, delivered, undone>>
      BY <1>6 DEF Wake, durable, mail, server, counts, history
    <2> QED BY <2>1 DEF CopyNeedsRollback, Copies
  <1>7. ASSUME NEW t \in Thread, Begin(t) PROVE CopyNeedsRollback'
    <2>1. UNCHANGED <<pending, delivered, undone>>
      BY <1>7 DEF Begin, durable, mail, server, counts, history
    <2> QED BY <2>1 DEF CopyNeedsRollback, Copies
  <1>8. ASSUME NEW t \in Thread, Commit(t) PROVE CopyNeedsRollback'
    <2>1. UNCHANGED <<pending, delivered, undone>>
      BY <1>8 DEF Commit, durable, mail, server, counts, history
    <2> QED BY <2>1 DEF CopyNeedsRollback, Copies
  <1>9. ASSUME NEW t \in Thread, NEW n \in Notice, Send(t, n) PROVE CopyNeedsRollback'
    <2>1. pending' = pending \cup {n} /\ UNCHANGED <<delivered, undone>>
      BY <1>9 DEF Send, Stored, history
    <2>2. \A m \in Notice \ {n} : Copies(m)' = Copies(m)
      BY <2>1 DEF Copies
    <2>3. n \in rows[t] /\ pc[t] = "send"
      BY <1>9 DEF Send, Least
    <2>4. n \notin dispatched /\ \A u \in Thread : n \notin marked[u]
      BY <2>3, OneSender DEF RoundOK
    <2>5. Copies(n) <= undone[n] \/ undone[n] = MaxCopies
      BY <2>4 DEF UnmarkedOK
    <2>6. Copies(n)' = delivered[n] + 1 /\ delivered[n] <= Copies(n) /\ delivered[n] \in 0 .. MaxCopies
            /\ undone[n] \in Nat /\ Copies(n) \in Nat /\ MaxCopies \in Nat
      BY <2>1, CopiesFacts, BoundsAssumption DEF Copies, TypeOK
    <2>7. Copies(n)' <= 1 + undone[n]
      BY <2>5, <2>6
    <2> QED BY <2>1, <2>2, <2>7 DEF CopyNeedsRollback
  <1>10. ASSUME NEW t \in Thread, NEW n \in Notice, SendFails(t, n) PROVE CopyNeedsRollback'
    <2>1. Undo(marked[t] \cup (pending' \ pending)) /\ UNCHANGED delivered
      BY <1>10 DEF SendFails
    <2>2. pending' = pending \/ pending' = pending \cup {n}
      BY <1>10 DEF SendFails, Stored
    <2> SUFFICES ASSUME NEW m \in Notice PROVE Copies(m)' <= 1 + undone'[m]
      BY DEF CopyNeedsRollback
    <2>3. undone[m] \in Nat /\ undone'[m] \in Nat /\ undone[m] <= undone'[m] /\ MaxCopies \in Nat
      BY <2>1, UndoFacts, BoundsAssumption DEF TypeOK
    <2>4. Copies(m) <= 1 + undone[m] /\ Copies(m) \in Nat
      BY CopiesFacts DEF CopyNeedsRollback
    <2>5. CASE m \in pending' \ pending
      <3>1. Copies(m)' = delivered[m] + 1 /\ Copies(m) = delivered[m] /\ delivered[m] <= MaxCopies
              /\ delivered[m] \in Nat
        BY <2>1, <2>5, CopiesFacts DEF Copies, TypeOK
      <3>2. undone'[m] = undone[m] + 1 \/ undone'[m] = MaxCopies
        BY <2>1, <2>5, UndoFacts
      <3> QED BY <2>3, <2>4, <3>1, <3>2
    <2>6. CASE m \notin pending' \ pending
      <3>1. Copies(m)' = Copies(m)
        BY <2>1, <2>2, <2>6 DEF Copies
      <3> QED BY <2>3, <2>4, <3>1
    <2> QED BY <2>5, <2>6
  <1>11. ASSUME NEW t \in Thread, LockTimeout(t) PROVE CopyNeedsRollback'
    <2>1. UNCHANGED <<pending, delivered, undone>>
      BY <1>11 DEF LockTimeout, durable, mail, server, counts, history
    <2> QED BY <2>1 DEF CopyNeedsRollback, Copies
  <1>12. ASSUME Restart PROVE CopyNeedsRollback'
    <2>1. Undo(UNION {marked[t] : t \in Thread}) /\ UNCHANGED <<delivered, pending>>
      BY <1>12 DEF Restart, mail
    <2>2. \A m \in Notice : Copies(m)' = Copies(m) /\ Copies(m) \in Nat /\ Copies(m) <= 1 + undone[m]
      BY <2>1, CopiesFacts DEF Copies, CopyNeedsRollback
    <2>3. \A m \in Notice : undone[m] \in Nat /\ undone'[m] \in Nat /\ undone[m] <= undone'[m]
      BY <2>1, UndoFacts, BoundsAssumption DEF TypeOK
    <2> QED BY <2>2, <2>3 DEF CopyNeedsRollback
  <1>13. ASSUME NEW r \in Recipient, Register(r) PROVE CopyNeedsRollback'
    <2>1. UNCHANGED <<pending, delivered, undone>>
      BY <1>13 DEF Register, durable, mail, server, counts, history
    <2> QED BY <2>1 DEF CopyNeedsRollback, Copies
  <1>14. CASE UNCHANGED vars
    BY <1>14
       DEF vars, durable, mail, server, counts, history, CopyNeedsRollback, Copies,
           durable, mail, server, counts, history
  <1> QED
    BY <1>1, <1>2, <1>3, <1>4, <1>5, <1>6, <1>7, <1>8, <1>9, <1>10, <1>11, <1>12, <1>13,
       <1>14
       DEF Next, Dispatch

------------------------------------------------------------------------------
\* The invariant is inductive, and holds in every reachable state.
LEMMA Inductive == Spec => []IInv
  <1>1. IInv /\ [Next]_vars => IInv'
    BY NextTypeOK, NextWriterOK, NextRoundOK, NextStoredOK, NextUnmarkedOK,
       NextCopyNeedsRollback
       DEF IInv
  <1> QED BY InitIInv, <1>1, PTL DEF Spec

\* The state is always well formed.
THEOREM TypeCorrect == Spec => []TypeOK
  <1>1. IInv => TypeOK
    BY DEF IInv
  <1> QED BY Inductive, <1>1, PTL

\* A notice that is marked as sent has reached its recipient's mailbox, whatever
\* answers were lost and however often the phone server was stopped.
THEOREM NothingForgotten == Spec => []DispatchedWasStored
  <1>1. IInv => DispatchedWasStored
    BY DEF IInv, TypeOK, StoredOK, DispatchedWasStored
  <1> QED BY Inductive, <1>1, PTL

\* No interleaving of the worker and the handlers sends a row twice: a second
\* copy takes a transaction that was rolled back after it had sent the first.
THEOREM CopiesNeedRollbacks == Spec => []CopyNeedsRollback
  <1>1. IInv => CopyNeedsRollback
    BY DEF IInv
  <1> QED BY Inductive, <1>1, PTL
==============================================================================
