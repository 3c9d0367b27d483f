---------------------------- MODULE NoticeDispatch ----------------------------
(***************************************************************************)
(* The outboxes of jwc24/demae_handoff.py and jwc24/demae_database.py: a   *)
(* notice is written to an SQLite table first and sent to the shared mail  *)
(* service later, by the retry worker of tools/demae_phone_server.py or by *)
(* a handler thread of it, until a transaction that marks it dispatched    *)
(* commits.                                                                *)
(*                                                                         *)
(* The mailboxes are those of MailStore: a notice is stored unless the     *)
(* mailbox holds it, and the console's acknowledgment removes it.          *)
(***************************************************************************)
EXTENDS Naturals, FiniteSets

CONSTANTS
  Notice,      \* notices, numbered in the order of their rows
  Closure,     \* those of the closure outbox; the others are handoffs
  To,          \* To[n]: the recipient of n
  Handler,     \* request handler threads of the phone server
  Worker,      \* its retry worker
  NoThread,    \* the database is not locked
  MaxPosts,    \* bound: confirmation requests
  MaxFaults,   \* bound: lost answers, unavailable mail service, stops
  MaxWaits,    \* bound: waits for the database lock that exceed ten seconds
  MaxCopies    \* bound: acknowledged copies of a notice

ASSUME NoticeAssumption == Notice \subseteq Nat /\ Closure \subseteq Notice
ASSUME ThreadAssumption ==
  Worker \notin Handler /\ NoThread \notin Handler \cup {Worker}
ASSUME BoundsAssumption ==
  MaxPosts \in Nat /\ MaxFaults \in Nat /\ MaxWaits \in Nat /\ MaxCopies \in Nat

Thread    == Handler \cup {Worker}
Box       == {"handoffs", "closures"}
Recipient == {To[n] : n \in Notice}
RowsOf(b) == {n \in Notice : b = IF n \in Closure THEN "closures" ELSE "handoffs"}

VARIABLES
  \* Two databases and the mail service: they survive a stop.
  created,     \* rows: handoffs opened by a phone, notices of a closure
  expired,     \* handoffs older than a day
  confirmed,   \* rows with a notice to be sent
  dispatched,  \* rows marked as sent
  registered,  \* recipients that the mail service knows
  pending,     \* notices in the recipients' mailboxes
  \* The phone server.
  writer,      \* writer[b]: the thread inside BEGIN IMMEDIATE of database b
  pc,          \* pc[t]: "idle", "begin", "send" or "stopped"
  box,         \* box[t]: the outbox that t dispatches
  rows,        \* rows[t]: fetched rows still to be sent
  marked,      \* marked[t]: rows marked in the transaction under way
  \* Counts and history.
  posts, faults, waits,
  delivered,   \* delivered[n]: copies that the console has acknowledged
  undone       \* undone[n]: transactions rolled back after n was sent

durable == <<created, expired, confirmed, dispatched>>
mail    == <<registered, pending>>
server  == <<writer, pc, box, rows, marked>>
counts  == <<posts, faults, waits>>
history == <<delivered, undone>>
vars    == <<durable, mail, server, counts, history>>

Least(S, x) == x \in S /\ \A y \in S : x <= y

Init ==
  /\ created = {} /\ expired = {} /\ confirmed = {} /\ dispatched = {}
  /\ registered = {} /\ pending = {}
  /\ writer = [b \in Box |-> NoThread]
  /\ pc = [t \in Thread |-> "idle"] /\ box = [t \in Thread |-> "handoffs"]
  /\ rows = [t \in Thread |-> {}] /\ marked = [t \in Thread |-> {}]
  /\ posts = 0 /\ faults = 0 /\ waits = 0
  /\ delivered = [n \in Notice |-> 0] /\ undone = [n \in Notice |-> 0]

Fault == faults < MaxFaults /\ faults' = faults + 1

------------------------------------------------------------------------------
(* Rows. *)

\* A phone opens an entry: a handoff that lasts a day.
Create(n) ==
  /\ Least(RowsOf("handoffs") \ created, n)
  /\ writer["handoffs"] = NoThread
  /\ created' = created \cup {n}
  /\ UNCHANGED <<expired, confirmed, dispatched, mail, server, counts, history>>

Expire(n) ==
  /\ n \in created \ (expired \cup Closure)
  /\ expired' = expired \cup {n}
  /\ UNCHANGED <<created, confirmed, dispatched, mail, server, counts, history>>

\* A reviewed closure writes the notices of all followers at once.
RecordPermanentClosure ==
  /\ Closure \ created # {}
  /\ writer["closures"] = NoThread
  /\ created' = created \cup Closure
  /\ confirmed' = confirmed \cup Closure
  /\ UNCHANGED <<expired, dispatched, mail, server, counts, history>>

\* POST /h/<token>: the confirmation commits, whatever becomes of the sending.
Confirm(t, n) ==
  /\ pc[t] = "idle"
  /\ posts < MaxPosts /\ posts' = posts + 1
  /\ n \in created \ (expired \cup Closure)
  /\ writer["handoffs"] = NoThread
  /\ confirmed' = confirmed \cup {n}
  /\ pc' = [pc EXCEPT ![t] = "begin"]
  /\ box' = [box EXCEPT ![t] = "handoffs"]
  /\ UNCHANGED <<created, expired, dispatched, mail, writer, rows, marked,
                 faults, waits, history>>

------------------------------------------------------------------------------
(* dispatch_notices and dispatch_closure_notices. *)

\* The worker's next round: first the handoffs.
Wake ==
  /\ pc[Worker] = "idle"
  /\ pc' = [pc EXCEPT ![Worker] = "begin"]
  /\ box' = [box EXCEPT ![Worker] = "handoffs"]
  /\ UNCHANGED <<durable, mail, writer, rows, marked, counts, history>>

\* Where a thread goes after its outbox: the worker takes the closures too.
Leave(t) ==
  /\ rows' = [rows EXCEPT ![t] = {}]
  /\ marked' = [marked EXCEPT ![t] = {}]
  /\ IF t = Worker /\ box[t] = "handoffs"
       THEN pc' = [pc EXCEPT ![t] = "begin"] /\ box' = [box EXCEPT ![t] = "closures"]
       ELSE pc' = [pc EXCEPT ![t] = "idle"] /\ UNCHANGED box

\* Mutant: rows are fetched before the write lock is taken.
Begin_Deferred(t) ==
  /\ pc[t] = "begin"
  /\ rows' = [rows EXCEPT ![t] = (confirmed \ dispatched) \cap RowsOf(box[t])]
  /\ pc' = [pc EXCEPT ![t] = "send"]
  /\ UNCHANGED <<durable, mail, writer, box, marked, counts, history>>

\* BEGIN IMMEDIATE, and the rows that are still to be sent.
Begin(t) ==
  /\ pc[t] = "begin"
  /\ writer[box[t]] = NoThread
  /\ writer' = [writer EXCEPT ![box[t]] = t]
  /\ rows' = [rows EXCEPT ![t] = (confirmed \ dispatched) \cap RowsOf(box[t])]
  /\ pc' = [pc EXCEPT ![t] = "send"]
  /\ UNCHANGED <<durable, mail, box, marked, counts, history>>

\* sqlite3.OperationalError after ten seconds.  The callers expect ValueError
\* and OSError only: the worker thread ends, a handler drops its connection.
LockTimeout(t) ==
  /\ pc[t] = "begin"
  /\ writer[box[t]] \notin {NoThread, t}
  /\ waits < MaxWaits /\ waits' = waits + 1
  /\ pc' = [pc EXCEPT ![t] = IF t = Worker THEN "stopped" ELSE "idle"]
  /\ UNCHANGED <<durable, mail, writer, box, rows, marked, posts, faults, history>>

\* send.cgi stores a notice that the mailbox does not hold.
Stored(n) == To[n] \in registered /\ pending' = pending \cup {n}

Send(t, n) ==
  /\ pc[t] = "send" /\ Least(rows[t], n)
  /\ Stored(n)
  /\ rows' = [rows EXCEPT ![t] = @ \ {n}]
  /\ marked' = [marked EXCEPT ![t] = @ \cup {n}]
  /\ UNCHANGED <<durable, registered, writer, pc, box, counts, history>>

\* Rollbacks are counted up to MaxCopies.
Undo(S) ==
  undone' = [n \in Notice |-> IF n \in S /\ undone[n] < MaxCopies
                               THEN undone[n] + 1 ELSE undone[n]]

\* Mutant: a round that fails keeps the marks of the rows it has not sent.
SendFails_Marks(t, n) ==
  /\ pc[t] = "send" /\ Least(rows[t], n)
  /\ To[n] \notin registered
  /\ dispatched' = dispatched \cup rows[t]
  /\ writer' = [writer EXCEPT ![box[t]] = NoThread]
  /\ Leave(t)
  /\ UNCHANGED <<created, expired, confirmed, mail, counts, history>>

\* Mutant: a failure ends the worker.
SendFails_StopsWorker(t, n) ==
  /\ pc[t] = "send" /\ Least(rows[t], n)
  /\ \/ To[n] \notin registered /\ UNCHANGED <<pending, faults>>
     \/ Fault /\ UNCHANGED pending
     \/ Fault /\ Stored(n)
  /\ Undo(marked[t] \cup (pending' \ pending))
  /\ writer' = [writer EXCEPT ![box[t]] = NoThread]
  /\ pc' = [pc EXCEPT ![t] = IF t = Worker THEN "stopped" ELSE "idle"]
  /\ rows' = [rows EXCEPT ![t] = {}]
  /\ marked' = [marked EXCEPT ![t] = {}]
  /\ UNCHANGED <<durable, registered, box, posts, waits, delivered>>

\* An unknown recipient, an unavailable service, or an answer that is lost
\* after the notice was stored: the whole transaction is rolled back.
SendFails(t, n) ==
  /\ pc[t] = "send" /\ Least(rows[t], n)
  /\ \/ To[n] \notin registered /\ UNCHANGED <<pending, faults>>
     \/ Fault /\ UNCHANGED pending
     \/ Fault /\ Stored(n)
  /\ Undo(marked[t] \cup (pending' \ pending))
  /\ writer' = [writer EXCEPT ![box[t]] = NoThread]
  /\ Leave(t)
  /\ UNCHANGED <<durable, registered, posts, waits, delivered>>

Commit(t) ==
  /\ pc[t] = "send" /\ rows[t] = {}
  /\ dispatched' = dispatched \cup marked[t]
  /\ writer' = [writer EXCEPT ![box[t]] = NoThread]
  /\ Leave(t)
  /\ UNCHANGED <<created, expired, confirmed, mail, counts, history>>

------------------------------------------------------------------------------
(* Around the phone server. *)

\* The phone server stops and is started again.
Restart ==
  /\ Fault
  /\ Undo(UNION {marked[t] : t \in Thread})
  /\ writer' = [b \in Box |-> NoThread]
  /\ pc' = [t \in Thread |-> "idle"] /\ box' = [t \in Thread |-> "handoffs"]
  /\ rows' = [t \in Thread |-> {}] /\ marked' = [t \in Thread |-> {}]
  /\ UNCHANGED <<durable, mail, posts, waits, delivered>>

Register(r) ==
  /\ r \in Recipient \ registered
  /\ registered' = registered \cup {r}
  /\ UNCHANGED <<durable, pending, server, counts, history>>

\* The console receives a notice and acknowledges it.
Acknowledge(n) ==
  /\ n \in pending /\ delivered[n] < MaxCopies
  /\ pending' = pending \ {n}
  /\ delivered' = [delivered EXCEPT ![n] = @ + 1]
  /\ UNCHANGED <<durable, registered, server, counts, undone>>

------------------------------------------------------------------------------
Dispatch(t) ==
  \/ Begin(t) \/ Commit(t)
  \/ \E n \in Notice : Send(t, n) \/ SendFails(t, n)

Next ==
  \/ \E n \in Notice : Create(n) \/ Expire(n) \/ Acknowledge(n)
  \/ \E t \in Handler, n \in Notice : Confirm(t, n)
  \/ RecordPermanentClosure \/ Wake
  \/ \E t \in Thread : Dispatch(t) \/ LockTimeout(t)
  \/ Restart
  \/ \E r \in Recipient : Register(r)

Spec == Init /\ [][Next]_vars

\* The worker wakes every five seconds and a thread with work goes on.
FairSpec == Spec /\ WF_vars(Wake) /\ \A t \in Thread : WF_vars(Dispatch(t))

------------------------------------------------------------------------------
(* Properties. *)

\* A notice that is marked as sent is in its recipient's mailbox or has been
\* acknowledged by the console, whatever failed before: it is not forgotten.
DispatchedWasStored ==
  \A n \in dispatched : n \in pending \/ delivered[n] > 0

Copies(n) == delivered[n] + IF n \in pending THEN 1 ELSE 0

\* Two dispatchers never send one row each: every further copy that a console
\* gets is the retry of a transaction that was rolled back after its sending.
CopyNeedsRollback == \A n \in Notice : Copies(n) <= 1 + undone[n]

\* A confirmed notice is sent though requests, answers and the server fail
\* ("A retry worker drains the durable confirmed outbox every five seconds",
\* phone_handoff.md), unless a notice to a recipient that the mail service
\* does not know blocks its outbox, or a wait of more than ten seconds for the
\* database has ended the worker.
OutboxDrainsUnlessBlocked ==
  \A n \in Notice : n \in confirmed ~>
    \/ n \in dispatched \/ (pc[Worker] = "stopped" /\ waits > 0)
    \/ \E m \in confirmed \ dispatched : To[m] \notin registered

\* "Delivery retries reuse identical notice bytes, so the shared MailStore
\* digest prevents duplicate messages" (phone_handoff.md, and the comment in
\* dispatch_notices).
RetryDeliversOnce == \A n \in Notice : Copies(n) <= 1
==============================================================================
