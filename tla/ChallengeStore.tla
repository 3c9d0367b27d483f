---------------------------- MODULE ChallengeStore ----------------------------
(***************************************************************************)
(* The single-use challenges of jwc24/wii_shop_challenges.py: issue()      *)
(* commits a challenge before it answers, consume() verifies a proof       *)
(* outside the write lock and commits at most one receipt for it.          *)
(*                                                                         *)
(* Several threads or processes share the SQLite database.  What a         *)
(* transaction writes appears when it commits, and only the holder of      *)
(* BEGIN IMMEDIATE writes.  The clock is the system's: it can be set back. *)
(***************************************************************************)
EXTENDS Naturals

CONSTANTS
  Challenge,   \* nonces that the generator can return
  Binding,     \* issuance contexts (device, request shape, trust pin)
  Ttl,         \* lifetimes that callers ask for
  Thread, NoThread,
  None,        \* SQL's NULL, and no row
  Attempts,    \* nonces tried by one issue() (eight in the code)
  MaxClock,    \* bound: the clock
  MaxSetBacks, \* bound: times the clock is set back
  MaxCalls     \* bound: calls of issue() and consume()

ASSUME ThreadAssumption == NoThread \notin Thread
ASSUME TtlAssumption    == Ttl \subseteq Nat \ {0}
ASSUME BoundsAssumption ==
  Attempts \in Nat \ {0} /\ MaxClock \in Nat /\ MaxSetBacks \in Nat /\ MaxCalls \in Nat

VARIABLES
  row,       \* row[c]: the committed row of challenge c, or None
  writer,    \* the thread inside BEGIN IMMEDIATE
  clock, setBacks, calls,
  pc,        \* pc[t]: what thread t does next
  job,       \* job[t]: the call under way
  seen,      \* seen[t]: the row that consume() verified, or None
  draft,     \* draft[t]: the row that the open transaction writes, or None
  answered,  \* challenges that issue() has returned
  receipts   \* receipts[c]: receipts that consume() has returned

database == <<row, writer>>
time     == <<clock, setBacks>>
threads  == <<pc, job, seen, draft>>
history  == <<answered, receipts>>
vars     == <<database, time, threads, calls, history>>

Row     == [binding : Binding, issued : Nat, expires : Nat, consumed : Nat \cup {None}]
Issue   == [op : {"issue"}, binding : Binding, ttl : Ttl, left : 0 .. Attempts,
            challenge : Challenge]
Consume == [op : {"consume"}, binding : Binding, challenge : Challenge, valid : BOOLEAN]
NoJob   == [op |-> "idle"]
Phase   == {"idle", "generate", "insert", "check", "read", "verify", "begin",
            "update", "commit", "return"}

ASSUME NoneAssumption == None \notin Nat /\ None \notin Row

WithNonce(j, c) ==
  [op |-> "issue", binding |-> j.binding, ttl |-> j.ttl, left |-> j.left - 1, challenge |-> c]

ConsumedAt(r, now) ==
  [binding |-> r.binding, issued |-> r.issued, expires |-> r.expires, consumed |-> now]

Init ==
  /\ row = [c \in Challenge |-> None] /\ writer = NoThread
  /\ clock = 0 /\ setBacks = 0 /\ calls = 0
  /\ pc = [t \in Thread |-> "idle"] /\ job = [t \in Thread |-> NoJob]
  /\ seen = [t \in Thread |-> None] /\ draft = [t \in Thread |-> None]
  /\ answered = {} /\ receipts = [c \in Challenge |-> 0]

Go(t, phase) == pc' = [pc EXCEPT ![t] = phase]

\* The call ends; an open transaction is rolled back or has committed.
End(t) ==
  /\ Go(t, "idle")
  /\ job' = [job EXCEPT ![t] = NoJob]
  /\ seen' = [seen EXCEPT ![t] = None]
  /\ draft' = [draft EXCEPT ![t] = None]
  /\ writer' = IF writer = t THEN NoThread ELSE writer

Fresh(r, binding) ==
  /\ r # None
  /\ r.binding = binding
  /\ r.consumed = None
  /\ r.issued <= clock /\ clock < r.expires

------------------------------------------------------------------------------
Call(t) ==
  /\ pc[t] = "idle" /\ calls < MaxCalls /\ calls' = calls + 1
  /\ writer = NoThread             \* _connection checks the schema first
  /\ \/ \E j \in Issue : j.left = Attempts
          /\ job' = [job EXCEPT ![t] = j] /\ Go(t, "generate")
     \/ \E j \in Consume : job' = [job EXCEPT ![t] = j] /\ Go(t, "read")
  /\ UNCHANGED <<database, time, seen, draft, history>>

------------------------------------------------------------------------------
(* issue *)

\* Mutant: the answer goes out before the transaction commits.
Generate_Answers(t) ==
  /\ pc[t] = "generate" /\ writer = NoThread
  /\ \E c \in Challenge :
       /\ job' = [job EXCEPT ![t] = WithNonce(job[t], c)]
       /\ answered' = answered \cup {c}
  /\ writer' = t
  /\ draft' = [draft EXCEPT ![t] = [binding |-> job[t].binding, issued |-> clock,
                                    expires |-> clock + job[t].ttl, consumed |-> None]]
  /\ Go(t, "insert")
  /\ UNCHANGED <<row, time, calls, seen, receipts>>

\* A nonce is generated; the transaction stamps it with the time.
Generate(t) ==
  /\ pc[t] = "generate" /\ writer = NoThread
  /\ \E c \in Challenge : job' = [job EXCEPT ![t] = WithNonce(job[t], c)]
  /\ writer' = t
  /\ draft' = [draft EXCEPT ![t] = [binding |-> job[t].binding, issued |-> clock,
                                    expires |-> clock + job[t].ttl, consumed |-> None]]
  /\ Go(t, "insert")
  /\ UNCHANGED <<row, time, calls, seen, history>>

\* INSERT: a nonce that was ever issued is never replaced; another is tried.
Insert(t) ==
  /\ pc[t] = "insert"
  /\ IF row[job[t].challenge] = None
       THEN /\ row' = [row EXCEPT ![job[t].challenge] = draft[t]]
            /\ writer' = NoThread
            /\ draft' = [draft EXCEPT ![t] = None]
            /\ Go(t, "check")
            /\ UNCHANGED <<job, seen>>
       ELSE /\ UNCHANGED row
            /\ IF job[t].left = 0
                 THEN End(t)
                 ELSE /\ writer' = NoThread
                      /\ draft' = [draft EXCEPT ![t] = None]
                      /\ Go(t, "generate") /\ UNCHANGED <<job, seen>>
  /\ UNCHANGED <<time, calls, history>>

\* The answer, unless the challenge has expired meanwhile.
AnswerIssue(t) ==
  LET r == row[job[t].challenge] IN
  /\ pc[t] = "check"
  /\ answered' = IF r.issued <= clock /\ clock < r.expires
                   THEN answered \cup {job[t].challenge} ELSE answered
  /\ End(t)
  /\ UNCHANGED <<row, time, calls, receipts>>

------------------------------------------------------------------------------
(* consume *)

\* A first look at the row, without a lock.
Read(t) ==
  /\ pc[t] = "read"
  /\ IF Fresh(row[job[t].challenge], job[t].binding)
       THEN /\ seen' = [seen EXCEPT ![t] = row[job[t].challenge]]
            /\ Go(t, "verify") /\ UNCHANGED <<job, draft, writer>>
       ELSE End(t)
  /\ UNCHANGED <<row, time, calls, history>>

\* The cryptography, without a lock: it can take any time.
Verify(t) ==
  /\ pc[t] = "verify"
  /\ IF job[t].valid THEN Go(t, "begin") /\ UNCHANGED <<job, seen, draft, writer>>
                     ELSE End(t)
  /\ UNCHANGED <<row, time, calls, history>>

\* Mutant: a deferred transaction, which takes no lock when it begins.
Begin_Deferred(t) ==
  /\ pc[t] = "begin"
  /\ Go(t, "update")
  /\ UNCHANGED <<database, time, calls, job, seen, draft, history>>

Begin(t) ==
  /\ pc[t] = "begin" /\ writer = NoThread
  /\ writer' = t
  /\ Go(t, "update")
  /\ UNCHANGED <<row, time, calls, job, seen, draft, history>>

\* Mutant: what the first look has found is taken for granted.
Update_NoRecheck(t) ==
  /\ pc[t] = "update"
  /\ draft' = [draft EXCEPT ![t] = ConsumedAt(seen[t], clock)]
  /\ Go(t, "commit") /\ UNCHANGED <<job, seen, writer>>
  /\ UNCHANGED <<row, time, calls, history>>

\* Mutant: the window is not looked at again.
Update_NoWindow(t) ==
  /\ pc[t] = "update"
  /\ IF row[job[t].challenge] = seen[t]
       THEN /\ draft' = [draft EXCEPT ![t] = ConsumedAt(seen[t], clock)]
            /\ Go(t, "commit") /\ UNCHANGED <<job, seen, writer>>
       ELSE End(t)
  /\ UNCHANGED <<row, time, calls, history>>

\* Under the lock the row must be the one verified, and still be fresh.
Update(t) ==
  /\ pc[t] = "update"
  /\ IF Fresh(row[job[t].challenge], job[t].binding) /\ row[job[t].challenge] = seen[t]
       THEN /\ draft' = [draft EXCEPT ![t] = ConsumedAt(seen[t], clock)]
            /\ Go(t, "commit") /\ UNCHANGED <<job, seen, writer>>
       ELSE End(t)
  /\ UNCHANGED <<row, time, calls, history>>

Commit(t) ==
  /\ pc[t] = "commit"
  /\ row' = [row EXCEPT ![job[t].challenge] = draft[t]]
  /\ writer' = NoThread
  /\ Go(t, "return")
  /\ UNCHANGED <<time, calls, job, seen, draft, history>>

ReturnReceipt(t) ==
  /\ pc[t] = "return"
  /\ receipts' = [receipts EXCEPT ![job[t].challenge] = @ + 1]
  /\ End(t)
  /\ UNCHANGED <<row, time, calls, answered>>

------------------------------------------------------------------------------
\* A database error, a busy database after ten seconds, or a stop of the
\* caller's process: nothing of an open transaction remains.
Fail(t) ==
  /\ pc[t] # "idle"
  /\ End(t)
  /\ UNCHANGED <<row, time, calls, history>>

Tick ==
  /\ clock < MaxClock
  /\ clock' = clock + 1
  /\ UNCHANGED <<database, setBacks, threads, calls, history>>

SetBack ==
  /\ clock > 0 /\ setBacks < MaxSetBacks
  /\ clock' = clock - 1 /\ setBacks' = setBacks + 1
  /\ UNCHANGED <<database, threads, calls, history>>

Step(t) ==
  \/ Generate(t) \/ Insert(t) \/ AnswerIssue(t)
  \/ Read(t) \/ Verify(t) \/ Begin(t) \/ Update(t) \/ Commit(t) \/ ReturnReceipt(t)

Next == \/ \E t \in Thread : Call(t) \/ Step(t) \/ Fail(t)
        \/ Tick \/ SetBack

Spec == Init /\ [][Next]_vars

------------------------------------------------------------------------------
(* Properties. *)

\* Well-formed state; only the holder of the write lock has a draft to commit.
TypeOK ==
  /\ row \in [Challenge -> Row \cup {None}]
  /\ writer \in Thread \cup {NoThread}
  /\ clock \in Nat /\ setBacks \in Nat /\ calls \in Nat
  /\ pc \in [Thread -> Phase]
  /\ job \in [Thread -> Issue \cup Consume \cup {NoJob}]
  /\ seen \in [Thread -> Row \cup {None}] /\ draft \in [Thread -> Row \cup {None}]
  /\ answered \subseteq Challenge /\ receipts \in [Challenge -> Nat]
  /\ \A t \in Thread : pc[t] \in {"insert", "update", "commit"} => writer = t

\* A challenge yields one receipt at most, however many valid proofs race and
\* whichever callers stop ("simultaneous valid proofs have one winner").
OneReceipt == \A c \in Challenge : receipts[c] <= 1

\* What a caller was given is in the database: a challenge before its answer,
\* a consumption before its receipt.
AnswersAreDurable ==
  /\ \A c \in answered : row[c] # None
  /\ \A c \in Challenge : receipts[c] > 0 => row[c] # None /\ row[c].consumed # None

\* A challenge is consumed inside its window, whatever time the verification
\* took ("expiry during crypto produces no receipt").
ConsumedInsideWindow ==
  \A c \in Challenge : row[c] # None /\ row[c].consumed # None =>
    row[c].issued <= row[c].consumed /\ row[c].consumed < row[c].expires

\* An issuance is never replaced, "even after expiry or consumption", and a
\* consumption is never undone.
RowsAreKept ==
  [][\A c \in Challenge : row[c] # None =>
       /\ row'[c] # None
       /\ row'[c].binding = row[c].binding
       /\ row'[c].issued = row[c].issued /\ row'[c].expires = row[c].expires
       /\ row[c].consumed # None => row'[c] = row[c]]_vars
==============================================================================
