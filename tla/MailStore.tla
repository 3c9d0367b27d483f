------------------------------ MODULE MailStore ------------------------------
(***************************************************************************)
(* The filesystem-backed mail store of jwc24/mail.py under the threads of  *)
(* jwc24/mail_server.py.                                                   *)
(*                                                                         *)
(* Each mailbox is a directory of <digest>.eml files (queued), of          *)
(* <digest>.sent files (claimed, not yet acknowledged) and at most one     *)
(* acknowledgment.json (the names a committed acknowledgment retires).     *)
(* accounts.json holds the registered accounts and a generation marker     *)
(* for each.  Every operation on them runs under the store's lock, one     *)
(* file operation per step, so that a failed file operation or a stop of   *)
(* the process can come between any two of them.                           *)
(*                                                                         *)
(* A payload that the store refuses is written to a file of its own in     *)
(* rejected/, without the lock.  The sender is told so, unless the payload *)
(* shows one known corruption that no retry can repair: that one is        *)
(* acknowledged as if it had been stored.                                  *)
(***************************************************************************)
EXTENDS Naturals, FiniteSets, FiniteSetsExt

CONSTANTS
  Account,    \* Wii mail IDs, in the order the code sorts them
  Mail,       \* mails, by the digest that names their file, in digest order
  Size,       \* Size[m]: bytes of m in a response, multipart prefix included
  Corrupt,    \* mails whose payload holds a NUL and its sender's ID doubled
  Thread,     \* request handler threads of the HTTP server
  NoThread,   \* the lock is free
  Limit,      \* mails in a batch (ten in the code)
  Budget,     \* the maxsize values that receive requests carry
  MaxSends    \* bound: send requests that ever arrive

ASSUME AccountAssumption  == Account \subseteq Nat /\ IsFiniteSet(Account)
ASSUME MailAssumption     ==
  Mail \subseteq Nat /\ IsFiniteSet(Mail) /\ Corrupt \subseteq Mail
ASSUME SizeAssumption     == Size \in [Mail -> Nat \ {0}] /\ Budget \subseteq Nat
ASSUME ThreadAssumption   == NoThread \notin Thread
ASSUME LimitAssumption    == Limit \in Nat \ {0} /\ MaxSends \in Nat

VARIABLES
  \* Files: they survive a stop of the process.
  registered,  \* the keys of accounts.json
  generation,  \* generation[a]: a's mail_flag in accounts.json (0: NO_MAIL_FLAG)
  eml,         \* eml[a]: names of a's .eml files
  sent,        \* sent[a]: names of a's .sent files
  intent,      \* intent[a]: names in a's acknowledgment.json ({}: no such file)
  rejected,    \* rejected[m]: m's file in rejected/: absent, cut or whole
  \* Process memory.
  lock,        \* the thread that holds MailStore._lock
  pc,          \* pc[t]: what thread t does next
  request,     \* request[t]: the request thread t handles
  todo,        \* todo[t]: recipients a send has still to serve
  picked,      \* picked[t]: .eml files a receive has still to rename
  \* What the outside has seen: read by the properties only.
  sends,       \* send requests so far
  owed,        \* owed[a]: stored mail acknowledged to its sender, not yet by the
               \*          console
  retired,     \* mail acknowledged to its sender that was never stored
  answered,    \* answered[a]: a receive has answered with the .sent files of a
  reported,    \* reported[a]: flags check.cgi has reported to a
  stale        \* stale[a]: those reported before the latest mail was published

boxes    == <<registered, generation, eml, sent, intent>>
disk     == <<boxes, rejected>>
memory   == <<lock, pc, request, todo, picked>>
observer == <<sends, owed, retired, answered, reported, stale>>
vars     == <<disk, memory, observer>>

------------------------------------------------------------------------------
(* Requests, after parsing and authentication. *)

\* rcpt is {} when the payload names no recipient or has a refused size.
SendRequest    == [op : {"send"}, mail : Mail, rcpt : SUBSET Account]
ReceiveRequest == [op : {"receive"}, box : Account, maxsize : Budget]
DeleteRequest  == [op : {"delete"}, box : Account, delnum : 0 .. Limit + 1]
NoRequest      == [op |-> "none"]
Request        == SendRequest \cup ReceiveRequest \cup DeleteRequest \cup {NoRequest}

Quarantining == {"quarantine", "write", "refuse"}
Phase == {"idle", "waiting", "retire", "dedup", "publish", "claim", "rename",
          "answer"} \cup Quarantining

Least(S, x) == x \in S /\ \A y \in S : x <= y

(* What the console is told of a mailbox. *)

Pending(a) == (eml[a] \cup sent[a]) \ intent[a]

\* Mutant: the flag is a function of the queue's content alone.
MailFlag_NoGeneration(a) == <<0, Pending(a)>>

MailFlag(a) == <<generation[a], Pending(a)>>

(* The first entries that fit: entries too large for the whole budget are  *)
(* skipped while nothing is selected, and the selection then stops at the  *)
(* first entry that does not fit, or at the batch limit.                   *)

SizeOf(S) == MapThenSumSet(LAMBDA m : Size[m], S)

\* Mutant: the budget is compared with each mail alone.
IsSelection_EachFits(S, candidates, maxsize) ==
  /\ S = {m \in candidates : Size[m] <= maxsize}
  /\ Cardinality(S) <= Limit

IsSelection(S, candidates, maxsize) ==
  LET left == candidates \ S IN
  /\ S \subseteq candidates
  /\ Cardinality(S) <= Limit
  /\ SizeOf(S) <= maxsize
  /\ \A m \in left :
       \/ Size[m] > maxsize /\ \A s \in S : m < s
       \/ S # {} /\ \A s \in S : s < m
  /\ \A m \in left :
       (S # {} /\ (\A s \in S : s < m) /\ ~ \E n \in left : n < m /\ \A s \in S : s < n)
         => Cardinality(S) = Limit \/ SizeOf(S) + Size[m] > maxsize

------------------------------------------------------------------------------
Init ==
  /\ registered = {}
  /\ generation = [a \in Account |-> 0]
  /\ eml        = [a \in Account |-> {}]
  /\ sent       = [a \in Account |-> {}]
  /\ intent     = [a \in Account |-> {}]
  /\ rejected   = [m \in Mail |-> "absent"]
  /\ lock       = NoThread
  /\ pc         = [t \in Thread |-> "idle"]
  /\ request    = [t \in Thread |-> NoRequest]
  /\ todo       = [t \in Thread |-> {}]
  /\ picked     = [t \in Thread |-> {}]
  /\ sends      = 0
  /\ owed       = [a \in Account |-> {}]
  /\ retired    = {}
  /\ answered   = [a \in Account |-> FALSE]
  /\ reported   = [a \in Account |-> {}]
  /\ stale      = [a \in Account |-> {}]

\* The mailbox thread t works on: a send serves its recipients in order.
At(t, a) ==
  IF request[t].op = "send" THEN Least(todo[t], a) ELSE a = request[t].box

Go(t, phase) == pc' = [pc EXCEPT ![t] = phase]

\* The handler ends: with an answer, a refusal or an exception.
Release(t) ==
  /\ lock'    = IF lock = t THEN NoThread ELSE lock
  /\ pc'      = [pc EXCEPT ![t] = "idle"]
  /\ request' = [request EXCEPT ![t] = NoRequest]
  /\ todo'    = [todo EXCEPT ![t] = {}]
  /\ picked'  = [picked EXCEPT ![t] = {}]

------------------------------------------------------------------------------
(* Operations that read or write one file: one step each. *)

\* account.cgi, and by the same call the mail-config command.
Register(a) ==
  /\ lock = NoThread
  /\ a \notin registered
  /\ registered' = registered \cup {a}
  /\ UNCHANGED <<generation, eml, sent, intent, rejected, memory, observer>>

\* check.cgi reports the mailbox's flag; an empty mailbox has a fixed one.
CheckMail(a) ==
  /\ lock = NoThread
  /\ a \in registered
  /\ Pending(a) # {}
  /\ reported' = [reported EXCEPT ![a] = @ \cup {MailFlag(a)}]
  /\ UNCHANGED <<disk, memory, sends, owed, retired, answered, stale>>

------------------------------------------------------------------------------
(* A handler thread takes a request, then the lock. *)

Arrive(t) ==
  /\ pc[t] = "idle"
  /\ \/ /\ sends < MaxSends
        /\ registered # {}
        /\ \E r \in SendRequest : request' = [request EXCEPT ![t] = r]
        /\ sends' = sends + 1
     \/ /\ \E r \in ReceiveRequest \cup DeleteRequest :
             r.box \in registered /\ request' = [request EXCEPT ![t] = r]
        /\ UNCHANGED sends
  /\ Go(t, "waiting")
  /\ UNCHANGED <<disk, lock, todo, picked, owed, retired, answered, reported, stale>>

\* store_message refuses a payload without recipients before it asks for the
\* lock, and stores nothing when one recipient is unknown.
RefuseSend(t) ==
  /\ pc[t] = "waiting" /\ request[t].op = "send"
  /\ \/ request[t].rcpt = {}
     \/ lock = NoThread /\ ~ (request[t].rcpt \subseteq registered)
  /\ Go(t, "quarantine")
  /\ UNCHANGED <<disk, lock, request, todo, picked, observer>>

EnterSend(t) ==
  /\ pc[t] = "waiting" /\ request[t].op = "send" /\ lock = NoThread
  /\ request[t].rcpt # {} /\ request[t].rcpt \subseteq registered
  /\ lock' = t
  /\ todo' = [todo EXCEPT ![t] = request[t].rcpt]
  /\ Go(t, "retire")
  /\ UNCHANGED <<disk, request, picked, observer>>

\* claim begins by finishing a committed acknowledgment.
EnterReceive(t) ==
  /\ pc[t] = "waiting" /\ request[t].op = "receive" /\ lock = NoThread
  /\ lock' = t
  /\ Go(t, "retire")
  /\ UNCHANGED <<disk, request, todo, picked, observer>>

\* delete_claimed: a committed acknowledgment is finished if the count is its
\* own, ...
ResumeAck(t, a) ==
  /\ intent[a] # {} /\ request[t].delnum = Cardinality(intent[a])
  /\ lock' = t /\ Go(t, "retire")
  /\ UNCHANGED <<disk, request, todo, picked, observer>>

\* ... otherwise the count must be the outstanding batch's, and the write of
\* acknowledgment.json commits the acknowledgment of that batch.
CommitAck(t, a) ==
  /\ intent[a] = {} /\ sent[a] # {}
  /\ request[t].delnum = Cardinality(sent[a])
  /\ intent'   = [intent EXCEPT ![a] = sent[a]]
  /\ owed'     = [owed EXCEPT ![a] = @ \ sent[a]]
  /\ answered' = [answered EXCEPT ![a] = FALSE]
  /\ lock' = t /\ Go(t, "retire")
  /\ UNCHANGED <<registered, generation, eml, sent, rejected, request, todo, picked,
                 sends, retired, reported, stale>>

\* Nothing to acknowledge, or another count.
RefuseAck(t, a) ==
  /\ intent[a] # {} => request[t].delnum # Cardinality(intent[a])
  /\ intent[a] = {} => sent[a] = {} \/ request[t].delnum # Cardinality(sent[a])
  /\ Release(t)
  /\ UNCHANGED <<disk, observer>>

EnterDelete(t, a) ==
  /\ pc[t] = "waiting" /\ lock = NoThread
  /\ request[t].op = "delete" /\ a = request[t].box
  /\ ResumeAck(t, a) \/ CommitAck(t, a) \/ RefuseAck(t, a)

------------------------------------------------------------------------------
(* _complete_ack: unlink the named files one by one, then the intent. *)

UnlinkRetired(t, a) ==
  /\ pc[t] = "retire" /\ At(t, a)
  /\ \E m \in Mail :
       /\ Least(intent[a] \cap sent[a], m)
       /\ sent' = [sent EXCEPT ![a] = @ \ {m}]
  /\ UNCHANGED <<registered, generation, eml, intent, rejected, memory, observer>>

\* Then the caller goes on: a send looks for a duplicate, a receive claims, a
\* delete answers.
EndRetire(t, a) ==
  /\ pc[t] = "retire" /\ At(t, a)
  /\ intent[a] \cap sent[a] = {}
  /\ intent' = [intent EXCEPT ![a] = {}]
  /\ \/ request[t].op = "send"    /\ Go(t, "dedup")
     \/ request[t].op = "receive" /\ Go(t, "claim")
     \/ request[t].op = "delete"  /\ Go(t, "answer")
  /\ UNCHANGED <<registered, generation, eml, sent, rejected, lock, request, todo,
                 picked, observer>>

------------------------------------------------------------------------------
(* store_message, one recipient. *)

\* Mutant: the send is answered when its first recipient is served.
ServedRecipient_First(t, a) ==
  /\ todo' = [todo EXCEPT ![t] = @ \ {a}]
  /\ Go(t, "answer")

ServedRecipient(t, a) ==
  /\ todo' = [todo EXCEPT ![t] = @ \ {a}]
  /\ Go(t, IF todo[t] = {a} THEN "answer" ELSE "retire")

\* Mutant: only queued mail counts as already held.
Duplicate_QueuedOnly(t, a) == request[t].mail \in eml[a]

\* The recipient already holds this mail, queued or outstanding.
Duplicate(t, a) == request[t].mail \in eml[a] \cup sent[a]

SkipDuplicate(t, a) ==
  /\ pc[t] = "dedup" /\ At(t, a)
  /\ Duplicate(t, a)
  /\ ServedRecipient(t, a)
  /\ UNCHANGED <<disk, lock, request, picked, observer>>

\* A marker never used before is committed first ...
AdvanceFlag(t, a) ==
  /\ pc[t] = "dedup" /\ At(t, a)
  /\ ~Duplicate(t, a)
  /\ generation' = [generation EXCEPT ![a] = @ + 1]
  /\ Go(t, "publish")
  /\ UNCHANGED <<registered, eml, sent, intent, rejected, lock, request, todo,
                 picked, observer>>

\* ... and the message file after it.
Publish(t, a) ==
  /\ pc[t] = "publish" /\ At(t, a)
  /\ eml'   = [eml EXCEPT ![a] = @ \cup {request[t].mail}]
  /\ stale' = [stale EXCEPT ![a] = reported[a]]
  /\ ServedRecipient(t, a)
  /\ UNCHANGED <<registered, generation, sent, intent, rejected, lock, request,
                 picked, sends, owed, retired, answered, reported>>

AnswerSend(t) ==
  /\ pc[t] = "answer" /\ request[t].op = "send"
  /\ owed' = [a \in Account |-> IF a \in request[t].rcpt
                                 THEN owed[a] \cup {request[t].mail} ELSE owed[a]]
  /\ Release(t)
  /\ UNCHANGED <<disk, sends, retired, answered, reported, stale>>

------------------------------------------------------------------------------
(* quarantine_rejected, without the lock: another handler can be writing the *)
(* same file.                                                                *)

\* Opening the file empties it ...
OpenRejected(t) ==
  /\ pc[t] = "quarantine"
  /\ rejected' = [rejected EXCEPT ![request[t].mail] = "cut"]
  /\ Go(t, "write")
  /\ UNCHANGED <<boxes, lock, request, todo, picked, observer>>

\* ... and the payload is written into it.
WriteRejected(t) ==
  /\ pc[t] = "write"
  /\ rejected' = [rejected EXCEPT ![request[t].mail] = "whole"]
  /\ Go(t, "refuse")
  /\ UNCHANGED <<boxes, lock, request, todo, picked, observer>>

\* The refusal is answered; the recognised corruption is acknowledged instead.
AnswerRefused(t) ==
  /\ pc[t] = "refuse"
  /\ retired' = retired \cup ({request[t].mail} \cap Corrupt)
  /\ Release(t)
  /\ UNCHANGED <<disk, sends, owed, answered, reported, stale>>

Refusal(t) ==
  RefuseSend(t) \/ OpenRejected(t) \/ WriteRejected(t) \/ AnswerRefused(t)

------------------------------------------------------------------------------
(* claim, after the retirement. *)

\* Mutant: the refusal of a replay leaves the lock held.
Replay_KeepsLock(t, a) ==
  /\ pc[t] = "claim" /\ At(t, a)
  /\ sent[a] # {}
  /\ IF Cardinality(sent[a]) <= Limit /\ SizeOf(sent[a]) <= request[t].maxsize
       THEN Go(t, "rename")
       ELSE Go(t, "answer")
  /\ UNCHANGED <<disk, lock, request, todo, picked, observer>>

\* The outstanding batch is replayed whole, or the request is refused.
Replay(t, a) ==
  /\ pc[t] = "claim" /\ At(t, a)
  /\ sent[a] # {}
  /\ IF Cardinality(sent[a]) <= Limit /\ SizeOf(sent[a]) <= request[t].maxsize
       THEN Go(t, "rename") /\ UNCHANGED <<lock, request, todo, picked>>
       ELSE Release(t)
  /\ UNCHANGED <<disk, observer>>

\* Mutant: an outstanding batch is topped up from the queue.
Select_TopUp(t, a) ==
  /\ pc[t] = "claim" /\ At(t, a)
  /\ \E S \in SUBSET eml[a] :
       /\ IsSelection(S, eml[a], request[t].maxsize)
       /\ picked' = [picked EXCEPT ![t] = S]
  /\ Go(t, "rename")
  /\ UNCHANGED <<disk, lock, request, todo, observer>>

\* With none outstanding a batch is selected from the queue.
Select(t, a) ==
  /\ pc[t] = "claim" /\ At(t, a)
  /\ sent[a] = {}
  /\ \E S \in SUBSET eml[a] :
       /\ IsSelection(S, eml[a], request[t].maxsize)
       /\ picked' = [picked EXCEPT ![t] = S]
  /\ Go(t, "rename")
  /\ UNCHANGED <<disk, lock, request, todo, observer>>

\* The selected files become .sent files one by one.
RenameOne(t, a) ==
  /\ pc[t] = "rename" /\ At(t, a)
  /\ \E m \in Mail :
       /\ Least(picked[t], m)
       /\ picked' = [picked EXCEPT ![t] = @ \ {m}]
       /\ eml'    = [eml EXCEPT ![a] = @ \ {m}]
       /\ sent'   = [sent EXCEPT ![a] = @ \cup {m}]
  /\ UNCHANGED <<registered, generation, intent, rejected, lock, pc, request, todo,
                 observer>>

AnswerReceive(t, a) ==
  /\ pc[t] = "rename" /\ At(t, a)
  /\ picked[t] = {}
  /\ answered' = [answered EXCEPT ![a] = sent[a] # {}]
  /\ Release(t)
  /\ UNCHANGED <<disk, sends, owed, retired, reported, stale>>

AnswerDelete(t) ==
  /\ pc[t] = "answer" /\ request[t].op = "delete"
  /\ Release(t)
  /\ UNCHANGED <<disk, observer>>

------------------------------------------------------------------------------
(* Failures. *)

\* An OSError in a file operation (503), or the client's connection is lost:
\* the handler leaves the lock and the files as they are.
Fail(t) ==
  /\ pc[t] # "idle"
  /\ Release(t)
  /\ UNCHANGED <<disk, observer>>

\* The process stops between two file operations and is started again.
Restart ==
  /\ \E t \in Thread : pc[t] # "idle"
  /\ lock'    = NoThread
  /\ pc'      = [t \in Thread |-> "idle"]
  /\ request' = [t \in Thread |-> NoRequest]
  /\ todo'    = [t \in Thread |-> {}]
  /\ picked'  = [t \in Thread |-> {}]
  /\ UNCHANGED <<disk, observer>>

------------------------------------------------------------------------------
\* A step of a request under way.
Step(t) ==
  \/ EnterSend(t) \/ EnterReceive(t)
  \/ Refusal(t)
  \/ AnswerSend(t) \/ AnswerDelete(t)
  \/ \E a \in Account :
       \/ EnterDelete(t, a)
       \/ UnlinkRetired(t, a) \/ EndRetire(t, a)
       \/ SkipDuplicate(t, a) \/ AdvanceFlag(t, a) \/ Publish(t, a)
       \/ Replay(t, a) \/ Select(t, a) \/ RenameOne(t, a) \/ AnswerReceive(t, a)

Next ==
  \/ \E a \in Account : Register(a) \/ CheckMail(a)
  \/ \E t \in Thread : Arrive(t) \/ Step(t) \/ Fail(t)
  \/ Restart

Spec == Init /\ [][Next]_vars

\* A handler that has the lock goes on: the thread is scheduled.
FairSpec == Spec /\ \A t \in Thread : WF_vars(Step(t))

------------------------------------------------------------------------------
(* Properties. *)

Flag == Nat \X SUBSET Mail

\* Well-formed state: in particular only registered accounts have mail, since
\* a send with an unknown recipient stores nothing at all.
TypeOK ==
  /\ registered \subseteq Account
  /\ generation \in [Account -> Nat]
  /\ eml \in [Account -> SUBSET Mail]
  /\ sent \in [Account -> SUBSET Mail]
  /\ intent \in [Account -> SUBSET Mail]
  /\ rejected \in [Mail -> {"absent", "cut", "whole"}]
  /\ lock \in Thread \cup {NoThread}
  /\ pc \in [Thread -> Phase]
  /\ request \in [Thread -> Request]
  /\ todo \in [Thread -> SUBSET Account]
  /\ picked \in [Thread -> SUBSET Mail]
  /\ sends \in 0 .. MaxSends
  /\ owed \in [Account -> SUBSET Mail] /\ retired \subseteq Mail
  /\ answered \in [Account -> BOOLEAN]
  /\ \A a \in Account : reported[a] \subseteq Flag /\ stale[a] \subseteq Flag
  /\ \A a \in Account \ registered : eml[a] = {} /\ sent[a] = {}

OwedMailIsPending  == \A a \in Account : owed[a] \subseteq Pending(a)
RetiredMailIsKept == \A m \in retired : m \in Corrupt /\ rejected[m] # "absent"

\* No sender is told that its mail is accepted, and so drops it, while the
\* service keeps nothing of it.  Stored mail stays pending in every
\* recipient's mailbox until an acknowledgment of a batch that holds it
\* commits: through stops and failed file operations, half-finished
\* retirements of an earlier copy and half-finished claims (store_message
\* finishes a prior retirement before it looks for a duplicate).  Mail that is
\* acknowledged without being stored shows the recognised corruption, and has
\* been put into rejected/ before ("It is already quarantined above"); that
\* copy is not promised to stay whole, since the same payload, refused again
\* and stopped between opening the file and writing it, cuts it.
AcknowledgedMailIsKept == OwedMailIsPending /\ RetiredMailIsKept

\* A mailbox never holds one mail both queued and outstanding, which would
\* deliver it again after its acknowledgment (store_message's test for both
\* names, claim's rename).
OneCopy == \A a \in Account : eml[a] \cap sent[a] = {}

\* The outstanding batch, a claim cut short and resumed included, can always
\* be replayed: it is within the batch limit and within a byte budget that a
\* console asks for, so claim need never refuse its own batch.
BatchCanBeReplayed ==
  \A a \in Account : sent[a] # {} =>
    /\ Cardinality(sent[a]) <= Limit
    /\ \E b \in Budget : SizeOf(sent[a]) <= b

\* A flag reported before the latest mail was published is never the flag of
\* the mailbox while mail is pending: the console, which downloads only when
\* the flag differs from one it has kept, finds the new mail even when its
\* content is that of mail it has already acknowledged (_advance_flag comes
\* before the file, and its marker is new).
NewMailChangesFlag ==
  \A a \in Account : Pending(a) # {} => MailFlag(a) \notin stale[a]

\* The files implement the abstract mailbox: new mail cannot enter a batch
\* that a console has been shown, a batch is retired whole or not at all,
\* however its unlinks are cut short, and nothing else removes mail.
Queue == INSTANCE MailQueue
  WITH queue  <- eml,
       batch  <- [a \in Account |-> sent[a] \ intent[a]],
       sealed <- answered

ImplementsQueue == Queue!Spec

\* Every operation gives the lock back, whatever retirement it inherits.
LockIsReleased == \A t \in Thread : lock = t ~> lock # t
==============================================================================
