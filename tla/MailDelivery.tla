---------------------------- MODULE MailDelivery ----------------------------
(***************************************************************************)
(* One mailbox of the shared mail service and the console that empties it  *)
(* over HTTP: the KD code of tools/patches/dolphin_wc24_mail_receive.patch *)
(* (KDCheckMail, KDReceiveMail, WC24ReceiveList) against send.cgi,         *)
(* check.cgi, receive.cgi and delete.cgi.                                  *)
(*                                                                         *)
(* The service's operations are single steps here, a stop in the middle of *)
(* a claim leaves a smaller batch; MailStore has them file by file, and    *)
(* both implement MailQueue.  The console always asks for the same number  *)
(* of bytes, so that a batch made for it fits when it is replayed; a mail  *)
(* that send.cgi accepts can be too large for that number by itself, and   *)
(* is then passed over by every claim.  A request can be lost, its answer  *)
(* can be lost, and a request the console has given up can still be        *)
(* handled later.                                                          *)
(***************************************************************************)
EXTENDS Naturals, FiniteSets, FiniteSetsExt

CONSTANTS
  Mail,         \* mails, by their bytes
  Key,          \* Key[m]: the digest that names m's file
  Ident,        \* Ident[m]: its Message-ID, From and To
  Sender,       \* Sender[m]: the friend code in its From
  NoIdent,      \* a mail without a Message-ID
  Registration, \* the mails that carry X-Wii-Cmd 80010001
  Limit,        \* mails in a batch
  Size,         \* Size[m]: bytes of m in an answer, line ends and multipart prefix
                \*          included
  MaxSize,      \* the byte budget that the console asks for
  MaxEntries,   \* entries of the console's receive list
  MaxPosts,     \* bound: mails posted to the service
  MaxFaults,    \* bound: faults of the network, the service and the console
  MaxLate       \* bound: abandoned requests waiting to be handled

ASSUME BoundsAssumption ==
  /\ Registration \subseteq Mail
  /\ Limit \in Nat \ {0} /\ MaxEntries \in Nat
  /\ Size \in [Mail -> Nat \ {0}] /\ MaxSize \in Nat
  /\ MaxPosts \in Nat /\ MaxFaults \in Nat /\ MaxLate \in Nat

VARIABLES
  queue, batch,  \* the service: queued mail, outstanding batch
  generation,    \* the marker in accounts.json
  wire,          \* the request or the answer between console and service
  late,          \* requests the console gave up and the service still has
  entries,       \* entries[m]: copies of m in the console's receive list
  known,         \* senders that are in the console's friend list
  savedFlag,     \* the mail flag kept in the console's send list
  phase,         \* what KD does: "idle", "due" (check found a new flag), ...
  pendingFlag,   \* m_pending_mail_flag, lost with the IOS session
  todo,          \* messages of the answer that are still to be imported
  received,      \* messages of the answer that were imported
  posts, faults, \* bounded counts
  unseen,        \* accepted mail that the console has not imported yet
  lost,          \* mail the service let go while it was unseen
  batchNo,       \* how many batches have been acknowledged
  shown,         \* the number of the batch whose answer the console took
  mistaken       \* a delete has acknowledged a batch other than its own

service == <<queue, batch, generation>>
console == <<entries, known, savedFlag, phase, pendingFlag, todo, received>>
network == <<wire, late>>
history == <<unseen, lost, batchNo, shown, mistaken>>
counts  == <<posts, faults>>
vars    == <<service, console, network, history, counts>>

NoFlag  == <<>>        \* m_pending_mail_flag before the first check
NoMail  == <<0, {}>>   \* NO_MAIL_FLAG
NoneOnWire == [op |-> "none"]

Pending == queue \cup batch
Flag    == IF Pending = {} THEN NoMail ELSE <<generation, {Key[m] : m \in Pending}>>
Listed  == {m \in Mail : entries[m] > 0}
Entries == MapThenSumSet(LAMBDA m : entries[m], Mail)

Init ==
  /\ queue = {} /\ batch = {} /\ generation = 0
  /\ wire = NoneOnWire /\ late = {}
  /\ entries = [m \in Mail |-> 0] /\ known = {}
  /\ savedFlag = NoMail /\ phase = "idle" /\ pendingFlag = NoFlag
  /\ todo = {} /\ received = 0
  /\ posts = 0 /\ faults = 0
  /\ unseen = {} /\ lost = {} /\ batchNo = 0 /\ shown = 0 /\ mistaken = FALSE

Fault == faults < MaxFaults /\ faults' = faults + 1

------------------------------------------------------------------------------
(* The service. *)

\* send.cgi: a mail whose key the mailbox holds is answered and not stored.
Post(m) ==
  /\ posts < MaxPosts
  /\ posts' = posts + 1
  /\ IF \E n \in Pending : Key[n] = Key[m]
       THEN UNCHANGED <<service, history>>
       ELSE /\ queue' = queue \cup {m}
            /\ generation' = generation + 1
            /\ unseen' = unseen \cup {m}
            /\ UNCHANGED <<batch, lost, batchNo, shown, mistaken>>
  /\ UNCHANGED <<console, network, faults>>

SizeOf(S) == MapThenSumSet(LAMBDA m : Size[m], S)
Fits(m)   == Size[m] <= MaxSize

\* Mutant: the selection ends with the first mail that does not fit, whatever it has.
IsSelection_EndsAtLarge(S) ==
  S = queue \/ Cardinality(S) = Limit \/ \E m \in queue \ S : SizeOf(S) + Size[m] > MaxSize

\* claim goes through the queue in the order of the digests, which is any order:
\* it passes over mail that does not fit by itself while it has none, and then
\* ends with the limit, or with the first mail that no longer fits.
IsSelection(S) ==
  /\ S = {} => \A m \in queue : ~Fits(m)
  /\ S # {} => \/ S = queue
               \/ Cardinality(S) = Limit
               \/ \E m \in queue \ S : SizeOf(S) + Size[m] > MaxSize

\* claim: the outstanding batch again, or mails of the queue.  short: stopped on
\* the way.
Claim(short) ==
  IF batch # {}
    THEN UNCHANGED service
    ELSE \E S \in SUBSET queue :
           /\ Cardinality(S) <= Limit /\ SizeOf(S) <= MaxSize
           /\ short \/ IsSelection(S)
           /\ batch' = S
           /\ queue' = queue \ S
           /\ UNCHANGED generation

\* delete_claimed with count r.n, sent to acknowledge batch number r.of.
Delete(r) ==
  IF batch # {} /\ r.n = Cardinality(batch)
    THEN /\ batch' = {}
         /\ batchNo' = batchNo + 1
         /\ lost' = lost \cup (batch \cap unseen)
         /\ unseen' = unseen \ batch
         /\ mistaken' = (mistaken \/ r.of # batchNo)
         /\ UNCHANGED <<queue, generation, shown>>
    ELSE UNCHANGED <<service, history>>

\* delete.cgi's answer: an empty mailbox lets any retry succeed.
DeleteAnswer(r) ==
  [op |-> IF batch = {} \/ r.n = Cardinality(batch) THEN "done" ELSE "refused"]

HandleReceive ==
  /\ wire.op = "receive"
  /\ Claim(FALSE)
  /\ wire' = [op |-> "batch", mails |-> batch', of |-> batchNo]
  /\ UNCHANGED <<console, late, history, counts>>

HandleDelete ==
  /\ wire.op = "delete"
  /\ Delete(wire)
  /\ wire' = DeleteAnswer(wire)
  /\ UNCHANGED <<console, late, counts>>

\* The service stops while it handles a request: a claim may be cut short, a
\* committed acknowledgment is finished by the next operation.
StopService ==
  /\ Fault
  /\ \/ wire.op = "receive" /\ Claim(TRUE) /\ UNCHANGED history
     \/ wire.op = "delete" /\ Delete(wire)
  /\ wire' = [op |-> "error"]
  /\ UNCHANGED <<console, late, posts>>

\* A request the console has given up reaches a handler thread after all.
HandleLate(r) ==
  /\ r \in late
  /\ late' = late \ {r}
  /\ \/ r.op = "receive" /\ Claim(FALSE) /\ UNCHANGED history
     \/ r.op = "delete" /\ Delete(r)
  /\ UNCHANGED <<console, wire, counts>>

------------------------------------------------------------------------------
(* The network. *)

\* The request or its answer is lost, and the console's POST fails.
Lose ==
  /\ wire.op \notin {"none", "error"}
  /\ Fault
  /\ wire' = [op |-> "error"]
  /\ UNCHANGED <<service, console, late, history, posts>>

\* The console's POST times out with its request on the way to a handler.
TimeOut ==
  /\ wire.op \in {"receive", "delete"}
  /\ Fault
  /\ Cardinality(late) < MaxLate
  /\ late' = late \cup {wire}
  /\ wire' = [op |-> "error"]
  /\ UNCHANGED <<service, console, history, posts>>

------------------------------------------------------------------------------
(* The console: KD holds m_mail_lock through a whole receive transaction. *)

Checked(newPhase) ==
  /\ pendingFlag' = Flag
  /\ phase' = newPhase
  /\ UNCHANGED <<service, network, entries, known, todo, received, history, counts>>

\* The scheduler's check, after which it receives if the flag is new, ...
KDCheckMail ==
  /\ phase = "idle"
  /\ Checked(IF Flag # savedFlag THEN "due" ELSE "idle")
  /\ UNCHANGED savedFlag

\* ... and a title's, which can come between the two.
CheckMailNow ==
  /\ phase \in {"idle", "due"}
  /\ Checked(phase)
  /\ UNCHANGED savedFlag

\* After a check that found a new flag, or by ReceiveMailNow at any time.
KDReceiveMail ==
  /\ phase \in {"idle", "due"}
  /\ wire' = [op |-> "receive"]
  /\ phase' = "receiving"
  /\ received' = 0
  /\ UNCHANGED <<service, late, entries, known, savedFlag, pendingFlag, todo,
                 history, counts>>

\* Mutant: the checked flag is saved although the mail did not come.
GiveUp_SavesFlag ==
  /\ wire.op \in {"error", "refused"}
  /\ wire' = NoneOnWire
  /\ savedFlag' = IF pendingFlag # NoFlag THEN pendingFlag ELSE savedFlag
  /\ phase' = "idle"
  /\ UNCHANGED <<service, late, entries, known, pendingFlag, todo, received,
                 history, counts>>

\* The POST failed or was refused: nothing is saved, so that the next check
\* differs from the saved flag again.
GiveUp ==
  /\ wire.op \in {"error", "refused"}
  /\ wire' = NoneOnWire
  /\ phase' = "idle"
  /\ UNCHANGED <<service, late, entries, known, savedFlag, pendingFlag, todo,
                 received, history, counts>>

TakeBatch ==
  /\ phase = "receiving" /\ wire.op = "batch"
  /\ wire' = NoneOnWire
  /\ todo' = wire.mails
  /\ shown' = wire.of
  /\ phase' = "importing"
  /\ UNCHANGED <<service, late, entries, known, savedFlag, pendingFlag, received,
                 unseen, lost, batchNo, mistaken, counts>>

\* Mutant: a Message-ID alone does not make a mail known.
SameIdent_None(m) == {}

\* AddMessage: an entry with the same Message-ID, From and To decides.
SameIdent(m) == {n \in Listed : Ident[m] # NoIdent /\ Ident[n] = Ident[m]}
Conflicts(m) == SameIdent(m) \ {m} # {}

Imported(m) ==
  /\ todo' = todo \ {m}
  /\ received' = received + 1
  /\ unseen' = unseen \ {m}
  /\ UNCHANGED <<phase, lost, batchNo, shown, mistaken>>

\* Mutant: a message that was not written down is counted as received.
AddMessage_CountsFailures(m) ==
  /\ phase = "importing" /\ m \in todo
  /\ todo' = todo \ {m} /\ received' = received + 1
  /\ \/ /\ SameIdent(m) = {m}
        /\ unseen' = unseen \ {m} /\ UNCHANGED <<entries, faults>>
     \/ /\ SameIdent(m) = {} /\ Entries < MaxEntries
        /\ entries' = [entries EXCEPT ![m] = @ + 1]
        /\ unseen' = unseen \ {m} /\ UNCHANGED faults
     \/ /\ SameIdent(m) = {} /\ Fault /\ UNCHANGED <<entries, unseen>>
  /\ UNCHANGED <<service, network, known, savedFlag, pendingFlag, posts, phase,
                 lost, batchNo, shown, mistaken>>

AddMessage(m) ==
  /\ phase = "importing" /\ m \in todo
  /\ \/ /\ SameIdent(m) = {m}
        /\ Imported(m) /\ UNCHANGED <<entries, faults>>
     \/ /\ SameIdent(m) = {} /\ Entries < MaxEntries
        /\ entries' = [entries EXCEPT ![m] = @ + 1]
        /\ Imported(m) /\ UNCHANGED faults
     \/ /\ Conflicts(m) \/ (SameIdent(m) = {} /\ Entries = MaxEntries)
        /\ phase' = "idle" /\ todo' = {}
        /\ UNCHANGED <<entries, received, faults, history>>
     \/ /\ SameIdent(m) = {} /\ Fault        \* the index is not persisted
        /\ phase' = "idle" /\ todo' = {}
        /\ UNCHANGED <<entries, received, history>>
  /\ UNCHANGED <<service, network, known, savedFlag, pendingFlag, posts>>

\* ProcessFriendRegistrationMessages: those of known senders leave the list.
Unregistered ==
  [m \in Mail |-> IF m \in Registration /\ Sender[m] \in known THEN 0 ELSE entries[m]]

SaveFlag ==
  /\ savedFlag' = IF pendingFlag # NoFlag THEN pendingFlag ELSE savedFlag
  /\ phase' = "idle"

EndImport ==
  /\ phase = "importing" /\ todo = {}
  /\ entries' = Unregistered
  /\ IF received = 0
       THEN SaveFlag /\ UNCHANGED wire
       ELSE /\ wire' = [op |-> "delete", n |-> received, of |-> shown]
            /\ phase' = "acknowledging"
            /\ UNCHANGED savedFlag
  /\ UNCHANGED <<service, late, known, pendingFlag, todo, received, history, counts>>

Acknowledged ==
  /\ phase = "acknowledging" /\ wire.op = "done"
  /\ wire' = NoneOnWire
  /\ SaveFlag
  /\ UNCHANGED <<service, late, entries, known, pendingFlag, todo, received,
                 history, counts>>

\* The IOS session ends: the request on the wire may still be handled.
RestartConsole ==
  /\ Fault
  /\ phase' = "idle" /\ pendingFlag' = NoFlag /\ todo' = {} /\ received' = 0
  /\ wire' = NoneOnWire
  /\ \/ UNCHANGED late
     \/ /\ wire.op \in {"receive", "delete"} /\ Cardinality(late) < MaxLate
        /\ late' = late \cup {wire}
  /\ UNCHANGED <<service, entries, known, savedFlag, history, posts>>

\* The Wii Menu removes a message, and its user adds a friend.
Discard(m) ==
  /\ entries[m] > 0
  /\ entries' = [entries EXCEPT ![m] = @ - 1]
  /\ UNCHANGED <<service, network, known, savedFlag, phase, pendingFlag, todo,
                 received, history, counts>>

Befriend(m) ==
  /\ m \in Registration /\ Sender[m] \notin known
  /\ known' = known \cup {Sender[m]}
  /\ UNCHANGED <<service, network, entries, savedFlag, phase, pendingFlag, todo,
                 received, history, counts>>

------------------------------------------------------------------------------
Next ==
  \/ HandleReceive \/ HandleDelete \/ StopService
  \/ \E r \in late : HandleLate(r)
  \/ Lose \/ TimeOut
  \/ KDCheckMail \/ CheckMailNow \/ KDReceiveMail \/ GiveUp \/ TakeBatch \/ EndImport \/ Acknowledged
  \/ RestartConsole
  \/ \E m \in Mail : Post(m) \/ AddMessage(m) \/ Discard(m) \/ Befriend(m)

Spec == Init /\ [][Next]_vars

\* KD's scheduler checks every minute and receives when the flag is new, the
\* service handles requests, and the console goes on with an answer.
FairSpec ==
  /\ Spec
  /\ WF_vars(KDCheckMail)
  /\ WF_vars(phase = "due" /\ KDReceiveMail)
  /\ WF_vars(HandleReceive) /\ WF_vars(HandleDelete)
  /\ WF_vars(GiveUp) /\ WF_vars(TakeBatch)
  /\ WF_vars(\E m \in Mail : AddMessage(m))
  /\ WF_vars(EndImport) /\ WF_vars(Acknowledged)

------------------------------------------------------------------------------
(* Properties. *)

\* However often a batch is replayed, a message with a Message-ID is listed
\* once (AddMessage compares the Message-ID, From and To of every entry).
EachIdentOnce ==
  \A m, n \in Listed :
    Ident[m] = Ident[n] /\ Ident[m] # NoIdent => m = n /\ entries[m] = 1

\* The service lets mail go that the console has not imported only by a
\* delete that meets another batch of the same length than the one it was
\* sent for: the protocol's count-only acknowledgment.  Lost answers, stops,
\* refused and replayed transactions alone lose nothing (KDReceiveMail stops
\* at the first message it cannot keep and sends no delete).
LossNeedsMistakenDelete == lost # {} => mistaken

Takeable == {m \in Pending : Fits(m)}

\* While mail that the console can take is pending the mailbox's flag differs from
\* the one it has saved, so that its next check finds it: the flag is saved only
\* when the receive that followed the check has ended well, and mail that arrives
\* or leaves in between has changed the flag.  Mail too large for the budget is
\* not announced like that: when nothing else is pending, the receive ends well
\* with no message at all, and the flag it saves is that mail's own.
FlagNeverHidesMail == Takeable # {} => savedFlag # Flag

\* All mail that the service accepts and that fits into the console's budget is
\* imported, whatever larger mail is queued beside it, if the network fails
\* finitely often, unless the console's list is full or holds a mail with the same
\* identity and other bytes, or a delete met another batch than its own.  Mail
\* that does not fit is accepted by send.cgi and never arrives.
Blocked == Entries = MaxEntries \/ \E m \in Pending : Conflicts(m)
EveryMailArrives ==
  \A m \in Mail : Fits(m) =>
    (m \in unseen ~> m \notin unseen \/ Blocked \/ mistaken)

\* A registration that is sent again does not disturb the console that has
\* already received it ("Give that logical operation a stable key so retries
\* remain idempotent", store_message).
RegistrationRetryIsIdempotent ==
  \A m \in todo \cap Registration : ~Conflicts(m)
==============================================================================
