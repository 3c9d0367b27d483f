-------------------------- MODULE MailDeliveryProofs --------------------------
(***************************************************************************)
(* Theorems about MailDelivery for any mails, digests, identities, sizes,  *)
(* limits and bounds: whatever is lost, delayed or repeated.               *)
(***************************************************************************)
EXTENDS MailDelivery, FiniteSetTheorems, TLAPS

Keys(S) == {Key[m] : m \in S}
Request == [op : {"receive"}] \cup [op : {"delete"}, n : Nat, of : Nat]
Reply   == [op : {"none", "error", "done", "refused"}]
             \cup [op : {"batch"}, mails : SUBSET Mail, of : Nat]

TypeOK ==
  /\ queue \subseteq Mail /\ IsFiniteSet(queue)
  /\ batch \subseteq Mail /\ IsFiniteSet(batch)
  /\ generation \in Nat
  /\ wire \in Request \cup Reply /\ late \subseteq Request
  /\ entries \in [Mail -> Nat]
  /\ savedFlag \in Nat \X SUBSET Keys(Mail)
  /\ phase \in {"idle", "due", "receiving", "importing", "acknowledging"}
  /\ pendingFlag \in {NoFlag} \cup (Nat \X SUBSET Keys(Mail))
  /\ todo \subseteq Mail /\ received \in Nat
  /\ posts \in Nat /\ faults \in Nat
  /\ unseen \subseteq Mail /\ batchNo \in Nat /\ shown \in Nat /\ mistaken \in BOOLEAN

\* What is on the wire belongs to what KD does.
PhaseOK ==
  /\ phase \in {"idle", "due", "importing"} => wire = NoneOnWire
  /\ phase = "receiving" => wire.op \in {"receive", "batch", "error"} /\ received = 0
  /\ phase = "acknowledging" => /\ wire.op \in {"delete", "done", "refused", "error"}
                                /\ received > 0 /\ todo = {}
                                /\ wire.op = "delete" => wire.n = received /\ wire.of = shown

\* A mailbox holds every digest once, in the queue or in the batch.
KeysOK ==
  /\ \A m, n \in Pending : Key[m] = Key[n] => m = n
  /\ queue \cap batch = {}

\* Nothing names a batch that is still to come.
NumbersOK ==
  /\ shown <= batchNo
  /\ wire.op = "batch" => wire.of <= batchNo
  /\ \A r \in late \cup {wire} : r.op = "delete" => r.of <= batchNo

\* Until it is acknowledged the batch is the one that the console was shown,
\* and what the console has not imported of it is still to be imported.
ShownOK ==
  /\ wire.op = "batch" /\ wire.of = batchNo /\ wire.mails # {} => batch = wire.mails
  /\ phase \in {"importing", "acknowledging"} /\ shown = batchNo /\ (received > 0 \/ todo # {})
       => batch # {} /\ batch \cap unseen \subseteq todo

\* A delete for the outstanding batch follows the import of all of it.
DeletesOK ==
  \A r \in late \cup {wire} :
    r.op = "delete" /\ r.of = batchNo => batch # {} /\ batch \cap unseen = {}

\* A flag of this generation names all pending mail, ...
Covers(flag) == flag[1] = generation => Keys(Pending) \subseteq flag[2]

\* ... and an outdated one names more than that.
Outdated(flag) ==
  flag[1] = generation => Keys(Pending) \subseteq flag[2] /\ Keys(Pending) # flag[2]

\* The flag of the last check: outdated as soon as the batch that was shown
\* after it has been acknowledged, and of a mailbox with nothing that fits if the
\* answer was empty.
CheckedOK ==
  pendingFlag # NoFlag =>
    /\ pendingFlag[1] <= generation
    /\ Covers(pendingFlag)
    /\ wire.op = "batch" /\ wire.of # batchNo => Outdated(pendingFlag)
    /\ phase \in {"importing", "acknowledging"} /\ shown # batchNo => Outdated(pendingFlag)
    /\ phase = "acknowledging" /\ wire.op = "done" => Outdated(pendingFlag)
    /\ \/ wire.op = "batch" /\ wire.mails = {}
       \/ phase = "importing" /\ todo = {} /\ received = 0
       => (pendingFlag[1] = generation => Takeable = {})

\* The saved flag is outdated as long as mail is pending that the console can take.
SavedOK ==
  /\ savedFlag[1] <= generation
  /\ generation = 0 => Pending = {}
  /\ Covers(savedFlag)
  /\ Takeable # {} => Outdated(savedFlag)

IInv ==
  /\ TypeOK /\ PhaseOK /\ KeysOK /\ NumbersOK /\ ShownOK /\ DeletesOK
  /\ CheckedOK /\ SavedOK /\ EachIdentOnce /\ LossNeedsMistakenDelete

------------------------------------------------------------------------------
\* What the parts of a request, an answer and a flag are.
LEMMA WireFacts ==
  ASSUME TypeOK
  PROVE  /\ wire.op = "batch" => wire.mails \subseteq Mail /\ wire.of \in Nat
         /\ wire.op \in {"receive", "delete"} => wire \in Request
         /\ \A r \in late \cup {wire} : r.op = "delete" => r.n \in Nat /\ r.of \in Nat
  BY DEF TypeOK, Request, Reply

\* An empty wire, and the messages that carry nothing, are of their types.
LEMMA NoneFacts ==
  /\ NoneOnWire \in Request \cup Reply /\ NoneOnWire.op = "none"
  /\ [op |-> "error"] \in Request \cup Reply /\ [op |-> "error"].op = "error"
  /\ [op |-> "receive"] \in Request \cup Reply /\ [op |-> "receive"].op = "receive"
  BY DEF NoneOnWire, Request, Reply

\* The flag that a check brings names all pending mail.
LEMMA FlagFacts ==
  ASSUME TypeOK
  PROVE  /\ Flag \in Nat \X SUBSET Keys(Mail) /\ Flag # NoFlag
         /\ Flag[1] <= generation /\ Covers(Flag)
  <1>1. Pending \subseteq Mail
    BY DEF TypeOK, Pending
  <1>2. Keys(Pending) \subseteq Keys(Mail)
    BY <1>1 DEF Keys
  <1>3. CASE Pending = {}
    <2>1. Flag = <<0, {}>> /\ Keys(Pending) = {}
      BY <1>3 DEF Flag, NoMail, Keys
    <2> QED BY <2>1 DEF TypeOK, Covers, NoFlag
  <1>4. CASE Pending # {}
    <2>1. Flag = <<generation, Keys(Pending)>>
      BY <1>4 DEF Flag, Keys
    <2> QED BY <1>2, <2>1 DEF TypeOK, Covers, NoFlag
  <1> QED BY <1>3, <1>4

\* A claim moves queued mail into an empty batch; an empty answer to a claim
\* that was not cut short means that nothing in the mailbox fits.
LEMMA ClaimFacts ==
  ASSUME TypeOK, KeysOK, NEW short \in BOOLEAN, Claim(short)
  PROVE  /\ Pending' = Pending /\ generation' = generation
         /\ queue' \subseteq Mail /\ IsFiniteSet(queue')
         /\ batch' \subseteq Mail /\ IsFiniteSet(batch') /\ queue' \cap batch' = {}
         /\ batch # {} => batch' = batch
         /\ ~short /\ batch' = {} => Takeable = {}
  <1>1. CASE batch # {}
    BY <1>1 DEF Claim, service, Pending, TypeOK, KeysOK
  <1>2. CASE batch = {}
    <2>1. PICK S \in SUBSET queue :
            /\ short \/ IsSelection(S)
            /\ batch' = S /\ queue' = queue \ S /\ generation' = generation
      BY <1>2 DEF Claim
    <2>2. IsFiniteSet(S) /\ IsFiniteSet(queue \ S)
      BY FS_Subset DEF TypeOK
    <2>3. ~short /\ S = {} => Takeable = {}
      BY <1>2, <2>1 DEF IsSelection, Takeable, Pending
    <2> QED BY <1>2, <2>1, <2>2, <2>3 DEF Pending, TypeOK
  <1> QED BY <1>1, <1>2

\* An acknowledgment takes the whole batch or changes nothing.
LEMMA DeleteFacts ==
  ASSUME TypeOK, KeysOK, NEW r, Delete(r)
  PROVE  \/ /\ ~(batch # {} /\ r.n = Cardinality(batch))
            /\ UNCHANGED <<queue, batch, generation, unseen, lost, batchNo, shown>>
            /\ Pending' = Pending
         \/ /\ batch # {} /\ batch' = {} /\ Pending' = queue /\ batchNo' = batchNo + 1
            /\ lost' = lost \cup (batch \cap unseen) /\ unseen' = unseen \ batch
            /\ UNCHANGED <<queue, generation, shown>>
            /\ Keys(Pending') \subseteq Keys(Pending) /\ Keys(Pending') # Keys(Pending)
  <1>1. CASE batch # {} /\ r.n = Cardinality(batch)
    <2>1. /\ batch' = {} /\ batchNo' = batchNo + 1
          /\ lost' = lost \cup (batch \cap unseen) /\ unseen' = unseen \ batch
          /\ UNCHANGED <<queue, generation, shown>>
      BY <1>1 DEF Delete
    <2>3. Pending' = queue
      BY <2>1 DEF Pending
    <2>4. PICK m \in batch : TRUE
      BY <1>1
    <2>5. Key[m] \in Keys(Pending) /\ Key[m] \notin Keys(queue)
      BY <2>4 DEF Keys, Pending, KeysOK
    <2>6. Keys(queue) \subseteq Keys(Pending)
      BY DEF Keys, Pending
    <2> QED BY <1>1, <2>1, <2>3, <2>5, <2>6
  <1>2. CASE ~(batch # {} /\ r.n = Cardinality(batch))
    BY <1>2 DEF Delete, service, history, Pending
  <1> QED BY <1>1, <1>2

\* A delete leaves the mailbox well formed.
LEMMA DeleteTypes ==
  ASSUME TypeOK, NEW r, Delete(r)
  PROVE  /\ queue' \subseteq Mail /\ IsFiniteSet(queue') /\ batch' \subseteq Mail /\ IsFiniteSet(batch')
         /\ unseen' \subseteq Mail /\ batchNo' \in Nat /\ UNCHANGED <<generation, shown>>
  <1>1. CASE batch # {} /\ r.n = Cardinality(batch)
    <2>1. batch' = {} /\ batchNo' = batchNo + 1 /\ unseen' = unseen \ batch
            /\ UNCHANGED <<queue, generation, shown>>
      BY <1>1 DEF Delete
    <2>2. IsFiniteSet(batch')
      BY <2>1, FS_EmptySet
    <2> QED BY <2>1, <2>2 DEF TypeOK
  <1>2. CASE ~(batch # {} /\ r.n = Cardinality(batch))
    BY <1>2 DEF Delete, service, history, TypeOK
  <1> QED BY <1>1, <1>2

\* Whether a delete met its own batch is a yes or a no.
LEMMA MistakenIsBoolean ==
  ASSUME TypeOK, NEW r, Delete(r)
  PROVE  mistaken' \in BOOLEAN
  <1>1. CASE batch # {} /\ r.n = Cardinality(batch)
    <2>1. mistaken' = (mistaken \/ r.of # batchNo)
      BY <1>1, Zenon DEF Delete
    <2> QED BY <2>1, Zenon DEF TypeOK
  <1>2. CASE ~(batch # {} /\ r.n = Cardinality(batch))
    BY <1>2 DEF Delete, history, TypeOK
  <1> QED BY <1>1, <1>2

\* Mail that is accepted is new to the mailbox, and so is the generation.
LEMMA PostFacts ==
  ASSUME TypeOK, KeysOK, NEW m \in Mail, Post(m)
  PROVE  /\ UNCHANGED <<batch, lost, batchNo, shown, mistaken, console, network>>
         /\ \/ UNCHANGED <<queue, generation, unseen>>
            \/ /\ \A n \in Pending : Key[n] # Key[m]
               /\ m \notin batch /\ queue' = queue \cup {m} /\ generation' = generation + 1
               /\ unseen' = unseen \cup {m} /\ Pending' = Pending \cup {m}
  BY DEF Post, service, history, Pending

\* A flag that named all pending mail is outdated by an acknowledgment.
LEMMA DeleteOutdates ==
  ASSUME TypeOK, KeysOK, NEW r, Delete(r), NEW flag, Covers(flag)
  PROVE  /\ flag[1] = generation' => Keys(Pending') \subseteq flag[2]
         /\ batchNo' # batchNo \/ Outdated(flag) =>
              (flag[1] = generation' => Keys(Pending') \subseteq flag[2] /\ Keys(Pending') # flag[2])
  BY DeleteFacts DEF Covers, Outdated, TypeOK

\* At first the mailbox is empty and nothing is on its way.
LEMMA InitIInv == Init => IInv
  <1> SUFFICES ASSUME Init PROVE IInv
    OBVIOUS
  <1>1. TypeOK
    <2>1. NoMail \in Nat \X SUBSET Keys(Mail)
      BY DEF NoMail
    <2>2. NoneOnWire \in Request \cup Reply
      BY NoneFacts
    <2> QED BY <2>1, <2>2, FS_EmptySet DEF Init, TypeOK
  <1>2. Pending = {} /\ Keys(Pending) = {}
    BY DEF Init, Pending, Keys
  <1>3. PhaseOK /\ KeysOK /\ NumbersOK /\ ShownOK /\ DeletesOK /\ CheckedOK
    BY <1>2, NoneFacts
       DEF Init, PhaseOK, KeysOK, NumbersOK, ShownOK, DeletesOK, CheckedOK, NoneOnWire
  <1>4. SavedOK
    BY <1>2 DEF Init, SavedOK, Takeable, Covers, NoMail
  <1>5. EachIdentOnce /\ LossNeedsMistakenDelete
    BY DEF Init, EachIdentOnce, Listed, LossNeedsMistakenDelete
  <1> QED BY <1>1, <1>3, <1>4, <1>5 DEF IInv

\* The state is well formed after every step.
LEMMA NextTypeOK == IInv /\ [Next]_vars => TypeOK'
  <1> SUFFICES ASSUME IInv, [Next]_vars PROVE TypeOK'
    OBVIOUS
  <1> USE DEF IInv
  <1>1. ASSUME HandleReceive PROVE TypeOK'
    <2>1. Claim(FALSE) /\ UNCHANGED <<console, late, history, counts>>
            /\ wire' = [op |-> "batch", mails |-> batch', of |-> batchNo]
      BY <1>1 DEF HandleReceive
    <2>2. wire' \in Reply
      BY <2>1, ClaimFacts DEF Reply, TypeOK
    <2> QED BY <2>1, <2>2, ClaimFacts DEF TypeOK, console, history, counts
  <1>2. ASSUME HandleDelete PROVE TypeOK'
    <2>1. Delete(wire) /\ wire' = DeleteAnswer(wire) /\ UNCHANGED <<console, late, counts>>
      BY <1>2 DEF HandleDelete
    <2>2. wire' \in Reply
      BY <2>1 DEF DeleteAnswer, Reply
    <2>3. mistaken' \in BOOLEAN
      BY <2>1, MistakenIsBoolean
    <2>4. queue' \subseteq Mail /\ IsFiniteSet(queue') /\ batch' \subseteq Mail /\ IsFiniteSet(batch')
          /\ unseen' \subseteq Mail /\ batchNo' \in Nat /\ UNCHANGED <<generation, shown>>
      BY <2>1, DeleteTypes
    <2> QED BY <2>1, <2>2, <2>3, <2>4 DEF TypeOK, console, counts
  <1>3. ASSUME StopService PROVE TypeOK'
    <2>1. wire' = [op |-> "error"] /\ UNCHANGED <<console, late, posts>> /\ faults' \in Nat
      BY <1>3 DEF StopService, Fault, TypeOK
    <2>2. CASE Claim(TRUE) /\ UNCHANGED history
      BY <2>1, <2>2, ClaimFacts, NoneFacts DEF TypeOK, console, history
    <2>3. CASE Delete(wire)
      <3>1. mistaken' \in BOOLEAN
        BY <2>3, MistakenIsBoolean
      <3>2. queue' \subseteq Mail /\ IsFiniteSet(queue') /\ batch' \subseteq Mail /\ IsFiniteSet(batch')
            /\ unseen' \subseteq Mail /\ batchNo' \in Nat /\ UNCHANGED <<generation, shown>>
        BY <2>3, DeleteTypes
      <3> QED BY <2>1, <3>1, <3>2, NoneFacts DEF TypeOK, console
    <2> QED BY <1>3, <2>2, <2>3 DEF StopService
  <1>4. ASSUME NEW r \in late, HandleLate(r) PROVE TypeOK'
    <2>1. late' \subseteq late /\ UNCHANGED <<console, wire, counts>>
      BY <1>4 DEF HandleLate
    <2>2. CASE Claim(FALSE) /\ UNCHANGED history
      BY <2>1, <2>2, ClaimFacts DEF TypeOK, console, history, counts
    <2>3. CASE Delete(r)
      <3>1. mistaken' \in BOOLEAN
        BY <2>3, MistakenIsBoolean
      <3>2. queue' \subseteq Mail /\ IsFiniteSet(queue') /\ batch' \subseteq Mail /\ IsFiniteSet(batch')
            /\ unseen' \subseteq Mail /\ batchNo' \in Nat /\ UNCHANGED <<generation, shown>>
        BY <2>3, DeleteTypes
      <3> QED BY <2>1, <3>1, <3>2 DEF TypeOK, console, counts
    <2> QED BY <1>4, <2>2, <2>3 DEF HandleLate
  <1>5. ASSUME Lose PROVE TypeOK'
    BY <1>5, NoneFacts, WireFacts
       DEF Lose, TypeOK, Fault, SaveFlag, service, console, network, history, counts
  <1>6. ASSUME TimeOut PROVE TypeOK'
    BY <1>6, NoneFacts, WireFacts
       DEF TimeOut, TypeOK, Fault, SaveFlag, service, console, network, history, counts
  <1>7. ASSUME KDCheckMail PROVE TypeOK'
    BY <1>7, FlagFacts DEF KDCheckMail, Checked, TypeOK, service, network, history, counts
  <1>8. ASSUME CheckMailNow PROVE TypeOK'
    BY <1>8, FlagFacts DEF CheckMailNow, Checked, TypeOK, service, network, history, counts
  <1>9. ASSUME KDReceiveMail PROVE TypeOK'
    BY <1>9, NoneFacts, WireFacts
       DEF KDReceiveMail, TypeOK, Fault, SaveFlag, service, console, network, history,
           counts
  <1>10. ASSUME GiveUp PROVE TypeOK'
    BY <1>10, NoneFacts, WireFacts
       DEF GiveUp, TypeOK, Fault, SaveFlag, service, console, network, history, counts
  <1>11. ASSUME TakeBatch PROVE TypeOK'
    BY <1>11, NoneFacts, WireFacts
       DEF TakeBatch, TypeOK, service, console, network, history, counts
  <1>12. ASSUME EndImport PROVE TypeOK'
    <2>1. UNCHANGED <<service, late, known, pendingFlag, todo, received, history, counts>>
            /\ entries' = Unregistered
      BY <1>12 DEF EndImport
    <2>2. entries' \in [Mail -> Nat]
      BY <2>1 DEF Unregistered, TypeOK
    <2>3. wire' \in Request \cup Reply
      BY <1>12 DEF EndImport, TypeOK, Request
    <2>4. savedFlag' \in Nat \X SUBSET Keys(Mail) /\ phase' \in {"idle", "acknowledging"}
      BY <1>12 DEF EndImport, SaveFlag, TypeOK
    <2> QED BY <2>1, <2>2, <2>3, <2>4 DEF TypeOK, service, history, counts
  <1>13. ASSUME Acknowledged PROVE TypeOK'
    BY <1>13, NoneFacts, WireFacts
       DEF Acknowledged, TypeOK, Fault, SaveFlag, service, console, network, history,
           counts
  <1>14. ASSUME RestartConsole PROVE TypeOK'
    BY <1>14, NoneFacts, WireFacts
       DEF RestartConsole, TypeOK, Fault, SaveFlag, service, console, network, history,
           counts
  <1>15. ASSUME NEW m \in Mail, Post(m) PROVE TypeOK'
    <2>1. UNCHANGED <<batch, lost, batchNo, shown, mistaken, console, network>> /\ posts' \in Nat
      BY <1>15, PostFacts DEF Post, TypeOK
    <2>2. UNCHANGED faults
      BY <1>15 DEF Post
    <2>3. queue' \subseteq Mail /\ IsFiniteSet(queue') /\ generation' \in Nat /\ unseen' \subseteq Mail
      BY <1>15, PostFacts, FS_AddElement DEF TypeOK
    <2> QED BY <2>1, <2>2, <2>3 DEF TypeOK, console, network
  <1>16. ASSUME NEW m \in Mail, AddMessage(m) PROVE TypeOK'
    <2>1. UNCHANGED <<service, network, known, savedFlag, pendingFlag, posts>>
      BY <1>16 DEF AddMessage
    <2>2. entries' \in [Mail -> Nat] /\ faults' \in Nat /\ UNCHANGED <<batchNo, shown, mistaken>>
      BY <1>16 DEF AddMessage, Imported, Fault, TypeOK, history
    <2>3. todo' \subseteq Mail /\ received' \in Nat /\ unseen' \subseteq Mail
      BY <1>16 DEF AddMessage, Imported, TypeOK, history
    <2>4. phase' \in {"idle", "importing"}
      BY <1>16 DEF AddMessage, Imported
    <2> QED BY <2>1, <2>2, <2>3, <2>4 DEF TypeOK, service, network
  <1>17. ASSUME NEW m \in Mail, Discard(m) PROVE TypeOK'
    <2>1. entries' \in [Mail -> Nat]
      BY <1>17 DEF Discard, TypeOK
    <2> QED BY <1>17, <2>1 DEF Discard, TypeOK, service, console, network, history, counts
  <1>18. ASSUME NEW m \in Mail, Befriend(m) PROVE TypeOK'
    BY <1>18 DEF Befriend, TypeOK, service, console, network, history, counts
  <1>19. CASE UNCHANGED vars
    BY <1>19
       DEF vars, service, console, network, history, counts, TypeOK, service, console,
           network, history, counts
  <1> QED
    BY <1>1, <1>2, <1>3, <1>4, <1>5, <1>6, <1>7, <1>8, <1>9, <1>10, <1>11, <1>12, <1>13,
       <1>14, <1>15, <1>16, <1>17, <1>18, <1>19
       DEF Next

\* The wire has what the phase expects.
LEMMA NextPhaseOK == IInv /\ [Next]_vars => PhaseOK'
  <1> SUFFICES ASSUME IInv, [Next]_vars PROVE PhaseOK'
    OBVIOUS
  <1> USE DEF IInv
  <1>1. ASSUME HandleReceive PROVE PhaseOK'
    BY <1>1, NoneFacts
       DEF HandleReceive, PhaseOK, TypeOK, Checked, SaveFlag, DeleteAnswer, Delete, Claim,
           NoneOnWire, service, console, network, history, counts
  <1>2. ASSUME HandleDelete PROVE PhaseOK'
    BY <1>2, NoneFacts
       DEF HandleDelete, PhaseOK, TypeOK, Checked, SaveFlag, DeleteAnswer, Delete, Claim,
           NoneOnWire, service, console, network, history, counts
  <1>3. ASSUME StopService PROVE PhaseOK'
    BY <1>3, NoneFacts
       DEF StopService, PhaseOK, TypeOK, Checked, SaveFlag, DeleteAnswer, Delete, Claim,
           NoneOnWire, service, console, network, history, counts
  <1>4. ASSUME NEW r \in late, HandleLate(r) PROVE PhaseOK'
    BY <1>4, NoneFacts
       DEF HandleLate, PhaseOK, TypeOK, Checked, SaveFlag, DeleteAnswer, Delete, Claim,
           NoneOnWire, service, console, network, history, counts
  <1>5. ASSUME Lose PROVE PhaseOK'
    BY <1>5, NoneFacts
       DEF Lose, PhaseOK, TypeOK, Checked, SaveFlag, DeleteAnswer, Delete, Claim,
           NoneOnWire, service, console, network, history, counts
  <1>6. ASSUME TimeOut PROVE PhaseOK'
    BY <1>6, NoneFacts
       DEF TimeOut, PhaseOK, TypeOK, Checked, SaveFlag, DeleteAnswer, Delete, Claim,
           NoneOnWire, service, console, network, history, counts
  <1>7. ASSUME KDCheckMail PROVE PhaseOK'
    BY <1>7, NoneFacts
       DEF KDCheckMail, PhaseOK, TypeOK, Checked, SaveFlag, DeleteAnswer, Delete, Claim,
           NoneOnWire, service, console, network, history, counts
  <1>8. ASSUME CheckMailNow PROVE PhaseOK'
    BY <1>8, NoneFacts
       DEF CheckMailNow, PhaseOK, TypeOK, Checked, SaveFlag, DeleteAnswer, Delete, Claim,
           NoneOnWire, service, console, network, history, counts
  <1>9. ASSUME KDReceiveMail PROVE PhaseOK'
    BY <1>9, NoneFacts
       DEF KDReceiveMail, PhaseOK, TypeOK, Checked, SaveFlag, DeleteAnswer, Delete, Claim,
           NoneOnWire, service, console, network, history, counts
  <1>10. ASSUME GiveUp PROVE PhaseOK'
    BY <1>10, NoneFacts
       DEF GiveUp, PhaseOK, TypeOK, Checked, SaveFlag, DeleteAnswer, Delete, Claim,
           NoneOnWire, service, console, network, history, counts
  <1>11. ASSUME TakeBatch PROVE PhaseOK'
    BY <1>11, NoneFacts
       DEF TakeBatch, PhaseOK, TypeOK, Checked, SaveFlag, DeleteAnswer, Delete, Claim,
           NoneOnWire, service, console, network, history, counts
  <1>12. ASSUME EndImport PROVE PhaseOK'
    BY <1>12, NoneFacts
       DEF EndImport, PhaseOK, TypeOK, Checked, SaveFlag, DeleteAnswer, Delete, Claim,
           NoneOnWire, service, console, network, history, counts
  <1>13. ASSUME Acknowledged PROVE PhaseOK'
    BY <1>13, NoneFacts
       DEF Acknowledged, PhaseOK, TypeOK, Checked, SaveFlag, DeleteAnswer, Delete, Claim,
           NoneOnWire, service, console, network, history, counts
  <1>14. ASSUME RestartConsole PROVE PhaseOK'
    BY <1>14, NoneFacts
       DEF RestartConsole, PhaseOK, TypeOK, Checked, SaveFlag, DeleteAnswer, Delete,
           Claim, NoneOnWire, service, console, network, history, counts
  <1>15. ASSUME NEW m \in Mail, Post(m) PROVE PhaseOK'
    BY <1>15, PostFacts DEF PhaseOK, console, network
  <1>16. ASSUME NEW m \in Mail, AddMessage(m) PROVE PhaseOK'
    BY <1>16 DEF AddMessage, Imported, PhaseOK, NoneOnWire, network
  <1>17. ASSUME NEW m \in Mail, Discard(m) PROVE PhaseOK'
    BY <1>17, NoneFacts
       DEF Discard, PhaseOK, TypeOK, Checked, SaveFlag, DeleteAnswer, Delete, Claim,
           NoneOnWire, service, console, network, history, counts
  <1>18. ASSUME NEW m \in Mail, Befriend(m) PROVE PhaseOK'
    BY <1>18, NoneFacts
       DEF Befriend, PhaseOK, TypeOK, Checked, SaveFlag, DeleteAnswer, Delete, Claim,
           NoneOnWire, service, console, network, history, counts
  <1>19. CASE UNCHANGED vars
    BY <1>19
       DEF vars, service, console, network, history, counts, PhaseOK, service, console,
           network, history, counts
  <1> QED
    BY <1>1, <1>2, <1>3, <1>4, <1>5, <1>6, <1>7, <1>8, <1>9, <1>10, <1>11, <1>12, <1>13,
       <1>14, <1>15, <1>16, <1>17, <1>18, <1>19
       DEF Next

\* A mailbox holds every digest once.
LEMMA NextKeysOK == IInv /\ [Next]_vars => KeysOK'
  <1> SUFFICES ASSUME IInv, [Next]_vars PROVE KeysOK'
    OBVIOUS
  <1> USE DEF IInv
  <1>1. ASSUME HandleReceive PROVE KeysOK'
    BY <1>1, ClaimFacts DEF HandleReceive, KeysOK
  <1>2. ASSUME HandleDelete PROVE KeysOK'
    BY <1>2, DeleteFacts DEF HandleDelete, KeysOK, Pending
  <1>3. ASSUME StopService PROVE KeysOK'
    BY <1>3, ClaimFacts, DeleteFacts DEF StopService, KeysOK, Pending
  <1>4. ASSUME NEW r \in late, HandleLate(r) PROVE KeysOK'
    BY <1>4, ClaimFacts, DeleteFacts DEF HandleLate, KeysOK, Pending
  <1>5. ASSUME Lose PROVE KeysOK'
    BY <1>5 DEF Lose, Checked, KeysOK, Pending, service
  <1>6. ASSUME TimeOut PROVE KeysOK'
    BY <1>6 DEF TimeOut, Checked, KeysOK, Pending, service
  <1>7. ASSUME KDCheckMail PROVE KeysOK'
    BY <1>7 DEF KDCheckMail, Checked, KeysOK, Pending, service
  <1>8. ASSUME CheckMailNow PROVE KeysOK'
    BY <1>8 DEF CheckMailNow, Checked, KeysOK, Pending, service
  <1>9. ASSUME KDReceiveMail PROVE KeysOK'
    BY <1>9 DEF KDReceiveMail, Checked, KeysOK, Pending, service
  <1>10. ASSUME GiveUp PROVE KeysOK'
    BY <1>10 DEF GiveUp, Checked, KeysOK, Pending, service
  <1>11. ASSUME TakeBatch PROVE KeysOK'
    BY <1>11 DEF TakeBatch, Checked, KeysOK, Pending, service
  <1>12. ASSUME EndImport PROVE KeysOK'
    BY <1>12 DEF EndImport, Checked, KeysOK, Pending, service
  <1>13. ASSUME Acknowledged PROVE KeysOK'
    BY <1>13 DEF Acknowledged, Checked, KeysOK, Pending, service
  <1>14. ASSUME RestartConsole PROVE KeysOK'
    BY <1>14 DEF RestartConsole, Checked, KeysOK, Pending, service
  <1>15. ASSUME NEW m \in Mail, Post(m) PROVE KeysOK'
    BY <1>15, PostFacts DEF KeysOK, Pending
  <1>16. ASSUME NEW m \in Mail, AddMessage(m) PROVE KeysOK'
    BY <1>16 DEF AddMessage, Checked, KeysOK, Pending, service
  <1>17. ASSUME NEW m \in Mail, Discard(m) PROVE KeysOK'
    BY <1>17 DEF Discard, Checked, KeysOK, Pending, service
  <1>18. ASSUME NEW m \in Mail, Befriend(m) PROVE KeysOK'
    BY <1>18 DEF Befriend, Checked, KeysOK, Pending, service
  <1>19. CASE UNCHANGED vars
    BY <1>19 DEF vars, service, console, network, history, counts, KeysOK, Pending, service
  <1> QED
    BY <1>1, <1>2, <1>3, <1>4, <1>5, <1>6, <1>7, <1>8, <1>9, <1>10, <1>11, <1>12, <1>13,
       <1>14, <1>15, <1>16, <1>17, <1>18, <1>19
       DEF Next

\* Numbers are those of batches that have been shown.
LEMMA NextNumbersOK == IInv /\ [Next]_vars => NumbersOK'
  <1> SUFFICES ASSUME IInv, [Next]_vars PROVE NumbersOK'
    OBVIOUS
  <1> USE DEF IInv
  <1>1. ASSUME HandleReceive PROVE NumbersOK'
    BY <1>1 DEF HandleReceive, NumbersOK, TypeOK, history
  <1>2. ASSUME HandleDelete PROVE NumbersOK'
    <2>1. batchNo <= batchNo' /\ shown' = shown /\ batchNo \in Nat /\ batchNo' \in Nat
      BY <1>2, DeleteFacts DEF HandleDelete, TypeOK
    <2>2. wire'.op \in {"done", "refused"} /\ late' = late
      BY <1>2 DEF HandleDelete, DeleteAnswer
    <2>3. \A r \in late : r.op = "delete" => r.of \in Nat
      BY WireFacts
    <2> QED BY <2>1, <2>2, <2>3 DEF NumbersOK, TypeOK
  <1>3. ASSUME StopService PROVE NumbersOK'
    <2>1. batchNo <= batchNo' /\ shown' = shown /\ batchNo \in Nat /\ batchNo' \in Nat
      <3>1. CASE UNCHANGED history
        BY <3>1 DEF history, TypeOK
      <3>2. CASE Delete(wire)
        BY <3>2, DeleteFacts DEF TypeOK
      <3> QED BY <1>3, <3>1, <3>2 DEF StopService
    <2>2. wire'.op = "error" /\ late' = late
      BY <1>3 DEF StopService
    <2>3. \A q \in late \cup {wire} : q.op = "delete" => q.of \in Nat
      BY WireFacts
    <2>4. wire.op = "batch" => wire.of \in Nat
      BY WireFacts
    <2> QED BY <2>1, <2>2, <2>3, <2>4 DEF NumbersOK, TypeOK
  <1>4. ASSUME NEW r \in late, HandleLate(r) PROVE NumbersOK'
    <2>1. batchNo <= batchNo' /\ shown' = shown /\ batchNo \in Nat /\ batchNo' \in Nat
      <3>1. CASE UNCHANGED history
        BY <3>1 DEF history, TypeOK
      <3>2. CASE Delete(r)
        BY <3>2, DeleteFacts DEF TypeOK
      <3> QED BY <1>4, <3>1, <3>2 DEF HandleLate
    <2>2. wire' = wire /\ late' \subseteq late
      BY <1>4 DEF HandleLate
    <2>3. \A q \in late \cup {wire} : q.op = "delete" => q.of \in Nat
      BY WireFacts
    <2>4. wire.op = "batch" => wire.of \in Nat
      BY WireFacts
    <2> QED BY <2>1, <2>2, <2>3, <2>4 DEF NumbersOK, TypeOK
  <1>5. ASSUME Lose PROVE NumbersOK'
    BY <1>5, NoneFacts, WireFacts
       DEF Lose, NumbersOK, service, console, network, history, counts
  <1>6. ASSUME TimeOut PROVE NumbersOK'
    BY <1>6, NoneFacts, WireFacts
       DEF TimeOut, NumbersOK, service, console, network, history, counts
  <1>7. ASSUME KDCheckMail PROVE NumbersOK'
    BY <1>7 DEF KDCheckMail, Checked, NumbersOK, service, console, network, history, counts
  <1>8. ASSUME CheckMailNow PROVE NumbersOK'
    BY <1>8 DEF CheckMailNow, Checked, NumbersOK, service, console, network, history, counts
  <1>9. ASSUME KDReceiveMail PROVE NumbersOK'
    BY <1>9, NoneFacts, WireFacts
       DEF KDReceiveMail, NumbersOK, service, console, network, history, counts
  <1>10. ASSUME GiveUp PROVE NumbersOK'
    BY <1>10, NoneFacts, WireFacts
       DEF GiveUp, NumbersOK, service, console, network, history, counts
  <1>11. ASSUME TakeBatch PROVE NumbersOK'
    BY <1>11, NoneFacts, WireFacts
       DEF TakeBatch, NumbersOK, service, console, network, history, counts
  <1>12. ASSUME EndImport PROVE NumbersOK'
    BY <1>12, NoneFacts
       DEF EndImport, NumbersOK, SaveFlag, service, console, network, history, counts
  <1>13. ASSUME Acknowledged PROVE NumbersOK'
    BY <1>13, NoneFacts, WireFacts
       DEF Acknowledged, NumbersOK, service, console, network, history, counts
  <1>14. ASSUME RestartConsole PROVE NumbersOK'
    BY <1>14, NoneFacts, WireFacts
       DEF RestartConsole, NumbersOK, service, console, network, history, counts
  <1>15. ASSUME NEW m \in Mail, Post(m) PROVE NumbersOK'
    BY <1>15, PostFacts DEF NumbersOK, network
  <1>16. ASSUME NEW m \in Mail, AddMessage(m) PROVE NumbersOK'
    BY <1>16 DEF AddMessage, Imported, NumbersOK, network, history
  <1>17. ASSUME NEW m \in Mail, Discard(m) PROVE NumbersOK'
    BY <1>17 DEF Discard, Checked, NumbersOK, service, console, network, history, counts
  <1>18. ASSUME NEW m \in Mail, Befriend(m) PROVE NumbersOK'
    BY <1>18 DEF Befriend, Checked, NumbersOK, service, console, network, history, counts
  <1>19. CASE UNCHANGED vars
    BY <1>19
       DEF vars, service, console, network, history, counts, NumbersOK, service, console,
           network, history, counts
  <1> QED
    BY <1>1, <1>2, <1>3, <1>4, <1>5, <1>6, <1>7, <1>8, <1>9, <1>10, <1>11, <1>12, <1>13,
       <1>14, <1>15, <1>16, <1>17, <1>18, <1>19
       DEF Next

\* The batch that was shown stays until it is acknowledged.
LEMMA NextShownOK == IInv /\ [Next]_vars => ShownOK'
  <1> SUFFICES ASSUME IInv, [Next]_vars PROVE ShownOK'
    OBVIOUS
  <1> USE DEF IInv
  <1>1. ASSUME HandleReceive PROVE ShownOK'
    <2>1. Claim(FALSE) /\ UNCHANGED <<phase, shown, todo, received, batchNo, unseen>>
            /\ wire' = [op |-> "batch", mails |-> batch', of |-> batchNo]
      BY <1>1 DEF HandleReceive, console, history
    <2>2. batch # {} => batch' = batch
      BY <2>1, ClaimFacts
    <2> QED BY <2>1, <2>2 DEF ShownOK
  <1>2. ASSUME HandleDelete PROVE ShownOK'
    <2>1. Delete(wire) /\ UNCHANGED <<phase, shown, todo, received>>
            /\ wire'.op \in {"done", "refused"}
      BY <1>2, DeleteFacts DEF HandleDelete, console, DeleteAnswer
    <2>2. UNCHANGED <<batch, batchNo, unseen>> \/ batchNo' = batchNo + 1
      BY <2>1, DeleteFacts
    <2>3. shown <= batchNo /\ shown \in Nat /\ batchNo \in Nat
      BY DEF NumbersOK, TypeOK
    <2> QED BY <2>1, <2>2, <2>3 DEF ShownOK
  <1>3. ASSUME StopService PROVE ShownOK'
    <2>1. UNCHANGED <<phase, shown, todo, received>> /\ wire'.op = "error"
      <3>1. UNCHANGED shown
        BY <1>3, DeleteFacts DEF StopService, history
      <3> QED BY <1>3, <3>1 DEF StopService, console
    <2>2. shown <= batchNo /\ shown \in Nat /\ batchNo \in Nat
            /\ (wire.op = "batch" => wire.of <= batchNo /\ wire.of \in Nat /\ wire.mails \subseteq Mail)
      BY WireFacts DEF NumbersOK, TypeOK
    <2>3. \/ (batch # {} => batch' = batch) /\ UNCHANGED <<batchNo, unseen>>
          \/ batchNo' = batchNo + 1
      <3>1. CASE Delete(wire)
        BY <3>1, DeleteFacts
      <3>2. CASE UNCHANGED history /\ \E short \in BOOLEAN : Claim(short)
        BY <3>2, ClaimFacts DEF history
      <3> QED BY <1>3, <3>1, <3>2 DEF StopService
    <2> QED BY <2>1, <2>2, <2>3 DEF ShownOK
  <1>4. ASSUME NEW r \in late, HandleLate(r) PROVE ShownOK'
    <2>1. UNCHANGED <<phase, shown, todo, received>> /\ wire' = wire
      <3>1. UNCHANGED shown
        BY <1>4, DeleteFacts DEF HandleLate, history
      <3> QED BY <1>4, <3>1 DEF HandleLate, console
    <2>2. shown <= batchNo /\ shown \in Nat /\ batchNo \in Nat
            /\ (wire.op = "batch" => wire.of <= batchNo /\ wire.of \in Nat /\ wire.mails \subseteq Mail)
      BY WireFacts DEF NumbersOK, TypeOK
    <2>3. \/ (batch # {} => batch' = batch) /\ UNCHANGED <<batchNo, unseen>>
          \/ batchNo' = batchNo + 1
      <3>1. CASE Delete(r)
        BY <3>1, DeleteFacts
      <3>2. CASE UNCHANGED history /\ \E short \in BOOLEAN : Claim(short)
        BY <3>2, ClaimFacts DEF history
      <3> QED BY <1>4, <3>1, <3>2 DEF HandleLate
    <2> QED BY <2>1, <2>2, <2>3 DEF ShownOK
  <1>5. ASSUME Lose PROVE ShownOK'
    BY <1>5, NoneFacts
       DEF Lose, ShownOK, PhaseOK, SaveFlag, NoneOnWire, service, console, network,
           history, counts
  <1>6. ASSUME TimeOut PROVE ShownOK'
    BY <1>6, NoneFacts
       DEF TimeOut, ShownOK, PhaseOK, SaveFlag, NoneOnWire, service, console, network,
           history, counts
  <1>7. ASSUME KDCheckMail PROVE ShownOK'
    BY <1>7 DEF KDCheckMail, Checked, ShownOK, service, console, network, history, counts
  <1>8. ASSUME CheckMailNow PROVE ShownOK'
    BY <1>8 DEF CheckMailNow, Checked, ShownOK, service, console, network, history, counts
  <1>9. ASSUME KDReceiveMail PROVE ShownOK'
    BY <1>9, NoneFacts
       DEF KDReceiveMail, ShownOK, PhaseOK, SaveFlag, NoneOnWire, service, console,
           network, history, counts
  <1>10. ASSUME GiveUp PROVE ShownOK'
    BY <1>10, NoneFacts
       DEF GiveUp, ShownOK, PhaseOK, SaveFlag, NoneOnWire, service, console, network,
           history, counts
  <1>11. ASSUME TakeBatch PROVE ShownOK'
    BY <1>11, NoneFacts DEF TakeBatch, ShownOK, PhaseOK, TypeOK, service
  <1>12. ASSUME EndImport PROVE ShownOK'
    BY <1>12, NoneFacts
       DEF EndImport, ShownOK, SaveFlag, PhaseOK, service, console, network, history,
           counts
  <1>13. ASSUME Acknowledged PROVE ShownOK'
    BY <1>13, NoneFacts
       DEF Acknowledged, ShownOK, PhaseOK, SaveFlag, NoneOnWire, service, console,
           network, history, counts
  <1>14. ASSUME RestartConsole PROVE ShownOK'
    BY <1>14, NoneFacts
       DEF RestartConsole, ShownOK, PhaseOK, SaveFlag, NoneOnWire, service, console,
           network, history, counts
  <1>15. ASSUME NEW m \in Mail, Post(m) PROVE ShownOK'
    BY <1>15, PostFacts DEF ShownOK, console, network
  <1>16. ASSUME NEW m \in Mail, AddMessage(m) PROVE ShownOK'
    <2>1. phase = "importing" /\ m \in todo /\ UNCHANGED <<batch, wire, batchNo, shown>>
      BY <1>16 DEF AddMessage, Imported, service, network, history
    <2>2. \/ phase' = "idle"
          \/ todo' = todo \ {m} /\ unseen' = unseen \ {m}
      BY <1>16 DEF AddMessage, Imported
    <2> QED BY <2>1, <2>2 DEF ShownOK
  <1>17. ASSUME NEW m \in Mail, Discard(m) PROVE ShownOK'
    BY <1>17 DEF Discard, Checked, ShownOK, service, console, network, history, counts
  <1>18. ASSUME NEW m \in Mail, Befriend(m) PROVE ShownOK'
    BY <1>18 DEF Befriend, Checked, ShownOK, service, console, network, history, counts
  <1>19. CASE UNCHANGED vars
    BY <1>19
       DEF vars, service, console, network, history, counts, ShownOK, service, console,
           network, history, counts
  <1> QED
    BY <1>1, <1>2, <1>3, <1>4, <1>5, <1>6, <1>7, <1>8, <1>9, <1>10, <1>11, <1>12, <1>13,
       <1>14, <1>15, <1>16, <1>17, <1>18, <1>19
       DEF Next

\* A delete for the outstanding batch acknowledges imported mail only.
LEMMA NextDeletesOK == IInv /\ [Next]_vars => DeletesOK'
  <1> SUFFICES ASSUME IInv, [Next]_vars PROVE DeletesOK'
    OBVIOUS
  <1> USE DEF IInv
  <1>1. ASSUME HandleReceive PROVE DeletesOK'
    <2>1. Claim(FALSE) /\ UNCHANGED <<late, batchNo, unseen>> /\ wire'.op = "batch"
      BY <1>1 DEF HandleReceive, history
    <2>2. batch # {} => batch' = batch
      BY <2>1, ClaimFacts
    <2> QED BY <2>1, <2>2 DEF DeletesOK
  <1>2. ASSUME HandleDelete PROVE DeletesOK'
    <2>1. \A q \in late' \cup {wire'} : q.op = "delete" => q \in late \cup {wire}
      BY <1>2 DEF HandleDelete, DeleteAnswer
    <2>2. \/ (batch # {} => batch' = batch) /\ UNCHANGED <<batchNo, unseen>>
          \/ batchNo' = batchNo + 1
      <3>1. CASE Delete(wire)
        BY <3>1, DeleteFacts
      <3>2. CASE UNCHANGED history /\ \E short \in BOOLEAN : Claim(short)
        BY <3>2, ClaimFacts DEF history
      <3> QED BY <1>2, <3>1, <3>2 DEF HandleDelete
    <2>3. \A q \in late \cup {wire} : q.op = "delete" => q.of <= batchNo /\ q.of \in Nat /\ batchNo \in Nat
      BY WireFacts DEF NumbersOK, TypeOK
    <2> QED BY <2>1, <2>2, <2>3 DEF DeletesOK
  <1>3. ASSUME StopService PROVE DeletesOK'
    <2>1. \A q \in late' \cup {wire'} : q.op = "delete" => q \in late \cup {wire}
      BY <1>3 DEF StopService, DeleteAnswer
    <2>2. \/ (batch # {} => batch' = batch) /\ UNCHANGED <<batchNo, unseen>>
          \/ batchNo' = batchNo + 1
      <3>1. CASE Delete(wire)
        BY <3>1, DeleteFacts
      <3>2. CASE UNCHANGED history /\ \E short \in BOOLEAN : Claim(short)
        BY <3>2, ClaimFacts DEF history
      <3> QED BY <1>3, <3>1, <3>2 DEF StopService
    <2>3. \A q \in late \cup {wire} : q.op = "delete" => q.of <= batchNo /\ q.of \in Nat /\ batchNo \in Nat
      BY WireFacts DEF NumbersOK, TypeOK
    <2> QED BY <2>1, <2>2, <2>3 DEF DeletesOK
  <1>4. ASSUME NEW r \in late, HandleLate(r) PROVE DeletesOK'
    <2>1. \A q \in late' \cup {wire'} : q.op = "delete" => q \in late \cup {wire}
      BY <1>4 DEF HandleLate, DeleteAnswer
    <2>2. \/ (batch # {} => batch' = batch) /\ UNCHANGED <<batchNo, unseen>>
          \/ batchNo' = batchNo + 1
      <3>1. CASE Delete(r)
        BY <3>1, DeleteFacts
      <3>2. CASE UNCHANGED history /\ \E short \in BOOLEAN : Claim(short)
        BY <3>2, ClaimFacts DEF history
      <3> QED BY <1>4, <3>1, <3>2 DEF HandleLate
    <2>3. \A q \in late \cup {wire} : q.op = "delete" => q.of <= batchNo /\ q.of \in Nat /\ batchNo \in Nat
      BY WireFacts DEF NumbersOK, TypeOK
    <2> QED BY <2>1, <2>2, <2>3 DEF DeletesOK
  <1>5. ASSUME Lose PROVE DeletesOK'
    <2>1. \A q \in late' \cup {wire'} : q.op = "delete" => q \in late \cup {wire}
      BY <1>5, NoneFacts DEF Lose, service, console, network, history, counts
    <2>2. UNCHANGED <<batch, unseen, batchNo>>
      BY <1>5 DEF Lose, service, console, network, history, counts
    <2> QED BY <2>1, <2>2 DEF DeletesOK
  <1>6. ASSUME TimeOut PROVE DeletesOK'
    <2>1. \A q \in late' \cup {wire'} : q.op = "delete" => q \in late \cup {wire}
      BY <1>6, NoneFacts DEF TimeOut, service, console, network, history, counts
    <2>2. UNCHANGED <<batch, unseen, batchNo>>
      BY <1>6 DEF TimeOut, service, console, network, history, counts
    <2> QED BY <2>1, <2>2 DEF DeletesOK
  <1>7. ASSUME KDCheckMail PROVE DeletesOK'
    BY <1>7 DEF KDCheckMail, Checked, DeletesOK, service, console, network, history, counts
  <1>8. ASSUME CheckMailNow PROVE DeletesOK'
    BY <1>8 DEF CheckMailNow, Checked, DeletesOK, service, console, network, history, counts
  <1>9. ASSUME KDReceiveMail PROVE DeletesOK'
    <2>1. \A q \in late' \cup {wire'} : q.op = "delete" => q \in late \cup {wire}
      BY <1>9, NoneFacts DEF KDReceiveMail, service, console, network, history, counts
    <2>2. UNCHANGED <<batch, unseen, batchNo>>
      BY <1>9 DEF KDReceiveMail, service, console, network, history, counts
    <2> QED BY <2>1, <2>2 DEF DeletesOK
  <1>10. ASSUME GiveUp PROVE DeletesOK'
    <2>1. \A q \in late' \cup {wire'} : q.op = "delete" => q \in late \cup {wire}
      BY <1>10, NoneFacts DEF GiveUp, service, console, network, history, counts
    <2>2. UNCHANGED <<batch, unseen, batchNo>>
      BY <1>10 DEF GiveUp, service, console, network, history, counts
    <2> QED BY <2>1, <2>2 DEF DeletesOK
  <1>11. ASSUME TakeBatch PROVE DeletesOK'
    <2>1. \A q \in late' \cup {wire'} : q.op = "delete" => q \in late \cup {wire}
      BY <1>11, NoneFacts DEF TakeBatch, service, console, network, history, counts
    <2>2. UNCHANGED <<batch, unseen, batchNo>>
      BY <1>11 DEF TakeBatch, service, console, network, history, counts
    <2> QED BY <2>1, <2>2 DEF DeletesOK
  <1>12. ASSUME EndImport PROVE DeletesOK'
    <2>1. UNCHANGED <<batch, unseen, batchNo, late>> /\ phase = "importing" /\ todo = {}
      BY <1>12 DEF EndImport, service, history
    <2>2. CASE received = 0
      BY <1>12, <2>1, <2>2 DEF EndImport, DeletesOK
    <2>3. CASE received # 0
      <3>1. wire' = [op |-> "delete", n |-> received, of |-> shown]
        BY <1>12, <2>3 DEF EndImport
      <3>2. shown = batchNo => batch # {} /\ batch \cap unseen = {}
        BY <2>1, <2>3 DEF ShownOK, TypeOK
      <3> QED BY <2>1, <3>1, <3>2 DEF DeletesOK
    <2> QED BY <2>2, <2>3
  <1>13. ASSUME Acknowledged PROVE DeletesOK'
    <2>1. \A q \in late' \cup {wire'} : q.op = "delete" => q \in late \cup {wire}
      BY <1>13, NoneFacts DEF Acknowledged, service, console, network, history, counts
    <2>2. UNCHANGED <<batch, unseen, batchNo>>
      BY <1>13 DEF Acknowledged, service, console, network, history, counts
    <2> QED BY <2>1, <2>2 DEF DeletesOK
  <1>14. ASSUME RestartConsole PROVE DeletesOK'
    <2>1. \A q \in late' \cup {wire'} : q.op = "delete" => q \in late \cup {wire}
      BY <1>14, NoneFacts DEF RestartConsole, service, console, network, history, counts
    <2>2. UNCHANGED <<batch, unseen, batchNo>>
      BY <1>14 DEF RestartConsole, service, console, network, history, counts
    <2> QED BY <2>1, <2>2 DEF DeletesOK
  <1>15. ASSUME NEW m \in Mail, Post(m) PROVE DeletesOK'
    BY <1>15, PostFacts DEF DeletesOK, network
  <1>16. ASSUME NEW m \in Mail, AddMessage(m) PROVE DeletesOK'
    <2>1. UNCHANGED <<batch, wire, late, batchNo>> /\ unseen' \subseteq unseen
      BY <1>16 DEF AddMessage, Imported, service, network, history
    <2> QED BY <2>1 DEF DeletesOK
  <1>17. ASSUME NEW m \in Mail, Discard(m) PROVE DeletesOK'
    BY <1>17 DEF Discard, Checked, DeletesOK, service, console, network, history, counts
  <1>18. ASSUME NEW m \in Mail, Befriend(m) PROVE DeletesOK'
    BY <1>18 DEF Befriend, Checked, DeletesOK, service, console, network, history, counts
  <1>19. CASE UNCHANGED vars
    BY <1>19
       DEF vars, service, console, network, history, counts, DeletesOK, service, console,
           network, history, counts
  <1> QED
    BY <1>1, <1>2, <1>3, <1>4, <1>5, <1>6, <1>7, <1>8, <1>9, <1>10, <1>11, <1>12, <1>13,
       <1>14, <1>15, <1>16, <1>17, <1>18, <1>19
       DEF Next

\* The checked flag is outdated before it is saved.
LEMMA NextCheckedOK == IInv /\ [Next]_vars => CheckedOK'
  <1> SUFFICES ASSUME IInv, [Next]_vars PROVE CheckedOK'
    OBVIOUS
  <1> USE DEF IInv
  <1>1. ASSUME HandleReceive PROVE CheckedOK'
    <2>1. Claim(FALSE) /\ UNCHANGED <<pendingFlag, phase, shown, todo, received, batchNo>>
            /\ wire' = [op |-> "batch", mails |-> batch', of |-> batchNo]
      BY <1>1 DEF HandleReceive, console, history
    <2>2. Pending' = Pending /\ generation' = generation /\ (batch' = {} => Takeable = {})
      BY <2>1, ClaimFacts
    <2>3. Covers(pendingFlag) => Covers(pendingFlag)'
      BY <2>1, <2>2 DEF Covers
    <2>4. Outdated(pendingFlag) => Outdated(pendingFlag)'
      BY <2>1, <2>2 DEF Outdated
    <2>5. phase = "receiving"
      BY <1>1 DEF HandleReceive, PhaseOK, TypeOK, NoneOnWire
    <2> QED BY <2>1, <2>2, <2>3, <2>4, <2>5 DEF CheckedOK, Takeable
  <1>2. ASSUME HandleDelete PROVE CheckedOK'
    <2>1. Delete(wire) /\ wire' = DeleteAnswer(wire) /\ wire.op = "delete"
            /\ UNCHANGED <<pendingFlag, phase, todo, received>>
      BY <1>2 DEF HandleDelete, console
    <2>2. phase = "acknowledging" /\ received > 0 /\ wire.of = shown
      BY <2>1, NoneFacts DEF PhaseOK, TypeOK
    <2>3. wire'.op \in {"done", "refused"} /\ shown' = shown /\ generation' = generation
            /\ (wire'.op = "done" => batch = {} \/ wire.n = Cardinality(batch))
      BY <2>1, DeleteFacts DEF DeleteAnswer
    <2> SUFFICES ASSUME pendingFlag # NoFlag
                 PROVE  /\ Covers(pendingFlag)'
                        /\ shown # batchNo' \/ wire'.op = "done" => Outdated(pendingFlag)'
      BY <2>1, <2>2, <2>3 DEF CheckedOK, Takeable
    <2>4. Covers(pendingFlag) /\ (shown # batchNo => Outdated(pendingFlag))
      BY <2>2 DEF CheckedOK, Takeable
    <2>5. (Covers(pendingFlag)' <=> (pendingFlag[1] = generation' => Keys(Pending') \subseteq pendingFlag[2]))
          /\ (Outdated(pendingFlag)' <=>
                (pendingFlag[1] = generation' => /\ Keys(Pending') \subseteq pendingFlag[2]
                                                /\ Keys(Pending') # pendingFlag[2]))
      BY <2>1 DEF Covers, Outdated
    <2>6. CASE batchNo' # batchNo
      BY <2>1, <2>4, <2>5, <2>6, DeleteOutdates
    <2>7. CASE batchNo' = batchNo
      <3>1. Pending' = Pending /\ ~(batch # {} /\ wire.n = Cardinality(batch))
        BY <2>1, <2>7, DeleteFacts DEF TypeOK
      <3>2. wire'.op = "done" => shown # batchNo
        BY <2>2, <2>3, <3>1 DEF ShownOK
      <3> QED BY <2>3, <2>4, <2>5, <2>7, <3>1, <3>2 DEF Covers, Outdated
    <2> QED BY <2>6, <2>7
  <1>3. ASSUME StopService PROVE CheckedOK'
    <2>1. UNCHANGED <<pendingFlag, phase, todo, received>> /\ wire'.op = "error"
      BY <1>3 DEF StopService, console
    <2>2. CASE UNCHANGED history /\ \E short \in BOOLEAN : Claim(short)
      <3>1. Pending' = Pending /\ generation' = generation /\ UNCHANGED <<shown, batchNo>>
        BY <2>2, ClaimFacts DEF history
      <3> QED BY <2>1, <3>1 DEF CheckedOK, Takeable, Covers, Outdated
    <2>3. CASE Delete(wire)
      <3>1. shown' = shown /\ generation' = generation /\ Pending' \subseteq Pending
        BY <2>3, DeleteFacts DEF Pending
      <3> SUFFICES ASSUME pendingFlag # NoFlag
                   PROVE  /\ Covers(pendingFlag)'
                          /\ batchNo' # batchNo \/ Outdated(pendingFlag) => Outdated(pendingFlag)'
        BY <2>1, <3>1 DEF CheckedOK, Takeable
      <3>2. Covers(pendingFlag)
        BY DEF CheckedOK, Takeable
      <3>3. (pendingFlag[1] = generation' => Keys(Pending') \subseteq pendingFlag[2])
            /\ (batchNo' # batchNo \/ Outdated(pendingFlag) =>
                  (pendingFlag[1] = generation' => /\ Keys(Pending') \subseteq pendingFlag[2]
                                                  /\ Keys(Pending') # pendingFlag[2]))
        BY <2>3, <3>2, DeleteOutdates
      <3> QED BY <2>1, <3>3 DEF Covers, Outdated
    <2> QED BY <1>3, <2>2, <2>3 DEF StopService
  <1>4. ASSUME NEW r \in late, HandleLate(r) PROVE CheckedOK'
    <2>1. UNCHANGED <<pendingFlag, phase, todo, received>> /\ wire' = wire
      BY <1>4 DEF HandleLate, console
    <2>2. CASE UNCHANGED history /\ \E short \in BOOLEAN : Claim(short)
      <3>1. Pending' = Pending /\ generation' = generation /\ UNCHANGED <<shown, batchNo>>
        BY <2>2, ClaimFacts DEF history
      <3> QED BY <2>1, <3>1 DEF CheckedOK, Takeable, Covers, Outdated
    <2>3. CASE Delete(r)
      <3>1. shown' = shown /\ generation' = generation /\ Pending' \subseteq Pending
        BY <2>3, DeleteFacts DEF Pending
      <3> SUFFICES ASSUME pendingFlag # NoFlag
                   PROVE  /\ Covers(pendingFlag)'
                          /\ batchNo' # batchNo \/ Outdated(pendingFlag) => Outdated(pendingFlag)'
        BY <2>1, <3>1 DEF CheckedOK, Takeable
      <3>2. Covers(pendingFlag)
        BY DEF CheckedOK, Takeable
      <3>3. (pendingFlag[1] = generation' => Keys(Pending') \subseteq pendingFlag[2])
            /\ (batchNo' # batchNo \/ Outdated(pendingFlag) =>
                  (pendingFlag[1] = generation' => /\ Keys(Pending') \subseteq pendingFlag[2]
                                                  /\ Keys(Pending') # pendingFlag[2]))
        BY <2>3, <3>2, DeleteOutdates
      <3> QED BY <2>1, <3>3 DEF Covers, Outdated
    <2> QED BY <1>4, <2>2, <2>3 DEF HandleLate
  <1>5. ASSUME Lose PROVE CheckedOK'
    <2>1. UNCHANGED <<queue, batch, generation, batchNo, shown>> /\ Pending' = Pending
      BY <1>5 DEF Lose, service, history, Pending
    <2>2. wire'.op \notin {"batch", "done"}
      BY <1>5, NoneFacts DEF Lose
    <2>3. pendingFlag' \in {pendingFlag, NoFlag}
      BY <1>5 DEF Lose, console
    <2>4. phase' = "importing" => phase = "importing" /\ UNCHANGED <<todo, received>>
      BY <1>5 DEF Lose, SaveFlag, console
    <2>5. phase' = "acknowledging" => phase = "acknowledging"
      BY <1>5 DEF Lose, SaveFlag, console
    <2> QED BY <2>1, <2>2, <2>3, <2>4, <2>5 DEF CheckedOK, Takeable, Covers, Outdated
  <1>6. ASSUME TimeOut PROVE CheckedOK'
    <2>1. UNCHANGED <<queue, batch, generation, batchNo, shown>> /\ Pending' = Pending
      BY <1>6 DEF TimeOut, service, history, Pending
    <2>2. wire'.op \notin {"batch", "done"}
      BY <1>6, NoneFacts DEF TimeOut
    <2>3. pendingFlag' \in {pendingFlag, NoFlag}
      BY <1>6 DEF TimeOut, console
    <2>4. phase' = "importing" => phase = "importing" /\ UNCHANGED <<todo, received>>
      BY <1>6 DEF TimeOut, SaveFlag, console
    <2>5. phase' = "acknowledging" => phase = "acknowledging"
      BY <1>6 DEF TimeOut, SaveFlag, console
    <2> QED BY <2>1, <2>2, <2>3, <2>4, <2>5 DEF CheckedOK, Takeable, Covers, Outdated
  <1>7. ASSUME KDCheckMail PROVE CheckedOK'
    <2>1. pendingFlag' = Flag /\ phase' \in {"idle", "due"} /\ wire' = NoneOnWire
            /\ UNCHANGED service
      BY <1>7 DEF KDCheckMail, Checked, PhaseOK, network
    <2>2. Flag[1] <= generation /\ Covers(Flag)
      BY FlagFacts
    <2> QED BY <2>1, <2>2, NoneFacts DEF CheckedOK, Takeable, Covers, Pending, service
  <1>8. ASSUME CheckMailNow PROVE CheckedOK'
    <2>1. pendingFlag' = Flag /\ phase' \in {"idle", "due"} /\ wire' = NoneOnWire
            /\ UNCHANGED service
      BY <1>8 DEF CheckMailNow, Checked, PhaseOK, network
    <2>2. Flag[1] <= generation /\ Covers(Flag)
      BY FlagFacts
    <2> QED BY <2>1, <2>2, NoneFacts DEF CheckedOK, Takeable, Covers, Pending, service
  <1>9. ASSUME KDReceiveMail PROVE CheckedOK'
    <2>1. UNCHANGED <<queue, batch, generation, batchNo, shown>> /\ Pending' = Pending
      BY <1>9 DEF KDReceiveMail, service, history, Pending
    <2>2. wire'.op \notin {"batch", "done"}
      BY <1>9, NoneFacts DEF KDReceiveMail
    <2>3. pendingFlag' \in {pendingFlag, NoFlag}
      BY <1>9 DEF KDReceiveMail, console
    <2>4. phase' = "importing" => phase = "importing" /\ UNCHANGED <<todo, received>>
      BY <1>9 DEF KDReceiveMail, SaveFlag, console
    <2>5. phase' = "acknowledging" => phase = "acknowledging"
      BY <1>9 DEF KDReceiveMail, SaveFlag, console
    <2> QED BY <2>1, <2>2, <2>3, <2>4, <2>5 DEF CheckedOK, Takeable, Covers, Outdated
  <1>10. ASSUME GiveUp PROVE CheckedOK'
    <2>1. UNCHANGED <<queue, batch, generation, batchNo, shown>> /\ Pending' = Pending
      BY <1>10 DEF GiveUp, service, history, Pending
    <2>2. wire'.op \notin {"batch", "done"}
      BY <1>10, NoneFacts DEF GiveUp
    <2>3. pendingFlag' \in {pendingFlag, NoFlag}
      BY <1>10 DEF GiveUp, console
    <2>4. phase' = "importing" => phase = "importing" /\ UNCHANGED <<todo, received>>
      BY <1>10 DEF GiveUp, SaveFlag, console
    <2>5. phase' = "acknowledging" => phase = "acknowledging"
      BY <1>10 DEF GiveUp, SaveFlag, console
    <2> QED BY <2>1, <2>2, <2>3, <2>4, <2>5 DEF CheckedOK, Takeable, Covers, Outdated
  <1>11. ASSUME TakeBatch PROVE CheckedOK'
    <2>1. UNCHANGED <<queue, batch, generation, pendingFlag, received, batchNo>> /\ Pending' = Pending
      BY <1>11 DEF TakeBatch, service, Pending
    <2>2. wire.op = "batch" /\ wire' = NoneOnWire /\ todo' = wire.mails /\ shown' = wire.of
            /\ phase' = "importing"
      BY <1>11 DEF TakeBatch
    <2>3. (Covers(pendingFlag) => Covers(pendingFlag)') /\ (Outdated(pendingFlag) => Outdated(pendingFlag)')
      BY <2>1 DEF Covers, Outdated
    <2> QED BY <2>1, <2>2, <2>3, NoneFacts DEF CheckedOK, Takeable
  <1>12. ASSUME EndImport PROVE CheckedOK'
    <2>1. UNCHANGED <<queue, batch, generation, pendingFlag, todo, received, batchNo, shown>>
            /\ Pending' = Pending
      BY <1>12 DEF EndImport, service, history, Pending
    <2>2. phase = "importing" /\ phase' \in {"idle", "acknowledging"} /\ wire'.op \in {"none", "delete"}
      BY <1>12, NoneFacts DEF EndImport, SaveFlag, PhaseOK
    <2>3. (Covers(pendingFlag) => Covers(pendingFlag)') /\ (Outdated(pendingFlag) => Outdated(pendingFlag)')
      BY <2>1 DEF Covers, Outdated
    <2> QED BY <2>1, <2>2, <2>3 DEF CheckedOK, Takeable
  <1>13. ASSUME Acknowledged PROVE CheckedOK'
    <2>1. UNCHANGED <<queue, batch, generation, batchNo, shown>> /\ Pending' = Pending
      BY <1>13 DEF Acknowledged, service, history, Pending
    <2>2. wire'.op \notin {"batch", "done"}
      BY <1>13, NoneFacts DEF Acknowledged
    <2>3. pendingFlag' \in {pendingFlag, NoFlag}
      BY <1>13 DEF Acknowledged, console
    <2>4. phase' = "importing" => phase = "importing" /\ UNCHANGED <<todo, received>>
      BY <1>13 DEF Acknowledged, SaveFlag, console
    <2>5. phase' = "acknowledging" => phase = "acknowledging"
      BY <1>13 DEF Acknowledged, SaveFlag, console
    <2> QED BY <2>1, <2>2, <2>3, <2>4, <2>5 DEF CheckedOK, Takeable, Covers, Outdated
  <1>14. ASSUME RestartConsole PROVE CheckedOK'
    <2>1. UNCHANGED <<queue, batch, generation, batchNo, shown>> /\ Pending' = Pending
      BY <1>14 DEF RestartConsole, service, history, Pending
    <2>2. wire'.op \notin {"batch", "done"}
      BY <1>14, NoneFacts DEF RestartConsole
    <2>3. pendingFlag' \in {pendingFlag, NoFlag}
      BY <1>14 DEF RestartConsole, console
    <2>4. phase' = "importing" => phase = "importing" /\ UNCHANGED <<todo, received>>
      BY <1>14 DEF RestartConsole, SaveFlag, console
    <2>5. phase' = "acknowledging" => phase = "acknowledging"
      BY <1>14 DEF RestartConsole, SaveFlag, console
    <2> QED BY <2>1, <2>2, <2>3, <2>4, <2>5 DEF CheckedOK, Takeable, Covers, Outdated
  <1>15. ASSUME NEW m \in Mail, Post(m) PROVE CheckedOK'
    <2>1. UNCHANGED <<pendingFlag, phase, wire, todo, received, batchNo, shown>>
      BY <1>15, PostFacts DEF console, network
    <2>2. UNCHANGED <<queue, batch, generation>> \/ generation' = generation + 1
      BY <1>15, PostFacts
    <2>3. CASE UNCHANGED <<queue, batch, generation>>
      <3>1. Pending' = Pending
        BY <2>3 DEF Pending
      <3> QED BY <2>1, <2>3, <3>1 DEF CheckedOK, Takeable, Covers, Outdated
    <2>4. CASE generation' = generation + 1
      <3>1. pendingFlag # NoFlag => pendingFlag[1] \in Nat /\ pendingFlag[1] <= generation /\ generation \in Nat
        BY DEF CheckedOK, Takeable, TypeOK
      <3>2. pendingFlag # NoFlag => pendingFlag[1] <= generation' /\ pendingFlag[1] # generation'
        BY <2>4, <3>1
      <3> QED BY <2>1, <3>2 DEF CheckedOK, Takeable, Covers, Outdated
    <2> QED BY <2>2, <2>3, <2>4
  <1>16. ASSUME NEW m \in Mail, AddMessage(m) PROVE CheckedOK'
    <2>1. UNCHANGED <<queue, batch, generation, pendingFlag, batchNo, shown, wire>> /\ Pending' = Pending
      BY <1>16 DEF AddMessage, Imported, service, network, history, Pending
    <2>2. phase = "importing" /\ (phase' = "idle" \/ received' = received + 1)
      BY <1>16 DEF AddMessage, Imported
    <2>3. (Covers(pendingFlag) => Covers(pendingFlag)') /\ (Outdated(pendingFlag) => Outdated(pendingFlag)')
      BY <2>1 DEF Covers, Outdated
    <2>4. received' # 0 \/ phase' = "idle"
      BY <2>2 DEF TypeOK
    <2>6. phase' \in {"idle", "importing"}
      BY <1>16 DEF AddMessage, Imported
    <2>5. wire.op = "none"
      BY <2>2, NoneFacts DEF PhaseOK
    <2> QED BY <2>1, <2>2, <2>3, <2>4, <2>5, <2>6 DEF CheckedOK, Takeable
  <1>17. ASSUME NEW m \in Mail, Discard(m) PROVE CheckedOK'
    BY <1>17
       DEF Discard, CheckedOK, Takeable, Covers, Outdated, Pending, service, console, network,
           history, counts
  <1>18. ASSUME NEW m \in Mail, Befriend(m) PROVE CheckedOK'
    BY <1>18
       DEF Befriend, CheckedOK, Takeable, Covers, Outdated, Pending, service, console, network,
           history, counts
  <1>19. CASE UNCHANGED vars
    BY <1>19
       DEF vars, service, console, network, history, counts, CheckedOK, Takeable, Covers,
           Outdated,
           Pending, service, console, network, history, counts
  <1> QED
    BY <1>1, <1>2, <1>3, <1>4, <1>5, <1>6, <1>7, <1>8, <1>9, <1>10, <1>11, <1>12, <1>13,
       <1>14, <1>15, <1>16, <1>17, <1>18, <1>19
       DEF Next

\* The saved flag is outdated while mail is pending that the console can take.
LEMMA NextSavedOK == IInv /\ [Next]_vars => SavedOK'
  <1> SUFFICES ASSUME IInv, [Next]_vars PROVE SavedOK'
    OBVIOUS
  <1> USE DEF IInv
  <1>1. ASSUME HandleReceive PROVE SavedOK'
    <2>1. Pending' = Pending /\ generation' = generation /\ savedFlag' = savedFlag
      BY <1>1, ClaimFacts DEF HandleReceive, console
    <2> QED BY <2>1 DEF SavedOK, Takeable, Covers, Outdated
  <1>2. ASSUME HandleDelete PROVE SavedOK'
    <2>1. savedFlag' = savedFlag
      BY <1>2 DEF HandleDelete, console
    <2>2. CASE UNCHANGED history /\ \E short \in BOOLEAN : Claim(short)
      <3>1. Pending' = Pending /\ generation' = generation
        BY <2>2, ClaimFacts
      <3> QED BY <2>1, <3>1 DEF SavedOK, Takeable, Covers, Outdated
    <2>3. CASE Delete(wire)
      <3>1. generation' = generation /\ Pending' \subseteq Pending
        BY <2>3, DeleteFacts DEF Pending
      <3>2. Covers(savedFlag) /\ (Takeable # {} => Outdated(savedFlag))
        BY DEF SavedOK, Takeable
      <3>3. (savedFlag[1] = generation' => Keys(Pending') \subseteq savedFlag[2])
            /\ (Outdated(savedFlag) => (savedFlag[1] = generation' =>
                  Keys(Pending') \subseteq savedFlag[2] /\ Keys(Pending') # savedFlag[2]))
        BY <2>3, <3>2, DeleteOutdates
      <3> QED BY <2>1, <3>1, <3>2, <3>3 DEF SavedOK, Takeable, Covers, Outdated
    <2> QED BY <1>2, <2>2, <2>3 DEF HandleDelete
  <1>3. ASSUME StopService PROVE SavedOK'
    <2>1. savedFlag' = savedFlag
      BY <1>3 DEF StopService, console
    <2>2. CASE UNCHANGED history /\ \E short \in BOOLEAN : Claim(short)
      <3>1. Pending' = Pending /\ generation' = generation
        BY <2>2, ClaimFacts
      <3> QED BY <2>1, <3>1 DEF SavedOK, Takeable, Covers, Outdated
    <2>3. CASE Delete(wire)
      <3>1. generation' = generation /\ Pending' \subseteq Pending
        BY <2>3, DeleteFacts DEF Pending
      <3>2. Covers(savedFlag) /\ (Takeable # {} => Outdated(savedFlag))
        BY DEF SavedOK, Takeable
      <3>3. (savedFlag[1] = generation' => Keys(Pending') \subseteq savedFlag[2])
            /\ (Outdated(savedFlag) => (savedFlag[1] = generation' =>
                  Keys(Pending') \subseteq savedFlag[2] /\ Keys(Pending') # savedFlag[2]))
        BY <2>3, <3>2, DeleteOutdates
      <3> QED BY <2>1, <3>1, <3>2, <3>3 DEF SavedOK, Takeable, Covers, Outdated
    <2> QED BY <1>3, <2>2, <2>3 DEF StopService
  <1>4. ASSUME NEW r \in late, HandleLate(r) PROVE SavedOK'
    <2>1. savedFlag' = savedFlag
      BY <1>4 DEF HandleLate, console
    <2>2. CASE UNCHANGED history /\ \E short \in BOOLEAN : Claim(short)
      <3>1. Pending' = Pending /\ generation' = generation
        BY <2>2, ClaimFacts
      <3> QED BY <2>1, <3>1 DEF SavedOK, Takeable, Covers, Outdated
    <2>3. CASE Delete(r)
      <3>1. generation' = generation /\ Pending' \subseteq Pending
        BY <2>3, DeleteFacts DEF Pending
      <3>2. Covers(savedFlag) /\ (Takeable # {} => Outdated(savedFlag))
        BY DEF SavedOK, Takeable
      <3>3. (savedFlag[1] = generation' => Keys(Pending') \subseteq savedFlag[2])
            /\ (Outdated(savedFlag) => (savedFlag[1] = generation' =>
                  Keys(Pending') \subseteq savedFlag[2] /\ Keys(Pending') # savedFlag[2]))
        BY <2>3, <3>2, DeleteOutdates
      <3> QED BY <2>1, <3>1, <3>2, <3>3 DEF SavedOK, Takeable, Covers, Outdated
    <2> QED BY <1>4, <2>2, <2>3 DEF HandleLate
  <1>5. ASSUME Lose PROVE SavedOK'
    <2>1. UNCHANGED <<queue, batch, generation, savedFlag>> /\ Pending' = Pending
      BY <1>5 DEF Lose, Checked, service, console, Pending
    <2> QED BY <2>1 DEF SavedOK, Takeable, Covers, Outdated
  <1>6. ASSUME TimeOut PROVE SavedOK'
    <2>1. UNCHANGED <<queue, batch, generation, savedFlag>> /\ Pending' = Pending
      BY <1>6 DEF TimeOut, Checked, service, console, Pending
    <2> QED BY <2>1 DEF SavedOK, Takeable, Covers, Outdated
  <1>7. ASSUME KDCheckMail PROVE SavedOK'
    <2>1. UNCHANGED <<queue, batch, generation, savedFlag>> /\ Pending' = Pending
      BY <1>7 DEF KDCheckMail, Checked, service, console, Pending
    <2> QED BY <2>1 DEF SavedOK, Takeable, Covers, Outdated
  <1>8. ASSUME CheckMailNow PROVE SavedOK'
    <2>1. UNCHANGED <<queue, batch, generation, savedFlag>> /\ Pending' = Pending
      BY <1>8 DEF CheckMailNow, Checked, service, console, Pending
    <2> QED BY <2>1 DEF SavedOK, Takeable, Covers, Outdated
  <1>9. ASSUME KDReceiveMail PROVE SavedOK'
    <2>1. UNCHANGED <<queue, batch, generation, savedFlag>> /\ Pending' = Pending
      BY <1>9 DEF KDReceiveMail, Checked, service, console, Pending
    <2> QED BY <2>1 DEF SavedOK, Takeable, Covers, Outdated
  <1>10. ASSUME GiveUp PROVE SavedOK'
    <2>1. UNCHANGED <<queue, batch, generation, savedFlag>> /\ Pending' = Pending
      BY <1>10 DEF GiveUp, Checked, service, console, Pending
    <2> QED BY <2>1 DEF SavedOK, Takeable, Covers, Outdated
  <1>11. ASSUME TakeBatch PROVE SavedOK'
    <2>1. UNCHANGED <<queue, batch, generation, savedFlag>> /\ Pending' = Pending
      BY <1>11 DEF TakeBatch, Checked, service, console, Pending
    <2> QED BY <2>1 DEF SavedOK, Takeable, Covers, Outdated
  <1>12. ASSUME EndImport PROVE SavedOK'
    <2>1. UNCHANGED <<queue, batch, generation>> /\ Pending' = Pending
      BY <1>12 DEF EndImport, service, Pending
    <2>2. savedFlag' = savedFlag \/ (pendingFlag # NoFlag /\ savedFlag' = pendingFlag /\ received = 0)
      BY <1>12 DEF EndImport, SaveFlag
    <2>3. CASE savedFlag' = savedFlag
      BY <2>1, <2>3 DEF SavedOK, Takeable, Covers, Outdated
    <2>4. CASE pendingFlag # NoFlag /\ savedFlag' = pendingFlag /\ received = 0
      <3>1. pendingFlag[1] <= generation /\ Covers(pendingFlag)
              /\ (Takeable # {} => Outdated(pendingFlag))
        BY <2>4, <1>12 DEF CheckedOK, Takeable, EndImport, Outdated
      <3> QED BY <2>1, <2>4, <3>1 DEF SavedOK, Takeable, Covers, Outdated
    <2> QED BY <2>2, <2>3, <2>4
  <1>13. ASSUME Acknowledged PROVE SavedOK'
    <2>1. UNCHANGED <<queue, batch, generation>> /\ Pending' = Pending
      BY <1>13 DEF Acknowledged, service, Pending
    <2>2. savedFlag' = savedFlag \/ (pendingFlag # NoFlag /\ savedFlag' = pendingFlag /\ wire.op = "done")
      BY <1>13 DEF Acknowledged, SaveFlag
    <2>3. CASE savedFlag' = savedFlag
      BY <2>1, <2>3 DEF SavedOK, Takeable, Covers, Outdated
    <2>4. CASE pendingFlag # NoFlag /\ savedFlag' = pendingFlag /\ wire.op = "done"
      <3>1. pendingFlag[1] <= generation /\ Covers(pendingFlag)
              /\ (Takeable # {} => Outdated(pendingFlag))
        BY <2>4, <1>13 DEF CheckedOK, Takeable, Acknowledged, Outdated
      <3> QED BY <2>1, <2>4, <3>1 DEF SavedOK, Takeable, Covers, Outdated
    <2> QED BY <2>2, <2>3, <2>4
  <1>14. ASSUME RestartConsole PROVE SavedOK'
    <2>1. UNCHANGED <<queue, batch, generation, savedFlag>> /\ Pending' = Pending
      BY <1>14 DEF RestartConsole, Checked, service, console, Pending
    <2> QED BY <2>1 DEF SavedOK, Takeable, Covers, Outdated
  <1>15. ASSUME NEW m \in Mail, Post(m) PROVE SavedOK'
    <2>1. savedFlag' = savedFlag
      BY <1>15, PostFacts DEF console
    <2>2. UNCHANGED <<queue, batch, generation>> \/ generation' = generation + 1
      BY <1>15, PostFacts
    <2>3. CASE UNCHANGED <<queue, batch, generation>>
      <3>1. Pending' = Pending
        BY <2>3 DEF Pending
      <3> QED BY <2>1, <2>3, <3>1 DEF SavedOK, Takeable, Covers, Outdated
    <2>4. CASE generation' = generation + 1
      <3>1. savedFlag[1] \in Nat /\ savedFlag[1] <= generation /\ generation \in Nat
        BY DEF SavedOK, Takeable, TypeOK
      <3>2. savedFlag[1] <= generation' /\ savedFlag[1] # generation' /\ generation' # 0
        BY <2>4, <3>1
      <3> QED BY <2>1, <3>2 DEF SavedOK, Takeable, Covers, Outdated
    <2> QED BY <2>2, <2>3, <2>4
  <1>16. ASSUME NEW m \in Mail, AddMessage(m) PROVE SavedOK'
    <2>1. UNCHANGED <<queue, batch, generation, savedFlag>> /\ Pending' = Pending
      BY <1>16 DEF AddMessage, Checked, service, console, Pending
    <2> QED BY <2>1 DEF SavedOK, Takeable, Covers, Outdated
  <1>17. ASSUME NEW m \in Mail, Discard(m) PROVE SavedOK'
    <2>1. UNCHANGED <<queue, batch, generation, savedFlag>> /\ Pending' = Pending
      BY <1>17 DEF Discard, Checked, service, console, Pending
    <2> QED BY <2>1 DEF SavedOK, Takeable, Covers, Outdated
  <1>18. ASSUME NEW m \in Mail, Befriend(m) PROVE SavedOK'
    <2>1. UNCHANGED <<queue, batch, generation, savedFlag>> /\ Pending' = Pending
      BY <1>18 DEF Befriend, Checked, service, console, Pending
    <2> QED BY <2>1 DEF SavedOK, Takeable, Covers, Outdated
  <1>19. CASE UNCHANGED vars
    BY <1>19
       DEF vars, service, console, network, history, counts, SavedOK, Takeable, Covers,
           Outdated,
           Pending, service, console, network, history, counts
  <1> QED
    BY <1>1, <1>2, <1>3, <1>4, <1>5, <1>6, <1>7, <1>8, <1>9, <1>10, <1>11, <1>12, <1>13,
       <1>14, <1>15, <1>16, <1>17, <1>18, <1>19
       DEF Next

\* A message with a Message-ID is listed once.
LEMMA NextEachIdentOnce == IInv /\ [Next]_vars => EachIdentOnce'
  <1> SUFFICES ASSUME IInv, [Next]_vars PROVE EachIdentOnce'
    OBVIOUS
  <1> USE DEF IInv
  <1>1. ASSUME HandleReceive PROVE EachIdentOnce'
    BY <1>1 DEF HandleReceive, Checked, EachIdentOnce, Listed, console
  <1>2. ASSUME HandleDelete PROVE EachIdentOnce'
    BY <1>2 DEF HandleDelete, Checked, EachIdentOnce, Listed, console
  <1>3. ASSUME StopService PROVE EachIdentOnce'
    BY <1>3 DEF StopService, Checked, EachIdentOnce, Listed, console
  <1>4. ASSUME NEW r \in late, HandleLate(r) PROVE EachIdentOnce'
    BY <1>4 DEF HandleLate, Checked, EachIdentOnce, Listed, console
  <1>5. ASSUME Lose PROVE EachIdentOnce'
    BY <1>5 DEF Lose, Checked, EachIdentOnce, Listed, console
  <1>6. ASSUME TimeOut PROVE EachIdentOnce'
    BY <1>6 DEF TimeOut, Checked, EachIdentOnce, Listed, console
  <1>7. ASSUME KDCheckMail PROVE EachIdentOnce'
    BY <1>7 DEF KDCheckMail, Checked, EachIdentOnce, Listed, console
  <1>8. ASSUME CheckMailNow PROVE EachIdentOnce'
    BY <1>8 DEF CheckMailNow, Checked, EachIdentOnce, Listed, console
  <1>9. ASSUME KDReceiveMail PROVE EachIdentOnce'
    BY <1>9 DEF KDReceiveMail, Checked, EachIdentOnce, Listed, console
  <1>10. ASSUME GiveUp PROVE EachIdentOnce'
    BY <1>10 DEF GiveUp, Checked, EachIdentOnce, Listed, console
  <1>11. ASSUME TakeBatch PROVE EachIdentOnce'
    BY <1>11 DEF TakeBatch, Checked, EachIdentOnce, Listed, console
  <1>12. ASSUME EndImport PROVE EachIdentOnce'
    <2>1. \A m \in Mail : entries'[m] = entries[m] \/ entries'[m] = 0
      BY <1>12 DEF EndImport, Unregistered, TypeOK
    <2> QED BY <2>1 DEF EachIdentOnce, Listed
  <1>13. ASSUME Acknowledged PROVE EachIdentOnce'
    BY <1>13 DEF Acknowledged, Checked, EachIdentOnce, Listed, console
  <1>14. ASSUME RestartConsole PROVE EachIdentOnce'
    BY <1>14 DEF RestartConsole, Checked, EachIdentOnce, Listed, console
  <1>15. ASSUME NEW m \in Mail, Post(m) PROVE EachIdentOnce'
    BY <1>15, PostFacts DEF Post, Checked, EachIdentOnce, Listed, console
  <1>16. ASSUME NEW m \in Mail, AddMessage(m) PROVE EachIdentOnce'
    <2>1. CASE entries' = entries
      BY <2>1 DEF EachIdentOnce, Listed
    <2>2. CASE SameIdent(m) = {} /\ entries' = [entries EXCEPT ![m] = @ + 1]
      <3>1. \A n \in Mail : entries'[n] = IF n = m THEN entries[n] + 1 ELSE entries[n]
        BY <2>2 DEF TypeOK
      <3>2. Ident[m] # NoIdent => \A n \in Mail : Ident[n] = Ident[m] => ~(entries[n] > 0)
        BY <2>2 DEF SameIdent, Listed
      <3>3. \A n \in Mail : entries[n] \in Nat
        BY DEF TypeOK
      <3> SUFFICES ASSUME NEW k \in Mail, NEW n \in Mail, entries'[k] > 0, entries'[n] > 0,
                          Ident[k] = Ident[n], Ident[k] # NoIdent
                   PROVE  k = n /\ entries'[k] = 1
        BY DEF EachIdentOnce, Listed
      <3>4. CASE k # m /\ n # m
        BY <3>1, <3>4 DEF EachIdentOnce, Listed
      <3>5. CASE k = m \/ n = m
        BY <3>1, <3>2, <3>3, <3>5
      <3> QED BY <3>4, <3>5
    <2> QED BY <1>16, <2>1, <2>2 DEF AddMessage
  <1>17. ASSUME NEW m \in Mail, Discard(m) PROVE EachIdentOnce'
    <2>1. \A n \in Mail : entries'[n] \in Nat /\ entries'[n] <= entries[n] /\ entries[n] \in Nat
      BY <1>17 DEF Discard, TypeOK
    <2> QED BY <2>1 DEF EachIdentOnce, Listed
  <1>18. ASSUME NEW m \in Mail, Befriend(m) PROVE EachIdentOnce'
    BY <1>18 DEF Befriend, Checked, EachIdentOnce, Listed, console
  <1>19. CASE UNCHANGED vars
    BY <1>19
       DEF vars, service, console, network, history, counts, EachIdentOnce, Listed,
           console
  <1> QED
    BY <1>1, <1>2, <1>3, <1>4, <1>5, <1>6, <1>7, <1>8, <1>9, <1>10, <1>11, <1>12, <1>13,
       <1>14, <1>15, <1>16, <1>17, <1>18, <1>19
       DEF Next

\* A delete that meets its own batch takes imported mail only.
LEMMA DeleteLoses ==
  ASSUME IInv, NEW r \in late \cup {wire}, r.op = "delete", Delete(r)
  PROVE  LossNeedsMistakenDelete'
  <1>1. CASE batch # {} /\ r.n = Cardinality(batch)
    <2>1. lost' = lost \cup (batch \cap unseen)
      BY <1>1 DEF Delete
    <2>2. mistaken' = (mistaken \/ r.of # batchNo)
      BY <1>1, Zenon DEF Delete
    <2>3. CASE r.of # batchNo
      BY <2>2, <2>3 DEF LossNeedsMistakenDelete
    <2>4. CASE r.of = batchNo
      <3>1. lost' = lost
        BY <2>1, <2>4 DEF IInv, DeletesOK
      <3>2. mistaken => mistaken'
        BY <2>2
      <3> QED BY <3>1, <3>2, Zenon DEF IInv, LossNeedsMistakenDelete
    <2> QED BY <2>3, <2>4
  <1>2. CASE ~(batch # {} /\ r.n = Cardinality(batch))
    BY <1>2 DEF Delete, history, IInv, LossNeedsMistakenDelete
  <1> QED BY <1>1, <1>2

\* Only a delete of another batch loses mail.
LEMMA NextLossNeedsMistakenDelete == IInv /\ [Next]_vars => LossNeedsMistakenDelete'
  <1> SUFFICES ASSUME IInv, [Next]_vars PROVE LossNeedsMistakenDelete'
    OBVIOUS
  <1> USE DEF IInv
  <1>1. ASSUME HandleReceive PROVE LossNeedsMistakenDelete'
    BY <1>1 DEF HandleReceive, LossNeedsMistakenDelete, history
  <1>2. ASSUME HandleDelete PROVE LossNeedsMistakenDelete'
    <2>1. Delete(wire) /\ wire \in late \cup {wire} /\ wire.op = "delete"
      BY <1>2 DEF HandleDelete
    <2> QED BY <2>1, DeleteLoses
  <1>3. ASSUME StopService PROVE LossNeedsMistakenDelete'
    <2>1. CASE UNCHANGED history
      BY <2>1 DEF LossNeedsMistakenDelete, history
    <2>2. CASE Delete(wire) /\ wire.op = "delete"
      BY <2>2, DeleteLoses
    <2> QED BY <1>3, <2>1, <2>2 DEF StopService
  <1>4. ASSUME NEW r \in late, HandleLate(r) PROVE LossNeedsMistakenDelete'
    <2>1. CASE UNCHANGED history
      BY <2>1 DEF LossNeedsMistakenDelete, history
    <2>2. CASE Delete(r) /\ r.op = "delete"
      BY <2>2, DeleteLoses
    <2> QED BY <1>4, <2>1, <2>2 DEF HandleLate
  <1>5. ASSUME Lose PROVE LossNeedsMistakenDelete'
    BY <1>5 DEF Lose, Checked, Imported, LossNeedsMistakenDelete, history
  <1>6. ASSUME TimeOut PROVE LossNeedsMistakenDelete'
    BY <1>6 DEF TimeOut, Checked, Imported, LossNeedsMistakenDelete, history
  <1>7. ASSUME KDCheckMail PROVE LossNeedsMistakenDelete'
    BY <1>7 DEF KDCheckMail, Checked, Imported, LossNeedsMistakenDelete, history
  <1>8. ASSUME CheckMailNow PROVE LossNeedsMistakenDelete'
    BY <1>8 DEF CheckMailNow, Checked, Imported, LossNeedsMistakenDelete, history
  <1>9. ASSUME KDReceiveMail PROVE LossNeedsMistakenDelete'
    BY <1>9 DEF KDReceiveMail, Checked, Imported, LossNeedsMistakenDelete, history
  <1>10. ASSUME GiveUp PROVE LossNeedsMistakenDelete'
    BY <1>10 DEF GiveUp, Checked, Imported, LossNeedsMistakenDelete, history
  <1>11. ASSUME TakeBatch PROVE LossNeedsMistakenDelete'
    BY <1>11 DEF TakeBatch, Checked, Imported, LossNeedsMistakenDelete, history
  <1>12. ASSUME EndImport PROVE LossNeedsMistakenDelete'
    BY <1>12 DEF EndImport, Checked, Imported, LossNeedsMistakenDelete, history
  <1>13. ASSUME Acknowledged PROVE LossNeedsMistakenDelete'
    BY <1>13 DEF Acknowledged, Checked, Imported, LossNeedsMistakenDelete, history
  <1>14. ASSUME RestartConsole PROVE LossNeedsMistakenDelete'
    BY <1>14 DEF RestartConsole, Checked, Imported, LossNeedsMistakenDelete, history
  <1>15. ASSUME NEW m \in Mail, Post(m) PROVE LossNeedsMistakenDelete'
    BY <1>15, PostFacts DEF LossNeedsMistakenDelete
  <1>16. ASSUME NEW m \in Mail, AddMessage(m) PROVE LossNeedsMistakenDelete'
    BY <1>16 DEF AddMessage, Checked, Imported, LossNeedsMistakenDelete, history
  <1>17. ASSUME NEW m \in Mail, Discard(m) PROVE LossNeedsMistakenDelete'
    BY <1>17 DEF Discard, Checked, Imported, LossNeedsMistakenDelete, history
  <1>18. ASSUME NEW m \in Mail, Befriend(m) PROVE LossNeedsMistakenDelete'
    BY <1>18 DEF Befriend, Checked, Imported, LossNeedsMistakenDelete, history
  <1>19. CASE UNCHANGED vars
    BY <1>19
       DEF vars, service, console, network, history, counts, LossNeedsMistakenDelete,
           history
  <1> QED
    BY <1>1, <1>2, <1>3, <1>4, <1>5, <1>6, <1>7, <1>8, <1>9, <1>10, <1>11, <1>12, <1>13,
       <1>14, <1>15, <1>16, <1>17, <1>18, <1>19
       DEF Next

------------------------------------------------------------------------------
\* The invariant is inductive, and holds in every reachable state.
LEMMA Inductive == Spec => []IInv
  <1>1. IInv /\ [Next]_vars => IInv'
    BY NextTypeOK, NextPhaseOK, NextKeysOK, NextNumbersOK, NextShownOK, NextDeletesOK,
       NextCheckedOK, NextSavedOK, NextEachIdentOnce, NextLossNeedsMistakenDelete
       DEF IInv
  <1> QED BY InitIInv, <1>1, PTL DEF Spec

\* The state is always well formed.
THEOREM TypeCorrect == Spec => []TypeOK
  <1>1. IInv => TypeOK
    BY DEF IInv
  <1> QED BY Inductive, <1>1, PTL

\* Replayed batches, interrupted imports and the removal of messages never
\* list a message that has a Message-ID twice.
THEOREM NoDuplicates == Spec => []EachIdentOnce
  <1>1. IInv => EachIdentOnce
    BY DEF IInv
  <1> QED BY Inductive, <1>1, PTL

\* Whatever the network loses, delays or repeats, the service lets go of mail
\* that the console has not imported only by a delete that was sent for another
\* batch.
THEOREM OnlyMistakesLose == Spec => []LossNeedsMistakenDelete
  <1>1. IInv => LossNeedsMistakenDelete
    BY DEF IInv
  <1> QED BY Inductive, <1>1, PTL

\* The console never saves the flag of mail that it could take and has not received:
\* as long as such mail is pending its next check finds a new flag, whatever mail too
\* large for it is pending beside it.
THEOREM FlagShowsMail == Spec => []FlagNeverHidesMail
  <1>1. IInv => FlagNeverHidesMail
    <2> SUFFICES ASSUME IInv, Takeable # {} PROVE savedFlag # Flag
      BY DEF FlagNeverHidesMail
    <2>1. Flag = <<generation, Keys(Pending)>>
      BY DEF Flag, Keys, Takeable
    <2>2. Outdated(savedFlag)
      BY DEF IInv, SavedOK
    <2> QED BY <2>1, <2>2 DEF Outdated
  <1> QED BY Inductive, <1>1, PTL

------------------------------------------------------------------------------
(* The service of MailDelivery and the files of MailStore are one mailbox. *)

\* The only mailbox; its batch is closed as soon as it has a mail, for a claim adds
\* nothing to the mails of an earlier one.
Mailbox == 0
Queue == INSTANCE MailQueue
  WITH Account <- {Mailbox},
       queue   <- [a \in {Mailbox} |-> queue],
       batch   <- [a \in {Mailbox} |-> batch],
       sealed  <- [a \in {Mailbox} |-> batch # {}]

ServiceImplementsQueue == Queue!Spec

\* A claim, a stop in the middle of it included, offers what it moves.
LEMMA ClaimOffers ==
  ASSUME NEW short \in BOOLEAN, Claim(short)
  PROVE  [Queue!Next]_(Queue!vars)
  <1>1. CASE batch # {}
    BY <1>1 DEF Claim, service, Queue!vars
  <1>2. CASE batch = {}
    <2>1. PICK S \in SUBSET queue : batch' = S /\ queue' = queue \ S
      BY <1>2 DEF Claim
    <2>2. CASE S = {}
      BY <1>2, <2>1, <2>2 DEF Queue!vars
    <2>3. CASE S # {}
      <3>1. Queue!Offer(Mailbox, S)
        BY <1>2, <2>1, <2>3 DEF Queue!Offer
      <3> QED BY <3>1 DEF Queue!Next
    <2> QED BY <2>2, <2>3
  <1> QED BY <1>1, <1>2

\* A delete acknowledges the whole batch or changes nothing.
LEMMA DeleteAcknowledges ==
  ASSUME NEW r, Delete(r)
  PROVE  [Queue!Next]_(Queue!vars)
  <1>1. CASE batch # {} /\ r.n = Cardinality(batch)
    <2>1. Queue!Acknowledge(Mailbox)
      BY <1>1 DEF Delete, Queue!Acknowledge
    <2> QED BY <2>1 DEF Queue!Next
  <1>2. CASE ~(batch # {} /\ r.n = Cardinality(batch))
    BY <1>2 DEF Delete, service, Queue!vars
  <1> QED BY <1>1, <1>2

\* A post is accepted when no mail of its digest is held.
LEMMA PostAccepts ==
  ASSUME NEW m \in Mail, Post(m)
  PROVE  [Queue!Next]_(Queue!vars)
  <1>1. CASE \E n \in Pending : Key[n] = Key[m]
    BY <1>1 DEF Post, service, Queue!vars
  <1>2. CASE ~ \E n \in Pending : Key[n] = Key[m]
    <2>1. m \notin queue \cup batch /\ queue' = queue \cup {m} /\ UNCHANGED batch
      BY <1>2 DEF Post, Pending
    <2>2. Queue!Accept(Mailbox, m)
      BY <2>1 DEF Queue!Accept, Queue!Held
    <2> QED BY <2>2 DEF Queue!Next
  <1> QED BY <1>1, <1>2

\* Whatever is lost, delayed, repeated or stopped between console and service, the
\* service does to its mailbox what MailQueue promises and what the files of MailStore
\* are proved to do: a batch that was answered is replayed or acknowledged as a whole.
THEOREM ServiceIsTheQueue == Spec => ServiceImplementsQueue
  <1>1. Init => Queue!Init
    BY DEF Init, Queue!Init
  <1>2. [Next]_vars => [Queue!Next]_(Queue!vars)
    <2> SUFFICES ASSUME [Next]_vars PROVE [Queue!Next]_(Queue!vars)
      OBVIOUS
    <2>1. ASSUME UNCHANGED service PROVE [Queue!Next]_(Queue!vars)
      BY <2>1 DEF service, Queue!vars
    <2>2. ASSUME NEW m \in Mail, Post(m) PROVE [Queue!Next]_(Queue!vars)
      BY <2>2, PostAccepts
    <2>3. CASE HandleReceive
      BY <2>3, ClaimOffers DEF HandleReceive
    <2>4. CASE HandleDelete
      BY <2>4, DeleteAcknowledges DEF HandleDelete
    <2>5. CASE StopService
      BY <2>5, ClaimOffers, DeleteAcknowledges DEF StopService
    <2>6. ASSUME NEW r \in late, HandleLate(r) PROVE [Queue!Next]_(Queue!vars)
      BY <2>6, ClaimOffers, DeleteAcknowledges DEF HandleLate
    <2>7. CASE Lose \/ TimeOut
      BY <2>1, <2>7 DEF Lose, TimeOut
    <2>8. CASE KDCheckMail \/ CheckMailNow \/ KDReceiveMail \/ GiveUp
      BY <2>1, <2>8 DEF KDCheckMail, CheckMailNow, Checked, KDReceiveMail, GiveUp
    <2>9. CASE TakeBatch \/ EndImport \/ Acknowledged \/ RestartConsole
      BY <2>1, <2>9 DEF TakeBatch, EndImport, Acknowledged, RestartConsole
    <2>10. ASSUME NEW m \in Mail, AddMessage(m) \/ Discard(m) \/ Befriend(m)
           PROVE  [Queue!Next]_(Queue!vars)
      BY <2>1, <2>10 DEF AddMessage, Discard, Befriend
    <2>11. CASE UNCHANGED vars
      BY <2>1, <2>11 DEF vars
    <2> QED
      BY <2>2, <2>3, <2>4, <2>5, <2>6, <2>7, <2>8, <2>9, <2>10, <2>11 DEF Next
  <1> QED BY <1>1, <1>2, PTL DEF Spec, ServiceImplementsQueue, Queue!Spec
==============================================================================
