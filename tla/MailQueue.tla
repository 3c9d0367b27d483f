------------------------------ MODULE MailQueue ------------------------------
(***************************************************************************)
(* What the shared WC24 mail service promises each mailbox, whatever files *)
(* it keeps (jwc24/mail.py, "Retryable batches" in channels/mail/README).  *)
(*                                                                         *)
(* A mailbox holds mail that waits in a queue and one outstanding batch.   *)
(* A batch is put together from the queue while it is open; once it has    *)
(* been shown to a console it is sealed, nothing enters or leaves it, and  *)
(* only an acknowledgment, of the whole batch at once, takes mail away.    *)
(***************************************************************************)
CONSTANTS Account,   \* the 16-digit Wii mail IDs
          Mail       \* mails, by the content digest that names their file

VARIABLES queue,     \* queue[a]: accepted mail of a that no batch holds
          batch,     \* batch[a]: the outstanding batch of a
          sealed     \* sealed[a]: that batch has been shown to the console

vars == <<queue, batch, sealed>>

Held(a) == queue[a] \cup batch[a]

Init ==
  /\ queue  = [a \in Account |-> {}]
  /\ batch  = [a \in Account |-> {}]
  /\ sealed = [a \in Account |-> FALSE]

\* A mail that the mailbox does not already hold is accepted.
Accept(a, m) ==
  /\ m \notin Held(a)
  /\ queue' = [queue EXCEPT ![a] = @ \cup {m}]
  /\ UNCHANGED <<batch, sealed>>

\* Queued mails enter the batch, which is then shown to the console or stays
\* open for more.
Offer(a, S) ==
  /\ ~sealed[a]
  /\ queue' = [queue EXCEPT ![a] = @ \ S]
  /\ batch' = [batch EXCEPT ![a] = @ \cup S]
  /\ \/ UNCHANGED sealed
     \/ batch'[a] # {} /\ sealed' = [sealed EXCEPT ![a] = TRUE]

\* An acknowledgment retires the whole batch.
Acknowledge(a) ==
  /\ batch[a] # {}
  /\ batch'  = [batch EXCEPT ![a] = {}]
  /\ sealed' = [sealed EXCEPT ![a] = FALSE]
  /\ UNCHANGED queue

Next ==
  \E a \in Account :
    \/ \E m \in Mail : Accept(a, m)
    \/ \E S \in SUBSET queue[a] : Offer(a, S)
    \/ Acknowledge(a)

Spec == Init /\ [][Next]_vars
==============================================================================
