----------------------------- MODULE MCMailStore -----------------------------
(* Small instances of MailStore for TLC. *)
EXTENDS MailStore, TLC

MCSize   == [m \in Mail |-> IF m = 2 THEN 3 ELSE 1]
MCThreads == Permutations(Thread)

\* A payload that is refused meets one other send.
Refused == (\E t \in Thread : pc[t] \in Quarantining) \/ \E m \in Mail : rejected[m] # "absent"
RefusedMeetsOne == Next /\ (Refused' => sends' < MaxSends)

RecipientsSpec == Init /\ [][RefusedMeetsOne]_vars
==============================================================================
