---------------------------- MODULE MCMailDelivery ----------------------------
(* Small instances of MailDelivery for TLC. *)
EXTENDS MailDelivery

CONSTANTS letter, hello, helloAgain, notice, album

\* The two registrations differ in their Date only: one key, one identity.
MCKey    == [m \in Mail |-> IF m = helloAgain THEN hello ELSE m]
MCIdent  == [m \in Mail |-> IF m = notice THEN NoIdent ELSE MCKey[m]]
MCSender == [m \in Mail |-> MCKey[m]]

\* The first registration fits beside a notice, the second does not, and the album
\* alone is more than the budget of 3.
MCSize   == [m \in Mail |-> CASE m = hello -> 1 [] m = album -> 4 [] OTHER -> 2]
==============================================================================
