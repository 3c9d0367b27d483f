---------------------------- MODULE EditionRegister ----------------------------
(***************************************************************************)
(* What a publication directory promises its servers: it names one whole   *)
(* edition at a time, a publication takes effect in one step or not at     *)
(* all, and a load that succeeds returns the whole edition that was named  *)
(* when the load began.                                                    *)
(***************************************************************************)
CONSTANTS Edition, NoEdition, Server

VARIABLES
  current,   \* the edition that the directory names
  opened,    \* opened[s]: the edition that the load of server s began with
  snapshot   \* snapshot[s]: the edition that server s serves

vars == <<current, opened, snapshot>>

Init ==
  /\ current = NoEdition
  /\ opened = [s \in Server |-> NoEdition]
  /\ snapshot = [s \in Server |-> NoEdition]

Publish ==
  /\ current' \in Edition
  /\ UNCHANGED <<opened, snapshot>>

BeginLoad(s) ==
  /\ current # NoEdition
  /\ opened' = [opened EXCEPT ![s] = current]
  /\ UNCHANGED <<current, snapshot>>

EndLoad(s) ==
  /\ opened[s] # NoEdition
  /\ snapshot' = [snapshot EXCEPT ![s] = opened[s]]
  /\ opened' = [opened EXCEPT ![s] = NoEdition]
  /\ UNCHANGED current

\* A load that is refused, or the end of a server.
Abandon(s) ==
  /\ opened' = [opened EXCEPT ![s] = NoEdition]
  /\ snapshot' = [snapshot EXCEPT ![s] = NoEdition]
  /\ UNCHANGED current

Next == Publish \/ \E s \in Server : BeginLoad(s) \/ EndLoad(s) \/ Abandon(s)

Spec == Init /\ [][Next]_vars
==============================================================================
