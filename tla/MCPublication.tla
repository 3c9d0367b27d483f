---------------------------- MODULE MCPublication ----------------------------
(* A small instance of Publication for TLC: two editions, the later expires later. *)
EXTENDS Publication, TLC

CONSTANTS e1, e2

MCCollected == (e1 :> 0) @@ (e2 :> 1)
MCExpires   == (e1 :> 2) @@ (e2 :> 4)
==============================================================================
