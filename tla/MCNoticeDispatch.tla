--------------------------- MODULE MCNoticeDispatch ---------------------------
(* Small instances of NoticeDispatch for TLC. *)
EXTENDS NoticeDispatch

CONSTANTS r1, r2

\* The first handoff and the closure notice go to one console.
MCTo == [n \in Notice |-> IF n = 2 THEN r2 ELSE r1]
==============================================================================
