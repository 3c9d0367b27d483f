--------------------------- MODULE MCChallengeStore ---------------------------
(* Small instances of ChallengeStore for TLC. *)
EXTENDS ChallengeStore, TLC

MCThreads == Permutations(Thread)
==============================================================================
