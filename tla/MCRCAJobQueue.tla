--------------------------- MODULE MCRCAJobQueue ---------------------------
(***************************************************************************)
(* Instances of RCAJobQueue for TLC.                                       *)
(***************************************************************************)
EXTENDS RCAJobQueue, TLC

CONSTANT RetryBase   \* retry_base_seconds, in ticks

MCRetryDelay == [n \in 1..MaxAttempts |-> RetryBase * 2^(n - 1)]

MCSymmetry == Permutations(Worker)
=============================================================================
