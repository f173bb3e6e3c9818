------------------------- MODULE MCOptimisticPublish -------------------------
(* Small instances of OptimisticPublish for TLC. *)
EXTENDS OptimisticPublish

CONSTANTS p1, p2
=============================================================================
