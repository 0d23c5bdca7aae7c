--------------------------- MODULE MCRateLimitTasks ---------------------------
(* Two remotes, an admin who may change, and traffic to be limited. *)
EXTENDS RateLimitTasks

CONSTANTS admin, keeper, sepolia, base, a1, store

MCOpenPaths == {<<base, a1>>}

MCScale == [n \in 0 .. 1 |-> 1]

MCTransferFees == {NoTransferFee}

MCLimits == {[refill_per_second |-> 1, capacity |-> 2]}
=============================================================================
