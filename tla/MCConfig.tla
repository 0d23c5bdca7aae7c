------------------------------- MODULE MCConfig -------------------------------
(* Administration of OFTProgram: roles, pauses, peers and enforced options,  *)
(* with a little traffic on a remote.                                     *)
EXTENDS RateLimitTasks

CONSTANTS admin, keeper, e1, e2, a1, store, gas

MCOpenPaths == {<<e1, a1>>}

MCScale == [n \in 0 .. 1 |-> 1]

MCTransferFees == {NoTransferFee}

MCLimits == {[refill_per_second |-> 1, capacity |-> 2]}
=============================================================================
