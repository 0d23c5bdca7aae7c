------------------------------- MODULE MCLimits -------------------------------
(* Rate limits of OFTProgram under traffic both ways and reconfiguration. *)
EXTENDS OFTProgram

CONSTANTS admin, e1, a1, store

MCOpenPaths == {<<e1, a1>>}

MCScale == [n \in 0 .. 1 |-> IF n = 0 THEN 1 ELSE 2]

MCTransferFees == {[transfer_fee_basis_points |-> 2, maximum_fee |-> 1]}

MCLimitParams ==
    {[refill_per_second |-> 1, capacity |-> 3],
     [refill_per_second |-> 2, capacity |-> None],
     None}
=============================================================================
