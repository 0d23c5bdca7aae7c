------------------------------ MODULE MCCustody ------------------------------
(* Tokens, fees, pauses and authorities of OFTProgram, without rate limits. *)
EXTENDS OFTProgram

CONSTANTS admin, other, e1, zero, a1, store, wallet

MCOpenPaths == {<<e1, a1>>}

MCScale == [n \in 0 .. 1 |-> IF n = 0 THEN 1 ELSE 2]

MCFee == [transfer_fee_basis_points |-> 2, maximum_fee |-> 1]

MCTransferFees == {NoTransferFee, MCFee}
=============================================================================
