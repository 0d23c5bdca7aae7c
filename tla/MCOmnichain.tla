------------------------------ MODULE MCOmnichain ------------------------------
(* Two EVM chains, one of them with a pathway to the Solana store. *)
EXTENDS Omnichain

CONSTANTS admin, e1, e2, zero, a1, store, user, owner, p1, p2

MCOpenPaths == {<<e1, a1>>}

MCScale == [n \in 0 .. 1 |-> IF n = 0 THEN 1 ELSE 2]

MCFee == [transfer_fee_basis_points |-> 2, maximum_fee |-> 1]

MCTransferFees == {NoTransferFee, MCFee}

MCContractOf == [chain \in Chains |-> a1]
=============================================================================
