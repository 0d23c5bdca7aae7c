------------------------------ MODULE MCDelivery ------------------------------
(* Two workers, two packets, one change of the token's transfer fee. *)
EXTENDS Delivery

CONSTANTS admin, e1, a1, store, wallet, executor, retrier

MCOpenPaths == {<<e1, a1>>}

MCScale == [n \in 0 .. 1 |-> IF n = 0 THEN 1 ELSE 2]

MCTransferFees ==
    {NoTransferFee, [transfer_fee_basis_points |-> 2, maximum_fee |-> 1]}
=============================================================================
