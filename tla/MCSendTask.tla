------------------------------ MODULE MCSendTask ------------------------------
(* Small amounts, decimals and fees for SendTask. *)
EXTENDS SendTask

MCTransferFees ==
    {NoTransferFee} \cup
    [transfer_fee_basis_points : {1, 6, OneInBasisPoints}, maximum_fee : {0, 2, 9}]
=============================================================================
