------------------------------- MODULE Amounts -------------------------------
(***************************************************************************)
(* The amount arithmetic of the Solana OFT program: local and shared       *)
(* decimals, the OFT fee and the Token-2022 transfer fee.  Local amounts   *)
(* (LD) are u64; a message carries shared-decimal amounts (SD), which are  *)
(* local amounts divided by ld2sd_rate.                                    *)
(*                                                                         *)
(* Every operator is total over the naturals.  Where the code fails on a   *)
(* value that does not fit a u64 (a checked operation that returns None,   *)
(* an overflow-checked operator that panics), the instruction that calls   *)
(* the operator carries FitsU64 as a guard: a failed instruction reverts.  *)
(***************************************************************************)
EXTENDS Integers

CONSTANTS
    OneInBasisPoints,   \* 10000 in the code; the denominator of every fee
    MaxU64,             \* 2^64 - 1 in the code
    None                \* Option::None

ASSUME AmountsAssumption ==
    /\ OneInBasisPoints \in Nat \ {0}
    /\ MaxU64 \in Nat
    /\ None \notin Nat

U64 == 0 .. MaxU64
FitsU64(amount) == amount <= MaxU64

Smaller(a, b) == IF a <= b THEN a ELSE b

-----------------------------------------------------------------------------
(* Conversions between local and shared decimals.                          *)

Ld2Sd(amount_ld, rate) == amount_ld \div rate

Sd2Ld(amount_sd, rate) == amount_sd * rate

\* Variant: the dust is sent along.
KeepDust(amount_ld, rate) == amount_ld

RemoveDust(amount_ld, rate) == amount_ld - (amount_ld % rate)

-----------------------------------------------------------------------------
(* The Token-2022 transfer fee in force in the current epoch.  A mint      *)
(* without the extension behaves like one whose fee is NoTransferFee.      *)

TransferFees ==
    [transfer_fee_basis_points : 0 .. OneInBasisPoints, maximum_fee : U64]

NoTransferFee == [transfer_fee_basis_points |-> 0, maximum_fee |-> 0]

CeilDiv(numerator, denominator) ==
    (numerator + denominator - 1) \div denominator

\* What the token program withholds from a transfer of amount_ld.
WithheldFee(fee, amount_ld) ==
    Smaller(CeilDiv(amount_ld * fee.transfer_fee_basis_points, OneInBasisPoints),
            fee.maximum_fee)

PostFeeAmount(fee, amount_ld) == amount_ld - WithheldFee(fee, amount_ld)

\* Variant: rounds in the sender's favour.
FlooredPreFeeAmount(fee, post_fee_amount) ==
    (post_fee_amount * OneInBasisPoints)
        \div (OneInBasisPoints - fee.transfer_fee_basis_points)

\* The uncapped pre-image of a transfer that must leave post_fee_amount.
RawPreFeeAmount(fee, post_fee_amount) ==
    CeilDiv(post_fee_amount * OneInBasisPoints,
            OneInBasisPoints - fee.transfer_fee_basis_points)

\* Variant: the maximum fee is forgotten.
UncappedPreFeeAmount(fee, post_fee_amount) ==
    IF fee.transfer_fee_basis_points \in {0, OneInBasisPoints}
    THEN post_fee_amount
    ELSE RawPreFeeAmount(fee, post_fee_amount)

\* Variant: an adapter forgets the transfer fee its own escrow pays.
NoPreFeeAmount(fee, post_fee_amount) == post_fee_amount

PreFeeAmount(fee, post_fee_amount) ==
    IF fee.transfer_fee_basis_points = 0 \/ post_fee_amount = 0
    THEN post_fee_amount
    ELSE IF fee.transfer_fee_basis_points = OneInBasisPoints
         THEN post_fee_amount + fee.maximum_fee
         ELSE LET raw == RawPreFeeAmount(fee, post_fee_amount)
              IN  IF raw - post_fee_amount >= fee.maximum_fee
                  THEN post_fee_amount + fee.maximum_fee
                  ELSE raw

-----------------------------------------------------------------------------
(* The OFT fee and the amounts of one transfer.                            *)

OptionOf(S) == S \cup {None}

FinalFeeBps(default_fee_bps, fee_bps) ==
    IF fee_bps = None THEN default_fee_bps ELSE fee_bps

CalculateFee(pre_fee_amount, fee_bps) ==
    (pre_fee_amount * fee_bps) \div OneInBasisPoints

\* Variant: the transfer fee comes on top of the amount.
GrossOnTop(oft_type, rate, transfer_fee, amount_ld) == RemoveDust(amount_ld, rate)

\* What is left of amount_ld to send once dust, and an adapter's token
\* transfer fee, are taken off.
GrossAmount(oft_type, rate, transfer_fee, amount_ld) ==
    RemoveDust(IF oft_type = "Adapter"
               THEN PostFeeAmount(transfer_fee, amount_ld)
               ELSE amount_ld,
               rate)

ComputeFeeAndAdjustAmount(oft_type, rate, transfer_fee, fee_bps, amount_ld) ==
    LET gross   == GrossAmount(oft_type, rate, transfer_fee, amount_ld)
        oft_fee == RemoveDust(CalculateFee(gross, fee_bps), rate)
    IN  [amount_sent_ld     |-> IF oft_type = "Adapter"
                                THEN PreFeeAmount(transfer_fee, gross)
                                ELSE gross,
         amount_received_ld |-> gross - oft_fee,
         oft_fee_ld         |-> oft_fee]

=============================================================================
