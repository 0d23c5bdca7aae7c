------------------------------- MODULE SendTask -------------------------------
(***************************************************************************)
(* The sendSolana task: it quotes a transfer, then sends it with the same   *)
(* amount and minimum.  Between the two transactions the admin may change   *)
(* the OFT fee or pause the program, and an epoch may bring another         *)
(* transfer fee of the token, so what is sent need not be what was quoted.  *)
(***************************************************************************)
EXTENDS Amounts

CONSTANTS
    Rates,              \* values of ld2sd_rate
    AmountsAsked,       \* amountUnits: what the user asks to send
    MinAmounts,         \* minAmount, None if the option is not given
    FeeBps,             \* OFT fees the admin may set
    TransferFeeChoices  \* transfer fees of the token

ASSUME SendTaskAssumption ==
    /\ Rates \subseteq Nat \ {0}
    /\ AmountsAsked \subseteq Nat \ {0}
    /\ MinAmounts \subseteq Nat \cup {None}
    /\ FeeBps \subseteq 0 .. OneInBasisPoints - 1
    /\ TransferFeeChoices \subseteq TransferFees

VARIABLES
    oft,            \* oft_type and ld2sd_rate of the store
    fee_bps,        \* the OFT fee that applies to the destination
    transfer_fee,   \* the token's transfer fee in the current epoch
    paused,
    task            \* the running task

vars == <<oft, fee_bps, transfer_fee, paused, task>>

OFTKinds == [oft_type : {"Native", "Adapter"}, ld2sd_rate : Rates]

Receipts ==
    [amount_sent_ld : Nat, amount_received_ld : Nat, oft_fee_ld : Nat]

\* An OFT charges no transfer fee when it burns.
TokenFee == IF oft.oft_type = "Adapter" THEN transfer_fee ELSE NoTransferFee

Idle == [phase |-> "idle"]

Compute(amount_ld) ==
    ComputeFeeAndAdjustAmount(oft.oft_type, oft.ld2sd_rate, transfer_fee,
                              fee_bps, amount_ld)

\* Variant: compares the minimum with what is debited.
AcceptedOnSent(request) ==
    /\ ~paused
    /\ FitsU64(Compute(request.amount_ld).amount_sent_ld)
    /\ Compute(request.amount_ld).amount_sent_ld >= request.min_amount_ld

\* Both quote_send and send refuse a transfer for these two reasons.
Accepted(request) ==
    /\ ~paused
    /\ FitsU64(Compute(request.amount_ld).amount_sent_ld)
    /\ Compute(request.amount_ld).amount_received_ld >= request.min_amount_ld

\* The fee details of quote_oft: the token's own fee, and the OFT fee.
TokenFeeDetail(r) ==
    IF r.amount_received_ld + r.oft_fee_ld < r.amount_sent_ld
    THEN r.amount_sent_ld - r.oft_fee_ld - r.amount_received_ld
    ELSE 0

CrossChainFeeDetail(r) == r.oft_fee_ld

-----------------------------------------------------------------------------
Init ==
    /\ oft \in OFTKinds
    /\ fee_bps \in FeeBps
    /\ transfer_fee \in TransferFeeChoices
    /\ paused = FALSE
    /\ task = Idle

MinOrAll(amount_ld, min_amount) ==
    IF min_amount = None THEN amount_ld ELSE min_amount

\* What the task knows after a transaction with a request.  message_amount is
\* the amount written into the message that is priced or sent.
Answered(phase, request, message_amount) ==
    [phase |-> phase, request |-> request,
     receipt |-> Compute(request.amount_ld), token_fee |-> TokenFee,
     message_amount |-> message_amount]

\* quote_send prices a message that carries amount_received_ld itself.
QuoteTransfer(amount_ld, min_amount) ==
    LET request == [amount_ld     |-> amount_ld,
                    min_amount_ld |-> MinOrAll(amount_ld, min_amount)]
    IN  /\ task.phase = "idle"
        /\ Accepted(request)
        /\ task' = Answered("quoted", request,
                            Compute(amount_ld).amount_received_ld)
        /\ UNCHANGED <<oft, fee_bps, transfer_fee, paused>>

\* send sends a message that carries the shared amount.
SendTransfer ==
    /\ task.phase = "quoted"
    /\ Accepted(task.request)
    /\ task' = Answered("sent", task.request,
                        Ld2Sd(Compute(task.request.amount_ld).amount_received_ld,
                              oft.ld2sd_rate))
    /\ UNCHANGED <<oft, fee_bps, transfer_fee, paused>>

\* A refused transaction, or the next run of the task.
Finish ==
    /\ task.phase = "quoted" => ~Accepted(task.request)
    /\ task # Idle
    /\ task' = Idle
    /\ UNCHANGED <<oft, fee_bps, transfer_fee, paused>>

SetFee(bps) ==
    /\ fee_bps' = bps
    /\ UNCHANGED <<oft, transfer_fee, paused, task>>

NewEpoch(fee) ==
    /\ transfer_fee' = fee
    /\ UNCHANGED <<oft, fee_bps, paused, task>>

SetPaused(p) ==
    /\ paused' = p
    /\ UNCHANGED <<oft, fee_bps, transfer_fee, task>>

Next ==
    \/ \E amount_ld \in AmountsAsked, min_amount \in MinAmounts :
          QuoteTransfer(amount_ld, min_amount)
    \/ SendTransfer
    \/ Finish
    \/ \E bps \in FeeBps : SetFee(bps)
    \/ \E fee \in TransferFeeChoices : NewEpoch(fee)
    \/ \E p \in BOOLEAN : SetPaused(p)

Spec == Init /\ [][Next]_vars

-----------------------------------------------------------------------------
Tasks ==
    {Idle} \cup
    [phase : {"quoted", "sent"}, receipt : Receipts, token_fee : TransferFees,
     request : [amount_ld : Nat, min_amount_ld : Nat], message_amount : Nat]

\* The task's request, quote and receipt have their types.
TypeOK ==
    /\ oft \in OFTKinds
    /\ fee_bps \in FeeBps
    /\ transfer_fee \in TransferFeeChoices
    /\ paused \in BOOLEAN
    /\ task \in Tasks

\* Nobody is debited more than they asked to send, however dust, the OFT fee
\* and the token's transfer fee interact.
DebitWithinAsked ==
    task # Idle =>
        task.receipt.amount_sent_ld <= task.request.amount_ld

\* The fee details explain the difference between what is debited and what is
\* received, and the token's share is exactly what the token program withholds.
DetailsAddUp ==
    task # Idle =>
        LET r == task.receipt
        IN  /\ TokenFeeDetail(r) = WithheldFee(task.token_fee, r.amount_sent_ld)
            /\ r.amount_sent_ld - r.amount_received_ld
                  = TokenFeeDetail(r) + CrossChainFeeDetail(r)

\* The message in shared decimals loses nothing of what is to be received.
MessageCarriesAll ==
    task # Idle =>
        LET rate == oft.ld2sd_rate
            got  == task.receipt.amount_received_ld
        IN  Sd2Ld(Ld2Sd(got, rate), rate) = got

\* The debit is the least from which the receiver and the OFT fee can be paid
\* after the token's transfer fee (a definition that tries every smaller one).
DebitIsLeast ==
    task # Idle =>
        LET r == task.receipt
        IN  \A less \in 0 .. r.amount_sent_ld - 1 :
               PostFeeAmount(task.token_fee, less)
                  < r.amount_received_ld + r.oft_fee_ld

\* Without a minimum the task asks for all of the amount: then it is debited
\* and received whole, and any dust or fee, even one that came into force after
\* the quote, keeps the transfer from happening.
DefaultMinimumIsExact ==
    task # Idle /\ task.request.min_amount_ld = task.request.amount_ld =>
        /\ task.receipt.amount_sent_ld = task.request.amount_ld
        /\ task.receipt.amount_received_ld = task.request.amount_ld

\* msg_codec::encode takes an `amount_sd`: the messages that are priced and sent
\* carry the amount in shared decimals.
MessagesCarryShared ==
    task # Idle =>
        task.message_amount =
            Ld2Sd(task.receipt.amount_received_ld, oft.ld2sd_rate)

=============================================================================
