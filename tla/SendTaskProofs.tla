---------------------------- MODULE SendTaskProofs ----------------------------
(***************************************************************************)
(* Proofs about a quoted and sent transfer, for all amounts, decimals and   *)
(* fees.  Whatever the admin and the epoch change in between, each receipt  *)
(* comes out of one evaluation of compute_fee_and_adjust_amount, so its     *)
(* properties are those of TransferAmounts and PreFeeIsLeast.               *)
(***************************************************************************)
EXTENDS SendTask, ArithmeticProofs, TLAPS

IInv ==
    /\ TypeOK
    /\ DebitWithinAsked
    /\ DetailsAddUp
    /\ MessageCarriesAll
    /\ DebitIsLeast
    /\ DefaultMinimumIsExact

\* The receipt of one evaluation has every property.
LEMMA ReceiptFacts ==
  ASSUME TypeOK, NEW amount \in Nat
  PROVE  LET r == Compute(amount)
         IN  /\ r \in Receipts
             /\ TokenFee \in TransferFees
             /\ r.amount_sent_ld <= amount
             /\ r.amount_received_ld + r.oft_fee_ld
                   = PostFeeAmount(TokenFee, r.amount_sent_ld)
             /\ Sd2Ld(Ld2Sd(r.amount_received_ld, oft.ld2sd_rate), oft.ld2sd_rate)
                   = r.amount_received_ld
             /\ \A less \in 0 .. r.amount_sent_ld - 1 :
                   PostFeeAmount(TokenFee, less)
                      < r.amount_received_ld + r.oft_fee_ld
<1>. DEFINE r == Compute(amount)
            rate == oft.ld2sd_rate
            gross == GrossAmount(oft.oft_type, rate, transfer_fee, amount)
<1>1. /\ oft.oft_type \in {"Native", "Adapter"} /\ rate \in Nat \ {0}
      /\ transfer_fee \in TransferFees
      /\ fee_bps \in 0 .. OneInBasisPoints
  <2>1. oft \in OFTKinds /\ fee_bps \in FeeBps /\ transfer_fee \in TransferFeeChoices
    BY DEF TypeOK
  <2>2. oft.oft_type \in {"Native", "Adapter"} /\ rate \in Rates
    BY <2>1 DEF OFTKinds
  <2>3. fee_bps \in 0 .. OneInBasisPoints - 1
    BY <2>1, SendTaskAssumption
  <2>4. fee_bps \in 0 .. OneInBasisPoints
    BY <2>3, AmountsAssumption
  <2>5. rate \in Nat \ {0} /\ transfer_fee \in TransferFees
    BY <2>1, <2>2, SendTaskAssumption
  <2>. QED BY <2>2, <2>4, <2>5
<1>2. NoTransferFee \in TransferFees
  BY AmountsAssumption DEF NoTransferFee, TransferFees, U64
<1>3. TokenFee \in TransferFees
  BY <1>1, <1>2 DEF TokenFee
<1>4. /\ r.amount_sent_ld \in 0 .. amount
      /\ r.amount_received_ld \in Nat
      /\ r.oft_fee_ld \in Nat
      /\ r.amount_received_ld + r.oft_fee_ld =
            IF oft.oft_type = "Adapter"
            THEN PostFeeAmount(transfer_fee, r.amount_sent_ld)
            ELSE r.amount_sent_ld
      /\ Sd2Ld(Ld2Sd(r.amount_received_ld, rate), rate) = r.amount_received_ld
  <2>1. r = ComputeFeeAndAdjustAmount(oft.oft_type, rate, transfer_fee, fee_bps, amount)
    BY DEF Compute
  <2>. HIDE DEF r, rate
  <2>. QED BY <1>1, <2>1, TransferAmounts
<1>5. r \in Receipts
  BY <1>4 DEF Compute, ComputeFeeAndAdjustAmount, Receipts
\* A fee of zero leaves every amount whole.
<1>6. ASSUME NEW a \in Nat
      PROVE  PostFeeAmount(NoTransferFee, a) = a
  <2>1. PreFeeAmount(NoTransferFee, a) = a
    BY DEF PreFeeAmount, NoTransferFee
  <2>. QED BY <1>2, <2>1, PreFeeIsExact
<1>7. r.amount_received_ld + r.oft_fee_ld = PostFeeAmount(TokenFee, r.amount_sent_ld)
  BY <1>4, <1>6 DEF TokenFee
<1>8. ASSUME NEW less \in 0 .. r.amount_sent_ld - 1
      PROVE  PostFeeAmount(TokenFee, less) < r.amount_received_ld + r.oft_fee_ld
  <2>1. less \in Nat /\ less < r.amount_sent_ld
    BY <1>4
  <2>2. CASE oft.oft_type = "Adapter"
    <3>3. gross \in Nat
      <4>1. PostFeeAmount(transfer_fee, amount) \in Nat
        BY <1>1, WithheldFeeFacts
      <4>2. gross = RemoveDust(PostFeeAmount(transfer_fee, amount), rate)
        BY <2>2 DEF GrossAmount
      <4>. HIDE DEF rate, gross
      <4>. QED BY <1>1, <4>1, <4>2, RemoveDustFacts
    <3>1. r.amount_received_ld + r.oft_fee_ld = gross
      <4>1. r.amount_received_ld = gross - r.oft_fee_ld
        BY DEF Compute, ComputeFeeAndAdjustAmount
      <4>. HIDE DEF r, gross
      <4>. QED BY <1>4, <3>3, <4>1
    <3>2. r.amount_sent_ld = PreFeeAmount(transfer_fee, gross)
      BY <2>2 DEF Compute, ComputeFeeAndAdjustAmount
    <3>4. PostFeeAmount(transfer_fee, less) \in Nat
      BY <1>1, <2>1, WithheldFeeFacts
    <3>. HIDE DEF gross, r
    <3>5. ~(PostFeeAmount(transfer_fee, less) >= gross)
      BY <1>1, <1>4, <2>1, <3>2, <3>3, PreFeeIsLeast
    <3>. QED BY <2>2, <3>1, <3>3, <3>4, <3>5 DEF TokenFee
  <2>3. CASE oft.oft_type # "Adapter"
    BY <1>4, <1>6, <2>1, <2>3 DEF TokenFee
  <2>. QED BY <2>2, <2>3
<1>. HIDE DEF r
<1>. QED BY <1>3, <1>4, <1>5, <1>7, <1>8 DEF r

\* Quoting and sending both store such a receipt.
LEMMA AnsweredKeepsIInv ==
  ASSUME IInv, NEW request \in [amount_ld : Nat, min_amount_ld : Nat],
         NEW phase \in {"quoted", "sent"}, NEW message_amount \in Nat,
         Accepted(request), task' = Answered(phase, request, message_amount),
         UNCHANGED <<oft, fee_bps, transfer_fee, paused>>
  PROVE  IInv'
<1>. DEFINE r == Compute(request.amount_ld)
            sent == r.amount_sent_ld
            got  == r.amount_received_ld
            fee  == r.oft_fee_ld
<1>1. /\ r \in Receipts
      /\ TokenFee \in TransferFees
      /\ sent <= request.amount_ld
      /\ got + fee = PostFeeAmount(TokenFee, sent)
      /\ Sd2Ld(Ld2Sd(got, oft.ld2sd_rate), oft.ld2sd_rate) = got
      /\ \A less \in 0 .. sent - 1 : PostFeeAmount(TokenFee, less) < got + fee
  BY ReceiptFacts DEF IInv
<1>2. got >= request.min_amount_ld
  BY DEF Accepted
<1>3. /\ task'.phase = phase /\ task'.request = request
      /\ task'.receipt = r /\ task'.token_fee = TokenFee
      /\ task' = [phase |-> phase, request |-> request, receipt |-> r,
                  token_fee |-> TokenFee, message_amount |-> message_amount]
  BY DEF Answered
<1>4. /\ sent \in Nat /\ got \in Nat /\ fee \in Nat
  BY <1>1 DEF Receipts
<1>. HIDE DEF r
<1>5. TypeOK'
  BY <1>1, <1>3 DEF IInv, TypeOK, Tasks
<1>6. DebitWithinAsked'
  BY <1>1, <1>3 DEF DebitWithinAsked
<1>7. DetailsAddUp'
  <2>1. /\ WithheldFee(TokenFee, sent) \in Nat
        /\ WithheldFee(TokenFee, sent) + (got + fee) = sent
    BY <1>1, <1>4, WithheldFeeFacts
  <2>2. TokenFeeDetail(r) = WithheldFee(TokenFee, sent)
    BY <1>4, <2>1 DEF TokenFeeDetail
  <2>3. sent - got = TokenFeeDetail(r) + CrossChainFeeDetail(r)
    BY <1>4, <2>1, <2>2 DEF CrossChainFeeDetail
  <2>. QED BY <1>3, <2>2, <2>3 DEF DetailsAddUp, TokenFeeDetail, CrossChainFeeDetail
<1>8. MessageCarriesAll'
  BY <1>1, <1>3 DEF MessageCarriesAll
<1>9. DebitIsLeast'
  BY <1>1, <1>3 DEF DebitIsLeast
<1>10. DefaultMinimumIsExact'
  <2>1. WithheldFee(TokenFee, sent) \in Nat /\ sent >= got + fee
    BY <1>1, <1>4, WithheldFeeFacts
  <2>2. request.amount_ld \in Nat /\ request.min_amount_ld \in Nat
    OBVIOUS
  <2>3. request.min_amount_ld = request.amount_ld =>
           sent = request.amount_ld /\ got = request.amount_ld
    BY <1>1, <1>2, <1>4, <2>1, <2>2
  <2>. QED BY <1>3, <2>3 DEF DefaultMinimumIsExact
<1>. QED BY <1>5, <1>6, <1>7, <1>8, <1>9, <1>10 DEF IInv

\* Steps that leave the task and the kind of OFT alone.
LEMMA OthersKeepIInv ==
  ASSUME IInv, TypeOK', UNCHANGED <<oft, task>>
  PROVE  IInv'
  BY DEF IInv, DebitWithinAsked, DetailsAddUp, MessageCarriesAll, DebitIsLeast,
         DefaultMinimumIsExact, TokenFeeDetail, CrossChainFeeDetail

\* Before the first quote there is nothing to check.
LEMMA InitIInv == Init => IInv
<1>. SUFFICES ASSUME Init PROVE IInv
  OBVIOUS
<1>1. task = Idle /\ task.phase # "sent"
  BY DEF Init, Idle
<1>2. TypeOK
  BY DEF Init, TypeOK, Tasks
<1>. QED BY <1>1, <1>2 DEF IInv, DebitWithinAsked, DetailsAddUp,
         MessageCarriesAll, DebitIsLeast, DefaultMinimumIsExact

\* Every step of the task and of its environment keeps the invariant.
LEMMA NextIInv == IInv /\ [Next]_vars => IInv'
<1>. SUFFICES ASSUME IInv, [Next]_vars PROVE IInv'
  OBVIOUS
<1>1. ASSUME NEW amount_ld \in AmountsAsked, NEW min_amount \in MinAmounts,
             QuoteTransfer(amount_ld, min_amount)
      PROVE  IInv'
  <2>. DEFINE request == [amount_ld     |-> amount_ld,
                          min_amount_ld |-> MinOrAll(amount_ld, min_amount)]
  <2>1. request \in [amount_ld : Nat, min_amount_ld : Nat]
    BY SendTaskAssumption DEF MinOrAll
  <2>2. /\ Accepted(request)
        /\ task' = Answered("quoted", request, Compute(amount_ld).amount_received_ld)
        /\ UNCHANGED <<oft, fee_bps, transfer_fee, paused>>
    BY <1>1 DEF QuoteTransfer
  <2>3. Compute(amount_ld).amount_received_ld \in Nat
    BY SendTaskAssumption, ReceiptFacts DEF IInv, Receipts
  <2>. HIDE DEF request
  <2>. QED BY <2>1, <2>2, <2>3, AnsweredKeepsIInv
<1>2. CASE SendTransfer
  <2>1. /\ task \in Tasks /\ task.phase = "quoted" /\ task # Idle
    BY <1>2 DEF SendTransfer, IInv, TypeOK, Idle
  <2>2. task.request \in [amount_ld : Nat, min_amount_ld : Nat]
    BY <2>1 DEF Tasks
  <2>. DEFINE got == Compute(task.request.amount_ld).amount_received_ld
              sd  == Ld2Sd(got, oft.ld2sd_rate)
  <2>3. task' = Answered("sent", task.request, sd)
    BY <1>2 DEF SendTransfer
  <2>4. got \in Nat
    BY <2>2, ReceiptFacts DEF IInv, Receipts
  <2>5. oft.ld2sd_rate \in Nat \ {0}
    BY SendTaskAssumption DEF IInv, TypeOK, OFTKinds
  <2>6. sd \in Nat
    <3>. HIDE DEF got
    <3>. QED BY <2>4, <2>5, DivisionFacts DEF Ld2Sd
  <2>. HIDE DEF sd
  <2>. QED BY <1>2, <2>2, <2>3, <2>6, AnsweredKeepsIInv DEF SendTransfer
<1>3. CASE Finish
  <2>1. task' = Idle /\ task'.phase # "sent"
    BY <1>3 DEF Finish, Idle
  <2>2. TypeOK'
    BY <1>3 DEF Finish, IInv, TypeOK, Tasks
  <2>. QED BY <2>1, <2>2 DEF IInv, DebitWithinAsked, DetailsAddUp,
              MessageCarriesAll, DebitIsLeast, DefaultMinimumIsExact
<1>4. ASSUME NEW bps \in FeeBps, SetFee(bps) PROVE IInv'
  <2>1. TypeOK'
    BY <1>4 DEF SetFee, IInv, TypeOK
  <2>. QED BY <1>4, <2>1, OthersKeepIInv DEF SetFee
<1>5. ASSUME NEW fee \in TransferFeeChoices, NewEpoch(fee) PROVE IInv'
  <2>1. TypeOK'
    BY <1>5 DEF NewEpoch, IInv, TypeOK
  <2>. QED BY <1>5, <2>1, OthersKeepIInv DEF NewEpoch
<1>6. ASSUME NEW p \in BOOLEAN, SetPaused(p) PROVE IInv'
  <2>1. TypeOK'
    BY <1>6 DEF SetPaused, IInv, TypeOK
  <2>. QED BY <1>6, <2>1, OthersKeepIInv DEF SetPaused
<1>7. CASE UNCHANGED vars
  <2>1. TypeOK'
    BY <1>7 DEF vars, IInv, TypeOK
  <2>. QED BY <1>7, <2>1, OthersKeepIInv DEF vars
<1>. QED BY <1>1, <1>2, <1>3, <1>4, <1>5, <1>6, <1>7 DEF Next

\* The inductive invariant holds in every reachable state.
LEMMA InductiveInvariant == Spec => []IInv
  BY InitIInv, NextIInv, PTL DEF Spec

\* A sender is never debited more than asked.
THEOREM DebitIsBounded == Spec => []DebitWithinAsked
<1>1. IInv => DebitWithinAsked
  BY DEF IInv
<1>. QED BY <1>1, InductiveInvariant, PTL

\* The debit is the least that pays the receiver and the OFT fee after the
\* token's transfer fee.
THEOREM DebitIsMinimal == Spec => []DebitIsLeast
<1>1. IInv => DebitIsLeast
  BY DEF IInv
<1>. QED BY <1>1, InductiveInvariant, PTL

\* The fee details of quote_oft are exactly what the sender loses.
THEOREM QuoteIsExplained == Spec => []DetailsAddUp
<1>1. IInv => DetailsAddUp
  BY DEF IInv
<1>. QED BY <1>1, InductiveInvariant, PTL

\* The shared-decimal message carries exactly what the receiver is owed.
THEOREM MessageLosesNothing == Spec => []MessageCarriesAll
<1>1. IInv => MessageCarriesAll
  BY DEF IInv
<1>. QED BY <1>1, InductiveInvariant, PTL

\* Without a minimum, the task sends the whole amount or nothing at all.
THEOREM DefaultIsAllOrNothing == Spec => []DefaultMinimumIsExact
<1>1. IInv => DefaultMinimumIsExact
  BY DEF IInv
<1>. QED BY <1>1, InductiveInvariant, PTL

=============================================================================
