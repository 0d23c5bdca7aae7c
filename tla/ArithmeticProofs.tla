--------------------------- MODULE ArithmeticProofs ---------------------------
(***************************************************************************)
(* What the operators of the program guarantee for every input: the amounts *)
(* of a transfer, for all decimals, OFT fees and Token-2022 transfer fees;  *)
(* and a rate limiter, for all limiters, amounts and times: what each       *)
(* operator returns, and what it does to the bucket the limiter stands for. *)
(* Then sums over finite sets, which the ledger of the bridge is made of:   *)
(* they need no induction, a smallest counterexample will do.               *)
(***************************************************************************)
EXTENDS RateLimits, FiniteSetTheorems, WellFoundedInduction, TLAPS

-----------------------------------------------------------------------------
(* Arithmetic that the provers need to be told.                            *)

\* The product of two naturals is a natural.
LEMMA ProductInNat ==
  ASSUME NEW a \in Nat, NEW b \in Nat
  PROVE  a * b \in Nat
OBVIOUS

\* Multiplying by a natural keeps the order of two integers.
LEMMA ProductIsMonotone ==
  ASSUME NEW a \in Int, NEW b \in Int, NEW c \in Nat, a <= b
  PROVE  a * c <= b * c
<1>1. PICK k \in Nat : b = a + k
  <2>1. b - a \in Nat /\ b = a + (b - a)
    OBVIOUS
  <2>. QED BY <2>1
<1>2. b * c = a * c + k * c
  BY <1>1
<1>3. k * c \in Nat
  BY ProductInNat
<1>. QED BY <1>2, <1>3

\* Division with a remainder below the divisor.
LEMMA DivisionFacts ==
  ASSUME NEW a \in Nat, NEW b \in Nat \ {0}
  PROVE  /\ a \div b \in Nat
         /\ a % b \in 0 .. (b - 1)
         /\ a = b * (a \div b) + (a % b)
OBVIOUS

\* ceil_div rounds up, by less than one.
LEMMA CeilDivFacts ==
  ASSUME NEW n \in Nat, NEW d \in Nat \ {0}
  PROVE  /\ CeilDiv(n, d) \in Nat
         /\ n <= CeilDiv(n, d) * d
         /\ CeilDiv(n, d) * d < n + d
<1>. DEFINE p == n + d - 1
           q == p \div d
           s == p % d
<1>1. p \in Nat
  OBVIOUS
<1>2. /\ q \in Nat
      /\ s \in 0 .. (d - 1)
      /\ p = d * q + s
  BY <1>1, DivisionFacts
<1>3. CeilDiv(n, d) = q
  BY DEF CeilDiv
<1>4. q * d \in Nat /\ d * q = q * d
  BY <1>2, ProductInNat
<1>5. n <= q * d /\ q * d < n + d
  <2>1. p = n + d - 1
    OBVIOUS
  <2>. HIDE DEF p, q, s
  <2>. QED BY <1>1, <1>2, <1>4, <2>1
<1>. QED BY <1>2, <1>3, <1>5

\* ceil_div is the least that, multiplied by the denominator, reaches n.
LEMMA CeilDivIsLeast ==
  ASSUME NEW n \in Nat, NEW d \in Nat \ {0}, NEW m \in Nat, n <= m * d
  PROVE  CeilDiv(n, d) <= m
<1>. DEFINE c == CeilDiv(n, d)
<1>1. c \in Nat /\ c * d < n + d
  BY CeilDivFacts
<1>. HIDE DEF c
<1>2. SUFFICES ASSUME c > m PROVE FALSE
  <2>1. c <= m
    BY <1>1, <1>2
  <2>. QED BY <2>1 DEF c
<1>3. (m + 1) * d <= c * d
  BY <1>1, <1>2, ProductIsMonotone
<1>4. (m + 1) * d = m * d + d
  OBVIOUS
<1>5. m * d \in Nat /\ c * d \in Nat
  BY <1>1, ProductInNat
<1>. QED BY <1>1, <1>3, <1>4, <1>5

-----------------------------------------------------------------------------
(* Dust, fees and transfers.                                               *)

\* remove_dust leaves a whole number of shared units, and not more than there was.
LEMMA RemoveDustFacts ==
  ASSUME NEW a \in Nat, NEW rate \in Nat \ {0}
  PROVE  /\ RemoveDust(a, rate) \in Nat
         /\ RemoveDust(a, rate) <= a
         /\ RemoveDust(a, rate) = rate * (a \div rate)
         /\ a \div rate \in Nat
<1>. DEFINE q == a \div rate
           s == a % rate
<1>1. q \in Nat /\ s \in 0 .. (rate - 1) /\ a = rate * q + s
  BY DivisionFacts
<1>2. RemoveDust(a, rate) = a - s
  BY DEF RemoveDust
<1>3. rate * q \in Nat
  BY <1>1, ProductInNat
<1>4. a - s = rate * q /\ a - s \in Nat /\ a - s <= a
  <2>. HIDE DEF q, s
  <2>. QED BY <1>1, <1>3
<1>. QED BY <1>1, <1>2, <1>4

\* A whole number of shared units converts to exactly that number.
LEMMA WholeUnits ==
  ASSUME NEW n \in Nat, NEW rate \in Nat \ {0}
  PROVE  (rate * n) \div rate = n
<1>. DEFINE a == rate * n
           q == a \div rate
           s == a % rate
<1>1. a \in Nat
  BY ProductInNat
<1>2. q \in Nat /\ s \in 0 .. (rate - 1) /\ a = rate * q + s
  BY <1>1, DivisionFacts
<1>3. rate * (n - q) = s
  BY <1>2
<1>4. q <= n
  <2>1. SUFFICES ASSUME n + 1 <= q PROVE FALSE
    BY <1>2
  <2>2. (n + 1) * rate <= q * rate
    BY <1>2, <2>1, ProductIsMonotone
  <2>3. (n + 1) * rate = rate * n + rate /\ q * rate = rate * q
    BY <1>2
  <2>4. rate * n \in Nat /\ rate * q \in Nat
    BY <1>2, ProductInNat
  <2>5. rate * n = rate * q + s
    BY <1>2
  <2>. HIDE DEF q, s, a
  <2>. QED BY <1>2, <2>2, <2>3, <2>4, <2>5
<1>5. n <= q
  <2>1. SUFFICES ASSUME q + 1 <= n PROVE FALSE
    BY <1>2
  <2>2. (q + 1) * rate <= n * rate
    BY <1>2, <2>1, ProductIsMonotone
  <2>3. (q + 1) * rate = rate * q + rate /\ n * rate = rate * n
    BY <1>2
  <2>4. rate * n \in Nat /\ rate * q \in Nat
    BY <1>2, ProductInNat
  <2>5. rate * n = rate * q + s
    BY <1>2
  <2>. HIDE DEF q, s, a
  <2>. QED BY <1>2, <2>2, <2>3, <2>4, <2>5
<1>. QED BY <1>2, <1>4, <1>5

\* The OFT fee never exceeds the amount it is taken from.
LEMMA CalculateFeeFacts ==
  ASSUME NEW amount \in Nat, NEW bps \in 0 .. OneInBasisPoints
  PROVE  CalculateFee(amount, bps) \in 0 .. amount
<1>. DEFINE B == OneInBasisPoints
           n == amount * bps
           q == n \div B
           s == n % B
<1>1. B \in Nat \ {0} /\ bps \in Nat /\ bps <= B
  BY AmountsAssumption
<1>2. n \in Nat
  BY <1>1, ProductInNat
<1>3. q \in Nat /\ s \in 0 .. (B - 1) /\ n = B * q + s
  BY <1>1, <1>2, DivisionFacts
<1>4. bps * amount <= B * amount
  BY <1>1, ProductIsMonotone
<1>5. bps * amount = n /\ B * amount = amount * B
  BY <1>1
<1>6. q <= amount
  <2>1. SUFFICES ASSUME amount + 1 <= q PROVE FALSE
    BY <1>3
  <2>2. (amount + 1) * B <= q * B
    BY <1>1, <1>3, <2>1, ProductIsMonotone
  <2>3. (amount + 1) * B = amount * B + B /\ q * B = B * q
    BY <1>1, <1>3
  <2>4. amount * B \in Nat /\ B * q \in Nat
    BY <1>1, <1>3, ProductInNat
  <2>. HIDE DEF q, s, n, B
  <2>. QED BY <1>1, <1>2, <1>3, <1>4, <1>5, <2>2, <2>3, <2>4
<1>. QED BY <1>3, <1>6 DEF CalculateFee

\* What the token program withholds, before and after its maximum: at most the
\* amount itself.
LEMMA WithheldFeeFacts ==
  ASSUME NEW fee \in TransferFees, NEW amount \in Nat
  PROVE  /\ WithheldFee(fee, amount) \in 0 .. amount
         /\ PostFeeAmount(fee, amount) \in 0 .. amount
         /\ WithheldFee(fee, amount) + PostFeeAmount(fee, amount) = amount
<1>. DEFINE B == OneInBasisPoints
           f == fee.transfer_fee_basis_points
           c == CeilDiv(amount * f, B)
<1>1. B \in Nat \ {0} /\ f \in Nat /\ f <= B /\ fee.maximum_fee \in Nat
  BY AmountsAssumption DEF TransferFees, U64
<1>2. amount * f \in Nat
  BY <1>1, ProductInNat
<1>3. amount * f <= amount * B
  <2>1. f * amount <= B * amount
    BY <1>1, ProductIsMonotone
  <2>. QED BY <1>1, <2>1
<1>4. c \in Nat /\ c <= amount
  BY <1>1, <1>2, <1>3, CeilDivFacts, CeilDivIsLeast
<1>5. WithheldFee(fee, amount) = Smaller(c, fee.maximum_fee)
  BY DEF WithheldFee
<1>6. Smaller(c, fee.maximum_fee) \in 0 .. amount
  <2>. HIDE DEF c
  <2>. QED BY <1>1, <1>4 DEF Smaller
<1>. QED BY <1>5, <1>6 DEF PostFeeAmount

\* calculate_pre_fee_amount undoes the transfer fee exactly: of the amount it
\* returns, post_fee_amount arrives, no more and no less.
THEOREM PreFeeIsExact ==
  ASSUME NEW fee \in TransferFees, NEW x \in Nat
  PROVE  /\ PreFeeAmount(fee, x) \in Nat
         /\ PostFeeAmount(fee, PreFeeAmount(fee, x)) = x
<1>. DEFINE B == OneInBasisPoints
           f == fee.transfer_fee_basis_points
           m == fee.maximum_fee
           p == PreFeeAmount(fee, x)
           c == CeilDiv(p * f, B)
<1>1. B \in Nat \ {0} /\ f \in Nat /\ f <= B /\ m \in Nat
  BY AmountsAssumption DEF TransferFees, U64
<1>2. CASE f = 0 \/ x = 0
  <2>1. p = x
    BY <1>2 DEF PreFeeAmount
  <2>2. p * f = 0
    BY <1>1, <1>2, <2>1
  <2>3. c \in Nat /\ c <= 0
    <3>1. c = CeilDiv(0, B)
      BY <2>2
    <3>2. 0 <= 0 * B
      BY <1>1
    <3>3. CeilDiv(0, B) \in Nat /\ CeilDiv(0, B) <= 0
      <4>. HIDE DEF B
      <4>. QED BY <1>1, <3>2, CeilDivFacts, CeilDivIsLeast
    <3>. QED BY <3>1, <3>3
  <2>4. WithheldFee(fee, p) = 0
    <3>. HIDE DEF c
    <3>1. Smaller(c, m) = 0
      BY <1>1, <2>3 DEF Smaller
    <3>. QED BY <3>1 DEF WithheldFee, c
  <2>. HIDE DEF p
  <2>. QED BY <2>1, <2>4 DEF PostFeeAmount, p
<1>3. CASE f = B /\ x # 0
  <2>1. p = x + m
    BY <1>1, <1>3 DEF PreFeeAmount
  <2>2. p \in Nat
    BY <1>1, <2>1
  <2>3. c \in Nat /\ p * f <= c * B
    <3>1. p * f \in Nat
      BY <1>1, <2>2, ProductInNat
    <3>. HIDE DEF p
    <3>. QED BY <1>1, <3>1, CeilDivFacts
  <2>4. p <= c
    <3>1. SUFFICES ASSUME c + 1 <= p PROVE FALSE
      <4>. HIDE DEF p, c
      <4>. QED BY <2>2, <2>3, <3>1
    <3>2. (c + 1) * B <= p * B
      <4>. HIDE DEF p, c
      <4>. QED BY <1>1, <2>2, <2>3, <3>1, ProductIsMonotone
    <3>3. (c + 1) * B = c * B + B
      <4>. HIDE DEF c
      <4>. QED BY <1>1, <2>3
    <3>4. c * B \in Nat /\ p * B \in Nat
      <4>. HIDE DEF p, c
      <4>. QED BY <1>1, <2>2, <2>3, ProductInNat
    <3>. HIDE DEF p, c
    <3>. QED BY <1>1, <1>3, <2>3, <3>2, <3>3, <3>4
  <2>5. WithheldFee(fee, p) = m
    <3>1. WithheldFee(fee, p) = Smaller(c, m)
      BY DEF WithheldFee
    <3>. HIDE DEF c, p, m, f, B
    <3>2. m <= c
      BY <1>1, <2>1, <2>3, <2>4
    <3>. QED BY <1>1, <2>3, <3>1, <3>2 DEF Smaller
  <2>6. PostFeeAmount(fee, p) = p - m
    BY <2>5 DEF PostFeeAmount
  <2>. HIDE DEF p
  <2>. QED BY <1>1, <2>1, <2>2, <2>6 DEF p
<1>4. CASE f # 0 /\ f # B /\ x # 0
  <2>. DEFINE raw == RawPreFeeAmount(fee, x)
              D   == B - f
  <2>1. D \in Nat \ {0} /\ B = D + f
    BY <1>1, <1>4
  <2>2. x * B \in Nat
    BY <1>1, ProductInNat
  <2>3. raw \in Nat /\ x * B <= raw * D /\ raw * D < x * B + D
    <3>1. raw = CeilDiv(x * B, D)
      BY DEF RawPreFeeAmount
    <3>. HIDE DEF D, raw
    <3>. QED BY <2>1, <2>2, <3>1, CeilDivFacts
  <2>4. p = IF raw - x >= m THEN x + m ELSE raw
    BY <1>1, <1>4 DEF PreFeeAmount
  <2>. HIDE DEF raw, D
  <2>5. p \in Nat
    <3>. HIDE DEF p
    <3>. QED BY <1>1, <2>3, <2>4
  <2>6. p * f \in Nat
    BY <1>1, <2>5, ProductInNat
  <2>7. c \in Nat /\ p * f <= c * B /\ c * B < p * f + B
    <3>. HIDE DEF p
    <3>. QED BY <1>1, <2>6, CeilDivFacts
  <2>8. WithheldFee(fee, p) = Smaller(c, m)
    BY DEF WithheldFee
  <2>. HIDE DEF p, c, B, f, m
  <2>9. CASE raw - x >= m
    <3>1. p = x + m
      BY <2>4, <2>9
    \* One token less than p would not do, so the fee on p reaches m.
    <3>2. m <= c
      <4>1. SUFFICES ASSUME c + 1 <= m PROVE FALSE
        BY <1>1, <2>7
      <4>2. (c + 1) * B <= m * B
        BY <1>1, <2>7, <4>1, ProductIsMonotone
      <4>3. (c + 1) * B = c * B + B
        BY <1>1, <2>7
      <4>4. p * f = x * f + m * f
        BY <1>1, <3>1
      <4>5. m * B = m * D + m * f /\ x * B = x * D + x * f
        BY <1>1, <2>1
      <4>6. (x + m) * D <= raw * D
        BY <1>1, <2>1, <2>3, <2>9, ProductIsMonotone
      <4>7. (x + m) * D = x * D + m * D
        BY <1>1, <2>1
      <4>8. /\ x * f \in Nat /\ m * f \in Nat /\ m * B \in Nat /\ c * B \in Nat
            /\ m * D \in Nat /\ x * D \in Nat /\ raw * D \in Nat /\ x * B \in Nat
        BY <1>1, <2>1, <2>3, <2>7, ProductInNat
      <4>. QED BY <1>1, <2>1, <2>3, <2>6, <2>7, <4>2, <4>3, <4>4, <4>5, <4>6, <4>7, <4>8
    <3>3. WithheldFee(fee, p) = m
      BY <1>1, <2>7, <2>8, <3>2 DEF Smaller
    <3>4. PostFeeAmount(fee, p) = x
      BY <1>1, <3>1, <3>3 DEF PostFeeAmount
    <3>. QED BY <2>5, <3>4 DEF p
  <2>10. CASE ~(raw - x >= m)
    <3>1. p = raw
      BY <2>4, <2>10
    <3>2. c = raw - x
      <4>1. p * f = raw * B - raw * D
        BY <1>1, <2>1, <2>3, <3>1
      <4>2. CASE c + 1 <= raw - x
        <5>1. (c + 1) * B <= (raw - x) * B
          BY <1>1, <2>3, <2>7, <4>2, ProductIsMonotone
        <5>2. (c + 1) * B = c * B + B /\ (raw - x) * B = raw * B - x * B
          BY <1>1, <2>3, <2>7
        <5>3. /\ raw * B \in Nat /\ c * B \in Nat /\ raw * D \in Nat /\ x * B \in Nat
          BY <1>1, <2>1, <2>3, <2>7, ProductInNat
        <5>. QED BY <1>1, <2>1, <2>3, <2>7, <4>1, <5>1, <5>2, <5>3
      <4>3. CASE raw - x + 1 <= c
        <5>1. (raw - x + 1) * B <= c * B
          BY <1>1, <2>3, <2>7, <4>3, ProductIsMonotone
        <5>2. (raw - x + 1) * B = raw * B - x * B + B
          BY <1>1, <2>3
        <5>3. /\ raw * B \in Nat /\ c * B \in Nat /\ raw * D \in Nat /\ x * B \in Nat
          BY <1>1, <2>1, <2>3, <2>7, ProductInNat
        <5>. QED BY <1>1, <2>1, <2>3, <2>7, <4>1, <5>1, <5>2, <5>3
      <4>. QED BY <2>3, <2>7, <4>2, <4>3
    <3>3. WithheldFee(fee, p) = raw - x
      BY <1>1, <2>3, <2>7, <2>8, <2>10, <3>2 DEF Smaller
    <3>4. PostFeeAmount(fee, p) = x
      BY <2>3, <3>1, <3>3 DEF PostFeeAmount
    <3>. QED BY <2>5, <3>4 DEF p
  <2>. QED BY <2>9, <2>10
<1>. QED BY <1>1, <1>2, <1>3, <1>4

\* calculate_pre_fee_amount returns the least amount whose transfer leaves
\* post_fee_amount.
THEOREM PreFeeIsLeast ==
  ASSUME NEW fee \in TransferFees, NEW x \in Nat, NEW y \in Nat,
         PostFeeAmount(fee, y) >= x
  PROVE  PreFeeAmount(fee, x) <= y
<1>. DEFINE B == OneInBasisPoints
           f == fee.transfer_fee_basis_points
           m == fee.maximum_fee
           p == PreFeeAmount(fee, x)
           c == CeilDiv(y * f, B)
<1>1. B \in Nat \ {0} /\ f \in Nat /\ f <= B /\ m \in Nat
  BY AmountsAssumption DEF TransferFees, U64
<1>2. PostFeeAmount(fee, y) <= y
  BY WithheldFeeFacts
<1>3. CASE f = 0 \/ x = 0
  <2>1. p = x
    BY <1>3 DEF PreFeeAmount
  <2>2. PostFeeAmount(fee, y) \in Nat
    BY WithheldFeeFacts
  <2>. QED BY <1>2, <2>1, <2>2
<1>4. y * f \in Nat
  BY <1>1, ProductInNat
<1>5. c \in Nat /\ y * f <= c * B
  BY <1>1, <1>4, CeilDivFacts
<1>6. y - Smaller(c, m) >= x
  BY DEF PostFeeAmount, WithheldFee
<1>7. CASE f = B /\ x # 0
  <2>1. p = x + m
    BY <1>1, <1>7 DEF PreFeeAmount
  <2>. HIDE DEF p, c, B, f, m
  <2>2. y <= c
    <3>1. SUFFICES ASSUME c + 1 <= y PROVE FALSE
      BY <1>5
    <3>2. (c + 1) * B <= y * B
      BY <1>1, <1>5, <3>1, ProductIsMonotone
    <3>3. (c + 1) * B = c * B + B
      BY <1>1, <1>5
    <3>4. c * B \in Nat /\ y * B \in Nat
      BY <1>1, <1>5, ProductInNat
    <3>. QED BY <1>1, <1>5, <1>7, <3>2, <3>3, <3>4
  <2>3. Smaller(c, m) = m
    <3>1. m <= c
      BY <1>1, <1>5, <1>6, <1>7, <2>2 DEF Smaller
    <3>. QED BY <1>1, <1>5, <3>1 DEF Smaller
  <2>4. p <= y
    BY <1>1, <1>6, <2>1, <2>3
  <2>. QED BY <2>4 DEF p
<1>8. CASE f # 0 /\ f # B /\ x # 0
  <2>. DEFINE raw == RawPreFeeAmount(fee, x)
              D   == B - f
  <2>1. D \in Nat \ {0} /\ B = D + f
    BY <1>1, <1>8
  <2>2. x * B \in Nat
    BY <1>1, ProductInNat
  <2>3. raw = CeilDiv(x * B, D)
    BY DEF RawPreFeeAmount
  <2>4. raw \in Nat
    <3>. HIDE DEF D, raw
    <3>. QED BY <2>1, <2>2, <2>3, CeilDivFacts
  <2>5. p = IF raw - x >= m THEN x + m ELSE raw
    BY <1>1, <1>8 DEF PreFeeAmount
  <2>. HIDE DEF raw, D, p, c, B, f, m
  <2>6. p <= raw /\ p <= x + m
    BY <1>1, <2>4, <2>5
  <2>7. CASE m <= c
    BY <1>1, <1>5, <1>6, <2>4, <2>5, <2>6, <2>7 DEF Smaller, p
  <2>8. CASE c <= m
    <3>1. y - c >= x
      BY <1>1, <1>5, <1>6, <2>8 DEF Smaller
    <3>2. (x + c) * B <= y * B
      BY <1>1, <1>5, <3>1, ProductIsMonotone
    <3>3. (x + c) * B = x * B + c * B /\ y * B = y * D + y * f
      BY <1>1, <1>5, <2>1
    <3>4. x * B <= y * D
      <4>1. c * B \in Nat /\ y * D \in Nat
        BY <1>1, <1>5, <2>1, ProductInNat
      <4>. QED BY <1>4, <1>5, <2>2, <3>2, <3>3, <4>1
    <3>5. raw <= y
      BY <2>1, <2>2, <2>3, <3>4, CeilDivIsLeast
    <3>. QED BY <2>4, <2>5, <2>6, <3>5, <1>1 DEF p
  <2>. QED BY <1>1, <1>5, <2>7, <2>8
<1>. QED BY <1>1, <1>3, <1>7, <1>8

-----------------------------------------------------------------------------
(* The amounts of one transfer.                                            *)

\* compute_fee_and_adjust_amount, for every amount, kind of OFT, rate and fee:
\* the sender is never debited more than asked; what is debited, less the
\* transfer fee of an adapter's token, is exactly the amount to be received
\* plus the OFT fee; and the amount to be received is a whole number of shared
\* units, so that the message carries all of it.
THEOREM TransferAmounts ==
  ASSUME NEW oft_type \in {"Native", "Adapter"}, NEW rate \in Nat \ {0},
         NEW fee \in TransferFees, NEW bps \in 0 .. OneInBasisPoints,
         NEW amount \in Nat
  PROVE  LET q == ComputeFeeAndAdjustAmount(oft_type, rate, fee, bps, amount)
         IN  /\ q.amount_sent_ld \in 0 .. amount
             /\ q.amount_received_ld \in Nat
             /\ q.oft_fee_ld \in Nat
             /\ q.amount_received_ld + q.oft_fee_ld =
                   IF oft_type = "Adapter"
                   THEN PostFeeAmount(fee, q.amount_sent_ld)
                   ELSE q.amount_sent_ld
             /\ Ld2Sd(q.amount_received_ld, rate) \in Nat
             /\ Sd2Ld(Ld2Sd(q.amount_received_ld, rate), rate)
                   = q.amount_received_ld
<1>. DEFINE base    == IF oft_type = "Adapter" THEN PostFeeAmount(fee, amount)
                                               ELSE amount
           gross   == GrossAmount(oft_type, rate, fee, amount)
           cut     == CalculateFee(gross, bps)
           oft_fee == RemoveDust(cut, rate)
           got     == gross - oft_fee
           sent    == IF oft_type = "Adapter" THEN PreFeeAmount(fee, gross)
                                              ELSE gross
           q == ComputeFeeAndAdjustAmount(oft_type, rate, fee, bps, amount)
<1>1. base \in 0 .. amount
  BY WithheldFeeFacts
<1>2. gross = RemoveDust(base, rate)
  BY DEF GrossAmount
<1>3. /\ gross \in Nat /\ gross <= base
      /\ gross = rate * (base \div rate) /\ base \div rate \in Nat
  <2>. HIDE DEF base
  <2>1. base \in Nat
    BY <1>1
  <2>2. /\ RemoveDust(base, rate) \in Nat /\ RemoveDust(base, rate) <= base
        /\ RemoveDust(base, rate) = rate * (base \div rate)
        /\ base \div rate \in Nat
    BY <2>1, RemoveDustFacts
  <2>. HIDE DEF gross
  <2>. QED BY <1>2, <2>2
<1>4. cut \in 0 .. gross
  <2>. HIDE DEF gross
  <2>. QED BY <1>3, CalculateFeeFacts
<1>5. /\ oft_fee \in Nat /\ oft_fee <= cut
      /\ oft_fee = rate * (cut \div rate) /\ cut \div rate \in Nat
  <2>. HIDE DEF cut, gross
  <2>1. cut \in Nat
    BY <1>3, <1>4
  <2>. QED BY <2>1, RemoveDustFacts
<1>6. /\ q.amount_sent_ld = sent
      /\ q.amount_received_ld = got
      /\ q.oft_fee_ld = oft_fee
  BY DEF ComputeFeeAndAdjustAmount
<1>7. got \in Nat
  <2>. HIDE DEF oft_fee, gross, cut
  <2>. QED BY <1>3, <1>4, <1>5
<1>8. /\ sent \in 0 .. amount
      /\ got + oft_fee = IF oft_type = "Adapter" THEN PostFeeAmount(fee, sent)
                                                  ELSE sent
  <2>1. CASE oft_type = "Adapter"
    <3>1. sent = PreFeeAmount(fee, gross) /\ base = PostFeeAmount(fee, amount)
      BY <2>1
    <3>. HIDE DEF gross, sent, base, oft_fee
    <3>2. sent \in Nat /\ PostFeeAmount(fee, sent) = gross
      BY <1>3, <3>1, PreFeeIsExact
    <3>3. sent <= amount
      BY <1>1, <1>3, <3>1, PreFeeIsLeast
    <3>. QED BY <1>3, <1>5, <2>1, <3>2, <3>3
  <2>2. CASE oft_type # "Adapter"
    <3>1. sent = gross /\ base = amount
      BY <2>2
    <3>. HIDE DEF gross, sent, base, oft_fee
    <3>. QED BY <1>1, <1>3, <1>5, <2>2, <3>1
  <2>. QED BY <2>1, <2>2
<1>9. Ld2Sd(got, rate) \in Nat /\ Sd2Ld(Ld2Sd(got, rate), rate) = got
  <2>. DEFINE n == (base \div rate) - (cut \div rate)
  <2>1. got = rate * n /\ n \in Int
    BY <1>3, <1>5
  <2>2. n \in Nat
    <3>1. SUFFICES ASSUME n + 1 <= 0 PROVE FALSE
      <4>. HIDE DEF n
      <4>. QED BY <2>1
    <3>2. (n + 1) * rate <= 0 * rate
      <4>. HIDE DEF n
      <4>. QED BY <2>1, <3>1, ProductIsMonotone
    <3>3. (n + 1) * rate = rate * n + rate
      <4>. HIDE DEF n
      <4>. QED BY <2>1
    <3>. HIDE DEF n, got
    <3>. QED BY <1>7, <2>1, <3>2, <3>3
  <2>3. got \div rate = n
    <3>. HIDE DEF n, got
    <3>. QED BY <2>1, <2>2, WholeUnits
  <2>. HIDE DEF n, got
  <2>. QED BY <2>1, <2>2, <2>3 DEF Ld2Sd, Sd2Ld
<1>. HIDE DEF sent, got, oft_fee, q
<1>. QED BY <1>5, <1>6, <1>7, <1>8, <1>9 DEF q

-----------------------------------------------------------------------------
(* What the operators return.                                              *)

\* Smaller is the minimum of two integers.
LEMMA MinimumFacts ==
    ASSUME NEW a \in Int, NEW b \in Int
    PROVE  /\ Smaller(a, b) \in Int
           /\ Smaller(a, b) <= a
           /\ Smaller(a, b) <= b
           /\ Smaller(a, b) = a \/ Smaller(a, b) = b
  BY DEF Smaller

\* A limiter filled at a rate and capped at a capacity that fits a u64 holds
\* the smaller of the capacity and the sum: no saturation shows.
LEMMA RefillIsCappedSum ==
    ASSUME NEW l \in RateLimiters, NEW t \in Nat, NEW extra \in Nat,
           l.last_refill_time <= t
    PROVE  /\ Refill(l, t, extra) \in RateLimiters
           /\ Refill(l, t, extra).capacity = l.capacity
           /\ Refill(l, t, extra).refill_per_second = l.refill_per_second
           /\ Refill(l, t, extra).last_refill_time = t
           /\ Refill(l, t, extra).tokens =
                Smaller(l.capacity, l.tokens + extra
                          + l.refill_per_second * (t - l.last_refill_time))
  <1> DEFINE e == l.refill_per_second * (t - l.last_refill_time)
             dt == t - l.last_refill_time
  <1>1. /\ l.capacity \in U64
        /\ l.tokens \in U64
        /\ l.refill_per_second \in U64
        /\ l.last_refill_time \in Nat
    BY DEF RateLimiters
  <1>2. MaxU64 \in Nat
    BY AmountsAssumption
  <1>3. dt \in Nat /\ l.refill_per_second \in Nat
    BY <1>1, <1>2 DEF U64
  <1>4. e \in Nat /\ dt * l.refill_per_second = e
    BY <1>3, ProductInNat
  <1>5. EarnedTokens(l, t) = Smaller(e, MaxU64)
    <2>1. CASE t > l.last_refill_time
      BY <2>1, <1>4 DEF EarnedTokens, SaturatingMul
    <2>2. CASE ~(t > l.last_refill_time)
      <3>1. dt = 0
        BY <2>2, <1>1, <1>3
      <3>2. e = 0
        BY <3>1, <1>3
      <3> HIDE DEF e, dt
      <3> QED BY <2>2, <3>2, <1>2 DEF EarnedTokens, Smaller
    <2> QED BY <2>1, <2>2
  <1>6. DEFINE tokens == Smaller(l.capacity,
                           SaturatingAdd(l.tokens,
                             SaturatingAdd(extra, EarnedTokens(l, t))))
  <1>7. /\ tokens = Smaller(l.capacity, l.tokens + extra + e)
        /\ tokens \in U64
    <2> HIDE DEF e
    <2> QED BY <1>1, <1>2, <1>4, <1>5 DEF U64, SaturatingAdd, Smaller
  <1>8. Refill(l, t, extra) = [l EXCEPT !.tokens = tokens,
                                        !.last_refill_time = t]
    BY DEF Refill
  <1> HIDE DEF tokens, e
  <1> QED BY <1>1, <1>7, <1>8 DEF RateLimiters, e

\* RateLimiter::default() is well-formed.
LEMMA DefaultIsLimiter == DefaultRateLimiter \in RateLimiters
  BY AmountsAssumption DEF DefaultRateLimiter, RateLimiters, U64

\* set_capacity fills the limiter and restarts its clock.
LEMMA SetCapacityFacts ==
    ASSUME NEW l \in RateLimiters, NEW t \in Nat, NEW capacity \in U64
    PROVE  /\ SetCapacity(l, t, capacity) \in RateLimiters
           /\ SetCapacity(l, t, capacity).tokens = capacity
           /\ SetCapacity(l, t, capacity).capacity = capacity
           /\ SetCapacity(l, t, capacity).last_refill_time = t
           /\ SetCapacity(l, t, capacity).refill_per_second
                = l.refill_per_second
  BY DEF SetCapacity, RateLimiters

\* set_rate settles at the old rate before it installs the new one.
LEMMA SetRateFacts ==
    ASSUME NEW l \in RateLimiters, NEW t \in Nat, NEW rate \in U64,
           l.last_refill_time <= t
    PROVE  /\ SetRate(l, t, rate) \in RateLimiters
           /\ SetRate(l, t, rate).capacity = l.capacity
           /\ SetRate(l, t, rate).refill_per_second = rate
           /\ SetRate(l, t, rate).last_refill_time = t
           /\ SetRate(l, t, rate).tokens = Refill(l, t, 0).tokens
           /\ SetRate(l, t, rate).tokens =
                Smaller(l.capacity, l.tokens
                          + l.refill_per_second * (t - l.last_refill_time))
  <1> DEFINE r == Refill(l, t, 0)
             e == l.refill_per_second * (t - l.last_refill_time)
  <1>1. /\ r \in RateLimiters
        /\ r.capacity = l.capacity
        /\ r.last_refill_time = t
        /\ r.tokens = Smaller(l.capacity, l.tokens + 0 + e)
    BY RefillIsCappedSum
  <1>2. l.tokens + 0 + e = l.tokens + e
    <2>1. l.tokens \in Nat /\ e \in Nat
      BY AmountsAssumption, ProductInNat DEF RateLimiters, U64
    <2> QED BY <2>1
  <1>3. SetRate(l, t, rate) = [r EXCEPT !.refill_per_second = rate]
    BY DEF SetRate
  <1> HIDE DEF r
  <1> QED BY <1>1, <1>2, <1>3 DEF RateLimiters, r

-----------------------------------------------------------------------------
(* Refinement: what each operator does to the bucket a limiter stands for. *)

BucketAt(l, t) ==
    [capacity |-> l.capacity,
     level    |-> Refill(l, t, 0).tokens,
     rate     |-> l.refill_per_second]

FilledBucket(b, extra) == [b EXCEPT !.level = Smaller(b.capacity, @ + extra)]

\* A limiter whose fields may be read: the part of IInv the refinement needs.
Readable(l, t) ==
    /\ l \in RateLimiters
    /\ l.last_refill_time <= t
    /\ l.tokens <= l.capacity

\* The level of a limiter's bucket is its stored tokens plus what time has earned,
\* up to the capacity.
LEMMA LevelOfReadable ==
    ASSUME NEW l, NEW t \in Nat, Readable(l, t)
    PROVE  /\ BucketAt(l, t).level =
                Smaller(l.capacity, l.tokens
                          + l.refill_per_second * (t - l.last_refill_time))
           /\ l.last_refill_time = t => BucketAt(l, t).level = l.tokens
           /\ l.refill_per_second * (t - l.last_refill_time) \in Nat
           /\ l.tokens \in Nat
           /\ l.capacity \in Nat
           /\ l.refill_per_second \in Nat
           /\ l.last_refill_time \in Nat
  <1> DEFINE e == l.refill_per_second * (t - l.last_refill_time)
  <1>1. Refill(l, t, 0).tokens = Smaller(l.capacity, l.tokens + 0 + e)
    BY RefillIsCappedSum DEF Readable
  <1>2. /\ l.tokens \in Nat /\ l.capacity \in Nat
        /\ l.refill_per_second \in Nat /\ l.last_refill_time \in Nat
    BY AmountsAssumption DEF Readable, RateLimiters, U64
  <1>3. e \in Nat
    BY <1>2, ProductInNat DEF Readable
  <1>4. l.last_refill_time = t => e = 0
    BY <1>2
  <1> HIDE DEF e
  <1>5. /\ BucketAt(l, t).level = Smaller(l.capacity, l.tokens + e)
        /\ l.last_refill_time = t => BucketAt(l, t).level = l.tokens
    BY <1>1, <1>2, <1>3, <1>4 DEF BucketAt, Smaller, Readable
  <1> QED BY <1>2, <1>3, <1>5 DEF e

\* try_consume takes its amount from the bucket.
LEMMA ConsumeTakes ==
    ASSUME NEW l, NEW t \in Nat, Readable(l, t), NEW amount \in Nat,
           CanConsume(l, t, amount)
    PROVE  /\ amount <= BucketAt(l, t).level
           /\ BucketAt(TryConsume(l, t, amount), t)
                = [BucketAt(l, t) EXCEPT !.level = @ - amount]
  <1> DEFINE r == Refill(l, t, 0)
             c == TryConsume(l, t, amount)
  <1>1. /\ r \in RateLimiters
        /\ r.capacity = l.capacity
        /\ r.refill_per_second = l.refill_per_second
        /\ r.last_refill_time = t
        /\ r.tokens = BucketAt(l, t).level
    BY RefillIsCappedSum DEF Readable, BucketAt
  <1>2. amount <= r.tokens
    BY DEF CanConsume
  <1>3. r.tokens <= r.capacity
    BY <1>1, LevelOfReadable DEF Smaller
  <1>4. c = [r EXCEPT !.tokens = r.tokens - amount]
    BY DEF TryConsume
  <1> HIDE DEF r, c
  <1>5. /\ Readable(c, t)
        /\ c.last_refill_time = t
        /\ c.tokens = r.tokens - amount
        /\ c.capacity = l.capacity
        /\ c.refill_per_second = l.refill_per_second
    BY <1>1, <1>2, <1>3, <1>4, AmountsAssumption
    DEF Readable, RateLimiters, U64
  <1>6. BucketAt(c, t).level = r.tokens - amount
    BY <1>5, LevelOfReadable
  <1> QED BY <1>1, <1>2, <1>5, <1>6 DEF BucketAt, c

\* refill with extra tokens gives them to the bucket.
LEMMA RefillGives ==
    ASSUME NEW l, NEW t \in Nat, Readable(l, t), NEW amount \in Nat
    PROVE  BucketAt(Refill(l, t, amount), t)
             = FilledBucket(BucketAt(l, t), amount)
  <1> DEFINE r == Refill(l, t, amount)
             e == l.refill_per_second * (t - l.last_refill_time)
  <1>1. /\ r \in RateLimiters
        /\ r.capacity = l.capacity
        /\ r.refill_per_second = l.refill_per_second
        /\ r.last_refill_time = t
        /\ r.tokens = Smaller(l.capacity, l.tokens + amount + e)
    BY RefillIsCappedSum DEF Readable
  <1>2. /\ BucketAt(l, t).level = Smaller(l.capacity, l.tokens + e)
        /\ e \in Nat /\ l.tokens \in Nat /\ l.capacity \in Nat
    BY LevelOfReadable
  <1> HIDE DEF r, e
  <1>3. /\ r.tokens <= r.capacity
        /\ r.tokens = Smaller(l.capacity, BucketAt(l, t).level + amount)
    BY <1>1, <1>2 DEF Smaller
  <1>4. BucketAt(r, t).level = r.tokens
    BY <1>1, <1>3, LevelOfReadable DEF Readable
  <1> QED BY <1>1, <1>3, <1>4 DEF BucketAt, FilledBucket, r

\* Letting time pass fills the bucket at its rate.
LEMMA TimeFills ==
    ASSUME NEW l, NEW t \in Nat, NEW u \in Nat, t <= u, Readable(l, t)
    PROVE  BucketAt(l, u) =
             FilledBucket(BucketAt(l, t), BucketAt(l, t).rate * (u - t))
  <1> DEFINE e == l.refill_per_second * (t - l.last_refill_time)
             f == l.refill_per_second * (u - l.last_refill_time)
             g == l.refill_per_second * (u - t)
  <1>1. Readable(l, u)
    <2>1. l.last_refill_time \in Nat
      BY DEF Readable, RateLimiters
    <2> QED BY <2>1 DEF Readable
  <1>2. /\ BucketAt(l, t).level = Smaller(l.capacity, l.tokens + e)
        /\ BucketAt(l, u).level = Smaller(l.capacity, l.tokens + f)
        /\ e \in Nat /\ f \in Nat /\ l.tokens \in Nat /\ l.capacity \in Nat
        /\ l.refill_per_second \in Nat /\ l.last_refill_time \in Nat
    BY <1>1, LevelOfReadable
  <1>3. f = e + g /\ g \in Nat
    BY <1>2, ProductInNat
  <1>4. BucketAt(l, t).rate = l.refill_per_second
    BY DEF BucketAt
  <1> HIDE DEF e, f, g
  <1>5. BucketAt(l, u).level = Smaller(l.capacity, BucketAt(l, t).level + g)
    BY <1>2, <1>3 DEF Smaller
  <1> QED BY <1>4, <1>5 DEF BucketAt, FilledBucket, g

\* A limiter that is configured stands for a bucket.
LEMMA ReadableHasBucket ==
    ASSUME NEW l, NEW t \in Nat, Readable(l, t)
    PROVE  BucketAt(l, t) \in Buckets /\ BucketAt(l, t) # None
  <1>1. BucketAt(l, t).level \in U64
    BY LevelOfReadable, AmountsAssumption
    DEF Smaller, Readable, RateLimiters, U64
  <1> QED BY <1>1, RateLimitsAssumption
    DEF BucketAt, Buckets, Readable, RateLimiters

\* set_peer_config replaces the bucket, or changes its rate and leaves its level.
LEMMA ConfigureConfigures ==
    ASSUME NEW l \in OptionOf(RateLimiters), NEW t \in Nat,
           l # None => Readable(l, t),
           NEW params \in RateLimitParams \cup {None}, params # None,
           NEW u, u = UpdateRateLimiter(l, params, t)
    PROVE  /\ Readable(u, t)
           /\ \/ /\ l # None
                 /\ BucketAt(u, t) = BucketAt(l, t)
              \/ \E capacity, rate \in U64 :
                   BucketAt(u, t) = [capacity |-> capacity, level |-> capacity,
                                     rate |-> rate]
              \/ \E rate \in U64 :
                   BucketAt(u, t) = IF l = None
                                    THEN [capacity |-> 0, level |-> 0,
                                          rate |-> rate]
                                    ELSE [BucketAt(l, t) EXCEPT !.rate = rate]
  <1> DEFINE old == IF l = None THEN DefaultRateLimiter ELSE l
             sized == IF params.capacity = None THEN old
                      ELSE SetCapacity(old, t, params.capacity)
  <1>1. /\ params.capacity \in U64 \cup {None}
        /\ params.refill_per_second \in U64 \cup {None}
    BY DEF RateLimitParams, OptionOf
  <1>2. Readable(old, t)
    BY DefaultIsLimiter DEF OptionOf, Readable, DefaultRateLimiter
  <1>3. l = None => BucketAt(old, t).level = 0
    <2>1. CASE l # None
      BY <2>1
    <2>2. CASE l = None
      <3>1. old = DefaultRateLimiter
        BY <2>2
      <3>2. old.capacity = 0 /\ old.tokens = 0 /\ old.refill_per_second = 0
        BY <3>1 DEF DefaultRateLimiter
      <3> HIDE DEF old
      <3>3. BucketAt(old, t).level = Smaller(0, 0 + 0 * (t - old.last_refill_time))
        BY <1>2, <3>2, LevelOfReadable
      <3>4. old.last_refill_time \in Nat
        BY <1>2, LevelOfReadable
      <3> QED BY <3>3, <3>4 DEF Smaller
    <2> QED BY <2>1, <2>2
  <1>4. /\ l # None => old = l
        /\ l = None => old.capacity = 0 /\ old.refill_per_second = 0
    BY DEF DefaultRateLimiter
  <1>5. u = IF params.refill_per_second = None THEN sized
            ELSE SetRate(sized, t, params.refill_per_second)
    BY DEF UpdateRateLimiter
  <1> HIDE DEF old
  <1>6. CASE params.capacity = None
    <2>1. sized = old
      BY <1>6
    <2> HIDE DEF sized
    <2>2. CASE params.refill_per_second = None
      <3>1. u = old
        BY <1>5, <2>1, <2>2
      <3>2. CASE l = None
        <4>1. BucketAt(u, t) = [capacity |-> 0, level |-> 0, rate |-> 0]
          BY <1>3, <1>4, <3>1, <3>2 DEF BucketAt
        <4>2. 0 \in U64
          BY AmountsAssumption DEF U64
        <4> QED BY <1>2, <3>1, <3>2, <4>1, <4>2
      <3> QED BY <1>2, <1>4, <3>1, <3>2
    <2>3. CASE params.refill_per_second # None
      <3> DEFINE rate == params.refill_per_second
      <3>1. rate \in U64
        BY <1>1, <2>3
      <3>2. /\ u \in RateLimiters
            /\ u.capacity = old.capacity
            /\ u.refill_per_second = rate
            /\ u.last_refill_time = t
            /\ u.tokens = BucketAt(old, t).level
        BY <1>2, <1>5, <2>1, <2>3, <3>1, SetRateFacts DEF Readable, BucketAt
      <3>3. Readable(u, t)
        <4>1. BucketAt(old, t).level <= old.capacity
          BY <1>2, LevelOfReadable DEF Smaller
        <4> QED BY <3>2, <4>1 DEF Readable
      <3>4. BucketAt(u, t) = [capacity |-> old.capacity,
                              level |-> BucketAt(old, t).level,
                              rate |-> rate]
        BY <3>2, <3>3, LevelOfReadable DEF BucketAt
      <3> HIDE DEF rate
      <3>5. BucketAt(u, t) = IF l = None
                             THEN [capacity |-> 0, level |-> 0, rate |-> rate]
                             ELSE [BucketAt(l, t) EXCEPT !.rate = rate]
        BY <1>3, <1>4, <3>4 DEF BucketAt
      <3> QED BY <3>1, <3>3, <3>5
    <2> QED BY <2>2, <2>3
  <1>7. CASE params.capacity # None
    <2> DEFINE capacity == params.capacity
    <2>1. capacity \in U64
      BY <1>1, <1>7
    <2>2. /\ sized \in RateLimiters
          /\ sized.tokens = capacity
          /\ sized.capacity = capacity
          /\ sized.last_refill_time = t
          /\ sized.refill_per_second \in U64
      BY <1>2, <1>7, <2>1, SetCapacityFacts DEF Readable, RateLimiters
    <2> HIDE DEF sized, capacity
    <2>3. /\ Readable(sized, t)
          /\ BucketAt(sized, t).level = capacity
      <3>1. capacity <= capacity
        BY <2>1 DEF U64
      <3>2. Readable(sized, t)
        BY <2>2, <3>1 DEF Readable
      <3> QED BY <2>2, <3>2, LevelOfReadable
    <2>4. CASE params.refill_per_second = None
      <3>1. u = sized
        BY <1>5, <2>4
      <3>2. BucketAt(u, t) = [capacity |-> capacity, level |-> capacity,
                              rate |-> sized.refill_per_second]
        BY <2>2, <2>3, <3>1 DEF BucketAt
      <3> QED BY <2>1, <2>2, <2>3, <3>1, <3>2
    <2>5. CASE params.refill_per_second # None
      <3> DEFINE rate == params.refill_per_second
      <3>1. rate \in U64
        BY <1>1, <2>5
      <3>2. /\ u \in RateLimiters
            /\ u.capacity = capacity
            /\ u.refill_per_second = rate
            /\ u.last_refill_time = t
            /\ u.tokens = capacity
        BY <1>5, <2>2, <2>3, <2>5, <3>1, SetRateFacts DEF Readable, BucketAt
      <3>3. capacity <= capacity
        BY <2>1 DEF U64
      <3>4. Readable(u, t)
        BY <3>2, <3>3 DEF Readable
      <3>5. BucketAt(u, t) = [capacity |-> capacity, level |-> capacity,
                              rate |-> rate]
        BY <3>2, <3>4, LevelOfReadable DEF BucketAt
      <3> QED BY <2>1, <3>1, <3>4, <3>5
    <2> QED BY <2>4, <2>5
  <1> QED BY <1>6, <1>7

-----------------------------------------------------------------------------
(* Optional limiters.                                                      *)

\* An optional limiter that is absent or readable.
Sound(l, t) == l = None \/ Readable(l, t)

\* Consuming keeps an optional limiter sound.
LEMMA ConsumeKeepsSound ==
    ASSUME NEW l, NEW t \in Nat, Sound(l, t), NEW amount \in Nat,
           CanConsumeOption(l, t, amount)
    PROVE  Sound(TryConsumeOption(l, t, amount), t)
  <1>1. CASE l = None
    BY <1>1 DEF Sound, TryConsumeOption
  <1>2. CASE l # None
    <2> DEFINE r == Refill(l, t, 0)
    <2>1. Readable(l, t) /\ amount <= r.tokens
      BY <1>2 DEF Sound, CanConsumeOption, CanConsume
    <2>2. /\ r \in RateLimiters
          /\ r.last_refill_time = t
          /\ r.tokens <= r.capacity
      <3>1. /\ r.capacity = l.capacity /\ r \in RateLimiters
            /\ r.last_refill_time = t
            /\ r.tokens = Smaller(l.capacity,
                                  l.tokens + 0 + l.refill_per_second
                                               * (t - l.last_refill_time))
        BY <2>1, RefillIsCappedSum DEF Readable
      <3>2. r.tokens = BucketAt(l, t).level
        BY DEF BucketAt
      <3>3. BucketAt(l, t).level <= l.capacity
        BY <2>1, LevelOfReadable DEF Smaller
      <3> QED BY <3>1, <3>2, <3>3
    <2>3. TryConsumeOption(l, t, amount) = [r EXCEPT !.tokens = @ - amount]
      BY <1>2 DEF TryConsumeOption, TryConsume
    <2> HIDE DEF r
    <2>4. r.tokens - amount \in U64 /\ r.tokens - amount <= r.capacity
      BY <2>1, <2>2, AmountsAssumption DEF RateLimiters, U64
    <2>5. Readable([r EXCEPT !.tokens = @ - amount], t)
      BY <2>2, <2>4 DEF Readable, RateLimiters
    <2> QED BY <2>3, <2>5 DEF Sound
  <1> QED BY <1>1, <1>2

\* Refilling keeps an optional limiter sound.
LEMMA RefillKeepsSound ==
    ASSUME NEW l, NEW t \in Nat, Sound(l, t), NEW amount \in Nat
    PROVE  Sound(RefillOption(l, t, amount), t)
  <1>1. CASE l = None
    BY <1>1 DEF Sound, RefillOption
  <1>2. CASE l # None
    <2> DEFINE r == Refill(l, t, amount)
               e == l.refill_per_second * (t - l.last_refill_time)
    <2>1. Readable(l, t) /\ r = RefillOption(l, t, amount)
      BY <1>2 DEF Sound, RefillOption
    <2>2. /\ r \in RateLimiters /\ r.capacity = l.capacity
          /\ r.last_refill_time = t
          /\ r.tokens = Smaller(l.capacity, l.tokens + amount + e)
      BY <2>1, RefillIsCappedSum DEF Readable
    <2>3. e \in Nat /\ l.tokens \in Nat /\ l.capacity \in Nat
      BY <2>1, LevelOfReadable
    <2> HIDE DEF r, e
    <2>4. r.tokens <= r.capacity
      BY <2>2, <2>3 DEF Smaller
    <2> QED BY <2>1, <2>2, <2>4 DEF Sound, Readable
  <1> QED BY <1>1, <1>2

\* An update by the admin leaves a sound optional limiter.
LEMMA UpdateKeepsSound ==
    ASSUME NEW l, NEW t \in Nat, Sound(l, t),
           NEW params \in RateLimitParams \cup {None}
    PROVE  Sound(UpdateRateLimiter(l, params, t), t)
  <1>1. CASE params = None
    BY <1>1 DEF Sound, UpdateRateLimiter
  <1>2. CASE params # None
    <2>1. l \in OptionOf(RateLimiters) /\ (l # None => Readable(l, t))
      BY DEF Sound, Readable, OptionOf
    <2>2. Readable(UpdateRateLimiter(l, params, t), t)
      BY <1>2, <2>1, ConfigureConfigures
    <2> QED BY <2>2 DEF Sound
  <1> QED BY <1>1, <1>2

\* A sound limiter stays sound as time passes, and is of the right type.
LEMMA SoundFacts ==
    ASSUME NEW l, NEW t \in Nat, Sound(l, t)
    PROVE  /\ l \in OptionOf(RateLimiters)
           /\ \A u \in Nat : t <= u => Sound(l, u)
  BY DEF Sound, Readable, OptionOf, RateLimiters

-----------------------------------------------------------------------------
(* What the instructions do to the bucket of an optional limiter.          *)

FilledOption(b, extra) == IF b = None THEN None ELSE FilledBucket(b, extra)

DrainedOption(b, amount) ==
    IF b = None THEN None ELSE [b EXCEPT !.level = @ - amount]

\* The bucket of a sound limiter is absent when the limiter is, and only then.
LEMMA SoundBucket ==
    ASSUME NEW l, NEW t \in Nat, Sound(l, t)
    PROVE  /\ l = None => BucketOf(l, t) = None
           /\ l # None => /\ Readable(l, t)
                          /\ BucketOf(l, t) = BucketAt(l, t)
                          /\ BucketOf(l, t) # None
                          /\ BucketOf(l, t) \in Buckets
  <1>1. l # None => Readable(l, t) /\ BucketOf(l, t) = BucketAt(l, t)
    BY DEF Sound, BucketOf, BucketAt
  <1> QED BY <1>1, ReadableHasBucket DEF BucketOf

\* What try_consume allows, the bucket holds, and loses.
LEMMA ConsumeDrains ==
    ASSUME NEW l, NEW t \in Nat, Sound(l, t), NEW amount \in Nat,
           CanConsumeOption(l, t, amount)
    PROVE  /\ BucketOf(l, t) # None => amount <= BucketOf(l, t).level
           /\ BucketOf(TryConsumeOption(l, t, amount), t)
                = DrainedOption(BucketOf(l, t), amount)
  <1>1. CASE l = None
    BY <1>1 DEF BucketOf, TryConsumeOption, DrainedOption
  <1>2. CASE l # None
    <2> DEFINE c == TryConsume(l, t, amount)
    <2>1. /\ Readable(l, t) /\ BucketOf(l, t) = BucketAt(l, t)
          /\ BucketOf(l, t) # None
      BY <1>2, SoundBucket
    <2>2. CanConsume(l, t, amount) /\ TryConsumeOption(l, t, amount) = c
      BY <1>2 DEF CanConsumeOption, TryConsumeOption
    <2>3. /\ amount <= BucketAt(l, t).level
          /\ BucketAt(c, t) = [BucketAt(l, t) EXCEPT !.level = @ - amount]
      BY <2>1, <2>2, ConsumeTakes
    <2>4. c # None
      <3>1. c \in RateLimiters
        BY <2>1, <2>2, RefillIsCappedSum, AmountsAssumption
        DEF TryConsume, CanConsume, Readable, RateLimiters, U64
      <3> QED BY <3>1, RateLimitsAssumption
    <2>5. BucketOf(c, t) = BucketAt(c, t)
      BY <2>4 DEF BucketOf, BucketAt
    <2> QED BY <2>1, <2>2, <2>3, <2>5 DEF DrainedOption
  <1> QED BY <1>1, <1>2

\* What a refill gives, the bucket gains, up to its capacity.
LEMMA RefillFills ==
    ASSUME NEW l, NEW t \in Nat, Sound(l, t), NEW amount \in Nat
    PROVE  BucketOf(RefillOption(l, t, amount), t)
             = FilledOption(BucketOf(l, t), amount)
  <1>1. CASE l = None
    BY <1>1 DEF BucketOf, RefillOption, FilledOption
  <1>2. CASE l # None
    <2> DEFINE r == Refill(l, t, amount)
    <2>1. /\ Readable(l, t) /\ BucketOf(l, t) = BucketAt(l, t)
          /\ BucketOf(l, t) # None
      BY <1>2, SoundBucket
    <2>2. RefillOption(l, t, amount) = r
      BY <1>2 DEF RefillOption
    <2>3. BucketAt(r, t) = FilledBucket(BucketAt(l, t), amount)
      BY <2>1, RefillGives
    <2>4. r # None
      BY <2>1, RefillIsCappedSum, RateLimitsAssumption DEF Readable
    <2>5. BucketOf(r, t) = BucketAt(r, t)
      BY <2>4 DEF BucketOf, BucketAt
    <2> QED BY <2>1, <2>2, <2>3, <2>5 DEF FilledOption
  <1> QED BY <1>1, <1>2

\* The bucket of a limiter that nothing touches fills with time.
LEMMA TimeFillsOption ==
    ASSUME NEW l, NEW t \in Nat, NEW u \in Nat, t <= u, Sound(l, t)
    PROVE  BucketOf(l, u) =
             FilledOption(BucketOf(l, t),
                          (IF BucketOf(l, t) = None THEN 0
                           ELSE BucketOf(l, t).rate) * (u - t))
  <1>1. CASE l = None
    BY <1>1 DEF BucketOf, FilledOption
  <1>2. CASE l # None
    <2>1. /\ Readable(l, t) /\ BucketOf(l, t) = BucketAt(l, t)
          /\ BucketOf(l, t) # None
      BY <1>2, SoundBucket
    <2>2. BucketAt(l, u) =
            FilledBucket(BucketAt(l, t), BucketAt(l, t).rate * (u - t))
      BY <2>1, TimeFills
    <2>3. BucketOf(l, u) = BucketAt(l, u)
      BY <1>2 DEF BucketOf, BucketAt
    <2> QED BY <2>1, <2>2, <2>3 DEF FilledOption
  <1> QED BY <1>1, <1>2

\* set_peer_config removes the bucket, fills a new capacity, changes the rate,
\* or leaves the bucket alone.
LEMMA UpdateConfigures ==
    ASSUME NEW l, NEW t \in Nat, Sound(l, t),
           NEW params \in RateLimitParams \cup {None},
           NEW b, b = BucketOf(l, t),
           NEW c, c = BucketOf(UpdateRateLimiter(l, params, t), t)
    PROVE  \/ c = None
           \/ c = b
           \/ \E capacity, rate \in U64 :
                c = [capacity |-> capacity, level |-> capacity, rate |-> rate]
           \/ \E rate \in U64 :
                c = IF b = None
                    THEN [capacity |-> 0, level |-> 0, rate |-> rate]
                    ELSE [b EXCEPT !.rate = rate]
  <1> DEFINE u == UpdateRateLimiter(l, params, t)
  <1>1. CASE params = None
    BY <1>1 DEF UpdateRateLimiter, BucketOf
  <1>2. CASE params # None
    <2>1. l \in OptionOf(RateLimiters) /\ (l # None => Readable(l, t))
      BY DEF Sound, Readable, OptionOf
    <2>2. /\ Readable(u, t)
          /\ \/ /\ l # None
                /\ BucketAt(u, t) = BucketAt(l, t)
             \/ \E capacity, rate \in U64 :
                  BucketAt(u, t) = [capacity |-> capacity, level |-> capacity,
                                    rate |-> rate]
             \/ \E rate \in U64 :
                  BucketAt(u, t) = IF l = None
                                   THEN [capacity |-> 0, level |-> 0,
                                         rate |-> rate]
                                   ELSE [BucketAt(l, t) EXCEPT !.rate = rate]
      BY <1>2, <2>1, ConfigureConfigures
    <2> HIDE DEF u
    <2>3. u # None /\ c = BucketAt(u, t)
      BY <2>2, RateLimitsAssumption DEF Readable, BucketOf, BucketAt, u
    <2>4. /\ (l = None) <=> (b = None)
          /\ l # None => b = BucketAt(l, t)
      BY SoundBucket
    <2> QED BY <2>2, <2>3, <2>4
  <1> QED BY <1>1, <1>2

-----------------------------------------------------------------------------
(* Sums over finite sets.                                                  *)

\* Any set of naturals has a least element.
LEMMA LeastNat ==
  ASSUME NEW T \in SUBSET Nat, T # {}
  PROVE  \E n \in T : \A m \in T : n <= m
<1>. DEFINE R == OpToRel(<, Nat)
<1>1. \A x, y \in Nat : x < y => <<x, y>> \in R
  BY DEF OpToRel
<1>2. IsWellFoundedOn(R, Nat)
  BY NatLessThanWellFounded, Zenon
<1>. HIDE DEF R
<1>3. PICK n \in T : \A m \in T : ~ (<<m, n>> \in R)
  BY <1>2, WFMin
<1>4. ASSUME NEW m \in T PROVE n <= m
  <2>1. m \in Nat /\ n \in Nat
    OBVIOUS
  <2>2. ~(m < n)
    BY <1>1, <1>3, <2>1
  <2>. QED BY <2>1, <2>2
<1>. QED BY <1>4

\* The size of a finite set is a natural.
LEMMA CardinalityIsNat ==
  ASSUME NEW s, IsFiniteSet(s)
  PROVE  Cardinality(s) \in Nat
BY FS_CardinalityType, Zenon

\* Of any finite sets, one is smallest: the smallest counterexample.
LEMMA SmallestSet ==
  ASSUME NEW B, B # {}, \A s \in B : IsFiniteSet(s)
  PROVE  \E s \in B : \A t \in B : Cardinality(s) <= Cardinality(t)
<1>. DEFINE T == {Cardinality(s) : s \in B}
<1>1. T \in SUBSET Nat /\ T # {}
  BY CardinalityIsNat
<1>2. PICK n \in T : \A m \in T : n <= m
  <2>. HIDE DEF T
  <2>. QED BY <1>1, LeastNat
<1>. QED BY <1>2

\* The equation that FiniteSetsExt solves to sum g over the subsets of S.
First(s) == CHOOSE x \in s : TRUE

IsSum(g, S, h) ==
    h = [s \in SUBSET S |->
            IF s = {} THEN 0 ELSE g[First(s)] + h[s \ {First(s)}]]

\* The sum of g over S.
Total(g, S) == (CHOOSE h : IsSum(g, S, h))[S]

\* Two functions with integer values on a set, that differ at one element.
IntsOn(f, S)        == \A x \in S : f[x] \in Int
SameBut(f, g, S, y) == \A x \in S : x # y => g[x] = f[x]

\* A set without one of its elements is smaller.
LEMMA SmallerSet ==
  ASSUME NEW s, IsFiniteSet(s), NEW x \in s
  PROVE  /\ IsFiniteSet(s \ {x}) /\ Cardinality(s \ {x}) < Cardinality(s)
<1>1. /\ IsFiniteSet(s \ {x})
      /\ Cardinality(s \ {x}) = IF x \in s THEN Cardinality(s) - 1
                                            ELSE Cardinality(s)
  BY FS_RemoveElement, Zenon
<1>2. Cardinality(s) \in Nat
  BY CardinalityIsNat
<1>. QED BY <1>1, <1>2

\* The first element of a set is one of its elements.
LEMMA FirstIn ==
  ASSUME NEW s, s # {}
  PROVE  First(s) \in s
BY DEF First

\* In a sum of integers, any element may be taken first.
LEMMA SumTakes ==
  ASSUME NEW S, IsFiniteSet(S), NEW g, \A x \in S : g[x] \in Int,
         NEW h, IsSum(g, S, h)
  PROVE  \A s \in SUBSET S :
            h[s] \in Int /\ \A x \in s : h[s] = g[x] + h[s \ {x}]
<1>. DEFINE P(s) == h[s] \in Int /\ \A x \in s : h[s] = g[x] + h[s \ {x}]
            B == {s \in SUBSET S : ~P(s)}
<1>0. \A s \in SUBSET S :
         h[s] = IF s = {} THEN 0 ELSE g[First(s)] + h[s \ {First(s)}]
  BY DEF IsSum
<1>1. ASSUME B # {} PROVE FALSE
  <2>1. \A s \in SUBSET S : IsFiniteSet(s)
    BY FS_Subset
  <2>2. PICK s \in B : \A t \in B : Cardinality(s) <= Cardinality(t)
    <3>1. \A t \in B : IsFiniteSet(t)
      BY <2>1
    <3>. HIDE DEF B
    <3>. QED BY <3>1, <1>1, SmallestSet
  <2>3. IsFiniteSet(s) /\ s \in SUBSET S
    BY <2>1, <2>2
  <2>4. \A x \in s : P(s \ {x})
    <3>. SUFFICES ASSUME NEW x \in s PROVE P(s \ {x})
      OBVIOUS
    <3>1. Cardinality(s \ {x}) < Cardinality(s) /\ IsFiniteSet(s \ {x})
      BY <2>3, SmallerSet
    <3>2. s \ {x} \in SUBSET S
      BY <2>3
    <3>3. Cardinality(s) \in Nat /\ Cardinality(s \ {x}) \in Nat
      BY <2>3, <3>1, CardinalityIsNat
    <3>4. s \ {x} \notin B
      <4>. HIDE DEF B
      <4>. QED BY <2>2, <3>1, <3>3
    <3>. QED BY <3>2, <3>4
  <2>5. CASE s = {}
    <3>1. h[s] = 0
      BY <2>3, <2>5, <1>0
    <3>2. P(s)
      BY <2>5, <3>1
    <3>. QED BY <3>2, <2>2
  <2>6. CASE s # {}
    <3>. DEFINE c == First(s)
    <3>1. c \in s /\ h[s] = g[c] + h[s \ {c}]
      BY <2>3, <2>6, <1>0, FirstIn
    <3>. HIDE DEF c
    <3>2. h[s] \in Int /\ g[c] \in Int
      <4>1. P(s \ {c})
        BY <2>4, <3>1
      <4>2. h[s \ {c}] \in Int /\ g[c] \in Int
        BY <4>1, <3>1, <2>3
      <4>. QED BY <4>2, <3>1
    <3>3. ASSUME NEW x \in s, x # c PROVE h[s] = g[x] + h[s \ {x}]
      <4>1. h[s \ {c}] = g[x] + h[(s \ {c}) \ {x}]
        BY <2>4, <3>1, <3>3
      <4>2. h[s \ {x}] = g[c] + h[(s \ {x}) \ {c}]
        BY <2>4, <3>1, <3>3
      <4>3. (s \ {c}) \ {x} = (s \ {x}) \ {c}
        OBVIOUS
      <4>4. g[x] \in Int /\ h[(s \ {c}) \ {x}] \in Int
        <5>1. h[s \ {c}] \in Int /\ g[x] \in Int
          BY <2>4, <3>1, <2>3
        <5>2. (s \ {c}) \ {x} \in SUBSET S
          BY <2>3
        <5>3. h[(s \ {c}) \ {x}] \in Int
          <6>1. Cardinality((s \ {c}) \ {x}) < Cardinality(s)
            <7>1. IsFiniteSet(s \ {c}) /\ Cardinality(s \ {c}) < Cardinality(s)
              BY <2>3, <3>1, SmallerSet
            <7>2. x \in s \ {c}
              BY <3>3
            <7>3. /\ Cardinality((s \ {c}) \ {x}) < Cardinality(s \ {c})
                  /\ IsFiniteSet((s \ {c}) \ {x})
              BY <7>1, <7>2, SmallerSet
            <7>. QED BY <7>1, <7>3, <2>3, CardinalityIsNat
          <6>2. IsFiniteSet((s \ {c}) \ {x})
            BY <5>2, <2>1
          <6>3. (s \ {c}) \ {x} \notin B
            <7>. HIDE DEF B
            <7>. QED BY <2>2, <6>1, <6>2, <2>3, CardinalityIsNat
          <6>. QED BY <5>2, <6>3
        <5>. QED BY <5>1, <5>3
      <4>. DEFINE y == h[(s \ {c}) \ {x}]
      <4>5. y \in Int /\ h[s \ {c}] = g[x] + y /\ h[s \ {x}] = g[c] + y
        BY <4>1, <4>2, <4>3, <4>4
      <4>. HIDE DEF y
      <4>. QED BY <3>1, <3>2, <4>4, <4>5
    <3>4. P(s)
      BY <3>1, <3>2, <3>3
    <3>. QED BY <3>4, <2>2
  <2>. QED BY <2>5, <2>6
<1>. QED BY <1>1

\* Every finite set has a sum: the equation has a solution.
LEMMA SumExists ==
  ASSUME NEW S, IsFiniteSet(S), NEW g
  PROVE  \E h : IsSum(g, S, h)
<1>. DEFINE Upto(n) == {s \in SUBSET S : Cardinality(s) <= n}
            Part(n, h) == h = [s \in Upto(n) |->
                                  IF s = {} THEN 0
                                  ELSE g[First(s)] + h[s \ {First(s)}]]
            B == {n \in Nat : ~ \E h : Part(n, h)}
<1>0. \A s \in SUBSET S : IsFiniteSet(s) /\ Cardinality(s) \in Nat
  BY FS_Subset, CardinalityIsNat
<1>1. ASSUME B # {} PROVE FALSE
  <2>1. PICK n \in B : \A m \in B : n <= m
    <3>1. B \in SUBSET Nat
      OBVIOUS
    <3>. HIDE DEF B
    <3>. QED BY <3>1, <1>1, LeastNat
  <2>2. CASE n = 0
    <3>. DEFINE h == [s \in Upto(0) |-> 0]
    <3>1. \A s \in Upto(0) : s = {}
      BY <1>0, FS_EmptySet
    <3>2. Part(0, h)
      BY <3>1
    <3>. QED BY <3>2, <2>1, <2>2
  <2>3. CASE n # 0
    <3>1. n - 1 \in Nat /\ n - 1 \notin B
      <4>1. n \in Nat
        BY <2>1
      <4>. HIDE DEF B
      <4>. QED BY <2>1, <2>3, <4>1
    <3>2. PICK k : Part(n - 1, k)
      BY <3>1
    <3>. DEFINE h == [s \in Upto(n) |->
                         IF s = {} THEN 0 ELSE g[First(s)] + k[s \ {First(s)}]]
    <3>3. \A s \in Upto(n) : s # {} => s \ {First(s)} \in Upto(n - 1)
      <4>. SUFFICES ASSUME NEW s \in Upto(n), s # {}
                    PROVE  s \ {First(s)} \in Upto(n - 1)
        OBVIOUS
      <4>1. /\ IsFiniteSet(s) /\ First(s) \in s
            /\ s \in SUBSET S /\ Cardinality(s) <= n
        BY <1>0, FirstIn
      <4>2. Cardinality(s \ {First(s)}) < Cardinality(s)
        BY <4>1, SmallerSet
      <4>3. s \ {First(s)} \in SUBSET S
        BY <4>1
      <4>4. /\ Cardinality(s \ {First(s)}) \in Nat
            /\ Cardinality(s) \in Nat /\ n \in Nat
        BY <4>1, <4>3, <1>0, <2>1
      <4>. QED BY <4>1, <4>2, <4>3, <4>4
    <3>4. \A s \in Upto(n - 1) : s \in Upto(n) /\ h[s] = k[s]
      <4>. SUFFICES ASSUME NEW s \in Upto(n - 1)
                    PROVE  s \in Upto(n) /\ h[s] = k[s]
        OBVIOUS
      <4>1. n \in Nat /\ Cardinality(s) \in Nat
        BY <1>0, <2>1
      <4>2. s \in Upto(n)
        BY <4>1
      <4>3. k[s] = IF s = {} THEN 0 ELSE g[First(s)] + k[s \ {First(s)}]
        BY <3>2
      <4>4. h[s] = IF s = {} THEN 0 ELSE g[First(s)] + k[s \ {First(s)}]
        BY <4>2
      <4>. QED BY <4>2, <4>3, <4>4
    <3>5. \A s \in Upto(n) : s # {} => k[s \ {First(s)}] = h[s \ {First(s)}]
      <4>. HIDE DEF h, Upto
      <4>. QED BY <3>3, <3>4
    <3>6. Part(n, h)
      <4>. DEFINE H == h
      <4>1. \A s \in Upto(n) : s # {} => k[s \ {First(s)}] = H[s \ {First(s)}]
        BY <3>5
      <4>. HIDE DEF H
      <4>2. [s \in Upto(n) |->
                IF s = {} THEN 0 ELSE g[First(s)] + k[s \ {First(s)}]]
             = [s \in Upto(n) |->
                   IF s = {} THEN 0 ELSE g[First(s)] + H[s \ {First(s)}]]
        <5>. HIDE DEF Upto
        <5>. QED BY <4>1
      <4>. QED BY <4>2 DEF H
    <3>. QED BY <3>6, <2>1
  <2>. QED BY <2>2, <2>3
<1>2. Cardinality(S) \in Nat /\ Cardinality(S) \notin B
  BY <1>0, <1>1
<1>3. PICK h : Part(Cardinality(S), h)
  BY <1>2
<1>4. Upto(Cardinality(S)) = SUBSET S
  BY FS_Subset
<1>. QED BY <1>3, <1>4 DEF IsSum

\* Two solutions agree wherever the summands do.
LEMMA SumsAgree ==
  ASSUME NEW S, NEW g, NEW h, IsSum(g, S, h),
         NEW T, NEW f, NEW k, IsSum(f, T, k),
         NEW U, IsFiniteSet(U), U \subseteq S, U \subseteq T,
         \A x \in U : g[x] = f[x]
  PROVE  h[U] = k[U]
<1>. DEFINE B == {s \in SUBSET U : h[s] # k[s]}
<1>1. ASSUME B # {} PROVE FALSE
  <2>1. \A t \in B : IsFiniteSet(t)
    BY FS_Subset
  <2>2. PICK s \in B : \A t \in B : Cardinality(s) <= Cardinality(t)
    <3>. HIDE DEF B
    <3>. QED BY <1>1, <2>1, SmallestSet
  <2>3. s \in SUBSET S /\ s \in SUBSET T /\ s \in SUBSET U /\ h[s] # k[s]
    BY <2>2
  <2>4. /\ h[s] = IF s = {} THEN 0 ELSE g[First(s)] + h[s \ {First(s)}]
        /\ k[s] = IF s = {} THEN 0 ELSE f[First(s)] + k[s \ {First(s)}]
    BY <2>3 DEF IsSum
  <2>5. s # {} /\ First(s) \in s
    BY <2>3, <2>4, FirstIn
  <2>. DEFINE rest == s \ {First(s)}
  <2>6. IsFiniteSet(rest) /\ Cardinality(rest) < Cardinality(s)
    BY <2>1, <2>2, <2>5, SmallerSet
  <2>7. rest \notin B
    <3>. HIDE DEF B, rest
    <3>. QED BY <2>1, <2>2, <2>6, CardinalityIsNat
  <2>8. h[rest] = k[rest]
    BY <2>3, <2>7
  <2>. HIDE DEF rest
  <2>9. g[First(s)] = f[First(s)]
    BY <2>3, <2>5
  <2>. QED BY <2>3, <2>4, <2>5, <2>8, <2>9 DEF rest
<1>2. U \notin B
  BY <1>1
<1>. QED BY <1>2

\* Whatever solves the equation of a sum, over more elements too, is the sum.
LEMMA TotalIs ==
  ASSUME NEW S, NEW g, NEW h, IsSum(g, S, h), NEW f,
         NEW U, IsFiniteSet(U), U \subseteq S, \A x \in U : g[x] = f[x]
  PROVE  h[U] = Total(f, U)
<1>1. \E k : IsSum(f, U, k)
  BY SumExists
<1>. DEFINE k == CHOOSE k : IsSum(f, U, k)
<1>2. IsSum(f, U, k)
  BY <1>1
<1>3. Total(f, U) = k[U]
  BY DEF Total
<1>. HIDE DEF k
<1>. QED BY <1>2, <1>3, SumsAgree

\* Nothing adds up to 0.
LEMMA TotalOfNone ==
  ASSUME NEW g
  PROVE  Total(g, {}) = 0
<1>1. IsFiniteSet({})
  BY FS_EmptySet
<1>2. PICK h : IsSum(g, {}, h)
  BY <1>1, SumExists
<1>3. h[{}] = 0
  BY <1>2 DEF IsSum
<1>. QED BY <1>1, <1>2, <1>3, TotalIs

\* A sum depends on the summands alone.
LEMMA TotalAgrees ==
  ASSUME NEW S, IsFiniteSet(S), NEW g, NEW f, \A x \in S : g[x] = f[x]
  PROVE  Total(g, S) = Total(f, S)
<1>1. PICK h : IsSum(g, S, h)
  BY SumExists
<1>. QED BY <1>1, TotalIs

\* Any summand may be taken out of a sum.
LEMMA TotalTakes ==
  ASSUME NEW S, IsFiniteSet(S), NEW g, \A x \in S : g[x] \in Int, NEW y \in S
  PROVE  /\ Total(g, S) \in Int /\ Total(g, S \ {y}) \in Int
         /\ Total(g, S) = g[y] + Total(g, S \ {y})
<1>1. PICK h : IsSum(g, S, h)
  BY SumExists
<1>2. /\ h[S] \in Int /\ h[S \ {y}] \in Int
      /\ h[S] = g[y] + h[S \ {y}]
  <2>1. \A s \in SUBSET S :
           h[s] \in Int /\ \A x \in s : h[s] = g[x] + h[s \ {x}]
    BY <1>1, SumTakes
  <2>2. S \in SUBSET S /\ S \ {y} \in SUBSET S
    OBVIOUS
  <2>. QED BY <2>1, <2>2
<1>3. IsFiniteSet(S \ {y})
  BY SmallerSet
<1>4. h[S] = Total(g, S) /\ h[S \ {y}] = Total(g, S \ {y})
  BY <1>1, <1>3, TotalIs
<1>. QED BY <1>2, <1>4

\* A summand is put in.
LEMMA TotalAdds ==
  ASSUME NEW S, IsFiniteSet(S), NEW g, NEW y, y \notin S,
         \A x \in S \cup {y} : g[x] \in Int
  PROVE  /\ IsFiniteSet(S \cup {y})
         /\ Total(g, S) \in Int
         /\ Total(g, S \cup {y}) = g[y] + Total(g, S)
<1>1. IsFiniteSet(S \cup {y})
  BY FS_AddElement
<1>2. (S \cup {y}) \ {y} = S
  OBVIOUS
<1>. QED BY <1>1, <1>2, TotalTakes

\* A sum of integers is an integer,
LEMMA TotalIsInt ==
  ASSUME NEW S, IsFiniteSet(S), NEW g, \A x \in S : g[x] \in Int
  PROVE  Total(g, S) \in Int
<1>1. PICK h : IsSum(g, S, h)
  BY SumExists
<1>2. h[S] \in Int
  BY <1>1, SumTakes
<1>3. h[S] = Total(g, S)
  BY <1>1, TotalIs
<1>. QED BY <1>2, <1>3

\* and one of naturals a natural.
LEMMA TotalIsNat ==
  ASSUME NEW S, IsFiniteSet(S), NEW g, \A x \in S : g[x] \in Nat
  PROVE  Total(g, S) \in Nat
<1>. DEFINE B == {s \in SUBSET S : Total(g, s) \notin Nat}
<1>1. ASSUME B # {} PROVE FALSE
  <2>1. \A t \in B : IsFiniteSet(t)
    BY FS_Subset
  <2>2. PICK s \in B : \A t \in B : Cardinality(s) <= Cardinality(t)
    <3>. HIDE DEF B
    <3>. QED BY <1>1, <2>1, SmallestSet
  <2>3. s # {}
    BY <2>2, TotalOfNone
  <2>4. PICK y \in s : TRUE
    BY <2>3
  <2>5. /\ Total(g, s) = g[y] + Total(g, s \ {y}) /\ Total(g, s \ {y}) \in Int
    BY <2>1, <2>2, TotalTakes
  <2>6. IsFiniteSet(s \ {y}) /\ Cardinality(s \ {y}) < Cardinality(s)
    BY <2>1, <2>2, SmallerSet
  <2>7. s \ {y} \notin B
    <3>. HIDE DEF B
    <3>. QED BY <2>1, <2>2, <2>6, CardinalityIsNat
  <2>8. Total(g, s \ {y}) \in Nat
    BY <2>2, <2>7
  <2>. QED BY <2>2, <2>5, <2>8
<1>2. S \notin B
  BY <1>1
<1>. QED BY <1>2

\* One summand changes.
LEMMA TotalMoves ==
  ASSUME NEW S, IsFiniteSet(S), NEW f, NEW g, NEW y \in S,
         IntsOn(f, S), IntsOn(g, S), SameBut(f, g, S, y)
  PROVE  /\ Total(f, S) \in Int
         /\ Total(g, S) = Total(f, S) + (g[y] - f[y])
<1>1. IsFiniteSet(S \ {y})
  BY SmallerSet
<1>2. Total(f, S \ {y}) = Total(g, S \ {y})
  BY <1>1, TotalAgrees DEF SameBut
<1>3. /\ Total(f, S \ {y}) \in Int
      /\ Total(f, S) = f[y] + Total(f, S \ {y})
      /\ Total(g, S) = g[y] + Total(g, S \ {y})
  BY TotalTakes DEF IntsOn
<1>4. f[y] \in Int /\ g[y] \in Int
  BY DEF IntsOn
<1>. QED BY <1>2, <1>3, <1>4

\* A summand is new.
LEMMA TotalGrows ==
  ASSUME NEW S, IsFiniteSet(S), NEW f, NEW g, NEW y, y \notin S,
         NEW T, T = S \cup {y}, IntsOn(g, T), SameBut(f, g, S, y)
  PROVE  /\ IsFiniteSet(T)
         /\ Total(f, S) \in Int
         /\ Total(g, T) = Total(f, S) + g[y]
<1>1. Total(f, S) = Total(g, S)
  BY TotalAgrees DEF SameBut
<1>2. /\ IsFiniteSet(S \cup {y})
      /\ Total(g, S) \in Int
      /\ Total(g, S \cup {y}) = g[y] + Total(g, S)
  BY TotalAdds DEF IntsOn
<1>3. g[y] \in Int
  BY DEF IntsOn
<1>. QED BY <1>1, <1>2, <1>3

\* A summand goes.
LEMMA TotalShrinks ==
  ASSUME NEW S, IsFiniteSet(S), NEW f, NEW g, NEW y \in S,
         NEW T, T = S \ {y}, IntsOn(f, S), SameBut(f, g, S, y)
  PROVE  /\ IsFiniteSet(T)
         /\ Total(f, S) \in Int
         /\ Total(g, T) = Total(f, S) - f[y]
<1>1. IsFiniteSet(S \ {y})
  BY SmallerSet
<1>2. Total(f, S \ {y}) = Total(g, S \ {y})
  BY <1>1, TotalAgrees DEF SameBut
<1>3. /\ Total(f, S) \in Int /\ Total(f, S \ {y}) \in Int
      /\ Total(f, S) = f[y] + Total(f, S \ {y})
  BY TotalTakes DEF IntsOn
<1>4. f[y] \in Int
  BY DEF IntsOn
<1>. QED BY <1>1, <1>2, <1>3, <1>4

\* Zeros add up to 0.
LEMMA TotalOfZeros ==
  ASSUME NEW S, IsFiniteSet(S), NEW g, \A x \in S : g[x] = 0
  PROVE  Total(g, S) = 0
<1>. DEFINE B == {s \in SUBSET S : Total(g, s) # 0}
<1>1. ASSUME B # {} PROVE FALSE
  <2>1. \A t \in B : IsFiniteSet(t)
    BY FS_Subset
  <2>2. PICK s \in B : \A t \in B : Cardinality(s) <= Cardinality(t)
    <3>. HIDE DEF B
    <3>. QED BY <1>1, <2>1, SmallestSet
  <2>3. s # {}
    BY <2>2, TotalOfNone
  <2>4. PICK y \in s : TRUE
    BY <2>3
  <2>5. /\ Total(g, s) = g[y] + Total(g, s \ {y}) /\ g[y] = 0
    BY <2>1, <2>2, TotalTakes
  <2>6. IsFiniteSet(s \ {y}) /\ Cardinality(s \ {y}) < Cardinality(s)
    BY <2>1, <2>2, SmallerSet
  <2>7. s \ {y} \notin B
    <3>. HIDE DEF B
    <3>. QED BY <2>1, <2>2, <2>6, CardinalityIsNat
  <2>8. Total(g, s \ {y}) = 0
    BY <2>2, <2>7
  <2>. QED BY <2>2, <2>5, <2>8
<1>2. S \notin B
  BY <1>1
<1>. QED BY <1>2

=============================================================================
