-------------------------- MODULE RateLimiterProofs --------------------------
(***************************************************************************)
(* Proofs about the rate limiter: its operators keep the type of a limiter, *)
(* the traffic of a limited direction stays within its allowance, and the   *)
(* limiters of a peer implement buckets that fill by themselves.            *)
(***************************************************************************)
EXTENDS RateLimiter, ArithmeticProofs, TLAPS

-----------------------------------------------------------------------------
(* What the operators on a limiter return.                                 *)

\* Consuming an amount that try_consume allows settles against an allowance that is
\* smaller by that amount.
LEMMA ConsumeKeepsSettled ==
    ASSUME NEW l \in OptionOf(RateLimiters), NEW t \in Nat, NEW a \in Int,
           NEW amount \in Nat,
           Settled(l, t, a), CanConsumeOption(l, t, amount)
    PROVE  /\ TryConsumeOption(l, t, amount) \in OptionOf(RateLimiters)
           /\ Settled(TryConsumeOption(l, t, amount), t,
                      IF l = None THEN 0 ELSE a - amount)
  <1>1. CASE l = None
    BY <1>1 DEF TryConsumeOption, OptionOf, Settled
  <1>2. CASE l # None
    <2>1. /\ l \in RateLimiters
          /\ l.last_refill_time <= t
          /\ l.tokens + l.refill_per_second * (t - l.last_refill_time) <= a
      BY <1>2 DEF OptionOf, Settled
    <2> DEFINE r == Refill(l, t, 0)
               e == l.refill_per_second * (t - l.last_refill_time)
    <2>2. /\ r \in RateLimiters
          /\ r.capacity = l.capacity
          /\ r.last_refill_time = t
          /\ r.tokens = Smaller(l.capacity, l.tokens + 0 + e)
      BY <2>1, RefillIsCappedSum
    <2>3. amount <= r.tokens
      BY <1>2 DEF CanConsumeOption, CanConsume
    <2> DEFINE c == TryConsume(l, t, amount)
    <2>4. c = [r EXCEPT !.tokens = r.tokens - amount]
      BY DEF TryConsume
    <2>5. /\ l.tokens \in Nat /\ l.capacity \in Nat /\ e \in Nat
          /\ MaxU64 \in Nat
      BY <2>1, AmountsAssumption, ProductInNat DEF RateLimiters, U64
    <2>6. r.tokens <= l.tokens + e /\ r.tokens <= l.capacity
      <3> HIDE DEF e, r
      <3> QED BY <2>1, <2>2, <2>5 DEF Smaller, RateLimiters, U64
    <2> HIDE DEF r, e, c
    <2>7. /\ c \in RateLimiters
          /\ c.tokens = r.tokens - amount
          /\ c.capacity = r.capacity
          /\ c.last_refill_time = t
          /\ c.refill_per_second \in Nat
      BY <2>2, <2>3, <2>4, <2>5 DEF RateLimiters, U64
    <2>8. c.refill_per_second * (t - c.last_refill_time) = 0
      BY <2>7
    <2>9. c # None /\ Settled(c, t, a - amount)
      BY <2>1, RateLimitsAssumption, <2>2, <2>5, <2>6, <2>7, <2>8 DEF Settled, e, RateLimiters, U64
    <2> QED BY <1>2, <2>7, <2>9 DEF TryConsumeOption, OptionOf, c
  <1> QED BY <1>1, <1>2

\* Giving an amount back settles against an allowance that is larger by it.
LEMMA RefillKeepsSettled ==
    ASSUME NEW l \in OptionOf(RateLimiters), NEW t \in Nat, NEW a \in Int,
           NEW amount \in Nat,
           Settled(l, t, a)
    PROVE  /\ RefillOption(l, t, amount) \in OptionOf(RateLimiters)
           /\ Settled(RefillOption(l, t, amount), t,
                      IF l = None THEN 0 ELSE a + amount)
  <1>1. CASE l = None
    BY <1>1 DEF RefillOption, OptionOf, Settled
  <1>2. CASE l # None
    <2>1. /\ l \in RateLimiters
          /\ l.last_refill_time <= t
          /\ l.tokens + l.refill_per_second * (t - l.last_refill_time) <= a
      BY <1>2 DEF OptionOf, Settled
    <2> DEFINE r == Refill(l, t, amount)
               e == l.refill_per_second * (t - l.last_refill_time)
    <2>2. /\ r \in RateLimiters
          /\ r.capacity = l.capacity
          /\ r.last_refill_time = t
          /\ r.tokens = Smaller(l.capacity, l.tokens + amount + e)
      BY <2>1, RefillIsCappedSum
    <2>3. /\ l.tokens \in Nat /\ l.capacity \in Nat /\ e \in Nat
          /\ MaxU64 \in Nat /\ r.refill_per_second \in Nat
      BY <2>1, <2>2, AmountsAssumption, ProductInNat DEF RateLimiters, U64
    <2> HIDE DEF e, r
    <2>4. r.tokens <= l.tokens + amount + e /\ r.tokens <= r.capacity
      BY <2>2, <2>3 DEF Smaller
    <2>5. r.refill_per_second * (t - r.last_refill_time) = 0
      BY <2>2, <2>3
    <2>6. r # None /\ Settled(r, t, a + amount)
      BY <2>1, <2>2, <2>3, <2>4, <2>5, RateLimitsAssumption
      DEF Settled, e, RateLimiters, U64
    <2> QED BY <1>2, <2>2, <2>6 DEF RefillOption, OptionOf, r
  <1> QED BY <1>1, <1>2

\* set_peer_config settles: a change of rate against the old allowance, anything
\* else against the tokens it leaves.
LEMMA UpdateKeepsSettled ==
    ASSUME NEW l \in OptionOf(RateLimiters), NEW t \in Nat, NEW a \in Int,
           NEW params \in RateLimitParams \cup {None},
           Settled(l, t, a)
    PROVE  LET u == UpdateRateLimiter(l, params, t)
               rateOnly == params # None /\ l # None /\ params.capacity = None
           IN  /\ u \in OptionOf(RateLimiters)
               /\ Settled(u, t, IF rateOnly THEN a ELSE TokensOf(u))
  <1> DEFINE u == UpdateRateLimiter(l, params, t)
             rateOnly == params # None /\ l # None /\ params.capacity = None
  <1> SUFFICES /\ u \in OptionOf(RateLimiters)
               /\ Settled(u, t, IF rateOnly THEN a ELSE TokensOf(u))
    OBVIOUS
  <1>1. CASE params = None
    BY <1>1 DEF UpdateRateLimiter, OptionOf, Settled, TokensOf
  <1>2. CASE params # None
    <2> DEFINE old == IF l = None THEN DefaultRateLimiter ELSE l
               sized == IF params.capacity = None THEN old
                        ELSE SetCapacity(old, t, params.capacity)
    <2>1. /\ params.capacity \in U64 \cup {None}
          /\ params.refill_per_second \in U64 \cup {None}
      BY <1>2 DEF RateLimitParams, OptionOf
    <2>2. /\ old \in RateLimiters
          /\ old.last_refill_time <= t
          /\ old.tokens <= old.capacity
          /\ l = None => old = DefaultRateLimiter
          /\ l # None => /\ old = l
                         /\ old.tokens + old.refill_per_second
                              * (t - old.last_refill_time) <= a
      BY DefaultIsLimiter DEF OptionOf, Settled, DefaultRateLimiter
    <2>3. u = IF params.refill_per_second = None THEN sized
              ELSE SetRate(sized, t, params.refill_per_second)
      BY <1>2 DEF UpdateRateLimiter
    <2> HIDE DEF u, old
    <2>4. /\ sized \in RateLimiters
          /\ sized.last_refill_time <= t
          /\ sized.tokens <= sized.capacity
          /\ params.capacity = None => sized = old
          /\ params.capacity # None => sized.last_refill_time = t
      <3>1. CASE params.capacity = None
        BY <3>1, <2>2
      <3>2. CASE params.capacity # None
        <4>1. params.capacity \in U64
          BY <3>2, <2>1
        <4> QED BY <3>2, <4>1, <2>2, SetCapacityFacts DEF U64
      <3> QED BY <3>1, <3>2
    <2> HIDE DEF sized
    <2>5. /\ u \in RateLimiters
          /\ u.last_refill_time <= t
          /\ u.tokens <= u.capacity
          /\ params.refill_per_second = None => u = sized
          /\ params.refill_per_second # None =>
               /\ u.last_refill_time = t
               /\ u.tokens <= sized.tokens + sized.refill_per_second
                                * (t - sized.last_refill_time)
      <3>1. CASE params.refill_per_second = None
        BY <3>1, <2>3, <2>4
      <3>2. CASE params.refill_per_second # None
        <4>1. params.refill_per_second \in U64
          BY <3>2, <2>1
        <4> DEFINE e == sized.refill_per_second * (t - sized.last_refill_time)
        <4>2. /\ u \in RateLimiters
              /\ u.capacity = sized.capacity
              /\ u.last_refill_time = t
              /\ u.tokens = Smaller(sized.capacity, sized.tokens + e)
          BY <3>2, <4>1, <2>3, <2>4, SetRateFacts
        <4>3. /\ sized.tokens \in Nat /\ sized.capacity \in Nat /\ e \in Nat
          BY <2>4, AmountsAssumption, ProductInNat DEF RateLimiters, U64
        <4> HIDE DEF e
        <4>4. u.tokens <= sized.tokens + e /\ u.tokens <= u.capacity
          BY <4>2, <4>3 DEF Smaller
        <4> QED BY <3>2, <4>2, <4>4 DEF e
      <3> QED BY <3>1, <3>2
    <2>6. u # None /\ u.tokens \in Nat /\ u.refill_per_second \in Nat
      BY <2>5, RateLimitsAssumption DEF RateLimiters, U64
    <2> HIDE DEF rateOnly
    <2>7. CASE rateOnly
      <3>1. l # None /\ params.capacity = None
        BY <2>7 DEF rateOnly
      <3>2. sized = l /\ l.tokens + l.refill_per_second
                              * (t - l.last_refill_time) <= a
        BY <3>1, <2>2, <2>4
      <3>3. CASE params.refill_per_second = None
        BY <3>2, <3>3, <2>5, <2>6, <2>7 DEF Settled, OptionOf, TokensOf
      <3>4. CASE params.refill_per_second # None
        <4>1. u.tokens <= a
          <5> DEFINE e == l.tokens + l.refill_per_second
                              * (t - l.last_refill_time)
          <5>1. u.tokens <= e /\ e <= a
            BY <3>2, <3>4, <2>5
          <5>2. e \in Int
            <6>1. l \in RateLimiters
              BY <3>1 DEF OptionOf
            <6> QED BY <6>1 DEF RateLimiters, U64
          <5> HIDE DEF e
          <5> QED BY <5>1, <5>2, <2>6
        <4>2. u.refill_per_second * (t - u.last_refill_time) = 0
          BY <3>4, <2>5, <2>6
        <4> QED BY <4>1, <4>2, <2>5, <2>6, <2>7 DEF Settled, OptionOf
      <3> QED BY <3>3, <3>4
    <2>8. CASE ~rateOnly
      <3>1. u.refill_per_second * (t - u.last_refill_time) = 0
        <4>1. CASE params.refill_per_second # None
          BY <4>1, <2>5, <2>6
        <4>2. CASE params.refill_per_second = None /\ params.capacity # None
          BY <4>2, <2>4, <2>5, <2>6
        <4>3. CASE params.refill_per_second = None /\ params.capacity = None
          <5>1. l = None
            BY <1>2, <2>8, <4>3 DEF rateOnly
          <5>2. u = DefaultRateLimiter
            BY <4>3, <5>1, <2>2, <2>4, <2>5
          <5> QED BY <5>2 DEF DefaultRateLimiter
        <4> QED BY <4>1, <4>2, <4>3
      <3> QED BY <2>8, <3>1, <2>5, <2>6 DEF Settled, OptionOf, TokensOf
    <2> QED BY <2>7, <2>8
  <1> QED BY <1>1, <1>2

\* Time that passes is earned by the allowance at the rate in force.
LEMMA ElapseKeepsSettled ==
    ASSUME NEW l \in OptionOf(RateLimiters), NEW t \in Nat, NEW a \in Int,
           NEW u \in Nat, t <= u, Settled(l, t, a)
    PROVE  Settled(l, u, IF l = None THEN 0 ELSE a + RateOf(l) * (u - t))
  <1>1. CASE l = None
    BY <1>1 DEF Settled
  <1>2. CASE l # None
    <2> DEFINE r == l.refill_per_second
               last == l.last_refill_time
    <2>1. r \in Nat /\ last \in Nat /\ l.tokens \in Nat
      BY <1>2, AmountsAssumption DEF OptionOf, RateLimiters, U64
    <2>2. last <= t /\ l.tokens + r * (t - last) <= a /\ l.tokens <= l.capacity
      BY <1>2 DEF Settled
    <2> HIDE DEF r, last
    <2>3. r * (u - last) = r * (t - last) + r * (u - t)
      BY <2>1
    <2>4. r * (t - last) \in Int /\ r * (u - t) \in Int
      BY <2>1
    <2>5. last <= u /\ l.tokens + r * (u - last) <= a + r * (u - t)
      BY <2>1, <2>2, <2>3, <2>4
    <2> QED BY <1>2, <2>2, <2>5 DEF Settled, RateOf, r, last
  <1> QED BY <1>1, <1>2

-----------------------------------------------------------------------------
(* The inductive invariant.                                                *)

\* A send or a receipt keeps both limiters settled.
LEMMA TransferKeepsIInv ==
    ASSUME IInv, NEW d \in Directions, NEW amount \in Amounts,
           Transfer(d, amount)
    PROVE  IInv'
  <1> DEFINE o == Opposite[d]
  <1>1. /\ o \in Directions /\ o # d
        /\ \A x \in Directions : x = d \/ x = o
    BY DEF Opposite, Directions
  <1>2. amount \in Nat
    BY AmountsAssumption, RateLimiterAssumption DEF U64
  <1>3. /\ limiter[d] \in OptionOf(RateLimiters)
        /\ limiter[o] \in OptionOf(RateLimiters)
        /\ allowance[d] \in Int /\ allowance[o] \in Int
        /\ now \in Nat
        /\ Settled(limiter[d], now, allowance[d])
        /\ Settled(limiter[o], now, allowance[o])
    BY <1>1 DEF IInv, TypeOK
  <1>4. /\ CanConsumeOption(limiter[d], now, amount)
        /\ limiter' = [limiter EXCEPT
                         ![d] = TryConsumeOption(limiter[d], now, amount),
                         ![o] = RefillOption(limiter[o], now, amount)]
        /\ allowance' = [allowance EXCEPT ![d] = Adjust(d, -amount),
                                          ![o] = Adjust(o, amount)]
        /\ now' = now
    BY <1>1 DEF Transfer
  <1> HIDE DEF o
  <1>5. /\ limiter \in [Directions -> OptionOf(RateLimiters)]
        /\ allowance \in [Directions -> Int]
    BY DEF IInv, TypeOK
  <1>6. /\ limiter'[d] = TryConsumeOption(limiter[d], now, amount)
        /\ limiter'[o] = RefillOption(limiter[o], now, amount)
        /\ allowance'[d] = IF limiter[d] = None THEN 0
                           ELSE allowance[d] - amount
        /\ allowance'[o] = IF limiter[o] = None THEN 0
                           ELSE allowance[o] + amount
    BY <1>1, <1>2, <1>3, <1>4, <1>5 DEF Adjust
  <1>7. /\ limiter'[d] \in OptionOf(RateLimiters)
        /\ Settled(limiter'[d], now, allowance'[d])
    BY <1>2, <1>3, <1>4, <1>6, ConsumeKeepsSettled
  <1>8. /\ limiter'[o] \in OptionOf(RateLimiters)
        /\ Settled(limiter'[o], now, allowance'[o])
    BY <1>2, <1>3, <1>6, RefillKeepsSettled
  <1>9. TypeOK'
    <2>1. allowance'[d] \in Int /\ allowance'[o] \in Int
      BY <1>2, <1>3, <1>6
    <2> QED BY <1>1, <1>3, <1>4, <1>5, <1>7, <1>8, <2>1 DEF TypeOK
  <1> QED BY <1>1, <1>4, <1>7, <1>8, <1>9 DEF IInv

\* Configuring a limiter keeps both limiters settled.
LEMMA ConfigureKeepsIInv ==
    ASSUME IInv, NEW d \in Directions, NEW params \in ConfigParams,
           Configure(d, params)
    PROVE  IInv'
  <1> DEFINE u == UpdateRateLimiter(limiter[d], params, now)
             rateOnly == params # None /\ limiter[d] # None
                                       /\ params.capacity = None
             a == IF rateOnly THEN allowance[d] ELSE TokensOf(u)
  <1>1. params \in RateLimitParams \cup {None}
    BY RateLimiterAssumption
  <1>2. /\ limiter \in [Directions -> OptionOf(RateLimiters)]
        /\ allowance \in [Directions -> Int]
        /\ now \in Nat
        /\ \A x \in Directions : Settled(limiter[x], now, allowance[x])
    BY DEF IInv, TypeOK
  <1>3. /\ u \in OptionOf(RateLimiters)
        /\ Settled(u, now, a)
    <2>1. /\ limiter[d] \in OptionOf(RateLimiters) /\ allowance[d] \in Int
          /\ Settled(limiter[d], now, allowance[d])
      BY <1>2
    <2> QED BY <1>1, <1>2, <2>1, UpdateKeepsSettled
  <1>4. /\ limiter' = [limiter EXCEPT ![d] = u]
        /\ allowance' = [allowance EXCEPT ![d] = a]
        /\ now' = now
    BY DEF Configure
  <1>5. a \in Int
    <2>1. TokensOf(u) \in Int
      BY <1>3 DEF TokensOf, OptionOf, RateLimiters, U64
    <2> QED BY <1>2, <2>1
  <1> HIDE DEF u, a
  <1>6. TypeOK'
    BY <1>2, <1>3, <1>4, <1>5 DEF TypeOK
  <1>7. ASSUME NEW x \in Directions
        PROVE  Settled(limiter'[x], now', allowance'[x])
    BY <1>2, <1>3, <1>4
  <1> QED BY <1>6, <1>7 DEF IInv

\* Time earns no limiter more than its allowance gains.
LEMMA ElapseKeepsIInv ==
    ASSUME IInv, NEW t \in (now + 1) .. MaxTime, Elapse(t)
    PROVE  IInv'
  <1>1. /\ limiter \in [Directions -> OptionOf(RateLimiters)]
        /\ allowance \in [Directions -> Int]
        /\ now \in Nat
        /\ \A x \in Directions : Settled(limiter[x], now, allowance[x])
    BY DEF IInv, TypeOK
  <1>2. t \in Nat /\ now <= t /\ now' = t /\ limiter' = limiter
    BY <1>1, RateLimiterAssumption DEF Elapse
  <1>3. ASSUME NEW x \in Directions
        PROVE  /\ allowance'[x] \in Int
               /\ Settled(limiter'[x], now', allowance'[x])
    <2>1. /\ limiter[x] \in OptionOf(RateLimiters) /\ allowance[x] \in Int
          /\ Settled(limiter[x], now, allowance[x])
      BY <1>1
    <2>2. allowance'[x] = IF limiter[x] = None THEN 0
                          ELSE allowance[x] + RateOf(limiter[x]) * (t - now)
      BY DEF Elapse, Adjust
    <2>3. RateOf(limiter[x]) \in Int
      BY <2>1 DEF RateOf, OptionOf, RateLimiters, U64
    <2>4. allowance'[x] \in Int
      BY <1>1, <1>2, <2>1, <2>2, <2>3
    <2> QED BY <1>1, <1>2, <2>1, <2>2, <2>4, ElapseKeepsSettled
  <1>4. allowance' \in [Directions -> Int]
    BY <1>3 DEF Elapse
  <1> QED BY <1>1, <1>2, <1>3, <1>4 DEF IInv, TypeOK

\* A peer starts without limiters.
LEMMA InitIInv == Init => IInv
  BY DEF Init, IInv, TypeOK, OptionOf, Settled

\* Every step keeps the inductive invariant.
LEMMA NextIInv == IInv /\ [Next]_vars => IInv'
  <1> SUFFICES ASSUME IInv, [Next]_vars PROVE IInv'
    OBVIOUS
  <1>1. CASE \E d \in Directions, amount \in Amounts : Transfer(d, amount)
    BY <1>1, TransferKeepsIInv
  <1>2. CASE \E d \in Directions, params \in ConfigParams : Configure(d, params)
    BY <1>2, ConfigureKeepsIInv
  <1>3. CASE \E t \in (now + 1) .. MaxTime : Elapse(t)
    BY <1>3, ElapseKeepsIInv
  <1>4. CASE UNCHANGED vars
    BY <1>4 DEF vars, IInv, TypeOK
  <1> QED BY <1>1, <1>2, <1>3, <1>4 DEF Next

\* Every limiter is always settled against its allowance.
THEOREM InductiveInvariant == Spec => []IInv
  BY InitIInv, NextIInv, PTL DEF Spec

\* Every limiter the instructions can leave behind is a well-formed one.
THEOREM TypeCorrect == Spec => []TypeOK
  <1>1. IInv => TypeOK
    BY DEF IInv
  <1> QED BY <1>1, InductiveInvariant, PTL

\* A settled limiter has a non-negative allowance.
LEMMA IInvBoundsFlow == IInv => FlowWithinAllowance
  <1> SUFFICES ASSUME IInv, NEW d \in Directions
               PROVE  allowance[d] >= 0
    BY DEF FlowWithinAllowance
  <1> DEFINE l == limiter[d]
  <1>1. /\ l \in OptionOf(RateLimiters) /\ now \in Nat /\ allowance[d] \in Int
        /\ Settled(l, now, allowance[d])
    BY DEF IInv, TypeOK
  <1>2. CASE l = None
    BY <1>1, <1>2 DEF Settled
  <1>3. CASE l # None
    <2> DEFINE e == l.refill_per_second * (now - l.last_refill_time)
    <2>1. l \in RateLimiters /\ l.last_refill_time <= now
          /\ l.tokens + e <= allowance[d]
      BY <1>1, <1>3 DEF OptionOf, Settled
    <2>2. l.tokens \in Nat /\ e \in Nat
      BY <1>1, <2>1, AmountsAssumption, ProductInNat DEF RateLimiters, U64
    <2> HIDE DEF e
    <2> QED BY <1>1, <2>1, <2>2
  <1> QED BY <1>2, <1>3

\* For every set of amounts and parameters, and however long it runs: the
\* traffic of a limited direction since the admin last filled its bucket never
\* exceeds that filling plus what time earned plus what came back (the
\* bookkeeping of RateLimiter::refill, set_rate and try_consume together).
THEOREM FlowIsLimited == Spec => []FlowWithinAllowance
  BY InductiveInvariant, IInvBoundsFlow, PTL

-----------------------------------------------------------------------------
(* Refinement.                                                             *)

\* The buckets that the limiters stand for.
BucketsOf == [d \in Directions |-> BucketOf(limiter[d], now)]

\* A settled limiter is sound, so that its bucket can be read.
LEMMA LimitersAreSound ==
    ASSUME IInv
    PROVE  /\ now \in Nat
           /\ limiter \in [Directions -> OptionOf(RateLimiters)]
           /\ \A d \in Directions : Sound(limiter[d], now)
  BY DEF IInv, TypeOK, Settled, Sound, Readable, OptionOf

\* The next state's buckets are those of the next state's limiters.
LEMMA NextBuckets ==
    BucketsOf' = [d \in Directions |-> BucketOf(limiter'[d], now')]
  BY DEF BucketsOf, BucketOf

\* A transfer moves its amount between the two buckets.
LEMMA TransferMoves ==
    ASSUME IInv, NEW d \in Directions, NEW amount \in Amounts,
           Transfer(d, amount)
    PROVE  Bucket!Next
  <1> DEFINE o == Opposite[d]
  <1>1. /\ d \in Bucket!Directions
        /\ o = Bucket!Opposite(d)
        /\ o \in Directions
        /\ o # d
        /\ Directions = {d, o}
    BY DEF Directions, Opposite, Bucket!Directions, Bucket!Opposite
  <1>2. amount \in U64 /\ amount \in Nat
    BY AmountsAssumption, RateLimiterAssumption DEF U64
  <1>3. /\ now' = now
        /\ CanConsumeOption(limiter[d], now, amount)
        /\ limiter' = [limiter EXCEPT
                         ![d] = TryConsumeOption(limiter[d], now, amount),
                         ![o] = RefillOption(limiter[o], now, amount)]
    BY DEF Transfer
  <1> HIDE DEF o
  <1>4. /\ limiter'[d] = TryConsumeOption(limiter[d], now, amount)
        /\ limiter'[o] = RefillOption(limiter[o], now, amount)
    BY <1>1, <1>3, LimitersAreSound
  <1>5. /\ BucketsOf[d] # None => amount <= BucketsOf[d].level
        /\ BucketsOf'[d] = DrainedOption(BucketsOf[d], amount)
    BY <1>2, <1>3, <1>4, LimitersAreSound, NextBuckets, ConsumeDrains
    DEF BucketsOf
  <1>6. BucketsOf'[o] = FilledOption(BucketsOf[o], amount)
    BY <1>1, <1>2, <1>3, <1>4, LimitersAreSound, NextBuckets, RefillFills
    DEF BucketsOf
  <1>7. /\ Bucket!Drained(BucketsOf[d], amount)
             = DrainedOption(BucketsOf[d], amount)
        /\ Bucket!Filled(BucketsOf[o], amount)
             = FilledOption(BucketsOf[o], amount)
    BY DEF Bucket!Drained, Bucket!Filled, Bucket!Least, DrainedOption,
           FilledOption, FilledBucket, Smaller
  <1>8. BucketsOf' = [BucketsOf EXCEPT
                        ![d] = Bucket!Drained(BucketsOf[d], amount),
                        ![o] = Bucket!Filled(BucketsOf[o], amount)]
    BY <1>1, <1>5, <1>6, <1>7, NextBuckets DEF BucketsOf
  <1>9. Bucket!Transfer(d, amount)
    BY <1>1, <1>3, <1>5, <1>8 DEF Bucket!Transfer, BucketsOf
  <1> QED BY <1>1, <1>2, <1>9 DEF Bucket!Next

\* set_peer_config configures one bucket, or leaves both alone.
LEMMA ConfigureConfiguresBucket ==
    ASSUME IInv, NEW d \in Directions, NEW params \in ConfigParams,
           Configure(d, params)
    PROVE  Bucket!Next \/ UNCHANGED Bucket!vars
  <1> DEFINE u == UpdateRateLimiter(limiter[d], params, now)
             b == BucketOf(limiter[d], now)
             c == BucketOf(u, now)
  <1>1. params \in RateLimitParams \cup {None}
    BY RateLimiterAssumption
  <1>2. now' = now /\ limiter' = [limiter EXCEPT ![d] = u]
    BY DEF Configure
  <1>3. \/ c = None
        \/ c = b
        \/ \E capacity, rate \in U64 :
             c = [capacity |-> capacity, level |-> capacity, rate |-> rate]
        \/ \E rate \in U64 :
             c = IF b = None
                 THEN [capacity |-> 0, level |-> 0, rate |-> rate]
                 ELSE [b EXCEPT !.rate = rate]
    BY <1>1, LimitersAreSound, UpdateConfigures
  <1> HIDE DEF u
  <1>4. BucketsOf' = [BucketsOf EXCEPT ![d] = c]
    BY <1>2, LimitersAreSound, NextBuckets DEF BucketsOf
  <1>5. BucketsOf[d] = b /\ BucketsOf'[d] = c
    BY <1>4 DEF BucketsOf
  <1> HIDE DEF b, c
  <1>6. CASE c = b
    <2>1. BucketsOf' = BucketsOf
      BY <1>4, <1>5, <1>6 DEF BucketsOf
    <2> QED BY <1>2, <2>1 DEF Bucket!vars, BucketsOf
  <1>7. CASE c # b
    <2>1. \/ c = None
          \/ \E capacity, rate \in U64 : c = Bucket!Resized(capacity, rate)
          \/ \E rate \in U64 : c = Bucket!Rerated(b, rate)
      BY <1>3, <1>7 DEF Bucket!Resized, Bucket!Rerated
    <2>2. Bucket!Configure(d, c)
      BY <1>2, <1>4, <1>5, <2>1 DEF Bucket!Configure, BucketsOf
    <2>3. d \in Bucket!Directions
      BY DEF Directions, Bucket!Directions
    <2> QED BY <1>5, <2>2, <2>3 DEF Bucket!Next, BucketsOf
  <1> QED BY <1>6, <1>7

\* Time fills both buckets.
LEMMA ElapseFills ==
    ASSUME IInv, NEW t \in (now + 1) .. MaxTime, Elapse(t)
    PROVE  Bucket!Next
  <1>1. t \in Nat /\ now < t /\ now' = t /\ limiter' = limiter
    BY LimitersAreSound, RateLimiterAssumption DEF Elapse
  <1>2. ASSUME NEW d \in Directions
        PROVE  BucketOf(limiter'[d], now') =
                 Bucket!Filled(BucketsOf[d],
                               Bucket!RateOf(BucketsOf[d]) * (now' - now))
    <2>1. /\ now \in Nat /\ Sound(limiter[d], now)
          /\ BucketsOf[d] = BucketOf(limiter[d], now)
      BY LimitersAreSound DEF BucketsOf
    <2>2. BucketOf(limiter[d], t) =
            FilledOption(BucketsOf[d],
                         (IF BucketsOf[d] = None THEN 0
                          ELSE BucketsOf[d].rate) * (t - now))
      BY <1>1, <2>1, TimeFillsOption
    <2> QED BY <1>1, <2>2
        DEF Bucket!Filled, Bucket!RateOf, Bucket!Least, FilledOption,
            FilledBucket, Smaller
  <1>3. BucketsOf' = [d \in Directions |->
                        Bucket!Filled(BucketsOf[d],
                                      Bucket!RateOf(BucketsOf[d]) * (now' - now))]
    BY <1>2, NextBuckets
  <1>4. Bucket!Elapse
    BY <1>1, <1>3, LimitersAreSound
    DEF Bucket!Elapse, Bucket!Directions, Directions, BucketsOf
  <1> QED BY <1>4 DEF Bucket!Next

\* Absent limiters stand for absent buckets.
LEMMA InitBuckets == Init => Bucket!Init
  BY DEF Init, Bucket!Init, Bucket!Directions, BucketOf, Directions

\* Every step of the limiters is a step of the buckets, or leaves them alone.
LEMMA BucketStep == IInv /\ [Next]_vars => [Bucket!Next]_(Bucket!vars)
  <1> SUFFICES ASSUME IInv, [Next]_vars
               PROVE  Bucket!Next \/ UNCHANGED Bucket!vars
    OBVIOUS
  <1>1. CASE \E d \in Directions, amount \in Amounts : Transfer(d, amount)
    BY <1>1, TransferMoves
  <1>2. CASE \E d \in Directions, params \in ConfigParams : Configure(d, params)
    BY <1>2, ConfigureConfiguresBucket
  <1>3. CASE \E t \in (now + 1) .. MaxTime : Elapse(t)
    BY <1>3, ElapseFills
  <1>4. CASE UNCHANGED vars
    <2>1. BucketsOf' = BucketsOf /\ now' = now
      BY <1>4, NextBuckets DEF vars, BucketsOf
    <2> QED BY <2>1 DEF Bucket!vars, BucketsOf
  <1> QED BY <1>1, <1>2, <1>3, <1>4 DEF Next

\* The peer's two limiters, refilled only when an instruction touches them,
\* implement two buckets that fill by themselves and trade their levels.
THEOREM LimitersFillByThemselves == Spec => FillsByItself
  BY InitBuckets, BucketStep, InductiveInvariant, PTL
  DEF Spec, FillsByItself, Bucket!Spec
=============================================================================
