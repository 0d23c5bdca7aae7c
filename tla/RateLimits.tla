----------------------------- MODULE RateLimits -----------------------------
(***************************************************************************)
(* The token-bucket rate limiter of a peer, as operators on the RateLimiter *)
(* struct.  `now` is the Clock sysvar's unix timestamp.  Each operator is   *)
(* the struct a method leaves behind; CanConsume is the condition under     *)
(* which try_consume returns Ok.                                            *)
(***************************************************************************)
EXTENDS Amounts

RateLimiters ==
    [capacity : U64, tokens : U64, refill_per_second : U64,
     last_refill_time : Nat]

\* The clock-driven bucket (module TokenBucket) that a limiter stands for.
Buckets == [capacity : U64, level : U64, rate : U64]

ASSUME RateLimitsAssumption == None \notin RateLimiters \cup Buckets

\* RateLimiter::default()
DefaultRateLimiter ==
    [capacity |-> 0, tokens |-> 0, refill_per_second |-> 0,
     last_refill_time |-> 0]

SaturatingAdd(a, b) == Smaller(a + b, MaxU64)
SaturatingMul(a, b) == Smaller(a * b, MaxU64)

\* The tokens that the time since the last refill has earned.
EarnedTokens(limiter, now) ==
    IF now > limiter.last_refill_time
    THEN SaturatingMul(now - limiter.last_refill_time,
                       limiter.refill_per_second)
    ELSE 0

Refill(limiter, now, extra_tokens) ==
    [limiter EXCEPT
        !.tokens = Smaller(limiter.capacity,
                           SaturatingAdd(@, SaturatingAdd(extra_tokens,
                                             EarnedTokens(limiter, now)))),
        !.last_refill_time = now]

\* Variant: the new rate applies to the time that has already passed.
SetRateUnsettled(limiter, now, refill_per_second) ==
    [limiter EXCEPT !.refill_per_second = refill_per_second]

SetRate(limiter, now, refill_per_second) ==
    [Refill(limiter, now, 0) EXCEPT !.refill_per_second = refill_per_second]

SetCapacity(limiter, now, capacity) ==
    [limiter EXCEPT !.capacity = capacity,
                    !.tokens = capacity,
                    !.last_refill_time = now]

CanConsume(limiter, now, amount) == amount <= Refill(limiter, now, 0).tokens

TryConsume(limiter, now, amount) ==
    [Refill(limiter, now, 0) EXCEPT !.tokens = @ - amount]

-----------------------------------------------------------------------------
(* An optional limiter of a peer.                                          *)

CanConsumeOption(limiter, now, amount) ==
    limiter # None => CanConsume(limiter, now, amount)

TryConsumeOption(limiter, now, amount) ==
    IF limiter = None THEN None ELSE TryConsume(limiter, now, amount)

\* Variant: giving tokens back resets the clock and loses what time has earned.
RefillForgetsTime(limiter, now, amount) ==
    IF limiter = None
    THEN None
    ELSE [limiter EXCEPT
            !.tokens = Smaller(limiter.capacity, SaturatingAdd(@, amount)),
            !.last_refill_time = now]

RefillOption(limiter, now, amount) ==
    IF limiter = None THEN None ELSE Refill(limiter, now, amount)

\* The parameters of SetPeerConfig for a limiter, each of them optional.
RateLimitParams == [refill_per_second : OptionOf(U64), capacity : OptionOf(U64)]

UpdateRateLimiter(limiter, params, now) ==
    IF params = None
    THEN None
    ELSE LET old   == IF limiter = None THEN DefaultRateLimiter ELSE limiter
             sized == IF params.capacity = None
                      THEN old
                      ELSE SetCapacity(old, now, params.capacity)
         IN  IF params.refill_per_second = None
             THEN sized
             ELSE SetRate(sized, now, params.refill_per_second)

-----------------------------------------------------------------------------
(* The bucket that a limiter stands for, brought up to date.              *)

BucketOf(l, now) ==
    IF l = None
    THEN None
    ELSE [capacity |-> l.capacity,
          level    |-> Refill(l, now, 0).tokens,
          rate     |-> l.refill_per_second]

=============================================================================
