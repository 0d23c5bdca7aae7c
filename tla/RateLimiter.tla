----------------------------- MODULE RateLimiter -----------------------------
(***************************************************************************)
(* The two rate limiters of one peer, driven by the instructions that touch *)
(* them: `send` consumes outbound and refills inbound, `lz_receive` consumes *)
(* inbound and refills outbound, `set_peer_config` creates, changes and      *)
(* removes each of them.                                                     *)
(*                                                                           *)
(* `allowance` is a history variable, no part of the program: for each       *)
(* direction, what the admin granted when the bucket was last filled, plus   *)
(* what time has earned since at the rates then in force, plus what traffic  *)
(* the other way gave back, minus what was used.                             *)
(***************************************************************************)
EXTENDS RateLimits

CONSTANTS
    Amounts,        \* amounts of a send or of a received message
    ConfigParams,   \* the limiter parameters an admin may set
    MaxTime,        \* bound on the clock
    MaxAllowance    \* bound on the allowance that returning traffic builds up

ASSUME RateLimiterAssumption ==
    /\ Amounts \subseteq U64
    /\ ConfigParams \subseteq RateLimitParams \cup {None}
    /\ MaxTime \in Nat
    /\ MaxAllowance \in Nat

VARIABLES
    limiter,    \* outbound_rate_limiter and inbound_rate_limiter of the peer
    now,        \* Clock::get()?.unix_timestamp
    allowance

vars == <<limiter, now, allowance>>

Directions == {"outbound", "inbound"}

Opposite == [outbound |-> "inbound", inbound |-> "outbound"]

TokensOf(l) == IF l = None THEN 0 ELSE l.tokens

RateOf(l) == IF l = None THEN 0 ELSE l.refill_per_second

\* An unlimited direction has no allowance to keep.
Adjust(d, amount) == IF limiter[d] = None THEN 0 ELSE allowance[d] + amount

-----------------------------------------------------------------------------
Init ==
    /\ limiter = [d \in Directions |-> None]
    /\ now = 0
    /\ allowance = [d \in Directions |-> 0]

\* The limiter part of send (d = "outbound") and lz_receive (d = "inbound").
Transfer(d, amount) ==
    LET o == Opposite[d]
    IN  /\ Adjust(o, amount) <= MaxAllowance
        /\ CanConsumeOption(limiter[d], now, amount)
        /\ limiter' = [limiter EXCEPT
                         ![d] = TryConsumeOption(@, now, amount),
                         ![o] = RefillOption(@, now, amount)]
        /\ allowance' = [allowance EXCEPT ![d] = Adjust(d, -amount),
                                          ![o] = Adjust(o, amount)]
        /\ UNCHANGED now

\* set_peer_config with OutboundRateLimit or InboundRateLimit.  An allowance
\* outlives a change of rate; a new capacity or a new limiter starts another.
Configure(d, params) ==
    LET configured == UpdateRateLimiter(limiter[d], params, now)
        rateOnly   == params # None /\ limiter[d] # None
                                    /\ params.capacity = None
    IN  /\ limiter' = [limiter EXCEPT ![d] = configured]
        /\ allowance' = [allowance EXCEPT
                           ![d] = IF rateOnly THEN @ ELSE TokensOf(configured)]
        /\ UNCHANGED now

Elapse(t) ==
    /\ now' = t
    /\ allowance' = [d \in Directions |->
                       Adjust(d, RateOf(limiter[d]) * (t - now))]
    /\ UNCHANGED limiter

Next ==
    \/ \E d \in Directions, amount \in Amounts : Transfer(d, amount)
    \/ \E d \in Directions, params \in ConfigParams : Configure(d, params)
    \/ \E t \in (now + 1) .. MaxTime : Elapse(t)

Spec == Init /\ [][Next]_vars

-----------------------------------------------------------------------------
\* Both limiters are well formed: tokens within their capacity.
TypeOK ==
    /\ limiter \in [Directions -> OptionOf(RateLimiters)]
    /\ now \in Nat
    /\ allowance \in [Directions -> Int]

\* The rate limit proper: whatever the order of sends, receipts, pauses and
\* rate changes, the traffic of a limited direction since the admin last filled
\* its bucket never exceeds that filling, plus what time has earned at the
\* rates in force, plus what came back the other way.
FlowWithinAllowance ==
    \A d \in Directions : allowance[d] >= 0

\* The inductive strengthening: a limiter owes no more than its allowance, not
\* even counting the tokens that time has earned and no refill has added yet.
Settled(l, t, a) ==
    IF l = None
    THEN a = 0
    ELSE /\ l.last_refill_time <= t
         /\ l.tokens <= l.capacity
         /\ l.tokens + l.refill_per_second * (t - l.last_refill_time) <= a

IInv == TypeOK /\ \A d \in Directions : Settled(limiter[d], now, allowance[d])

Bucket == INSTANCE TokenBucket WITH
    Amount <- U64, NoBucket <- None,
    buckets <- [d \in Directions |-> BucketOf(limiter[d], now)], clock <- now

\* The lazily refilled limiters behave like buckets that fill by themselves and
\* trade their levels: storing tokens with a timestamp and settling them on the
\* next touch (and before a rate change) loses no tokens and invents none.
FillsByItself == Bucket!Spec

=============================================================================
