----------------------------- MODULE TokenBucket -----------------------------
(***************************************************************************)
(* What the rate limiters of a peer promise: two buckets, one for each      *)
(* direction, that fill continuously.  A bucket is absent, or has a         *)
(* capacity, a level and a fill rate.  Every second that passes adds `rate` *)
(* to the level, never beyond the capacity; a transfer takes its amount      *)
(* from the bucket of its direction, which must hold it, and gives the same  *)
(* amount to the bucket of the other direction.                              *)
(* The program has no such clock-driven buckets: it brings a stored level up *)
(* to date when the limiter is next touched (module RateLimiter).            *)
(***************************************************************************)
EXTENDS Integers

CONSTANTS Amount,   \* what one step may transfer or configure
          NoBucket

VARIABLES buckets, clock

vars == <<buckets, clock>>

Directions == {"outbound", "inbound"}

Opposite(d) == IF d = "outbound" THEN "inbound" ELSE "outbound"

Least(a, b) == IF a <= b THEN a ELSE b

Filled(b, extra) ==
    IF b = NoBucket
    THEN NoBucket
    ELSE [b EXCEPT !.level = Least(b.capacity, @ + extra)]

Drained(b, amount) ==
    IF b = NoBucket THEN NoBucket ELSE [b EXCEPT !.level = @ - amount]

RateOf(b) == IF b = NoBucket THEN 0 ELSE b.rate

Init == buckets = [d \in Directions |-> NoBucket] /\ clock \in Nat

Elapse ==
    /\ clock' > clock
    /\ buckets' = [d \in Directions |->
                     Filled(buckets[d], RateOf(buckets[d]) * (clock' - clock))]

Transfer(d, amount) ==
    /\ UNCHANGED clock
    /\ buckets[d] # NoBucket => amount <= buckets[d].level
    /\ buckets' = [buckets EXCEPT ![d] = Drained(@, amount),
                                  ![Opposite(d)] = Filled(@, amount)]

\* A new capacity fills the bucket; a new rate alone leaves the level as it
\* is; a bucket that is given a rate and no capacity holds nothing.
Resized(capacity, rate) ==
    [capacity |-> capacity, level |-> capacity, rate |-> rate]

Rerated(b, rate) ==
    IF b = NoBucket THEN Resized(0, rate) ELSE [b EXCEPT !.rate = rate]

Configure(d, b) ==
    /\ UNCHANGED clock
    /\ \/ b = NoBucket
       \/ \E capacity, rate \in Amount : b = Resized(capacity, rate)
       \/ \E rate \in Amount : b = Rerated(buckets[d], rate)
    /\ buckets' = [buckets EXCEPT ![d] = b]

Next ==
    \/ Elapse
    \/ \E d \in Directions, amount \in Amount : Transfer(d, amount)
    \/ \E d \in Directions : Configure(d, buckets'[d])

Spec == Init /\ [][Next]_vars

=============================================================================
