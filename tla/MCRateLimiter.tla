--------------------------- MODULE MCRateLimiter ---------------------------
(***************************************************************************)
(* Small instances of RateLimiter and of Throttle for TLC.  The two share no *)
(* state: a behaviour is one of the first or of the second, and the other    *)
(* stays where it began.                                                     *)
(***************************************************************************)
EXTENDS RateLimiter

CONSTANTS Nonces, Sizes, Settings, SendsBack, MaxElapsed

VARIABLES model, inbound, elapsed, verified

Throttled == INSTANCE Throttle

ASSUME ThrottledAssumption == Throttled!ThrottleAssumption

Params(rate, capacity) == [refill_per_second |-> rate, capacity |-> capacity]

\* Capacity and rate together, rate alone, capacity alone, and removal.
MCConfigParams == {Params(1, 2), Params(2, None), Params(None, 3), None}

\* Limits that fit one packet, more of them, or none.
MCSettings == {None, Params(1, 2), Params(None, 1), Params(0, None), Params(1, None)}

limiterVars == <<limiter, now, allowance>>
throttleVars == <<inbound, elapsed, verified>>

EitherInit == model \in {"limiter", "throttle"} /\ Init /\ Throttled!Init

Throttling(A) == model = "throttle" /\ A /\ UNCHANGED <<model, limiterVars>>

EitherNext ==
    \/ model = "limiter" /\ Next /\ UNCHANGED <<model, throttleVars>>
    \/ Throttling(Throttled!Next)

EitherSpec ==
    /\ EitherInit /\ [][EitherNext]_<<model, limiterVars, throttleVars>>
    /\ WF_throttleVars(Throttling(Throttled!Tick))
    /\ \A packet \in Throttled!Packets :
          WF_throttleVars(Throttling(Throttled!LzReceive(packet)))

\* A limit delays and does not lose: unless the admin makes it too small for a
\* packet, or stops refilling it, lz_receive takes the packet in the end or
\* takes others without end (lz_receive.rs:102).
DelayedNotLost == Throttled!DelayedNotLost
=============================================================================
