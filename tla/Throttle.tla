------------------------------- MODULE Throttle -------------------------------
(***************************************************************************)
(* What an inbound rate limit does to the packets that wait for it.         *)
(* lz_receive fails, and with it the clearing of the packet, while the      *)
(* limiter holds too little; the executor submits it again.  Only the time   *)
(* since the last refill matters to a limiter, so the clock here is that     *)
(* time, and the model has no last second: a limiter is rebased after every  *)
(* instruction, and a clock that can earn no more stands still.             *)
(***************************************************************************)
EXTENDS RateLimits

CONSTANTS
    Nonces,         \* bound: as many packets wait at a time; a nonce is used again
    Sizes,          \* local amounts they may carry
    Settings,       \* parameters the admin may set
    SendsBack,      \* amounts sent to the remote, which refill the limit
    MaxElapsed      \* bound: by then every limiter of Settings is full

ThrottleAssumption ==
    /\ Sizes \cup SendsBack \subseteq U64
    /\ Settings \subseteq RateLimitParams \cup {None}
    /\ MaxElapsed \in Nat
    /\ \A p \in Settings : p # None /\ p.refill_per_second \notin {None, 0} =>
          MaxElapsed >= MaxU64

VARIABLES
    inbound,    \* inbound_rate_limiter of the peer
    elapsed,    \* seconds since its last refill
    verified    \* packets that wait

vars == <<inbound, elapsed, verified>>

Packets == [nonce : Nonces, amount_ld : Sizes]

Rebase(limiter) == IF limiter = None THEN None ELSE [limiter EXCEPT !.last_refill_time = 0]

Init ==
    /\ inbound = None /\ elapsed = 0
    /\ verified = {}

Verify(packet) ==
    /\ \A p \in verified : p.nonce # packet.nonce
    /\ verified' = verified \cup {packet}
    /\ UNCHANGED <<inbound, elapsed>>

\* Variant: keeps a token in the bucket.
AdmitsLess(amount_ld) == inbound # None => amount_ld < Refill(inbound, elapsed, 0).tokens

Admits(amount_ld) == CanConsumeOption(inbound, elapsed, amount_ld)

LzReceive(packet) ==
    /\ packet \in verified
    /\ Admits(packet.amount_ld)
    /\ inbound' = Rebase(TryConsumeOption(inbound, elapsed, packet.amount_ld))
    /\ elapsed' = 0
    /\ verified' = verified \ {packet}

Send(amount_ld) ==
    /\ inbound' = Rebase(RefillOption(inbound, elapsed, amount_ld))
    /\ elapsed' = 0
    /\ UNCHANGED verified

SetInboundRateLimit(params) ==
    LET updated == UpdateRateLimiter(inbound, params, elapsed)
        touched == params # None /\ params # [refill_per_second |-> None, capacity |-> None]
    IN  /\ inbound' = IF touched THEN Rebase(updated) ELSE updated
        /\ elapsed' = IF touched THEN 0 ELSE elapsed
        /\ UNCHANGED verified

Tick ==
    /\ elapsed < MaxElapsed
    /\ elapsed' = elapsed + 1
    /\ UNCHANGED <<inbound, verified>>

Next ==
    \/ \E packet \in Packets : Verify(packet)
    \/ \E packet \in verified : LzReceive(packet)
    \/ \E amount_ld \in SendsBack : Send(amount_ld)
    \/ \E params \in Settings : SetInboundRateLimit(params)
    \/ Tick

Spec == Init /\ [][Next]_vars

-----------------------------------------------------------------------------
\* A packet for which the limit will do, and which time can earn.
Affordable(packet) ==
    /\ packet \in verified
    /\ inbound # None =>
          /\ packet.amount_ld <= inbound.capacity
          /\ inbound.refill_per_second > 0

\* A limit delays and does not lose, if time passes and the executor submits
\* each packet again and again (WF of Tick and of LzReceive of each packet).
\* Unless the admin makes it too small for a packet, or stops refilling it, the
\* packet is received or others are received without end: neither waiting, nor
\* what is sent back, nor any configuration of the limit starves it.  Other
\* packets can: they may take every token that time earns.
DelayedNotLost ==
    \A packet \in Packets :
        <>[]Affordable(packet) => []<><<\E other \in verified : LzReceive(other)>>_vars
=============================================================================
