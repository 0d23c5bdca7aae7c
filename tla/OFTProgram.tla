------------------------------ MODULE OFTProgram ------------------------------
(***************************************************************************)
(* The Solana OFT program: the OFTStore and PeerConfig accounts, the escrow *)
(* and mint they govern, and one action per instruction.  An instruction    *)
(* that fails reverts everything it did, so a failure is no step here: each *)
(* `require!`, account constraint, overflow-checked operation and failing   *)
(* CPI is a guard of its action.                                            *)
(*                                                                          *)
(* External parts, modelled from how the program uses them: the endpoint    *)
(* (`verified` packets an lz_receive may clear, `outbound` packets it sent,  *)
(* `composes` handed over, the OApp's `delegate`), the token program        *)
(* (`escrow`, `held`, `withheld`, `mint_authority`, `transfer_fee`) and the *)
(* Clock sysvar (`now`).                                                    *)
(***************************************************************************)
EXTENDS RateLimits

CONSTANTS
    Accounts,           \* wallets that may sign: admin, pauser, unpauser...
    Eids,               \* endpoint ids of the remote chains
    Addresses,          \* addresses of OApps on remote chains
    ZeroAddress,        \* [0u8; 32], what a new PeerConfig holds
    Authorities,        \* accounts that can be the mint's authority
    StoreAuthority,     \* the authority the store can sign for: itself, or a
                        \* 1-of-n multisig with the store as a signer
    OpenPaths,          \* <<eid, address>> pairs whose messaging path the
                        \* delegate has initialised at the endpoint
    Scale,              \* Scale[n] is 10^n in the code
    InitialSupply       \* tokens in circulation when the store is created

CONSTANTS               \* the inputs offered to the instructions
    Decimals, SharedDecimals, SendAmounts, MinAmounts, MessageAmounts,
    FeeBps, TransferFeeChoices, LimitParams, OptionItems, WithdrawAmounts,
    Donations, Composed, NewAccounts, Guardians, NewAuthorities

CONSTANTS               \* bounds
    MaxVerified,        \* packets the remote side may send here
    MaxSent,            \* packets the program may send
    MaxTime

ASSUME ProgramAssumption ==
    /\ ZeroAddress \in Addresses
    /\ StoreAuthority \in Authorities
    /\ OpenPaths \subseteq Eids \X Addresses
    /\ None \notin Accounts \cup Authorities
    /\ Decimals \subseteq DOMAIN Scale /\ SharedDecimals \subseteq DOMAIN Scale
    /\ \A d \in Decimals, s \in SharedDecimals :
          d >= s => d - s \in DOMAIN Scale /\ Scale[d - s] \in U64 \ {0}
    /\ DOMAIN Scale \subseteq Nat
    /\ InitialSupply \in U64
    /\ SendAmounts \cup MinAmounts \cup MessageAmounts \subseteq U64
    /\ WithdrawAmounts \cup Donations \subseteq U64
    /\ FeeBps \subseteq Nat
    /\ TransferFeeChoices \subseteq TransferFees
    /\ LimitParams \subseteq RateLimitParams \cup {None}
    /\ NewAccounts \cup Guardians \subseteq Accounts
    /\ NewAuthorities \subseteq Authorities \cup {None}
    /\ Composed \subseteq BOOLEAN
    /\ MaxTime \in Nat /\ MaxVerified \in Nat /\ MaxSent \in Nat

VARIABLES
    oft_store,      \* the OFTStore account
    peers,          \* the PeerConfig account of each remote, None if absent
    escrow,         \* token_escrow.amount
    held,           \* tokens in all other token accounts
    withheld,       \* transfer fees the token program keeps on accounts
    mint_authority,
    transfer_fee,   \* the TransferFee of the current epoch
    delegate,
    verified,       \* packets the endpoint has verified and not cleared
    inbound_nonce,  \* packets verified so far, by source
    outbound,       \* packets handed to the endpoint
    next_guid,      \* number of the next of them
    composes,       \* compose messages handed to the endpoint
    now,
    sent_sd,        \* history: shared units sent so far
    received_sd     \* history: shared units received so far

tokenVars    == <<escrow, held, withheld>>
endpointVars == <<delegate, verified, inbound_nonce, outbound, next_guid,
                  composes>>
historyVars  == <<sent_sd, received_sd>>
mintVars     == <<mint_authority, transfer_fee>>
custodyVars  == <<tokenVars, endpointVars, historyVars, mintVars>>
vars == <<oft_store, peers, custodyVars, now>>

OFTTypes == {"Native", "Adapter"}

\* A fee below 100%: fee_bps < MAX_FEE_BASIS_POINTS.
ValidFeeBps == 0 .. OneInBasisPoints - 1

OFTStores ==
    [oft_type : OFTTypes, ld2sd_rate : U64 \ {0}, tvl_ld : Nat,
     admin : Accounts, default_fee_bps : ValidFeeBps,
     paused : BOOLEAN, pauser : OptionOf(Accounts),
     unpauser : OptionOf(Accounts)]

EnforcedOptions == [send : SUBSET OptionItems, send_and_call : SUBSET OptionItems]

PeerConfigs ==
    [peer_address : Addresses, enforced_options : EnforcedOptions,
     outbound_rate_limiter : OptionOf(RateLimiters),
     inbound_rate_limiter : OptionOf(RateLimiters),
     fee_bps : OptionOf(ValidFeeBps)]

ASSUME PeersAssumption == None \notin PeerConfigs

\* What init_if_needed leaves in a new account.
NewPeer ==
    [peer_address |-> ZeroAddress,
     enforced_options |-> [send |-> {}, send_and_call |-> {}],
     outbound_rate_limiter |-> None, inbound_rate_limiter |-> None,
     fee_bps |-> None]

InboundPackets ==
    [src_eid : Eids, sender : Addresses, nonce : Nat, amount_sd : Nat,
     composed : BOOLEAN]

OutboundPackets ==
    [dst_eid : Eids, receiver : Addresses, guid : Nat, amount_sd : Nat,
     composed : BOOLEAN, options : SUBSET OptionItems]

ComposeMessages == [src_eid : Eids, nonce : Nat, amount_ld : Nat]

Supply == escrow + held + withheld

Rate == oft_store.ld2sd_rate
IsAdapter == oft_store.oft_type = "Adapter"

-----------------------------------------------------------------------------
(* init_oft: the store and its escrow exist from here on.                  *)

InitOFT(oft_type, decimals, shared_decimals, admin) ==
    /\ decimals >= shared_decimals
    /\ oft_store = [oft_type |-> oft_type,
                    ld2sd_rate |-> Scale[decimals - shared_decimals],
                    tvl_ld |-> 0, admin |-> admin, default_fee_bps |-> 0,
                    paused |-> FALSE, pauser |-> None, unpauser |-> None]
    /\ delegate = admin

Init ==
    /\ \E oft_type \in OFTTypes, d \in Decimals, s \in SharedDecimals,
          admin \in NewAccounts : InitOFT(oft_type, d, s, admin)
    /\ peers = [e \in Eids |-> None]
    /\ escrow = 0 /\ held = InitialSupply /\ withheld = 0
    /\ mint_authority \in NewAuthorities \cup {StoreAuthority}
    /\ transfer_fee \in TransferFeeChoices
    /\ verified = {} /\ inbound_nonce = [e \in Eids |-> 0]
    /\ outbound = {} /\ next_guid = 0 /\ composes = {}
    /\ now = 0
    /\ sent_sd = 0 /\ received_sd = 0

-----------------------------------------------------------------------------
(* set_oft_config: one parameter at a time, signed by the admin.           *)

HasOneAdmin(signer) == oft_store.admin = signer

SetAdmin(signer, admin) ==
    /\ HasOneAdmin(signer)
    /\ oft_store' = [oft_store EXCEPT !.admin = admin]
    /\ UNCHANGED <<peers, custodyVars, now>>

SetDelegate(signer, new_delegate) ==
    /\ HasOneAdmin(signer)
    /\ delegate' = new_delegate
    /\ UNCHANGED <<oft_store, peers, tokenVars, verified, inbound_nonce, outbound,
                   next_guid, composes, historyVars, mintVars, now>>

SetDefaultFee(signer, fee_bps) ==
    /\ HasOneAdmin(signer)
    /\ fee_bps < OneInBasisPoints
    /\ oft_store' = [oft_store EXCEPT !.default_fee_bps = fee_bps]
    /\ UNCHANGED <<peers, custodyVars, now>>

SetPaused(signer, paused) ==
    /\ HasOneAdmin(signer)
    /\ oft_store' = [oft_store EXCEPT !.paused = paused]
    /\ UNCHANGED <<peers, custodyVars, now>>

SetPauser(signer, pauser) ==
    /\ HasOneAdmin(signer)
    /\ oft_store' = [oft_store EXCEPT !.pauser = pauser]
    /\ UNCHANGED <<peers, custodyVars, now>>

SetUnpauser(signer, unpauser) ==
    /\ HasOneAdmin(signer)
    /\ oft_store' = [oft_store EXCEPT !.unpauser = unpauser]
    /\ UNCHANGED <<peers, custodyVars, now>>

SetOFTConfig(signer) ==
    \/ \E a \in NewAccounts : SetAdmin(signer, a) \/ SetDelegate(signer, a)
    \/ \E fee_bps \in FeeBps : SetDefaultFee(signer, fee_bps)
    \/ \E paused \in BOOLEAN : SetPaused(signer, paused)
    \/ \E a \in OptionOf(Guardians) :
          SetPauser(signer, a) \/ SetUnpauser(signer, a)

\* set_pause: the pauser may only pause, the unpauser only unpause.
IsValidSigner(signer, paused) ==
    signer = IF paused THEN oft_store.pauser ELSE oft_store.unpauser

SetPause(signer, paused) ==
    /\ IsValidSigner(signer, paused)
    /\ oft_store' = [oft_store EXCEPT !.paused = paused]
    /\ UNCHANGED <<peers, custodyVars, now>>

-----------------------------------------------------------------------------
(* set_peer_config: creates the PeerConfig if need be, then one parameter. *)

PeerOrNew(eid) == IF peers[eid] = None THEN NewPeer ELSE peers[eid]

SetPeer(signer, eid, peer) ==
    /\ HasOneAdmin(signer)
    /\ peers' = [peers EXCEPT ![eid] = peer]
    /\ UNCHANGED <<oft_store, custodyVars, now>>

SetPeerAddress(signer, eid, address) ==
    SetPeer(signer, eid, [PeerOrNew(eid) EXCEPT !.peer_address = address])

SetPeerFee(signer, eid, fee_bps) ==
    /\ fee_bps # None => fee_bps < OneInBasisPoints
    /\ SetPeer(signer, eid, [PeerOrNew(eid) EXCEPT !.fee_bps = fee_bps])

SetEnforcedOptions(signer, eid, send, send_and_call) ==
    SetPeer(signer, eid,
            [PeerOrNew(eid) EXCEPT !.enforced_options =
                [send |-> send, send_and_call |-> send_and_call]])

SetOutboundRateLimit(signer, eid, params) ==
    SetPeer(signer, eid,
            [PeerOrNew(eid) EXCEPT !.outbound_rate_limiter =
                UpdateRateLimiter(@, params, now)])

SetInboundRateLimit(signer, eid, params) ==
    SetPeer(signer, eid,
            [PeerOrNew(eid) EXCEPT !.inbound_rate_limiter =
                UpdateRateLimiter(@, params, now)])

SetPeerConfig(signer, eid) ==
    \/ \E address \in Addresses : SetPeerAddress(signer, eid, address)
    \/ \E fee_bps \in OptionOf(FeeBps) : SetPeerFee(signer, eid, fee_bps)
    \/ \E send, send_and_call \in SUBSET OptionItems :
          SetEnforcedOptions(signer, eid, send, send_and_call)
    \/ \E params \in LimitParams :
          \/ SetOutboundRateLimit(signer, eid, params)
          \/ SetInboundRateLimit(signer, eid, params)

-----------------------------------------------------------------------------
(* Token movements.  A transfer loses the transfer fee of the epoch, which  *)
(* the token program withholds on the receiving account; mints and burns do *)
(* not.                                                                     *)

TransferToEscrow(burnt, amount_ld) ==
    /\ held >= burnt + amount_ld
    /\ held' = held - burnt - amount_ld
    /\ escrow' = escrow + PostFeeAmount(transfer_fee, amount_ld)
    /\ withheld' = withheld + WithheldFee(transfer_fee, amount_ld)

TransferFromEscrow(amount_ld) ==
    /\ escrow >= amount_ld
    /\ escrow' = escrow - amount_ld
    /\ held' = held + PostFeeAmount(transfer_fee, amount_ld)
    /\ withheld' = withheld + WithheldFee(transfer_fee, amount_ld)

\* withdraw_fee: the admin takes what the escrow holds beyond tvl_ld.
WithdrawFee(signer, fee_ld) ==
    /\ HasOneAdmin(signer)
    /\ escrow >= oft_store.tvl_ld               \* u64 subtraction
    /\ escrow - oft_store.tvl_ld >= fee_ld
    /\ TransferFromEscrow(fee_ld)
    /\ UNCHANGED <<oft_store, peers, endpointVars, historyVars, mintVars, now>>

-----------------------------------------------------------------------------
(* send: tokens are locked or burnt here and a packet tells the remote to   *)
(* release or mint as many.                                                 *)

\* Variant: the pause is only a flag.
PauseIgnored == TRUE

RequireNotPaused == ~oft_store.paused

Quote(eid, amount_ld) ==
    ComputeFeeAndAdjustAmount(
        oft_store.oft_type, Rate, transfer_fee,
        FinalFeeBps(oft_store.default_fee_bps, peers[eid].fee_bps), amount_ld)

\* Variant: the two lists of enforced options are swapped.
EnforcedForOther(peer, composed) ==
    IF composed THEN peer.enforced_options.send
                ELSE peer.enforced_options.send_and_call

\* The options that any message of this kind to the peer must carry.
EnforcedFor(peer, composed) ==
    IF composed THEN peer.enforced_options.send_and_call
                ELSE peer.enforced_options.send

ThrottleSend(peer, amount_ld) ==
    [peer EXCEPT
        !.outbound_rate_limiter = TryConsumeOption(@, now, amount_ld),
        !.inbound_rate_limiter = RefillOption(@, now, amount_ld)]

\* Variant: accounts for the tokens debited rather than those to be released.
LockSent(q) ==
    /\ IsAdapter
    /\ FitsU64(oft_store.tvl_ld + q.amount_sent_ld)
    /\ oft_store' = [oft_store EXCEPT !.tvl_ld = @ + q.amount_sent_ld]
    /\ TransferToEscrow(0, q.amount_sent_ld)

LockTokens(q) ==
    /\ IsAdapter
    /\ FitsU64(oft_store.tvl_ld + q.amount_received_ld)
    /\ oft_store' = [oft_store EXCEPT !.tvl_ld = @ + q.amount_received_ld]
    /\ TransferToEscrow(0, q.amount_sent_ld)

BurnTokens(q) ==
    /\ ~IsAdapter
    /\ TransferToEscrow(q.amount_sent_ld - q.oft_fee_ld, q.oft_fee_ld)
    /\ UNCHANGED oft_store

EndpointSend(eid, amount_sd, composed, options) ==
    /\ <<eid, peers[eid].peer_address>> \in OpenPaths
    /\ next_guid < MaxSent
    /\ outbound' = outbound \cup
          {[dst_eid |-> eid, receiver |-> peers[eid].peer_address,
            guid |-> next_guid, amount_sd |-> amount_sd,
            composed |-> composed, options |-> options]}
    /\ next_guid' = next_guid + 1

Send(eid, amount_ld, min_amount_ld, composed, options) ==
    LET peer      == peers[eid]
        q         == Quote(eid, amount_ld)
        amount_sd == Ld2Sd(q.amount_received_ld, Rate)
    IN  /\ RequireNotPaused
        /\ peer # None
        /\ FitsU64(q.amount_sent_ld)
        /\ q.amount_received_ld >= min_amount_ld
        /\ CanConsumeOption(peer.outbound_rate_limiter, now, q.amount_received_ld)
        /\ peers' = [peers EXCEPT ![eid] =
                         ThrottleSend(peer, q.amount_received_ld)]
        /\ LockTokens(q) \/ BurnTokens(q)
        /\ EndpointSend(eid, amount_sd, composed,
                        EnforcedFor(peer, composed) \cup options)
        /\ sent_sd' = sent_sd + amount_sd
        /\ UNCHANGED <<delegate, verified, inbound_nonce, composes, received_sd,
                       mintVars, now>>

-----------------------------------------------------------------------------
(* lz_receive: clears a verified packet and releases or mints its amount.   *)
(* `authority` is the optional account the caller passes as mint_authority. *)

\* Variant: a receipt gives back to the outbound limit and takes nothing.
ThrottleNothing(peer, amount_ld) ==
    [peer EXCEPT !.outbound_rate_limiter = RefillOption(@, now, amount_ld)]

ThrottleReceive(peer, amount_ld) ==
    [peer EXCEPT
        !.inbound_rate_limiter = TryConsumeOption(@, now, amount_ld),
        !.outbound_rate_limiter = RefillOption(@, now, amount_ld)]

\* Variant: pays from whatever the escrow holds.
UnlockUnchecked(amount_ld) ==
    /\ IsAdapter
    /\ oft_store' = [oft_store EXCEPT !.tvl_ld = @ - amount_ld]
    /\ TransferFromEscrow(amount_ld)

UnlockTokens(amount_ld) ==
    /\ IsAdapter
    /\ oft_store.tvl_ld >= amount_ld            \* u64 subtraction
    /\ oft_store' = [oft_store EXCEPT !.tvl_ld = @ - amount_ld]
    /\ TransferFromEscrow(amount_ld)

MintTokens(authority, amount_ld) ==
    /\ ~IsAdapter
    /\ authority = StoreAuthority               \* what the store can sign for
    /\ FitsU64(Supply + amount_ld)
    /\ held' = held + amount_ld
    /\ UNCHANGED <<oft_store, escrow, withheld>>

\* Variant: reports the amount before the token's transfer fee.
CreditedGross(amount_ld) == amount_ld

\* amount_received_ld as the compose message and the event report it.
CreditedAmount(amount_ld) ==
    IF IsAdapter THEN PostFeeAmount(transfer_fee, amount_ld) ELSE amount_ld

SendCompose(packet, amount_ld) ==
    composes' = IF packet.composed
                THEN composes \cup {[src_eid   |-> packet.src_eid,
                                     nonce     |-> packet.nonce,
                                     amount_ld |-> amount_ld]}
                ELSE composes

\* Variant: the packet stays verified.
ClearNothing(packet) ==
    /\ packet \in verified
    /\ UNCHANGED verified

\* The endpoint's `clear`: a packet that was not verified, or was cleared
\* before, fails the instruction.
Clear(packet) ==
    /\ packet \in verified
    /\ verified' = verified \ {packet}

LzReceive(packet, authority) ==
    LET peer      == peers[packet.src_eid]
        amount_ld == Sd2Ld(packet.amount_sd, Rate)
    IN  /\ peer # None
        /\ peer.peer_address = packet.sender
        /\ authority # None => authority = mint_authority
        /\ RequireNotPaused
        /\ Clear(packet)
        /\ FitsU64(amount_ld)
        /\ CanConsumeOption(peer.inbound_rate_limiter, now, amount_ld)
        /\ peers' = [peers EXCEPT ![packet.src_eid] =
                         ThrottleReceive(peer, amount_ld)]
        /\ UnlockTokens(amount_ld) \/ MintTokens(authority, amount_ld)
        /\ SendCompose(packet, CreditedAmount(amount_ld))
        /\ received_sd' = received_sd + packet.amount_sd
        /\ UNCHANGED <<delegate, inbound_nonce, outbound, next_guid, sent_sd,
                       mintVars, now>>

-----------------------------------------------------------------------------
(* The rest of the world.                                                  *)

\* A packet from a remote OApp with an initialised path becomes verified; its
\* nonce is the next of its source.  A verified packet can be cleared in any
\* order, and once.
EndpointVerify(src_eid, sender, amount_sd, composed) ==
    /\ <<src_eid, sender>> \in OpenPaths
    /\ inbound_nonce[src_eid] < MaxVerified
    /\ inbound_nonce' = [inbound_nonce EXCEPT ![src_eid] = @ + 1]
    /\ verified' = verified \cup
          {[src_eid |-> src_eid, sender |-> sender,
            nonce |-> inbound_nonce[src_eid] + 1,
            amount_sd |-> amount_sd, composed |-> composed]}
    /\ UNCHANGED <<oft_store, peers, tokenVars, delegate, outbound, next_guid,
                   composes, historyVars, mintVars, now>>

\* Anyone may transfer tokens straight into the escrow.
Donate(amount_ld) ==
    /\ TransferToEscrow(0, amount_ld)
    /\ UNCHANGED <<oft_store, peers, endpointVars, historyVars, mintVars, now>>

\* The mint's authority hands it on, or gives it up for good.
SetMintAuthority(authority) ==
    /\ mint_authority # None
    /\ mint_authority' = authority
    /\ UNCHANGED <<oft_store, peers, tokenVars, endpointVars, historyVars,
                   transfer_fee, now>>

\* Time passes; with a new epoch the mint may have another transfer fee.
Tick(t, fee) ==
    /\ now' = t
    /\ transfer_fee' = fee
    /\ UNCHANGED <<oft_store, peers, tokenVars, endpointVars, historyVars,
                   mint_authority>>

Administration ==
    \E signer \in Accounts :
        \/ SetOFTConfig(signer)
        \/ \E paused \in BOOLEAN : SetPause(signer, paused)
        \/ \E eid \in Eids : SetPeerConfig(signer, eid)
        \/ \E fee_ld \in WithdrawAmounts : WithdrawFee(signer, fee_ld)

Traffic ==
    \/ \E eid \in Eids, amount_ld \in SendAmounts, min_amount_ld \in MinAmounts,
          composed \in Composed, options \in SUBSET OptionItems :
             Send(eid, amount_ld, min_amount_ld, composed, options)
    \/ \E packet \in verified, authority \in OptionOf(Authorities) :
             LzReceive(packet, authority)

Environment ==
    \/ \E path \in OpenPaths, amount_sd \in MessageAmounts, composed \in Composed :
          EndpointVerify(path[1], path[2], amount_sd, composed)
    \/ \E amount_ld \in Donations : Donate(amount_ld)
    \/ \E authority \in NewAuthorities : SetMintAuthority(authority)
    \/ \E t \in (now + 1) .. MaxTime, fee \in TransferFeeChoices : Tick(t, fee)

Next == Administration \/ Traffic \/ Environment

Spec == Init /\ [][Next]_vars

-----------------------------------------------------------------------------
\* The accounts of the program, the balances and the packets have their types;
\* no subtraction of the program leaves u64.
TypeOK ==
    /\ oft_store \in OFTStores
    /\ peers \in [Eids -> OptionOf(PeerConfigs)]
    /\ escrow \in Nat /\ held \in Nat /\ withheld \in Nat
    /\ mint_authority \in OptionOf(Authorities)
    /\ transfer_fee \in TransferFees
    /\ delegate \in Accounts
    /\ verified \subseteq InboundPackets
    /\ inbound_nonce \in [Eids -> Nat]
    /\ outbound \subseteq OutboundPackets
    /\ next_guid \in Nat
    /\ composes \subseteq ComposeMessages
    /\ now \in Nat
    /\ sent_sd \in Nat /\ received_sd \in Nat

\* The program owes what it has sent and not taken back.  An adapter's tvl_ld
\* is exactly that amount, so fees, dust, epoch changes of the token's transfer
\* fee and gifts never leak into it; a native OFT has burnt exactly that amount
\* of the supply on balance, and tvl_ld stays 0.
FlowsBalance ==
    LET net_ld == Rate * (sent_sd - received_sd)
    IN  IF IsAdapter
        THEN oft_store.tvl_ld = net_ld /\ Supply = InitialSupply
        ELSE oft_store.tvl_ld = 0 /\ Supply = InitialSupply - net_ld

\* Every locked token is in the escrow: whatever transfer fees the token takes
\* and whatever the admin withdraws, an adapter can release all it owes.
EscrowCoversTvl == escrow >= oft_store.tvl_ld

\* No token is released twice, or without a message, or for a stranger: a step
\* that mints or unlocks clears exactly one verified packet, from the configured
\* peer, of exactly the amount that is minted or unlocked.
ReleasesClearPackets ==
    [][LET released_ld == (Supply' - Supply)
                                 + (oft_store.tvl_ld - oft_store'.tvl_ld)
       IN  released_ld > 0 =>
              \E packet \in verified :
                 /\ verified' = verified \ {packet}
                 /\ packet.sender = peers[packet.src_eid].peer_address
                 /\ released_ld = Rate * packet.amount_sd]_vars

\* What a composer is told to have received is what its account received, net
\* of the transfer fee of the epoch in which the message is executed.
ComposeTellsCredit ==
    [][\A message \in composes' \ composes :
          message.amount_ld = held' - held]_vars

\* A pause stops traffic, both ways, whoever set it and whatever is verified.
PauseStopsTraffic ==
    [][oft_store.paused => UNCHANGED <<sent_sd, received_sd, outbound, composes>>]_vars

\* Each message promises execution with at least the options that the admin
\* enforced for its kind at the time it was sent, whatever the sender adds.
EnforcedOptionsTravel ==
    [][\A packet \in outbound' \ outbound :
          LET enforced == peers[packet.dst_eid].enforced_options
          IN  /\ packet.composed => enforced.send_and_call \subseteq packet.options
              /\ ~packet.composed => enforced.send \subseteq packet.options]_vars

Directions == {"outbound", "inbound"}

LimiterOf(eid, direction) ==
    IF peers[eid] = None THEN None
    ELSE IF direction = "outbound" THEN peers[eid].outbound_rate_limiter
    ELSE peers[eid].inbound_rate_limiter

Limit(eid) == INSTANCE TokenBucket WITH
    Amount <- U64, NoBucket <- None,
    buckets <- [d \in Directions |-> BucketOf(LimiterOf(eid, d), now)],
    clock <- now

\* Seen through the whole program, the limiters of each peer are two buckets
\* that fill by themselves, between which a transfer moves its amount, and
\* which nothing else touches.
PeersAreLimited ==
    /\ \A eid \in Eids : Limit(eid)!Init
    /\ [][\A eid \in Eids :
             Limit(eid)!Next \/ UNCHANGED Limit(eid)!vars]_vars

BucketLevel(eid, direction) == BucketOf(LimiterOf(eid, direction), now).level

IsLimited(eid, direction) == LimiterOf(eid, direction) # None

Metered(eid, direction, opposite, amount_ld) ==
    /\ IsLimited(eid, direction) =>
          BucketLevel(eid, direction)' = BucketLevel(eid, direction) - amount_ld
    /\ IsLimited(eid, opposite) =>
          BucketLevel(eid, opposite)' =
             Smaller(LimiterOf(eid, opposite).capacity,
                     BucketLevel(eid, opposite) + amount_ld)

\* Limits meter what crosses the bridge: a packet sent costs the outbound
\* bucket, and a packet received the inbound bucket, exactly the local value of
\* the shared amount it carries, whatever dust and fees the sender paid besides,
\* and gives as much back to the other bucket of the same peer.
TrafficIsMetered ==
    [][/\ \A packet \in outbound' \ outbound :
             Metered(packet.dst_eid, "outbound", "inbound",
                     Rate * packet.amount_sd)
       /\ \A packet \in verified \ verified' :
             Metered(packet.src_eid, "inbound", "outbound",
                     Rate * packet.amount_sd)]_vars

=============================================================================
