------------------------------ MODULE OFTProofs ------------------------------
(***************************************************************************)
(* Proofs about the Solana OFT program: its accounts are well typed, its    *)
(* flows balance, and an adapter's escrow covers what the program owes;     *)
(* and about its steps: what a pause stops, what a message carries, what is *)
(* released and reported, and what the limits of a peer are charged.        *)
(*                                                                          *)
(* FlowsBalance and EscrowCoversTvl are inductive together with the types:  *)
(* send needs the exact arithmetic of TransferAmounts (the message carries  *)
(* all of what was locked or burnt, and an adapter's escrow receives what   *)
(* was locked plus the OFT fee), and withdraw_fee needs the escrow to cover *)
(* tvl_ld before it.                                                        *)
(***************************************************************************)
EXTENDS OFTProgram, ArithmeticProofs, TLAPS

\* Both limiters of a peer can be read at the current time.
PeerSound(peer) ==
    peer # None => /\ Sound(peer.outbound_rate_limiter, now)
                   /\ Sound(peer.inbound_rate_limiter, now)

IInv ==
    /\ TypeOK
    /\ FlowsBalance
    /\ EscrowCoversTvl
    /\ \A eid \in Eids : PeerSound(peers[eid])

-----------------------------------------------------------------------------
(* Initial states.                                                         *)

\* init_oft leaves a well-formed store that owes nothing.
LEMMA InitIInv == Init => IInv
<1>. SUFFICES ASSUME Init PROVE IInv
  OBVIOUS
<1>1. PICK oft_type \in OFTTypes, d \in Decimals, s \in SharedDecimals,
           admin \in NewAccounts : InitOFT(oft_type, d, s, admin)
  BY DEF Init
<1>2. Scale[d - s] \in U64 \ {0} /\ Scale[d - s] \in Nat
  BY <1>1, ProgramAssumption, AmountsAssumption DEF InitOFT, U64
<1>3. admin \in Accounts /\ 0 \in ValidFeeBps
  BY ProgramAssumption, AmountsAssumption DEF ValidFeeBps
<1>4. /\ oft_store \in OFTStores /\ delegate \in Accounts
      /\ oft_store.tvl_ld = 0
      /\ Rate \in Nat
  BY <1>1, <1>2, <1>3 DEF InitOFT, OFTStores, OptionOf, Rate
<1>5. /\ mint_authority \in OptionOf(Authorities)
      /\ transfer_fee \in TransferFees
  BY ProgramAssumption DEF Init, OptionOf
<1>6. held = InitialSupply /\ InitialSupply \in Nat
  BY ProgramAssumption, AmountsAssumption DEF Init, U64
<1>7. TypeOK
  BY <1>4, <1>5, <1>6 DEF Init, TypeOK, OptionOf
<1>8. FlowsBalance
  BY <1>4, <1>6 DEF Init, FlowsBalance, Supply
<1>9. EscrowCoversTvl
  BY <1>4 DEF Init, EscrowCoversTvl
<1>10. \A eid \in Eids : PeerSound(peers[eid])
  BY DEF Init, PeerSound
<1>. QED BY <1>7, <1>8, <1>9, <1>10 DEF IInv

-----------------------------------------------------------------------------
(* Steps of the administration.                                            *)

\* A change of the store that leaves its kind, rate and tvl_ld alone.
LEMMA StoreConfigKeepsIInv ==
  ASSUME IInv, oft_store' \in OFTStores,
         oft_store'.oft_type = oft_store.oft_type,
         oft_store'.ld2sd_rate = oft_store.ld2sd_rate,
         oft_store'.tvl_ld = oft_store.tvl_ld,
         UNCHANGED <<peers, custodyVars, now>>
  PROVE  IInv'
<1>1. TypeOK'
  BY DEF IInv, TypeOK, custodyVars, tokenVars, endpointVars, historyVars, mintVars
<1>2. FlowsBalance'
  BY DEF IInv, FlowsBalance, IsAdapter, Supply, Rate, custodyVars, tokenVars,
         historyVars
<1>3. EscrowCoversTvl'
  BY DEF IInv, EscrowCoversTvl, custodyVars, tokenVars
<1>4. (\A eid \in Eids : PeerSound(peers[eid]))'
  BY DEF IInv, PeerSound
<1>. QED BY <1>1, <1>2, <1>3, <1>4 DEF IInv

\* set_oft_config and set_pause.
LEMMA SetOFTConfigKeepsIInv ==
  ASSUME IInv, NEW signer \in Accounts, SetOFTConfig(signer)
  PROVE  IInv'
<1>1. oft_store \in OFTStores
  BY DEF IInv, TypeOK
<1>2. ASSUME NEW a \in NewAccounts, SetAdmin(signer, a)
      PROVE  IInv'
  <2>1. a \in Accounts
    BY ProgramAssumption
  <2>. QED BY <1>1, <1>2, <2>1, StoreConfigKeepsIInv DEF SetAdmin, OFTStores
<1>3. ASSUME NEW a \in NewAccounts, SetDelegate(signer, a)
      PROVE  IInv'
  <2>1. a \in Accounts
    BY ProgramAssumption
  <2>2. TypeOK'
    BY <1>3, <2>1 DEF IInv, TypeOK, SetDelegate, tokenVars, historyVars, mintVars
  <2>3. FlowsBalance' /\ EscrowCoversTvl'
    BY <1>3 DEF IInv, SetDelegate, FlowsBalance, EscrowCoversTvl, IsAdapter,
                Supply, Rate, tokenVars, historyVars
  <2>4. (\A eid \in Eids : PeerSound(peers[eid]))'
    BY <1>3 DEF IInv, PeerSound, SetDelegate
  <2>. QED BY <2>2, <2>3, <2>4 DEF IInv
<1>4. ASSUME NEW bps \in FeeBps, SetDefaultFee(signer, bps)
      PROVE  IInv'
  <2>1. bps \in ValidFeeBps
    BY <1>4, ProgramAssumption, AmountsAssumption DEF SetDefaultFee, ValidFeeBps
  <2>. QED BY <1>1, <1>4, <2>1, StoreConfigKeepsIInv DEF SetDefaultFee, OFTStores
<1>5. ASSUME NEW paused \in BOOLEAN, SetPaused(signer, paused)
      PROVE  IInv'
  BY <1>1, <1>5, StoreConfigKeepsIInv DEF SetPaused, OFTStores
<1>6. ASSUME NEW a \in OptionOf(Guardians), SetPauser(signer, a)
      PROVE  IInv'
  <2>1. a \in OptionOf(Accounts)
    BY ProgramAssumption DEF OptionOf
  <2>. QED BY <1>1, <1>6, <2>1, StoreConfigKeepsIInv DEF SetPauser, OFTStores
<1>7. ASSUME NEW a \in OptionOf(Guardians), SetUnpauser(signer, a)
      PROVE  IInv'
  <2>1. a \in OptionOf(Accounts)
    BY ProgramAssumption DEF OptionOf
  <2>. QED BY <1>1, <1>7, <2>1, StoreConfigKeepsIInv DEF SetUnpauser, OFTStores
<1>. QED BY <1>2, <1>3, <1>4, <1>5, <1>6, <1>7 DEF SetOFTConfig

\* The pauser and the unpauser only touch the flag.
LEMMA SetPauseKeepsIInv ==
  ASSUME IInv, NEW signer \in Accounts, NEW paused \in BOOLEAN,
         SetPause(signer, paused)
  PROVE  IInv'
<1>1. oft_store \in OFTStores
  BY DEF IInv, TypeOK
<1>. QED BY <1>1, StoreConfigKeepsIInv DEF SetPause, OFTStores

\* set_peer_config starts from a well-formed account, old or new.
LEMMA PeerOrNewFacts ==
  ASSUME IInv, NEW eid \in Eids
  PROVE  PeerOrNew(eid) \in PeerConfigs /\ PeerSound(PeerOrNew(eid))
<1>1. CASE peers[eid] = None
  <2>1. NewPeer \in PeerConfigs
    BY ProgramAssumption DEF NewPeer, PeerConfigs, EnforcedOptions, OptionOf
  <2>2. PeerSound(NewPeer)
    BY DEF NewPeer, PeerSound, Sound
  <2>. QED BY <1>1, <2>1, <2>2 DEF PeerOrNew
<1>2. CASE peers[eid] # None
  BY <1>2 DEF IInv, TypeOK, PeerOrNew, OptionOf
<1>. QED BY <1>1, <1>2

\* Replacing one peer by a well-formed and sound one.
LEMMA SetPeerKeepsIInv ==
  ASSUME IInv, NEW signer \in Accounts, NEW eid \in Eids,
         NEW peer \in PeerConfigs, PeerSound(peer),
         SetPeer(signer, eid, peer)
  PROVE  IInv'
<1>1. /\ peers' = [peers EXCEPT ![eid] = peer]
      /\ UNCHANGED <<oft_store, custodyVars, now>>
  BY DEF SetPeer
<1>2. peers \in [Eids -> OptionOf(PeerConfigs)]
  BY DEF IInv, TypeOK
<1>3. peers' \in [Eids -> OptionOf(PeerConfigs)]
  BY <1>1, <1>2 DEF OptionOf
<1>4. TypeOK'
  BY <1>1, <1>3 DEF IInv, TypeOK, custodyVars, tokenVars, endpointVars,
                    historyVars, mintVars
<1>5. FlowsBalance' /\ EscrowCoversTvl'
  BY <1>1 DEF IInv, FlowsBalance, EscrowCoversTvl, IsAdapter, Supply, Rate,
              custodyVars, tokenVars, historyVars
<1>6. (\A e \in Eids : PeerSound(peers[e]))'
  BY <1>1, <1>2 DEF IInv, PeerSound
<1>. QED BY <1>4, <1>5, <1>6 DEF IInv

\* set_peer_config with a rate limit, of any refill and capacity.
LEMMA SetRateLimitKeepsIInv ==
  ASSUME IInv, NEW signer \in Accounts, NEW eid \in Eids,
         NEW params \in RateLimitParams \cup {None},
         SetOutboundRateLimit(signer, eid, params) \/ SetInboundRateLimit(signer, eid, params)
  PROVE  IInv'
<1>. DEFINE old == PeerOrNew(eid)
<1>1. old \in PeerConfigs /\ PeerSound(old) /\ old # None
  BY PeerOrNewFacts, PeersAssumption
<1>2. /\ Sound(old.outbound_rate_limiter, now)
      /\ Sound(old.inbound_rate_limiter, now)
      /\ now \in Nat
  BY <1>1 DEF PeerSound, IInv, TypeOK
<1>3. ASSUME SetOutboundRateLimit(signer, eid, params)
      PROVE  IInv'
  <2>. DEFINE u   == UpdateRateLimiter(old.outbound_rate_limiter, params, now)
              new == [old EXCEPT !.outbound_rate_limiter = u]
  <2>1. Sound(u, now)
    <3>. HIDE DEF old
    <3>. QED BY <1>2, UpdateKeepsSound
  <2>2. u \in OptionOf(RateLimiters)
    <3>. HIDE DEF u
    <3>. QED BY <1>2, <2>1, SoundFacts
  <2>3. SetPeer(signer, eid, new)
    BY <1>3 DEF SetOutboundRateLimit
  <2>4. new \in PeerConfigs /\ PeerSound(new)
    <3>. HIDE DEF old, u
    <3>. QED BY <1>1, <1>2, <2>1, <2>2 DEF PeerConfigs, PeerSound
  <2>. HIDE DEF new
  <2>. QED BY <2>3, <2>4, SetPeerKeepsIInv
<1>4. ASSUME SetInboundRateLimit(signer, eid, params)
      PROVE  IInv'
  <2>. DEFINE u   == UpdateRateLimiter(old.inbound_rate_limiter, params, now)
              new == [old EXCEPT !.inbound_rate_limiter = u]
  <2>1. Sound(u, now)
    <3>. HIDE DEF old
    <3>. QED BY <1>2, UpdateKeepsSound
  <2>2. u \in OptionOf(RateLimiters)
    <3>. HIDE DEF u
    <3>. QED BY <1>2, <2>1, SoundFacts
  <2>3. SetPeer(signer, eid, new)
    BY <1>4 DEF SetInboundRateLimit
  <2>4. new \in PeerConfigs /\ PeerSound(new)
    <3>. HIDE DEF old, u
    <3>. QED BY <1>1, <1>2, <2>1, <2>2 DEF PeerConfigs, PeerSound
  <2>. HIDE DEF new
  <2>. QED BY <2>3, <2>4, SetPeerKeepsIInv
<1>. QED BY <1>3, <1>4

\* set_peer_config, parameter by parameter.
LEMMA SetPeerConfigKeepsIInv ==
  ASSUME IInv, NEW signer \in Accounts, NEW eid \in Eids,
         SetPeerConfig(signer, eid)
  PROVE  IInv'
<1>. DEFINE old == PeerOrNew(eid)
<1>1. old \in PeerConfigs /\ PeerSound(old) /\ old # None
  BY PeerOrNewFacts, PeersAssumption
<1>2. /\ Sound(old.outbound_rate_limiter, now)
      /\ Sound(old.inbound_rate_limiter, now)
      /\ now \in Nat
  BY <1>1 DEF PeerSound, IInv, TypeOK
<1>3. ASSUME NEW address \in Addresses, SetPeerAddress(signer, eid, address)
      PROVE  IInv'
  <2>. DEFINE new == [old EXCEPT !.peer_address = address]
  <2>1. new \in PeerConfigs /\ PeerSound(new)
    <3>. HIDE DEF old
    <3>. QED BY <1>1, <1>2 DEF PeerConfigs, PeerSound
  <2>2. SetPeer(signer, eid, new)
    BY <1>3 DEF SetPeerAddress
  <2>. HIDE DEF new
  <2>. QED BY <2>1, <2>2, SetPeerKeepsIInv
<1>4. ASSUME NEW bps \in OptionOf(FeeBps), SetPeerFee(signer, eid, bps)
      PROVE  IInv'
  <2>. DEFINE new == [old EXCEPT !.fee_bps = bps]
  <2>1. bps \in OptionOf(ValidFeeBps)
    BY <1>4, ProgramAssumption, AmountsAssumption
    DEF SetPeerFee, OptionOf, ValidFeeBps
  <2>2. new \in PeerConfigs /\ PeerSound(new)
    <3>. HIDE DEF old
    <3>. QED BY <1>1, <1>2, <2>1 DEF PeerConfigs, PeerSound
  <2>3. SetPeer(signer, eid, new)
    BY <1>4 DEF SetPeerFee
  <2>. HIDE DEF new
  <2>. QED BY <2>2, <2>3, SetPeerKeepsIInv
<1>5. ASSUME NEW send \in SUBSET OptionItems,
             NEW send_and_call \in SUBSET OptionItems,
             SetEnforcedOptions(signer, eid, send, send_and_call)
      PROVE  IInv'
  <2>. DEFINE new == [old EXCEPT !.enforced_options =
                        [send |-> send, send_and_call |-> send_and_call]]
  <2>1. new \in PeerConfigs /\ PeerSound(new)
    <3>. HIDE DEF old
    <3>. QED BY <1>1, <1>2 DEF PeerConfigs, PeerSound, EnforcedOptions
  <2>2. SetPeer(signer, eid, new)
    BY <1>5 DEF SetEnforcedOptions
  <2>. HIDE DEF new
  <2>. QED BY <2>1, <2>2, SetPeerKeepsIInv
<1>6. ASSUME NEW params \in LimitParams,
             SetOutboundRateLimit(signer, eid, params) \/ SetInboundRateLimit(signer, eid, params)
      PROVE  IInv'
  <2>1. params \in RateLimitParams \cup {None}
    BY ProgramAssumption
  <2>. QED BY <1>6, <2>1, SetRateLimitKeepsIInv
<1>. QED BY <1>3, <1>4, <1>5, <1>6 DEF SetPeerConfig

-----------------------------------------------------------------------------
(* Token movements.                                                        *)

\* A transfer to the escrow creates and destroys nothing but what is burnt.
LEMMA TransferToEscrowFacts ==
  ASSUME IInv, NEW burnt \in Nat, NEW amount \in Nat,
         TransferToEscrow(burnt, amount)
  PROVE  /\ escrow' \in Nat /\ held' \in Nat /\ withheld' \in Nat
         /\ Supply' = Supply - burnt
         /\ escrow' = escrow + PostFeeAmount(transfer_fee, amount)
         /\ PostFeeAmount(transfer_fee, amount) \in Nat
<1>. DEFINE post == PostFeeAmount(transfer_fee, amount)
            kept == WithheldFee(transfer_fee, amount)
<1>1. /\ escrow \in Nat /\ held \in Nat /\ withheld \in Nat
      /\ transfer_fee \in TransferFees
  BY DEF IInv, TypeOK
<1>2. post \in Nat /\ kept \in Nat /\ kept + post = amount
  BY <1>1, WithheldFeeFacts
<1>3. /\ held >= burnt + amount
      /\ held' = held - burnt - amount
      /\ escrow' = escrow + post
      /\ withheld' = withheld + kept
  BY DEF TransferToEscrow
<1>. HIDE DEF post, kept
<1>4. /\ escrow' \in Nat /\ held' \in Nat /\ withheld' \in Nat
      /\ Supply' = Supply - burnt
  BY <1>1, <1>2, <1>3 DEF Supply
<1>. QED BY <1>2, <1>3, <1>4 DEF post

\* A transfer from the escrow creates and destroys nothing.
LEMMA TransferFromEscrowFacts ==
  ASSUME IInv, NEW amount \in Nat, TransferFromEscrow(amount)
  PROVE  /\ escrow' \in Nat /\ held' \in Nat /\ withheld' \in Nat
         /\ Supply' = Supply
         /\ escrow' = escrow - amount
<1>. DEFINE post == PostFeeAmount(transfer_fee, amount)
            kept == WithheldFee(transfer_fee, amount)
<1>1. /\ escrow \in Nat /\ held \in Nat /\ withheld \in Nat
      /\ transfer_fee \in TransferFees
  BY DEF IInv, TypeOK
<1>2. post \in Nat /\ kept \in Nat /\ kept + post = amount
  BY <1>1, WithheldFeeFacts
<1>3. /\ escrow >= amount
      /\ escrow' = escrow - amount
      /\ held' = held + post
      /\ withheld' = withheld + kept
  BY DEF TransferFromEscrow
<1>. HIDE DEF post, kept
<1>. QED BY <1>1, <1>2, <1>3 DEF Supply

\* withdraw_fee takes no more than the surplus over tvl_ld.
LEMMA WithdrawFeeKeepsIInv ==
  ASSUME IInv, NEW signer \in Accounts, NEW fee_ld \in WithdrawAmounts,
         WithdrawFee(signer, fee_ld)
  PROVE  IInv'
<1>1. fee_ld \in Nat
  BY ProgramAssumption, AmountsAssumption DEF U64
<1>2. /\ escrow' \in Nat /\ held' \in Nat /\ withheld' \in Nat
      /\ Supply' = Supply
      /\ escrow' = escrow - fee_ld
  BY <1>1, TransferFromEscrowFacts DEF WithdrawFee
<1>3. UNCHANGED <<oft_store, peers, endpointVars, historyVars, mintVars, now>>
  BY DEF WithdrawFee
<1>4. TypeOK'
  BY <1>2, <1>3 DEF IInv, TypeOK, endpointVars, historyVars, mintVars
<1>5. FlowsBalance'
  <2>1. FlowsBalance
    BY DEF IInv
  <2>2. Rate' = Rate /\ IsAdapter' = IsAdapter /\ Supply' = Supply
    BY <1>2, <1>3 DEF Rate, IsAdapter
  <2>. QED BY <1>3, <2>1, <2>2 DEF FlowsBalance, historyVars
<1>6. EscrowCoversTvl'
  <2>1. /\ escrow - oft_store.tvl_ld >= fee_ld
        /\ escrow \in Nat /\ oft_store.tvl_ld \in Nat
    BY DEF WithdrawFee, IInv, TypeOK, OFTStores
  <2>. QED BY <1>1, <1>2, <1>3, <2>1 DEF EscrowCoversTvl
<1>7. (\A eid \in Eids : PeerSound(peers[eid]))'
  BY <1>3 DEF IInv, PeerSound
<1>. QED BY <1>4, <1>5, <1>6, <1>7 DEF IInv

-----------------------------------------------------------------------------
(* send.                                                                   *)

\* What a send to an existing peer is about to move.
LEMMA QuoteFacts ==
  ASSUME IInv, NEW eid \in Eids, peers[eid] # None, NEW amount \in Nat
  PROVE  LET q == Quote(eid, amount)
         IN  /\ q.amount_sent_ld \in Nat
             /\ q.amount_received_ld \in Nat
             /\ q.oft_fee_ld \in Nat
             /\ q.amount_received_ld + q.oft_fee_ld =
                   IF IsAdapter
                   THEN PostFeeAmount(transfer_fee, q.amount_sent_ld)
                   ELSE q.amount_sent_ld
             /\ Ld2Sd(q.amount_received_ld, Rate) \in Nat
             /\ Rate * Ld2Sd(q.amount_received_ld, Rate) = q.amount_received_ld
<1>. DEFINE bps == FinalFeeBps(oft_store.default_fee_bps, peers[eid].fee_bps)
            q   == Quote(eid, amount)
            sd  == Ld2Sd(q.amount_received_ld, Rate)
<1>1. /\ oft_store.oft_type \in {"Native", "Adapter"}
      /\ Rate \in Nat \ {0}
      /\ transfer_fee \in TransferFees
      /\ oft_store.default_fee_bps \in ValidFeeBps
  BY AmountsAssumption DEF IInv, TypeOK, OFTStores, OFTTypes, Rate, U64
<1>2. peers[eid].fee_bps \in OptionOf(ValidFeeBps)
  BY DEF IInv, TypeOK, PeerConfigs, OptionOf
<1>3. bps \in 0 .. OneInBasisPoints
  BY <1>1, <1>2, AmountsAssumption DEF FinalFeeBps, OptionOf, ValidFeeBps
<1>4. q = ComputeFeeAndAdjustAmount(oft_store.oft_type, Rate, transfer_fee,
                                    bps, amount)
  BY DEF Quote
<1>. HIDE DEF q, bps
<1>5. /\ q.amount_sent_ld \in 0 .. amount
      /\ q.amount_received_ld \in Nat
      /\ q.oft_fee_ld \in Nat
      /\ q.amount_received_ld + q.oft_fee_ld =
            IF oft_store.oft_type = "Adapter"
            THEN PostFeeAmount(transfer_fee, q.amount_sent_ld)
            ELSE q.amount_sent_ld
      /\ sd \in Nat
      /\ Sd2Ld(sd, Rate) = q.amount_received_ld
  BY <1>1, <1>3, <1>4, TransferAmounts
<1>6. Rate * sd = q.amount_received_ld
  <2>. HIDE DEF sd
  <2>. QED BY <1>1, <1>5 DEF Sd2Ld
<1>. QED BY <1>5, <1>6 DEF IsAdapter, q

\* Both directions of a sound peer stay sound when traffic passes.
LEMMA ThrottleFacts ==
  ASSUME IInv, NEW eid \in Eids, peers[eid] # None, NEW amount \in Nat
  PROVE  /\ CanConsumeOption(peers[eid].outbound_rate_limiter, now, amount)
              => /\ ThrottleSend(peers[eid], amount) \in PeerConfigs
                 /\ PeerSound(ThrottleSend(peers[eid], amount))
         /\ CanConsumeOption(peers[eid].inbound_rate_limiter, now, amount)
              => /\ ThrottleReceive(peers[eid], amount) \in PeerConfigs
                 /\ PeerSound(ThrottleReceive(peers[eid], amount))
<1>. DEFINE peer == peers[eid]
            o    == peer.outbound_rate_limiter
            i    == peer.inbound_rate_limiter
<1>1. /\ peer \in PeerConfigs /\ now \in Nat
      /\ Sound(o, now) /\ Sound(i, now)
  BY DEF IInv, TypeOK, OptionOf, PeerSound
<1>. HIDE DEF peer, o, i
<1>2. ASSUME CanConsumeOption(o, now, amount)
      PROVE  /\ ThrottleSend(peer, amount) \in PeerConfigs
             /\ PeerSound(ThrottleSend(peer, amount))
  <2>. DEFINE o2 == TryConsumeOption(o, now, amount)
              i2 == RefillOption(i, now, amount)
  <2>1. Sound(o2, now) /\ Sound(i2, now)
    BY <1>1, <1>2, ConsumeKeepsSound, RefillKeepsSound
  <2>2. ThrottleSend(peer, amount) =
          [peer EXCEPT !.outbound_rate_limiter = o2, !.inbound_rate_limiter = i2]
    BY DEF ThrottleSend, o, i
  <2>. HIDE DEF o2, i2
  <2>3. o2 \in OptionOf(RateLimiters) /\ i2 \in OptionOf(RateLimiters)
    BY <1>1, <2>1, SoundFacts
  <2>. QED BY <1>1, <2>1, <2>2, <2>3 DEF PeerConfigs, PeerSound
<1>3. ASSUME CanConsumeOption(i, now, amount)
      PROVE  /\ ThrottleReceive(peer, amount) \in PeerConfigs
             /\ PeerSound(ThrottleReceive(peer, amount))
  <2>. DEFINE i2 == TryConsumeOption(i, now, amount)
              o2 == RefillOption(o, now, amount)
  <2>1. Sound(o2, now) /\ Sound(i2, now)
    BY <1>1, <1>3, ConsumeKeepsSound, RefillKeepsSound
  <2>2. ThrottleReceive(peer, amount) =
          [peer EXCEPT !.inbound_rate_limiter = i2, !.outbound_rate_limiter = o2]
    BY DEF ThrottleReceive, o, i
  <2>. HIDE DEF o2, i2
  <2>3. o2 \in OptionOf(RateLimiters) /\ i2 \in OptionOf(RateLimiters)
    BY <1>1, <2>1, SoundFacts
  <2>. QED BY <1>1, <2>1, <2>2, <2>3 DEF PeerConfigs, PeerSound
<1>. QED BY <1>2, <1>3 DEF peer, o, i

\* Replacing one peer keeps the peers well typed and sound.
LEMMA OnePeerChanges ==
  ASSUME IInv, NEW eid \in Eids, NEW peer \in PeerConfigs, PeerSound(peer),
         peers' = [peers EXCEPT ![eid] = peer], UNCHANGED now
  PROVE  /\ peers' \in [Eids -> OptionOf(PeerConfigs)]
         /\ (\A e \in Eids : PeerSound(peers[e]))'
  BY DEF IInv, TypeOK, OptionOf, PeerSound

\* An adapter locks, and a native OFT burns, exactly what the message carries.
LEMMA SendKeepsIInv ==
  ASSUME IInv, NEW eid \in Eids, NEW amount_ld \in SendAmounts,
         NEW min_amount_ld \in MinAmounts, NEW composed \in Composed,
         NEW options \in SUBSET OptionItems,
         Send(eid, amount_ld, min_amount_ld, composed, options)
  PROVE  IInv'
<1>. DEFINE q    == Quote(eid, amount_ld)
            sent == q.amount_sent_ld
            got  == q.amount_received_ld
            fee  == q.oft_fee_ld
            sd   == Ld2Sd(got, Rate)
            peer == peers[eid]
<1>1. amount_ld \in Nat /\ composed \in BOOLEAN
  BY ProgramAssumption, AmountsAssumption DEF U64
<1>2. /\ peer # None
      /\ CanConsumeOption(peer.outbound_rate_limiter, now, got)
      /\ peers' = [peers EXCEPT ![eid] = ThrottleSend(peer, got)]
      /\ LockTokens(q) \/ BurnTokens(q)
      /\ EndpointSend(eid, sd, composed, EnforcedFor(peer, composed) \cup options)
      /\ sent_sd' = sent_sd + sd
      /\ UNCHANGED <<delegate, verified, inbound_nonce, composes, received_sd,
                     mintVars, now>>
  BY DEF Send, RequireNotPaused
<1>3. /\ sent \in Nat /\ got \in Nat /\ fee \in Nat /\ sd \in Nat
      /\ got + fee = IF IsAdapter THEN PostFeeAmount(transfer_fee, sent) ELSE sent
      /\ Rate * sd = got
  BY <1>1, <1>2, QuoteFacts
<1>4. /\ peers' \in [Eids -> OptionOf(PeerConfigs)]
      /\ (\A e \in Eids : PeerSound(peers[e]))'
  <2>1. ThrottleSend(peer, got) \in PeerConfigs /\ PeerSound(ThrottleSend(peer, got))
    BY <1>2, <1>3, ThrottleFacts
  <2>. QED BY <1>2, <2>1, OnePeerChanges
<1>5. outbound' \subseteq OutboundPackets /\ next_guid' \in Nat
  <2>1. /\ peer.peer_address \in Addresses
        /\ EnforcedFor(peer, composed) \subseteq OptionItems
    BY <1>2 DEF IInv, TypeOK, OptionOf, PeerConfigs, EnforcedOptions, EnforcedFor
  <2>2. outbound \subseteq OutboundPackets /\ next_guid \in Nat
    BY DEF IInv, TypeOK
  <2>. HIDE DEF sd
  <2>. QED BY <1>1, <1>2, <1>3, <2>1, <2>2 DEF EndpointSend, OutboundPackets
<1>6. sent_sd' \in Nat /\ received_sd' = received_sd
  BY <1>2, <1>3 DEF IInv, TypeOK
<1>7. /\ oft_store \in OFTStores
      /\ sent_sd \in Nat /\ received_sd \in Nat /\ Rate \in Nat
  BY AmountsAssumption DEF IInv, TypeOK, OFTStores, Rate, U64
<1>8. Rate * (sent_sd' - received_sd') = Rate * (sent_sd - received_sd) + got
  <2>. HIDE DEF sd, got
  <2>1. sent_sd' - received_sd' = (sent_sd - received_sd) + sd
    BY <1>2, <1>3, <1>6, <1>7
  <2>2. Rate * ((sent_sd - received_sd) + sd) =
          Rate * (sent_sd - received_sd) + Rate * sd
    BY <1>3, <1>7
  <2>. QED BY <1>3, <2>1, <2>2
<1>. HIDE DEF q, sent, got, fee, sd, peer
<1>9. CASE LockTokens(q)
  <2>1. /\ IsAdapter
        /\ oft_store' = [oft_store EXCEPT !.tvl_ld = @ + got]
        /\ TransferToEscrow(0, sent)
    BY <1>9 DEF LockTokens, got, sent
  <2>2. /\ oft_store' \in OFTStores
        /\ oft_store'.tvl_ld = oft_store.tvl_ld + got
        /\ Rate' = Rate /\ IsAdapter'
    BY <1>3, <1>7, <2>1 DEF OFTStores, Rate, IsAdapter
  <2>3. /\ escrow' \in Nat /\ held' \in Nat /\ withheld' \in Nat
        /\ Supply' = Supply
        /\ escrow' = escrow + got + fee
    <3>1. Supply \in Nat /\ escrow \in Nat
      BY DEF IInv, TypeOK, Supply
    <3>2. /\ escrow' \in Nat /\ held' \in Nat /\ withheld' \in Nat
          /\ Supply' = Supply - 0
          /\ escrow' = escrow + PostFeeAmount(transfer_fee, sent)
      BY <1>3, <2>1, TransferToEscrowFacts
    <3>. QED BY <1>3, <2>1, <3>1, <3>2
  <2>4. TypeOK'
    BY <1>2, <1>4, <1>5, <1>6, <2>2, <2>3 DEF IInv, TypeOK, mintVars
  <2>5. FlowsBalance'
    BY <1>6, <1>8, <2>1, <2>2, <2>3 DEF IInv, FlowsBalance
  <2>6. EscrowCoversTvl'
    <3>1. escrow \in Nat /\ oft_store.tvl_ld \in Nat /\ escrow >= oft_store.tvl_ld
      BY <1>7 DEF IInv, TypeOK, EscrowCoversTvl, OFTStores
    <3>. QED BY <1>3, <2>2, <2>3, <3>1 DEF EscrowCoversTvl
  <2>. QED BY <1>4, <2>4, <2>5, <2>6 DEF IInv
<1>10. CASE BurnTokens(q)
  <2>1. /\ ~IsAdapter
        /\ TransferToEscrow(got, fee)
        /\ UNCHANGED oft_store
    <3>1. ~IsAdapter /\ TransferToEscrow(sent - fee, fee) /\ UNCHANGED oft_store
      BY <1>10 DEF BurnTokens, sent, fee
    <3>2. sent - fee = got
      BY <1>3, <3>1
    <3>. QED BY <3>1, <3>2
  <2>2. Rate' = Rate /\ ~IsAdapter'
    BY <2>1 DEF Rate, IsAdapter
  <2>3. /\ escrow' \in Nat /\ held' \in Nat /\ withheld' \in Nat
        /\ Supply' = Supply - got
        /\ escrow' >= escrow
    <3>1. escrow \in Nat
      BY DEF IInv, TypeOK
    <3>2. /\ escrow' \in Nat /\ held' \in Nat /\ withheld' \in Nat
          /\ Supply' = Supply - got
          /\ escrow' = escrow + PostFeeAmount(transfer_fee, fee)
          /\ PostFeeAmount(transfer_fee, fee) \in Nat
      BY <1>3, <2>1, TransferToEscrowFacts
    <3>. QED BY <3>1, <3>2
  <2>4. TypeOK'
    BY <1>2, <1>4, <1>5, <1>6, <2>1, <2>3 DEF IInv, TypeOK, mintVars
  <2>5. FlowsBalance'
    <3>1. /\ Rate * (sent_sd - received_sd) \in Int
          /\ InitialSupply \in Int
      BY <1>7, ProgramAssumption, AmountsAssumption DEF U64
    <3>2. oft_store.tvl_ld = 0 /\ Supply = InitialSupply - Rate * (sent_sd - received_sd)
      BY <2>1 DEF IInv, FlowsBalance
    <3>. QED BY <1>3, <1>6, <1>8, <2>1, <2>2, <2>3, <3>1, <3>2 DEF FlowsBalance
  <2>6. EscrowCoversTvl'
    <3>1. escrow \in Nat /\ oft_store.tvl_ld \in Nat /\ escrow >= oft_store.tvl_ld
      BY <1>7 DEF IInv, TypeOK, EscrowCoversTvl, OFTStores
    <3>. QED BY <2>1, <2>3, <3>1 DEF EscrowCoversTvl
  <2>. QED BY <1>4, <2>4, <2>5, <2>6 DEF IInv
<1>11. LockTokens(q) \/ BurnTokens(q)
  BY <1>2 DEF q
<1>. QED BY <1>9, <1>10, <1>11

-----------------------------------------------------------------------------
(* lz_receive.                                                             *)

\* An adapter unlocks, and a native OFT mints, exactly what the packet carries.
LEMMA LzReceiveKeepsIInv ==
  ASSUME IInv, NEW packet \in verified,
         NEW authority \in OptionOf(Authorities),
         LzReceive(packet, authority)
  PROVE  IInv'
<1>. DEFINE sd   == packet.amount_sd
            amt  == Sd2Ld(sd, Rate)
            eid  == packet.src_eid
            peer == peers[eid]
<1>1. /\ packet \in InboundPackets /\ eid \in Eids /\ sd \in Nat
      /\ packet.nonce \in Nat
      /\ verified \subseteq InboundPackets
      /\ composes \subseteq ComposeMessages
  BY DEF IInv, TypeOK, InboundPackets
<1>2. /\ peer # None
      /\ CanConsumeOption(peer.inbound_rate_limiter, now, amt)
      /\ verified' = verified \ {packet}
      /\ peers' = [peers EXCEPT ![eid] = ThrottleReceive(peer, amt)]
      /\ UnlockTokens(amt) \/ MintTokens(authority, amt)
      /\ SendCompose(packet, CreditedAmount(amt))
      /\ received_sd' = received_sd + sd
      /\ UNCHANGED <<delegate, inbound_nonce, outbound, next_guid, sent_sd,
                     mintVars, now>>
  BY DEF LzReceive, Clear, RequireNotPaused
<1>3. /\ oft_store \in OFTStores /\ transfer_fee \in TransferFees
      /\ sent_sd \in Nat /\ received_sd \in Nat /\ Rate \in Nat
  BY AmountsAssumption DEF IInv, TypeOK, OFTStores, Rate, U64
<1>4. amt \in Nat /\ amt = Rate * sd
  <2>. HIDE DEF sd
  <2>. QED BY <1>1, <1>3, ProductInNat DEF Sd2Ld
<1>5. /\ peers' \in [Eids -> OptionOf(PeerConfigs)]
      /\ (\A e \in Eids : PeerSound(peers[e]))'
  <2>1. /\ ThrottleReceive(peer, amt) \in PeerConfigs
        /\ PeerSound(ThrottleReceive(peer, amt))
    <3>. HIDE DEF eid
    <3>. QED BY <1>1, <1>2, <1>4, ThrottleFacts
  <2>. QED BY <1>1, <1>2, <2>1, OnePeerChanges
<1>6. verified' \subseteq InboundPackets
  BY <1>1, <1>2
<1>7. composes' \subseteq ComposeMessages
  <2>1. CreditedAmount(amt) \in Nat
    <3>. HIDE DEF amt
    <3>1. PostFeeAmount(transfer_fee, amt) \in Nat
      BY <1>3, <1>4, WithheldFeeFacts
    <3>. QED BY <1>4, <3>1 DEF CreditedAmount
  <2>. HIDE DEF amt
  <2>. QED BY <1>1, <1>2, <2>1 DEF SendCompose, ComposeMessages
<1>8. received_sd' \in Nat /\ sent_sd' = sent_sd
  BY <1>1, <1>2, <1>3
<1>9. Rate * (sent_sd' - received_sd') = Rate * (sent_sd - received_sd) - amt
  <2>. HIDE DEF sd, amt
  <2>1. sent_sd' - received_sd' = (sent_sd - received_sd) - sd
    BY <1>1, <1>2, <1>3
  <2>2. Rate * ((sent_sd - received_sd) - sd) =
          Rate * (sent_sd - received_sd) - Rate * sd
    BY <1>1, <1>3
  <2>. QED BY <1>4, <2>1, <2>2
<1>. HIDE DEF sd, amt, eid, peer
<1>10. CASE UnlockTokens(amt)
  <2>1. /\ IsAdapter
        /\ oft_store.tvl_ld >= amt
        /\ oft_store' = [oft_store EXCEPT !.tvl_ld = @ - amt]
        /\ TransferFromEscrow(amt)
    BY <1>10 DEF UnlockTokens
  <2>2. /\ oft_store' \in OFTStores
        /\ oft_store'.tvl_ld = oft_store.tvl_ld - amt
        /\ Rate' = Rate /\ IsAdapter'
    BY <1>3, <1>4, <2>1 DEF OFTStores, Rate, IsAdapter
  <2>3. /\ escrow' \in Nat /\ held' \in Nat /\ withheld' \in Nat
        /\ Supply' = Supply
        /\ escrow' = escrow - amt
    BY <1>4, <2>1, TransferFromEscrowFacts
  <2>4. TypeOK'
    BY <1>2, <1>5, <1>6, <1>7, <1>8, <2>2, <2>3 DEF IInv, TypeOK, mintVars
  <2>5. FlowsBalance'
    <3>1. Rate * (sent_sd - received_sd) \in Int
      BY <1>3
    <3>. QED BY <1>4, <1>9, <2>1, <2>2, <2>3, <3>1 DEF IInv, FlowsBalance
  <2>6. EscrowCoversTvl'
    <3>1. escrow \in Nat /\ oft_store.tvl_ld \in Nat /\ escrow >= oft_store.tvl_ld
      BY <1>3 DEF IInv, TypeOK, EscrowCoversTvl, OFTStores
    <3>. QED BY <1>4, <2>2, <2>3, <3>1 DEF EscrowCoversTvl
  <2>. QED BY <1>5, <2>4, <2>5, <2>6 DEF IInv
<1>11. CASE MintTokens(authority, amt)
  <2>1. /\ ~IsAdapter
        /\ held' = held + amt
        /\ UNCHANGED <<oft_store, escrow, withheld>>
    BY <1>11 DEF MintTokens
  <2>2. Rate' = Rate /\ ~IsAdapter'
    BY <2>1 DEF Rate, IsAdapter
  <2>3. /\ escrow' \in Nat /\ held' \in Nat /\ withheld' \in Nat
        /\ Supply' = Supply + amt
    <3>1. escrow \in Nat /\ held \in Nat /\ withheld \in Nat
      BY DEF IInv, TypeOK
    <3>. QED BY <1>4, <2>1, <3>1 DEF Supply
  <2>4. TypeOK'
    BY <1>2, <1>5, <1>6, <1>7, <1>8, <2>1, <2>3 DEF IInv, TypeOK, mintVars
  <2>5. FlowsBalance'
    <3>1. /\ Rate * (sent_sd - received_sd) \in Int
          /\ InitialSupply \in Int
      BY <1>3, ProgramAssumption, AmountsAssumption DEF U64
    <3>2. oft_store.tvl_ld = 0 /\ Supply = InitialSupply - Rate * (sent_sd - received_sd)
      BY <2>1 DEF IInv, FlowsBalance
    <3>. QED BY <1>4, <1>9, <2>1, <2>2, <2>3, <3>1, <3>2 DEF FlowsBalance
  <2>6. EscrowCoversTvl'
    BY <2>1 DEF IInv, EscrowCoversTvl
  <2>. QED BY <1>5, <2>4, <2>5, <2>6 DEF IInv
<1>12. UnlockTokens(amt) \/ MintTokens(authority, amt)
  BY <1>2 DEF amt, sd
<1>. QED BY <1>10, <1>11, <1>12

-----------------------------------------------------------------------------
(* Steps of the environment.                                               *)

\* Verifying a packet credits nobody.
LEMMA EndpointVerifyKeepsIInv ==
  ASSUME IInv, NEW path \in OpenPaths, NEW amount_sd \in Nat,
         NEW composed \in BOOLEAN,
         EndpointVerify(path[1], path[2], amount_sd, composed)
  PROVE  IInv'
<1>1. path[1] \in Eids /\ path[2] \in Addresses
  BY ProgramAssumption
<1>2. /\ verified \subseteq InboundPackets
      /\ inbound_nonce \in [Eids -> Nat]
  BY DEF IInv, TypeOK
<1>3. /\ verified' \subseteq InboundPackets
      /\ inbound_nonce' \in [Eids -> Nat]
  BY <1>1, <1>2 DEF EndpointVerify, InboundPackets
<1>4. UNCHANGED <<oft_store, peers, tokenVars, delegate, outbound, next_guid,
                  composes, historyVars, mintVars, now>>
  BY DEF EndpointVerify
<1>5. TypeOK'
  BY <1>3, <1>4 DEF IInv, TypeOK, tokenVars, historyVars, mintVars
<1>6. FlowsBalance' /\ EscrowCoversTvl'
  BY <1>4 DEF IInv, FlowsBalance, EscrowCoversTvl, IsAdapter, Supply, Rate,
              tokenVars, historyVars
<1>7. (\A eid \in Eids : PeerSound(peers[eid]))'
  BY <1>4 DEF IInv, PeerSound
<1>. QED BY <1>5, <1>6, <1>7 DEF IInv

\* A gift raises the escrow only.
LEMMA DonateKeepsIInv ==
  ASSUME IInv, NEW amount_ld \in Donations, Donate(amount_ld)
  PROVE  IInv'
<1>1. amount_ld \in Nat
  BY ProgramAssumption, AmountsAssumption DEF U64
<1>2. /\ TransferToEscrow(0, amount_ld)
      /\ UNCHANGED <<oft_store, peers, endpointVars, historyVars, mintVars, now>>
  BY DEF Donate
<1>3. /\ escrow' \in Nat /\ held' \in Nat /\ withheld' \in Nat
      /\ Supply' = Supply
      /\ escrow' >= escrow
  <2>1. Supply \in Nat /\ escrow \in Nat
    BY DEF IInv, TypeOK, Supply
  <2>2. /\ escrow' \in Nat /\ held' \in Nat /\ withheld' \in Nat
        /\ Supply' = Supply - 0
        /\ escrow' = escrow + PostFeeAmount(transfer_fee, amount_ld)
        /\ PostFeeAmount(transfer_fee, amount_ld) \in Nat
    BY <1>1, <1>2, TransferToEscrowFacts
  <2>. QED BY <2>1, <2>2
<1>4. TypeOK'
  BY <1>2, <1>3 DEF IInv, TypeOK, endpointVars, historyVars, mintVars
<1>5. FlowsBalance'
  <2>1. FlowsBalance
    BY DEF IInv
  <2>2. Rate' = Rate /\ IsAdapter' = IsAdapter /\ Supply' = Supply
    BY <1>2, <1>3 DEF Rate, IsAdapter
  <2>. QED BY <1>2, <2>1, <2>2 DEF FlowsBalance, historyVars
<1>6. EscrowCoversTvl'
  <2>1. escrow \in Nat /\ oft_store.tvl_ld \in Nat /\ escrow >= oft_store.tvl_ld
    BY DEF IInv, TypeOK, EscrowCoversTvl, OFTStores
  <2>. QED BY <1>2, <1>3, <2>1 DEF EscrowCoversTvl
<1>7. (\A eid \in Eids : PeerSound(peers[eid]))'
  BY <1>2 DEF IInv, PeerSound
<1>. QED BY <1>4, <1>5, <1>6, <1>7 DEF IInv

\* A new mint authority moves no token.
LEMMA SetMintAuthorityKeepsIInv ==
  ASSUME IInv, NEW authority \in NewAuthorities, SetMintAuthority(authority)
  PROVE  IInv'
<1>1. authority \in OptionOf(Authorities)
  BY ProgramAssumption DEF OptionOf
<1>2. /\ mint_authority' = authority
      /\ UNCHANGED <<oft_store, peers, tokenVars, endpointVars, historyVars,
                     transfer_fee, now>>
  BY DEF SetMintAuthority
<1>3. TypeOK'
  BY <1>1, <1>2 DEF IInv, TypeOK, tokenVars, endpointVars, historyVars
<1>4. FlowsBalance' /\ EscrowCoversTvl'
  BY <1>2 DEF IInv, FlowsBalance, EscrowCoversTvl, IsAdapter, Supply, Rate,
              tokenVars, historyVars
<1>5. (\A eid \in Eids : PeerSound(peers[eid]))'
  BY <1>2 DEF IInv, PeerSound
<1>. QED BY <1>3, <1>4, <1>5 DEF IInv

\* Time and a new transfer fee move no token.
LEMMA TickKeepsIInv ==
  ASSUME IInv, NEW t \in (now + 1) .. MaxTime, NEW fee \in TransferFeeChoices,
         Tick(t, fee)
  PROVE  IInv'
<1>1. /\ now \in Nat /\ t \in Nat /\ now <= t /\ fee \in TransferFees
  BY ProgramAssumption DEF IInv, TypeOK
<1>2. /\ now' = t /\ transfer_fee' = fee
      /\ UNCHANGED <<oft_store, peers, tokenVars, endpointVars, historyVars,
                     mint_authority>>
  BY DEF Tick
<1>3. TypeOK'
  BY <1>1, <1>2 DEF IInv, TypeOK, tokenVars, endpointVars, historyVars
<1>4. FlowsBalance' /\ EscrowCoversTvl'
  BY <1>2 DEF IInv, FlowsBalance, EscrowCoversTvl, IsAdapter, Supply, Rate,
              tokenVars, historyVars
<1>5. (\A eid \in Eids : PeerSound(peers[eid]))'
  <2>1. ASSUME NEW eid \in Eids, peers[eid] # None
        PROVE  /\ Sound(peers[eid].outbound_rate_limiter, t)
               /\ Sound(peers[eid].inbound_rate_limiter, t)
    BY <1>1, <2>1, SoundFacts DEF IInv, PeerSound
  <2>. QED BY <1>2, <2>1 DEF PeerSound
<1>. QED BY <1>3, <1>4, <1>5 DEF IInv

-----------------------------------------------------------------------------
(* The theorems.                                                           *)

\* No step of the program or of its environment breaks the invariant.
LEMMA NextIInv == IInv /\ [Next]_vars => IInv'
<1>. SUFFICES ASSUME IInv, [Next]_vars PROVE IInv'
  OBVIOUS
<1>1. CASE Administration
  BY <1>1, SetOFTConfigKeepsIInv, SetPauseKeepsIInv, SetPeerConfigKeepsIInv,
     WithdrawFeeKeepsIInv DEF Administration
<1>2. CASE Traffic
  BY <1>2, SendKeepsIInv, LzReceiveKeepsIInv DEF Traffic
<1>3. CASE Environment
  <2>1. MessageAmounts \subseteq Nat /\ Composed \subseteq BOOLEAN
    BY ProgramAssumption, AmountsAssumption DEF U64
  <2>. QED BY <1>3, <2>1, EndpointVerifyKeepsIInv, DonateKeepsIInv,
              SetMintAuthorityKeepsIInv, TickKeepsIInv DEF Environment
<1>4. CASE UNCHANGED vars
  <2>1. TypeOK'
    BY <1>4 DEF IInv, TypeOK, vars, custodyVars, tokenVars, endpointVars,
                historyVars, mintVars
  <2>2. FlowsBalance' /\ EscrowCoversTvl'
    BY <1>4 DEF IInv, FlowsBalance, EscrowCoversTvl, IsAdapter, Supply, Rate,
                vars, custodyVars, tokenVars, historyVars
  <2>3. (\A eid \in Eids : PeerSound(peers[eid]))'
    BY <1>4 DEF IInv, PeerSound, vars
  <2>. QED BY <2>1, <2>2, <2>3 DEF IInv
<1>. QED BY <1>1, <1>2, <1>3, <1>4 DEF Next

\* The inductive invariant holds in every reachable state.
THEOREM InductiveInvariant == Spec => []IInv
  BY InitIInv, NextIInv, PTL DEF Spec

\* The accounts of the program, its mint and its endpoint are well typed: no
\* instruction leaves a limiter, a fee, a nonce or a balance out of range.
THEOREM TypeCorrect == Spec => []TypeOK
<1>1. IInv => TypeOK
  BY DEF IInv
<1>. QED BY <1>1, InductiveInvariant, PTL

\* tvl_ld of an adapter, and the burnt supply of a native OFT, are exactly what
\* send put into messages less what lz_receive took from them.
THEOREM FlowsAlwaysBalance == Spec => []FlowsBalance
<1>1. IInv => FlowsBalance
  BY DEF IInv
<1>. QED BY <1>1, InductiveInvariant, PTL

\* The escrow of an adapter holds at least tvl_ld, for every decimals, OFT fee,
\* transfer fee and order of instructions: withdraw_fee's subtraction never
\* underflows and whatever has been sent can be released.
THEOREM EscrowAlwaysCoversTvl == Spec => []EscrowCoversTvl
<1>1. IInv => EscrowCoversTvl
  BY DEF IInv
<1>. QED BY <1>1, InductiveInvariant, PTL

-----------------------------------------------------------------------------
(* What a step may never do.                                               *)

\* What every step other than send and lz_receive leaves alone.
Quiet ==
    /\ UNCHANGED <<outbound, composes, sent_sd, received_sd>>
    /\ oft_store'.tvl_ld = oft_store.tvl_ld
    /\ Supply' = Supply

-----------------------------------------------------------------------------
(* Only send and lz_receive move traffic.                                  *)

\* Administration changes settings, and moves tokens out of the escrow at most.
LEMMA AdministrationIsQuiet ==
  ASSUME IInv, Administration
  PROVE  Quiet
<1>1. oft_store \in OFTStores
  BY DEF IInv, TypeOK
<1>2. ASSUME NEW signer \in Accounts, SetOFTConfig(signer)
      PROVE  Quiet
  <2>1. CASE \E a \in NewAccounts : SetDelegate(signer, a)
    BY <2>1 DEF SetDelegate, Quiet, Supply, tokenVars, historyVars
  <2>2. CASE /\ UNCHANGED custodyVars
             /\ oft_store'.tvl_ld = oft_store.tvl_ld
    BY <2>2 DEF Quiet, Supply, custodyVars, tokenVars, endpointVars, historyVars
  <2>. QED BY <1>1, <1>2, <2>1, <2>2
       DEF SetOFTConfig, SetAdmin, SetDefaultFee, SetPaused, SetPauser,
           SetUnpauser, OFTStores
<1>3. ASSUME NEW signer \in Accounts, NEW paused \in BOOLEAN,
             SetPause(signer, paused)
      PROVE  Quiet
  BY <1>1, <1>3 DEF SetPause, OFTStores, Quiet, Supply, custodyVars, tokenVars,
                    endpointVars, historyVars
<1>4. ASSUME NEW signer \in Accounts, NEW eid \in Eids,
             SetPeerConfig(signer, eid)
      PROVE  Quiet
  <2>1. UNCHANGED <<oft_store, custodyVars>>
    BY <1>4 DEF SetPeerConfig, SetPeerAddress, SetPeerFee, SetEnforcedOptions,
                SetOutboundRateLimit, SetInboundRateLimit, SetPeer
  <2>. QED BY <2>1 DEF Quiet, Supply, custodyVars, tokenVars, endpointVars,
                       historyVars
<1>5. ASSUME NEW signer \in Accounts, NEW fee_ld \in WithdrawAmounts,
             WithdrawFee(signer, fee_ld)
      PROVE  Quiet
  <2>1. fee_ld \in Nat
    BY ProgramAssumption, AmountsAssumption DEF U64
  <2>2. Supply' = Supply
    BY <1>5, <2>1, TransferFromEscrowFacts DEF WithdrawFee
  <2>. QED BY <1>5, <2>2 DEF WithdrawFee, Quiet, endpointVars, historyVars
<1>. QED BY <1>2, <1>3, <1>4, <1>5 DEF Administration

\* The endpoint, donors, the mint's authority and time move no traffic.
LEMMA EnvironmentIsQuiet ==
  ASSUME IInv, Environment
  PROVE  Quiet
<1>1. ASSUME NEW path \in OpenPaths, NEW amount_sd \in MessageAmounts,
             NEW composed \in Composed,
             EndpointVerify(path[1], path[2], amount_sd, composed)
      PROVE  Quiet
  BY <1>1 DEF EndpointVerify, Quiet, Supply, tokenVars, historyVars
<1>2. ASSUME NEW amount_ld \in Donations, Donate(amount_ld)
      PROVE  Quiet
  <2>1. amount_ld \in Nat
    BY ProgramAssumption, AmountsAssumption DEF U64
  <2>2. Supply' = Supply - 0 /\ Supply \in Nat
    BY <1>2, <2>1, TransferToEscrowFacts DEF Donate, IInv, TypeOK, Supply
  <2>. QED BY <1>2, <2>2 DEF Donate, Quiet, endpointVars, historyVars
<1>3. ASSUME NEW authority \in NewAuthorities, SetMintAuthority(authority)
      PROVE  Quiet
  BY <1>3 DEF SetMintAuthority, Quiet, Supply, tokenVars, endpointVars,
              historyVars
<1>4. ASSUME NEW t \in (now + 1) .. MaxTime, NEW fee \in TransferFeeChoices,
             Tick(t, fee)
      PROVE  Quiet
  BY <1>4 DEF Tick, Quiet, Supply, tokenVars, endpointVars, historyVars
<1>. QED BY <1>1, <1>2, <1>3, <1>4 DEF Environment

\* Every step is traffic or quiet.
LEMMA StepKinds == IInv /\ [Next]_vars => Traffic \/ Quiet
<1>1. UNCHANGED vars => Quiet
  BY DEF vars, custodyVars, tokenVars, endpointVars, historyVars, Quiet, Supply
<1>. QED BY <1>1, AdministrationIsQuiet, EnvironmentIsQuiet DEF Next

LEMMA PausedStep ==
  ASSUME Traffic \/ Quiet, oft_store.paused
  PROVE  UNCHANGED <<sent_sd, received_sd, outbound, composes>>
<1>1. ~Traffic
  BY DEF Traffic, Send, LzReceive, RequireNotPaused
<1>. QED BY <1>1 DEF Quiet

\* A pause stops traffic both ways, whoever set it and whatever is verified,
\* for every sequence of instructions (the paused check of send and lz_receive).
THEOREM PauseHolds == Spec => PauseStopsTraffic
<1>1. IInv /\ [Next]_vars =>
        [oft_store.paused
           => UNCHANGED <<sent_sd, received_sd, outbound, composes>>]_vars
  BY PausedStep, StepKinds
<1>. QED BY <1>1, InductiveInvariant, PTL DEF Spec, PauseStopsTraffic

\* What a step hands to the endpoint carries what the peer enforces, and leaves
\* by a path that the delegate has initialised.
LEMMA OutboundStep ==
  ASSUME Traffic \/ Quiet, NEW packet \in outbound' \ outbound
  PROVE  /\ packet.composed =>
                peers[packet.dst_eid].enforced_options.send_and_call \subseteq packet.options
         /\ ~packet.composed =>
                peers[packet.dst_eid].enforced_options.send \subseteq packet.options
         /\ <<packet.dst_eid, packet.receiver>> \in OpenPaths
<1>1. PICK eid \in Eids, amount_ld \in SendAmounts, min_amount_ld \in MinAmounts,
           composed \in Composed, options \in SUBSET OptionItems :
              Send(eid, amount_ld, min_amount_ld, composed, options)
  BY DEF Quiet, Traffic, LzReceive
<1>. DEFINE sd == Ld2Sd(Quote(eid, amount_ld).amount_received_ld, Rate)
            p  == [dst_eid |-> eid, receiver |-> peers[eid].peer_address,
                   guid |-> next_guid, amount_sd |-> sd,
                   composed |-> composed,
                   options |-> EnforcedFor(peers[eid], composed) \cup options]
<1>2. outbound' = outbound \cup {p} /\ <<eid, peers[eid].peer_address>> \in OpenPaths
  BY <1>1 DEF Send, EndpointSend
<1>3. /\ p.dst_eid = eid /\ p.composed = composed /\ p.receiver = peers[eid].peer_address
      /\ p.options = EnforcedFor(peers[eid], composed) \cup options
  OBVIOUS
<1>. HIDE DEF p
<1>. QED BY <1>2, <1>3 DEF EnforcedFor

\* A message carries the options enforced for its kind by the peer's account at
\* the time it is sent (combine_options in send).
THEOREM OptionsTravel == Spec => EnforcedOptionsTravel
<1>. DEFINE A == \A packet \in outbound' \ outbound :
                   LET enforced == peers[packet.dst_eid].enforced_options
                   IN  /\ packet.composed =>
                             enforced.send_and_call \subseteq packet.options
                       /\ ~packet.composed =>
                             enforced.send \subseteq packet.options
<1>1. IInv /\ [Next]_vars => [A]_vars
  BY StepKinds, OutboundStep
<1>. QED BY <1>1, InductiveInvariant, PTL DEF Spec, EnforcedOptionsTravel

-----------------------------------------------------------------------------
(* What is released and what is reported.                                  *)

Released == (Supply' - Supply) + (oft_store.tvl_ld - oft_store'.tvl_ld)

\* A send burns or locks; it releases nothing.
LEMMA SendReleasesNothing ==
  ASSUME IInv, NEW eid \in Eids, NEW amount_ld \in SendAmounts,
         NEW min_amount_ld \in MinAmounts, NEW composed \in Composed,
         NEW options \in SUBSET OptionItems,
         Send(eid, amount_ld, min_amount_ld, composed, options)
  PROVE  Released \in Int /\ Released <= 0
<1>. DEFINE q    == Quote(eid, amount_ld)
            sent == q.amount_sent_ld
            got  == q.amount_received_ld
            fee  == q.oft_fee_ld
<1>1. amount_ld \in Nat
  BY ProgramAssumption, AmountsAssumption DEF U64
<1>2. peers[eid] # None /\ (LockTokens(q) \/ BurnTokens(q))
  BY DEF Send
<1>3. /\ sent \in Nat /\ got \in Nat /\ fee \in Nat
      /\ ~IsAdapter => got + fee = sent
  BY <1>1, <1>2, QuoteFacts
<1>4. Supply \in Nat /\ oft_store \in OFTStores /\ oft_store.tvl_ld \in Nat
  BY DEF IInv, TypeOK, Supply, OFTStores
<1>. HIDE DEF q
<1>5. CASE LockTokens(q)
  <2>1. /\ oft_store'.tvl_ld = oft_store.tvl_ld + got
        /\ TransferToEscrow(0, sent)
    BY <1>4, <1>5 DEF LockTokens, OFTStores
  <2>2. Supply' = Supply - 0
    BY <1>3, <2>1, TransferToEscrowFacts
  <2>. QED BY <1>3, <1>4, <2>1, <2>2 DEF Released
<1>6. CASE BurnTokens(q)
  <2>1. /\ oft_store' = oft_store /\ ~IsAdapter
        /\ TransferToEscrow(sent - fee, fee)
    BY <1>6 DEF BurnTokens
  <2>2. sent - fee = got
    BY <1>3, <2>1
  <2>3. Supply' = Supply - (sent - fee)
    BY <1>3, <2>1, <2>2, TransferToEscrowFacts
  <2>. QED BY <1>3, <1>4, <2>1, <2>2, <2>3 DEF Released
<1>. QED BY <1>2, <1>5, <1>6

\* A receipt releases the amount of the packet it clears.
LEMMA LzReceiveReleases ==
  ASSUME IInv, NEW packet \in verified,
         NEW authority \in OptionOf(Authorities),
         LzReceive(packet, authority)
  PROVE  /\ Released = Rate * packet.amount_sd
         /\ verified' = verified \ {packet}
         /\ packet.sender = peers[packet.src_eid].peer_address
<1>. DEFINE amt == Sd2Ld(packet.amount_sd, Rate)
<1>1. /\ UnlockTokens(amt) \/ MintTokens(authority, amt)
      /\ verified' = verified \ {packet}
      /\ packet.sender = peers[packet.src_eid].peer_address
  BY DEF LzReceive, Clear
<1>2. /\ packet.amount_sd \in Nat /\ Rate \in Nat
      /\ Supply \in Nat /\ oft_store \in OFTStores /\ oft_store.tvl_ld \in Nat
  BY AmountsAssumption
  DEF IInv, TypeOK, InboundPackets, OFTStores, Rate, U64, Supply
<1>3. amt \in Nat /\ amt = Rate * packet.amount_sd
  BY <1>2, ProductInNat DEF Sd2Ld
<1>. HIDE DEF amt
<1>4. CASE UnlockTokens(amt)
  <2>1. /\ oft_store'.tvl_ld = oft_store.tvl_ld - amt
        /\ TransferFromEscrow(amt)
    BY <1>2, <1>4 DEF UnlockTokens, OFTStores
  <2>2. Supply' = Supply
    BY <1>3, <2>1, TransferFromEscrowFacts
  <2>3. Released = amt
    BY <1>2, <1>3, <2>1, <2>2 DEF Released
  <2>. QED BY <1>1, <1>3, <2>3
<1>5. CASE MintTokens(authority, amt)
  <2>1. held' = held + amt /\ UNCHANGED <<oft_store, escrow, withheld>>
    BY <1>5 DEF MintTokens
  <2>2. escrow \in Nat /\ held \in Nat /\ withheld \in Nat
    BY DEF IInv, TypeOK
  <2>3. Released = amt
    BY <1>2, <1>3, <2>1, <2>2 DEF Released, Supply
  <2>. QED BY <1>1, <1>3, <2>3
<1>. QED BY <1>1, <1>4, <1>5

\* No token is minted or unlocked but by a receipt, which clears one verified
\* packet of the configured peer and releases exactly its amount.
THEOREM ReleasesAreCleared == Spec => ReleasesClearPackets
<1>. DEFINE A == LET released_ld == (Supply' - Supply)
                                      + (oft_store.tvl_ld - oft_store'.tvl_ld)
                 IN  released_ld > 0 =>
                       \E packet \in verified :
                          /\ verified' = verified \ {packet}
                          /\ packet.sender = peers[packet.src_eid].peer_address
                          /\ released_ld = Rate * packet.amount_sd
<1>1. IInv /\ [Next]_vars => [A]_vars
  <2>. SUFFICES ASSUME IInv, [Next]_vars, Released > 0
                PROVE  \E packet \in verified :
                          /\ verified' = verified \ {packet}
                          /\ packet.sender = peers[packet.src_eid].peer_address
                          /\ Released = Rate * packet.amount_sd
    BY DEF Released
  <2>1. CASE Quiet
    <3>1. Supply \in Nat /\ oft_store.tvl_ld \in Nat
      BY DEF IInv, TypeOK, Supply, OFTStores
    <3>2. Released = 0
      BY <2>1, <3>1 DEF Quiet, Released
    <3>. QED BY <3>2
  <2>2. ASSUME NEW packet \in verified, NEW authority \in OptionOf(Authorities),
               LzReceive(packet, authority)
        PROVE  \E p \in verified :
                  /\ verified' = verified \ {p}
                  /\ p.sender = peers[p.src_eid].peer_address
                  /\ Released = Rate * p.amount_sd
    BY <2>2, LzReceiveReleases
  <2>3. ASSUME NEW eid \in Eids, NEW amount_ld \in SendAmounts,
               NEW min_amount_ld \in MinAmounts, NEW composed \in Composed,
               NEW options \in SUBSET OptionItems,
               Send(eid, amount_ld, min_amount_ld, composed, options)
        PROVE  FALSE
    BY <2>3, SendReleasesNothing
  <2>. QED BY <2>1, <2>2, <2>3, StepKinds DEF Traffic
<1>. QED BY <1>1, InductiveInvariant, PTL DEF Spec, ReleasesClearPackets

\* A composer is told exactly what its account was credited, after the token's
\* transfer fee of the epoch (amount_received_ld in lz_receive).
THEOREM ComposersAreToldTheirCredit == Spec => ComposeTellsCredit
<1>. DEFINE A == \A message \in composes' \ composes :
                   message.amount_ld = held' - held
<1>1. IInv /\ [Next]_vars => [A]_vars
  <2>. SUFFICES ASSUME IInv, [Next]_vars PROVE A
    OBVIOUS
  <2>1. CASE Quiet
    BY <2>1 DEF Quiet
  <2>2. ASSUME NEW eid \in Eids, NEW amount_ld, NEW min_amount_ld,
               NEW composed, NEW options,
               Send(eid, amount_ld, min_amount_ld, composed, options)
        PROVE  A
    BY <2>2 DEF Send
  <2>3. ASSUME NEW packet \in verified, NEW authority \in OptionOf(Authorities),
               LzReceive(packet, authority)
        PROVE  A
    <3>. DEFINE amt == Sd2Ld(packet.amount_sd, Rate)
                credit == CreditedAmount(amt)
                m == [src_eid |-> packet.src_eid, nonce |-> packet.nonce,
                      amount_ld |-> credit]
    <3>1. /\ UnlockTokens(amt) \/ MintTokens(authority, amt)
          /\ composes' \subseteq composes \cup {m}
      BY <2>3 DEF LzReceive, SendCompose
    <3>2. packet.amount_sd \in Nat /\ Rate \in Nat /\ held \in Nat
          /\ transfer_fee \in TransferFees
      BY AmountsAssumption DEF IInv, TypeOK, InboundPackets, OFTStores, Rate, U64
    <3>3. amt \in Nat
      BY <3>2, ProductInNat DEF Sd2Ld
    <3>. HIDE DEF amt
    <3>4. PostFeeAmount(transfer_fee, amt) \in Nat
      BY <3>2, <3>3, WithheldFeeFacts
    <3>5. held' = held + credit /\ credit \in Nat
      BY <3>1, <3>3, <3>4
      DEF UnlockTokens, MintTokens, TransferFromEscrow, CreditedAmount
    <3>6. m.amount_ld = credit
      OBVIOUS
    <3>. HIDE DEF credit, m
    <3>. QED BY <3>1, <3>2, <3>5, <3>6
  <2>. QED BY <2>1, <2>2, <2>3, StepKinds DEF Traffic
<1>. QED BY <1>1, InductiveInvariant, PTL DEF Spec, ComposeTellsCredit

-----------------------------------------------------------------------------
(* The limiters of every peer.                                             *)

Opposite(d) == IF d = "outbound" THEN "inbound" ELSE "outbound"

\* The buckets that the limiters of a peer stand for.
BucketsOf(eid) == [d \in Directions |-> BucketOf(LimiterOf(eid, d), now)]

\* Every limiter is sound.
LEMMA LimitersAreSound ==
  ASSUME IInv, NEW eid \in Eids, NEW d \in Directions
  PROVE  now \in Nat /\ Sound(LimiterOf(eid, d), now)
BY DEF IInv, TypeOK, PeerSound, LimiterOf, Directions, Sound

\* The buckets of the next state are those of its limiters.
LEMMA NextBuckets ==
  ASSUME NEW eid
  PROVE  BucketsOf(eid)' =
           [d \in Directions |-> BucketOf(LimiterOf(eid, d)', now')]
BY DEF BucketsOf, BucketOf

\* Taking from one limiter of a peer what the other is given is a transfer
\* between its buckets.
LEMMA TransferMoves ==
  ASSUME IInv, NEW eid \in Eids, NEW d \in Directions, NEW amount \in U64,
         UNCHANGED now,
         CanConsumeOption(LimiterOf(eid, d), now, amount),
         LimiterOf(eid, d)' = TryConsumeOption(LimiterOf(eid, d), now, amount),
         LimiterOf(eid, Opposite(d))' =
           RefillOption(LimiterOf(eid, Opposite(d)), now, amount)
  PROVE  Limit(eid)!Next
<1>. DEFINE o == Opposite(d)
            b == BucketsOf(eid)
<1>1. /\ d \in Limit(eid)!Directions
      /\ o = Limit(eid)!Opposite(d)
      /\ o \in Directions /\ o # d /\ Directions = {d, o}
  BY DEF Directions, Opposite, Limit!Directions, Limit!Opposite
<1>2. amount \in Nat
  BY AmountsAssumption DEF U64
<1>. HIDE DEF o
<1>3. /\ b[d] # None => amount <= b[d].level
      /\ b'[d] = DrainedOption(b[d], amount)
  BY <1>2, LimitersAreSound, NextBuckets, ConsumeDrains DEF BucketsOf
<1>4. b'[o] = FilledOption(b[o], amount)
  BY <1>1, <1>2, LimitersAreSound, NextBuckets, RefillFills DEF BucketsOf, o
<1>5. /\ Limit(eid)!Drained(b[d], amount) = DrainedOption(b[d], amount)
      /\ Limit(eid)!Filled(b[o], amount) = FilledOption(b[o], amount)
  BY DEF Limit!Drained, Limit!Filled, Limit!Least, DrainedOption, FilledOption,
         FilledBucket, Smaller
<1>6. b' = [b EXCEPT ![d] = Limit(eid)!Drained(b[d], amount),
                     ![o] = Limit(eid)!Filled(b[o], amount)]
  BY <1>1, <1>3, <1>4, <1>5, NextBuckets DEF BucketsOf
<1>7. Limit(eid)!Transfer(d, amount)
  BY <1>1, <1>3, <1>6 DEF Limit!Transfer, BucketsOf
<1>. QED BY <1>1, <1>7 DEF Limit!Next

\* An update by the admin configures one bucket of a peer, or leaves both.
LEMMA UpdateConfiguresBucket ==
  ASSUME IInv, NEW eid \in Eids, NEW d \in Directions, NEW params \in LimitParams,
         UNCHANGED now,
         LimiterOf(eid, d)' = UpdateRateLimiter(LimiterOf(eid, d), params, now),
         LimiterOf(eid, Opposite(d))' = LimiterOf(eid, Opposite(d))
  PROVE  Limit(eid)!Next \/ UNCHANGED Limit(eid)!vars
<1>. DEFINE b == BucketOf(LimiterOf(eid, d), now)
            c == BucketOf(UpdateRateLimiter(LimiterOf(eid, d), params, now), now)
<1>1. params \in RateLimitParams \cup {None}
  BY ProgramAssumption
<1>2. \/ c = None
      \/ c = b
      \/ \E capacity, rate \in U64 :
           c = [capacity |-> capacity, level |-> capacity, rate |-> rate]
      \/ \E rate \in U64 :
           c = IF b = None
               THEN [capacity |-> 0, level |-> 0, rate |-> rate]
               ELSE [b EXCEPT !.rate = rate]
  BY <1>1, LimitersAreSound, UpdateConfigures
<1>3. Directions = {d, Opposite(d)} /\ Opposite(d) # d
  BY DEF Directions, Opposite
<1>4. BucketsOf(eid)' = [BucketsOf(eid) EXCEPT ![d] = c]
  BY <1>3, NextBuckets DEF BucketsOf
<1>5. BucketsOf(eid)[d] = b /\ BucketsOf(eid)'[d] = c
  BY <1>4 DEF BucketsOf
<1>. HIDE DEF b, c
<1>6. CASE c = b
  <2>1. BucketsOf(eid)' = BucketsOf(eid)
    BY <1>4, <1>5, <1>6 DEF BucketsOf
  <2>. QED BY <2>1 DEF Limit!vars, BucketsOf
<1>7. CASE c # b
  <2>1. \/ c = None
        \/ \E capacity, rate \in U64 : c = Limit(eid)!Resized(capacity, rate)
        \/ \E rate \in U64 : c = Limit(eid)!Rerated(b, rate)
    BY <1>2, <1>7 DEF Limit!Resized, Limit!Rerated
  <2>2. Limit(eid)!Configure(d, c)
    BY <1>4, <1>5, <2>1 DEF Limit!Configure, BucketsOf
  <2>3. d \in Limit(eid)!Directions
    BY DEF Directions, Limit!Directions
  <2>. QED BY <1>5, <2>2, <2>3 DEF Limit!Next, BucketsOf
<1>. QED BY <1>6, <1>7

\* Time fills both buckets of a peer.
LEMMA TimeFillsBuckets ==
  ASSUME IInv, NEW eid \in Eids, now' \in Nat, now < now', UNCHANGED peers
  PROVE  Limit(eid)!Next
<1>1. ASSUME NEW d \in Directions
      PROVE  BucketOf(LimiterOf(eid, d)', now') =
               Limit(eid)!Filled(BucketsOf(eid)[d],
                 Limit(eid)!RateOf(BucketsOf(eid)[d]) * (now' - now))
  <2>1. /\ now \in Nat /\ Sound(LimiterOf(eid, d), now)
        /\ BucketsOf(eid)[d] = BucketOf(LimiterOf(eid, d), now)
        /\ LimiterOf(eid, d)' = LimiterOf(eid, d)
    BY LimitersAreSound DEF BucketsOf, LimiterOf
  <2>2. BucketOf(LimiterOf(eid, d), now') =
          FilledOption(BucketsOf(eid)[d],
                       (IF BucketsOf(eid)[d] = None THEN 0
                        ELSE BucketsOf(eid)[d].rate) * (now' - now))
    BY <2>1, TimeFillsOption
  <2>. QED BY <2>1, <2>2
       DEF Limit!Filled, Limit!RateOf, Limit!Least, FilledOption, FilledBucket,
           Smaller
<1>2. BucketsOf(eid)' =
        [d \in Directions |->
           Limit(eid)!Filled(BucketsOf(eid)[d],
             Limit(eid)!RateOf(BucketsOf(eid)[d]) * (now' - now))]
  BY <1>1, NextBuckets
<1>3. Limit(eid)!Elapse
  BY <1>2 DEF Limit!Elapse, Limit!Directions, Directions, BucketsOf
<1>. QED BY <1>3 DEF Limit!Next

\* A step that leaves the limiters of a peer alone leaves its buckets alone.
LEMMA SameLimiters ==
  ASSUME NEW eid, UNCHANGED now,
         \A d \in Directions : LimiterOf(eid, d)' = LimiterOf(eid, d)
  PROVE  UNCHANGED Limit(eid)!vars
<1>1. BucketsOf(eid)' = BucketsOf(eid)
  BY NextBuckets DEF BucketsOf
<1>. QED BY <1>1 DEF Limit!vars, BucketsOf

\* Replacing the account of one peer changes the limiters of no other, and of
\* that one to what the account holds.
LEMMA OnePeerLimiters ==
  ASSUME IInv, NEW eid \in Eids, NEW peer \in PeerConfigs,
         peers' = [peers EXCEPT ![eid] = peer]
  PROVE  /\ LimiterOf(eid, "outbound")' = peer.outbound_rate_limiter
         /\ LimiterOf(eid, "inbound")' = peer.inbound_rate_limiter
         /\ \A e \in Eids \ {eid}, d \in Directions :
               LimiterOf(e, d)' = LimiterOf(e, d)
<1>1. peers \in [Eids -> OptionOf(PeerConfigs)]
  BY DEF IInv, TypeOK
<1>2. peers'[eid] = peer /\ peer # None
  BY <1>1, PeersAssumption
<1>3. \A e \in Eids \ {eid} : peers'[e] = peers[e]
  BY <1>1
<1>. QED BY <1>2, <1>3 DEF LimiterOf

\* set_peer_config changes the limits of its peer only, and only by a
\* parameter that is a limit.
LEMMA SetPeerConfigKeepsLimits ==
  ASSUME IInv, NEW signer \in Accounts, NEW eid \in Eids,
         SetPeerConfig(signer, eid), NEW e \in Eids
  PROVE  Limit(e)!Next \/ UNCHANGED Limit(e)!vars
<1>. DEFINE old == PeerOrNew(eid)
<1>1. old \in PeerConfigs /\ PeerSound(old) /\ old # None
  BY PeerOrNewFacts, PeersAssumption
<1>2. /\ LimiterOf(eid, "outbound") = old.outbound_rate_limiter
      /\ LimiterOf(eid, "inbound") = old.inbound_rate_limiter
  BY DEF LimiterOf, PeerOrNew, NewPeer
<1>3. /\ Sound(old.outbound_rate_limiter, now)
      /\ Sound(old.inbound_rate_limiter, now)
      /\ now \in Nat
  BY <1>1 DEF PeerSound, IInv, TypeOK
<1>. HIDE DEF old
<1>4. ASSUME NEW new \in PeerConfigs, SetPeer(signer, eid, new), e # eid
      PROVE  UNCHANGED Limit(e)!vars
  BY <1>4, OnePeerLimiters, SameLimiters DEF SetPeer
<1>5. ASSUME NEW new \in PeerConfigs, SetPeer(signer, eid, new),
             new.outbound_rate_limiter = old.outbound_rate_limiter,
             new.inbound_rate_limiter = old.inbound_rate_limiter
      PROVE  UNCHANGED Limit(e)!vars
  <2>1. CASE e = eid
    <3>1. \A d \in Directions : LimiterOf(eid, d)' = LimiterOf(eid, d)
      BY <1>2, <1>5, OnePeerLimiters DEF SetPeer, Directions
    <3>. QED BY <1>5, <2>1, <3>1, SameLimiters DEF SetPeer
  <2>. QED BY <1>4, <1>5, <2>1
<1>6. ASSUME NEW address \in Addresses, SetPeerAddress(signer, eid, address)
      PROVE  UNCHANGED Limit(e)!vars
  <2>. DEFINE new == [old EXCEPT !.peer_address = address]
  <2>1. /\ new \in PeerConfigs
        /\ new.outbound_rate_limiter = old.outbound_rate_limiter
        /\ new.inbound_rate_limiter = old.inbound_rate_limiter
    BY <1>1 DEF PeerConfigs
  <2>2. SetPeer(signer, eid, new)
    BY <1>6 DEF SetPeerAddress, old
  <2>. HIDE DEF new
  <2>. QED BY <1>5, <2>1, <2>2
<1>7. ASSUME NEW bps \in OptionOf(FeeBps), SetPeerFee(signer, eid, bps)
      PROVE  UNCHANGED Limit(e)!vars
  <2>. DEFINE new == [old EXCEPT !.fee_bps = bps]
  <2>1. bps \in OptionOf(ValidFeeBps)
    BY <1>7, ProgramAssumption, AmountsAssumption
    DEF SetPeerFee, OptionOf, ValidFeeBps
  <2>2. /\ new \in PeerConfigs
        /\ new.outbound_rate_limiter = old.outbound_rate_limiter
        /\ new.inbound_rate_limiter = old.inbound_rate_limiter
    BY <1>1, <2>1 DEF PeerConfigs
  <2>3. SetPeer(signer, eid, new)
    BY <1>7 DEF SetPeerFee, old
  <2>. HIDE DEF new
  <2>. QED BY <1>5, <2>2, <2>3
<1>8. ASSUME NEW send \in SUBSET OptionItems,
             NEW send_and_call \in SUBSET OptionItems,
             SetEnforcedOptions(signer, eid, send, send_and_call)
      PROVE  UNCHANGED Limit(e)!vars
  <2>. DEFINE new == [old EXCEPT !.enforced_options =
                        [send |-> send, send_and_call |-> send_and_call]]
  <2>1. /\ new \in PeerConfigs
        /\ new.outbound_rate_limiter = old.outbound_rate_limiter
        /\ new.inbound_rate_limiter = old.inbound_rate_limiter
    BY <1>1 DEF PeerConfigs, EnforcedOptions
  <2>2. SetPeer(signer, eid, new)
    BY <1>8 DEF SetEnforcedOptions, old
  <2>. HIDE DEF new
  <2>. QED BY <1>5, <2>1, <2>2
<1>9. ASSUME NEW params \in LimitParams,
             SetOutboundRateLimit(signer, eid, params)
      PROVE  Limit(e)!Next \/ UNCHANGED Limit(e)!vars
  <2>. DEFINE u   == UpdateRateLimiter(old.outbound_rate_limiter, params, now)
              new == [old EXCEPT !.outbound_rate_limiter = u]
  <2>1. u \in OptionOf(RateLimiters)
    <3>1. params \in RateLimitParams \cup {None}
      BY ProgramAssumption
    <3>2. Sound(u, now)
      BY <1>3, <3>1, UpdateKeepsSound
    <3>. HIDE DEF u
    <3>. QED BY <1>3, <3>2, SoundFacts
  <2>2. SetPeer(signer, eid, new)
    BY <1>9 DEF SetOutboundRateLimit, old
  <2>. HIDE DEF u
  <2>3. /\ new \in PeerConfigs
        /\ new.outbound_rate_limiter = u
        /\ new.inbound_rate_limiter = old.inbound_rate_limiter
    BY <1>1, <2>1 DEF PeerConfigs
  <2>. HIDE DEF new
  <2>4. CASE e = eid
    <3>1. /\ LimiterOf(eid, "outbound")' = u
          /\ LimiterOf(eid, "inbound")' = LimiterOf(eid, "inbound")
          /\ now' = now
      BY <1>2, <2>2, <2>3, OnePeerLimiters DEF SetPeer
    <3>2. "outbound" \in Directions /\ Opposite("outbound") = "inbound"
      BY DEF Directions, Opposite
    <3>. QED BY <1>2, <2>4, <3>1, <3>2, UpdateConfiguresBucket DEF u
  <2>. QED BY <1>4, <2>2, <2>3, <2>4
<1>10. ASSUME NEW params \in LimitParams,
              SetInboundRateLimit(signer, eid, params)
       PROVE  Limit(e)!Next \/ UNCHANGED Limit(e)!vars
  <2>. DEFINE u   == UpdateRateLimiter(old.inbound_rate_limiter, params, now)
              new == [old EXCEPT !.inbound_rate_limiter = u]
  <2>1. u \in OptionOf(RateLimiters)
    <3>1. params \in RateLimitParams \cup {None}
      BY ProgramAssumption
    <3>2. Sound(u, now)
      BY <1>3, <3>1, UpdateKeepsSound
    <3>. HIDE DEF u
    <3>. QED BY <1>3, <3>2, SoundFacts
  <2>2. SetPeer(signer, eid, new)
    BY <1>10 DEF SetInboundRateLimit, old
  <2>. HIDE DEF u
  <2>3. /\ new \in PeerConfigs
        /\ new.inbound_rate_limiter = u
        /\ new.outbound_rate_limiter = old.outbound_rate_limiter
    BY <1>1, <2>1 DEF PeerConfigs
  <2>. HIDE DEF new
  <2>4. CASE e = eid
    <3>1. /\ LimiterOf(eid, "inbound")' = u
          /\ LimiterOf(eid, "outbound")' = LimiterOf(eid, "outbound")
          /\ now' = now
      BY <1>2, <2>2, <2>3, OnePeerLimiters DEF SetPeer
    <3>2. "inbound" \in Directions /\ Opposite("inbound") = "outbound"
      BY DEF Directions, Opposite
    <3>. QED BY <1>2, <2>4, <3>1, <3>2, UpdateConfiguresBucket DEF u
  <2>. QED BY <1>4, <2>2, <2>3, <2>4
<1>. QED BY <1>6, <1>7, <1>8, <1>9, <1>10 DEF SetPeerConfig

\* A send takes what it delivers from the outbound bucket of its peer and gives
\* it to the inbound one.
LEMMA SendMovesBuckets ==
  ASSUME IInv, NEW eid \in Eids, NEW amount_ld \in SendAmounts,
         NEW min_amount_ld \in MinAmounts, NEW composed \in Composed,
         NEW options \in SUBSET OptionItems,
         Send(eid, amount_ld, min_amount_ld, composed, options), NEW e \in Eids
  PROVE  Limit(e)!Next \/ UNCHANGED Limit(e)!vars
<1>. DEFINE q    == Quote(eid, amount_ld)
            got  == q.amount_received_ld
            peer == peers[eid]
            new  == ThrottleSend(peer, got)
<1>1. /\ peer # None /\ now' = now
      /\ FitsU64(q.amount_sent_ld)
      /\ CanConsumeOption(peer.outbound_rate_limiter, now, got)
      /\ peers' = [peers EXCEPT ![eid] = new]
  BY DEF Send
<1>2. amount_ld \in Nat
  BY ProgramAssumption, AmountsAssumption DEF U64
<1>3. /\ q.amount_sent_ld \in Nat /\ got \in Nat /\ q.oft_fee_ld \in Nat
      /\ got + q.oft_fee_ld = IF IsAdapter
                              THEN PostFeeAmount(transfer_fee, q.amount_sent_ld)
                              ELSE q.amount_sent_ld
  BY <1>1, <1>2, QuoteFacts
<1>4. new \in PeerConfigs
  BY <1>1, <1>3, ThrottleFacts
<1>. HIDE DEF q
<1>5. got \in U64
  <2>. DEFINE kept == WithheldFee(transfer_fee, q.amount_sent_ld)
              post == PostFeeAmount(transfer_fee, q.amount_sent_ld)
  <2>1. post \in Nat /\ kept \in Nat /\ kept + post = q.amount_sent_ld
    BY <1>3, WithheldFeeFacts DEF IInv, TypeOK
  <2>. HIDE DEF kept, post
  <2>2. got <= q.amount_sent_ld
    BY <1>3, <2>1 DEF post
  <2>. QED BY <1>1, <1>3, <2>2, AmountsAssumption DEF FitsU64, U64
<1>6. /\ LimiterOf(eid, "outbound") = peer.outbound_rate_limiter
      /\ LimiterOf(eid, "inbound") = peer.inbound_rate_limiter
  BY <1>1 DEF LimiterOf
<1>7. /\ new.outbound_rate_limiter =
           TryConsumeOption(peer.outbound_rate_limiter, now, got)
      /\ new.inbound_rate_limiter =
           RefillOption(peer.inbound_rate_limiter, now, got)
  <2>1. peer \in PeerConfigs
    BY <1>1 DEF IInv, TypeOK, OptionOf
  <2>. QED BY <2>1 DEF ThrottleSend, PeerConfigs
<1>. HIDE DEF got, peer, new
<1>8. CASE e = eid
  <2>1. /\ LimiterOf(eid, "outbound")' =
             TryConsumeOption(LimiterOf(eid, "outbound"), now, got)
        /\ LimiterOf(eid, "inbound")' =
             RefillOption(LimiterOf(eid, "inbound"), now, got)
    BY <1>1, <1>4, <1>6, <1>7, OnePeerLimiters
  <2>2. "outbound" \in Directions /\ Opposite("outbound") = "inbound"
    BY DEF Directions, Opposite
  <2>. QED BY <1>1, <1>5, <1>6, <1>8, <2>1, <2>2, TransferMoves
<1>9. CASE e # eid
  BY <1>1, <1>4, <1>9, OnePeerLimiters, SameLimiters
<1>. QED BY <1>8, <1>9

\* A receipt takes its amount from the inbound bucket of its peer and gives it
\* to the outbound one.
LEMMA LzReceiveMovesBuckets ==
  ASSUME IInv, NEW packet \in verified,
         NEW authority \in OptionOf(Authorities),
         LzReceive(packet, authority), NEW e \in Eids
  PROVE  Limit(e)!Next \/ UNCHANGED Limit(e)!vars
<1>. DEFINE amt  == Sd2Ld(packet.amount_sd, Rate)
            eid  == packet.src_eid
            peer == peers[eid]
            new  == ThrottleReceive(peer, amt)
<1>1. /\ peer # None /\ now' = now
      /\ FitsU64(amt)
      /\ CanConsumeOption(peer.inbound_rate_limiter, now, amt)
      /\ peers' = [peers EXCEPT ![eid] = new]
  BY DEF LzReceive
<1>2. /\ eid \in Eids /\ packet.amount_sd \in Nat /\ Rate \in Nat
  BY AmountsAssumption
  DEF IInv, TypeOK, InboundPackets, OFTStores, Rate, U64
<1>3. amt \in Nat
  BY <1>2, ProductInNat DEF Sd2Ld
<1>. HIDE DEF amt, eid
<1>4. new \in PeerConfigs
  BY <1>1, <1>2, <1>3, ThrottleFacts
<1>5. amt \in U64
  BY <1>1, <1>3, AmountsAssumption DEF FitsU64, U64
<1>6. /\ LimiterOf(eid, "outbound") = peer.outbound_rate_limiter
      /\ LimiterOf(eid, "inbound") = peer.inbound_rate_limiter
  BY <1>1 DEF LimiterOf
<1>7. /\ new.inbound_rate_limiter =
           TryConsumeOption(peer.inbound_rate_limiter, now, amt)
      /\ new.outbound_rate_limiter =
           RefillOption(peer.outbound_rate_limiter, now, amt)
  <2>1. peer \in PeerConfigs
    BY <1>1, <1>2 DEF IInv, TypeOK, OptionOf
  <2>. QED BY <2>1 DEF ThrottleReceive, PeerConfigs
<1>. HIDE DEF peer, new
<1>8. CASE e = eid
  <2>1. /\ LimiterOf(eid, "inbound")' =
             TryConsumeOption(LimiterOf(eid, "inbound"), now, amt)
        /\ LimiterOf(eid, "outbound")' =
             RefillOption(LimiterOf(eid, "outbound"), now, amt)
    BY <1>1, <1>2, <1>4, <1>6, <1>7, OnePeerLimiters
  <2>2. "inbound" \in Directions /\ Opposite("inbound") = "outbound"
    BY DEF Directions, Opposite
  <2>. QED BY <1>1, <1>2, <1>5, <1>6, <1>8, <2>1, <2>2, TransferMoves
<1>9. CASE e # eid
  BY <1>1, <1>2, <1>4, <1>9, OnePeerLimiters, SameLimiters
<1>. QED BY <1>8, <1>9

\* Every step of the program and its environment is, for the limiters of each
\* peer, a step of its buckets or no step.
LEMMA StepKeepsLimits ==
  ASSUME IInv, [Next]_vars, NEW e \in Eids
  PROVE  Limit(e)!Next \/ UNCHANGED Limit(e)!vars
<1>1. UNCHANGED <<peers, now>> => UNCHANGED Limit(e)!vars
  BY SameLimiters DEF LimiterOf
<1>2. CASE Administration
  <2>1. ASSUME NEW signer \in Accounts, SetOFTConfig(signer)
        PROVE  UNCHANGED <<peers, now>>
    BY <2>1 DEF SetOFTConfig, SetAdmin, SetDelegate, SetDefaultFee, SetPaused,
                SetPauser, SetUnpauser
  <2>. QED BY <1>1, <1>2, <2>1, SetPeerConfigKeepsLimits
       DEF Administration, SetPause, WithdrawFee
<1>3. CASE Traffic
  BY <1>3, SendMovesBuckets, LzReceiveMovesBuckets DEF Traffic
<1>4. CASE Environment
  <2>1. ASSUME NEW t \in (now + 1) .. MaxTime, NEW fee \in TransferFeeChoices,
               Tick(t, fee)
        PROVE  Limit(e)!Next
    <3>1. now' \in Nat /\ now < now' /\ UNCHANGED peers
      BY <2>1, ProgramAssumption DEF Tick, IInv, TypeOK
    <3>. QED BY <3>1, TimeFillsBuckets
  <2>. QED BY <1>1, <1>4, <2>1
       DEF Environment, EndpointVerify, Donate, SetMintAuthority
<1>5. CASE UNCHANGED vars
  BY <1>1, <1>5 DEF vars
<1>. QED BY <1>2, <1>3, <1>4, <1>5 DEF Next

\* A new store has no limits.
LEMMA InitLimits == Init => \A eid \in Eids : Limit(eid)!Init
BY DEF Init, Limit!Init, Limit!Directions, Directions, LimiterOf, BucketOf

\* In the whole program, with every instruction, any number of peers and any
\* order, the limiters of each peer are two buckets that fill by themselves and
\* trade what is transferred; nothing else changes them.
THEOREM LimitsHoldEverywhere == Spec => PeersAreLimited
<1>1. IInv /\ [Next]_vars =>
        [\A eid \in Eids : Limit(eid)!Next \/ UNCHANGED Limit(eid)!vars]_vars
  BY StepKeepsLimits
<1>. QED BY <1>1, InitLimits, InductiveInvariant, PTL DEF Spec, PeersAreLimited

-----------------------------------------------------------------------------
(* What a message costs.                                                   *)

\* A transfer between the limiters of a peer is metered.
LEMMA TransferIsMetered ==
  ASSUME IInv, NEW eid \in Eids, NEW d \in Directions, NEW amount \in Nat,
         UNCHANGED now,
         CanConsumeOption(LimiterOf(eid, d), now, amount),
         LimiterOf(eid, d)' = TryConsumeOption(LimiterOf(eid, d), now, amount),
         LimiterOf(eid, Opposite(d))' =
           RefillOption(LimiterOf(eid, Opposite(d)), now, amount)
  PROVE  Metered(eid, d, Opposite(d), amount)
<1>. DEFINE o == Opposite(d)
            b(x) == BucketOf(LimiterOf(eid, x), now)
<1>1. o \in Directions
  BY DEF Directions, Opposite
<1>. HIDE DEF o
<1>2. /\ BucketLevel(eid, d)' =
           BucketOf(TryConsumeOption(LimiterOf(eid, d), now, amount), now).level
      /\ BucketLevel(eid, o)' =
           BucketOf(RefillOption(LimiterOf(eid, o), now, amount), now).level
  <2>1. \A x : BucketLevel(eid, x)' = BucketOf(LimiterOf(eid, x)', now').level
    BY DEF BucketLevel, BucketOf
  <2>. QED BY <2>1 DEF o
<1>3. ASSUME IsLimited(eid, d)
      PROVE  BucketLevel(eid, d)' = BucketLevel(eid, d) - amount
  <2>1. /\ b(d) # None /\ b(d) \in Buckets
        /\ BucketOf(TryConsumeOption(LimiterOf(eid, d), now, amount), now)
             = DrainedOption(b(d), amount)
    BY <1>3, LimitersAreSound, SoundBucket, ConsumeDrains DEF IsLimited
  <2>. HIDE DEF b
  <2>2. DrainedOption(b(d), amount).level = b(d).level - amount
    BY <2>1 DEF DrainedOption, Buckets
  <2>. QED BY <1>2, <2>1, <2>2 DEF BucketLevel, b
<1>4. ASSUME IsLimited(eid, o)
      PROVE  BucketLevel(eid, o)' =
               Smaller(LimiterOf(eid, o).capacity, BucketLevel(eid, o) + amount)
  <2>1. /\ b(o) # None /\ b(o) \in Buckets
        /\ b(o).capacity = LimiterOf(eid, o).capacity
        /\ BucketOf(RefillOption(LimiterOf(eid, o), now, amount), now)
             = FilledOption(b(o), amount)
    <3>1. b(o).capacity = LimiterOf(eid, o).capacity
      BY <1>4 DEF IsLimited, BucketOf
    <3>. QED BY <1>1, <1>4, <3>1, LimitersAreSound, SoundBucket, RefillFills
         DEF IsLimited
  <2>. HIDE DEF b
  <2>2. FilledOption(b(o), amount).level
          = Smaller(b(o).capacity, b(o).level + amount)
    BY <2>1 DEF FilledOption, FilledBucket, Buckets
  <2>. QED BY <1>2, <2>1, <2>2 DEF BucketLevel, b
<1>. QED BY <1>3, <1>4 DEF Metered, o

\* A message sent is metered by the local value of the amount it carries.
LEMMA SendIsMetered ==
  ASSUME IInv, NEW eid \in Eids, NEW amount_ld \in SendAmounts,
         NEW min_amount_ld \in MinAmounts, NEW composed \in Composed,
         NEW options \in SUBSET OptionItems,
         Send(eid, amount_ld, min_amount_ld, composed, options)
  PROVE  /\ \A packet \in outbound' \ outbound :
              Metered(packet.dst_eid, "outbound", "inbound",
                      Rate * packet.amount_sd)
         /\ verified' = verified
<1>. DEFINE got  == Quote(eid, amount_ld).amount_received_ld
            sd   == Ld2Sd(got, Rate)
            peer == peers[eid]
            new  == ThrottleSend(peer, got)
            p    == [dst_eid |-> eid, receiver |-> peer.peer_address,
                     guid |-> next_guid, amount_sd |-> sd,
                     composed |-> composed,
                     options |-> EnforcedFor(peer, composed) \cup options]
<1>1. /\ peer # None /\ now' = now /\ verified' = verified
      /\ CanConsumeOption(peer.outbound_rate_limiter, now, got)
      /\ peers' = [peers EXCEPT ![eid] = new]
      /\ outbound' = outbound \cup {p}
  BY DEF Send, EndpointSend
<1>2. amount_ld \in Nat
  BY ProgramAssumption, AmountsAssumption DEF U64
<1>3. got \in Nat /\ Rate * sd = got
  BY <1>1, <1>2, QuoteFacts
<1>4. new \in PeerConfigs /\ peer \in PeerConfigs
  BY <1>1, <1>3, ThrottleFacts DEF IInv, TypeOK, OptionOf
<1>5. p.dst_eid = eid /\ p.amount_sd = sd
  OBVIOUS
<1>. HIDE DEF got, sd, p
<1>6. /\ LimiterOf(eid, "outbound") = peer.outbound_rate_limiter
      /\ LimiterOf(eid, "inbound") = peer.inbound_rate_limiter
  BY <1>1 DEF LimiterOf
<1>7. /\ new.outbound_rate_limiter =
           TryConsumeOption(peer.outbound_rate_limiter, now, got)
      /\ new.inbound_rate_limiter =
           RefillOption(peer.inbound_rate_limiter, now, got)
  BY <1>4 DEF ThrottleSend, PeerConfigs
<1>. HIDE DEF peer, new
<1>8. /\ LimiterOf(eid, "outbound")' =
           TryConsumeOption(LimiterOf(eid, "outbound"), now, got)
      /\ LimiterOf(eid, "inbound")' =
           RefillOption(LimiterOf(eid, "inbound"), now, got)
  BY <1>1, <1>4, <1>6, <1>7, OnePeerLimiters
<1>9. "outbound" \in Directions /\ Opposite("outbound") = "inbound"
  BY DEF Directions, Opposite
<1>10. Metered(eid, "outbound", "inbound", got)
  BY <1>1, <1>3, <1>6, <1>8, <1>9, TransferIsMetered
<1>. QED BY <1>1, <1>3, <1>5, <1>10

\* A message received is metered by the local value of the amount it carries.
LEMMA LzReceiveIsMetered ==
  ASSUME IInv, NEW packet \in verified,
         NEW authority \in OptionOf(Authorities),
         LzReceive(packet, authority)
  PROVE  /\ Metered(packet.src_eid, "inbound", "outbound",
                    Rate * packet.amount_sd)
         /\ outbound' = outbound
         /\ verified' = verified \ {packet}
<1>. DEFINE amt  == Sd2Ld(packet.amount_sd, Rate)
            eid  == packet.src_eid
            peer == peers[eid]
            new  == ThrottleReceive(peer, amt)
<1>1. /\ peer # None /\ now' = now /\ outbound' = outbound
      /\ verified' = verified \ {packet}
      /\ CanConsumeOption(peer.inbound_rate_limiter, now, amt)
      /\ peers' = [peers EXCEPT ![eid] = new]
  BY DEF LzReceive, Clear
<1>2. /\ eid \in Eids /\ packet.amount_sd \in Nat /\ Rate \in Nat
  BY AmountsAssumption
  DEF IInv, TypeOK, InboundPackets, OFTStores, Rate, U64
<1>3. amt \in Nat /\ amt = Rate * packet.amount_sd
  BY <1>2, ProductInNat DEF Sd2Ld
<1>. HIDE DEF amt, eid
<1>4. new \in PeerConfigs /\ peer \in PeerConfigs
  BY <1>1, <1>2, <1>3, ThrottleFacts DEF IInv, TypeOK, OptionOf
<1>5. /\ LimiterOf(eid, "outbound") = peer.outbound_rate_limiter
      /\ LimiterOf(eid, "inbound") = peer.inbound_rate_limiter
  BY <1>1 DEF LimiterOf
<1>6. /\ new.inbound_rate_limiter =
           TryConsumeOption(peer.inbound_rate_limiter, now, amt)
      /\ new.outbound_rate_limiter =
           RefillOption(peer.outbound_rate_limiter, now, amt)
  BY <1>4 DEF ThrottleReceive, PeerConfigs
<1>. HIDE DEF peer, new
<1>7. /\ LimiterOf(eid, "inbound")' =
           TryConsumeOption(LimiterOf(eid, "inbound"), now, amt)
      /\ LimiterOf(eid, "outbound")' =
           RefillOption(LimiterOf(eid, "outbound"), now, amt)
  BY <1>1, <1>2, <1>4, <1>5, <1>6, OnePeerLimiters
<1>8. "inbound" \in Directions /\ Opposite("inbound") = "outbound"
  BY DEF Directions, Opposite
<1>9. Metered(eid, "inbound", "outbound", amt)
  BY <1>1, <1>2, <1>3, <1>5, <1>7, <1>8, TransferIsMetered
<1>. QED BY <1>1, <1>3, <1>9 DEF eid

\* Administration touches no packet.
LEMMA AdministrationKeepsPackets ==
  ASSUME Administration
  PROVE  UNCHANGED <<verified, inbound_nonce, composes>>
<1>1. ASSUME NEW signer \in Accounts, SetOFTConfig(signer)
      PROVE  UNCHANGED <<verified, inbound_nonce, composes>>
  BY <1>1 DEF SetOFTConfig, SetAdmin, SetDelegate, SetDefaultFee, SetPaused,
              SetPauser, SetUnpauser, custodyVars, endpointVars
<1>2. ASSUME NEW signer \in Accounts, NEW eid \in Eids,
             SetPeerConfig(signer, eid)
      PROVE  UNCHANGED <<verified, inbound_nonce, composes>>
  BY <1>2 DEF SetPeerConfig, SetPeerAddress, SetPeerFee, SetEnforcedOptions,
              SetOutboundRateLimit, SetInboundRateLimit, SetPeer,
              custodyVars, endpointVars
<1>. QED BY <1>1, <1>2
     DEF Administration, SetPause, WithdrawFee, custodyVars, endpointVars

\* Nothing but lz_receive clears a packet.
LEMMA OnlyReceiptsClear ==
  ASSUME [Next]_vars
  PROVE  Traffic \/ verified \subseteq verified'
<1>1. CASE Administration
  BY <1>1, AdministrationKeepsPackets
<1>2. CASE Environment
  BY <1>2 DEF Environment, EndpointVerify, Donate, SetMintAuthority, Tick,
              endpointVars
<1>3. CASE UNCHANGED vars
  BY <1>3 DEF vars, custodyVars, endpointVars
<1>. QED BY <1>1, <1>2, <1>3 DEF Next

\* Whatever dust and fees a sender pays, and in every state of the limiters, a
\* message costs its direction the local value of what it carries and gives
\* the other direction as much.
THEOREM LimitsMeterMessages == Spec => TrafficIsMetered
<1>. DEFINE A == /\ \A packet \in outbound' \ outbound :
                      Metered(packet.dst_eid, "outbound", "inbound",
                              Rate * packet.amount_sd)
                 /\ \A packet \in verified \ verified' :
                      Metered(packet.src_eid, "inbound", "outbound",
                              Rate * packet.amount_sd)
<1>1. IInv /\ [Next]_vars => [A]_vars
  <2>. SUFFICES ASSUME IInv, [Next]_vars PROVE A
    OBVIOUS
  <2>1. CASE ~Traffic
    BY <2>1, StepKinds, OnlyReceiptsClear DEF Quiet
  <2>2. ASSUME NEW eid \in Eids, NEW amount_ld \in SendAmounts,
               NEW min_amount_ld \in MinAmounts, NEW composed \in Composed,
               NEW options \in SUBSET OptionItems,
               Send(eid, amount_ld, min_amount_ld, composed, options)
        PROVE  A
    BY <2>2, SendIsMetered
  <2>3. ASSUME NEW packet \in verified, NEW authority \in OptionOf(Authorities),
               LzReceive(packet, authority)
        PROVE  A
    BY <2>3, LzReceiveIsMetered
  <2>. QED BY <2>1, <2>2, <2>3 DEF Traffic
<1>. QED BY <1>1, InductiveInvariant, PTL DEF Spec, TrafficIsMetered

=============================================================================
