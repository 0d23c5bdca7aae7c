----------------------------- MODULE ClientProofs -----------------------------
(***************************************************************************)
(* The compositions around the OFT program: its clients, and the bridge it  *)
(* is a part of, for every set of workers, operators, chains, users, inputs *)
(* and bounds.  Workers who plan lz_receive and submit it later are a       *)
(* refinement of the program: whatever they submit is a step of Spec, so    *)
(* all that OFTProofs says of the program holds of their deliveries, and    *)
(* two of them never credit the same packet twice.  The rate limit tasks    *)
(* send instructions that keep the program's invariant, and the inbound one *)
(* sets what it was asked for.  The bridge keeps the ledger of OmniLedger.  *)
(***************************************************************************)
EXTENDS OFTProofs, Delivery, RateLimitTasks, Omnichain

-----------------------------------------------------------------------------
(* Delivery implements the program.                                        *)

\* A plan names an account that may have been the mint's authority.
PlansFit == \A plan \in plans : plan.mint_authority \in OptionOf(Authorities)

DInv == IInv /\ PlansFit

\* A worker's transaction is an lz_receive or nothing at all.
LEMMA SubmitIsLzReceive ==
  ASSUME NEW worker, NEW packet, Submit(worker, packet)
  PROVE  \E plan \in plans :
            /\ plans' = plans \ {plan}
            /\ \/ /\ LzReceive(plan.packet, plan.mint_authority)
                  /\ receipts' = Append(receipts, plan.packet)
               \/ UNCHANGED <<vars, receipts>>
<1>1. PICK plan \in plans :
         /\ plans' = plans \ {plan}
         /\ \/ Execute(plan) /\ receipts' = Append(receipts, plan.packet)
            \/ UNCHANGED <<vars, receipts>>
  BY DEF Submit
<1>2. Execute(plan) => LzReceive(plan.packet, plan.mint_authority)
  BY DEF Execute
<1>. QED BY <1>1, <1>2

\* Whatever workers plan and submit, the program takes a step of its own.
LEMMA DeliveryStep ==
  ASSUME DInv, [DeliveryNext]_deliveryVars
  PROVE  [Next]_vars /\ PlansFit'
<1>1. ASSUME NEW worker \in Workers, NEW packet \in verified,
             LzReceiveTypes(worker, packet)
      PROVE  UNCHANGED vars /\ PlansFit'
  <2>. DEFINE p == [worker |-> worker, packet |-> packet,
                    mint_authority |-> mint_authority,
                    compose_ld |-> ComposeAmount(packet)]
  <2>1. plans' = plans \cup {p} /\ UNCHANGED vars
    BY <1>1 DEF LzReceiveTypes
  <2>2. p.mint_authority \in OptionOf(Authorities)
    BY DEF DInv, IInv, TypeOK
  <2>. HIDE DEF p
  <2>. QED BY <2>1, <2>2 DEF DInv, PlansFit
<1>2. ASSUME NEW worker, NEW packet, Submit(worker, packet)
      PROVE  [Next]_vars /\ PlansFit'
  <2>1. PICK plan \in plans :
           /\ plans' = plans \ {plan}
           /\ \/ LzReceive(plan.packet, plan.mint_authority)
              \/ UNCHANGED vars
    BY <1>2, SubmitIsLzReceive
  <2>2. PlansFit'
    BY <2>1 DEF DInv, PlansFit
  <2>3. ASSUME LzReceive(plan.packet, plan.mint_authority)
        PROVE  Next
    <3>1. plan.packet \in verified
      BY <2>3 DEF LzReceive, Clear
    <3>2. plan.mint_authority \in OptionOf(Authorities)
      BY DEF DInv, PlansFit
    <3>3. Traffic
      BY <2>3, <3>1, <3>2 DEF Traffic
    <3>. QED BY <3>3 DEF Next
  <2>. QED BY <2>1, <2>2, <2>3
<1>3. ASSUME UNCHANGED plans
      PROVE  PlansFit'
  BY <1>3 DEF DInv, PlansFit
<1>4. ASSUME NEW eid \in Eids, NEW amount_ld \in SendAmounts,
             NEW min_amount_ld \in MinAmounts, NEW composed \in Composed,
             NEW options \in SUBSET OptionItems,
             Send(eid, amount_ld, min_amount_ld, composed, options)
      PROVE  Next
  BY <1>4 DEF Traffic, Next
<1>5. Administration \/ Environment => Next
  BY DEF Next
<1>6. CASE UNCHANGED deliveryVars
  BY <1>3, <1>6 DEF deliveryVars
<1>. QED BY <1>1, <1>2, <1>3, <1>4, <1>5, <1>6 DEF DeliveryNext

\* Deliveries keep that invariant.
LEMMA DeliveryInvariant == DeliverySpec => []DInv
<1>1. DeliveryInit => DInv
  BY InitIInv DEF DeliveryInit, DInv, PlansFit
<1>2. DInv /\ [DeliveryNext]_deliveryVars => DInv'
  BY DeliveryStep, NextIInv DEF DInv
<1>. QED BY <1>1, <1>2, PTL DEF DeliverySpec

\* The executor and everyone who retries a payload, with plans that may be
\* stale, only ever do what the program allows (lz_receive_types and lz_receive).
THEOREM DeliveryImplementsProgram == DeliverySpec => Spec
<1>1. DeliveryInit => Init
  BY DEF DeliveryInit
<1>2. DInv /\ [DeliveryNext]_deliveryVars => [Next]_vars
  BY DeliveryStep
<1>. QED BY <1>1, <1>2, DeliveryInvariant, PTL DEF DeliverySpec, Spec

-----------------------------------------------------------------------------
(* A packet is received once.                                              *)

ComposedOnce ==
    /\ \A a, b \in composes : SamePacket(a, b) => a = b
    /\ \A packet \in verified, message \in composes : ~SamePacket(packet, message)

\* Nonces name packets: those of a source are given out in order, and a packet
\* is verified, or its compose message is handed over, but not both.
NoncesNamePackets ==
    /\ \A packet \in verified : packet.nonce <= inbound_nonce[packet.src_eid]
    /\ \A message \in composes : message.nonce <= inbound_nonce[message.src_eid]
    /\ \A a, b \in verified : SamePacket(a, b) => a = b
    /\ ComposedOnce

\* Steps that neither verify nor clear anything.
LEMMA IdleStep ==
  ASSUME NoncesNamePackets, UNCHANGED <<verified, inbound_nonce, composes>>
  PROVE  NoncesNamePackets'
BY DEF NoncesNamePackets, ComposedOnce, SamePacket

\* A new packet has a nonce that nothing of its source has had.
LEMMA VerifyStep ==
  ASSUME IInv, NoncesNamePackets, NEW path \in OpenPaths,
         NEW amount_sd, NEW composed,
         EndpointVerify(path[1], path[2], amount_sd, composed)
  PROVE  NoncesNamePackets'
<1>. DEFINE src == path[1]
            p   == [src_eid |-> src, sender |-> path[2],
                    nonce |-> inbound_nonce[src] + 1,
                    amount_sd |-> amount_sd, composed |-> composed]
<1>1. src \in Eids
  BY ProgramAssumption
<1>2. /\ verified' = verified \cup {p}
      /\ inbound_nonce' = [inbound_nonce EXCEPT ![src] = @ + 1]
      /\ composes' = composes
  BY DEF EndpointVerify
<1>3. p.src_eid = src /\ p.nonce = inbound_nonce[src] + 1
  OBVIOUS
<1>4. inbound_nonce \in [Eids -> Nat]
  BY DEF IInv, TypeOK
<1>5. /\ \A a \in verified : a.src_eid \in Eids /\ a.nonce \in Nat
      /\ \A m \in composes : m.src_eid \in Eids /\ m.nonce \in Nat
  BY DEF IInv, TypeOK, InboundPackets, ComposeMessages
<1>. HIDE DEF p, src
<1>6. \A e \in Eids : /\ inbound_nonce'[e] \in Nat
                      /\ inbound_nonce[e] <= inbound_nonce'[e]
  BY <1>1, <1>2, <1>4
<1>7. inbound_nonce'[src] = inbound_nonce[src] + 1 /\ inbound_nonce[src] \in Nat
  BY <1>1, <1>2, <1>4
<1>8. \A a \in verified : /\ a.nonce <= inbound_nonce[a.src_eid]
                          /\ ~SamePacket(a, p)
  BY <1>3, <1>5, <1>7 DEF NoncesNamePackets, SamePacket
<1>9. \A m \in composes : /\ m.nonce <= inbound_nonce[m.src_eid]
                          /\ ~SamePacket(m, p)
  BY <1>3, <1>5, <1>7 DEF NoncesNamePackets, SamePacket
<1>10. \A a \in verified' : a.nonce <= inbound_nonce'[a.src_eid]
  <2>1. \A a \in verified : a.nonce <= inbound_nonce'[a.src_eid]
    BY <1>4, <1>5, <1>6, <1>8
  <2>2. p.nonce <= inbound_nonce'[p.src_eid]
    BY <1>3, <1>7
  <2>. QED BY <1>2, <2>1, <2>2
<1>11. \A m \in composes' : m.nonce <= inbound_nonce'[m.src_eid]
  BY <1>2, <1>4, <1>5, <1>6, <1>9
<1>12. \A a, b \in verified' : SamePacket(a, b) => a = b
  BY <1>2, <1>8 DEF NoncesNamePackets, SamePacket
<1>13. ComposedOnce'
  BY <1>2, <1>9 DEF NoncesNamePackets, ComposedOnce, SamePacket
<1>. QED BY <1>10, <1>11, <1>12, <1>13 DEF NoncesNamePackets, SamePacket

\* What an lz_receive hands to a composer is named after the packet it clears.
LEMMA ReceiveStep ==
  ASSUME IInv, NoncesNamePackets, NEW packet \in verified, NEW authority,
         LzReceive(packet, authority)
  PROVE  NoncesNamePackets'
<1>. DEFINE m == [src_eid |-> packet.src_eid, nonce |-> packet.nonce,
                  amount_ld |-> CreditedAmount(Sd2Ld(packet.amount_sd, Rate))]
<1>1. /\ verified' = verified \ {packet}
      /\ inbound_nonce' = inbound_nonce
      /\ composes' \subseteq composes \cup {m}
  BY DEF LzReceive, Clear, SendCompose
<1>2. SamePacket(m, packet) /\ m.src_eid = packet.src_eid /\ m.nonce = packet.nonce
  BY DEF SamePacket
<1>. HIDE DEF m
<1>3. \A a \in composes : ~SamePacket(a, m)
  BY <1>2 DEF NoncesNamePackets, ComposedOnce, SamePacket
<1>4. \A a \in verified \ {packet} : ~SamePacket(a, m)
  BY <1>2 DEF NoncesNamePackets, SamePacket
<1>5. m.nonce <= inbound_nonce[m.src_eid]
  BY <1>2 DEF NoncesNamePackets
<1>6. \A a, b \in composes' : SamePacket(a, b) => a = b
  BY <1>1, <1>3 DEF NoncesNamePackets, ComposedOnce, SamePacket
<1>7. \A p \in verified', a \in composes' : ~SamePacket(p, a)
  BY <1>1, <1>4 DEF NoncesNamePackets, ComposedOnce, SamePacket
<1>. QED BY <1>1, <1>5, <1>6, <1>7 DEF NoncesNamePackets, ComposedOnce, SamePacket

\* No step of the program gives a nonce twice.
LEMMA NoncesStep ==
  ASSUME IInv, NoncesNamePackets, [Next]_vars
  PROVE  NoncesNamePackets'
<1>1. CASE UNCHANGED vars
  BY <1>1, IdleStep DEF vars, custodyVars, endpointVars
<1>2. CASE Administration
  BY <1>2, AdministrationKeepsPackets, IdleStep
<1>3. CASE Traffic
  <2>1. ASSUME NEW eid \in Eids, NEW amount_ld \in SendAmounts,
               NEW min_amount_ld \in MinAmounts, NEW composed \in Composed,
               NEW options \in SUBSET OptionItems,
               Send(eid, amount_ld, min_amount_ld, composed, options)
        PROVE  UNCHANGED <<verified, inbound_nonce, composes>>
    BY <2>1 DEF Send
  <2>. QED BY <1>3, <2>1, IdleStep, ReceiveStep DEF Traffic
<1>4. CASE Environment
  <2>1. ASSUME NEW amount_ld \in Donations, Donate(amount_ld)
        PROVE  UNCHANGED <<verified, inbound_nonce, composes>>
    BY <2>1 DEF Donate, endpointVars
  <2>2. ASSUME NEW authority \in NewAuthorities, SetMintAuthority(authority)
        PROVE  UNCHANGED <<verified, inbound_nonce, composes>>
    BY <2>2 DEF SetMintAuthority, endpointVars
  <2>3. ASSUME NEW t \in (now + 1) .. MaxTime, NEW fee \in TransferFeeChoices,
               Tick(t, fee)
        PROVE  UNCHANGED <<verified, inbound_nonce, composes>>
    BY <2>3 DEF Tick, endpointVars
  <2>. QED BY <1>4, <2>1, <2>2, <2>3, IdleStep, VerifyStep DEF Environment
<1>. QED BY <1>1, <1>2, <1>3, <1>4 DEF Next

\* So a nonce names its packet throughout.
LEMMA NoncesAlwaysNamePackets == Spec => []NoncesNamePackets
<1>1. Init => NoncesNamePackets
  BY DEF Init, NoncesNamePackets, ComposedOnce
<1>2. IInv /\ NoncesNamePackets /\ [Next]_vars => NoncesNamePackets'
  BY NoncesStep
<1>. QED BY <1>1, <1>2, InductiveInvariant, PTL DEF Spec

Numbers(receipt) == receipt.nonce <= inbound_nonce[receipt.src_eid]

\* A receipt bears a nonce that was given out, and that no packet has any more.
ReceiptsFit ==
    /\ receipts \in Seq(InboundPackets)
    /\ \A i \in DOMAIN receipts : Numbers(receipts[i])
    /\ ReceivedOnce

ReceiptInv == DInv /\ NoncesNamePackets /\ ReceiptsFit

\* Steps that neither verify nor clear anything.
LEMMA IdleKeepsReceipts ==
  ASSUME ReceiptsFit, UNCHANGED <<verified, inbound_nonce, composes, receipts>>
  PROVE  ReceiptsFit'
BY DEF ReceiptsFit, ReceivedOnce, Numbers, SamePacket

\* A new packet has a nonce that nothing received has had.
LEMMA VerifyKeepsReceipts ==
  ASSUME IInv, ReceiptsFit, NEW path \in OpenPaths, NEW amount_sd, NEW composed,
         EndpointVerify(path[1], path[2], amount_sd, composed),
         UNCHANGED receipts
  PROVE  ReceiptsFit'
<1>. DEFINE src == path[1]
            p   == [src_eid |-> src, sender |-> path[2],
                    nonce |-> inbound_nonce[src] + 1,
                    amount_sd |-> amount_sd, composed |-> composed]
<1>1. src \in Eids
  BY ProgramAssumption
<1>2. /\ verified' = verified \cup {p}
      /\ inbound_nonce' = [inbound_nonce EXCEPT ![src] = @ + 1]
      /\ composes' = composes
  BY DEF EndpointVerify
<1>3. p.src_eid = src /\ p.nonce = inbound_nonce[src] + 1
  OBVIOUS
<1>4. inbound_nonce \in [Eids -> Nat]
  BY DEF IInv, TypeOK
<1>. HIDE DEF p, src
<1>5. /\ \A e \in Eids : inbound_nonce[e] \in Nat /\ inbound_nonce'[e] \in Nat
                           /\ inbound_nonce[e] <= inbound_nonce'[e]
  BY <1>1, <1>2, <1>4
<1>6. ASSUME NEW i \in DOMAIN receipts
      PROVE  Numbers(receipts[i])' /\ ~SamePacket(receipts[i], p)
  <2>. DEFINE P == InboundPackets
  <2>0. receipts[i] \in P
    <3>1. receipts \in Seq(P)
      BY DEF ReceiptsFit
    <3>. QED BY <3>1
  <2>1. receipts[i].src_eid \in Eids /\ receipts[i].nonce \in Nat
    BY <2>0 DEF InboundPackets
  <2>2. receipts[i].nonce <= inbound_nonce[receipts[i].src_eid]
    BY DEF ReceiptsFit, Numbers
  <2>. QED BY <1>1, <1>3, <1>5, <2>1, <2>2 DEF Numbers, SamePacket
<1>. QED BY <1>2, <1>6 DEF ReceiptsFit, ReceivedOnce, SamePacket

\* A receipt takes its packet away, and hands over at most its own message.
LEMMA ReceiveKeepsReceipts ==
  ASSUME IInv, NoncesNamePackets, NoncesNamePackets', ReceiptsFit,
         NEW packet \in verified, NEW authority,
         LzReceive(packet, authority), receipts' = Append(receipts, packet)
  PROVE  ReceiptsFit'
<1>. DEFINE n == Len(receipts)
<1>1. /\ verified' = verified \ {packet} /\ inbound_nonce' = inbound_nonce
      /\ \/ composes' = composes
         \/ /\ packet.composed
            /\ \E amount_ld : composes' = composes \cup
                  {[src_eid |-> packet.src_eid, nonce |-> packet.nonce,
                    amount_ld |-> amount_ld]}
  BY DEF LzReceive, Clear, SendCompose
<1>2. packet \in InboundPackets
  BY DEF IInv, TypeOK
<1>3. receipts \in Seq(InboundPackets)
  BY DEF ReceiptsFit
<1>4. /\ receipts' \in Seq(InboundPackets)
      /\ DOMAIN receipts' = DOMAIN receipts \cup {n + 1}
      /\ receipts'[n + 1] = packet /\ n + 1 \notin DOMAIN receipts
      /\ \A i \in DOMAIN receipts : receipts'[i] = receipts[i]
  BY <1>2, <1>3
<1>. HIDE DEF n
<1>5. \A i \in DOMAIN receipts' :
         receipts'[i].nonce <= inbound_nonce'[receipts'[i].src_eid]
  BY <1>1, <1>4 DEF ReceiptsFit, NoncesNamePackets, Numbers
<1>6. \A i \in DOMAIN receipts : ~SamePacket(receipts[i], packet)
  BY DEF ReceiptsFit, ReceivedOnce
<1>7. \A i, j \in DOMAIN receipts' : SamePacket(receipts'[i], receipts'[j]) => i = j
  <2>1. \A i, j \in DOMAIN receipts : SamePacket(receipts[i], receipts[j]) => i = j
    BY DEF ReceiptsFit, ReceivedOnce
  <2>2. \A i \in DOMAIN receipts : ~SamePacket(packet, receipts[i])
    BY <1>6 DEF SamePacket
  <2>. QED BY <1>4, <1>6, <2>1, <2>2
<1>8. \A i \in DOMAIN receipts', p \in verified' : ~SamePacket(receipts'[i], p)
  <2>1. \A i \in DOMAIN receipts, p \in verified : ~SamePacket(receipts[i], p)
    BY DEF ReceiptsFit, ReceivedOnce
  <2>2. \A p \in verified \ {packet} : ~SamePacket(packet, p)
    BY DEF NoncesNamePackets
  <2>. QED BY <1>1, <1>4, <2>1, <2>2
<1>9. \A message \in composes' : \E i \in DOMAIN receipts' :
         SamePacket(receipts'[i], message) /\ receipts'[i].composed
  <2>1. \A message \in composes : \E i \in DOMAIN receipts :
           SamePacket(receipts[i], message) /\ receipts[i].composed
    BY DEF ReceiptsFit, ReceivedOnce
  <2>2. \A message \in composes : \E i \in DOMAIN receipts' :
           SamePacket(receipts'[i], message) /\ receipts'[i].composed
    BY <1>4, <2>1
  <2>3. CASE composes' = composes
    BY <2>2, <2>3
  <2>4. ASSUME packet.composed, NEW amount_ld,
               composes' = composes \cup
                  {[src_eid |-> packet.src_eid, nonce |-> packet.nonce,
                    amount_ld |-> amount_ld]}
        PROVE  \A message \in composes' : \E i \in DOMAIN receipts' :
                  SamePacket(receipts'[i], message) /\ receipts'[i].composed
    <3>. DEFINE m == [src_eid |-> packet.src_eid, nonce |-> packet.nonce,
                      amount_ld |-> amount_ld]
    <3>1. SamePacket(packet, m)
      BY DEF SamePacket
    <3>2. composes' = composes \cup {m}
      BY <2>4
    <3>. HIDE DEF m
    <3>. QED BY <1>4, <2>2, <2>4, <3>1, <3>2
  <2>. QED BY <1>1, <2>3, <2>4
<1>10. \A a, b \in composes' : SamePacket(a, b) => a = b
  BY DEF NoncesNamePackets, ComposedOnce, SamePacket
<1>11. ReceivedOnce'
  BY <1>7, <1>8, <1>9, <1>10 DEF ReceivedOnce, SamePacket
<1>. QED BY <1>4, <1>5, <1>11 DEF ReceiptsFit, Numbers

\* Whatever workers plan and submit, receipts keep to the packets they are of.
LEMMA ReceiptStep ==
  ASSUME ReceiptInv, [DeliveryNext]_deliveryVars
  PROVE  ReceiptInv'
<1>1. [Next]_vars /\ PlansFit'
  BY DeliveryStep DEF ReceiptInv
<1>2. IInv' /\ NoncesNamePackets'
  BY <1>1, NextIInv, NoncesStep DEF ReceiptInv, DInv
<1>3. ASSUME NEW worker, NEW packet,
             LzReceiveTypes(worker, packet) \/ Submit(worker, packet)
      PROVE  ReceiptsFit'
  <2>1. CASE UNCHANGED <<vars, receipts>>
    BY <2>1, IdleKeepsReceipts DEF ReceiptInv, vars, custodyVars, endpointVars
  <2>2. ASSUME NEW plan \in plans, LzReceive(plan.packet, plan.mint_authority),
               receipts' = Append(receipts, plan.packet)
        PROVE  ReceiptsFit'
    <3>1. plan.packet \in verified
      BY <2>2 DEF LzReceive, Clear
    <3>. QED BY <1>2, <2>2, <3>1, ReceiveKeepsReceipts DEF ReceiptInv, DInv
  <2>. QED BY <1>3, <2>1, <2>2, SubmitIsLzReceive DEF LzReceiveTypes
<1>4. ASSUME UNCHANGED deliveryVars
      PROVE  ReceiptsFit'
  BY <1>4, IdleKeepsReceipts
  DEF ReceiptInv, deliveryVars, vars, custodyVars, endpointVars
<1>5. ASSUME Administration, UNCHANGED receipts
      PROVE  ReceiptsFit'
  BY <1>5, AdministrationKeepsPackets, IdleKeepsReceipts DEF ReceiptInv, DInv
<1>6. ASSUME NEW eid \in Eids, NEW amount_ld \in SendAmounts,
             NEW min_amount_ld \in MinAmounts, NEW composed \in Composed,
             NEW options \in SUBSET OptionItems,
             Send(eid, amount_ld, min_amount_ld, composed, options),
             UNCHANGED receipts
      PROVE  ReceiptsFit'
  <2>1. UNCHANGED <<verified, inbound_nonce, composes>>
    BY <1>6 DEF Send
  <2>. QED BY <1>6, <2>1, IdleKeepsReceipts DEF ReceiptInv
<1>7. ASSUME Environment, UNCHANGED receipts
      PROVE  ReceiptsFit'
  <2>1. ASSUME NEW path \in OpenPaths, NEW amount_sd, NEW composed,
               EndpointVerify(path[1], path[2], amount_sd, composed)
        PROVE  ReceiptsFit'
    BY <1>7, <2>1, VerifyKeepsReceipts DEF ReceiptInv, DInv
  <2>2. ASSUME UNCHANGED endpointVars
        PROVE  ReceiptsFit'
    BY <1>7, <2>2, IdleKeepsReceipts DEF ReceiptInv, endpointVars
  <2>. QED BY <1>7, <2>1, <2>2 DEF Environment, Donate, SetMintAuthority, Tick
<1>. QED BY <1>1, <1>2, <1>3, <1>4, <1>5, <1>6, <1>7
         DEF DeliveryNext, ReceiptInv, DInv

\* However many workers hold a plan for a packet, and however late they submit
\* it, the packet is credited once, composed or not, and its composer called once
\* (the endpoint's nonces and `clear`, as lz_receive uses them).
THEOREM PacketsAreReceivedOnce == DeliverySpec => []ReceivedOnce
<1>1. DeliveryInit => ReceiptInv
  <2>1. DeliveryInit => NoncesNamePackets
    BY DEF DeliveryInit, Init, NoncesNamePackets, ComposedOnce
  <2>2. DeliveryInit => DInv
    BY InitIInv DEF DeliveryInit, DInv, PlansFit
  <2>3. DeliveryInit => ReceiptsFit
    BY DEF DeliveryInit, Init, ReceiptsFit, ReceivedOnce
  <2>. QED BY <2>1, <2>2, <2>3 DEF ReceiptInv
<1>2. ReceiptInv => ReceivedOnce
  BY DEF ReceiptInv, ReceiptsFit
<1>. QED BY <1>1, <1>2, ReceiptStep, PTL DEF DeliverySpec

-----------------------------------------------------------------------------
(* The rate limit tasks.                                                   *)

Transactions ==
    [step : {"sign"}, direction : Directions, signer : Operators, eid : Eids,
     limits : Limits, run : Nat]

Jobs == [step : {"sign", "confirm"}, direction : Directions,
         signer : Operators, eid : Eids, limits : Limits, run : Nat]

\* A task sends what it was started with.
JobInv ==
    /\ job_runs \in Nat
    /\ in_flight \subseteq Transactions
    /\ job = Idle \/ job \in Jobs

TasksInv == IInv /\ JobInv

JobStep ==
    \/ \E direction \in Directions, signer \in Operators, eid \in Eids, limits \in Limits :
          StartTask(direction, signer, eid, limits)
    \/ SendTransaction \/ LoseConnection
    \/ \E tx \in in_flight : DropInstruction(tx)

\* A transaction that lands, late or not, ends no wait but its own.
LEMMA LandingKeepsJob ==
  ASSUME JobInv, NEW tx \in in_flight, LandInstruction(tx)
  PROVE  JobInv'
<1>1. in_flight' \subseteq Transactions /\ job_runs' \in Nat
  BY DEF LandInstruction, JobInv
<1>2. job' = Idle \/ job' = job
  BY DEF LandInstruction
<1>. QED BY <1>1, <1>2 DEF JobInv

\* A job moves on, or ends.
LEMMA JobStepKeepsJob ==
  ASSUME JobInv, JobStep
  PROVE  JobInv'
<1>1. ASSUME NEW direction \in Directions, NEW signer \in Operators,
             NEW eid \in Eids, NEW limits \in Limits,
             StartTask(direction, signer, eid, limits)
      PROVE  JobInv'
  <2>1. job_runs' \in Nat /\ in_flight' = in_flight
    BY <1>1 DEF StartTask, JobInv
  <2>2. job' = [step |-> "sign", direction |-> direction, signer |-> signer,
                eid |-> eid, limits |-> limits, run |-> job_runs']
    BY <1>1 DEF StartTask
  <2>. QED BY <2>1, <2>2 DEF JobInv, Jobs
<1>2. ASSUME SendTransaction
      PROVE  JobInv'
  <2>1. /\ job.step = "sign" /\ job' = [job EXCEPT !.step = "confirm"]
        /\ in_flight' = in_flight \cup {job} /\ job_runs' = job_runs
    BY <1>2 DEF SendTransaction
  <2>2. job \in Jobs
    BY <2>1 DEF JobInv, Idle
  <2>3. job \in Transactions
    BY <2>1, <2>2 DEF Jobs, Transactions
  <2>4. job' \in Jobs
    BY <2>1, <2>2 DEF Jobs
  <2>. QED BY <2>1, <2>3, <2>4 DEF JobInv
<1>3. ASSUME LoseConnection
      PROVE  JobInv'
  BY <1>3 DEF LoseConnection, JobInv
<1>4. ASSUME NEW tx \in in_flight, DropInstruction(tx)
      PROVE  JobInv'
  BY <1>4 DEF DropInstruction, JobInv
<1>. QED BY <1>1, <1>2, <1>3, <1>4 DEF JobStep

\* A landed instruction is one that set_peer_config accepts.
LEMMA LandingSetsLimit ==
  ASSUME JobInv, NEW tx \in in_flight, LandInstruction(tx)
  PROVE  \E signer \in Accounts, eid \in Eids, params \in RateLimitParams :
            SetOutboundRateLimit(signer, eid, params)
              \/ SetInboundRateLimit(signer, eid, params)
<1>1. tx \in Transactions /\ Instruction(tx)
  BY DEF JobInv, LandInstruction
<1>2. tx.signer \in Accounts /\ tx.eid \in Eids /\ Sepolia \in Eids
  BY <1>1, TasksAssumption DEF Transactions
<1>3. tx.limits \in RateLimitParams
  <2>1. tx.limits \in [refill_per_second : U64, capacity : U64]
    BY <1>1, TasksAssumption DEF Transactions
  <2>. QED BY <2>1 DEF RateLimitParams, OptionOf
<1>. QED BY <1>1, <1>2, <1>3 DEF Instruction

\* The tasks keep the program's invariant, whatever limits they are given.
LEMMA TasksStep ==
  ASSUME TasksInv, [TasksNext]_tasksVars
  PROVE  TasksInv'
<1>1. CASE UNCHANGED tasksVars
  <2>1. UNCHANGED vars /\ UNCHANGED jobVars
    BY <1>1 DEF tasksVars
  <2>2. IInv'
    BY <2>1, NextIInv DEF TasksInv
  <2>3. JobInv'
    BY <2>1 DEF TasksInv, JobInv, jobVars
  <2>. QED BY <2>2, <2>3 DEF TasksInv
<1>2. CASE Next /\ UNCHANGED jobVars
  <2>1. IInv'
    BY <1>2, NextIInv DEF TasksInv
  <2>2. JobInv'
    BY <1>2 DEF TasksInv, JobInv, jobVars
  <2>. QED BY <2>1, <2>2 DEF TasksInv
<1>3. CASE JobStep
  <2>1. UNCHANGED vars
    BY <1>3 DEF JobStep, StartTask, SendTransaction, LoseConnection, DropInstruction
  <2>2. IInv'
    BY <2>1, NextIInv DEF TasksInv
  <2>. QED BY <1>3, <2>2, JobStepKeepsJob DEF TasksInv
<1>4. ASSUME NEW tx \in in_flight, LandInstruction(tx)
      PROVE  TasksInv'
  <2>1. PICK signer \in Accounts, eid \in Eids, params \in RateLimitParams :
           SetOutboundRateLimit(signer, eid, params)
             \/ SetInboundRateLimit(signer, eid, params)
    BY <1>4, LandingSetsLimit DEF TasksInv
  <2>2. IInv'
    BY <2>1, SetRateLimitKeepsIInv DEF TasksInv
  <2>. QED BY <1>4, <2>2, LandingKeepsJob DEF TasksInv
<1>. QED BY <1>1, <1>2, <1>3, <1>4 DEF TasksNext, JobStep

\* The tasks keep their invariant.
LEMMA TasksInvariant == TasksSpec => []TasksInv
<1>1. TasksInit => TasksInv
  BY InitIInv DEF TasksInit, TasksInv, JobInv
<1>. QED BY <1>1, TasksStep, PTL DEF TasksSpec

\* The accounts stay well formed and the flows balanced under the tasks too.
THEOREM TasksKeepTheProgramSound == TasksSpec => []IInv
<1>1. TasksInv => IInv
  BY DEF TasksInv
<1>. QED BY <1>1, TasksInvariant, PTL

\* No task moves tokens or messages.
LEMMA TasksStepKinds ==
  ASSUME TasksInv, [TasksNext]_tasksVars
  PROVE  Traffic \/ Quiet
<1>1. CASE UNCHANGED vars \/ Next
  BY <1>1, StepKinds DEF TasksInv
<1>2. CASE JobStep
  <2>1. UNCHANGED vars
    BY <1>2 DEF JobStep, StartTask, SendTransaction, LoseConnection, DropInstruction
  <2>. QED BY <2>1, StepKinds DEF TasksInv
<1>3. ASSUME NEW tx \in in_flight, LandInstruction(tx)
      PROVE  Quiet
  <2>1. PICK signer \in Accounts, eid \in Eids, params \in RateLimitParams :
           SetOutboundRateLimit(signer, eid, params)
             \/ SetInboundRateLimit(signer, eid, params)
    BY <1>3, LandingSetsLimit DEF TasksInv
  <2>2. UNCHANGED <<oft_store, custodyVars>>
    BY <2>1 DEF SetOutboundRateLimit, SetInboundRateLimit, SetPeer
  <2>. QED BY <2>2 DEF Quiet, Supply, custodyVars, tokenVars, endpointVars, historyVars
<1>4. CASE UNCHANGED tasksVars
  BY <1>1, <1>4 DEF tasksVars
<1>. QED BY <1>1, <1>2, <1>3, <1>4 DEF TasksNext, JobStep

\* The pause, the enforced options and the address of a peer hold against the
\* traffic of a program whose limits are being set by the tasks.
THEOREM PauseHoldsUnderTasks == TasksSpec => PauseStopsTraffic
<1>1. TasksInv /\ [TasksNext]_tasksVars =>
        [oft_store.paused
           => UNCHANGED <<sent_sd, received_sd, outbound, composes>>]_vars
  BY PausedStep, TasksStepKinds
<1>. QED BY <1>1, TasksInvariant, PTL DEF TasksSpec, PauseStopsTraffic

\* Each message carries the options in force when it was sent, with the tasks too.
THEOREM OptionsTravelUnderTasks == TasksSpec => EnforcedOptionsTravel
<1>. DEFINE A == \A packet \in outbound' \ outbound :
                   LET enforced == peers[packet.dst_eid].enforced_options
                   IN  /\ packet.composed =>
                             enforced.send_and_call \subseteq packet.options
                       /\ ~packet.composed =>
                             enforced.send \subseteq packet.options
<1>1. TasksInv /\ [TasksNext]_tasksVars => [A]_vars
  BY TasksStepKinds, OutboundStep
<1>. QED BY <1>1, TasksInvariant, PTL DEF TasksSpec, EnforcedOptionsTravel

\* Tasks whose limits are among those set_peer_config is offered are clients of
\* the program like any other: all that is proved of Spec holds with them.
THEOREM TasksImplementProgram ==
  ASSUME Limits \subseteq LimitParams
  PROVE  TasksSpec => Spec
<1>1. TasksInit => Init
  BY DEF TasksInit
<1>2. TasksInv /\ [TasksNext]_tasksVars => [Next]_vars
  <2>. SUFFICES ASSUME TasksInv, [TasksNext]_tasksVars
                PROVE  [Next]_vars
    OBVIOUS
  <2>1. CASE UNCHANGED tasksVars
    BY <2>1 DEF tasksVars
  <2>2. CASE JobStep
    BY <2>2 DEF JobStep, StartTask, SendTransaction, LoseConnection, DropInstruction
  <2>3. ASSUME NEW tx \in in_flight, LandInstruction(tx)
        PROVE  Next
    <3>1. tx \in Transactions /\ Instruction(tx)
      BY <2>3 DEF TasksInv, JobInv, LandInstruction
    <3>2. /\ tx.signer \in Accounts /\ tx.eid \in Eids /\ Sepolia \in Eids
          /\ tx.limits \in LimitParams
      BY <3>1, TasksAssumption DEF Transactions
    <3>3. PICK eid \in Eids : SetPeerConfig(tx.signer, eid)
      BY <3>1, <3>2 DEF Instruction, SetPeerConfig
    <3>. QED BY <3>2, <3>3 DEF Administration, Next
  <2>. QED BY <2>1, <2>2, <2>3 DEF TasksNext, JobStep
<1>. QED BY <1>1, <1>2, TasksInvariant, PTL DEF TasksSpec, Spec

-----------------------------------------------------------------------------
(* What an inbound task sets.                                              *)

\* Both parameters at once: a full limiter of the new capacity and rate.
LEMMA FullUpdate ==
  ASSUME NEW limiter, NEW t \in Nat, Sound(limiter, t),
         NEW params \in [refill_per_second : U64, capacity : U64] \ {None}
  PROVE  /\ UpdateRateLimiter(limiter, params, t) \in RateLimiters
         /\ UpdateRateLimiter(limiter, params, t).capacity = params.capacity
         /\ UpdateRateLimiter(limiter, params, t).tokens = params.capacity
<1>. DEFINE old   == IF limiter = None THEN DefaultRateLimiter ELSE limiter
            sized == SetCapacity(old, t, params.capacity)
<1>1. /\ params.capacity \in U64 /\ params.refill_per_second \in U64
      /\ params.capacity # None /\ params.refill_per_second # None
  BY AmountsAssumption DEF U64
<1>2. params # None
  OBVIOUS
<1>3. old \in RateLimiters
  BY DefaultIsLimiter DEF Sound, Readable
<1>. HIDE DEF old
<1>4. /\ sized \in RateLimiters /\ sized.capacity = params.capacity
      /\ sized.tokens = params.capacity /\ sized.last_refill_time = t
  BY <1>1, <1>3, SetCapacityFacts
<1>5. UpdateRateLimiter(limiter, params, t) = SetRate(sized, t, params.refill_per_second)
  BY <1>1, <1>2 DEF UpdateRateLimiter, old
<1>. HIDE DEF sized
<1>6. sized.refill_per_second \in Nat /\ params.capacity \in Nat
  BY <1>1, <1>4, AmountsAssumption DEF RateLimiters, U64
<1>7. sized.refill_per_second * (t - sized.last_refill_time) = 0
  BY <1>4, <1>6
<1>. QED BY <1>1, <1>4, <1>5, <1>6, <1>7, SetRateFacts DEF Smaller

\* set_peer_config with a limit for the inbound direction of one peer.
LEMMA InboundStep ==
  ASSUME TasksInv, NEW tx \in Transactions, Instruction(tx), tx.direction = "inbound"
  PROVE  SetsOnly("inbound", tx)
<1>. DEFINE old == PeerOrNew(tx.eid)
            u   == UpdateRateLimiter(old.inbound_rate_limiter, tx.limits, now)
            new == [old EXCEPT !.inbound_rate_limiter = u]
<1>1. tx.eid \in Eids /\ tx.limits \in [refill_per_second : U64, capacity : U64] \ {None}
  BY TasksAssumption DEF Transactions
<1>2. peers' = [peers EXCEPT ![tx.eid] = new]
  BY DEF Instruction, SetInboundRateLimit, SetPeer
<1>3. old \in PeerConfigs /\ PeerSound(old) /\ old # None
  BY <1>1, PeerOrNewFacts, PeersAssumption DEF TasksInv
<1>4. Sound(old.inbound_rate_limiter, now) /\ now \in Nat
  BY <1>3 DEF PeerSound, TasksInv, IInv, TypeOK
<1>5. /\ u \in RateLimiters /\ u # None
      /\ u.capacity = tx.limits.capacity /\ u.tokens = tx.limits.capacity
  <2>. HIDE DEF old
  <2>. QED BY <1>1, <1>4, FullUpdate, RateLimitsAssumption
<1>6. /\ old.outbound_rate_limiter = LimiterOf(tx.eid, "outbound")
  BY DEF PeerOrNew, NewPeer, LimiterOf
<1>7. /\ new \in PeerConfigs /\ new # None
      /\ new.inbound_rate_limiter = u
      /\ new.outbound_rate_limiter = old.outbound_rate_limiter
  <2>. HIDE DEF old, u
  <2>1. u \in OptionOf(RateLimiters)
    BY <1>5 DEF OptionOf
  <2>. QED BY <1>3, <2>1, PeersAssumption DEF PeerConfigs
<1>. HIDE DEF old, u, new
<1>8. /\ peers'[tx.eid] = new
      /\ \A e \in Eids : e # tx.eid => peers'[e] = peers[e]
  BY <1>1, <1>2 DEF TasksInv, IInv, TypeOK
<1>9. /\ LimiterOf(tx.eid, "inbound")' = u
      /\ LimiterOf(tx.eid, "outbound")' = LimiterOf(tx.eid, "outbound")
  BY <1>6, <1>7, <1>8 DEF LimiterOf
<1>10. \A e \in Eids, d \in Directions :
          e # tx.eid => LimiterOf(e, d)' = LimiterOf(e, d)
  BY <1>8 DEF LimiterOf
<1>. QED BY <1>5, <1>9, <1>10 DEF SetsOnly, Directions

\* Whatever the admin and other runs did in between, an inbound task leaves its
\* own peer with a full limiter of the capacity asked for, and no other limiter
\* changed (setInboundRateLimit.ts, set_peer_config).
THEOREM InboundTaskSetsItsPeer == TasksSpec => InboundLimitsItsPeer
<1>. DEFINE A == \A tx \in applied' \ applied :
                   tx.direction = "inbound" => SetsOnly("inbound", tx)
<1>1. TasksInv /\ [TasksNext]_tasksVars => [A]_tasksVars
  <2>. SUFFICES ASSUME TasksInv, [TasksNext]_tasksVars,
                       NEW tx \in applied' \ applied, tx.direction = "inbound"
                PROVE  SetsOnly("inbound", tx)
    OBVIOUS
  <2>1. applied' # applied
    OBVIOUS
  <2>2. ~UNCHANGED tasksVars /\ ~(UNCHANGED jobVars)
    BY <2>1 DEF tasksVars, jobVars
  <2>3. ~JobStep
    BY <2>1 DEF JobStep, StartTask, SendTransaction, LoseConnection, DropInstruction
  <2>4. PICK t \in in_flight : LandInstruction(t)
    BY <2>2, <2>3 DEF TasksNext, JobStep
  <2>5. tx = t /\ tx \in Transactions /\ Instruction(tx)
    BY <2>4 DEF LandInstruction, TasksInv, JobInv
  <2>. QED BY <2>5, InboundStep
<1>. QED BY <1>1, TasksInvariant, PTL DEF TasksSpec, InboundLimitsItsPeer

-----------------------------------------------------------------------------
(* The bridge as a whole.                                                  *)

\* What packets, messages between EVM chains and transfers over the ICS-20
\* bridge carry, and what circulates on the EVM chains.
SdIn(packets) == Total([p \in packets |-> p.amount_sd], packets)
LdIn(sent)    == Total([m \in sent |-> m.amount_sd * ConversionRate], sent)
MovedIn(ts)   == Total([t \in ts |-> t.amount], ts)
OnEvm(b)      == Total([chain \in Chains |-> Total(b[chain], Users)], Chains)

\* The sums of Omnichain and AlloOFT are these: of packets,
LEMMA PacketsCarry ==
  ASSUME NEW packets, IsFiniteSet(packets)
  PROVE  SumOf(LAMBDA p : p.amount_sd, packets) = SdIn(packets)
<1>. DEFINE g == [p \in packets |-> p.amount_sd]
            it == CHOOSE it : it = [s \in SUBSET packets |->
                     IF s = {} THEN 0
                     ELSE (CHOOSE x \in s : TRUE).amount_sd
                            + it[s \ {CHOOSE x \in s : TRUE}]]
<1>1. SumOf(LAMBDA p : p.amount_sd, packets) = it[packets]
  BY DEF SumOf, MapThenSumSet, MapThenFoldSet
<1>2. PICK h : IsSum(g, packets, h)
  BY SumExists
<1>3. \A s \in SUBSET packets :
         s # {} => g[First(s)] = (CHOOSE x \in s : TRUE).amount_sd
  BY FirstIn DEF First
<1>4. h = [s \in SUBSET packets |->
              IF s = {} THEN 0
              ELSE (CHOOSE x \in s : TRUE).amount_sd
                     + h[s \ {CHOOSE x \in s : TRUE}]]
  BY <1>2, <1>3 DEF IsSum, First
<1>5. it = [s \in SUBSET packets |->
              IF s = {} THEN 0
              ELSE (CHOOSE x \in s : TRUE).amount_sd
                     + it[s \ {CHOOSE x \in s : TRUE}]]
  BY <1>4
<1>. HIDE DEF it
<1>6. IsSum(g, packets, it)
  BY <1>3, <1>5 DEF IsSum, First
<1>. QED BY <1>1, <1>6, TotalIs DEF SdIn

\* of messages between EVM chains,
LEMMA MessagesCarry ==
  ASSUME NEW sent, IsFiniteSet(sent)
  PROVE  Evm!MapThenSumSet(LAMBDA m : m.amount_sd * ConversionRate, sent)
            = LdIn(sent)
<1>. DEFINE g == [m \in sent |-> m.amount_sd * ConversionRate]
            it == CHOOSE it : it = [s \in SUBSET sent |->
                     IF s = {} THEN 0
                     ELSE (CHOOSE x \in s : TRUE).amount_sd * ConversionRate
                            + it[s \ {CHOOSE x \in s : TRUE}]]
<1>1. Evm!MapThenSumSet(LAMBDA m : m.amount_sd * ConversionRate, sent)
         = it[sent]
  BY DEF Evm!MapThenSumSet, Evm!MapThenFoldSet
<1>2. PICK h : IsSum(g, sent, h)
  BY SumExists
<1>3. \A s \in SUBSET sent :
         s # {} => g[First(s)] = (CHOOSE x \in s : TRUE).amount_sd * ConversionRate
  BY FirstIn DEF First
<1>4. h = [s \in SUBSET sent |->
              IF s = {} THEN 0
              ELSE (CHOOSE x \in s : TRUE).amount_sd * ConversionRate
                     + h[s \ {CHOOSE x \in s : TRUE}]]
  BY <1>2, <1>3 DEF IsSum, First
<1>5. it = [s \in SUBSET sent |->
              IF s = {} THEN 0
              ELSE (CHOOSE x \in s : TRUE).amount_sd * ConversionRate
                     + it[s \ {CHOOSE x \in s : TRUE}]]
  BY <1>4
<1>. HIDE DEF it
<1>6. IsSum(g, sent, it)
  BY <1>3, <1>5 DEF IsSum, First
<1>7. LdIn(sent) = Total(g, sent)
  BY DEF LdIn
<1>. HIDE DEF g
<1>8. it[sent] = LdIn(sent)
  BY <1>6, <1>7, TotalIs
<1>. QED BY <1>1, <1>8, Zenon

\* of transfers over the ICS-20 bridge,
LEMMA TransfersMove ==
  ASSUME NEW ts, IsFiniteSet(ts)
  PROVE  Evm!MapThenSumSet(LAMBDA t : t.amount, ts) = MovedIn(ts)
<1>. DEFINE g == [t \in ts |-> t.amount]
            it == CHOOSE it : it = [s \in SUBSET ts |->
                     IF s = {} THEN 0
                     ELSE (CHOOSE x \in s : TRUE).amount
                            + it[s \ {CHOOSE x \in s : TRUE}]]
<1>1. Evm!MapThenSumSet(LAMBDA t : t.amount, ts) = it[ts]
  BY DEF Evm!MapThenSumSet, Evm!MapThenFoldSet
<1>2. PICK h : IsSum(g, ts, h)
  BY SumExists
<1>3. \A s \in SUBSET ts :
         s # {} => g[First(s)] = (CHOOSE x \in s : TRUE).amount
  BY FirstIn DEF First
<1>4. h = [s \in SUBSET ts |->
              IF s = {} THEN 0
              ELSE (CHOOSE x \in s : TRUE).amount
                     + h[s \ {CHOOSE x \in s : TRUE}]]
  BY <1>2, <1>3 DEF IsSum, First
<1>5. it = [s \in SUBSET ts |->
              IF s = {} THEN 0
              ELSE (CHOOSE x \in s : TRUE).amount
                     + it[s \ {CHOOSE x \in s : TRUE}]]
  BY <1>4
<1>. HIDE DEF it
<1>6. IsSum(g, ts, it)
  BY <1>3, <1>5 DEF IsSum, First
<1>. QED BY <1>1, <1>6, TotalIs DEF MovedIn

\* of the balances on a chain,
LEMMA UsersHold ==
  ASSUME IsFiniteSet(Users), NEW chain
  PROVE  Evm!Supply(chain) = Total(balances[chain], Users)
<1>. DEFINE g == balances[chain]
            it == CHOOSE it : it = [s \in SUBSET Users |->
                     IF s = {} THEN 0
                     ELSE balances[chain][CHOOSE x \in s : TRUE]
                            + it[s \ {CHOOSE x \in s : TRUE}]]
<1>1. Evm!Supply(chain) = it[Users]
  BY DEF Evm!Supply, Evm!MapThenSumSet, Evm!MapThenFoldSet
<1>2. PICK h : IsSum(g, Users, h)
  BY SumExists
<1>3. h = [s \in SUBSET Users |->
              IF s = {} THEN 0
              ELSE balances[chain][CHOOSE x \in s : TRUE]
                     + h[s \ {CHOOSE x \in s : TRUE}]]
  BY <1>2 DEF IsSum, First
<1>4. it = [s \in SUBSET Users |->
              IF s = {} THEN 0
              ELSE balances[chain][CHOOSE x \in s : TRUE]
                     + it[s \ {CHOOSE x \in s : TRUE}]]
  BY <1>3
<1>. HIDE DEF it
<1>5. IsSum(g, Users, it)
  BY <1>4 DEF IsSum, First
<1>. QED BY <1>1, <1>5, TotalIs

\* and of those on all chains.
LEMMA ChainsHold ==
  ASSUME IsFiniteSet(Users), IsFiniteSet(Chains)
  PROVE  /\ SumOf(Evm!Supply, Chains) = OnEvm(balances)
         /\ Evm!MapThenSumSet(Evm!Supply, Chains) = OnEvm(balances)
<1>. DEFINE g == [chain \in Chains |-> Total(balances[chain], Users)]
            it == CHOOSE it : it = [s \in SUBSET Chains |->
                     IF s = {} THEN 0
                     ELSE Evm!Supply(CHOOSE x \in s : TRUE)
                            + it[s \ {CHOOSE x \in s : TRUE}]]
<1>1. /\ SumOf(Evm!Supply, Chains) = it[Chains]
      /\ Evm!MapThenSumSet(Evm!Supply, Chains) = it[Chains]
  BY DEF SumOf, MapThenSumSet, MapThenFoldSet, Evm!MapThenSumSet, Evm!MapThenFoldSet
<1>2. PICK h : IsSum(g, Chains, h)
  BY SumExists
<1>3. \A s \in SUBSET Chains :
         s # {} => g[First(s)] = Evm!Supply(CHOOSE x \in s : TRUE)
  BY FirstIn, UsersHold DEF First
<1>4. h = [s \in SUBSET Chains |->
              IF s = {} THEN 0
              ELSE Evm!Supply(CHOOSE x \in s : TRUE)
                     + h[s \ {CHOOSE x \in s : TRUE}]]
  BY <1>2, <1>3 DEF IsSum, First
<1>5. it = [s \in SUBSET Chains |->
              IF s = {} THEN 0
              ELSE Evm!Supply(CHOOSE x \in s : TRUE)
                     + it[s \ {CHOOSE x \in s : TRUE}]]
  BY <1>4
<1>. HIDE DEF it
<1>6. IsSum(g, Chains, it)
  BY <1>3, <1>5 DEF IsSum, First
<1>. QED BY <1>1, <1>6, TotalIs DEF OnEvm

\* A packet is added,
LEMMA SdGrows ==
  ASSUME NEW packets, IsFiniteSet(packets), NEW packet, packet \notin packets,
         \A p \in packets : p.amount_sd \in Nat, packet.amount_sd \in Nat,
         NEW more, more = packets \cup {packet}
  PROVE  /\ IsFiniteSet(more)
         /\ SdIn(packets) \in Int
         /\ SdIn(more) = SdIn(packets) + packet.amount_sd
<1>. DEFINE f == [p \in packets |-> p.amount_sd]
            g == [p \in more |-> p.amount_sd]
<1>1. IntsOn(g, more) /\ SameBut(f, g, packets, packet)
  BY DEF IntsOn, SameBut
<1>2. g[packet] = packet.amount_sd
  OBVIOUS
<1>3. SdIn(packets) = Total(f, packets) /\ SdIn(more) = Total(g, more)
  BY DEF SdIn
<1>. HIDE DEF f, g
<1>4. /\ IsFiniteSet(more)
      /\ Total(f, packets) \in Int
      /\ Total(g, more) = Total(f, packets) + g[packet]
  BY <1>1, TotalGrows
<1>. QED BY <1>2, <1>3, <1>4

\* and taken away.
LEMMA SdShrinks ==
  ASSUME NEW packets, IsFiniteSet(packets), NEW packet \in packets,
         \A p \in packets : p.amount_sd \in Nat,
         NEW fewer, fewer = packets \ {packet}
  PROVE  /\ IsFiniteSet(fewer)
         /\ SdIn(packets) \in Int
         /\ SdIn(fewer) = SdIn(packets) - packet.amount_sd
<1>. DEFINE f == [p \in packets |-> p.amount_sd]
            g == [p \in fewer |-> p.amount_sd]
<1>1. IntsOn(f, packets) /\ SameBut(f, g, packets, packet)
  BY DEF IntsOn, SameBut
<1>2. f[packet] = packet.amount_sd
  OBVIOUS
<1>3. SdIn(packets) = Total(f, packets) /\ SdIn(fewer) = Total(g, fewer)
  BY DEF SdIn
<1>. HIDE DEF f, g
<1>4. /\ IsFiniteSet(fewer)
      /\ Total(f, packets) \in Int
      /\ Total(g, fewer) = Total(f, packets) - f[packet]
  BY <1>1, TotalShrinks
<1>. QED BY <1>2, <1>3, <1>4

\* A message between EVM chains is added,
LEMMA LdGrows ==
  ASSUME ConversionRate \in Nat,
         NEW sent, IsFiniteSet(sent), NEW message, message \notin sent,
         \A m \in sent : m.amount_sd \in Nat, message.amount_sd \in Nat,
         NEW more, more = sent \cup {message}
  PROVE  /\ IsFiniteSet(more)
         /\ LdIn(sent) \in Int
         /\ LdIn(more) = LdIn(sent) + message.amount_sd * ConversionRate
<1>. DEFINE f == [m \in sent |-> m.amount_sd * ConversionRate]
            g == [m \in more |-> m.amount_sd * ConversionRate]
<1>0. /\ \A m \in sent : m.amount_sd * ConversionRate \in Nat
      /\ message.amount_sd * ConversionRate \in Nat
  BY ProductInNat
<1>1. IntsOn(g, more) /\ SameBut(f, g, sent, message)
  BY <1>0 DEF IntsOn, SameBut
<1>2. g[message] = message.amount_sd * ConversionRate
  OBVIOUS
<1>3. LdIn(sent) = Total(f, sent) /\ LdIn(more) = Total(g, more)
  BY DEF LdIn
<1>. HIDE DEF f, g
<1>4. /\ IsFiniteSet(more)
      /\ Total(f, sent) \in Int
      /\ Total(g, more) = Total(f, sent) + g[message]
  BY <1>1, TotalGrows
<1>. QED BY <1>2, <1>3, <1>4

\* and taken away.
LEMMA LdShrinks ==
  ASSUME ConversionRate \in Nat,
         NEW sent, IsFiniteSet(sent), NEW message \in sent,
         \A m \in sent : m.amount_sd \in Nat,
         NEW fewer, fewer = sent \ {message}
  PROVE  /\ IsFiniteSet(fewer)
         /\ LdIn(sent) \in Int
         /\ LdIn(fewer) = LdIn(sent) - message.amount_sd * ConversionRate
<1>. DEFINE f == [m \in sent |-> m.amount_sd * ConversionRate]
            g == [m \in fewer |-> m.amount_sd * ConversionRate]
<1>0. /\ \A m \in sent : m.amount_sd * ConversionRate \in Nat
      /\ message.amount_sd * ConversionRate \in Nat
  BY ProductInNat
<1>1. IntsOn(f, sent) /\ SameBut(f, g, sent, message)
  BY <1>0 DEF IntsOn, SameBut
<1>2. f[message] = message.amount_sd * ConversionRate
  OBVIOUS
<1>3. LdIn(sent) = Total(f, sent) /\ LdIn(fewer) = Total(g, fewer)
  BY DEF LdIn
<1>. HIDE DEF f, g
<1>4. /\ IsFiniteSet(fewer)
      /\ Total(f, sent) \in Int
      /\ Total(g, fewer) = Total(f, sent) - f[message]
  BY <1>1, TotalShrinks
<1>. QED BY <1>2, <1>3, <1>4

\* A transfer over the ICS-20 bridge is added,
LEMMA MovedGrows ==
  ASSUME NEW ts, IsFiniteSet(ts), NEW transfer, transfer \notin ts,
         \A t \in ts : t.amount \in Nat, transfer.amount \in Nat,
         NEW more, more = ts \cup {transfer}
  PROVE  /\ IsFiniteSet(more)
         /\ MovedIn(ts) \in Int
         /\ MovedIn(more) = MovedIn(ts) + transfer.amount
<1>. DEFINE f == [t \in ts |-> t.amount]
            g == [t \in more |-> t.amount]
<1>1. IntsOn(g, more) /\ SameBut(f, g, ts, transfer)
  BY DEF IntsOn, SameBut
<1>2. g[transfer] = transfer.amount
  OBVIOUS
<1>3. MovedIn(ts) = Total(f, ts) /\ MovedIn(more) = Total(g, more)
  BY DEF MovedIn
<1>. HIDE DEF f, g
<1>4. /\ IsFiniteSet(more)
      /\ Total(f, ts) \in Int
      /\ Total(g, more) = Total(f, ts) + g[transfer]
  BY <1>1, TotalGrows
<1>. QED BY <1>2, <1>3, <1>4

\* and taken away.
LEMMA MovedShrinks ==
  ASSUME NEW ts, IsFiniteSet(ts), NEW transfer \in ts,
         \A t \in ts : t.amount \in Nat,
         NEW fewer, fewer = ts \ {transfer}
  PROVE  /\ IsFiniteSet(fewer)
         /\ MovedIn(ts) \in Int
         /\ MovedIn(fewer) = MovedIn(ts) - transfer.amount
<1>. DEFINE f == [t \in ts |-> t.amount]
            g == [t \in fewer |-> t.amount]
<1>1. IntsOn(f, ts) /\ SameBut(f, g, ts, transfer)
  BY DEF IntsOn, SameBut
<1>2. f[transfer] = transfer.amount
  OBVIOUS
<1>3. MovedIn(ts) = Total(f, ts) /\ MovedIn(fewer) = Total(g, fewer)
  BY DEF MovedIn
<1>. HIDE DEF f, g
<1>4. /\ IsFiniteSet(fewer)
      /\ Total(f, ts) \in Int
      /\ Total(g, fewer) = Total(f, ts) - f[transfer]
  BY <1>1, TotalShrinks
<1>. QED BY <1>2, <1>3, <1>4

\* One balance changes.
Balances == [Chains -> [Users -> Nat]]

Moves(old, new, chain, user, amount) ==
    /\ new[chain][user] = old[chain][user] + amount
    /\ \A u \in Users : u # user => new[chain][u] = old[chain][u]
    /\ \A c \in Chains : c # chain => new[c] = old[c]

\* The sum over all chains moves with a single balance.
LEMMA OneBalanceMoves ==
  ASSUME IsFiniteSet(Chains), IsFiniteSet(Users),
         NEW old \in Balances, NEW new \in Balances,
         NEW chain \in Chains, NEW user \in Users, NEW amount \in Int,
         Moves(old, new, chain, user, amount)
  PROVE  OnEvm(old) \in Int /\ OnEvm(new) = OnEvm(old) + amount
<1>. DEFINE f == [c \in Chains |-> Total(old[c], Users)]
            g == [c \in Chains |-> Total(new[c], Users)]
<1>1. \A b \in Balances, c \in Chains : Total(b[c], Users) \in Int
  BY TotalIsInt DEF Balances
<1>2. Total(new[chain], Users) = Total(old[chain], Users) + amount
  <2>. DEFINE n == new[chain]
              o == old[chain]
  <2>1. /\ IntsOn(o, Users) /\ IntsOn(n, Users)
        /\ SameBut(o, n, Users, user)
        /\ n[user] = o[user] + amount /\ o[user] \in Int
    BY DEF IntsOn, SameBut, Moves, Balances
  <2>. HIDE DEF n, o
  <2>2. /\ Total(o, Users) \in Int
        /\ Total(n, Users) = Total(o, Users) + (n[user] - o[user])
    BY <2>1, TotalMoves
  <2>3. Total(n, Users) = Total(o, Users) + amount
    BY <2>1, <2>2
  <2>. QED BY <2>3 DEF n, o
<1>3. /\ IntsOn(f, Chains) /\ IntsOn(g, Chains)
      /\ SameBut(f, g, Chains, chain)
      /\ f[chain] \in Int /\ g[chain] = f[chain] + amount
  BY <1>1, <1>2 DEF IntsOn, SameBut, Moves
<1>4. OnEvm(old) = Total(f, Chains) /\ OnEvm(new) = Total(g, Chains)
  BY DEF OnEvm
<1>. HIDE DEF f, g
<1>5. /\ Total(f, Chains) \in Int
      /\ Total(g, Chains) = Total(f, Chains) + (g[chain] - f[chain])
  BY <1>3, TotalMoves
<1>. QED BY <1>3, <1>4, <1>5

-----------------------------------------------------------------------------
(* The invariant of the bridge.                                            *)

Pending == {p \in outbound : p.guid \notin received}

\* Packets of the program have guids of their own, and only those sent were
\* received.
GuidsNamePackets ==
    /\ \A p \in outbound : p.guid < next_guid
    /\ \A p, q \in outbound : p.guid = q.guid => p = q
    /\ received \subseteq {p.guid : p \in outbound}

\* The EVM side is well typed, and its transfers have ids of their own.
EvmSound ==
    /\ balances \in [Chains -> [Users -> Nat]]
    /\ transfers \in Nat /\ escrowed \in Int
    /\ IsFiniteSet(messages) /\ IsFiniteSet(withdrawals) /\ IsFiniteSet(deposits)
    /\ \A m \in messages :
          /\ m.id \in 1 .. transfers
          /\ m.dst \in Chains /\ m.user \in Users /\ m.amount_sd \in Nat
    /\ \A t \in withdrawals \cup deposits :
          /\ t.id \in 1 .. transfers
          /\ t.chain \in Chains /\ t.user \in Users /\ t.amount \in Nat

BridgeInv ==
    /\ IInv
    /\ NoncesNamePackets
    /\ GuidsNamePackets
    /\ IsFiniteSet(verified) /\ IsFiniteSet(outbound)
    /\ EvmSound

\* Local units under way between EVM chains or to and from Cosmos, and shared
\* units under way to and from Solana.
LdUnderWay == LdIn(messages) + MovedIn(withdrawals) + MovedIn(deposits)
SdUnderWay == SdIn(verified) + SdIn(Pending)

\* What the modules assume of the chains.
LEMMA ChainFacts ==
  /\ ConversionRate \in Nat /\ ConversionRate # 0
  /\ IsFiniteSet(Chains) /\ IsFiniteSet(Users)
  /\ Amounts \subseteq Nat
  /\ Eids \subseteq Chains
BY OmnichainAssumption DEF Evm!AlloAssumption, IsFiniteSet, Evm!IsFiniteSet

\* Every sum is one of natural numbers.
LEMMA SumsAreNat ==
  ASSUME BridgeInv
  PROVE  /\ SdIn(verified) \in Nat /\ SdIn(Pending) \in Nat
         /\ LdIn(messages) \in Nat
         /\ MovedIn(withdrawals) \in Nat /\ MovedIn(deposits) \in Nat
         /\ OnEvm(balances) \in Nat
         /\ IsFiniteSet(Pending)
<1>1. IsFiniteSet(Pending)
  BY FS_Subset DEF BridgeInv, Pending
<1>2. ASSUME NEW packets, IsFiniteSet(packets),
             \A p \in packets : p.amount_sd \in Nat
      PROVE  SdIn(packets) \in Nat
  <2>. DEFINE g == [p \in packets |-> p.amount_sd]
  <2>1. \A p \in packets : g[p] \in Nat
    BY <1>2
  <2>. HIDE DEF g
  <2>2. Total(g, packets) \in Nat
    BY <1>2, <2>1, TotalIsNat
  <2>. QED BY <2>2 DEF SdIn, g
<1>3. ASSUME NEW ts, IsFiniteSet(ts), \A t \in ts : t.amount \in Nat
      PROVE  MovedIn(ts) \in Nat
  <2>. DEFINE g == [t \in ts |-> t.amount]
  <2>1. \A t \in ts : g[t] \in Nat
    BY <1>3
  <2>. HIDE DEF g
  <2>2. Total(g, ts) \in Nat
    BY <1>3, <2>1, TotalIsNat
  <2>. QED BY <2>2 DEF MovedIn, g
<1>4. LdIn(messages) \in Nat
  <2>. DEFINE g == [m \in messages |-> m.amount_sd * ConversionRate]
  <2>1. \A m \in messages : m.amount_sd \in Nat
    BY DEF BridgeInv, EvmSound
  <2>2. \A m \in messages : g[m] \in Nat
    BY <2>1, ChainFacts, ProductInNat
  <2>. HIDE DEF g
  <2>3. Total(g, messages) \in Nat
    BY <2>2, TotalIsNat DEF BridgeInv, EvmSound
  <2>. QED BY <2>3 DEF LdIn, g
<1>5. OnEvm(balances) \in Nat
  <2>. DEFINE g == [chain \in Chains |-> Total(balances[chain], Users)]
  <2>1. \A chain \in Chains, user \in Users : balances[chain][user] \in Nat
    BY DEF BridgeInv, EvmSound
  <2>2. \A chain \in Chains : g[chain] \in Nat
    BY <2>1, ChainFacts, TotalIsNat
  <2>. HIDE DEF g
  <2>3. Total(g, Chains) \in Nat
    BY <2>2, ChainFacts, TotalIsNat
  <2>. QED BY <2>3 DEF OnEvm, g
<1>6. /\ \A p \in verified : p.amount_sd \in Nat
      /\ \A p \in Pending : p.amount_sd \in Nat
  BY DEF BridgeInv, IInv, TypeOK, InboundPackets, OutboundPackets, Pending
<1>. QED BY <1>1, <1>2, <1>3, <1>4, <1>5, <1>6 DEF BridgeInv, EvmSound

\* The ledger, read off the state.
LedgerIsRead ==
    /\ SumOf(Evm!Supply, Chains) = OnEvm(balances)
    /\ UnderWay = EvmUnits(LdUnderWay) + SharedUnits(SdUnderWay)
    /\ OnEvm(balances) \in Nat /\ LdUnderWay \in Nat /\ SdUnderWay \in Nat
    /\ Rate \in Nat /\ Supply \in Nat /\ escrowed \in Int

\* The invariant of the bridge is enough to read its ledger.
LEMMA BridgeReadings == BridgeInv => LedgerIsRead
<1>. SUFFICES ASSUME BridgeInv PROVE LedgerIsRead
  OBVIOUS
<1>1. SumOf(Evm!Supply, Chains) = OnEvm(balances)
  BY ChainFacts, ChainsHold
<1>2. Evm!Claims = OnEvm(balances) + LdIn(messages) + MovedIn(withdrawals)
                     + MovedIn(deposits)
  <2>1. /\ IsFiniteSet(messages) /\ IsFiniteSet(withdrawals)
        /\ IsFiniteSet(deposits)
    BY DEF BridgeInv, EvmSound
  <2>2. Evm!MapThenSumSet(Evm!Supply, Chains) = OnEvm(balances)
    BY ChainFacts, ChainsHold
  <2>3. Evm!MapThenSumSet(LAMBDA m : m.amount_sd * ConversionRate, messages)
           = LdIn(messages)
    BY <2>1, MessagesCarry
  <2>4. /\ Evm!MapThenSumSet(LAMBDA t : t.amount, withdrawals)
              = MovedIn(withdrawals)
        /\ Evm!MapThenSumSet(LAMBDA t : t.amount, deposits) = MovedIn(deposits)
    BY <2>1, TransfersMove
  <2>. QED BY <2>2, <2>3, <2>4 DEF Evm!Claims
<1>3. /\ SumOf(LAMBDA p : p.amount_sd, verified) = SdIn(verified)
      /\ SumOf(LAMBDA p : p.amount_sd, Pending) = SdIn(Pending)
  BY SumsAreNat, PacketsCarry DEF BridgeInv
<1>4. /\ Rate \in Nat /\ Supply \in Nat /\ escrowed \in Int
      /\ ConversionRate \in Nat
  BY ChainFacts, AmountsAssumption
  DEF BridgeInv, EvmSound, IInv, TypeOK, OFTStores, Rate, Supply, U64
<1>5. /\ LdUnderWay \in Nat /\ SdUnderWay \in Nat /\ OnEvm(balances) \in Nat
      /\ SdIn(verified) \in Nat /\ SdIn(Pending) \in Nat
  BY SumsAreNat DEF LdUnderWay, SdUnderWay
<1>6. UnderWay = EvmUnits(Evm!Claims - OnEvm(balances))
                   + SharedUnits(SdIn(verified)) + SharedUnits(SdIn(Pending))
  BY <1>1, <1>3 DEF UnderWay, Pending
<1>7. Evm!Claims - OnEvm(balances) = LdUnderWay
  BY <1>2, SumsAreNat DEF LdUnderWay
<1>8. SharedUnits(SdIn(verified)) + SharedUnits(SdIn(Pending))
         = SharedUnits(SdUnderWay)
  <2>1. ASSUME NEW a \in Nat, NEW b \in Nat, NEW r \in Nat, NEW c \in Nat
        PROVE  a * r * c + b * r * c = (a + b) * r * c
    OBVIOUS
  <2>. QED BY <1>4, <1>5, <2>1 DEF SharedUnits, SdUnderWay
<1>9. /\ EvmUnits(LdUnderWay) \in Int
      /\ SharedUnits(SdIn(verified)) \in Int /\ SharedUnits(SdIn(Pending)) \in Int
  BY <1>4, <1>5, ProductInNat DEF EvmUnits, SharedUnits
<1>10. UnderWay = EvmUnits(LdUnderWay) + SharedUnits(SdUnderWay)
  BY <1>6, <1>7, <1>8, <1>9
<1>. QED BY <1>1, <1>4, <1>5, <1>10 DEF LedgerIsRead

-----------------------------------------------------------------------------
(* Steps of the ledger.                                                    *)

\* Nothing that the ledger is read from has changed.
LEMMA LedgerStays ==
  ASSUME LedgerIsRead, LedgerIsRead', Rate' = Rate, Supply' = Supply,
         escrowed' = escrowed, OnEvm(balances)' = OnEvm(balances),
         LdUnderWay' = LdUnderWay, SdUnderWay' = SdUnderWay
  PROVE  UNCHANGED Ledger!ledgerVars
BY DEF LedgerIsRead, Ledger!ledgerVars, EvmUnits, SharedUnits, SolanaUnits

\* Cosmos takes as much into escrow, or out of it, as goes under way or ceases to
\* be.
LEMMA LedgerSettles ==
  ASSUME LedgerIsRead, LedgerIsRead', Rate' = Rate, Supply' = Supply,
         OnEvm(balances)' = OnEvm(balances), SdUnderWay' = SdUnderWay,
         escrowed' - escrowed = LdUnderWay' - LdUnderWay
  PROVE  Ledger!Settle
<1>1. /\ Rate \in Nat /\ LdUnderWay \in Nat /\ LdUnderWay' \in Nat
      /\ SdUnderWay \in Nat /\ escrowed \in Int /\ escrowed' \in Int
      /\ ConversionRate \in Nat
      /\ UnderWay = LdUnderWay * Rate + SharedUnits(SdUnderWay)
      /\ UnderWay' = LdUnderWay' * Rate + SharedUnits(SdUnderWay)
      /\ UNCHANGED <<EvmUnits(SumOf(Evm!Supply, Chains)), SolanaUnits(Supply)>>
  BY ChainFacts DEF LedgerIsRead, EvmUnits, SharedUnits, SolanaUnits
<1>2. SharedUnits(SdUnderWay) \in Nat
  BY <1>1, ProductInNat DEF SharedUnits
<1>3. LdUnderWay * Rate \in Nat /\ LdUnderWay' * Rate \in Nat
  BY <1>1, ProductInNat
<1>4. UnderWay' \in Nat
  BY <1>1, <1>2, <1>3
<1>5. \A a, b, c, d \in Int, r \in Nat :
         b - a = d - c => b * r = a * r + (d * r - c * r)
  OBVIOUS
<1>6. escrowed' * Rate = escrowed * Rate + (LdUnderWay' * Rate - LdUnderWay * Rate)
  BY <1>1, <1>5
<1>7. escrowed * Rate \in Int
  BY <1>1
<1>8. EvmUnits(escrowed)' = EvmUnits(escrowed) + (UnderWay' - UnderWay)
  BY <1>1, <1>2, <1>3, <1>6, <1>7 DEF EvmUnits
<1>. QED BY <1>1, <1>4, <1>8 DEF Ledger!Settle

\* What leaves an EVM chain is under way, in local or in shared units.
LEMMA LedgerCrossesEvm ==
  ASSUME LedgerIsRead, LedgerIsRead', Rate' = Rate, Supply' = Supply,
         escrowed' = escrowed,
         OnEvm(balances)' + LdUnderWay' + SdUnderWay' * ConversionRate
            = OnEvm(balances) + LdUnderWay + SdUnderWay * ConversionRate
  PROVE  Ledger!CrossEvm
<1>. DEFINE e == OnEvm(balances)  f == OnEvm(balances)'
            l == LdUnderWay       m == LdUnderWay'
            s == SdUnderWay       t == SdUnderWay'
            c == ConversionRate   r == Rate
<1>1. /\ r \in Nat /\ c \in Nat /\ e \in Nat /\ f \in Nat
      /\ l \in Nat /\ m \in Nat /\ s \in Nat /\ t \in Nat
      /\ UnderWay = l * r + s * r * c
      /\ UnderWay' = m * r + t * r * c
      /\ EvmUnits(SumOf(Evm!Supply, Chains)) = e * r
      /\ EvmUnits(SumOf(Evm!Supply, Chains))' = f * r
      /\ f + m + t * c = e + l + s * c
      /\ UNCHANGED <<EvmUnits(escrowed), SolanaUnits(Supply)>>
  BY ChainFacts DEF LedgerIsRead, EvmUnits, SharedUnits, SolanaUnits
<1>. HIDE DEF e, f, l, m, s, t, c, r
<1>2. /\ l * r \in Nat /\ m * r \in Nat /\ e * r \in Nat /\ f * r \in Nat
      /\ s * r * c \in Nat /\ t * r * c \in Nat
      /\ s * c \in Nat /\ t * c \in Nat
  BY <1>1, ProductInNat
<1>3. /\ (f + m + t * c) * r = f * r + m * r + t * r * c
      /\ (e + l + s * c) * r = e * r + l * r + s * r * c
  <2>1. \A x, y, z \in Int : (x + y + z * c) * r = x * r + y * r + z * r * c
    BY <1>1
  <2>. QED BY <1>1, <2>1
<1>4. f * r + (m * r + t * r * c) = e * r + (l * r + s * r * c)
  BY <1>1, <1>2, <1>3
<1>5. /\ UnderWay' \in Nat
      /\ EvmUnits(SumOf(Evm!Supply, Chains))' \in Nat
      /\ EvmUnits(SumOf(Evm!Supply, Chains))' + UnderWay'
            = EvmUnits(SumOf(Evm!Supply, Chains)) + UnderWay
  BY <1>1, <1>2, <1>4
<1>. QED BY <1>1, <1>5 DEF Ledger!CrossEvm

\* What leaves Solana is under way, in shared units.
LEMMA LedgerCrossesSolana ==
  ASSUME LedgerIsRead, LedgerIsRead', Rate' = Rate, escrowed' = escrowed,
         OnEvm(balances)' = OnEvm(balances), LdUnderWay' = LdUnderWay,
         NEW sd \in Int, Supply' = Supply + Rate * sd,
         SdUnderWay' = SdUnderWay - sd
  PROVE  Ledger!CrossSolana
<1>. DEFINE v == Supply           w == Supply'
            l == LdUnderWay
            s == SdUnderWay       t == SdUnderWay'
            c == ConversionRate   r == Rate
<1>1. /\ r \in Nat /\ c \in Nat /\ v \in Nat /\ w \in Nat
      /\ l \in Nat /\ s \in Nat /\ t \in Nat
      /\ UnderWay = l * r + s * r * c
      /\ UnderWay' = l * r + t * r * c
      /\ SolanaUnits(Supply) = v * c /\ SolanaUnits(Supply)' = w * c
      /\ w = v + r * sd /\ t = s - sd
      /\ UNCHANGED <<EvmUnits(escrowed), EvmUnits(SumOf(Evm!Supply, Chains))>>
  BY ChainFacts DEF LedgerIsRead, EvmUnits, SharedUnits, SolanaUnits
<1>. HIDE DEF v, w, l, s, t, c, r
<1>2. /\ l * r \in Nat /\ v * c \in Nat /\ w * c \in Nat
      /\ s * r * c \in Nat /\ t * r * c \in Nat
  BY <1>1, ProductInNat
<1>3. w * c + t * r * c = v * c + s * r * c
  <2>1. \A x, y, z \in Int :
           (x + r * z) * c + (y - z) * r * c = x * c + y * r * c
    BY <1>1
  <2>. QED BY <1>1, <2>1
<1>4. /\ UnderWay' \in Nat /\ SolanaUnits(Supply)' \in Nat
      /\ SolanaUnits(Supply)' + UnderWay' = SolanaUnits(Supply) + UnderWay
  BY <1>1, <1>2, <1>3
<1>. QED BY <1>1, <1>4 DEF Ledger!CrossSolana

-----------------------------------------------------------------------------
(* Steps of the program.                                                   *)

\* Solana holds what it has received and not sent.
SupplyFlows == InitialSupply = 0 => Supply = Rate * (received_sd - sent_sd)

\* The flows that the program keeps balanced say so (FlowsBalance); with an
\* adapter, and no tokens of its own, nothing ever exists on Solana.
LEMMA SupplyIsFlow == IInv => SupplyFlows
<1>. SUFFICES ASSUME IInv, InitialSupply = 0
              PROVE  Supply = Rate * (received_sd - sent_sd)
  BY DEF SupplyFlows
<1>1. /\ Rate \in Nat /\ received_sd \in Nat /\ sent_sd \in Nat
      /\ escrow \in Nat /\ held \in Nat /\ withheld \in Nat
      /\ oft_store.tvl_ld \in Nat /\ Supply = escrow + held + withheld
  BY AmountsAssumption DEF IInv, TypeOK, OFTStores, Rate, U64, Supply
<1>. DEFINE net == Rate * (sent_sd - received_sd)
<1>2. net \in Int /\ Rate * (received_sd - sent_sd) = 0 - net
  BY <1>1
<1>3. /\ IsAdapter => oft_store.tvl_ld = net /\ Supply = 0
      /\ ~IsAdapter => Supply = 0 - net
  BY <1>1, <1>2 DEF IInv, FlowsBalance
<1>4. escrow >= oft_store.tvl_ld
  BY DEF IInv, EscrowCoversTvl
<1>. HIDE DEF net
<1>. QED BY <1>1, <1>2, <1>3, <1>4

\* No step changes the decimals of the store.
LEMMA AdministrationKeepsRate ==
  ASSUME IInv, Administration
  PROVE  Rate' = Rate /\ next_guid' = next_guid
<1>1. oft_store \in OFTStores
  BY DEF IInv, TypeOK
<1>2. ASSUME NEW signer \in Accounts, SetOFTConfig(signer)
      PROVE  Rate' = Rate /\ next_guid' = next_guid
  BY <1>1, <1>2
  DEF SetOFTConfig, SetAdmin, SetDelegate, SetDefaultFee, SetPaused, SetPauser,
      SetUnpauser, OFTStores, Rate, custodyVars, endpointVars
<1>3. ASSUME NEW signer \in Accounts, NEW eid \in Eids,
             SetPeerConfig(signer, eid)
      PROVE  Rate' = Rate /\ next_guid' = next_guid
  BY <1>3 DEF SetPeerConfig, SetPeerAddress, SetPeerFee, SetEnforcedOptions,
              SetOutboundRateLimit, SetInboundRateLimit, SetPeer, Rate,
              custodyVars, endpointVars
<1>. QED BY <1>1, <1>2, <1>3
     DEF Administration, SetPause, WithdrawFee, OFTStores, Rate, custodyVars,
         endpointVars

\* A step that leaves the packets and the EVM side alone.
LEMMA QuietBridgeStep ==
  ASSUME BridgeInv, IInv', NoncesNamePackets',
         UNCHANGED <<evmVars, verified, outbound, next_guid, Rate, Supply>>
  PROVE  BridgeInv' /\ UNCHANGED Ledger!ledgerVars
<1>1. BridgeInv'
  BY DEF BridgeInv, GuidsNamePackets, EvmSound, evmVars
<1>2. LedgerIsRead /\ LedgerIsRead'
  BY <1>1, BridgeReadings, PTL
<1>3. /\ escrowed' = escrowed /\ OnEvm(balances)' = OnEvm(balances)
      /\ LdUnderWay' = LdUnderWay /\ SdUnderWay' = SdUnderWay
  BY DEF evmVars, OnEvm, LdUnderWay, SdUnderWay, Pending, LdIn, MovedIn, SdIn
<1>. QED BY <1>1, <1>2, <1>3, LedgerStays

\* A send puts under way what leaves Solana.
LEMMA SendBridgeStep ==
  ASSUME InitialSupply = 0, BridgeInv, IInv', NoncesNamePackets',
         NEW eid \in Eids, NEW amount_ld \in SendAmounts,
         NEW min_amount_ld \in MinAmounts, NEW composed \in Composed,
         NEW options \in SUBSET OptionItems,
         Send(eid, amount_ld, min_amount_ld, composed, options),
         UNCHANGED evmVars
  PROVE  BridgeInv' /\ Ledger!CrossSolana
<1>. DEFINE q  == Quote(eid, amount_ld)
            sd == Ld2Sd(q.amount_received_ld, Rate)
            opts == EnforcedFor(peers[eid], composed) \cup options
            p  == [dst_eid |-> eid, receiver |-> peers[eid].peer_address,
                   guid |-> next_guid, amount_sd |-> sd,
                   composed |-> composed, options |-> opts]
<1>1. /\ LockTokens(q) \/ BurnTokens(q)
      /\ outbound' = outbound \cup {p} /\ next_guid' = next_guid + 1
      /\ sent_sd' = sent_sd + sd
      /\ verified' = verified /\ received_sd' = received_sd
      /\ peers[eid] # None
  BY DEF Send, EndpointSend
<1>2. amount_ld \in Nat
  BY ProgramAssumption, AmountsAssumption DEF U64
<1>3. sd \in Nat
  BY <1>1, <1>2, QuoteFacts DEF BridgeInv
<1>4. Rate' = Rate
  BY <1>1 DEF LockTokens, BurnTokens, Rate, BridgeInv, IInv, TypeOK, OFTStores
<1>5. p.guid = next_guid /\ p.amount_sd = sd
  OBVIOUS
<1>. HIDE DEF q, sd, p
<1>6. /\ next_guid \in Nat /\ Rate \in Nat
      /\ sent_sd \in Nat /\ received_sd \in Nat
      /\ \A o \in outbound : o.guid \in Nat /\ o.amount_sd \in Nat
  BY AmountsAssumption
  DEF BridgeInv, IInv, TypeOK, OFTStores, Rate, U64, OutboundPackets
<1>7. p \notin outbound /\ p.guid \notin received
  BY <1>5, <1>6 DEF BridgeInv, GuidsNamePackets
<1>8. Pending' = Pending \cup {p} /\ p \notin Pending
  BY <1>1, <1>7 DEF Pending, evmVars
<1>9. GuidsNamePackets'
  <2>1. \A o \in outbound' : o.guid < next_guid'
    BY <1>1, <1>5, <1>6 DEF BridgeInv, GuidsNamePackets
  <2>2. \A a, b \in outbound' : a.guid = b.guid => a = b
    BY <1>1, <1>5, <1>6 DEF BridgeInv, GuidsNamePackets
  <2>3. received' \subseteq {o.guid : o \in outbound'}
    BY <1>1 DEF BridgeInv, GuidsNamePackets, evmVars
  <2>. QED BY <2>1, <2>2, <2>3 DEF GuidsNamePackets
<1>10. IsFiniteSet(outbound')
  BY <1>1, FS_AddElement DEF BridgeInv
<1>11. EvmSound'
  BY DEF BridgeInv, EvmSound, evmVars
<1>12. BridgeInv'
  BY <1>1, <1>9, <1>10, <1>11 DEF BridgeInv
<1>13. LedgerIsRead /\ LedgerIsRead'
  BY <1>12, BridgeReadings, PTL
<1>14. /\ escrowed' = escrowed /\ OnEvm(balances)' = OnEvm(balances)
       /\ LdUnderWay' = LdUnderWay
  BY DEF evmVars, OnEvm, LdUnderWay, LdIn, MovedIn
<1>15. SdUnderWay' = SdUnderWay + sd
  <2>1. \A o \in Pending : o.amount_sd \in Nat
    BY <1>6 DEF Pending
  <2>2. SdIn(Pending') = SdIn(Pending) + sd
    BY <1>3, <1>5, <1>8, <2>1, SumsAreNat, SdGrows
  <2>3. SdUnderWay' = SdIn(verified) + SdIn(Pending')
    BY <1>1 DEF SdUnderWay
  <2>. QED BY <1>3, <2>2, <2>3, SumsAreNat DEF SdUnderWay
<1>16. /\ Supply = Rate * (received_sd - sent_sd)
       /\ Supply' = Rate * (received_sd - sent_sd')
  <2>1. IInv => SupplyFlows
    BY SupplyIsFlow
  <2>2. IInv' => SupplyFlows'
    BY SupplyIsFlow, PTL
  <2>. QED BY <1>1, <1>4, <2>1, <2>2 DEF BridgeInv, SupplyFlows
<1>17. Supply' = Supply + Rate * (0 - sd)
  BY <1>1, <1>3, <1>6, <1>16
<1>18. SdUnderWay' = SdUnderWay - (0 - sd)
  BY <1>3, <1>13, <1>15 DEF LedgerIsRead
<1>. QED BY <1>3, <1>4, <1>12, <1>13, <1>14, <1>17, <1>18, LedgerCrossesSolana

\* A receipt takes from what is under way what it puts into circulation.
LEMMA ReceiveBridgeStep ==
  ASSUME InitialSupply = 0, BridgeInv, IInv', NoncesNamePackets',
         NEW packet \in verified, NEW authority, LzReceive(packet, authority),
         UNCHANGED evmVars
  PROVE  BridgeInv' /\ Ledger!CrossSolana
<1>. DEFINE amount_ld == Sd2Ld(packet.amount_sd, Rate)
            sd == packet.amount_sd
<1>1. /\ UnlockTokens(amount_ld) \/ MintTokens(authority, amount_ld)
      /\ verified' = verified \ {packet} /\ received_sd' = received_sd + sd
      /\ outbound' = outbound /\ next_guid' = next_guid /\ sent_sd' = sent_sd
  BY DEF LzReceive, Clear
<1>2. Rate' = Rate
  BY <1>1 DEF UnlockTokens, MintTokens, Rate, BridgeInv, IInv, TypeOK, OFTStores
<1>3. /\ Rate \in Nat /\ sent_sd \in Nat /\ received_sd \in Nat
      /\ \A p \in verified : p.amount_sd \in Nat
      /\ sd \in Nat
  BY AmountsAssumption
  DEF BridgeInv, IInv, TypeOK, OFTStores, Rate, U64, InboundPackets
<1>. HIDE DEF amount_ld, sd
<1>4. /\ IsFiniteSet(verified')
      /\ SdIn(verified') = SdIn(verified) - sd
  BY <1>1, <1>3, SdShrinks DEF BridgeInv, sd
<1>5. BridgeInv'
  BY <1>1, <1>4 DEF BridgeInv, GuidsNamePackets, EvmSound, evmVars
<1>6. LedgerIsRead /\ LedgerIsRead'
  BY <1>5, BridgeReadings, PTL
<1>7. /\ escrowed' = escrowed /\ OnEvm(balances)' = OnEvm(balances)
      /\ LdUnderWay' = LdUnderWay
  BY DEF evmVars, OnEvm, LdUnderWay, LdIn, MovedIn
<1>8. SdUnderWay' = SdUnderWay - sd
  <2>1. Pending' = Pending
    BY <1>1 DEF Pending, evmVars
  <2>2. SdUnderWay' = SdIn(verified') + SdIn(Pending)
    BY <1>1, <2>1 DEF SdUnderWay
  <2>. QED BY <1>3, <1>4, <2>2, SumsAreNat DEF SdUnderWay
<1>9. /\ Supply = Rate * (received_sd - sent_sd)
      /\ Supply' = Rate * (received_sd' - sent_sd)
  <2>1. IInv => SupplyFlows
    BY SupplyIsFlow
  <2>2. IInv' => SupplyFlows'
    BY SupplyIsFlow, PTL
  <2>. QED BY <1>1, <1>2, <2>1, <2>2 DEF BridgeInv, SupplyFlows
<1>10. Supply' = Supply + Rate * sd
  BY <1>1, <1>3, <1>9
<1>. QED BY <1>2, <1>3, <1>5, <1>6, <1>7, <1>8, <1>10, LedgerCrossesSolana

-----------------------------------------------------------------------------
(* Steps of the EVM chains.                                                *)

\* Minting changes the supply of one chain.
LEMMA CreditFacts ==
  ASSUME BridgeInv, NEW chain \in Chains, NEW user \in Users, NEW amount \in Nat,
         Evm!Credit(chain, user, amount)
  PROVE  /\ balances' \in [Chains -> [Users -> Nat]]
         /\ OnEvm(balances)' = OnEvm(balances) + amount
<1>. DEFINE old == balances
            new == [balances EXCEPT ![chain][user] = @ + amount]
<1>1. old \in Balances /\ balances' = new
  BY DEF Balances, BridgeInv, EvmSound, Evm!Credit
<1>2. /\ new \in Balances
      /\ Moves(old, new, chain, user, amount)
  BY <1>1 DEF Moves, Balances
<1>. HIDE DEF new
<1>3. OnEvm(new) = OnEvm(old) + amount
  BY <1>1, <1>2, ChainFacts, OneBalanceMoves
<1>. QED BY <1>1, <1>2, <1>3 DEF Balances

\* Burning takes away what minting adds.
LEMMA DebitFacts ==
  ASSUME BridgeInv, NEW chain \in Chains, NEW user \in Users, NEW amount \in Nat,
         Evm!Debit(chain, user, amount)
  PROVE  /\ balances' \in [Chains -> [Users -> Nat]]
         /\ OnEvm(balances)' = OnEvm(balances) - amount
<1>. DEFINE old == balances
            new == [balances EXCEPT ![chain][user] = @ - amount]
<1>1. /\ old \in Balances /\ balances' = new
      /\ old[chain][user] >= amount
  BY DEF Balances, BridgeInv, EvmSound, Evm!Debit
<1>2. /\ new \in Balances
      /\ Moves(old, new, chain, user, 0 - amount)
  BY <1>1 DEF Moves, Balances
<1>. HIDE DEF new
<1>3. OnEvm(old) \in Int /\ OnEvm(new) = OnEvm(old) + (0 - amount)
  BY <1>1, <1>2, ChainFacts, OneBalanceMoves
<1>4. OnEvm(new) = OnEvm(old) - amount
  BY <1>3
<1>. QED BY <1>1, <1>2, <1>4 DEF Balances

\* What a step of the EVM side alone has in common with all others.
LEMMA EvmStepFacts ==
  ASSUME BridgeInv, EvmSound', UNCHANGED <<vars, received>>
  PROVE  /\ BridgeInv' /\ LedgerIsRead /\ LedgerIsRead'
         /\ Rate' = Rate /\ Supply' = Supply /\ SdUnderWay' = SdUnderWay
<1>1. /\ UNCHANGED <<verified, inbound_nonce, composes, outbound, next_guid,
                     oft_store, escrow, held, withheld>>
  BY DEF vars, custodyVars, endpointVars, tokenVars
<1>2. IInv'
  BY NextIInv DEF BridgeInv
<1>3. NoncesNamePackets'
  BY <1>1, IdleStep DEF BridgeInv
<1>4. BridgeInv'
  BY <1>1, <1>2, <1>3 DEF BridgeInv, GuidsNamePackets
<1>5. LedgerIsRead /\ LedgerIsRead'
  BY <1>4, BridgeReadings, PTL
<1>. QED BY <1>1, <1>4, <1>5 DEF Rate, Supply, SdUnderWay, SdIn, Pending

\* A new message or transfer is none of those under way.
LEMMA NewIds ==
  ASSUME BridgeInv, Evm!NewTransfer
  PROVE  /\ transfers' \in Nat
         /\ \A m \in messages \cup withdrawals \cup deposits :
               m.id # transfers' /\ m.id \in 1 .. transfers'
         /\ transfers' \in 1 .. transfers'
BY DEF BridgeInv, EvmSound, Evm!NewTransfer

\* AmountSent of what is asked for.
LEMMA SentFacts ==
  ASSUME NEW amount \in Amounts
  PROVE  /\ amount \in Nat /\ amount \div ConversionRate \in Nat
         /\ Evm!AmountSent(amount) = (amount \div ConversionRate) * ConversionRate
         /\ Evm!AmountSent(amount) \in Nat
<1>1. amount \in Nat /\ ConversionRate \in Nat \ {0}
  BY ChainFacts
<1>2. amount \div ConversionRate \in Nat
  BY <1>1, DivisionFacts
<1>. QED BY <1>1, <1>2, ProductInNat DEF Evm!AmountSent

\* Local units cross.
LEMMA LdCrosses ==
  ASSUME LedgerIsRead, LedgerIsRead', Rate' = Rate, Supply' = Supply,
         escrowed' = escrowed, SdUnderWay' = SdUnderWay, NEW amount \in Nat,
         \/ /\ OnEvm(balances)' = OnEvm(balances) - amount
            /\ LdUnderWay' = LdUnderWay + amount
         \/ /\ OnEvm(balances)' = OnEvm(balances) + amount
            /\ LdUnderWay' = LdUnderWay - amount
  PROVE  Ledger!CrossEvm
<1>1. SdUnderWay * ConversionRate \in Nat
  BY ChainFacts, ProductInNat DEF LedgerIsRead
<1>2. OnEvm(balances)' + LdUnderWay' + SdUnderWay' * ConversionRate
         = OnEvm(balances) + LdUnderWay + SdUnderWay * ConversionRate
  BY <1>1 DEF LedgerIsRead
<1>. QED BY <1>2, LedgerCrossesEvm

\* OFTUpgradeable.send between EVM chains.
LEMMA EvmSendStep ==
  ASSUME BridgeInv, NEW src \in Chains, NEW dst \in Chains, NEW user \in Users,
         NEW amount \in Amounts, Evm!Send(src, dst, user, amount),
         UNCHANGED <<vars, received>>
  PROVE  BridgeInv' /\ Ledger!CrossEvm
<1>. DEFINE sd == amount \div ConversionRate
            m  == [id |-> transfers', dst |-> dst, user |-> user, amount_sd |-> sd]
<1>1. /\ Evm!NewTransfer /\ Evm!Debit(src, user, Evm!AmountSent(amount))
      /\ messages' = messages \cup {m}
      /\ UNCHANGED <<ics20Proxy, withdrawals, deposits, escrowed, rotations>>
  BY DEF Evm!Send
<1>2. sd \in Nat /\ Evm!AmountSent(amount) = sd * ConversionRate
      /\ sd * ConversionRate \in Nat
  BY SentFacts
<1>3. /\ m.id = transfers' /\ m.dst = dst /\ m.user = user /\ m.amount_sd = sd
  OBVIOUS
<1>. HIDE DEF m, sd
<1>4. m \notin messages
  BY <1>1, <1>3, NewIds
<1>5. /\ balances' \in [Chains -> [Users -> Nat]]
      /\ OnEvm(balances)' = OnEvm(balances) - sd * ConversionRate
  BY <1>1, <1>2, DebitFacts
<1>6. /\ IsFiniteSet(messages') /\ LdIn(messages) \in Int
      /\ LdIn(messages') = LdIn(messages) + sd * ConversionRate
  <2>1. IsFiniteSet(messages) /\ \A x \in messages : x.amount_sd \in Nat
    BY DEF BridgeInv, EvmSound
  <2>. QED BY <1>1, <1>2, <1>3, <1>4, <2>1, ChainFacts, LdGrows
<1>7. EvmSound'
  BY <1>1, <1>2, <1>3, <1>5, <1>6, NewIds DEF BridgeInv, EvmSound
<1>8. /\ BridgeInv' /\ LedgerIsRead /\ LedgerIsRead'
      /\ Rate' = Rate /\ Supply' = Supply /\ SdUnderWay' = SdUnderWay
  BY <1>7, EvmStepFacts
<1>9. LdUnderWay' = LdUnderWay + sd * ConversionRate
  BY <1>1, <1>2, <1>6, SumsAreNat DEF LdUnderWay, MovedIn
<1>. QED BY <1>1, <1>2, <1>5, <1>8, <1>9, LdCrosses

\* The message is minted where it arrives.
LEMMA EvmReceiveStep ==
  ASSUME BridgeInv, NEW m \in messages, Evm!LzReceive(m),
         UNCHANGED <<vars, received>>
  PROVE  BridgeInv' /\ Ledger!CrossEvm
<1>. DEFINE amount == m.amount_sd * ConversionRate
<1>1. /\ messages' = messages \ {m}
      /\ Evm!Credit(m.dst, m.user, amount)
      /\ UNCHANGED <<ics20Proxy, withdrawals, deposits, escrowed, transfers,
                     rotations>>
  BY DEF Evm!LzReceive
<1>2. /\ m.dst \in Chains /\ m.user \in Users
      /\ IsFiniteSet(messages) /\ \A x \in messages : x.amount_sd \in Nat
  BY DEF BridgeInv, EvmSound
<1>3. amount \in Nat
  BY <1>2, ChainFacts, ProductInNat
<1>4. /\ IsFiniteSet(messages') /\ LdIn(messages) \in Int
      /\ LdIn(messages') = LdIn(messages) - amount
  BY <1>1, <1>2, ChainFacts, LdShrinks
<1>. HIDE DEF amount
<1>5. /\ balances' \in [Chains -> [Users -> Nat]]
      /\ OnEvm(balances)' = OnEvm(balances) + amount
  BY <1>1, <1>2, <1>3, CreditFacts
<1>6. EvmSound'
  BY <1>1, <1>4, <1>5 DEF BridgeInv, EvmSound
<1>7. LdUnderWay' = LdUnderWay - amount
  BY <1>1, <1>3, <1>4, SumsAreNat DEF LdUnderWay, MovedIn
<1>. QED BY <1>1, <1>3, <1>5, <1>6, <1>7, EvmStepFacts, LdCrosses

-----------------------------------------------------------------------------
(* Steps over the ICS-20 bridge.                                           *)

\* A withdrawal burns what goes under way.
LEMMA WithdrawStep ==
  ASSUME BridgeInv, NEW proxy, NEW chain \in Chains, NEW user \in Users,
         NEW amount \in Amounts, Evm!Withdraw(proxy, chain, user, amount),
         UNCHANGED <<vars, received>>
  PROVE  BridgeInv' /\ Ledger!CrossEvm
<1>. DEFINE w == [id |-> transfers', chain |-> chain, user |-> user,
                  amount |-> amount, proxy |-> proxy]
<1>1. /\ Evm!NewTransfer /\ Evm!Debit(chain, user, amount)
      /\ withdrawals' = withdrawals \cup {w}
      /\ UNCHANGED <<ics20Proxy, messages, deposits, escrowed, rotations>>
  BY DEF Evm!Withdraw, Evm!Burn
<1>2. /\ w.id = transfers' /\ w.chain = chain /\ w.user = user
      /\ w.amount = amount /\ amount \in Nat
  BY ChainFacts
<1>. HIDE DEF w
<1>3. w \notin withdrawals
  BY <1>1, <1>2, NewIds
<1>4. IsFiniteSet(withdrawals) /\ \A x \in withdrawals : x.amount \in Nat
  BY DEF BridgeInv, EvmSound
<1>5. /\ IsFiniteSet(withdrawals') /\ MovedIn(withdrawals) \in Int
      /\ MovedIn(withdrawals') = MovedIn(withdrawals) + amount
  BY <1>1, <1>2, <1>3, <1>4, MovedGrows
<1>6. /\ balances' \in [Chains -> [Users -> Nat]]
      /\ OnEvm(balances)' = OnEvm(balances) - amount
  BY <1>1, <1>2, DebitFacts
<1>7. EvmSound'
  BY <1>1, <1>2, <1>5, <1>6, NewIds DEF BridgeInv, EvmSound
<1>8. LdUnderWay' = LdUnderWay + amount
  BY <1>1, <1>2, <1>5, SumsAreNat DEF LdUnderWay, LdIn, MovedIn
<1>. QED BY <1>1, <1>2, <1>6, <1>7, <1>8, EvmStepFacts, LdCrosses

\* A refund mints what comes back.
LEMMA RefundStep ==
  ASSUME BridgeInv, NEW w \in withdrawals, Evm!Refund(w),
         UNCHANGED <<vars, received>>
  PROVE  BridgeInv' /\ Ledger!CrossEvm
<1>1. /\ withdrawals' = withdrawals \ {w}
      /\ Evm!Credit(w.chain, w.user, w.amount)
      /\ UNCHANGED <<ics20Proxy, messages, deposits, escrowed, transfers,
                     rotations>>
  BY DEF Evm!Refund, Evm!Mint
<1>2. /\ w.chain \in Chains /\ w.user \in Users /\ w.amount \in Nat
      /\ IsFiniteSet(withdrawals) /\ \A x \in withdrawals : x.amount \in Nat
  BY DEF BridgeInv, EvmSound
<1>3. /\ IsFiniteSet(withdrawals') /\ MovedIn(withdrawals) \in Int
      /\ MovedIn(withdrawals') = MovedIn(withdrawals) - w.amount
  BY <1>1, <1>2, MovedShrinks
<1>4. /\ balances' \in [Chains -> [Users -> Nat]]
      /\ OnEvm(balances)' = OnEvm(balances) + w.amount
  BY <1>1, <1>2, CreditFacts
<1>5. EvmSound'
  BY <1>1, <1>3, <1>4 DEF BridgeInv, EvmSound
<1>6. LdUnderWay' = LdUnderWay - w.amount
  BY <1>1, <1>2, <1>3, SumsAreNat DEF LdUnderWay, LdIn, MovedIn
<1>. QED BY <1>1, <1>2, <1>4, <1>5, <1>6, EvmStepFacts, LdCrosses

\* An acknowledged withdrawal leaves the ledger.
LEMMA AcknowledgeStep ==
  ASSUME BridgeInv, NEW w \in withdrawals, Evm!Acknowledge(w),
         UNCHANGED <<vars, received>>
  PROVE  BridgeInv' /\ Ledger!Settle
<1>1. /\ withdrawals' = withdrawals \ {w}
      /\ escrowed' = escrowed - w.amount
      /\ UNCHANGED <<ics20Proxy, balances, messages, deposits, transfers,
                     rotations>>
  BY DEF Evm!Acknowledge
<1>2. /\ w.amount \in Nat /\ escrowed \in Int
      /\ IsFiniteSet(withdrawals) /\ \A x \in withdrawals : x.amount \in Nat
  BY DEF BridgeInv, EvmSound
<1>3. /\ IsFiniteSet(withdrawals') /\ MovedIn(withdrawals) \in Int
      /\ MovedIn(withdrawals') = MovedIn(withdrawals) - w.amount
  BY <1>1, <1>2, MovedShrinks
<1>4. EvmSound'
  BY <1>1, <1>2, <1>3 DEF BridgeInv, EvmSound
<1>5. /\ BridgeInv' /\ LedgerIsRead /\ LedgerIsRead'
      /\ Rate' = Rate /\ Supply' = Supply /\ SdUnderWay' = SdUnderWay
  BY <1>4, EvmStepFacts
<1>6. escrowed' - escrowed = LdUnderWay' - LdUnderWay
  BY <1>1, <1>2, <1>3, SumsAreNat DEF LdUnderWay, LdIn, MovedIn
<1>7. OnEvm(balances)' = OnEvm(balances)
  BY <1>1 DEF OnEvm
<1>. QED BY <1>5, <1>6, <1>7, LedgerSettles

\* A deposit enters the ledger.
LEMMA DepositStep ==
  ASSUME BridgeInv, NEW chain \in Chains, NEW user \in Users,
         NEW amount \in Amounts, NEW proxy,
         Evm!Deposit(chain, user, amount, proxy), UNCHANGED <<vars, received>>
  PROVE  BridgeInv' /\ Ledger!Settle
<1>. DEFINE d == [id |-> transfers', chain |-> chain, user |-> user,
                  amount |-> amount, proxy |-> proxy]
<1>1. /\ Evm!NewTransfer /\ escrowed' = escrowed + amount
      /\ deposits' = deposits \cup {d}
      /\ UNCHANGED <<ics20Proxy, balances, messages, withdrawals, rotations>>
  BY DEF Evm!Deposit
<1>2. /\ d.id = transfers' /\ d.chain = chain /\ d.user = user
      /\ d.amount = amount /\ amount \in Nat
  BY ChainFacts
<1>. HIDE DEF d
<1>3. d \notin deposits
  BY <1>1, <1>2, NewIds
<1>4. /\ IsFiniteSet(deposits) /\ \A x \in deposits : x.amount \in Nat
      /\ escrowed \in Int
  BY DEF BridgeInv, EvmSound
<1>5. /\ IsFiniteSet(deposits') /\ MovedIn(deposits) \in Int
      /\ MovedIn(deposits') = MovedIn(deposits) + amount
  BY <1>1, <1>2, <1>3, <1>4, MovedGrows
<1>6. EvmSound'
  BY <1>1, <1>2, <1>5, NewIds DEF BridgeInv, EvmSound
<1>7. /\ BridgeInv' /\ LedgerIsRead /\ LedgerIsRead'
      /\ Rate' = Rate /\ Supply' = Supply /\ SdUnderWay' = SdUnderWay
  BY <1>6, EvmStepFacts
<1>8. escrowed' - escrowed = LdUnderWay' - LdUnderWay
  BY <1>1, <1>2, <1>4, <1>5, SumsAreNat DEF LdUnderWay, LdIn, MovedIn
<1>9. OnEvm(balances)' = OnEvm(balances)
  BY <1>1 DEF OnEvm
<1>. QED BY <1>7, <1>8, <1>9, LedgerSettles

\* A deposit is minted.
LEMMA ReceiveDepositStep ==
  ASSUME BridgeInv, NEW d \in deposits, Evm!Receive(d),
         UNCHANGED <<vars, received>>
  PROVE  BridgeInv' /\ Ledger!CrossEvm
<1>1. /\ deposits' = deposits \ {d}
      /\ Evm!Credit(d.chain, d.user, d.amount)
      /\ UNCHANGED <<ics20Proxy, messages, withdrawals, escrowed, transfers,
                     rotations>>
  BY DEF Evm!Receive, Evm!Mint
<1>2. /\ d.chain \in Chains /\ d.user \in Users /\ d.amount \in Nat
      /\ IsFiniteSet(deposits) /\ \A x \in deposits : x.amount \in Nat
  BY DEF BridgeInv, EvmSound
<1>3. /\ IsFiniteSet(deposits') /\ MovedIn(deposits) \in Int
      /\ MovedIn(deposits') = MovedIn(deposits) - d.amount
  BY <1>1, <1>2, MovedShrinks
<1>4. /\ balances' \in [Chains -> [Users -> Nat]]
      /\ OnEvm(balances)' = OnEvm(balances) + d.amount
  BY <1>1, <1>2, CreditFacts
<1>5. EvmSound'
  BY <1>1, <1>3, <1>4 DEF BridgeInv, EvmSound
<1>6. LdUnderWay' = LdUnderWay - d.amount
  BY <1>1, <1>2, <1>3, SumsAreNat DEF LdUnderWay, LdIn, MovedIn
<1>. QED BY <1>1, <1>2, <1>4, <1>5, <1>6, EvmStepFacts, LdCrosses

\* A deposit that could not be minted leaves the ledger.
LEMMA ReturnStep ==
  ASSUME BridgeInv, NEW d \in deposits, Evm!Return(d),
         UNCHANGED <<vars, received>>
  PROVE  BridgeInv' /\ Ledger!Settle
<1>1. /\ deposits' = deposits \ {d}
      /\ escrowed' = escrowed - d.amount
      /\ UNCHANGED <<ics20Proxy, balances, messages, withdrawals, transfers,
                     rotations>>
  BY DEF Evm!Return
<1>2. /\ d.amount \in Nat /\ escrowed \in Int
      /\ IsFiniteSet(deposits) /\ \A x \in deposits : x.amount \in Nat
  BY DEF BridgeInv, EvmSound
<1>3. /\ IsFiniteSet(deposits') /\ MovedIn(deposits) \in Int
      /\ MovedIn(deposits') = MovedIn(deposits) - d.amount
  BY <1>1, <1>2, MovedShrinks
<1>4. EvmSound'
  BY <1>1, <1>2, <1>3 DEF BridgeInv, EvmSound
<1>5. /\ BridgeInv' /\ LedgerIsRead /\ LedgerIsRead'
      /\ Rate' = Rate /\ Supply' = Supply /\ SdUnderWay' = SdUnderWay
  BY <1>4, EvmStepFacts
<1>6. escrowed' - escrowed = LdUnderWay' - LdUnderWay
  BY <1>1, <1>2, <1>3, SumsAreNat DEF LdUnderWay, LdIn, MovedIn
<1>7. OnEvm(balances)' = OnEvm(balances)
  BY <1>1 DEF OnEvm
<1>. QED BY <1>5, <1>6, <1>7, LedgerSettles

\* Whatever happens on the EVM chains is a step of the ledger, or none.
LEMMA EvmStep ==
  ASSUME BridgeInv, Evm!Next, UNCHANGED <<vars, received>>
  PROVE  BridgeInv' /\ [Ledger!Next]_(Ledger!ledgerVars)
<1>1. ASSUME NEW caller, NEW chain, NEW proxy,
             Evm!SetICS20Proxy(caller, chain, proxy)
      PROVE  BridgeInv' /\ UNCHANGED Ledger!ledgerVars
  <2>1. UNCHANGED <<balances, messages, withdrawals, deposits, escrowed, transfers>>
    BY <1>1 DEF Evm!SetICS20Proxy
  <2>2. EvmSound'
    BY <2>1 DEF BridgeInv, EvmSound
  <2>3. /\ LdUnderWay' = LdUnderWay /\ OnEvm(balances)' = OnEvm(balances)
    BY <2>1 DEF LdUnderWay, LdIn, MovedIn, OnEvm
  <2>. QED BY <2>1, <2>2, <2>3, EvmStepFacts, LedgerStays
<1>2. CASE Evm!Administration
  BY <1>1, <1>2 DEF Evm!Administration
<1>3. CASE Evm!Bridging
  BY <1>3, EvmSendStep, EvmReceiveStep, WithdrawStep, RefundStep,
     AcknowledgeStep, DepositStep, ReceiveDepositStep, ReturnStep
  DEF Evm!Bridging, Ledger!Next
<1>. QED BY <1>2, <1>3 DEF Evm!Next

-----------------------------------------------------------------------------
(* Steps between the EVM chains and Solana.                                *)

\* A message to Solana is worth what its sender's tokens were.
LEMMA SendToSolanaStep ==
  ASSUME BridgeInv, NEW chain \in Chains, NEW user \in Users,
         NEW amount \in Amounts, SendToSolana(chain, user, amount)
  PROVE  BridgeInv' /\ Ledger!CrossEvm
<1>. DEFINE sd   == amount \div ConversionRate
            path == <<chain, ContractOf[chain]>>
            p    == [src_eid |-> chain, sender |-> ContractOf[chain],
                     nonce |-> inbound_nonce[chain] + 1,
                     amount_sd |-> sd, composed |-> FALSE]
<1>1. /\ Evm!NewTransfer /\ Evm!Debit(chain, user, Evm!AmountSent(amount))
      /\ EndpointVerify(path[1], path[2], sd, FALSE) /\ path \in OpenPaths
      /\ UNCHANGED <<ics20Proxy, messages, withdrawals, deposits, escrowed,
                     rotations, received>>
  BY DEF SendToSolana, EndpointVerify
<1>2. /\ sd \in Nat /\ Evm!AmountSent(amount) = sd * ConversionRate
      /\ sd * ConversionRate \in Nat
  BY SentFacts
<1>3. /\ verified' = verified \cup {p}
      /\ UNCHANGED <<oft_store, peers, tokenVars, delegate, outbound, next_guid,
                     composes, historyVars, mintVars, now>>
  BY <1>1 DEF EndpointVerify
<1>4. /\ p.amount_sd = sd /\ p.src_eid = chain
      /\ p.nonce = inbound_nonce[chain] + 1
  OBVIOUS
<1>5. chain \in Eids /\ inbound_nonce[chain] \in Nat
  BY DEF SendToSolana, BridgeInv, IInv, TypeOK
<1>. HIDE DEF p
<1>6. IInv' /\ NoncesNamePackets'
  <2>. HIDE DEF path, sd
  <2>. QED BY <1>1, <1>2, EndpointVerifyKeepsIInv, VerifyStep DEF BridgeInv
<1>. HIDE DEF sd, path
<1>7. p \notin verified
  <2>1. \A a \in verified : a.nonce <= inbound_nonce[a.src_eid]
    BY DEF BridgeInv, NoncesNamePackets
  <2>. QED BY <1>4, <1>5, <2>1
<1>8. \A a \in verified : a.amount_sd \in Nat
  BY DEF BridgeInv, IInv, TypeOK, InboundPackets
<1>9. /\ IsFiniteSet(verified') /\ SdIn(verified) \in Int
      /\ SdIn(verified') = SdIn(verified) + sd
  BY <1>2, <1>3, <1>4, <1>7, <1>8, SdGrows DEF BridgeInv
<1>10. /\ balances' \in [Chains -> [Users -> Nat]]
       /\ OnEvm(balances)' = OnEvm(balances) - sd * ConversionRate
  BY <1>1, <1>2, DebitFacts
<1>11. EvmSound'
  BY <1>1, <1>10, NewIds DEF BridgeInv, EvmSound
<1>12. BridgeInv'
  BY <1>1, <1>3, <1>6, <1>9, <1>11 DEF BridgeInv, GuidsNamePackets
<1>13. LedgerIsRead /\ LedgerIsRead'
  BY <1>12, BridgeReadings, PTL
<1>14. Rate' = Rate /\ Supply' = Supply
  BY <1>3 DEF Rate, Supply, tokenVars
<1>15. LdUnderWay' = LdUnderWay
  BY <1>1 DEF LdUnderWay, LdIn, MovedIn
<1>16. SdUnderWay' = SdUnderWay + sd
  <2>1. Pending' = Pending
    BY <1>1, <1>3 DEF Pending
  <2>. QED BY <1>2, <1>9, <2>1, SumsAreNat DEF SdUnderWay
<1>17. OnEvm(balances)' + LdUnderWay' + SdUnderWay' * ConversionRate
          = OnEvm(balances) + LdUnderWay + SdUnderWay * ConversionRate
  <2>1. \A x, y \in Nat : (x + y) * ConversionRate
                             = x * ConversionRate + y * ConversionRate
    BY ChainFacts
  <2>2. SdUnderWay \in Nat /\ SdUnderWay * ConversionRate \in Nat
    BY <1>13, ChainFacts, ProductInNat DEF LedgerIsRead
  <2>3. SdUnderWay' * ConversionRate
           = SdUnderWay * ConversionRate + sd * ConversionRate
    BY <1>2, <1>16, <2>1, <2>2
  <2>. QED BY <1>2, <1>10, <1>13, <1>15, <2>2, <2>3 DEF LedgerIsRead
<1>. QED BY <1>1, <1>12, <1>13, <1>14, <1>17, LedgerCrossesEvm

\* A packet from Solana is minted on its chain, and never again.
LEMMA ReceiveFromSolanaStep ==
  ASSUME BridgeInv, NEW packet \in outbound, NEW user \in Users,
         ReceiveFromSolana(packet, user)
  PROVE  BridgeInv' /\ Ledger!CrossEvm
<1>. DEFINE sd     == packet.amount_sd
            amount == sd * ConversionRate
<1>1. /\ packet.guid \notin received
      /\ Evm!Credit(packet.dst_eid, user, amount)
      /\ received' = received \cup {packet.guid}
      /\ UNCHANGED <<vars, ics20Proxy, messages, withdrawals, deposits, escrowed,
                     transfers, rotations>>
  BY DEF ReceiveFromSolana
<1>2. /\ packet.dst_eid \in Chains
      /\ \A p \in outbound : p.amount_sd \in Nat
  BY ChainFacts DEF BridgeInv, IInv, TypeOK, OutboundPackets
<1>3. sd \in Nat /\ amount \in Nat
  BY <1>2, ChainFacts, ProductInNat
<1>4. UNCHANGED <<verified, inbound_nonce, composes, outbound, next_guid,
                  oft_store, escrow, held, withheld>>
  BY <1>1 DEF vars, custodyVars, endpointVars, tokenVars
<1>. HIDE DEF amount
<1>5. /\ balances' \in [Chains -> [Users -> Nat]]
      /\ OnEvm(balances)' = OnEvm(balances) + amount
  BY <1>1, <1>2, <1>3, CreditFacts
<1>6. packet \in Pending /\ Pending' = Pending \ {packet}
  <2>1. \A p \in outbound : p.guid = packet.guid => p = packet
    BY DEF BridgeInv, GuidsNamePackets
  <2>. QED BY <1>1, <1>4, <2>1 DEF Pending
<1>7. /\ SdIn(Pending) \in Int
      /\ SdIn(Pending') = SdIn(Pending) - sd
  <2>1. \A p \in Pending : p.amount_sd \in Nat
    BY <1>2 DEF Pending
  <2>2. IsFiniteSet(Pending)
    BY SumsAreNat
  <2>. HIDE DEF sd
  <2>3. SdIn(Pending) \in Int /\ SdIn(Pending') = SdIn(Pending) - packet.amount_sd
    BY <1>6, <2>1, <2>2, SdShrinks
  <2>. QED BY <2>3 DEF sd
<1>8. GuidsNamePackets'
  BY <1>1, <1>4 DEF BridgeInv, GuidsNamePackets
<1>9. EvmSound'
  BY <1>1, <1>5 DEF BridgeInv, EvmSound
<1>10. IInv' /\ NoncesNamePackets'
  BY <1>1, <1>4, NextIInv, IdleStep DEF BridgeInv
<1>11. BridgeInv'
  BY <1>4, <1>8, <1>9, <1>10 DEF BridgeInv
<1>12. LedgerIsRead /\ LedgerIsRead'
  BY <1>11, BridgeReadings, PTL
<1>13. Rate' = Rate /\ Supply' = Supply
  BY <1>4 DEF Rate, Supply
<1>14. LdUnderWay' = LdUnderWay
  BY <1>1 DEF LdUnderWay, LdIn, MovedIn
<1>. HIDE DEF sd
<1>15. SdUnderWay' = SdUnderWay - sd
  <2>1. SdIn(verified)' = SdIn(verified)
    BY <1>4 DEF SdIn
  <2>. QED BY <1>3, <1>7, <2>1, SumsAreNat DEF SdUnderWay
<1>16. OnEvm(balances)' + LdUnderWay' + SdUnderWay' * ConversionRate
          = OnEvm(balances) + LdUnderWay + SdUnderWay * ConversionRate
  <2>1. \A x, y \in Int : (x - y) * ConversionRate
                             = x * ConversionRate - y * ConversionRate
    BY ChainFacts
  <2>2. SdUnderWay \in Nat /\ SdUnderWay * ConversionRate \in Nat
    BY <1>12, ChainFacts, ProductInNat DEF LedgerIsRead
  <2>3. SdUnderWay' * ConversionRate = SdUnderWay * ConversionRate - amount
    BY <1>3, <1>15, <2>1, <2>2 DEF amount
  <2>. QED BY <1>3, <1>5, <1>12, <1>14, <2>2, <2>3 DEF LedgerIsRead
<1>. QED BY <1>1, <1>11, <1>12, <1>13, <1>16, LedgerCrossesEvm

-----------------------------------------------------------------------------
(* The bridge keeps the ledger.                                            *)

\* Nothing exists at first.
LEMMA BridgeInit ==
  ASSUME InitialSupply = 0, OmniInit
  PROVE  BridgeInv /\ Ledger!Init
<1>1. /\ verified = {} /\ outbound = {} /\ received = {} /\ composes = {}
      /\ escrow = 0 /\ held = 0 /\ withheld = 0
  BY DEF OmniInit, Init
<1>2. /\ balances = [chain \in Chains |-> [user \in Users |-> 0]]
      /\ messages = {} /\ withdrawals = {} /\ deposits = {}
      /\ escrowed = 0 /\ transfers = 0
  BY DEF OmniInit, Evm!Init
<1>3. IsFiniteSet({})
  BY FS_EmptySet
<1>4. EvmSound
  BY <1>2, <1>3 DEF EvmSound
<1>5. BridgeInv
  BY <1>1, <1>3, <1>4, InitIInv
  DEF OmniInit, BridgeInv, NoncesNamePackets, ComposedOnce, GuidsNamePackets
<1>6. LedgerIsRead
  BY <1>5, BridgeReadings
<1>7. /\ \A g : Total(g, {}) = 0
      /\ Pending = {}
  BY <1>1, TotalOfNone DEF Pending
<1>8. LdUnderWay = 0 /\ SdUnderWay = 0
  BY <1>1, <1>2, <1>7 DEF LdUnderWay, SdUnderWay, LdIn, MovedIn, SdIn
<1>9. OnEvm(balances) = 0
  <2>2. \A chain \in Chains : Total(balances[chain], Users) = 0
    BY <1>2, ChainFacts, TotalOfZeros
  <2>. DEFINE g == [chain \in Chains |-> Total(balances[chain], Users)]
  <2>3. \A chain \in Chains : g[chain] = 0
    BY <2>2
  <2>. HIDE DEF g
  <2>4. Total(g, Chains) = 0
    BY <2>3, ChainFacts, TotalOfZeros
  <2>. QED BY <2>4 DEF OnEvm, g
<1>10. Supply = 0
  BY <1>1 DEF Supply
<1>. QED BY <1>2, <1>5, <1>6, <1>8, <1>9, <1>10, ChainFacts
     DEF Ledger!Init, LedgerIsRead, EvmUnits, SolanaUnits, SharedUnits

\* Every step of the bridge keeps its invariant and is one of the ledger.
LEMMA BridgeStep ==
  ASSUME InitialSupply = 0, BridgeInv, [OmniNext]_omniVars
  PROVE  BridgeInv' /\ [Ledger!Next]_(Ledger!ledgerVars)
<1>1. ASSUME [Next]_vars PROVE IInv' /\ NoncesNamePackets'
  BY <1>1, NextIInv, NoncesStep DEF BridgeInv
<1>2. CASE Administration /\ UNCHANGED evmVars
  <2>1. IInv' /\ NoncesNamePackets'
    BY <1>1, <1>2 DEF Next
  <2>2. UNCHANGED <<verified, outbound, next_guid, Rate, Supply>>
    BY <1>2, AdministrationIsQuiet, AdministrationKeepsPackets,
       AdministrationKeepsRate DEF BridgeInv, Quiet
  <2>. QED BY <1>2, <2>1, <2>2, QuietBridgeStep
<1>3. CASE Traffic /\ UNCHANGED evmVars
  <2>1. IInv' /\ NoncesNamePackets'
    BY <1>1, <1>3 DEF Next
  <2>. QED BY <1>3, <2>1, SendBridgeStep, ReceiveBridgeStep
       DEF Traffic, Ledger!Next
<1>4. ASSUME NEW t \in (now + 1) .. MaxTime, NEW fee \in TransferFeeChoices,
             Tick(t, fee), UNCHANGED evmVars
      PROVE  BridgeInv' /\ UNCHANGED Ledger!ledgerVars
  <2>1. IInv' /\ NoncesNamePackets'
    BY <1>1, <1>4 DEF Next, Environment
  <2>2. UNCHANGED <<verified, outbound, next_guid, Rate, Supply>>
    BY <1>4 DEF Tick, Rate, Supply, endpointVars, tokenVars
  <2>. QED BY <1>4, <2>1, <2>2, QuietBridgeStep
<1>5. CASE UNCHANGED omniVars
  <2>1. IInv' /\ NoncesNamePackets' /\ UNCHANGED evmVars
    BY <1>1, <1>5 DEF omniVars
  <2>2. UNCHANGED <<verified, outbound, next_guid, Rate, Supply>>
    BY <1>5 DEF omniVars, vars, custodyVars, endpointVars, tokenVars, Rate, Supply
  <2>. QED BY <2>1, <2>2, QuietBridgeStep
<1>. QED BY <1>2, <1>3, <1>4, <1>5, EvmStep, SendToSolanaStep,
            ReceiveFromSolanaStep DEF OmniNext, Ledger!Next

\* The invariant holds throughout.
LEMMA BridgeInvariant ==
  ASSUME InitialSupply = 0
  PROVE  OmniSpec => []BridgeInv
<1>1. OmniInit => BridgeInv
  BY BridgeInit
<1>2. BridgeInv /\ [OmniNext]_omniVars => BridgeInv'
  BY BridgeStep
<1>. QED BY <1>1, <1>2, PTL DEF OmniSpec

\* The program on Solana, the token contracts on the EVM chains (send, lzReceive,
\* AlloOFTUpgradeable's mint and burn) and the escrow of Cosmos implement the
\* ledger that OmniLedger describes, for any number of chains, users, amounts
\* and decimals: every step, those of the administrators included, is a step of
\* the ledger or changes nothing in it.  The ledger starts empty, and so must
\* the mint.
THEOREM BridgeAlwaysKeepsLedger ==
  ASSUME InitialSupply = 0
  PROVE  OmniSpec => BridgeKeepsLedger
<1>1. OmniInit => Ledger!Init
  BY BridgeInit
<1>2. BridgeInv /\ [OmniNext]_omniVars => [Ledger!Next]_(Ledger!ledgerVars)
  BY BridgeStep
<1>. QED BY <1>1, <1>2, BridgeInvariant, PTL
     DEF OmniSpec, BridgeKeepsLedger, Ledger!Spec

\* So what Cosmos has escrowed is, at all times, what circulates on the EVM
\* chains, what circulates on Solana and what is under way: no interleaving of
\* sends, receipts, refunds and replaced proxies mints what is not backed, or
\* loses what is.
THEOREM EverythingIsBacked ==
  ASSUME InitialSupply = 0
  PROVE  OmniSpec => [](Ledger!LedgerTypeOK /\ Ledger!Conserved)
<1>1. BridgeInv => /\ EvmUnits(SumOf(Evm!Supply, Chains)) \in Nat
                   /\ SolanaUnits(Supply) \in Nat /\ UnderWay \in Nat
                   /\ EvmUnits(escrowed) \in Int
  <2>. SUFFICES ASSUME BridgeInv
                PROVE  /\ EvmUnits(SumOf(Evm!Supply, Chains)) \in Nat
                       /\ SolanaUnits(Supply) \in Nat /\ UnderWay \in Nat
                       /\ EvmUnits(escrowed) \in Int
    OBVIOUS
  <2>1. LedgerIsRead /\ ConversionRate \in Nat
    BY BridgeReadings, ChainFacts
  <2>2. /\ OnEvm(balances) * Rate \in Nat /\ LdUnderWay * Rate \in Nat
        /\ SdUnderWay * Rate * ConversionRate \in Nat
        /\ Supply * ConversionRate \in Nat
        /\ escrowed * Rate \in Int
    BY <2>1, ProductInNat DEF LedgerIsRead
  <2>. QED BY <2>1, <2>2
       DEF LedgerIsRead, EvmUnits, SharedUnits, SolanaUnits
<1>. DEFINE Sums == /\ EvmUnits(SumOf(Evm!Supply, Chains)) \in Nat
                    /\ SolanaUnits(Supply) \in Nat /\ UnderWay \in Nat
                    /\ EvmUnits(escrowed) \in Int
<1>2. Ledger!Init => Ledger!Conserved
  BY DEF Ledger!Init, Ledger!Conserved
<1>3. Sums /\ Sums' /\ Ledger!Conserved /\ [Ledger!Next]_(Ledger!ledgerVars)
        => Ledger!Conserved'
  <2>. DEFINE b == EvmUnits(escrowed)
              e == EvmUnits(SumOf(Evm!Supply, Chains))
              s == SolanaUnits(Supply)
              u == UnderWay
              b2 == EvmUnits(escrowed)'
              e2 == EvmUnits(SumOf(Evm!Supply, Chains))'
              s2 == SolanaUnits(Supply)'
              u2 == UnderWay'
  <2>. SUFFICES ASSUME Sums, Sums', Ledger!Conserved,
                       [Ledger!Next]_(Ledger!ledgerVars)
                PROVE  Ledger!Conserved'
    OBVIOUS
  <2>1. /\ b \in Int /\ e \in Int /\ s \in Int /\ u \in Int
        /\ b2 \in Int /\ e2 \in Int /\ s2 \in Int /\ u2 \in Int
    OBVIOUS
  <2>2. b = e + s + u
    BY DEF Ledger!Conserved
  <2>3. \/ b2 = b + (u2 - u) /\ e2 = e /\ s2 = s
        \/ e2 + u2 = e + u /\ b2 = b /\ s2 = s
        \/ s2 + u2 = s + u /\ b2 = b /\ e2 = e
        \/ b2 = b /\ e2 = e /\ s2 = s /\ u2 = u
    BY DEF Ledger!Next, Ledger!Settle, Ledger!CrossEvm, Ledger!CrossSolana,
           Ledger!ledgerVars
  <2>4. b2 = e2 + s2 + u2
    <3>. HIDE DEF b, e, s, u, b2, e2, s2, u2
    <3>. QED BY <2>1, <2>2, <2>3
  <2>. QED BY <2>4 DEF Ledger!Conserved
<1>4. Sums /\ Ledger!Conserved => Ledger!LedgerTypeOK
  BY DEF Ledger!Conserved, Ledger!LedgerTypeOK
<1>5. BridgeInv => Sums
  BY <1>1
<1>. HIDE DEF Sums
<1>. QED BY <1>2, <1>3, <1>4, <1>5, BridgeInvariant, BridgeAlwaysKeepsLedger, PTL
     DEF BridgeKeepsLedger, Ledger!Spec
=============================================================================
