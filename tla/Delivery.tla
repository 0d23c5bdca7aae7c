------------------------------- MODULE Delivery -------------------------------
(***************************************************************************)
(* How a verified packet is executed.  A worker (the executor, or whoever   *)
(* runs the retryPayload task) asks the program for the accounts of the     *)
(* transaction with lz_receive_types, and submits lz_receive with them in a *)
(* later transaction.  In between the mint's authority, the transfer fee of *)
(* the epoch, the peer, the pause or the packet itself may have changed; a  *)
(* transaction whose accounts no longer fit fails, and the worker starts    *)
(* over.                                                                    *)
(***************************************************************************)
EXTENDS OFTProgram, Sequences

CONSTANTS
    Workers,    \* who plans and submits lz_receive
    Executor    \* the one that never gives up

ASSUME DeliveryAssumption == Executor \in Workers

VARIABLES
    plans,      \* the accounts a worker has collected and not yet used
    receipts    \* history: the packets that lz_receive has credited, in order

deliveryVars == <<vars, plans, receipts>>

AmountOf(packet) == Sd2Ld(packet.amount_sd, Rate)

\* The account that send_compose writes has the hash of the compose message in
\* its address, hence the amount it reports.
ComposeAmount(packet) ==
    IF packet.composed THEN CreditedAmount(AmountOf(packet)) ELSE None

\* Variant: plans a compose account for the amount before the transfer fee.
LzReceiveTypesGross(worker, packet) ==
    /\ packet \in verified
    /\ \A plan \in plans : plan.worker = worker => plan.packet # packet
    /\ plans' = plans \cup
          {[worker |-> worker, packet |-> packet,
            mint_authority |-> mint_authority,
            compose_ld |-> IF packet.composed THEN AmountOf(packet) ELSE None]}
    /\ UNCHANGED <<vars, receipts>>

\* lz_receive_types.  The program id stands for "no mint authority".
LzReceiveTypes(worker, packet) ==
    /\ packet \in verified
    /\ \A plan \in plans : plan.worker = worker => plan.packet # packet
    /\ packet.composed => FitsU64(AmountOf(packet))
    /\ plans' = plans \cup
          {[worker |-> worker, packet |-> packet,
            mint_authority |-> mint_authority,
            compose_ld |-> ComposeAmount(packet)]}
    /\ UNCHANGED <<vars, receipts>>

\* lz_receive with the accounts of a plan.
Execute(plan) ==
    /\ plan.compose_ld = ComposeAmount(plan.packet)
    /\ LzReceive(plan.packet, plan.mint_authority)

\* The worker's transaction, which succeeds or changes nothing.
Submit(worker, packet) ==
    \E plan \in plans :
        /\ plan.worker = worker /\ plan.packet = packet
        /\ plans' = plans \ {plan}
        /\ \/ Execute(plan) /\ receipts' = Append(receipts, packet)
           \/ ~ENABLED Execute(plan) /\ UNCHANGED <<vars, receipts>>

DeliveryInit == Init /\ plans = {} /\ receipts = <<>>

DeliveryNext ==
    \/ /\ \/ Administration
          \/ \E eid \in Eids, amount_ld \in SendAmounts,
                min_amount_ld \in MinAmounts, composed \in Composed,
                options \in SUBSET OptionItems :
                   Send(eid, amount_ld, min_amount_ld, composed, options)
          \/ Environment
       /\ UNCHANGED <<plans, receipts>>
    \/ \E worker \in Workers, packet \in verified : LzReceiveTypes(worker, packet)
    \/ \E plan \in plans : Submit(plan.worker, plan.packet)

PossiblePackets ==
    [src_eid : Eids, sender : Addresses, nonce : 1 .. MaxVerified,
     amount_sd : MessageAmounts, composed : Composed]

\* The executor plans every verified packet and submits every plan, again and
\* again; nobody else has to do anything.
Fairness ==
    \A packet \in PossiblePackets :
        /\ WF_deliveryVars(LzReceiveTypes(Executor, packet))
        /\ WF_deliveryVars(Submit(Executor, packet))

DeliverySpec == DeliveryInit /\ [][DeliveryNext]_deliveryVars /\ Fairness

-----------------------------------------------------------------------------
SamePacket(a, b) == a.src_eid = b.src_eid /\ a.nonce = b.nonce

\* Two workers with plans for the same packet credit it once, composed or not:
\* no packet is credited twice, or still there to be credited again, and a
\* composer is called for what was credited, and once (the endpoint's `clear`,
\* as lz_receive.rs:81 uses it).
ReceivedOnce ==
    /\ \A i, j \in DOMAIN receipts : SamePacket(receipts[i], receipts[j]) => i = j
    /\ \A i \in DOMAIN receipts, packet \in verified :
          ~SamePacket(receipts[i], packet)
    /\ \A message \in composes : \E i \in DOMAIN receipts :
          SamePacket(receipts[i], message) /\ receipts[i].composed
    /\ \A a, b \in composes : SamePacket(a, b) => a = b

\* The program would accept the packet from a worker that plans it right now.
Deliverable(packet) ==
    packet \in verified /\ ENABLED LzReceive(packet, mint_authority)

\* A packet that the program would accept from some point on is delivered, even
\* if the plans made for it so far have gone stale.
DeliveredWhenPossible ==
    \A packet \in PossiblePackets : []<>~Deliverable(packet)

=============================================================================
