-------------------------------- MODULE Wiring --------------------------------
(***************************************************************************)
(* The tasks that connect the deployments and hand them over: init-config,  *)
(* wire and transfer-ownership, which are one task with three configurators.*)
(* A run loads layerzero.config.ts, compares it with the chains, and sends  *)
(* the transactions that are missing; each may be refused, and the process  *)
(* may die between any two.  External: the toolbox's configurators, the     *)
(* endpoint's rules on who may change what, and the executor.  The toolbox  *)
(* promises no order among transactions, so the model takes any.            *)
(***************************************************************************)
EXTENDS Naturals, Sequences, FiniteSets

CONSTANTS
    None,
    Eids, SolanaEids,
    Pathways,       \* sequence of pairs of endpoint ids
    Deployer,       \* key that deployed everything
    NewOwner,       \* key that layerzero.config.ts names as owner and delegate
    MaxStores,      \* bound: OFT stores created per Solana endpoint
    MaxMishaps,     \* bound: runs that die, or go on while a config is missing
    MaxPackets      \* bound: messages under way at a time

Keys == {Deployer, NewOwner}

\* A contract: of an EVM chain (store 0), or an OFT store.
Points == [eid : Eids \ SolanaEids, store : {0}] \cup
          [eid : SolanaEids, store : 1 .. MaxStores]

\* A transaction a run wants to send, and a run.
Changes ==
    [kind : {"peer", "options", "uln", "delegate", "owner", "send", "receive"},
     at : Points, remote : Eids \cup {None}, to : Points \cup Keys \cup {None}]

Commands == {"init-config", "wire", "transfer-ownership"}

Tasks ==
    [command : Commands, key : Keys, failed : BOOLEAN,
     deployments : [SolanaEids -> 0 .. MaxStores], changes : SUBSET Changes]

ASSUME WiringAssumption ==
    /\ SolanaEids \subseteq Eids
    /\ \A i \in DOMAIN Pathways : Pathways[i] \in Eids \X Eids
    /\ MaxStores \in Nat /\ MaxMishaps \in Nat /\ MaxPackets \in Nat
    /\ None \notin Tasks

\* layerzero.config.ts: its pathways, each wired both ways.
LayerZeroPathways ==
    << <<"SEPOLIA", "BASESEP">>, <<"SEPOLIA", "SOLANA">>, <<"BASESEP", "SOLANA">> >>

\* Variant: one way only.
ConnectionsOneWay ==
    {[from |-> Pathways[i][1], to |-> Pathways[i][2]] : i \in DOMAIN Pathways}

Connections ==
    {[from |-> Pathways[i][1], to |-> Pathways[i][2]] : i \in DOMAIN Pathways} \cup
    {[from |-> Pathways[i][2], to |-> Pathways[i][1]] : i \in DOMAIN Pathways}

VARIABLES
    deployments,    \* store in the OFT.json of each Solana endpoint, 0 if none
    oapps,          \* owner, delegate, peers and options of each contract
    configs,        \* send and receive configs initialised for a store
    task,           \* the run in progress, None if there is none
    packets,        \* messages sent and not received, by their ends
    mishaps,        \* counter
    careless,       \* history: an owner was moved before a wire was complete
    unchecked       \* history: connections a run went on with, their configs missing

tooling == <<deployments, task, mishaps, careless, unchecked>>
vars == <<tooling, oapps, configs, packets>>

-----------------------------------------------------------------------------
(* What a run wants of the chains, and what is missing.                    *)

\* findSolanaEndpointIdInGraph: the first pathway with a Solana endpoint.
SolanaEndsOf(i) == {Pathways[i][1], Pathways[i][2]} \cap SolanaEids

FirstWithSolana ==
    {i \in DOMAIN Pathways :
        /\ SolanaEndsOf(i) # {}
        /\ \A j \in DOMAIN Pathways : SolanaEndsOf(j) # {} => i <= j}

SolanaEid ==
    CHOOSE eid \in SolanaEids : \E i \in FirstWithSolana : eid \in SolanaEndsOf(i)

FindsSolanaEndpointId ==
    \E i \in FirstWithSolana : Cardinality(SolanaEndsOf(i)) = 1

\* getOftStoreAddress, getSolanaDeployment: null addresses do not load.
IsDeployed == \A eid \in SolanaEids : deployments[eid] # 0

PointOf(eid) ==
    [eid |-> eid, store |-> IF eid \in SolanaEids THEN deployments[eid] ELSE 0]

Sides == {"send", "receive"}

\* getSolanaUlnConfigPDAs: of the store in the file of SolanaEid.
ConfigsOf(conn) ==
    {[at |-> [eid |-> conn.from, store |-> deployments[SolanaEid]],
      remote |-> conn.to, side |-> side] : side \in Sides}

FromSolana == {conn \in Connections : conn.from \in SolanaEids}

\* Variant: fails only if both are missing.
PreWiringChecksBoth(named) ==
    \A conn \in named : ConfigsOf(conn) \cap configs # {}

\* Of the connections from Solana, those whose config names a sendLibrary; the
\* others are passed over with a line of debug.
PreWiringChecks(named) ==
    \A conn \in named : ConfigsOf(conn) \subseteq configs

Change(kind, at, remote, to) ==
    [kind |-> kind, at |-> at, remote |-> remote, to |-> to]

\* initOFTAccounts
AccountChanges ==
    {Change(side, PointOf(conn.from), conn.to, None) :
        side \in Sides, conn \in {c \in Connections : c.from \in SolanaEids}}

\* configureOApp
OAppChanges ==
    {Change("peer", PointOf(conn.from), conn.to, PointOf(conn.to)) :
        conn \in Connections} \cup
    {Change(kind, PointOf(conn.from), conn.to, None) :
        kind \in {"options", "uln"}, conn \in Connections} \cup
    {Change("delegate", PointOf(eid), None, NewOwner) : eid \in Eids}

\* configureOwnable
OwnableChanges == {Change("owner", PointOf(eid), None, NewOwner) : eid \in Eids}

\* Variant: the default configurator moves the owner as well.
WantedWithOwner(command) ==
    CASE command = "init-config" -> AccountChanges
      [] command = "wire" -> OAppChanges \cup OwnableChanges
      [] command = "transfer-ownership" -> OwnableChanges

\* configurator ?? subtaskArgs.configurator
Wanted(command) ==
    CASE command = "init-config" -> AccountChanges
      [] command = "wire" -> OAppChanges
      [] command = "transfer-ownership" -> OwnableChanges

Config(change) ==
    [at |-> change.at, remote |-> change.remote, side |-> change.kind]

\* Variant: any peer will do.
IsDoneIfAny(change) ==
    LET oapp == oapps[change.at]
    IN  CASE change.kind = "peer" -> oapp.peers[change.remote] # None
          [] change.kind = "options" -> change.remote \in oapp.options
          [] change.kind = "uln" -> change.remote \in oapp.uln
          [] change.kind = "delegate" -> oapp.delegate = change.to
          [] change.kind = "owner" -> oapp.owner = change.to
          [] OTHER -> Config(change) \in configs

IsDone(change) ==
    LET oapp == oapps[change.at]
    IN  CASE change.kind = "peer" -> oapp.peers[change.remote] = change.to
          [] change.kind = "options" -> change.remote \in oapp.options
          [] change.kind = "uln" -> change.remote \in oapp.uln
          [] change.kind = "delegate" -> oapp.delegate = change.to
          [] change.kind = "owner" -> oapp.owner = change.to
          [] OTHER -> Config(change) \in configs

-----------------------------------------------------------------------------
NewOApp ==
    [owner |-> Deployer, delegate |-> Deployer, peers |-> [eid \in Eids |-> None],
     options |-> {}, uln |-> {}]

Init ==
    /\ deployments = [eid \in SolanaEids |-> 0]
    /\ oapps = [point \in Points |-> NewOApp]
    /\ configs = {} /\ packets = {} /\ mishaps = 0
    /\ task = None /\ careless = FALSE /\ unchecked = {}

\* createOFT or createOFTAdapter: OFT.json names the new store.
CreateStore(eid) ==
    /\ deployments[eid] < MaxStores
    /\ deployments' = [deployments EXCEPT ![eid] = @ + 1]
    /\ UNCHANGED <<task, mishaps, careless, unchecked, oapps, configs, packets>>

\* "failed" if a transaction was refused; "deployments" as they were loaded.
\* layerzero.config.ts is read by every run, and may have been edited since the
\* last: "named" are the connections from Solana with a sendLibrary in it.
Run(command, key, named) ==
    /\ task = None
    /\ FindsSolanaEndpointId /\ IsDeployed
    /\ command # "init-config" => PreWiringChecks(named)
    /\ LET missed == IF command # "wire" THEN {}
                     ELSE {conn \in FromSolana \ named : ~(ConfigsOf(conn) \subseteq configs)}
       IN  /\ unchecked' = unchecked \cup missed
           /\ \/ missed \subseteq unchecked /\ UNCHANGED mishaps
              \/ /\ ~(missed \subseteq unchecked)
                 /\ mishaps < MaxMishaps
                 /\ mishaps' = mishaps + 1
    /\ task' = [command |-> command, key |-> key, failed |-> FALSE,
                deployments |-> deployments,
                changes |-> {c \in Wanted(command) : ~IsDone(c)}]
    /\ careless' = (careless \/ /\ command = "transfer-ownership"
                                /\ \E c \in OAppChanges : ~IsDone(c))
    /\ UNCHANGED <<deployments, oapps, configs, packets>>

\* Who may do it, and on Solana what must be there.
Accepts(change, key) ==
    LET oapp == oapps[change.at]
    IN  CASE change.kind \in {"peer", "options", "delegate", "owner"} ->
                key = oapp.owner
          [] change.kind = "uln" ->
                /\ key = oapp.delegate
                /\ change.at.eid \in SolanaEids =>
                      \A side \in Sides : [at |-> change.at, side |-> side,
                          remote |-> change.remote] \in configs
          [] OTHER -> key = oapp.delegate

Apply(change) ==
    /\ oapps' = [oapps EXCEPT ![change.at] =
          CASE change.kind = "peer" -> [@ EXCEPT !.peers[change.remote] = change.to]
            [] change.kind = "options" -> [@ EXCEPT !.options = @ \cup {change.remote}]
            [] change.kind = "uln" -> [@ EXCEPT !.uln = @ \cup {change.remote}]
            [] change.kind = "delegate" -> [@ EXCEPT !.delegate = change.to]
            [] change.kind = "owner" -> [@ EXCEPT !.owner = change.to]
            [] OTHER -> @]
    /\ configs' = IF change.kind \in Sides THEN configs \cup {Config(change)}
                                           ELSE configs

\* signAndSend: a refused transaction ends the run on its chain.
SignAndSend(change) ==
    /\ task # None
    /\ change \in task.changes
    /\ IF Accepts(change, task.key)
       THEN /\ Apply(change)
            /\ task' = [task EXCEPT !.changes = @ \ {change}]
       ELSE /\ task' = [task EXCEPT !.failed = TRUE,
                  !.changes = {c \in @ : c.at.eid # change.at.eid}]
            /\ UNCHANGED <<oapps, configs>>
    /\ UNCHANGED <<deployments, mishaps, careless, unchecked, packets>>

Finish ==
    /\ task # None
    /\ task.changes = {}
    /\ task' = None
    /\ UNCHANGED <<deployments, mishaps, careless, unchecked, oapps, configs, packets>>

Crash ==
    /\ task # None
    /\ mishaps < MaxMishaps
    /\ task' = None
    /\ mishaps' = mishaps + 1
    /\ UNCHANGED <<deployments, careless, unchecked, oapps, configs, packets>>

\* A user of either side: to the peer the contract has.
SendMessage(from, eid) ==
    /\ Cardinality(packets) < MaxPackets
    /\ oapps[from].peers[eid] # None
    /\ packets' = packets \cup {[from |-> from, dst |-> oapps[from].peers[eid]]}
    /\ UNCHANGED <<tooling, oapps, configs>>

MayReceive(packet) == oapps[packet.dst].peers[packet.from.eid] = packet.from

\* The executor: the receiver must know the sender as its peer.
Deliver(packet) ==
    /\ packet \in packets
    /\ MayReceive(packet)
    /\ packets' = packets \ {packet}
    /\ UNCHANGED <<tooling, oapps, configs>>

Next ==
    \/ \E eid \in SolanaEids : CreateStore(eid)
    \/ \E command \in Commands, key \in Keys, named \in SUBSET FromSolana :
          Run(command, key, named)
    \/ task # None /\ \E change \in task.changes : SignAndSend(change)
    \/ Finish \/ Crash
    \/ \E from \in Points, eid \in Eids : SendMessage(from, eid)
    \/ \E packet \in packets : Deliver(packet)

Spec == Init /\ [][Next]_vars

-----------------------------------------------------------------------------
\* Everything layerzero.config.ts asks of the contracts holds.
Wired ==
    /\ IsDeployed
    /\ \A conn \in Connections :
          LET oapp == oapps[PointOf(conn.from)]
          IN  /\ oapp.peers[conn.to] = PointOf(conn.to)
              /\ conn.to \in oapp.options \cap oapp.uln
    /\ \A eid \in Eids : oapps[PointOf(eid)].delegate = NewOwner

\* A store has a peer only after both its configs exist for every connection of
\* the graph, however often init-config or wire died halfway (wire.ts:124): but
\* for those whose configs a run passed over although they were missing, since
\* layerzero.config.ts named no sendLibrary for them (wire.ts:131, 159).
InitBeforeWire ==
    \A point \in Points, conn \in FromSolana \ unchecked :
        /\ point.eid = conn.from
        /\ \E eid \in Eids : oapps[point].peers[eid] # None
        => \A side \in Sides :
              [at |-> point, remote |-> conn.to, side |-> side] \in configs

\* README.md, "Set Delegate ... must be done before transferring the OFT
\* ownership": nothing stops a transfer, but if none was run before a wire was
\* complete, no contract has its new owner and not its new delegate.
OwnerMovesLast ==
    ~careless => \A point \in Points :
        oapps[point].owner = NewOwner => oapps[point].delegate = NewOwner

\* A wire that ends without a refusal has wired everything, also what an
\* earlier run left undone and what an earlier store was wired as.
CompleteIsWired ==
    [][ /\ task # None /\ task' = None /\ mishaps' = mishaps
        /\ task.command = "wire" /\ ~task.failed
        /\ task.deployments = deployments
        => Wired ]_vars

\* Once everything is wired no packet is stuck: whatever was sent when only one
\* side was, by either, can be received, unless a new store replaced the one it
\* belongs to (layerzero.config.ts:83).
NothingStuckOnceWired ==
    Wired => \A packet \in packets :
        {packet.from, packet.dst} \subseteq {PointOf(eid) : eid \in Eids} =>
            MayReceive(packet)

\* The error of src/tasks/solana/utils.ts:64: a graph with several Solana
\* endpoints is refused, since one programId and one store serve them all.
OneSolanaEndpoint ==
    task # None =>
        Cardinality(UNION {SolanaEndsOf(i) : i \in DOMAIN Pathways}) = 1
=============================================================================
