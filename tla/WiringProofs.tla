----------------------------- MODULE WiringProofs -----------------------------
(***************************************************************************)
(* Proofs about init-config, wire and transfer-ownership, for any graph of  *)
(* pathways, any number of stores, runs, crashes and packets.  A run keeps  *)
(* the changes it computed when it started, so the invariant says what is   *)
(* still true of them when they are made: the configs a peer needs exist,   *)
(* the delegate of an owner that moves has moved, and while no new store    *)
(* was created, what is not done is still on the list.                      *)
(***************************************************************************)
EXTENDS Wiring, TLAPS

OApps ==
    [owner : Keys, delegate : Keys, peers : [Eids -> Points \cup {None}],
     options : SUBSET Eids, uln : SUBSET Eids]

\* The types of the variables.
TypeOK ==
    /\ deployments \in [SolanaEids -> 0 .. MaxStores]
    /\ oapps \in [Points -> OApps]
    /\ task \in Tasks \cup {None}
    /\ packets \subseteq [from : Points, dst : Points]
    /\ mishaps \in Nat /\ careless \in BOOLEAN

Connected(from, to) == [from |-> from, to |-> to] \in Connections

\* What every change of a run is, also when a newer store exists by now.
Proper(change) ==
    /\ change.kind = "peer" =>
          /\ change.remote \in Eids /\ change.to \in Points
          /\ change.to.eid = change.remote
          /\ Connected(change.at.eid, change.remote)
    /\ change.kind \in {"options", "uln"} => change.remote \in Eids
    /\ change.kind \in {"delegate", "owner"} => change.to = NewOwner

\* Peers and packets go along pathways.
AlongPathways ==
    /\ \A point \in Points, eid \in Eids :
          LET peer == oapps[point].peers[eid]
          IN  peer # None => peer.eid = eid /\ Connected(point.eid, eid)
    /\ \A packet \in packets : Connected(packet.from.eid, packet.dst.eid)

\* Both configs of every connection of a Solana store, but for those that a wire
\* passed over.
Initialised(point) ==
    \A conn \in Connections \ unchecked, side \in Sides :
        conn.from = point.eid =>
            [at |-> point, remote |-> conn.to, side |-> side] \in configs

\* A run that is under way.
TaskSound ==
    task # None =>
        /\ \A eid \in SolanaEids : 0 < task.deployments[eid]
                                /\ task.deployments[eid] <= deployments[eid]
        /\ \A change \in task.changes :
              /\ Proper(change)
              /\ change.kind = "owner" /\ ~careless =>
                    oapps[change.at].delegate = NewOwner
        /\ task.command = "wire" /\ task.deployments = deployments =>
              /\ task.changes \subseteq OAppChanges
              /\ \A change \in OAppChanges :
                    task.failed \/ change \in task.changes \/ IsDone(change)

IInv == TypeOK /\ AlongPathways /\ TaskSound /\ OwnerMovesLast

\* Of a graph with one Solana endpoint.
PeersSound ==
    task # None =>
        \A change \in task.changes :
            change.kind = "peer" /\ change.at.eid \in SolanaEids =>
                Initialised(change.at)
-----------------------------------------------------------------------------
(* Points, connections and what a run wants.                               *)

\* The point of an endpoint is a contract or store that exists.
LEMMA PointFacts ==
  ASSUME TypeOK, IsDeployed, NEW eid \in Eids
  PROVE  PointOf(eid) \in Points /\ PointOf(eid).eid = eid
<1>1. CASE eid \in SolanaEids
  <2>1. deployments[eid] \in 1 .. MaxStores
    BY <1>1, WiringAssumption DEF TypeOK, IsDeployed
  <2>. QED BY <1>1, <2>1 DEF PointOf, Points
<1>2. CASE eid \notin SolanaEids
  BY <1>2 DEF PointOf, Points
<1>. QED BY <1>1, <1>2

\* Pathways are wired both ways, between endpoints.
LEMMA ConnectionFacts ==
  ASSUME NEW conn \in Connections
  PROVE  /\ conn.from \in Eids /\ conn.to \in Eids
         /\ Connected(conn.from, conn.to) /\ Connected(conn.to, conn.from)
<1>1. \A i \in DOMAIN Pathways : Pathways[i][1] \in Eids /\ Pathways[i][2] \in Eids
  BY WiringAssumption
<1>. QED BY <1>1 DEF Connections, Connected

\* What a run wants is well formed, and named after points of the moment.
LEMMA WantedFacts ==
  ASSUME TypeOK, IsDeployed, NEW command \in Commands,
         NEW change \in Wanted(command)
  PROVE  /\ change \in Changes /\ Proper(change)
         /\ change.kind = "peer" =>
               /\ command = "wire"
               /\ \E conn \in Connections : change.at = PointOf(conn.from)
         /\ change.kind = "owner" =>
               /\ command = "transfer-ownership"
               /\ Change("delegate", change.at, None, NewOwner) \in OAppChanges
<1>1. CASE command = "init-config"
  <2>1. PICK side \in Sides, conn \in Connections :
          change = Change(side, PointOf(conn.from), conn.to, None)
    BY <1>1 DEF Wanted, AccountChanges
  <2>2. PointOf(conn.from) \in Points /\ conn.to \in Eids
    BY <2>1, PointFacts, ConnectionFacts
  <2>. QED BY <2>1, <2>2 DEF Change, Proper, Changes, Sides
<1>2. CASE command = "wire"
  <2>1. change \in OAppChanges
    BY <1>2 DEF Wanted
  <2>2. CASE \E conn \in Connections :
               change = Change("peer", PointOf(conn.from), conn.to, PointOf(conn.to))
    <3>1. PICK conn \in Connections :
            change = Change("peer", PointOf(conn.from), conn.to, PointOf(conn.to))
      BY <2>2
    <3>2. /\ PointOf(conn.from) \in Points /\ PointOf(conn.to) \in Points
          /\ PointOf(conn.from).eid = conn.from /\ PointOf(conn.to).eid = conn.to
          /\ conn.to \in Eids /\ Connected(conn.from, conn.to)
      BY PointFacts, ConnectionFacts
    <3>. QED BY <1>2, <3>1, <3>2 DEF Change, Proper, Changes
  <2>3. CASE \E kind \in {"options", "uln"}, conn \in Connections :
               change = Change(kind, PointOf(conn.from), conn.to, None)
    <3>1. PICK kind \in {"options", "uln"}, conn \in Connections :
            change = Change(kind, PointOf(conn.from), conn.to, None)
      BY <2>3
    <3>2. PointOf(conn.from) \in Points /\ conn.to \in Eids
      BY PointFacts, ConnectionFacts
    <3>. QED BY <3>1, <3>2 DEF Change, Proper, Changes
  <2>4. CASE \E eid \in Eids :
               change = Change("delegate", PointOf(eid), None, NewOwner)
    BY <2>4, PointFacts DEF Change, Proper, Changes, Keys
  <2>. QED BY <2>1, <2>2, <2>3, <2>4 DEF OAppChanges
<1>3. CASE command = "transfer-ownership"
  <2>1. PICK eid \in Eids : change = Change("owner", PointOf(eid), None, NewOwner)
    BY <1>3 DEF Wanted, OwnableChanges
  <2>2. PointOf(eid) \in Points
    BY PointFacts
  <2>. QED BY <1>3, <2>1, <2>2 DEF Change, Proper, Changes, Keys, OAppChanges
<1>. QED BY <1>1, <1>2, <1>3 DEF Commands

-----------------------------------------------------------------------------
(* What one change does to the contracts.                                  *)

\* A change touches one field of one contract, or adds one config.
LEMMA ApplyFacts ==
  ASSUME TypeOK, NEW change \in Changes, Proper(change), Apply(change)
  PROVE  /\ oapps' \in [Points -> OApps]
         /\ configs \subseteq configs'
         /\ change.kind \in Sides => Config(change) \in configs'
         /\ \A point \in Points :
               /\ oapps'[point].owner =
                     IF point = change.at /\ change.kind = "owner"
                     THEN change.to ELSE oapps[point].owner
               /\ oapps'[point].delegate =
                     IF point = change.at /\ change.kind = "delegate"
                     THEN change.to ELSE oapps[point].delegate
               /\ \A eid \in Eids : oapps'[point].peers[eid] =
                     IF point = change.at /\ change.kind = "peer" /\ eid = change.remote
                     THEN change.to ELSE oapps[point].peers[eid]
               /\ oapps'[point].options =
                     IF point = change.at /\ change.kind = "options"
                     THEN oapps[point].options \cup {change.remote}
                     ELSE oapps[point].options
               /\ oapps'[point].uln =
                     IF point = change.at /\ change.kind = "uln"
                     THEN oapps[point].uln \cup {change.remote}
                     ELSE oapps[point].uln
<1>. DEFINE old == oapps[change.at]
            new == CASE change.kind = "peer" ->
                          [old EXCEPT !.peers[change.remote] = change.to]
                     [] change.kind = "options" ->
                          [old EXCEPT !.options = @ \cup {change.remote}]
                     [] change.kind = "uln" ->
                          [old EXCEPT !.uln = @ \cup {change.remote}]
                     [] change.kind = "delegate" -> [old EXCEPT !.delegate = change.to]
                     [] change.kind = "owner" -> [old EXCEPT !.owner = change.to]
                     [] OTHER -> old
<1>1. /\ change.at \in Points /\ old \in OApps
      /\ change.kind \in {"peer", "options", "uln", "delegate", "owner",
                          "send", "receive"}
  BY DEF TypeOK, Changes
<1>2. oapps' = [oapps EXCEPT ![change.at] = new]
  BY DEF Apply
<1>3. NewOwner \in Keys
  BY DEF Keys
<1>4. /\ new \in OApps
      /\ new.owner = IF change.kind = "owner" THEN change.to ELSE old.owner
      /\ new.delegate = IF change.kind = "delegate" THEN change.to ELSE old.delegate
      /\ \A eid \in Eids : new.peers[eid] =
            IF change.kind = "peer" /\ eid = change.remote THEN change.to
                                                          ELSE old.peers[eid]
      /\ new.options = IF change.kind = "options" THEN old.options \cup {change.remote}
                                                  ELSE old.options
      /\ new.uln = IF change.kind = "uln" THEN old.uln \cup {change.remote} ELSE old.uln
  <2>1. CASE change.kind = "peer"
    <3>1. new = [old EXCEPT !.peers[change.remote] = change.to]
      BY <2>1
    <3>2. change.remote \in Eids /\ change.to \in Points
      BY <2>1 DEF Proper
    <3>. HIDE DEF new, old
    <3>. QED BY <1>1, <2>1, <3>1, <3>2 DEF OApps
  <2>2. CASE change.kind = "options"
    <3>1. new = [old EXCEPT !.options = @ \cup {change.remote}]
      BY <2>2
    <3>2. change.remote \in Eids
      BY <2>2 DEF Proper
    <3>. HIDE DEF new, old
    <3>. QED BY <1>1, <2>2, <3>1, <3>2 DEF OApps
  <2>3. CASE change.kind = "uln"
    <3>1. new = [old EXCEPT !.uln = @ \cup {change.remote}]
      BY <2>3
    <3>2. change.remote \in Eids
      BY <2>3 DEF Proper
    <3>. HIDE DEF new, old
    <3>. QED BY <1>1, <2>3, <3>1, <3>2 DEF OApps
  <2>4. CASE change.kind \in {"delegate", "owner"}
    <3>1. change.to \in Keys
      BY <1>3, <2>4 DEF Proper
    <3>2. new = IF change.kind = "delegate" THEN [old EXCEPT !.delegate = change.to]
                                           ELSE [old EXCEPT !.owner = change.to]
      BY <2>4
    <3>. HIDE DEF new, old
    <3>. QED BY <1>1, <2>4, <3>1, <3>2 DEF OApps
  <2>5. CASE change.kind \in {"send", "receive"}
    <3>1. new = old
      BY <2>5
    <3>. HIDE DEF new, old
    <3>. QED BY <1>1, <2>5, <3>1
  <2>. QED BY <1>1, <2>1, <2>2, <2>3, <2>4, <2>5
<1>5. configs' = IF change.kind \in Sides THEN configs \cup {Config(change)}
                                          ELSE configs
  BY DEF Apply
<1>6. oapps \in [Points -> OApps]
  BY DEF TypeOK
<1>7. \A point \in Points :
        oapps'[point] = IF point = change.at THEN new ELSE oapps[point]
  <2>. HIDE DEF new
  <2>. QED BY <1>2, <1>6
<1>8. oapps' \in [Points -> OApps]
  <2>. HIDE DEF new
  <2>. QED BY <1>2, <1>4, <1>6
<1>. HIDE DEF new
<1>. QED BY <1>1, <1>4, <1>5, <1>7, <1>8

\* What is wanted depends on the deployments only.
LEMMA WantedStays ==
  ASSUME UNCHANGED deployments
  PROVE  /\ OAppChanges' = OAppChanges
         /\ IsDeployed' = IsDeployed
  BY DEF OAppChanges, IsDeployed, PointOf, Change

\* A change of wire names points, and one peer for each remote.
LEMMA OAppChangeFacts ==
  ASSUME TypeOK, IsDeployed, NEW change \in OAppChanges
  PROVE  /\ change \in Changes /\ Proper(change)
         /\ change.kind \in {"peer", "options", "uln", "delegate"}
         /\ change.kind = "peer" => change.to = PointOf(change.remote)
<1>1. change \in Wanted("wire") /\ "wire" \in Commands
  BY DEF Wanted, Commands
<1>2. change \in Changes /\ Proper(change)
  BY <1>1, WantedFacts
<1>3. change.kind \in {"peer", "options", "uln", "delegate"}
  BY DEF OAppChanges, Change
<1>4. change.kind = "peer" => change.to = PointOf(change.remote)
  BY DEF OAppChanges, Change
<1>. QED BY <1>2, <1>3, <1>4

\* A change of wire undoes none of the others, and is done when it is made.
LEMMA DoneStays ==
  ASSUME TypeOK, IsDeployed, NEW change \in OAppChanges, Apply(change),
         NEW other \in OAppChanges, IsDone(other) \/ other = change
  PROVE  IsDone(other)'
<1>1. /\ change \in Changes /\ Proper(change) /\ other \in Changes /\ Proper(other)
      /\ other.kind \in {"peer", "options", "uln", "delegate"}
      /\ change.kind = "peer" => change.to = PointOf(change.remote)
      /\ other.kind = "peer" => other.to = PointOf(other.remote)
  BY OAppChangeFacts
<1>2. other.at \in Points
  BY <1>1 DEF Changes
<1>3. /\ other.kind = "peer" => other.remote \in Eids
      /\ other.kind \in {"options", "uln"} => other.remote \in Eids
      /\ other.kind = "delegate" => other.to = NewOwner
      /\ change.kind = "delegate" => change.to = NewOwner
  BY <1>1 DEF Proper
<1>4. CASE other.kind = "peer"
  <2>1. oapps'[other.at].peers[other.remote] = other.to
    BY <1>1, <1>2, <1>3, <1>4, ApplyFacts DEF IsDone
  <2>. QED BY <1>4, <2>1 DEF IsDone
<1>5. CASE other.kind = "options"
  <2>1. other.remote \in oapps'[other.at].options
    BY <1>1, <1>2, <1>3, <1>5, ApplyFacts DEF IsDone
  <2>. QED BY <1>5, <2>1 DEF IsDone
<1>6. CASE other.kind = "uln"
  <2>1. other.remote \in oapps'[other.at].uln
    BY <1>1, <1>2, <1>3, <1>6, ApplyFacts DEF IsDone
  <2>. QED BY <1>6, <2>1 DEF IsDone
<1>7. CASE other.kind = "delegate"
  <2>1. oapps'[other.at].delegate = other.to
    BY <1>1, <1>2, <1>3, <1>7, ApplyFacts DEF IsDone
  <2>. QED BY <1>7, <2>1 DEF IsDone
<1>. QED BY <1>1, <1>4, <1>5, <1>6, <1>7

-----------------------------------------------------------------------------
(* The invariant.                                                          *)

\* Nothing is deployed, connected or under way.
LEMMA InitIInv == Init => IInv
<1>. SUFFICES ASSUME Init PROVE IInv
  OBVIOUS
<1>1. NewOApp \in OApps
  BY DEF NewOApp, OApps, Keys
<1>2. TypeOK
  <2>1. deployments \in [SolanaEids -> 0 .. MaxStores] /\ mishaps \in Nat
    BY WiringAssumption DEF Init
  <2>2. oapps \in [Points -> OApps] /\ task \in Tasks \cup {None}
    BY <1>1 DEF Init
  <2>3. /\ packets \subseteq [from : Points, dst : Points]
        /\ careless \in BOOLEAN
    BY DEF Init
  <2>. QED BY <2>1, <2>2, <2>3 DEF TypeOK
<1>3. \A point \in Points : oapps[point] = NewOApp
  BY DEF Init
<1>4. AlongPathways
  BY <1>3 DEF Init, AlongPathways, NewOApp
<1>5. TaskSound /\ OwnerMovesLast
  BY <1>3 DEF Init, TaskSound, OwnerMovesLast, NewOApp
<1>. QED BY <1>2, <1>4, <1>5 DEF IInv

\* A run starts with what is missing at that moment.
LEMMA RunKeepsIInv ==
  ASSUME IInv, NEW command \in Commands, NEW key \in Keys,
         NEW named \in SUBSET FromSolana, Run(command, key, named)
  PROVE  IInv'
<1>. USE DEF IInv
<1>. DEFINE changes == {c \in Wanted(command) : ~IsDone(c)}
<1>1. /\ IsDeployed /\ UNCHANGED <<deployments, oapps, configs, packets>>
      /\ mishaps' \in Nat
  BY DEF Run, TypeOK
<1>2. \A change \in changes :
        /\ change \in Changes /\ Proper(change)
        /\ change.kind = "owner" =>
              /\ command = "transfer-ownership"
              /\ Change("delegate", change.at, None, NewOwner) \in OAppChanges
  BY <1>1, WantedFacts
<1>3. task' = [command |-> command, key |-> key, failed |-> FALSE,
               deployments |-> deployments, changes |-> changes]
  BY DEF Run
<1>4. careless' \in BOOLEAN /\ (careless => careless')
  BY DEF Run, TypeOK
<1>5. TypeOK'
  <2>1. task' \in Tasks
    BY <1>2, <1>3 DEF Tasks, TypeOK
  <2>. QED BY <1>1, <1>4, <2>1 DEF TypeOK
<1>6. AlongPathways'
  BY <1>1 DEF AlongPathways
<1>7. OwnerMovesLast'
  BY <1>1, <1>4 DEF OwnerMovesLast, TypeOK
<1>8. ASSUME NEW eid \in SolanaEids
      PROVE  0 < task'.deployments[eid] /\ task'.deployments[eid] <= deployments'[eid]
  BY <1>1, <1>3 DEF TypeOK, IsDeployed
<1>9. ASSUME NEW change \in task'.changes, change.kind = "owner", ~careless'
      PROVE  oapps'[change.at].delegate = NewOwner
  <2>1. /\ command = "transfer-ownership"
        /\ Change("delegate", change.at, None, NewOwner) \in OAppChanges
    BY <1>2, <1>3, <1>9
  <2>2. IsDone(Change("delegate", change.at, None, NewOwner))
    BY <1>9, <2>1 DEF Run
  <2>. QED BY <1>1, <2>2 DEF IsDone, Change
<1>10. ASSUME command = "wire"
       PROVE  /\ changes \subseteq OAppChanges'
              /\ \A change \in OAppChanges' : change \in changes \/ IsDone(change)'
  <2>1. changes = {c \in OAppChanges : ~IsDone(c)}
    BY <1>10 DEF Wanted
  <2>2. OAppChanges' = OAppChanges
    BY <1>1, WantedStays
  <2>3. \A change : IsDone(change)' <=> IsDone(change)
    BY <1>1 DEF IsDone
  <2>. QED BY <2>1, <2>2, <2>3
<1>11. TaskSound'
  <2>1. task'.changes = changes /\ task'.command = command
    BY <1>3
  <2>. HIDE DEF changes
  <2>. QED BY <1>2, <1>8, <1>9, <1>10, <2>1 DEF TaskSound
<1>. QED BY <1>5, <1>6, <1>7, <1>11

\* A transaction that lands does one change; a refused one drops the rest of its
\* chain's and marks the run.
LEMMA SignKeepsIInv ==
  ASSUME IInv, NEW change \in task.changes, SignAndSend(change)
  PROVE  IInv'
<1>. USE DEF IInv
<1>1. /\ task # None /\ task \in Tasks
      /\ UNCHANGED <<deployments, mishaps, careless, packets>>
  BY DEF SignAndSend, TypeOK
<1>2. /\ change \in Changes /\ Proper(change)
      /\ \A eid \in SolanaEids : 0 < task.deployments[eid]
                              /\ task.deployments[eid] <= deployments[eid]
  BY <1>1 DEF TaskSound, Tasks
<1>3. IsDeployed
  BY <1>1, <1>2 DEF IsDeployed, TypeOK, Tasks
<1>4. OAppChanges' = OAppChanges
  BY <1>1, WantedStays
<1>5. CASE Accepts(change, task.key)
  <2>1. Apply(change) /\ task' = [task EXCEPT !.changes = @ \ {change}]
    BY <1>5 DEF SignAndSend
  <2>2. /\ task' \in Tasks /\ task'.changes = task.changes \ {change}
        /\ task'.deployments = task.deployments /\ task'.command = task.command
        /\ task'.failed = task.failed
    BY <1>1, <2>1 DEF Tasks
  <2>3. TypeOK'
    BY <1>1, <1>2, <2>1, <2>2, ApplyFacts DEF TypeOK
  <2>4. AlongPathways'
    <3>1. ASSUME NEW point \in Points, NEW eid \in Eids, oapps'[point].peers[eid] # None
          PROVE  oapps'[point].peers[eid].eid = eid /\ Connected(point.eid, eid)
      <4>1. oapps'[point].peers[eid] =
              IF point = change.at /\ change.kind = "peer" /\ eid = change.remote
              THEN change.to ELSE oapps[point].peers[eid]
        BY <1>2, <2>1, ApplyFacts
      <4>2. change.kind = "peer" => /\ change.to.eid = change.remote
                                    /\ Connected(change.at.eid, change.remote)
        BY <1>2 DEF Proper
      <4>. QED BY <3>1, <4>1, <4>2 DEF AlongPathways
    <3>. QED BY <1>1, <3>1 DEF AlongPathways
  <2>5. ASSUME ~careless
        PROVE  /\ \A point \in Points : oapps[point].delegate = NewOwner =>
                                            oapps'[point].delegate = NewOwner
               /\ \A point \in Points : oapps'[point].owner = NewOwner =>
                                            oapps'[point].delegate = NewOwner
    <3>1. change.kind = "owner" => oapps[change.at].delegate = NewOwner
      BY <1>1, <2>5 DEF TaskSound
    <3>2. \A point \in Points : oapps[point].owner = NewOwner =>
                                  oapps[point].delegate = NewOwner
      BY <2>5 DEF OwnerMovesLast
    <3>3. \A point \in Points :
            /\ oapps'[point].owner =
                  IF point = change.at /\ change.kind = "owner"
                  THEN change.to ELSE oapps[point].owner
            /\ oapps'[point].delegate =
                  IF point = change.at /\ change.kind = "delegate"
                  THEN change.to ELSE oapps[point].delegate
      BY <1>2, <2>1, ApplyFacts
    <3>4. change.kind = "delegate" => change.to = NewOwner
      BY <1>2 DEF Proper
    <3>. QED BY <3>1, <3>2, <3>3, <3>4
  <2>6. OwnerMovesLast'
    BY <1>1, <2>5 DEF OwnerMovesLast
  <2>7. ASSUME NEW c \in task'.changes
        PROVE  /\ Proper(c)
               /\ c.kind = "owner" /\ ~careless' => oapps'[c.at].delegate = NewOwner
    <3>1. c \in task.changes /\ c.at \in Points
      BY <1>1, <2>2 DEF Tasks, Changes
    <3>. QED BY <1>1, <2>5, <3>1 DEF TaskSound
  <2>8. ASSUME task'.command = "wire", task'.deployments = deployments'
        PROVE  /\ task'.changes \subseteq OAppChanges'
               /\ \A c \in OAppChanges' :
                     task'.failed \/ c \in task'.changes \/ IsDone(c)'
    <3>1. /\ task.changes \subseteq OAppChanges
          /\ \A c \in OAppChanges : task.failed \/ c \in task.changes \/ IsDone(c)
      BY <1>1, <2>2, <2>8 DEF TaskSound
    <3>2. \A c \in OAppChanges : IsDone(c) \/ c = change => IsDone(c)'
      BY <1>3, <2>1, <3>1, DoneStays
    <3>. QED BY <1>4, <2>2, <3>1, <3>2
  <2>9. TaskSound'
    BY <1>1, <1>2, <2>2, <2>7, <2>8 DEF TaskSound
  <2>. QED BY <2>3, <2>4, <2>6, <2>9
<1>6. CASE ~Accepts(change, task.key)
  <2>1. /\ UNCHANGED <<oapps, configs>>
        /\ task' = [task EXCEPT !.failed = TRUE,
                       !.changes = {c \in @ : c.at.eid # change.at.eid}]
    BY <1>6 DEF SignAndSend
  <2>2. /\ task' \in Tasks /\ task'.changes \subseteq task.changes
        /\ task'.deployments = task.deployments /\ task'.command = task.command
        /\ task'.failed
    BY <1>1, <2>1 DEF Tasks
  <2>3. TypeOK'
    BY <1>1, <2>1, <2>2 DEF TypeOK
  <2>4. AlongPathways' /\ OwnerMovesLast'
    BY <1>1, <2>1 DEF AlongPathways, OwnerMovesLast
  <2>5. \A c \in task'.changes :
          /\ Proper(c)
          /\ c.kind = "owner" /\ ~careless' => oapps'[c.at].delegate = NewOwner
    BY <1>1, <2>1, <2>2 DEF TaskSound
  <2>6. task'.command = "wire" /\ task'.deployments = deployments' =>
          task'.changes \subseteq OAppChanges'
    BY <1>1, <1>4, <2>2 DEF TaskSound
  <2>7. TaskSound'
    BY <1>1, <1>2, <2>2, <2>5, <2>6 DEF TaskSound
  <2>. QED BY <2>3, <2>4, <2>7
<1>. QED BY <1>5, <1>6

\* A new store replaces an older one; a run that was started before keeps the
\* older in mind.
LEMMA CreateKeepsIInv ==
  ASSUME IInv, NEW eid \in SolanaEids, CreateStore(eid)
  PROVE  IInv'
<1>. USE DEF IInv
<1>1. /\ UNCHANGED <<task, mishaps, careless, oapps, configs, packets>>
      /\ deployments' = [deployments EXCEPT ![eid] = @ + 1]
      /\ deployments[eid] < MaxStores
  BY DEF CreateStore
<1>2. /\ deployments' \in [SolanaEids -> 0 .. MaxStores]
      /\ \A e \in SolanaEids : deployments[e] <= deployments'[e]
      /\ deployments'[eid] = deployments[eid] + 1
  BY <1>1, WiringAssumption DEF TypeOK
<1>3. TypeOK' /\ AlongPathways' /\ OwnerMovesLast'
  BY <1>1, <1>2 DEF TypeOK, AlongPathways, OwnerMovesLast
<1>4. ASSUME task # None
      PROVE  /\ \A e \in SolanaEids : task.deployments[e] <= deployments'[e]
             /\ task.deployments # deployments'
  <2>1. /\ task.deployments \in [SolanaEids -> 0 .. MaxStores]
        /\ \A e \in SolanaEids : task.deployments[e] <= deployments[e]
    BY <1>4 DEF TypeOK, Tasks, TaskSound
  <2>2. \A e \in SolanaEids : deployments[e] \in Nat /\ deployments'[e] \in Nat
                               /\ task.deployments[e] \in Nat
    BY <1>2, <2>1, WiringAssumption DEF TypeOK
  <2>. QED BY <1>2, <2>1, <2>2
<1>5. TaskSound'
  BY <1>1, <1>4 DEF TaskSound
<1>. QED BY <1>3, <1>5

\* Everything else leaves contracts and deployments alone, or ends the run.
LEMMA OthersKeepIInv ==
  ASSUME IInv, UNCHANGED <<deployments, careless, oapps, configs>>,
         task' = task \/ task' = None, mishaps' \in Nat,
         packets' \subseteq [from : Points, dst : Points],
         \A packet \in packets' \ packets :
            Connected(packet.from.eid, packet.dst.eid)
  PROVE  IInv'
<1>. USE DEF IInv
<1>1. TypeOK'
  BY DEF TypeOK
<1>2. AlongPathways' /\ OwnerMovesLast'
  BY DEF AlongPathways, OwnerMovesLast
<1>3. OAppChanges' = OAppChanges
  BY WantedStays
<1>4. \A change : IsDone(change)' <=> IsDone(change)
  BY DEF IsDone
<1>5. TaskSound'
  BY <1>3, <1>4 DEF TaskSound
<1>. QED BY <1>1, <1>2, <1>5

\* A message goes to the peer the sender has.
LEMMA SendKeepsIInv ==
  ASSUME IInv, NEW from \in Points, NEW eid \in Eids, SendMessage(from, eid)
  PROVE  IInv'
<1>. DEFINE peer == oapps[from].peers[eid]
<1>1. oapps[from] \in OApps /\ mishaps \in Nat
  BY DEF IInv, TypeOK
<1>2. peer \in Points /\ peer.eid = eid /\ Connected(from.eid, eid)
  BY <1>1 DEF IInv, AlongPathways, SendMessage, OApps
<1>3. /\ packets' = packets \cup {[from |-> from, dst |-> peer]}
      /\ UNCHANGED <<tooling, oapps, configs>>
  BY DEF SendMessage
<1>4. /\ UNCHANGED <<deployments, careless, oapps, configs>> /\ task' = task
      /\ mishaps' \in Nat
  BY <1>1, <1>3 DEF tooling
<1>5. packets' \subseteq [from : Points, dst : Points]
  <2>. HIDE DEF peer
  <2>. QED BY <1>2, <1>3, <1>4 DEF IInv, TypeOK
<1>6. \A packet \in packets' \ packets : Connected(packet.from.eid, packet.dst.eid)
  <2>. HIDE DEF peer
  <2>. QED BY <1>2, <1>3
<1>. QED BY <1>4, <1>5, <1>6, OthersKeepIInv

\* Every step keeps the invariant.
LEMMA NextIInv == IInv /\ [Next]_vars => IInv'
<1>. SUFFICES ASSUME IInv, [Next]_vars PROVE IInv'
  OBVIOUS
<1>. USE DEF Commands
<1>1. /\ mishaps \in Nat
      /\ packets \subseteq [from : Points, dst : Points]
  BY DEF IInv, TypeOK
<1>2. CASE Finish
  BY <1>1, <1>2, OthersKeepIInv DEF Finish
<1>3. CASE Crash
  BY <1>1, <1>3, OthersKeepIInv DEF Crash
<1>4. ASSUME NEW packet \in packets, Deliver(packet)
      PROVE  IInv'
  BY <1>1, <1>4, OthersKeepIInv DEF Deliver, tooling
<1>5. CASE UNCHANGED vars
  BY <1>1, <1>5, OthersKeepIInv DEF vars, tooling
<1>. QED BY <1>2, <1>3, <1>4, <1>5, CreateKeepsIInv, RunKeepsIInv, SignKeepsIInv,
            SendKeepsIInv DEF Next

\* The inductive invariant holds in every reachable state.
LEMMA InductiveInvariant == Spec => []IInv
  BY InitIInv, NextIInv, PTL DEF Spec

\* README.md, "Set Delegate": unless somebody transferred the ownership before a
\* wire was complete, no contract has its new owner and not its new delegate, for
\* any graph and however often runs are repeated, refused or killed.
THEOREM OwnerAlwaysMovesLast == Spec => []OwnerMovesLast
<1>1. IInv => OwnerMovesLast
  BY DEF IInv
<1>. QED BY <1>1, InductiveInvariant, PTL

\* Once everything is wired no packet is stuck, whichever side was wired when it
\* was sent: a packet travels along a pathway, and pathways are wired both ways.
THEOREM NothingIsStuckOnceWired == Spec => []NothingStuckOnceWired
<1>1. ASSUME IInv, Wired, NEW packet \in packets,
             {packet.from, packet.dst} \subseteq {PointOf(eid) : eid \in Eids}
      PROVE  MayReceive(packet)
  <2>1. PICK e \in Eids, d \in Eids : packet.from = PointOf(e) /\ packet.dst = PointOf(d)
    BY <1>1
  <2>2. PointOf(e).eid = e /\ PointOf(d).eid = d
    BY <1>1, PointFacts DEF IInv, Wired
  <2>3. Connected(e, d)
    BY <1>1, <2>1, <2>2 DEF IInv, AlongPathways
  <2>4. Connected(d, e)
    BY <2>3, ConnectionFacts DEF Connected
  <2>5. oapps[PointOf(d)].peers[e] = PointOf(e)
    BY <1>1, <2>4 DEF Wired, Connected
  <2>. QED BY <2>1, <2>2, <2>5 DEF MayReceive
<1>2. IInv => NothingStuckOnceWired
  BY <1>1 DEF NothingStuckOnceWired
<1>. QED BY <1>2, InductiveInvariant, PTL

\* When every change wire wants is done, everything is wired.
LEMMA AllDoneIsWired ==
  ASSUME IsDeployed, \A change \in OAppChanges : IsDone(change)
  PROVE  Wired
<1>1. ASSUME NEW conn \in Connections
      PROVE  /\ oapps[PointOf(conn.from)].peers[conn.to] = PointOf(conn.to)
             /\ conn.to \in oapps[PointOf(conn.from)].options
             /\ conn.to \in oapps[PointOf(conn.from)].uln
  <2>1. /\ Change("peer", PointOf(conn.from), conn.to, PointOf(conn.to)) \in OAppChanges
        /\ Change("options", PointOf(conn.from), conn.to, None) \in OAppChanges
        /\ Change("uln", PointOf(conn.from), conn.to, None) \in OAppChanges
    BY DEF OAppChanges
  <2>2. /\ IsDone(Change("peer", PointOf(conn.from), conn.to, PointOf(conn.to)))
        /\ IsDone(Change("options", PointOf(conn.from), conn.to, None))
        /\ IsDone(Change("uln", PointOf(conn.from), conn.to, None))
    BY <2>1
  <2>. QED BY <2>2 DEF IsDone, Change
<1>2. ASSUME NEW eid \in Eids
      PROVE  oapps[PointOf(eid)].delegate = NewOwner
  <2>1. Change("delegate", PointOf(eid), None, NewOwner) \in OAppChanges
    BY DEF OAppChanges
  <2>2. IsDone(Change("delegate", PointOf(eid), None, NewOwner))
    BY <2>1
  <2>. QED BY <2>2 DEF IsDone, Change
<1>. QED BY <1>1, <1>2 DEF Wired

\* A wire that ends without a refusal has wired everything, whatever earlier runs
\* left undone or were killed in.
THEOREM CompleteWireIsComplete == Spec => CompleteIsWired
<1>. DEFINE Ends == /\ task # None /\ task' = None /\ mishaps' = mishaps
                    /\ task.command = "wire" /\ ~task.failed
                    /\ task.deployments = deployments
<1>1. ASSUME IInv, Next, Ends
      PROVE  Wired
  <2>1. task \in Tasks
    BY <1>1 DEF IInv, TypeOK
  <2>2. Finish
    <3>1. ASSUME NEW change \in task.changes, SignAndSend(change)
          PROVE  FALSE
      <4>1. task' \in Tasks
        BY <2>1, <3>1 DEF SignAndSend, Tasks
      <4>. QED BY <1>1, <4>1, WiringAssumption
    <3>2. ~Crash
      BY <1>1 DEF Crash, IInv, TypeOK
    <3>. QED BY <1>1, <3>1, <3>2
         DEF Next, CreateStore, Run, SendMessage, Deliver, tooling
  <2>3. \A change \in OAppChanges : IsDone(change)
    BY <1>1, <2>2 DEF Finish, IInv, TaskSound
  <2>4. IsDeployed
    BY <1>1 DEF IsDeployed, IInv, TaskSound
  <2>. QED BY <2>3, <2>4, AllDoneIsWired
<1>2. IInv /\ [Next]_vars => [Ends => Wired]_vars
  BY <1>1
<1>. QED BY <1>2, InductiveInvariant, PTL DEF Spec, CompleteIsWired

-----------------------------------------------------------------------------
(* Of a graph with one Solana endpoint, as layerzero.config.ts has it.  With *)
(* several, wire looks for the configs of each under the store of the first. *)

OneSolana ==
    \E solana \in SolanaEids :
        \A i \in DOMAIN Pathways : SolanaEndsOf(i) \subseteq {solana}

\* The check before wire covers the stores that are about to get peers, but for
\* the connections it passes over.
LEMMA ChecksCoverStores ==
  ASSUME OneSolana, IInv, NEW key, NEW named \in SUBSET FromSolana,
         Run("wire", key, named), NEW eid \in SolanaEids,
         NEW conn \in Connections, conn.from = eid
  PROVE  Initialised(PointOf(eid))'
<1>1. PICK solana \in SolanaEids :
        \A i \in DOMAIN Pathways : SolanaEndsOf(i) \subseteq {solana}
  BY DEF OneSolana
<1>2. \A c \in Connections : c.from \in SolanaEids => c.from = solana
  BY <1>1 DEF Connections, SolanaEndsOf
<1>3. SolanaEid = solana
  <2>1. PICK i \in FirstWithSolana : SolanaEndsOf(i) # {}
    BY DEF Run, FindsSolanaEndpointId, FirstWithSolana
  <2>2. solana \in SolanaEndsOf(i)
    BY <1>1, <2>1 DEF FirstWithSolana
  <2>3. \A e \in SolanaEids :
          (\E j \in FirstWithSolana : e \in SolanaEndsOf(j)) => e = solana
    BY <1>1 DEF FirstWithSolana
  <2>. QED BY <2>2, <2>3 DEF SolanaEid
<1>4. eid = solana /\ PointOf(eid) = [eid |-> solana, store |-> deployments[SolanaEid]]
  BY <1>2, <1>3 DEF PointOf
<1>5. /\ unchecked' = unchecked \cup
            {c \in FromSolana \ named : ~(ConfigsOf(c) \subseteq configs)}
      /\ \A c \in named : ConfigsOf(c) \subseteq configs
      /\ UNCHANGED <<configs, deployments>>
  BY DEF Run, PreWiringChecks
<1>6. ASSUME NEW c \in Connections \ unchecked', NEW side \in Sides, c.from = eid
      PROVE  [at |-> PointOf(eid), remote |-> c.to, side |-> side] \in configs
  <2>1. c \in FromSolana
    BY <1>6 DEF FromSolana
  <2>2. ConfigsOf(c) \subseteq configs
    BY <1>5, <1>6, <2>1
  <2>. QED BY <1>4, <1>6, <2>2 DEF ConfigsOf
<1>7. PointOf(eid)' = PointOf(eid) /\ PointOf(eid).eid = eid
  BY <1>5 DEF PointOf
<1>. QED BY <1>5, <1>6, <1>7 DEF Initialised

\* The stores with a peer, and those about to get one, are initialised.
PeersInv == PeersSound /\ InitBeforeWire

\* One change at a time keeps it.
LEMMA SignKeepsPeersInv ==
  ASSUME IInv, PeersInv, NEW change \in task.changes, SignAndSend(change)
  PROVE  PeersInv'
<1>1. /\ task # None /\ task \in Tasks
      /\ change \in Changes /\ Proper(change) /\ change.at \in Points
  BY DEF SignAndSend, IInv, TypeOK, TaskSound, Tasks, Changes
<1>2. task'.changes \subseteq task.changes
  BY <1>1 DEF SignAndSend, Tasks
<1>3. configs \subseteq configs' /\ unchecked' = unchecked
  BY <1>1, ApplyFacts DEF SignAndSend, IInv
<1>4. \A point : Initialised(point) => Initialised(point)'
  BY <1>3 DEF Initialised
<1>5. PeersSound'
  BY <1>1, <1>2, <1>4 DEF PeersInv, PeersSound
<1>6. ASSUME NEW point \in Points, point.eid \in SolanaEids, NEW eid \in Eids,
             oapps'[point].peers[eid] # None
      PROVE  Initialised(point)'
  <2>1. CASE oapps[point].peers[eid] # None
    <3>1. Initialised(point)
      BY <1>6, <2>1 DEF PeersInv, InitBeforeWire, FromSolana, Initialised
    <3>. QED BY <1>4, <3>1
  <2>2. CASE oapps[point].peers[eid] = None
    <3>1. Apply(change)
      BY <1>6, <2>2 DEF SignAndSend
    <3>2. point = change.at /\ change.kind = "peer"
      BY <1>1, <1>6, <2>2, <3>1, ApplyFacts DEF IInv
    <3>3. Initialised(point)
      BY <1>1, <1>6, <3>2 DEF PeersInv, PeersSound
    <3>. QED BY <1>4, <3>3
  <2>. QED BY <2>1, <2>2
<1>7. InitBeforeWire'
  BY <1>6 DEF InitBeforeWire, FromSolana, Initialised
<1>. QED BY <1>5, <1>7 DEF PeersInv

\* A run of wire starts only when its stores are initialised.
LEMMA RunKeepsPeersInv ==
  ASSUME OneSolana, IInv, PeersInv, NEW command \in Commands, NEW key \in Keys,
         NEW named \in SUBSET FromSolana, Run(command, key, named)
  PROVE  PeersInv'
<1>1. /\ UNCHANGED <<oapps, configs, deployments>>
      /\ IsDeployed /\ unchecked \subseteq unchecked'
  BY DEF Run
<1>2. ASSUME NEW change \in task'.changes, change.kind = "peer",
             change.at.eid \in SolanaEids
      PROVE  Initialised(change.at)'
  <2>1. change \in Wanted(command)
    BY <1>2 DEF Run
  <2>2. PICK conn \in Connections : change.at = PointOf(conn.from)
    BY <1>1, <1>2, <2>1, WantedFacts DEF IInv
  <2>3. command = "wire"
    BY <1>1, <1>2, <2>1, WantedFacts DEF IInv
  <2>4. conn.from \in SolanaEids /\ PointOf(conn.from)' = PointOf(conn.from)
    BY <1>1, <1>2, <2>2 DEF PointOf
  <2>5. Initialised(PointOf(conn.from))'
    BY <2>3, <2>4, ChecksCoverStores
  <2>. QED BY <2>2, <2>4, <2>5 DEF Initialised
<1>3. PeersSound'
  BY <1>2 DEF PeersSound
<1>4. InitBeforeWire'
  BY <1>1 DEF PeersInv, InitBeforeWire, FromSolana
<1>. QED BY <1>3, <1>4 DEF PeersInv

\* Everything else sets no peer and ends the run at most.
LEMMA OthersKeepPeersInv ==
  ASSUME PeersInv, UNCHANGED <<oapps, configs, unchecked>>, task' = task \/ task' = None
  PROVE  PeersInv'
  BY DEF PeersInv, PeersSound, InitBeforeWire, Initialised

\* A store has a peer only after both its configs exist for every connection of
\* the graph that no wire passed over (wire.ts:124, 159), for any graph with one
\* Solana endpoint, whatever libraries layerzero.config.ts names from run to run.
THEOREM InitAlwaysBeforeWire ==
  ASSUME OneSolana
  PROVE  Spec => []InitBeforeWire
<1>1. Init => PeersInv
  BY DEF Init, PeersInv, PeersSound, InitBeforeWire, NewOApp
<1>2. IInv /\ PeersInv /\ [Next]_vars => PeersInv'
  <2>. SUFFICES ASSUME IInv, PeersInv, [Next]_vars PROVE PeersInv'
    OBVIOUS
  <2>1. CASE \/ \E eid \in SolanaEids : CreateStore(eid)
             \/ Finish \/ Crash
             \/ \E from \in Points, eid \in Eids : SendMessage(from, eid)
             \/ \E packet \in packets : Deliver(packet)
             \/ UNCHANGED vars
    <3>1. UNCHANGED <<oapps, configs, unchecked>> /\ (task' = task \/ task' = None)
      BY <2>1 DEF CreateStore, Finish, Crash, SendMessage, Deliver, tooling, vars
    <3>. QED BY <3>1, OthersKeepPeersInv
  <2>. QED BY <2>1, RunKeepsPeersInv, SignKeepsPeersInv DEF Next
<1>3. PeersInv => InitBeforeWire
  BY DEF PeersInv
<1>. QED BY <1>1, <1>2, <1>3, InitIInv, NextIInv, PTL DEF Spec
=============================================================================
