---------------------------- MODULE RateLimitTasks ----------------------------
(***************************************************************************)
(* The tasks lz:oft:solana:inbound-rate-limit and outbound-rate-limit, run  *)
(* against the OFT program: each sends one set_peer_config, waits for it,    *)
(* and reads the peer back to print it.  Whatever throws is printed too.     *)
(* Meanwhile the program is used and administrated by others, the           *)
(* connection may break, and a transaction may land after that.             *)
(***************************************************************************)
EXTENDS OFTProgram

CONSTANTS
    Operators,      \* wallets of those who run the tasks
    Limits,         \* --capacity and --refill-per-second
    Sepolia,        \* EndpointId.SEPOLIA_V2_TESTNET
    MaxRuns         \* bound: runs of the tasks

ASSUME TasksAssumption ==
    /\ Operators \subseteq Accounts
    /\ Limits \subseteq [refill_per_second : U64, capacity : U64] \ {None}
    /\ Sepolia \in Eids /\ MaxRuns \in Nat

VARIABLES
    job,            \* the task that runs, up to the end of its wait
    job_runs,
    in_flight,      \* its transactions that may still land
    applied         \* history: limits set by the tasks

jobVars == <<job, job_runs, in_flight, applied>>

tasksVars == <<vars, jobVars>>

Idle == [step |-> "idle"]

TasksInit ==
    /\ Init
    /\ job = Idle /\ job_runs = 0
    /\ in_flight = {} /\ applied = {}

StartTask(direction, signer, eid, limits) ==
    /\ job = Idle
    /\ job_runs < MaxRuns
    /\ job_runs' = job_runs + 1
    /\ job' = [step |-> "sign", direction |-> direction, signer |-> signer,
               eid |-> eid, limits |-> limits, run |-> job_runs']
    /\ UNCHANGED <<vars, in_flight, applied>>

\* Variant: both tasks name their peer by the constant.
InstructionToSepolia(tx) ==
    IF tx.direction = "inbound"
    THEN SetInboundRateLimit(tx.signer, Sepolia, tx.limits)
    ELSE SetOutboundRateLimit(tx.signer, Sepolia, tx.limits)

\* The outbound task names its peer by a constant, not by --dst-eid.
Instruction(tx) ==
    IF tx.direction = "inbound"
    THEN SetInboundRateLimit(tx.signer, tx.eid, tx.limits)
    ELSE SetOutboundRateLimit(tx.signer, Sepolia, tx.limits)

SendTransaction ==
    /\ job.step = "sign"
    /\ in_flight' = in_flight \cup {job}
    /\ job' = [job EXCEPT !.step = "confirm"]
    /\ UNCHANGED <<vars, job_runs, applied>>

Confirms(tx) == job.step = "confirm" /\ job.run = tx.run

LandInstruction(tx) ==
    /\ Instruction(tx)
    /\ in_flight' = in_flight \ {tx}
    /\ applied' = applied \cup {tx}
    /\ job' = IF Confirms(tx) THEN Idle ELSE job
    /\ UNCHANGED job_runs

\* The program refuses the signer, or the transaction expires.
DropInstruction(tx) ==
    /\ in_flight' = in_flight \ {tx}
    /\ job' = IF Confirms(tx) THEN Idle ELSE job
    /\ UNCHANGED <<vars, job_runs, applied>>

\* The wait is given up; the transaction may still land.
LoseConnection ==
    /\ job.step = "confirm"
    /\ job' = Idle
    /\ UNCHANGED <<vars, job_runs, in_flight, applied>>

TasksNext ==
    \/ Next /\ UNCHANGED jobVars
    \/ \E direction \in Directions, signer \in Operators, eid \in Eids, limits \in Limits :
          StartTask(direction, signer, eid, limits)
    \/ SendTransaction \/ LoseConnection
    \/ \E tx \in in_flight : LandInstruction(tx) \/ DropInstruction(tx)

TasksSpec == TasksInit /\ [][TasksNext]_tasksVars

-----------------------------------------------------------------------------
SetsOnly(direction, tx) ==
    /\ \A d \in Directions, eid \in Eids :
          <<d, eid>> # <<direction, tx.eid>> => UNCHANGED LimiterOf(eid, d)
    /\ LimiterOf(tx.eid, direction)' # None
    /\ LimiterOf(tx.eid, direction)'.capacity = tx.limits.capacity
    /\ LimiterOf(tx.eid, direction)'.tokens = tx.limits.capacity

\* Whatever the admin, traffic and other runs did in between, a transaction of the
\* inbound task, whenever it lands, sets and fills the limit of --src-eid and
\* leaves every other alone (setInboundRateLimit.ts:50, peer_config.rs:38).
InboundLimitsItsPeer ==
    [][\A tx \in applied' \ applied :
          tx.direction = "inbound" => SetsOnly("inbound", tx)]_tasksVars

\* A transaction of the outbound task, whenever it lands, sets and fills the limit
\* of --dst-eid, "The destination endpoint ID"
\* (src/tasks/solana/setOutboundRateLimit.ts:36), and leaves every other alone.
OutboundLimitsItsPeer ==
    [][\A tx \in applied' \ applied :
          tx.direction = "outbound" => SetsOnly("outbound", tx)]_tasksVars
=============================================================================
