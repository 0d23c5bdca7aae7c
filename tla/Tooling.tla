-------------------------------- MODULE Tooling --------------------------------
(***************************************************************************)
(* Five parts of the operators' tooling side by side: the send task, the    *)
(* compute budget, config:get, deployment and upgrade on an EVM chain, and   *)
(* the tasks on the metadata.  They share no state, so each behaviour is one *)
(* of a single part; the other parts stay where they began.                  *)
(***************************************************************************)
EXTENDS SendOFT

CONSTANTS
    RecentFees, UsedUnits, Estimates, ScaleFactors, Eids, TableEids, RetryUnits, RetryPrices,
    Graph, SolanaEids, Libraries, UlnProgram, Settings, MaxChanges,
    Contracts, AlloOFTUpgradeable, Endpoint, Deployer, Safe, ICS20_PROXY_ADDRESS, OtherProxy,
    MaxImplementations, MaxProxies,
    Operators, SystemProgram, Names, Fees, MaxTransactions

VARIABLES
    part,
    step, request, recent, attempts, units, source, consent, budget,
    custom, default, settings, changes, parallel, reads, merged, configs, status,
    was, held,
    impls, proxies, admin, saved, manifest, upgrade,
    metadata, creation, version, update, updates, sent, renounced

Budget  == INSTANCE ComputeBudget
Config  == INSTANCE ConfigGet
Upgrade == INSTANCE EvmUpgrade WITH job <- upgrade
Data    == INSTANCE Metadata WITH job <- update, pool <- updates

ASSUME PartsAssumption ==
    /\ Budget!BudgetAssumption /\ Config!ConfigAssumption
    /\ Upgrade!UpgradeAssumption /\ Data!MetadataAssumption

budgetVars == <<step, request, recent, attempts, units, source, consent, budget>>
configVars ==
    <<custom, default, settings, changes, parallel, reads, merged, configs, status, was, held>>
upgradeVars == <<impls, proxies, admin, saved, manifest, upgrade>>
dataVars == <<metadata, creation, version, update, updates, sent, renounced>>

allVars == <<part, vars, budgetVars, configVars, upgradeVars, dataVars>>

\* A part that does not run has one initial state.
AnyInit ==
    /\ part \in {"send", "budget", "config", "upgrade", "metadata"}
    /\ Init /\ Budget!Init /\ Config!Init /\ Upgrade!Init /\ Data!Init
    /\ part # "send" => fee = CHOOSE f \in NativeFees : TRUE
    /\ part # "config" =>
          /\ parallel
          /\ \A c \in DOMAIN default : default[c]["send"] = UlnProgram
          /\ \A c \in DOMAIN settings :
                settings[c][UlnProgram]["sendUlnConfig"] = CHOOSE s \in Settings : TRUE

AnyNext ==
    \/ /\ part = "send" /\ Next
       /\ UNCHANGED <<part, budgetVars, configVars, upgradeVars, dataVars>>
    \/ /\ part = "budget" /\ Budget!Next
       /\ UNCHANGED <<part, vars, configVars, upgradeVars, dataVars>>
    \/ /\ part = "config" /\ Config!Next
       /\ UNCHANGED <<part, vars, budgetVars, upgradeVars, dataVars>>
    \/ /\ part = "upgrade" /\ Upgrade!Next
       /\ UNCHANGED <<part, vars, budgetVars, configVars, dataVars>>
    \/ /\ part = "metadata" /\ Data!Next
       /\ UNCHANGED <<part, vars, budgetVars, configVars, upgradeVars>>

AnySpec == AnyInit /\ [][AnyNext]_allVars

-----------------------------------------------------------------------------
(* The properties of the parts.                                            *)

\* Budgets cover what was simulated or agreed to, and outbid the average slot
\* (transactions built by addComputeUnitInstructions).
BudgetSuffices == Budget!BudgetSuffices

\* Functions that run in parallel lose no entry of each other, and each part that
\* they return was in force while they ran (config.get.ts, taskHelper.ts).
EntriesWereInForce == Config!EntriesWereInForce

\* Metadata whose update authority was renounced never changes again
\* (setUpdateAuthority.ts).
RenouncedIsFinal == Data!RenouncedIsFinal

\* An update that no other overtook changes what it was given and nothing else
\* (updateMetadata.ts).
UpdatesWhatIsGiven == Data!UpdatesWhatIsGiven

-----------------------------------------------------------------------------
(* What docs say of the parts and TLC refutes, here as of QuotingErrorIsOne, *)
(* SuccessIsSent and ExtraOptionsAccepted in SendOFT: no run lists them.     *)

\* createOFT.ts:160: the price is the fee times a factor that is a float.
PriceIsScaled == Budget!PriceIsScaled

\* retryPayload.ts:35: the transaction gets the compute units it was given.
RetryGetsItsUnits == Budget!RetryGetsItsUnits

\* README.md:461: the upgrade task needs no --safe.
UpgradeNeedsNoSafe == Upgrade!UpgradeNeedsNoSafe

\* README.md:474: after an import the manifest names what was deployed.
ManifestIsTrue == Upgrade!ManifestIsTrue

\* createOFT.ts:136: the seller's fee is given in basis points.
FeeInBasisPoints == Data!FeeInBasisPoints
=============================================================================
