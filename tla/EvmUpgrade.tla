------------------------------ MODULE EvmUpgrade ------------------------------
(***************************************************************************)
(* Deployment and upgrade of the EVM token on one network: the deploy       *)
(* script, the tasks lz:oft:evm:upgrade and import-openzeppelin-network,     *)
(* the proxies and implementations on the chain, the deployments directory   *)
(* and OpenZeppelin's manifest of the network.  Each transaction and each    *)
(* file is a step of its own, and a task may die between two of them.        *)
(*                                                                           *)
(* External: hardhat-deploy, which deploys or upgrades as its file says, and *)
(* the upgrades plugin, which refuses constructors and immutables that it is *)
(* not told to allow, and a proxy whose implementation it does not know.     *)
(***************************************************************************)
EXTENDS Integers, Sequences

CONSTANTS
    None,
    Contracts,          \* versions of the token contract
    AlloOFTUpgradeable, \* the one of that name
    Endpoint,           \* EndpointV2 of the network
    Deployer, Safe, ICS20_PROXY_ADDRESS, OtherProxy,
    MaxImplementations, MaxProxies      \* bounds

UpgradeAssumption ==
    /\ AlloOFTUpgradeable \in Contracts /\ None \notin Contracts
    /\ None \notin {Deployer, Safe}

VARIABLES
    impls,      \* implementations on the chain: contract and endpoint
    proxies,    \* proxies on the chain
    admin,      \* owner of the ProxyAdmin
    saved,      \* deployments/<network>: implementation and proxy
    manifest,   \* .openzeppelin: pairs of an address and a contract
    job         \* the script or task that runs, or the last one

chainVars == <<impls, proxies, admin>>
vars == <<chainVars, saved, manifest, job>>

Uninitialised == [owner |-> None, ics20_proxy |-> None]
Initialised == [owner |-> Deployer, ics20_proxy |-> ICS20_PROXY_ADDRESS]

Init ==
    /\ impls = <<>> /\ proxies = <<>> /\ admin = Deployer
    /\ saved = [impl |-> None, proxy |-> None] /\ manifest = {}
    /\ job = [step |-> "idle"]

MayStart == job.step \in {"idle", "done", "threw", "died"}

NewImplementation(contract, endpoint) ==
    /\ Len(impls) < MaxImplementations
    /\ impls' = Append(impls, [contract |-> contract, endpoint |-> endpoint])

Fail == job' = [job EXCEPT !.step = "threw"]

-----------------------------------------------------------------------------
(* deploy/AlloOFTUpgradeable.ts                                            *)

\* The source may have changed since the last deployment.
Deploy(changed) ==
    /\ MayStart
    /\ job' = [step |-> "implementation", changed |-> changed, impl |-> None]
    /\ UNCHANGED <<chainVars, saved, manifest>>

\* hardhat-deploy keeps an implementation whose bytecode has not changed.
DeployImplementation ==
    /\ job.step = "implementation"
    /\ \/ /\ saved.impl # None /\ ~job.changed
          /\ job' = [job EXCEPT !.step = "proxy", !.impl = saved.impl]
          /\ UNCHANGED <<impls, saved>>
       \/ /\ saved.impl = None \/ job.changed
          /\ NewImplementation(AlloOFTUpgradeable, Endpoint)
          /\ saved' = [saved EXCEPT !.impl = Len(impls')]
          /\ job' = [job EXCEPT !.step = "proxy", !.impl = Len(impls')]
    /\ UNCHANGED <<proxies, admin, manifest>>

\* The proxy's constructor calls initialize.
NewProxy(impl) ==
    /\ Len(proxies) < MaxProxies
    /\ proxies' = Append(proxies, [impl |-> impl, state |-> Initialised])

IsNew == saved.proxy = None

\* proxy.execute.init is for a new proxy; later deployments upgrade it to the
\* implementation that the file names, signed by the deployer.
DeployProxy ==
    /\ job.step = "proxy"
    /\ \/ /\ IsNew
          /\ NewProxy(job.impl)
          /\ job' = [step |-> "save", proxy |-> Len(proxies')]
       \/ /\ ~IsNew
          /\ admin = Deployer \/ proxies[saved.proxy].impl = job.impl
          /\ proxies' = [proxies EXCEPT ![saved.proxy].impl = job.impl]
          /\ job' = [step |-> "save", proxy |-> saved.proxy]
       \/ /\ ~IsNew
          /\ admin # Deployer /\ proxies[saved.proxy].impl # job.impl
          /\ Fail /\ UNCHANGED proxies
    /\ UNCHANGED <<impls, admin, saved, manifest>>

SaveDeployment ==
    /\ job.step = "save"
    /\ saved' = [saved EXCEPT !.proxy = job.proxy]
    /\ job' = [job EXCEPT !.step = "done"]
    /\ UNCHANGED <<chainVars, manifest>>

-----------------------------------------------------------------------------
(* lz:oft:evm:upgrade                                                      *)

Upgrade(contract, safe) ==
    /\ MayStart
    /\ saved.proxy # None
    /\ job' = [step |-> "validate", contract |-> contract, safe |-> safe,
               registered |-> \E known \in manifest : known[1] = proxies[saved.proxy].impl]
    /\ UNCHANGED <<chainVars, saved, manifest>>

\* unsafeAllow: only the safe branch tells the plugin that the constructor and
\* the immutable endpoint are meant.
UnsafeAllowed == job.safe

ConstructorArgs == Endpoint

\* prepareUpgrade deploys an implementation, or returns the one of the manifest.
PrepareUpgrade ==
    /\ job.step = "validate"
    /\ UnsafeAllowed /\ job.registered
    /\ \/ /\ \E known \in manifest : known[2] = job.contract
          /\ UNCHANGED <<impls, manifest>>
       \/ /\ \A known \in manifest : known[2] # job.contract
          /\ NewImplementation(job.contract, ConstructorArgs)
          /\ manifest' = manifest \cup {<<Len(impls'), job.contract>>}
    /\ job' = [job EXCEPT !.step = "done"]
    /\ UNCHANGED <<proxies, admin, saved>>

UpgradeThrows ==
    /\ job.step = "validate"
    /\ ~(UnsafeAllowed /\ job.registered)
    /\ Fail
    /\ UNCHANGED <<chainVars, saved, manifest>>

\* upgrade on the ProxyAdmin, by whoever owns it.
UpgradeProxy(impl) ==
    /\ \E known \in manifest : known[1] = impl
    /\ saved.proxy # None
    /\ proxies' = [proxies EXCEPT ![saved.proxy].impl = impl]
    /\ UNCHANGED <<impls, admin, saved, manifest, job>>

\* lz:oft:evm:import-openzeppelin-network
Import ==
    /\ MayStart
    /\ saved.proxy # None
    /\ manifest' = manifest \cup {<<proxies[saved.proxy].impl, AlloOFTUpgradeable>>}
    /\ job' = [step |-> "done"]
    /\ UNCHANGED <<chainVars, saved>>

Die ==
    /\ ~MayStart
    /\ job' = [step |-> "died"]
    /\ UNCHANGED <<chainVars, saved, manifest>>

HandOverAdmin ==
    /\ admin' = Safe
    /\ UNCHANGED <<impls, proxies, saved, manifest, job>>

SetICS20Proxy(p) ==
    /\ proxies[p].state # Uninitialised
    /\ proxies' = [proxies EXCEPT ![p].state.ics20_proxy = OtherProxy]
    /\ UNCHANGED <<impls, admin, saved, manifest, job>>

Next ==
    \/ \E changed \in BOOLEAN : Deploy(changed)
    \/ DeployImplementation \/ DeployProxy \/ SaveDeployment
    \/ \E contract \in Contracts, safe \in BOOLEAN : Upgrade(contract, safe)
    \/ PrepareUpgrade \/ UpgradeThrows \/ Import \/ Die \/ HandOverAdmin
    \/ \E impl \in DOMAIN impls : UpgradeProxy(impl)
    \/ \E p \in DOMAIN proxies : SetICS20Proxy(p)

Spec == Init /\ [][Next]_vars

-----------------------------------------------------------------------------
\* src/README.md:461, "To upgrade an EVM contract you can use the
\* lz:oft:evm:upgrade task", of which --safe is an option.
UpgradeNeedsNoSafe ==
    job.step = "threw" => ~("safe" \in DOMAIN job /\ ~job.safe /\ job.registered)

\* src/README.md:474: "After deploying or upgrade we must ensure that current
\* deployments informations are up to date", and :475 names the task that does.
ManifestIsTrue == \A known \in manifest : impls[known[1]].contract = known[2]
=============================================================================
