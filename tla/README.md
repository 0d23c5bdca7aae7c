# Verification of the ALLO omnichain token

TLA+ modules, TLC runs and TLAPS proofs for this repository: the Solana OFT
program (`programs/oft`), the EVM token contract
(`contracts/AlloOFTUpgradeable.sol`), and the tasks and scripts that create,
wire, limit, upgrade and use them (`tasks`, `deploy`, `layerzero.config.ts`).
Paths below are relative to the repository; `instructions/` and `state/` are
those of `programs/oft/src`.

The token lives on several chains. A transfer takes tokens out of circulation on
the source chain (locks them in an escrow, or burns them), a LayerZero message
carries the amount in *shared decimals*, and the destination releases or mints as
much. An ICS-20 proxy connects the EVM chains with Cosmos in the same manner.
Everything around the transfers is done by operators, with tasks that send
several transactions each and may die between any two of them.

## Inventory

| Component | State | Operations | What is hard |
|---|---|---|---|
| Rate limiter (`state/peer_config.rs`) | per peer and direction: capacity, tokens, rate, time of the last refill | `refill`, `try_consume`, `set_rate`, `set_capacity` | the level is stored and brought up to date lazily; traffic one way refills the other; packets wait for the limit |
| Amounts (`quote_send.rs`, `state/oft.rs`) | none | dust, OFT fee, Token-2022 fee and its inverse | rounding in both directions, caps, three roundings composed |
| OFT program (`instructions/*.rs`) | `OFTStore` (type, rate, `tvl_ld`, roles, pause), `PeerConfig` per remote; the escrow | `init_oft`, `set_oft_config`, `set_pause`, `set_peer_config`, `withdraw_fee`, `send`, `lz_receive`, quotes | any order of instructions by different signers; the token's fee changes with the epoch |
| Account planning (`lz_receive_types.rs`) | none | lists the accounts of an `lz_receive` | the list is used in a later transaction, when it may be stale |
| Send task (`sendOFT.ts`, `sendSolana.ts`, `sendEvm.ts`) | amount, minimum, quote, submitted transaction | parse, quote, submit, wait | fees and balances change after the quote; answers get lost |
| Retry task (`retryPayload.ts`) | none | submits `lz_receive` for a packet | races the executor |
| EVM contract (`AlloOFTUpgradeable.sol`) | supply, ICS-20 proxy | `initialize`, `mint`, `burn`, `setICS20Proxy`, and what it inherits | the proxy is replaced while a refund is outstanding |
| EVM deployment (`deploy/`, `upgradeContract.ts`, `importOpenZeppelinNetwork.ts`) | implementations, proxy, deployment file, manifest | deploy, upgrade, import | two tools on one proxy; files written after transactions |
| Creation and authorities (`createOFT.ts`, `createOFTAdapter.ts`, `multisig.ts`, `setAuthority.ts`) | authorities of mints, stores, multisigs, `OFT.json` | up to four transactions and a file | tasks die between transactions; a transaction lands while the next task runs; one that fails on the chain is taken for done |
| Metadata (`createOFT.ts`, `updateMetadata.ts`, `setUpdateAuthority.ts`) | metadata account | create, update, renounce | built from a read that may be stale |
| Wiring and ownership (`wire.ts`, `initConfig.ts`, `layerzero.config.ts`) | peers, libraries' configs, options, owner, delegate | init-config, wire, transfer-ownership | order of configs and peers, of delegate and owner; half-wired pathways; connections without `sendLibrary` are not checked |
| Reading the configuration (`config.get.ts`) | one object shared by asynchronous functions | reads in five calls, and merges | interleaving of the functions; what changes between two calls |
| Rate limit tasks (`setInboundRateLimit.ts`, `setOutboundRateLimit.ts`) | a transaction | set a limit, read it back | late and lost transactions |
| Compute budget (`tasks/solana/index.ts`, `getFee.ts`) | fees, simulations, consent | price and limit of a transaction | retries, empty and odd answers |
| Endpoint, token programs, toolbox, RPC nodes | external | called by the above | modelled from their use |
| Utilities (`debug.ts`, `base58.ts`, `getPrioFees.ts`, `createSquadsV4.ts`, `getRateLimits.ts`) | none | print | not modelled |

The parts talk in these ways. Instructions of the OFT program share its two
accounts and the escrow; a failed instruction reverts all it did, and the runtime
runs instructions that write the same account one after the other, so an
instruction is one atomic step, and so is a call of a contract. The program calls
the endpoint (`send`, `clear`, `send_compose`) and the token program inside the
instruction. Everything else is interleaved: workers call `lz_receive_types` and
then `lz_receive`; users quote and then send; a task reads the chain, decides,
and sends one transaction after the other, each of which lands later or never,
also after the task has died; the admin, the pauser, other operators and time act
in between; packets arrive late and in any order. That is where the hazards are
that `PROJECT.json` lists with their lines.

What makes each part correct: a limiter lets no more through than it was granted,
and delays packets without losing them; a debit pays exactly what it must; the
escrow covers what was promised to other chains; all chains together keep one
ledger; a packet is credited once, and in the end; no crash leaves a mint without
somebody who can mint, and only those mint who should; what reports that it is
wired is wired; a task that reports success, a failure of quoting, or a
configuration tells the truth.

## Modules

| Module | Models |
|---|---|
| `Amounts` | the arithmetic of `quote_send.rs` and `oft.rs`, as operators over the naturals; `FitsU64` guards stand where the code fails |
| `RateLimits` | the methods of `RateLimiter` and `update_rate_limiter`, as operators on the struct |
| `TokenBucket` | abstract: the two buckets of a peer, which fill by themselves and trade what is transferred |
| `RateLimiter` | both limiters of one peer and the instructions that touch them; implements `TokenBucket` |
| `Throttle` | packets that wait for the inbound limiter and go on coming, with time, settings and traffic back |
| `OFTProgram` | the whole program: one action per instruction (`SetOFTConfig` and `SetPeerConfig` one per parameter), with the tokens, the endpoint and the clock |
| `Delivery` | extends `OFTProgram`: workers plan (`LzReceiveTypes`) and submit (`Submit`) |
| `RateLimitTasks` | extends `OFTProgram`: the two tasks that set limits, their transactions in flight |
| `SendTask` | what the program makes of a quote and a send, with fee, epoch and pause changes between |
| `SendOFT` | the send task itself, from an EVM chain or from Solana: decimal numbers, quote, submission, confirmation |
| `AlloOFT` | the EVM contract on its external OFT base, transfers over LayerZero and over ICS-20, timeouts, proxies |
| `OmniLedger` | abstract: tokens backed on Cosmos circulate on EVM chains, on Solana, or are under way |
| `Omnichain` | extends `OFTProgram`, instantiates `AlloOFT`: the bridge; implements `OmniLedger` |
| `MintSetup` | `createOFT`, `createOFTAdapter`, `setAuthority`: jobs whose transactions land, fail on the chain or expire; failures the tasks do not notice |
| `Wiring` | `init-config`, `wire` and `transfer-ownership` over any connection graph, with or without `sendLibrary` for a connection, and packets |
| `ComputeBudget` | `addComputeUnitInstructions` and what it calls, and the budget of `retryPayload.ts` |
| `ConfigGet` | the concurrent functions of `lz:oapp:config:get`, one awaited call after another, while libraries and settings change |
| `EvmUpgrade` | deploy script, upgrade and import; proxies, implementations, files |
| `Metadata` | creation, update and renunciation of the metadata |
| `Tooling` | `SendOFT`, `ComputeBudget`, `ConfigGet`, `EvmUpgrade` and `Metadata` side by side |
| `MC*` + `*.cfg` | instances for TLC |
| `ArithmeticProofs` | theorems on `Amounts` and `RateLimits`, and on sums over finite sets |
| `RateLimiterProofs`, `OFTProofs`, `SendTaskProofs`, `MintSetupProofs`, `WiringProofs` | theorems on the module of the name (`OFTProofs`: `OFTProgram`) |
| `ClientProofs` | theorems on `Delivery`, `RateLimitTasks` and `Omnichain`, over `OFTProofs` |
| `TaskProofs` | theorems on `Tooling` and its parts |

How state corresponds to code. `oft_store` and `peers[eid]` are the accounts
(`None` for a `PeerConfig` that was never initialised; addresses of mint, escrow
and endpoint never change and are left out). `escrow`, `held` and `withheld` are
the token balances of the escrow, of everyone else together, and of the withheld
transfer fees. `verified` holds the packets the endpoint would let `lz_receive`
clear, `outbound` and `composes` what was handed to it. An instruction that fails
is no step. A signer is a parameter of the action; `has_one = admin` is
`HasOneAdmin`.

A task is a record with the step it is at (`job`, `task`, `tasks[op]`), its
arguments and what it has read; what it submitted is a member of a set (`pool`,
`in_flight`) until it lands, is refused or expires, independently of the task. A
task's number stands for the keypairs it generates. Files are variables of their
own (`files`, `deployments`, `saved`, `manifest`), written by steps of their own.
Variables commented as history record what properties need to look back at.

`Throttle` needs only the time since the last refill, so its clock is that time,
which keeps liveness finite without a last second. `Wiring` takes the transactions
a configurator wants in any order, since the toolbox promises none.

Definitions marked `Variant:` are what the code is not: a definition with a
plausible mistake. No module uses them; substituted for the definition they
vary, each breaks a property (`mutants` in `PROJECT.json`), which shows that the
property depends on that line of the code.

## Runs

| Run | Config | States | Shows |
|---|---|---|---|
| limiter | `RateLimiter.cfg` | 56,598 | the flow stays within the allowance; the limiters implement `TokenBucket`; a packet the limit can afford is received, or others are without end |
| custody | `Custody.cfg` | 639,568 | `tvl_ld` is the net flow, the escrow covers it, releases clear packets, composers are told the credit |
| limits | `Limits.cfg` | 66,880 | in the whole program the limiters are buckets, charged what the message carries |
| config | `Config.cfg` | 613,504 | pauses and enforced options hold whatever the admin hands around; the inbound task sets the limit of its remote and no other |
| send_task | `SendTask.cfg` | 46,000 | debit, fee details and message of a send are right, all or nothing by default |
| delivery | `Delivery.cfg` | 92,048 | each packet once, and in the end |
| mint_setup | `MintSetup.cfg` | 1,481,943 | but for unnoticed failures and stores that were asked for, mints keep a live authority, files are usable, `--only-oft-store` is for ever, control goes where it should |
| wiring | `Wiring.cfg` | 2,669,353 | configs before peers where a `sendLibrary` is named, delegate before owner, a complete wire is complete, and then nothing is stuck |
| omnichain | `Omnichain.cfg` | 87,552 | the bridge implements `OmniLedger`, with fees that are taken |
| tasks | `Tasks.cfg` | 1,138,282 | amounts and outcomes of sends, budgets, `config:get`, metadata |
| quote_message | `SendTaskQuote.cfg` | violation | see *Findings* |
| outbound_task | `OutboundTask.cfg` | violation | see *Findings* |

`Tooling` puts five modules into one run, and `MCRateLimiter` two. They share no
state, so nothing would come of interleaving them: a behaviour is one of a single
module, the other ones keep one initial state, and the states are a sum.

Bounds. Basis points are scaled down (a whole is 4 or 10 instead of 10,000) and
`MaxU64` is small, so that caps, saturation and overflow happen within a few
steps; `Scale` maps a difference of one decimal to a rate of 2, which makes dust.
One remote is enough for the properties of the program, because peers share no
state but `oft_store` and the escrow (`config` and `outbound_task` have two, since
the rate limit tasks may set the wrong one), and two packets each way let a receipt race another, a send and a
withdrawal (`limits` has one receipt between two sends). `custody` has no rate
limits and no guardians, `limits` one account in all the roles: each run varies what
its properties depend on.

- `Throttle`: two packets of sizes 1 to 3 wait at a time, and new ones come without
  end; limits fit all, one or none; the bound on the clock is where every limiter
  is full.
- `MintSetup`: two operators, one mint that existed before (with no freeze authority,
  with one wallet for both, with two wallets), two tasks in all: enough for a dead task's transaction to land in the next task,
  and for two operators to take one mint from each other.
- `Wiring`: one pathway of `layerzero.config.ts`, so both kinds of chain, two
  stores (one replaced), one mishap, one packet under way at a time. Each run names
  a `sendLibrary` for some of the connections from Solana or for none; a mishap is
  a crash, or a run that goes on for want of a `sendLibrary` while a config is
  missing. A run that
  ends without a crash and with refusals is not bounded, nor are messages in all.
- `Omnichain`: two EVM chains, one with a pathway to Solana, two transfers
  between them or to Cosmos, two from Solana, one of them large enough that an OFT
  fee of a half survives the removal of dust, one change of the token's transfer
  fee, and two changes of a proxy: one is replaced and comes back to what it owes.
- `SendOFT`: base 2 with two decimals, one of them shared: a number has a digit
  that travels, one that is dust and one that is cut off. Two runs of the task,
  two fees, a balance for one transfer and dust.
- `ComputeBudget`: every sequence of up to four fees of four kinds.
  `ConfigGet`: three connections, two with the same source; two libraries, two
  settings and two changes, so that both ends of a pair of calls can differ.
  `EvmUpgrade`: two versions, four implementations. `Metadata`: two operators,
  two transactions.

The bounds that guard an action are the constants commented as `bound`. In
`wiring`, `mint_setup`, `omnichain` and `tasks` the tasks and transfers are limited in number and everything may be done: there the
deadlock check is off. In the other runs it is on.

Fairness is assumed in two places, and is what somebody outside keeps doing.
`Delivery`: LayerZero's executor plans each verified packet and submits its plans
again and again (weak fairness for the one worker `Executor`); nothing is assumed
of the admin, other workers or time. The mint's authority changes at most once
in the configuration: one that changes for ever, always between a plan and its
use, could starve a packet, and the code does nothing against that.
`MCRateLimiter`: time passes, and the executor submits each packet again and
again; the admin may change limits for ever, and traffic may go on for ever. Under
that fairness an endless stream of small packets can keep the level below a large
one (`peer_config.rs:53`, `lz_receive.rs:102`), and nothing in the code prevents
it: `DelayedNotLost` therefore says that a packet the limit can afford is received
unless others are received without end, and not that it cannot starve.

## Findings

With a run of their own:

- `quote_send.rs:58` encodes `amount_received_ld`, an amount in local decimals,
  where `msg_codec::encode` declares `amount_sd` (`msg_codec.rs:9`) and `send`
  passes the shared amount. Both messages have the same length, so a fee that
  depends on the length alone is the same (`quote_message`).
- `setOutboundRateLimit.ts:70` limits Sepolia whatever `--dst-eid` is, and prints
  the peer of `--dst-eid` as if it had been set (`outbound_task`).

Other statements of docs, comments and sister tasks are formulated beside the
properties, and listed by no run; TLC refutes each as soon as it is given as an
`INVARIANT` to the named configuration.

| Statement | Config | What happens |
|---|---|---|
| `QuotingErrorIsOne` | `Tasks.cfg` | `sendSolana.ts:160` reports a lost confirmation as ERROR_QUOTING_NATIVE_GAS_COST, which `sendEvm.ts:107` keeps for the quote; the transfer may still land, and whoever runs the task again sends twice |
| `SuccessIsSent` | `Tasks.cfg` | `sendSolana.ts:156` takes the signature of a result and not its error; `sendOFT.ts:79` then prints "Successfully sent" for a transfer the program refused |
| `ExtraOptionsAccepted` | `Tasks.cfg` | `sendSolana.ts:113` makes bytes of the characters of the hex string that `sendEvm.ts` decodes; the program cannot combine them with enforced options |
| `PriceIsScaled` | `Tasks.cfg` | `index.ts:306` takes the floor of the factor that `createOFT.ts:160` declares as a float: a half makes the price zero |
| `RetryGetsItsUnits` | `Tasks.cfg` | `retryPayload.ts:78` keeps a byte of the units and sets no limit, where `:35` promises "The CU for the lzReceive instruction" |
| `UpgradeNeedsNoSafe` | `Tasks.cfg` | without `--safe` `upgradeContract.ts:62` passes neither `constructorArgs` nor `unsafeAllow`, so the plugin refuses; `README.md:461` names the task without that condition |
| `ManifestIsTrue` | `Tasks.cfg` | `importOpenZeppelinNetwork.ts:38` always imports as `AlloOFTUpgradeable`, also after an upgrade to another version (`README.md:474`) |
| `FeeInBasisPoints` | `Tasks.cfg` | `createOFT.ts:277` takes the basis points (`:136`) for per cent; `updateMetadata.ts:58` does not |
| `MintersUpdatable` | `MintSetup.cfg` | `--additional-minters ""` makes a multisig of the store alone, and no key can change the minters afterwards, which `README.md:281` promises |
| `OneSolanaEndpoint` | `Wiring.cfg` with a graph of two Solana networks | `utils.ts:73` returns at the first, so the error of `:64` is never thrown |

Two things are choices, not errors. A limiter that is first configured with a
rate and no capacity has capacity 0 and blocks its direction. And the default
minimum of a send is the whole amount, so without `--min-amount` any dust, OFT fee
or transfer fee makes the transfer fail (`DefaultMinimumIsExact`,
`AmountsAsTyped`).

## Proofs

All theorems hold for every value of the constants that the named assumptions of
the modules admit: any u64 maximum, any denominator of the fees, any decimals,
peers, amounts, operators, mints, graphs, bounds and histories. The assumptions
say that inputs have the types the parameters have, that fees are below a whole
where the code requires it, that keypairs are fresh, that a connection is a pair,
that the bridge has finitely many chains and users and Solana's remotes are among
those chains, and that `None` is not a value. The theorems that have a hypothesis
of their own are named below.

- `ArithmeticProofs`: `PreFeeIsExact` and `PreFeeIsLeast` say that the
  repository's copy of the Token-2022 inverse fee is exact and minimal, from a few
  facts about division; `TransferAmounts` collects what a send may rely on; then
  what each method of `RateLimiter` does to the limiter and to the bucket it
  stands for. Sums over finite sets are introduced as the equation that
  `MapThenSumSet` solves; that it has a solution, that any summand may be taken
  out first, and what a changed, new or removed summand does to the sum follow
  from a smallest counterexample (`SmallestSet`), without induction over data.
- `RateLimiterProofs`: `FlowIsLimited` needs more than itself: the inductive
  invariant says that stored tokens *plus what time has earned since* are within
  the allowance and that the clock of the limiter is not ahead (`Settled`).
  `LimitersFillByThemselves` is the refinement of `TokenBucket`, one lemma per
  kind of step. The abstract transfer names both buckets, so a step that takes
  from one and gives the other a different amount, or that loses what time has
  earned, implements nothing.
- `OFTProofs`: `IInv` joins the type invariant, `FlowsBalance`,
  `EscrowCoversTvl` and the soundness of every limiter. `EscrowCoversTvl` alone
  is not inductive: a send keeps it because the transfer of the pre-fee amount
  leaves exactly the post-fee amount in the escrow (`PreFeeIsExact`), a receipt
  because the amount of the packet is subtracted from both, a withdrawal by its
  guard. One lemma per instruction. The second half says what a step may never
  do: every step other than `send` and `lz_receive` is `Quiet` (it moves no
  traffic, no supply and no `tvl_ld`), which leaves two cases for each property.
  `LimitsHoldEverywhere` lifts the refinement of `TokenBucket` to every peer of the
  program.
- `ClientProofs`: whoever calls the program from outside. A plan of
  `lz_receive_types` that is executed later is an `LzReceive` or nothing, so
  `Delivery` refines `OFTProgram` (`DeliveryImplementsProgram`) and has all of
  `OFTProofs`. `PacketsAreReceivedOnce` is about the history of all receipts, of
  packets with a compose message and without; it needs that nonces name packets: of
  those verified and those received no two share source and nonce, and none is
  ahead of the path's nonce. A rate limit task changes a peer's configuration as
  `set_peer_config` does. `TasksImplementProgram` has the hypothesis that the limits
  operators type are limits the program's run takes; the invariant (`TasksInv`)
  and the properties of the run need no such hypothesis.
  `InboundTaskSetsItsPeer` is for the inbound task what the run `outbound_task`
  refutes for the other. `BridgeAlwaysKeepsLedger` is the refinement of
  `OmniLedger` by the whole bridge. Its invariant (`BridgeInv`) adds to that of
  the program what makes a thing under way count once: nonces name inbound packets,
  guids outbound ones and only sent ones were received, ids name messages and
  transfers, and all these sets are finite. Then the ledger can be read off the
  state as a few sums (`LedgerIsRead`), one lemma per step says how they move, and
  four lemmas about the ledger alone say which of its steps that is; what a send
  or a receipt does to Solana's supply comes from `FlowsBalance`. The ledger starts
  empty, hence the hypothesis `InitialSupply = 0`. `EverythingIsBacked` follows.
- `SendTaskProofs`: every receipt is one evaluation of
  `compute_fee_and_adjust_amount`, whatever changed before it: what is debited is
  within what was asked and minimal, the message loses nothing.
- `MintSetupProofs`: what makes `MintAuthorityAlive` and `FilesAreUsable`
  inductive is `Ready`: of every job and of every transaction that is still under
  way it says which of the chain's accounts exist by then, so that whatever lands
  hands a mint only to a multisig that is there and to a store that is there or is
  `Excused`: its own init-oft failed and was taken for done (`unnoticed`), or
  `setAuthority` was told to name it. `FilesNameTheirOwn` keeps what one run writes
  apart from the failures of another. `OnlyTheStoreMints`
  has an invariant of its own (`OInv`), by which everything that is under way
  for a mint of an ended `--only-oft-store` job is `Guarded`: it can no longer be
  signed for, unless that job's hand-over is among the unnoticed failures
  (`RefusedHandOver`). `ListedOperatorStaysInControl` and `CreatorHasLetGo` have a third
  (`PInv`): until a creation hands its mint over, both authorities are its
  creator's, and nobody moves just one of them; afterwards the creator can sign
  only for what it was given (`LetGo`), since an authority nobody could sign for
  would be one a later multisig may turn into the creator's.
- `WiringProofs`: a run keeps the changes it computed when it started, so the
  invariant says what is still true of them when they are made: the configs that
  a peer needs exist, the delegate of an owner that moves has moved, and while no
  new store was created, what is not done is still on the list. From the last,
  `CompleteWireIsComplete`. `InitAlwaysBeforeWire` has the hypothesis
  `OneSolana`: one endpoint of the graph is on Solana, as in
  `layerzero.config.ts`. Without it the property is false (see
  `OneSolanaEndpoint`), and a connection that a run went on with although its
  configs were missing and no `sendLibrary` was named is in the history
  `unchecked`, which the property leaves out. The check of `wire.ts:124` looks for the configs of
  every Solana endpoint under the store of the first.
- `TaskProofs`, one section per tool. The send task: the invariant ties a run's
  transaction to the run by its number, none before the submission
  (`UnsentYet`), the run's own while it waits (`OwnSource`). For `AmountsAsTyped`
  it says that a run and its transaction carry the number they were started with,
  as text and as units (`AmountInv`); the rest is what reading, cutting and
  rounding digits does, in any base and for any length (`CutDigits`). Recursive
  functions are reasoned about there with sets: one that has 0 and the successor
  of each member has all naturals (`AllNat`, from a least counterexample), which
  gives the equations of a recursive function and what they imply. Metadata: what a task
  under way or a transaction in the pool will write is what its chain read and
  what it was given; once renounced, the metadata equals what renouncing left
  (`renounced`), since nobody can sign for SystemProgram. `config:get`: each of the
  answers a function has so far was in force at some moment since the task started
  (`ReadsInForce`), and a merge changes no entry of
  another connection, also none of the same chain. The compute budget: how many
  simulations failed and what was answered (`BudgetInv`), and which fees and which
  factor the price was made of (`FeesInv`); averages are sums over what is kept of
  a sequence (`FeesFacts`), and a median is found by counting what is below and
  above it (`SortedFacts`). `ToolingIsItsParts` shows that a
  behaviour of the composition TLC checks is one of each part, and
  `ToolsKeepTheirPromises` states all of it of that composition.

Only model-checked, and why. Liveness and `ENABLED` are beyond the prover:
`DeliveredWhenPossible` and `DelayedNotLost`. Every other
property of a passing run is a theorem. Induction over data is beyond it too, as
long as the theorems of the library that would give it take an operator as a
parameter; a smallest counterexample replaces it, for sums over sets, digits and
sequences. Operators of the standard modules that filter and sort sequences have no
definition the prover could use, so `ComputeBudget` says what they do: `NonZero` by
the recursion, `SortedAt` by the place a fee gets.

## Not modelled

Wording, events and logging; the byte layout of messages (records stand for
them); rent; the messaging fee of Solana. Tokens minted or burnt by others than
the program (further minters of a multisig, holders who burn their own) would
shift `Supply` and are left out, as is the harvest of withheld fees. The endpoint
is trusted: a packet is verified once per nonce, on an initialised path, and
cleared at most once. Verification by DVNs, upgrades of the Solana program and
Token-2022 mints in the creation tasks are out of scope.

The creation tasks are modelled with one task per operator at a time. A
transaction that passed the preflight may still fail on the chain; `createOFT.ts`
(`:337`, `:367`) and `setAuthority.ts` take the signature of the result and go on,
so the module does too, and its properties say which consequences that has and
that nothing else has them. `retryPayload.ts` hands the encoding of a packet to
the SDK; what it does to the packet is `Delivery`, what it asks of the transaction
`ComputeBudget`.

`config:get` reads an EVM chain's custom and default configurations too, only to
print them; these calls are left out. The parts of an entry come from separate
calls and may mix moments (`taskHelper.ts:23`, `:50`), which `EntriesWereInForce`
admits; on Solana the ULN configurations are always those of the ULN program.

`setUpdateAuthority.ts` takes SystemProgram as a new authority without
`--renounce`. The metadata then belongs to nobody and stays `isMutable`;
`Metadata` includes it, and `RenouncedIsFinal` calls only what `--renounce` did
renounced.

`EvmUpgrade` is part of a run, and no property of a passing run speaks of it.
Whether a proxy that was saved is deployed again, and what a new one is
initialised with, is decided by hardhat-deploy and the upgrades plugin; what the
module assumes of them cannot show anything about this repository. A deployment
that dies before its file is written does give a second proxy. The two statements
of the README about these tasks are in *Findings*.

That nothing is sent to a peer whose address was never set (`set_peer_config.rs:9`)
rests on the endpoint, which has no path to the zero address. Amounts are naturals:
where the code multiplies or subtracts with overflow checks (`Cargo.toml:9`), the
action has the guard `FitsU64`; a value that wrapped cannot be represented. When a
withdrawn amount is refunded depends on relayers and on the ICS-20 proxy, neither
of which is in the repository.

`debug.ts`, `base58.ts`, `getPrioFees.ts` and `getRateLimits.ts` read accounts or
keys and print them; `createSquadsV4.ts` sends one transaction that makes an
account nothing else here uses; the hardhat and build configuration is data. There
is no state in them for a property to speak of.

## What could follow

A graph of more pathways and crashes in `Wiring` only repeats, per connection,
what one shows. The remaining value is in keeping the models beside the code: a
change of an instruction or of a task's steps changes the definition that `map`
names for its lines, and the proofs with it.
