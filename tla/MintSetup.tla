------------------------------- MODULE MintSetup -------------------------------
(***************************************************************************)
(* The tasks that create an OFT on Solana and move the authorities of its   *)
(* mint: createOFT, createOFTAdapter and setAuthority.  A task is a chain   *)
(* of transactions.  Each is submitted, and lands or expires later; when    *)
(* the process dies, or an RPC call gives up, the task is over but what it  *)
(* submitted may still land, also while the next task runs.                 *)
(*                                                                          *)
(* A task generates its keypairs (escrow, hence store; mint; multisig), so  *)
(* its number identifies them.  External: the token program's rules on who  *)
(* may change an authority.  Only SPL Token mints, as the tasks say.        *)
(***************************************************************************)
EXTENDS Naturals, FiniteSets

CONSTANTS
    None,
    Operators,          \* the wallets that run tasks
    Others,             \* other keys
    Existing,           \* mints that exist beforehand, for --mint
    FirstAuthorities,   \* authorities they may have then
    MinterLists,        \* values of --additional-minters, None if not given
    FreezeAuthorities,  \* values of --freeze-authority, None if not given
    MaxSigners,         \* what an SPL multisig can hold
    MaxRuns             \* bound: tasks started in all

Keys == Operators \cup Others
Runs == 1 .. MaxRuns
MintIds == Existing \cup Runs

VARIABLES
    next_run,   \* number of the next task
    mints,      \* authorities of each mint, None before it is created
    stores,     \* OFTStore of the escrow of each task, None if not initialised
    multisigs,  \* signers of the 1-of-n multisig of each task, {} likewise
    files,      \* each operator's OFT.json, None before it is written
    tasks,      \* the job each operator's task is at, None if it runs none
    pool,       \* transactions submitted and neither landed nor expired
    started,    \* history: jobs as they were started
    finished,   \* history: the tasks that ran to their end
    unnoticed   \* history: jobs whose transaction failed and was taken for done

chain == <<mints, stores, multisigs>>
history == <<started, finished, unnoticed>>
vars == <<next_run, chain, files, tasks, pool, history>>

Key(k) == [kind |-> "key", of |-> k]
Store(run) == [kind |-> "store", of |-> run]
Multisig(run) == [kind |-> "multisig", of |-> run]

Accounts == [kind : {"key"}, of : Keys] \cup
            [kind : {"store", "multisig"}, of : Runs]

\* Whoever can sign for an account.  The program signs for its stores.
SignersOf(account) ==
    IF account = None THEN {}
    ELSE IF account.kind # "multisig" THEN {account}
    ELSE multisigs[account.of]

CanSign(op, account) == Key(op) \in SignersOf(account)

-----------------------------------------------------------------------------
(* A job: the arguments of a task and the step it is at.                   *)

MintAccounts == [mint_authority : Accounts, freeze_authority : Accounts \cup {None}]
StoreAccounts == [oft_type : {"Native", "Adapter"}, mint : MintIds, admin : Operators]

Commands == {"create", "adapter", "setAuthority"}
Steps == {"multisig", "token", "store", "authority", "save",
          "mint_authority", "freeze_authority", "done"}

Jobs ==
    [run : Runs, op : Operators, command : Commands, mint : MintIds,
     store : Runs, minters : {None} \cup SUBSET Keys, only : BOOLEAN,
     freeze : Keys \cup {None}, step : Steps, waiting : BOOLEAN]

ASSUME MintSetupAssumption ==
    /\ MinterLists \subseteq {None} \cup SUBSET Keys
    /\ FreezeAuthorities \subseteq {None} \cup Keys
    /\ Existing \cap Runs = {}
    /\ FirstAuthorities \subseteq
          [mint_authority : {Key(op) : op \in Operators},
           freeze_authority : {None} \cup {Key(op) : op \in Operators}]
    /\ MaxSigners \in Nat /\ MaxRuns \in Nat
    /\ None \notin Keys \cup Accounts \cup MintAccounts \cup StoreAccounts \cup Jobs
    /\ None \notin MintIds

\* A transaction: the job as it submitted it and the authority it names.
Transactions == [job : Jobs, current : Accounts \cup {None}]

\* Without --mint the task creates the mint.
NewToken(job) == job.command = "create" /\ job.mint = job.run

\* createMintAuthorityMultisig: 1 of the store and the additional minters.
MultisigSigners(job) ==
    {Store(job.store)} \cup
    {Key(k) : k \in IF job.minters = None THEN {} ELSE job.minters}

\* Variant: --only-oft-store beats a list of minters given beside it.
NewAuthorityStoreOnly(job) ==
    IF job.only THEN Store(job.store) ELSE Multisig(job.run)

\* setAuthority always creates a multisig, createOFT when minters are given,
\* even an empty list of them.
NewAuthority(job) ==
    IF job.command = "create" /\ job.minters = None
    THEN Store(job.store) ELSE Multisig(job.run)

NewFreezeAuthority(job) ==
    IF job.command = "setAuthority" THEN NewAuthority(job)
    ELSE IF job.freeze # None THEN Key(job.freeze)
    ELSE IF job.only THEN None ELSE NewAuthority(job)

\* Variant: hands over the authorities before the store exists.
StepAfterHasty(job) ==
    CASE job.step = "multisig" ->
            IF job.command = "setAuthority" THEN "mint_authority"
            ELSE IF NewToken(job) THEN "token" ELSE "store"
      [] job.step = "token" -> "authority"
      [] job.step = "authority" -> "store"
      [] job.step = "store" -> "save"
      [] job.step = "mint_authority" -> "freeze_authority"
      [] OTHER -> "done"

\* Variant: writes the file before the authorities are handed over.
StepAfterSavingFirst(job) ==
    CASE job.step = "multisig" ->
            IF job.command = "setAuthority" THEN "mint_authority"
            ELSE IF NewToken(job) THEN "token" ELSE "store"
      [] job.step = "token" -> "store"
      [] job.step = "store" -> "save"
      [] job.step = "save" /\ NewToken(job) -> "authority"
      [] job.step = "mint_authority" -> "freeze_authority"
      [] OTHER -> "done"

\* Variant: setAuthority moves the freeze authority first.
StepAfterFreezeFirst(job) ==
    CASE job.step = "multisig" ->
            IF job.command = "setAuthority" THEN "freeze_authority"
            ELSE IF NewToken(job) THEN "token" ELSE "store"
      [] job.step = "token" -> "store"
      [] job.step = "store" -> IF NewToken(job) THEN "authority" ELSE "save"
      [] job.step = "authority" -> "save"
      [] job.step = "freeze_authority" -> "mint_authority"
      [] OTHER -> "done"

StepAfter(job) ==
    CASE job.step = "multisig" ->
            IF job.command = "setAuthority" THEN "mint_authority"
            ELSE IF NewToken(job) THEN "token" ELSE "store"
      [] job.step = "token" -> "store"
      [] job.step = "store" -> IF NewToken(job) THEN "authority" ELSE "save"
      [] job.step = "authority" -> "save"
      [] job.step = "mint_authority" -> "freeze_authority"
      [] OTHER -> "done"

\* What becomes of a task whose step is done.
Advance(job) ==
    IF StepAfter(job) = "done" THEN None
    ELSE [job EXCEPT !.step = StepAfter(job), !.waiting = FALSE]

Ended(job) == IF StepAfter(job) = "done" THEN {job.run} ELSE {}

-----------------------------------------------------------------------------
Init ==
    /\ next_run = 1
    /\ mints \in [MintIds -> {None} \cup FirstAuthorities]
    /\ \A m \in MintIds : mints[m] = None <=> m \in Runs
    /\ stores = [run \in Runs |-> None]
    /\ multisigs = [run \in Runs |-> {}]
    /\ files = [op \in Operators |-> None]
    /\ tasks = [op \in Operators |-> None]
    /\ pool = {} /\ started = {} /\ finished = {} /\ unnoticed = {}

Start(job) ==
    /\ next_run \in Runs
    /\ tasks[job.op] = None
    /\ tasks' = [tasks EXCEPT ![job.op] = job]
    /\ started' = started \cup {job}
    /\ next_run' = next_run + 1
    /\ UNCHANGED <<chain, files, pool, finished, unnoticed>>

\* createOFT: the combinations of parameters it accepts, prompts confirmed.
CreateOFT(op, mint, minters, only, freeze) ==
    /\ minters = None => only
    /\ freeze # None => only
    /\ ~(only /\ minters # None /\ minters # {})
    /\ Start([run |-> next_run, op |-> op, command |-> "create",
              mint |-> IF mint = None THEN next_run ELSE mint,
              store |-> next_run, minters |-> minters, only |-> only,
              freeze |-> freeze, waiting |-> FALSE,
              step |-> IF minters # None THEN "multisig"
                       ELSE IF mint = None THEN "token" ELSE "store"])

\* createOFTAdapter: an adapter locks tokens, so it needs no authority.
CreateOFTAdapter(op, mint) ==
    Start([run |-> next_run, op |-> op, command |-> "adapter", mint |-> mint,
           store |-> next_run, minters |-> None, only |-> FALSE,
           freeze |-> None, waiting |-> FALSE, step |-> "store"])

\* setAuthority: any mint that exists and any escrow; whether that has a store, and
\* whether it is of this mint, the task does not ask.
SetAuthority(op, mint, store, minters, only) ==
    /\ mints[mint] # None
    /\ minters = None => only
    /\ Start([run |-> next_run, op |-> op, command |-> "setAuthority",
              mint |-> mint, store |-> store,
              minters |-> minters, only |-> only, freeze |-> None,
              waiting |-> FALSE, step |-> "multisig"])

\* The authority that setAuthority reads with getMint before each transaction.
CurrentAuthority(job) ==
    IF job.step = "mint_authority" THEN mints[job.mint].mint_authority
    ELSE IF job.step = "freeze_authority" THEN mints[job.mint].freeze_authority
    ELSE None

ReadsAuthority(job) == job.step \in {"mint_authority", "freeze_authority"}

-----------------------------------------------------------------------------
(* Transactions: what the chain accepts, and what it does then.            *)

OwnAuthorities(op) ==
    [mint_authority |-> Key(op), freeze_authority |-> Key(op)]

Accepts(tx) ==
    LET job == tx.job
    IN  CASE job.step = "multisig" ->
                /\ multisigs[job.run] = {}
                /\ Cardinality(MultisigSigners(job)) <= MaxSigners
          [] job.step = "token" -> mints[job.run] = None
          [] job.step = "store" -> mints[job.mint] # None /\ stores[job.run] = None
          [] job.step = "authority" -> mints[job.mint] = OwnAuthorities(job.op)
          [] ReadsAuthority(job) -> /\ CurrentAuthority(job) = tx.current
                                    /\ CanSign(job.op, tx.current)
          [] OTHER -> TRUE

CreateMultisig(job) ==
    /\ multisigs' = [multisigs EXCEPT ![job.run] = MultisigSigners(job)]
    /\ UNCHANGED <<mints, stores>>

CreateToken(job) ==
    /\ mints' = [mints EXCEPT ![job.run] = OwnAuthorities(job.op)]
    /\ UNCHANGED <<stores, multisigs>>

InitOft(job) ==
    /\ stores' = [stores EXCEPT ![job.run] =
          [oft_type |-> IF job.command = "adapter" THEN "Adapter" ELSE "Native",
           mint |-> job.mint, admin |-> job.op]]
    /\ UNCHANGED <<mints, multisigs>>

\* Variant: leaves the freeze authority with the wallet.
HandOverHalf(job) ==
    /\ mints' = [mints EXCEPT ![job.mint].mint_authority = NewAuthority(job)]
    /\ UNCHANGED <<stores, multisigs>>

\* Both authorities in one transaction.
HandOver(job) ==
    /\ mints' = [mints EXCEPT ![job.mint] =
          [mint_authority |-> NewAuthority(job),
           freeze_authority |-> NewFreezeAuthority(job)]]
    /\ UNCHANGED <<stores, multisigs>>

MoveMintAuthority(job) ==
    /\ mints' = [mints EXCEPT ![job.mint].mint_authority = NewAuthority(job)]
    /\ UNCHANGED <<stores, multisigs>>

MoveFreezeAuthority(job) ==
    /\ mints' = [mints EXCEPT ![job.mint].freeze_authority =
                     NewFreezeAuthority(job)]
    /\ UNCHANGED <<stores, multisigs>>

Execute(job) ==
    \/ job.step = "multisig" /\ CreateMultisig(job)
    \/ job.step = "token" /\ CreateToken(job)
    \/ job.step = "store" /\ InitOft(job)
    \/ job.step = "authority" /\ HandOver(job)
    \/ job.step = "mint_authority" /\ MoveMintAuthority(job)
    \/ job.step = "freeze_authority" /\ MoveFreezeAuthority(job)

-----------------------------------------------------------------------------
(* sendAndConfirm: submitted if the preflight accepts it, confirmed later.  *)

Submit(op) ==
    LET job == tasks[op]
        tx == [job |-> job, current |-> CurrentAuthority(job)]
    IN  /\ job # None
        /\ ~job.waiting /\ job.step # "save"
        /\ ReadsAuthority(job) => CurrentAuthority(job) # None
        /\ Accepts(tx)
        /\ pool' = pool \cup {tx}
        /\ tasks' = [tasks EXCEPT ![op].waiting = TRUE]
        /\ UNCHANGED <<next_run, chain, files, history>>

\* The task that waits for the transaction, if it is still there.
IsAwaited(tx) ==
    /\ tasks[tx.job.op] # None
    /\ tasks[tx.job.op].run = tx.job.run

Proceed(tx) ==
    IF IsAwaited(tx)
    THEN /\ tasks' = [tasks EXCEPT ![tx.job.op] = Advance(tx.job)]
         /\ finished' = finished \cup Ended(tx.job)
    ELSE UNCHANGED <<tasks, finished>>

Abort(tx) ==
    /\ tasks' = IF IsAwaited(tx) THEN [tasks EXCEPT ![tx.job.op] = None]
                                 ELSE tasks
    /\ UNCHANGED finished

Land(tx) ==
    /\ Accepts(tx)
    /\ pool' = pool \ {tx}
    /\ Execute(tx.job)
    /\ Proceed(tx)
    /\ UNCHANGED <<next_run, files, started, unnoticed>>

\* checkMultisigSigners, assertAccountInitialized: of an account they created the
\* tasks assert that it exists.
IsAsserted(job) == job.step \in {"multisig", "token"}

\* Lands with an error, although the preflight accepted it: another transaction
\* came first, or compute units or lamports do not suffice.  The tasks read the
\* signature that sendAndConfirm returns and not its result, so they go on.
Refuse(tx) ==
    /\ pool' = pool \ {tx}
    /\ \/ IsAsserted(tx.job) /\ Abort(tx) /\ UNCHANGED unnoticed
       \/ /\ ~IsAsserted(tx.job)
          /\ Proceed(tx)
          /\ unnoticed' = IF IsAwaited(tx) THEN unnoticed \cup {tx.job} ELSE unnoticed
    /\ UNCHANGED <<next_run, chain, files, started>>

\* The blockhash is too old and the transaction will not land.
Expire(tx) ==
    /\ pool' = pool \ {tx}
    /\ Abort(tx)
    /\ UNCHANGED <<next_run, chain, files, started, unnoticed>>

\* saveSolanaDeployment replaces the file.
SaveSolanaDeployment(op) ==
    LET job == tasks[op]
    IN  /\ job # None
        /\ job.step = "save"
        /\ files' = [files EXCEPT ![op] =
              [mint |-> job.mint, store |-> job.store,
               mint_authority |-> IF job.command = "adapter"
                                  THEN mints[job.mint].mint_authority
                                  ELSE NewAuthority(job)]]
        /\ tasks' = [tasks EXCEPT ![op] = Advance(job)]
        /\ finished' = finished \cup Ended(job)
        /\ UNCHANGED <<next_run, chain, pool, started, unnoticed>>

\* The process is killed, an RPC call or assertAccountInitialized gives up, a
\* prompt is answered no, the preflight refuses, or the mint read has no
\* authority.
Crash(op) ==
    /\ tasks[op] # None
    /\ tasks' = [tasks EXCEPT ![op] = None]
    /\ UNCHANGED <<next_run, chain, files, pool, history>>

StartSome(op) ==
    \/ \E mint \in Existing \cup {None}, minters \in MinterLists,
          only \in BOOLEAN, freeze \in FreezeAuthorities :
          CreateOFT(op, mint, minters, only, freeze)
    \/ \E mint \in Existing : CreateOFTAdapter(op, mint)
    \/ \E mint \in MintIds, store \in Runs, minters \in MinterLists, only \in BOOLEAN :
          SetAuthority(op, mint, store, minters, only)

Next ==
    \/ \E op \in Operators :
          StartSome(op) \/ Submit(op) \/ SaveSolanaDeployment(op) \/ Crash(op)
    \/ \E tx \in pool : Land(tx) \/ Refuse(tx) \/ Expire(tx)

Spec == Init /\ [][Next]_vars

-----------------------------------------------------------------------------
\* A mint always has a mint authority, a store an admin, and files and jobs are
\* well formed.
TypeOK ==
    /\ next_run \in 1 .. (MaxRuns + 1)
    /\ mints \in [MintIds -> {None} \cup MintAccounts]
    /\ stores \in [Runs -> {None} \cup StoreAccounts]
    /\ multisigs \in [Runs -> SUBSET Accounts]
    /\ files \in [Operators -> {None} \cup
          [mint : MintIds, store : Runs, mint_authority : Accounts]]
    /\ tasks \in [Operators -> {None} \cup Jobs]
    /\ pool \subseteq Transactions
    /\ started \subseteq Jobs /\ finished \subseteq Runs /\ unnoticed \subseteq Jobs

\* Whoever holds a key, or a store the program can sign for.
IsAlive(signer) == signer.kind = "key" \/ stores[signer.of] # None

\* The run took a transaction of this step for done, and it had failed.
Failed(step, run) == \E job \in unnoticed : job.step = step /\ job.run = run

\* setAuthority was told to let a store mint that is not the mint's own.
Diverted(mint) ==
    \E job \in started :
        job.command = "setAuthority" /\ job.mint = mint /\ job.store # mint

\* A store that setAuthority was told to name, or whose own init-oft failed
\* and createOFT went on.
Excused(signer, mint) ==
    \/ Failed("store", signer.of)
    \/ \E job \in started :
           job.command = "setAuthority" /\ job.mint = mint /\ job.store = signer.of

\* A mint authority nobody can sign for is one that was asked for, or one that
\* an unnoticed failure of init-oft left (createOFT.ts:337): no crash, no lost
\* or late transaction between the steps makes one.
MintAuthorityAlive ==
    \A m \in MintIds : mints[m] # None =>
        \E signer \in SignersOf(mints[m].mint_authority) :
            IsAlive(signer) \/ Excused(signer, m)

\* An OFT.json describes a deployment that works, as long as it is there: the
\* store exists for its mint and can mint what createOFT created.  What can
\* make it wrong is a transaction that failed and was taken for done
\* (createOFT.ts:337, :367), or a setAuthority for another store.
FilesAreUsable ==
    \A op \in Operators : files[op] # None =>
        LET file == files[op]
        IN  /\ ~Failed("store", file.store) =>
                   stores[file.store] # None /\ stores[file.store].mint = file.mint
            /\ /\ file.mint \in Runs
               /\ ~Failed("authority", file.store) /\ ~Diverted(file.mint)
               => Store(file.store) \in SignersOf(mints[file.mint].mint_authority)

\* --only-oft-store is for ever: once createOFT ended, only the store can mint
\* and the freeze authority is the one given or none, whatever setAuthority
\* is asked for afterwards; unless its own hand-over failed, which it does not
\* tell from success (createOFT.ts:367).
OnlyStoreMints ==
    \A job \in started :
        /\ NewToken(job) /\ job.only
        /\ job.run \in finished /\ ~Failed("authority", job.run)
        => /\ SignersOf(mints[job.mint].mint_authority) = {Store(job.store)}
           /\ mints[job.mint].freeze_authority =
                 IF job.freeze = None THEN None ELSE Key(job.freeze)

\* Who created a mint and lists itself in every task on it can sign for both
\* its authorities at every moment, so a setAuthority that stopped between
\* its two transactions can be repeated (setAuthority.ts:152).
ListedOperatorKeepsControl ==
    \A job \in started :
        /\ NewToken(job)
        /\ mints[job.mint] # None
        /\ \A other \in started :
              other.mint = job.mint => other.minters # None /\ job.op \in other.minters
        => /\ CanSign(job.op, mints[job.mint].mint_authority)
           /\ CanSign(job.op, mints[job.mint].freeze_authority)

\* After createOFT ended, the wallet that created the mint has no power over
\* it unless it was given some, as a minter or as the freeze authority, or the
\* hand-over failed unnoticed.
CreatorLetsGo ==
    \A job \in started :
        NewToken(job) /\ job.run \in finished /\ ~Failed("authority", job.run) =>
            LET listed == \E other \in started :
                    /\ other.mint = job.mint /\ other.minters # None
                    /\ job.op \in other.minters
            IN  /\ CanSign(job.op, mints[job.mint].mint_authority) => listed
                /\ CanSign(job.op, mints[job.mint].freeze_authority) =>
                       listed \/ job.freeze = job.op

\* README.md:281 of the repository: with --additional-minters "" the
\* additional minters can be updated later on.  setAuthority, which would do
\* it, signs with a key.
MintersUpdatable ==
    \A job \in started :
        NewToken(job) /\ job.minters # None /\ job.run \in finished =>
            \E k \in Keys : CanSign(k, mints[job.mint].mint_authority)
=============================================================================
