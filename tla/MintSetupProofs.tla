---------------------------- MODULE MintSetupProofs ----------------------------
(***************************************************************************)
(* What the setup of a mint can end in, for any operators, keys, mints and   *)
(* number of tasks.  The invariant says of every task and of every           *)
(* transaction under way, however old, what the chain already has of it.      *)
(* Two more say who is left with power over a mint: OInv of the mints only     *)
(* their store may mint, PInv of the wallets that created one.                 *)
(***************************************************************************)
EXTENDS MintSetup, TLAPS

HasMultisig(job) ==
    \/ job.command = "setAuthority"
    \/ job.command = "create" /\ job.minters # None

\* Which steps a command reaches, and with which mint and store.
Plausible(job) ==
    /\ job.command = "setAuthority" =>
          job.step \in {"multisig", "mint_authority", "freeze_authority"}
    /\ job.command = "adapter" => job.step \in {"store", "save"} /\ job.mint \in Existing
    /\ job.command = "create" =>
          /\ job.step \in {"multisig", "token", "store", "authority", "save"}
          /\ job.mint \in Existing \cup {job.run}
    /\ job.command # "setAuthority" => job.store = job.run
    /\ job.step \in {"token", "authority"} => NewToken(job)

\* The store of a mint that a task created can mint.
Housed(m) == Store(m) \in SignersOf(mints[m].mint_authority)

SameRequest(j, k) ==
    /\ j.run = k.run /\ j.op = k.op /\ j.command = k.command /\ j.mint = k.mint
    /\ j.store = k.store /\ j.minters = k.minters /\ j.only = k.only /\ j.freeze = k.freeze

\* What the chain has when a job is at its step, but for what failed unnoticed.
Ready(job) ==
    /\ Plausible(job)
    /\ \E j \in started : SameRequest(j, job)
    /\ \/ job.command = "setAuthority"
       \/ NewToken(job) /\ job.step \notin {"multisig", "token"}
       => mints[job.mint] # None
    /\ job.step \in {"authority", "save"} =>
          \/ Failed("store", job.run)
          \/ stores[job.store] # None /\ stores[job.store].mint = job.mint
    /\ HasMultisig(job) /\ job.step # "multisig" => multisigs[job.run] = MultisigSigners(job)
    /\ job.mint \in Runs /\ job.step = "save" =>
          Housed(job.mint) \/ Failed("authority", job.run) \/ Diverted(job.mint)

ExistingMintsExist == \A m \in Existing : mints[m] # None

\* A store has a mint, and that of a mint some task created is of the same task.
StoresHaveMints ==
    \A s \in Runs : stores[s] # None =>
        /\ mints[stores[s].mint] # None
        /\ stores[s].mint \in Runs => stores[s].mint = s

\* Nothing exists yet of tasks to come.
Fresh ==
    \A r \in Runs : r >= next_run =>
        mints[r] = None /\ stores[r] = None /\ multisigs[r] = {}

\* Each task is started once.
Registry ==
    /\ \A j \in started : j.run < next_run
    /\ \A j, k \in started : j.run = k.run => j = k

\* A file names a mint that exists, and of a task's own mint the task's store.
FilesNameTheirOwn ==
    \A op \in Operators : files[op] # None =>
        /\ mints[files[op].mint] # None
        /\ files[op].mint \in Runs => files[op].store = files[op].mint

TasksReady == \A op \in Operators : tasks[op] # None => Ready(tasks[op]) /\ tasks[op].op = op
PoolReady == \A tx \in pool : Ready(tx.job) /\ tx.job.step # "save"

-----------------------------------------------------------------------------
(* Types.                                                                  *)

\* A step keeps a job's arguments.
LEMMA AdvanceType ==
    ASSUME NEW job \in Jobs, StepAfter(job) # "done"
    PROVE  /\ Advance(job) \in Jobs
           /\ Advance(job) = [job EXCEPT !.step = StepAfter(job), !.waiting = FALSE]
<1>1. StepAfter(job) \in Steps
  BY DEF StepAfter, Steps
<1> QED BY <1>1 DEF Advance, Jobs

LEMMA AuthorityTypes ==
    ASSUME NEW job \in Jobs
    PROVE  /\ NewAuthority(job) \in Accounts
           /\ NewFreezeAuthority(job) \in Accounts \cup {None}
           /\ MultisigSigners(job) \subseteq Accounts
           /\ OwnAuthorities(job.op) \in MintAccounts
<1>1. job.store \in Runs /\ job.run \in Runs /\ job.op \in Keys
  BY DEF Jobs, Keys
<1>2. \A k \in Keys : Key(k) \in Accounts
  BY DEF Key, Accounts
<1>3. \A r \in Runs : Store(r) \in Accounts /\ Multisig(r) \in Accounts
  BY DEF Store, Multisig, Accounts
<1>4. job.freeze # None => job.freeze \in Keys
  BY DEF Jobs
<1>5. job.minters # None => job.minters \subseteq Keys
  BY DEF Jobs
<1>6. NewAuthority(job) \in Accounts
  BY <1>1, <1>3 DEF NewAuthority
<1>7. NewFreezeAuthority(job) \in Accounts \cup {None}
  BY <1>2, <1>4, <1>6 DEF NewFreezeAuthority
<1>8. MultisigSigners(job) \subseteq Accounts
  BY <1>1, <1>2, <1>3, <1>5 DEF MultisigSigners
<1>9. OwnAuthorities(job.op) \in MintAccounts
  BY <1>1, <1>2 DEF OwnAuthorities, MintAccounts
<1> QED BY <1>6, <1>7, <1>8, <1>9

ChainTypes ==
    /\ mints \in [MintIds -> {None} \cup MintAccounts]
    /\ stores \in [Runs -> {None} \cup StoreAccounts]
    /\ multisigs \in [Runs -> SUBSET Accounts]

\* What is on the chain stays, but for the authorities of mints.
Grows ==
    /\ \A m \in MintIds : mints[m] # None => mints'[m] # None
    /\ \A s \in Runs : stores[s] # None => stores'[s] = stores[s]
    /\ \A r \in Runs : multisigs[r] # {} => multisigs'[r] = multisigs[r]

IInv ==
    /\ TypeOK
    /\ ExistingMintsExist
    /\ StoresHaveMints
    /\ Fresh
    /\ Registry
    /\ TasksReady
    /\ PoolReady
    /\ MintAuthorityAlive
    /\ FilesNameTheirOwn
    /\ FilesAreUsable

\* What excuses a mint or a store is never forgotten.
LEMMA ExcusesKept ==
    ASSUME started \subseteq started', unnoticed \subseteq unnoticed'
    PROVE  /\ \A step, run : Failed(step, run) => Failed(step, run)'
           /\ \A m : Diverted(m) => Diverted(m)'
           /\ \A signer, m : Excused(signer, m) => Excused(signer, m)'
BY DEF Failed, Diverted, Excused

LEMMA MintExists ==
    ASSUME ChainTypes, ExistingMintsExist, StoresHaveMints, NEW job \in Jobs, Ready(job),
           job.step \notin {"multisig", "token"} \/ job.command = "setAuthority"
    PROVE  mints[job.mint] # None
<1>1. CASE job.command = "setAuthority"
  BY <1>1 DEF Ready
<1>2. CASE job.command # "setAuthority" /\ job.mint \in Existing
  BY <1>2 DEF ExistingMintsExist
<1>3. CASE job.command # "setAuthority" /\ job.mint \notin Existing
  <2>1. NewToken(job)
    BY <1>3 DEF Ready, Plausible, Jobs, Commands, NewToken
  <2> QED BY <1>3, <2>1 DEF Ready
<1> QED BY <1>1, <1>2, <1>3

\* Accepts, case by case.
LEMMA AcceptsCases ==
    ASSUME NEW tx, Accepts(tx)
    PROVE  /\ tx.job.step = "multisig" => multisigs[tx.job.run] = {}
           /\ tx.job.step = "token" => mints[tx.job.run] = None
           /\ tx.job.step = "store" => mints[tx.job.mint] # None /\ stores[tx.job.run] = None
           /\ tx.job.step = "authority" => mints[tx.job.mint] = OwnAuthorities(tx.job.op)
           /\ ReadsAuthority(tx.job) =>
                 CurrentAuthority(tx.job) = tx.current /\ CanSign(tx.job.op, tx.current)
<1>1. CASE tx.job.step = "multisig"
  BY <1>1 DEF Accepts, ReadsAuthority
<1>2. CASE tx.job.step # "multisig"
  BY <1>2 DEF Accepts, ReadsAuthority
<1> QED BY <1>1, <1>2

LEMMA ExecuteTypes ==
    ASSUME MintSetupAssumption, ChainTypes, ExistingMintsExist, StoresHaveMints,
           NEW tx \in Transactions, Ready(tx.job), Accepts(tx), Execute(tx.job)
    PROVE  ChainTypes' /\ Grows
<1> DEFINE job == tx.job
<1>1. job \in Jobs /\ job.run \in Runs /\ job.store \in Runs /\ job.mint \in MintIds
  BY DEF Transactions, Jobs
<1>2. None \notin MintAccounts \cup StoreAccounts
  BY DEF MintSetupAssumption
<1>3. CASE job.step = "multisig" /\ CreateMultisig(job)
  <2>1. multisigs[job.run] = {}
    BY <1>3, AcceptsCases
  <2> QED BY <1>1, <1>3, <2>1, AuthorityTypes DEF CreateMultisig, ChainTypes, Grows
<1>4. CASE job.step = "token" /\ CreateToken(job)
  <2>1. job.run \in MintIds
    BY <1>1 DEF MintIds
  <2>2. OwnAuthorities(job.op) \in MintAccounts
    BY <1>1, AuthorityTypes
  <2> HIDE DEF job
  <2> QED BY <1>1, <1>2, <1>4, <2>1, <2>2 DEF CreateToken, ChainTypes, Grows
<1>5. CASE job.step = "store" /\ InitOft(job)
  <2>1. stores[job.run] = None
    BY <1>5, AcceptsCases
  <2>2. [oft_type |-> IF job.command = "adapter" THEN "Adapter" ELSE "Native",
         mint |-> job.mint, admin |-> job.op] \in StoreAccounts
    BY <1>1 DEF StoreAccounts, Jobs
  <2> HIDE DEF job
  <2> QED BY <1>1, <1>2, <1>5, <2>1, <2>2 DEF InitOft, ChainTypes, Grows
<1>6. ASSUME job.step \in {"authority", "mint_authority", "freeze_authority"}
      PROVE  mints[job.mint] \in MintAccounts
  BY <1>1, <1>6, MintExists DEF ChainTypes
<1>7. NewAuthority(job) \in Accounts /\ NewFreezeAuthority(job) \in Accounts \cup {None}
  BY <1>1, AuthorityTypes
<1>8. CASE job.step = "authority" /\ HandOver(job)
  <2> HIDE DEF job
  <2>1. [mint_authority |-> NewAuthority(job),
         freeze_authority |-> NewFreezeAuthority(job)] \in MintAccounts
    BY <1>7 DEF MintAccounts
  <2> QED BY <1>1, <1>2, <1>8, <2>1 DEF HandOver, ChainTypes, Grows
<1>9. CASE job.step = "mint_authority" /\ MoveMintAuthority(job)
  <2>1. mints[job.mint] \in MintAccounts
    BY <1>6, <1>9
  <2> HIDE DEF job
  <2>2. [mints[job.mint] EXCEPT !.mint_authority = NewAuthority(job)] \in MintAccounts
    BY <1>7, <2>1 DEF MintAccounts
  <2> QED BY <1>1, <1>2, <1>9, <2>2 DEF MoveMintAuthority, ChainTypes, Grows
<1>10. CASE job.step = "freeze_authority" /\ MoveFreezeAuthority(job)
  <2>1. mints[job.mint] \in MintAccounts
    BY <1>6, <1>10
  <2> HIDE DEF job
  <2>2. [mints[job.mint] EXCEPT !.freeze_authority = NewFreezeAuthority(job)] \in MintAccounts
    BY <1>7, <2>1 DEF MintAccounts
  <2> QED BY <1>1, <1>2, <1>10, <2>2 DEF MoveFreezeAuthority, ChainTypes, Grows
<1> QED BY <1>3, <1>4, <1>5, <1>8, <1>9, <1>10 DEF Execute

-----------------------------------------------------------------------------
(* What a landing transaction does to the signers of an authority.         *)

LEMMA SignersKept ==
    ASSUME ChainTypes, Grows, NEW account \in Accounts
    PROVE  /\ SignersOf(account) \subseteq SignersOf(account)'
           /\ SignersOf(account) # {} => SignersOf(account)' = SignersOf(account)
BY DEF ChainTypes, Grows, Accounts, SignersOf

\* The new authority includes the store the job is for.
LEMMA NewAuthorityHouses ==
    ASSUME MintSetupAssumption, ChainTypes, StoresHaveMints, NEW job \in Jobs, Ready(job),
           job.step \in {"authority", "mint_authority"}
    PROVE  /\ Store(job.store) \in SignersOf(NewAuthority(job))
           /\ job.mint \in Runs /\ ~Diverted(job.mint) => job.store = job.mint
<1>1. NewAuthority(job) # None
  BY AuthorityTypes DEF MintSetupAssumption
<1>2. HasMultisig(job) => Store(job.store) \in SignersOf(Multisig(job.run))
  <2> SUFFICES ASSUME HasMultisig(job) PROVE Store(job.store) \in SignersOf(Multisig(job.run))
    OBVIOUS
  <2>1. multisigs[job.run] = MultisigSigners(job)
    BY DEF Ready
  <2>2. Multisig(job.run) # None
    BY DEF MintSetupAssumption, Multisig, Accounts, Jobs
  <2> QED BY <2>1, <2>2 DEF SignersOf, Multisig, MultisigSigners
<1>3. job.command \in {"setAuthority", "create"}
  BY DEF Ready, Plausible, Jobs, Commands
<1>4. Store(job.store) \in SignersOf(NewAuthority(job))
  BY <1>1, <1>2, <1>3 DEF NewAuthority, HasMultisig, SignersOf, Store
<1>5. PICK j \in started : SameRequest(j, job)
  BY DEF Ready
<1>6. ASSUME job.mint \in Runs, ~Diverted(job.mint)
      PROVE  job.store = job.mint
  <2>1. CASE job.command = "setAuthority"
    BY <1>5, <1>6, <2>1 DEF Diverted, SameRequest
  <2>2. CASE job.command = "create"
    BY <1>6, <2>2 DEF Ready, Plausible, MintSetupAssumption
  <2> QED BY <1>3, <2>1, <2>2
<1> QED BY <1>4, <1>6

\* What becomes of one mint.
LEMMA MintChanges ==
    ASSUME MintSetupAssumption, ChainTypes, ExistingMintsExist, StoresHaveMints,
           NEW job \in Jobs, NEW tx, job = tx.job, Ready(job), Accepts(tx), Execute(job),
           NEW m \in MintIds
    PROVE  \/ mints'[m] = mints[m]
           \/ /\ job.step = "token" /\ m = job.run
              /\ mints[m] = None /\ mints'[m] = OwnAuthorities(job.op)
           \/ /\ job.step = "authority" /\ m = job.mint /\ mints[m] = OwnAuthorities(job.op)
              /\ mints'[m] = [mint_authority |-> NewAuthority(job),
                              freeze_authority |-> NewFreezeAuthority(job)]
           \/ /\ job.step = "mint_authority" /\ m = job.mint
              /\ mints'[m].mint_authority = NewAuthority(job)
              /\ mints'[m].freeze_authority = mints[m].freeze_authority
           \/ /\ job.step = "freeze_authority" /\ m = job.mint
              /\ mints'[m].mint_authority = mints[m].mint_authority
              /\ mints'[m].freeze_authority = NewFreezeAuthority(job)
<1>1. job.run \in Runs /\ job.mint \in MintIds
  BY DEF Jobs
<1>2. job.step \in {"mint_authority", "freeze_authority"} => mints[job.mint] \in MintAccounts
  BY <1>1, MintExists DEF ChainTypes
<1>3. CASE job.step = "multisig" /\ CreateMultisig(job)
  BY <1>3 DEF CreateMultisig
<1>4. CASE job.step = "store" /\ InitOft(job)
  BY <1>4 DEF InitOft
<1>5. CASE job.step = "token" /\ CreateToken(job)
  BY <1>5, AcceptsCases DEF CreateToken, ChainTypes
<1>6. CASE job.step = "authority" /\ HandOver(job)
  BY <1>6, AcceptsCases DEF HandOver, ChainTypes
<1>7. CASE job.step = "mint_authority" /\ MoveMintAuthority(job)
  BY <1>2, <1>7 DEF MoveMintAuthority, ChainTypes, MintAccounts
<1>8. CASE job.step = "freeze_authority" /\ MoveFreezeAuthority(job)
  BY <1>2, <1>8 DEF MoveFreezeAuthority, ChainTypes, MintAccounts
<1> QED BY <1>3, <1>4, <1>5, <1>6, <1>7, <1>8 DEF Execute

LEMMA RequestedAuthority ==
    ASSUME MintSetupAssumption, ChainTypes, ExistingMintsExist, StoresHaveMints,
           NEW job \in Jobs, NEW tx, job = tx.job, Ready(job), Execute(job),
           job.step \in {"authority", "mint_authority"}
    PROVE  mints'[job.mint].mint_authority = NewAuthority(job)
<1>1. job.mint \in MintIds /\ mints[job.mint] \in MintAccounts
  BY MintExists DEF ChainTypes, Jobs
<1> QED BY <1>1 DEF Execute, HandOver, MoveMintAuthority, ChainTypes, MintAccounts

LEMMA AuthorityKept ==
    ASSUME ChainTypes, Grows, NEW m \in MintIds, mints[m] # None,
           mints'[m].mint_authority = mints[m].mint_authority
    PROVE  SignersOf(mints[m].mint_authority) \subseteq SignersOf(mints[m].mint_authority)'
<1>1. PICK a \in Accounts : a = mints[m].mint_authority
  BY DEF ChainTypes, MintAccounts
<1>2. SignersOf(a) \subseteq SignersOf(a)'
  BY SignersKept
<1> QED BY <1>1, <1>2

\* A new authority includes the store also after the step.
LEMMA NewAuthorityLasts ==
    ASSUME MintSetupAssumption, ChainTypes, StoresHaveMints, NEW job \in Jobs, Ready(job),
           Grows, job.step \in {"authority", "mint_authority"},
           NEW m \in MintIds, mints'[m].mint_authority = NewAuthority(job)
    PROVE  Store(job.store) \in SignersOf(mints[m].mint_authority)'
<1>1. Store(job.store) \in SignersOf(NewAuthority(job)) /\ NewAuthority(job) \in Accounts
  BY NewAuthorityHouses, AuthorityTypes
<1>2. Store(job.store) \in SignersOf(NewAuthority(job))'
  BY <1>1, SignersKept
<1> QED BY <1>2

LEMMA HousedKept ==
    ASSUME MintSetupAssumption, ChainTypes, ExistingMintsExist, StoresHaveMints,
           NEW tx \in Transactions, Ready(tx.job), Accepts(tx), Execute(tx.job),
           NEW m \in Runs, mints[m] # None
    PROVE  ~Diverted(m) =>
               /\ Housed(m) => Housed(m)'
               /\ tx.job.step \in {"authority", "mint_authority"} /\ tx.job.mint = m => Housed(m)'
<1> DEFINE job == tx.job
<1> SUFFICES ASSUME ~Diverted(m)
             PROVE  /\ Housed(m) => Housed(m)'
                    /\ job.step \in {"authority", "mint_authority"} /\ job.mint = m => Housed(m)'
  OBVIOUS
<1>1. job \in Jobs /\ m \in MintIds
  BY DEF Transactions, MintIds
<1>2. Grows
  BY ExecuteTypes
<1>3. CASE job.step \in {"authority", "mint_authority"} /\ job.mint = m
  <2>1. mints'[m].mint_authority = NewAuthority(job)
    BY <1>1, <1>3, RequestedAuthority
  <2>2. Store(job.store) \in SignersOf(mints[m].mint_authority)' /\ job.store = m
    BY <1>1, <1>2, <1>3, <2>1, NewAuthorityLasts, NewAuthorityHouses
  <2> QED BY <1>3, <2>2 DEF Housed
<1>4. CASE ~(job.step \in {"authority", "mint_authority"} /\ job.mint = m)
  <2>1. mints'[m].mint_authority = mints[m].mint_authority
    BY <1>1, <1>4, MintChanges
  <2>2. SignersOf(mints[m].mint_authority) \subseteq SignersOf(mints[m].mint_authority)'
    BY <1>1, <1>2, <2>1, AuthorityKept
  <2> QED BY <1>4, <2>2 DEF Housed
<1> QED BY <1>3, <1>4

-----------------------------------------------------------------------------
(* A transaction lands.                                                    *)

LEMMA LandKeepsAlive ==
    ASSUME MintSetupAssumption, ChainTypes, ExistingMintsExist, StoresHaveMints,
           MintAuthorityAlive, UNCHANGED <<started, unnoticed>>,
           NEW tx \in Transactions, Ready(tx.job), Accepts(tx), Execute(tx.job)
    PROVE  MintAuthorityAlive'
<1> DEFINE job == tx.job
<1> SUFFICES ASSUME NEW m \in MintIds, mints'[m] # None
             PROVE  \E signer \in SignersOf(mints[m].mint_authority)' :
                       IsAlive(signer)' \/ Excused(signer, m)'
  BY DEF MintAuthorityAlive
<1>1. job \in Jobs
  BY DEF Transactions
<1>2. ChainTypes' /\ Grows
  BY ExecuteTypes
<1>3. CASE mints[m] # None /\ mints'[m].mint_authority = mints[m].mint_authority
  <2>1. PICK signer \in SignersOf(mints[m].mint_authority) : IsAlive(signer) \/ Excused(signer, m)
    BY <1>3 DEF MintAuthorityAlive
  <2>2. signer \in SignersOf(mints[m].mint_authority)'
    BY <1>2, <1>3, AuthorityKept
  <2>3. signer \in Accounts
    BY <1>3, <2>1 DEF SignersOf, ChainTypes, MintAccounts, Accounts
  <2>4. IsAlive(signer) => IsAlive(signer)'
    BY <1>2, <2>3 DEF IsAlive, Grows, Accounts, MintSetupAssumption
  <2>5. Excused(signer, m) => Excused(signer, m)'
    BY ExcusesKept
  <2> QED BY <2>1, <2>2, <2>4, <2>5
<1>4. CASE mints'[m] = OwnAuthorities(job.op)
  <2>1. mints'[m].mint_authority = Key(job.op)
    BY <1>4 DEF OwnAuthorities
  <2>2. Key(job.op) \in Accounts
    BY <1>1, AuthorityTypes DEF OwnAuthorities, MintAccounts
  <2>3. SignersOf(mints[m].mint_authority)' = {Key(job.op)}
    BY <2>1, <2>2 DEF SignersOf, Key, MintSetupAssumption
  <2> QED BY <2>3 DEF IsAlive, Key
<1>5. CASE /\ job.step \in {"authority", "mint_authority"} /\ m = job.mint
           /\ mints'[m].mint_authority = NewAuthority(job)
  <2>1. Store(job.store) \in SignersOf(mints[m].mint_authority)'
    BY <1>1, <1>2, <1>5, NewAuthorityLasts
  <2>2. job.store \in Runs /\ Store(job.store).kind = "store" /\ Store(job.store).of = job.store
    BY <1>1 DEF Jobs, Store
  <2>3. CASE job.step = "authority"
    <3>1. Failed("store", job.store) \/ stores[job.store] # None
      BY <1>1, <2>3 DEF Ready, Plausible, NewToken
    <3>2. Failed("store", job.store) => Excused(Store(job.store), m)'
      BY <2>2 DEF Excused, Failed
    <3>3. stores[job.store] # None => IsAlive(Store(job.store))'
      BY <1>2, <2>2 DEF IsAlive, Grows
    <3> QED BY <2>1, <3>1, <3>2, <3>3
  <2>4. CASE job.step = "mint_authority"
    <3>1. PICK j \in started : SameRequest(j, job)
      BY DEF Ready
    <3>2. j.command = "setAuthority" /\ j.mint = m /\ j.store = job.store
      BY <1>1, <1>5, <2>4, <3>1 DEF SameRequest, Ready, Plausible, Jobs, Commands
    <3>3. Excused(Store(job.store), m)'
      BY <2>2, <3>2 DEF Excused
    <3> QED BY <2>1, <3>3
  <2> QED BY <1>5, <2>3, <2>4
<1>6. job.step = "freeze_authority" => mints[job.mint] # None
  BY <1>1, MintExists
<1>7. \/ mints'[m] = mints[m]
      \/ mints'[m] = OwnAuthorities(job.op)
      \/ /\ job.step \in {"authority", "mint_authority"} /\ m = job.mint
         /\ mints'[m].mint_authority = NewAuthority(job)
      \/ mints[m] # None /\ mints'[m].mint_authority = mints[m].mint_authority
  <2>1. job = tx.job /\ Ready(job) /\ Execute(job)
    OBVIOUS
  <2> HIDE DEF job
  <2>2. CASE mints'[m] = mints[m]
    BY <2>2
  <2>3. CASE job.step = "token" /\ mints'[m] = OwnAuthorities(job.op)
    BY <2>3
  <2>4. CASE /\ job.step = "authority" /\ m = job.mint
             /\ mints'[m] = [mint_authority |-> NewAuthority(job),
                             freeze_authority |-> NewFreezeAuthority(job)]
    BY <2>4
  <2>5. CASE /\ job.step = "mint_authority" /\ m = job.mint
             /\ mints'[m].mint_authority = NewAuthority(job)
    BY <2>5
  <2>6. CASE /\ job.step = "freeze_authority" /\ m = job.mint
             /\ mints'[m].mint_authority = mints[m].mint_authority
    BY <1>6, <2>6
  <2> QED BY <1>1, <2>1, <2>2, <2>3, <2>4, <2>5, <2>6, MintChanges
<1> QED BY <1>3, <1>4, <1>5, <1>7

LEMMA LandKeepsChain ==
    ASSUME MintSetupAssumption, ChainTypes, ExistingMintsExist, StoresHaveMints, Fresh, Registry,
           NEW tx \in Transactions, Ready(tx.job), Accepts(tx), Execute(tx.job),
           next_run \in Nat, started \subseteq Jobs, UNCHANGED <<next_run, started>>
    PROVE  ExistingMintsExist' /\ StoresHaveMints' /\ Fresh' /\ Registry'
<1> DEFINE job == tx.job
<1>1. job \in Jobs /\ job.run \in Runs /\ job.mint \in MintIds
  BY DEF Transactions, Jobs
<1>2. ChainTypes' /\ Grows
  BY ExecuteTypes
<1>3. PICK j \in started : SameRequest(j, job)
  BY DEF Ready
<1>4. job.run < next_run
  BY <1>3 DEF Registry, SameRequest
<1>5. ExistingMintsExist'
  BY <1>2 DEF ExistingMintsExist, Grows, MintIds
<1>6. stores' = stores \/ (/\ job.step = "store" /\ InitOft(job) /\ mints[job.mint] # None
                           /\ \A s \in Runs : s # job.run => stores'[s] = stores[s]
                           /\ stores'[job.run].mint = job.mint)
  <2>1. job.step = "store" => mints[job.mint] # None
    BY AcceptsCases
  <2>2. Execute(job)
    OBVIOUS
  <2> HIDE DEF job
  <2> QED BY <1>1, <2>1, <2>2 DEF Execute, CreateMultisig, CreateToken, InitOft, HandOver,
        MoveMintAuthority, MoveFreezeAuthority, ChainTypes
<1>7. StoresHaveMints'
  <2> SUFFICES ASSUME NEW s \in Runs, stores'[s] # None
               PROVE  /\ mints'[stores'[s].mint] # None
                      /\ stores'[s].mint \in Runs => stores'[s].mint = s
    BY DEF StoresHaveMints
  <2>1. CASE stores'[s] = stores[s]
    BY <1>2, <2>1 DEF StoresHaveMints, ChainTypes, StoreAccounts, Grows
  <2>2. CASE stores'[s] # stores[s]
    <3>1. s = job.run /\ stores'[s].mint = job.mint /\ mints[job.mint] # None /\ job.step = "store"
      BY <1>6, <2>2
    <3>2. job.mint \in Runs => job.mint = job.run
      BY <1>1, <3>1 DEF Ready, Plausible, Jobs, Commands, MintSetupAssumption
    <3> QED BY <1>1, <1>2, <3>1, <3>2 DEF Grows
  <2> QED BY <2>1, <2>2
<1>8. Fresh'
  <2>1. \A r \in Runs : r >= next_run => r # job.run
    BY <1>1, <1>4 DEF Runs
  <2>2. job.step \in {"authority", "mint_authority", "freeze_authority"} => mints[job.mint] # None
    BY <1>1, MintExists
  <2>3. Execute(job)
    OBVIOUS
  <2> HIDE DEF job
  <2> SUFFICES ASSUME NEW r \in Runs, r >= next_run
               PROVE  mints'[r] = None /\ stores'[r] = None /\ multisigs'[r] = {}
    BY DEF Fresh
  <2>4. mints[r] = None /\ stores[r] = None /\ multisigs[r] = {} /\ r # job.run /\ r \in MintIds
    BY <2>1 DEF Fresh, MintIds
  <2> QED BY <1>1, <2>2, <2>3, <2>4 DEF Execute, CreateMultisig, CreateToken, InitOft, HandOver,
        MoveMintAuthority, MoveFreezeAuthority, ChainTypes
<1>9. Registry'
  BY DEF Registry
<1> QED BY <1>5, <1>7, <1>8, <1>9

LEMMA ReadyKept ==
    ASSUME MintSetupAssumption, ChainTypes, ExistingMintsExist, StoresHaveMints,
           NEW tx \in Transactions, Ready(tx.job), Accepts(tx), Execute(tx.job),
           UNCHANGED <<started, unnoticed>>,
           NEW job \in Jobs, Ready(job)
    PROVE  Ready(job)'
<1>1. ChainTypes' /\ Grows
  BY ExecuteTypes
<1>2. Plausible(job)' /\ (\E j \in started : SameRequest(j, job))'
  BY DEF Ready, Plausible, SameRequest, NewToken
<1>3. ASSUME \/ job.command = "setAuthority"
             \/ NewToken(job) /\ job.step \notin {"multisig", "token"}
      PROVE  mints'[job.mint] # None
  BY <1>1, <1>3 DEF Ready, Grows, Jobs
<1>4. ASSUME job.step \in {"authority", "save"}
      PROVE  \/ Failed("store", job.run)'
             \/ stores'[job.store] # None /\ stores'[job.store].mint = job.mint
  BY <1>1, <1>4, ExcusesKept DEF Ready, Grows, Jobs
<1>5. ASSUME HasMultisig(job), job.step # "multisig"
      PROVE  multisigs'[job.run] = MultisigSigners(job)
  <2>1. multisigs[job.run] = MultisigSigners(job) /\ multisigs[job.run] # {}
    BY <1>5 DEF Ready, MultisigSigners
  <2> QED BY <1>1, <2>1 DEF Grows, Jobs
<1>6. ASSUME job.mint \in Runs, job.step = "save"
      PROVE  Housed(job.mint)' \/ Failed("authority", job.run)' \/ Diverted(job.mint)'
  <2>1. mints[job.mint] # None
    BY <1>6, MintExists
  <2>2. Housed(job.mint) \/ Failed("authority", job.run) \/ Diverted(job.mint)
    BY <1>6 DEF Ready
  <2> QED BY <1>6, <2>1, <2>2, HousedKept, ExcusesKept
<1> QED BY <1>2, <1>3, <1>4, <1>5, <1>6 DEF Ready, NewToken, HasMultisig, MultisigSigners

\* Where the chain does not change, nothing said about it does.
LEMMA ChainUnchanged ==
    ASSUME UNCHANGED chain, started \subseteq started', unnoticed \subseteq unnoticed'
    PROVE  /\ ExistingMintsExist => ExistingMintsExist'
           /\ StoresHaveMints => StoresHaveMints'
           /\ MintAuthorityAlive => MintAuthorityAlive'
           /\ \A m : Housed(m)' <=> Housed(m)
<1>1. mints' = mints /\ stores' = stores /\ multisigs' = multisigs
  BY DEF chain
<1>2. ExistingMintsExist => ExistingMintsExist'
  BY <1>1 DEF ExistingMintsExist
<1>3. StoresHaveMints => StoresHaveMints'
  BY <1>1 DEF StoresHaveMints
<1>4. MintAuthorityAlive => MintAuthorityAlive'
  <2>1. \A a : SignersOf(a)' = SignersOf(a)
    BY <1>1 DEF SignersOf
  <2>2. \A signer : IsAlive(signer) => IsAlive(signer)'
    BY <1>1 DEF IsAlive
  <2>3. \A signer, m : Excused(signer, m) => Excused(signer, m)'
    BY ExcusesKept
  <2> QED BY <1>1, <2>1, <2>2, <2>3 DEF MintAuthorityAlive
<1>5. \A m : Housed(m)' <=> Housed(m)
  BY <1>1 DEF Housed, SignersOf
<1> QED BY <1>2, <1>3, <1>4, <1>5

\* Nor what is said of the files, if no file is written.
LEMMA FilesUnchanged ==
    ASSUME UNCHANGED <<chain, files>>, started \subseteq started', unnoticed \subseteq unnoticed'
    PROVE  /\ FilesNameTheirOwn => FilesNameTheirOwn'
           /\ FilesAreUsable => FilesAreUsable'
<1>1. mints' = mints /\ stores' = stores /\ multisigs' = multisigs /\ files' = files
  BY DEF chain
<1>2. FilesNameTheirOwn => FilesNameTheirOwn'
  BY <1>1 DEF FilesNameTheirOwn
<1>3. \A a : SignersOf(a)' = SignersOf(a)
  BY <1>1 DEF SignersOf
<1>4. FilesAreUsable => FilesAreUsable'
  BY <1>1, <1>3, ExcusesKept DEF FilesAreUsable
<1> QED BY <1>2, <1>4

LEMMA ReadyUnchanged ==
    ASSUME UNCHANGED chain, started \subseteq started', unnoticed \subseteq unnoticed',
           NEW job, Ready(job)
    PROVE  Ready(job)'
<1>1. mints' = mints /\ stores' = stores /\ multisigs' = multisigs
  BY DEF chain
<1>2. Housed(job.mint)' <=> Housed(job.mint)
  BY <1>1 DEF Housed, SignersOf
<1>3. Plausible(job)' /\ (\E j \in started : SameRequest(j, job))'
  BY DEF Ready, Plausible, SameRequest, NewToken
<1> QED BY <1>1, <1>2, <1>3, ExcusesKept DEF Ready, NewToken, HasMultisig, MultisigSigners

-----------------------------------------------------------------------------
(* A task goes on.                                                         *)

\* What a step has to leave for the next one.
CanAdvance(job) ==
    /\ Ready(job)
    /\ StepAfter(job) # "done"
    /\ job.step = "multisig" => multisigs[job.run] = MultisigSigners(job)
    /\ job.step = "token" => mints[job.mint] # None
    /\ job.step = "store" =>
          \/ Failed("store", job.run)
          \/ stores[job.store] # None /\ stores[job.store].mint = job.mint
    /\ job.step = "authority" =>
          Housed(job.mint) \/ Failed("authority", job.run) \/ Diverted(job.mint)

LEMMA AdvanceReady ==
    MintSetupAssumption => \A job \in Jobs : CanAdvance(job) => Ready(Advance(job))
<1> SUFFICES ASSUME MintSetupAssumption, NEW job \in Jobs, CanAdvance(job)
             PROVE  Ready(Advance(job))
  OBVIOUS
<1> DEFINE after == [job EXCEPT !.step = StepAfter(job), !.waiting = FALSE]
<1>1. Ready(job) /\ StepAfter(job) # "done" /\ Advance(job) = after
  BY AdvanceType DEF CanAdvance
<1>2. /\ after.run = job.run /\ after.op = job.op /\ after.command = job.command
      /\ after.mint = job.mint /\ after.store = job.store /\ after.minters = job.minters
      /\ after.only = job.only /\ after.freeze = job.freeze /\ after.step = StepAfter(job)
  BY DEF Jobs
<1>3. /\ NewToken(after) <=> NewToken(job)
      /\ HasMultisig(after) <=> HasMultisig(job)
      /\ MultisigSigners(after) = MultisigSigners(job)
  BY <1>2 DEF NewToken, HasMultisig, MultisigSigners
<1>4. Plausible(job) /\ job.command \in Commands
  BY <1>1 DEF Ready, Jobs
<1>5. \/ /\ job.step = "multisig" /\ job.command = "setAuthority" /\ after.step = "mint_authority"
      \/ /\ job.step = "multisig" /\ job.command = "create"
         /\ after.step = IF NewToken(job) THEN "token" ELSE "store"
      \/ job.step = "token" /\ NewToken(job) /\ after.step = "store"
      \/ job.step = "store" /\ NewToken(job) /\ after.step = "authority"
      \/ /\ job.step = "store" /\ ~NewToken(job) /\ job.mint \in Existing /\ after.step = "save"
      \/ job.step = "authority" /\ NewToken(job) /\ after.step = "save"
      \/ /\ job.step = "mint_authority" /\ job.command = "setAuthority"
         /\ after.step = "freeze_authority"
  <2>1. job.step \in {"multisig", "token", "store", "authority", "mint_authority"}
    BY <1>1 DEF StepAfter, Jobs, Steps
  <2>2. CASE job.step = "multisig"
    BY <1>2, <1>4, <2>2 DEF Plausible, Commands, StepAfter
  <2>3. CASE job.step = "token"
    BY <1>2, <1>4, <2>3 DEF Plausible, StepAfter
  <2>4. CASE job.step = "store"
    <3>1. NewToken(job) \/ job.mint \in Existing
      BY <1>4, <2>4 DEF Plausible, Commands, NewToken
    <3> QED BY <1>2, <2>4, <3>1 DEF StepAfter
  <2>5. CASE job.step = "authority"
    BY <1>2, <1>4, <2>5 DEF Plausible, StepAfter
  <2>6. CASE job.step = "mint_authority"
    BY <1>2, <1>4, <2>6 DEF Plausible, Commands, StepAfter
  <2> QED BY <2>1, <2>2, <2>3, <2>4, <2>5, <2>6
<1> HIDE DEF after
<1>6. Plausible(after)
  <2>1. after.command = "setAuthority" => after.step \in {"mint_authority", "freeze_authority"}
    BY <1>2, <1>4, <1>5 DEF Plausible, NewToken
  <2>2. after.command = "adapter" => after.step = "save" /\ after.mint \in Existing
    BY <1>2, <1>4, <1>5 DEF Plausible, NewToken
  <2>3. after.command = "create" => after.step \in {"token", "store", "authority", "save"}
    BY <1>2, <1>4, <1>5 DEF Plausible, NewToken
  <2>4. after.step \in {"token", "authority"} => NewToken(after)
    BY <1>2, <1>3, <1>5
  <2> QED BY <1>2, <1>4, <2>1, <2>2, <2>3, <2>4 DEF Plausible
<1>7. \E j \in started : SameRequest(j, after)
  BY <1>1, <1>2 DEF Ready, SameRequest
<1>8. ASSUME \/ after.command = "setAuthority"
             \/ NewToken(after) /\ after.step \notin {"multisig", "token"}
      PROVE  mints[after.mint] # None
  BY <1>1, <1>2, <1>3, <1>5, <1>8 DEF Ready, CanAdvance, NewToken
<1>9. ASSUME after.step \in {"authority", "save"}
      PROVE  \/ Failed("store", after.run)
             \/ stores[after.store] # None /\ stores[after.store].mint = after.mint
  BY <1>1, <1>2, <1>5, <1>9 DEF Ready, CanAdvance
<1>10. ASSUME HasMultisig(after), after.step # "multisig"
       PROVE  multisigs[after.run] = MultisigSigners(after)
  BY <1>1, <1>2, <1>3, <1>10 DEF Ready, CanAdvance
<1>11. ASSUME after.mint \in Runs, after.step = "save"
       PROVE  Housed(after.mint) \/ Failed("authority", after.run) \/ Diverted(after.mint)
  BY <1>2, <1>5, <1>11 DEF CanAdvance, MintSetupAssumption
<1> QED BY <1>1, <1>6, <1>7, <1>8, <1>9, <1>10, <1>11 DEF Ready

LEMMA AdvanceReadyNext ==
    (MintSetupAssumption => \A job \in Jobs : CanAdvance(job) => Ready(Advance(job)))'
BY AdvanceReady, PTL

LEMMA AdvanceAfterLanding ==
    ASSUME MintSetupAssumption, ChainTypes, ExistingMintsExist, StoresHaveMints,
           NEW tx \in Transactions, Ready(tx.job), Accepts(tx), Execute(tx.job),
           UNCHANGED <<started, unnoticed>>, StepAfter(tx.job) # "done"
    PROVE  Ready(Advance(tx.job))'
<1> DEFINE job == tx.job
<1>1. job \in Jobs /\ job.run \in Runs /\ job.mint \in MintIds /\ job.store \in Runs
  BY DEF Transactions, Jobs
<1>2. Ready(job)'
  BY <1>1, ReadyKept
<1>3. job.step = "multisig" => multisigs'[job.run] = MultisigSigners(job)
  <2>1. Execute(job)
    OBVIOUS
  <2> HIDE DEF job
  <2> QED BY <1>1, <2>1 DEF Execute, CreateMultisig, ChainTypes
<1>4. job.step = "token" => mints'[job.mint] = OwnAuthorities(job.op) /\ mints'[job.mint] # None
  <2>1. Execute(job) /\ (job.step = "token" => NewToken(job)) /\ OwnAuthorities(job.op) # None
    BY <1>1, AuthorityTypes DEF Ready, Plausible, MintSetupAssumption
  <2> HIDE DEF job
  <2> QED BY <1>1, <2>1 DEF Execute, CreateToken, ChainTypes, NewToken
<1>5. job.step = "store" => stores'[job.store] # None /\ stores'[job.store].mint = job.mint
  <2>1. Execute(job) /\ (job.step = "store" => job.store = job.run)
    BY <1>1 DEF Ready, Plausible, Jobs, Commands
  <2>2. ChainTypes'
    BY ExecuteTypes
  <2>3. [oft_type |-> IF job.command = "adapter" THEN "Adapter" ELSE "Native",
         mint |-> job.mint, admin |-> job.op] \in StoreAccounts
    BY <1>1 DEF StoreAccounts, Jobs
  <2> HIDE DEF job
  <2> QED BY <1>1, <2>1, <2>3 DEF Execute, InitOft, ChainTypes, MintSetupAssumption
<1>6. job.step = "authority" => Housed(job.mint)' \/ Diverted(job.mint)'
  <2>1. job.step = "authority" => mints[job.mint] # None /\ job.mint \in Runs
    BY <1>1, MintExists DEF Ready, Plausible, NewToken
  <2> QED BY <2>1, HousedKept, ExcusesKept
<1>7. CanAdvance(job)'
  BY <1>2, <1>3, <1>4, <1>5, <1>6 DEF CanAdvance, StepAfter, NewToken, MultisigSigners
<1>8. MintSetupAssumption' => \A j \in Jobs : CanAdvance(j)' => Ready(Advance(j))'
  BY AdvanceReadyNext
<1> QED BY <1>1, <1>7, <1>8 DEF MintSetupAssumption

-----------------------------------------------------------------------------
(* The invariant holds, action by action.                                  *)

\* The parts of TypeOK beside the chain.
LEMMA TypeParts ==
    TypeOK <=>
        /\ ChainTypes
        /\ next_run \in 1 .. (MaxRuns + 1)
        /\ files \in [Operators -> {None} \cup [mint : MintIds, store : Runs, mint_authority : Accounts]]
        /\ tasks \in [Operators -> {None} \cup Jobs]
        /\ pool \subseteq Transactions
        /\ started \subseteq Jobs
        /\ finished \subseteq Runs
        /\ unnoticed \subseteq Jobs
BY DEF TypeOK, ChainTypes

\* The strengthened invariant holds before any task of the operator is started
\* (createOFT.ts:172, setAuthority.ts:90: no file, no mint of theirs).
THEOREM InitIInv ==
    ASSUME MintSetupAssumption, Init
    PROVE  IInv
<1>1. \A m \in MintIds : mints[m] # None => \E k \in Keys : mints[m].mint_authority = Key(k)
  BY DEF Init, Keys, MintSetupAssumption
<1>2. TypeOK
  <2>1. mints \in [MintIds -> {None} \cup MintAccounts]
    <3>1. \A k \in Operators : Key(k) \in Accounts
      BY DEF Key, Accounts, Keys
    <3> QED BY <3>1 DEF Init, MintAccounts, MintSetupAssumption
  <2>2. next_run \in 1 .. (MaxRuns + 1)
    BY DEF Init, MintSetupAssumption
  <2> QED BY <2>1, <2>2 DEF Init, TypeOK
<1>3. ExistingMintsExist
  BY DEF Init, ExistingMintsExist, MintIds, MintSetupAssumption
<1>4. Fresh
  BY DEF Init, Fresh, MintIds
<1>5. MintAuthorityAlive
  <2> SUFFICES ASSUME NEW m \in MintIds, mints[m] # None
               PROVE  \E signer \in SignersOf(mints[m].mint_authority) : IsAlive(signer)
    BY DEF MintAuthorityAlive
  <2>1. PICK k \in Keys : mints[m].mint_authority = Key(k)
    BY <1>1
  <2>2. Key(k) \in Accounts
    BY DEF Key, Accounts
  <2>3. SignersOf(Key(k)) = {Key(k)}
    BY <2>2 DEF SignersOf, Key, MintSetupAssumption
  <2> QED BY <2>1, <2>3 DEF IsAlive, Key
<1>6. /\ StoresHaveMints /\ Registry /\ TasksReady /\ PoolReady
      /\ FilesNameTheirOwn /\ FilesAreUsable
  BY DEF Init, StoresHaveMints, Registry, TasksReady, PoolReady, FilesNameTheirOwn, FilesAreUsable
<1> QED BY <1>2, <1>3, <1>4, <1>5, <1>6 DEF IInv

LEMMA StartKeeps ==
    ASSUME MintSetupAssumption, IInv, NEW job \in Jobs, job.op \in Operators,
           job.run = next_run, Start(job), Ready(job)'
    PROVE  IInv'
<1> USE DEF IInv
<1>1. UNCHANGED <<chain, files, pool, finished, unnoticed>> /\ started' = started \cup {job}
  BY DEF Start
<1>2. UNCHANGED <<mints, stores, multisigs>>
  BY <1>1 DEF chain
<1>3. next_run \in Runs /\ next_run' = next_run + 1 /\ next_run \in Nat
  BY DEF Start, Runs
<1>4. TypeOK'
  <2>1. next_run' \in 1 .. (MaxRuns + 1)
    BY <1>3 DEF Runs, MintSetupAssumption
  <2>2. tasks' \in [Operators -> {None} \cup Jobs]
    BY DEF Start, TypeOK
  <2> QED BY <1>1, <1>2, <2>1, <2>2 DEF TypeOK
<1>5. ExistingMintsExist' /\ StoresHaveMints' /\ MintAuthorityAlive'
  BY <1>1, ChainUnchanged
<1>6. Fresh'
  BY <1>2, <1>3 DEF Fresh, Runs
<1>7. Registry'
  <2>2. \A j \in started' : j.run < next_run'
    <3>1. \A j \in started : j.run \in Nat
      BY DEF TypeOK, Jobs, Runs
    <3> QED BY <1>1, <1>3, <3>1 DEF Registry
  <2>3. \A j, k \in started' : j.run = k.run => j = k
    BY <1>1, <1>3 DEF Registry
  <2> QED BY <2>2, <2>3 DEF Registry
<1>8. TasksReady'
  <2> SUFFICES ASSUME NEW op \in Operators, tasks'[op] # None
               PROVE  Ready(tasks[op])' /\ tasks'[op].op = op
    BY DEF TasksReady
  <2>1. CASE op = job.op
    <3>1. tasks'[op] = job
      BY <2>1 DEF Start, TypeOK
    <3> QED BY <2>1, <3>1
  <2>2. CASE op # job.op
    <3>1. tasks'[op] = tasks[op]
      BY <2>2 DEF Start, TypeOK
    <3>2. PICK k : k = tasks[op]
      OBVIOUS
    <3>3. Ready(k) /\ k.op = op
      BY <3>1, <3>2 DEF TasksReady
    <3>4. Ready(k)'
      BY <1>1, <3>3, ReadyUnchanged
    <3> QED BY <3>1, <3>2, <3>3, <3>4
  <2> QED BY <2>1, <2>2
<1>9. PoolReady'
  <2>1. \A tx \in pool : Ready(tx.job)'
    BY <1>1, ReadyUnchanged DEF PoolReady
  <2> QED BY <1>1, <2>1 DEF PoolReady
<1>10. FilesNameTheirOwn' /\ FilesAreUsable'
  BY <1>1, FilesUnchanged
<1> QED BY <1>4, <1>5, <1>6, <1>7, <1>8, <1>9, <1>10

\* What a new job needs.
LEMMA NewJobReady ==
    ASSUME NEW job, Start(job), Plausible(job),
           NewToken(job) => job.step \in {"multisig", "token"},
           HasMultisig(job) => job.step = "multisig",
           job.step \notin {"authority", "save"},
           job.command = "setAuthority" => mints[job.mint] # None
    PROVE  Ready(job)'
<1>1. UNCHANGED <<mints, stores, multisigs>> /\ job \in started'
  BY DEF Start, chain
<1>2. (\E j \in started : SameRequest(j, job))'
  BY <1>1 DEF SameRequest
<1>3. Plausible(job)'
  BY DEF Plausible, NewToken
<1> QED BY <1>1, <1>2, <1>3 DEF Ready, NewToken, HasMultisig, MultisigSigners

LEMMA CreateOFTKeeps ==
    ASSUME MintSetupAssumption, IInv,
           NEW op \in Operators, NEW mint \in Existing \cup {None}, NEW minters \in MinterLists,
           NEW only \in BOOLEAN, NEW freeze \in FreezeAuthorities,
           CreateOFT(op, mint, minters, only, freeze)
    PROVE  IInv'
<1>1. PICK job : job = [run |-> next_run, op |-> op, command |-> "create",
                   mint |-> IF mint = None THEN next_run ELSE mint,
                   store |-> next_run, minters |-> minters, only |-> only,
                   freeze |-> freeze, waiting |-> FALSE,
                   step |-> IF minters # None THEN "multisig"
                            ELSE IF mint = None THEN "token" ELSE "store"]
  OBVIOUS
<1>2. Start(job) /\ next_run \in Runs
  BY <1>1 DEF CreateOFT, Start
<1>3. job \in Jobs
  <2>1. minters \in {None} \cup SUBSET Keys /\ freeze \in Keys \cup {None}
    BY DEF MintSetupAssumption
  <2>2. (IF mint = None THEN next_run ELSE mint) \in MintIds
    BY <1>2 DEF MintIds
  <2> QED BY <1>1, <1>2, <2>1, <2>2 DEF Jobs, Commands, Steps
<1>4. Ready(job)'
  <2>1. NewToken(job) => mint = None
    BY <1>1, <1>2 DEF NewToken, MintSetupAssumption
  <2>2. job.mint \in Existing \cup {job.run} /\ (job.step = "token" => NewToken(job))
    BY <1>1 DEF NewToken
  <2>3. Plausible(job)
    BY <1>1, <2>2 DEF Plausible
  <2> QED BY <1>1, <1>2, <2>1, <2>3, NewJobReady DEF HasMultisig
<1>5. job.op = op /\ job.run = next_run
  BY <1>1
<1> QED BY <1>2, <1>3, <1>4, <1>5, StartKeeps

LEMMA CreateOFTAdapterKeeps ==
    ASSUME MintSetupAssumption, IInv, NEW op \in Operators, NEW mint \in Existing,
           CreateOFTAdapter(op, mint)
    PROVE  IInv'
<1>1. PICK job : job = [run |-> next_run, op |-> op, command |-> "adapter", mint |-> mint,
                   store |-> next_run, minters |-> None, only |-> FALSE,
                   freeze |-> None, waiting |-> FALSE, step |-> "store"]
  OBVIOUS
<1>2. Start(job) /\ next_run \in Runs
  BY <1>1 DEF CreateOFTAdapter, Start
<1>3. job \in Jobs
  BY <1>1, <1>2 DEF Jobs, Commands, Steps, MintIds
<1>4. Ready(job)'
  <2>1. Plausible(job) /\ ~NewToken(job)
    BY <1>1, <1>2 DEF Plausible, NewToken, MintSetupAssumption
  <2> QED BY <1>1, <1>2, <2>1, NewJobReady DEF HasMultisig
<1>5. job.op = op /\ job.run = next_run
  BY <1>1
<1> QED BY <1>2, <1>3, <1>4, <1>5, StartKeeps

LEMMA SetAuthorityKeeps ==
    ASSUME MintSetupAssumption, IInv, NEW op \in Operators, NEW mint \in MintIds,
           NEW store \in Runs, NEW minters \in MinterLists, NEW only \in BOOLEAN,
           SetAuthority(op, mint, store, minters, only)
    PROVE  IInv'
<1>1. PICK job : job = [run |-> next_run, op |-> op, command |-> "setAuthority",
                   mint |-> mint, store |-> store,
                   minters |-> minters, only |-> only, freeze |-> None,
                   waiting |-> FALSE, step |-> "multisig"]
  OBVIOUS
<1>2. Start(job) /\ next_run \in Runs /\ mints[mint] # None
  BY <1>1 DEF SetAuthority, Start
<1>3. job \in Jobs
  <2>1. minters \in {None} \cup SUBSET Keys
    BY DEF MintSetupAssumption
  <2> QED BY <1>1, <1>2, <2>1 DEF Jobs, Commands, Steps
<1>4. Ready(job)'
  <2>1. Plausible(job) /\ ~NewToken(job)
    BY <1>1, <1>2 DEF Plausible, NewToken, MintSetupAssumption
  <2> QED BY <1>1, <1>2, <2>1, NewJobReady DEF HasMultisig
<1>5. job.op = op /\ job.run = next_run
  BY <1>1
<1> QED BY <1>2, <1>3, <1>4, <1>5, StartKeeps

LEMMA WaitingReady ==
    ASSUME NEW job \in Jobs, Ready(job)
    PROVE  /\ [job EXCEPT !.waiting = TRUE] \in Jobs
           /\ Ready([job EXCEPT !.waiting = TRUE])
           /\ [job EXCEPT !.waiting = TRUE].op = job.op
<1> DEFINE w == [job EXCEPT !.waiting = TRUE]
<1>1. w \in Jobs /\ \A f \in DOMAIN job : f # "waiting" => w[f] = job[f]
  BY DEF Jobs
<1>2. /\ w.run = job.run /\ w.op = job.op /\ w.command = job.command
      /\ w.mint = job.mint /\ w.store = job.store /\ w.minters = job.minters
      /\ w.only = job.only /\ w.freeze = job.freeze /\ w.step = job.step
  BY DEF Jobs
<1> HIDE DEF w
<1>3. Plausible(w) /\ \E j \in started : SameRequest(j, w)
  BY <1>2 DEF Ready, Plausible, SameRequest, NewToken
<1>4. Ready(w)
  BY <1>2, <1>3 DEF Ready, NewToken, HasMultisig, MultisigSigners
<1> QED BY <1>1, <1>2, <1>4 DEF w

\* A step that leaves the chain and the files alone and starts nothing.
LEMMA QuietKeeps ==
    ASSUME MintSetupAssumption, IInv, UNCHANGED <<next_run, chain, files, started>>,
           tasks' \in [Operators -> {None} \cup Jobs], pool' \subseteq Transactions,
           finished' \subseteq Runs, unnoticed \subseteq unnoticed', unnoticed' \subseteq Jobs,
           \A op \in Operators : tasks'[op] # None =>
               (Ready(tasks'[op]) \/ Ready(tasks[op])') /\ tasks'[op].op = op,
           \A tx \in pool' : Ready(tx.job) /\ tx.job.step # "save"
    PROVE  IInv'
<1> USE DEF IInv
<1>1. UNCHANGED <<mints, stores, multisigs>>
  BY DEF chain
<1>2. TypeOK'
  BY <1>1 DEF TypeOK
<1>3. ExistingMintsExist' /\ StoresHaveMints' /\ MintAuthorityAlive'
  BY ChainUnchanged
<1>4. Fresh' /\ Registry'
  BY <1>1 DEF Fresh, Registry
<1>5. TasksReady'
  <2> SUFFICES ASSUME NEW op \in Operators, tasks'[op] # None
               PROVE  Ready(tasks[op])' /\ tasks'[op].op = op
    BY DEF TasksReady
  <2>1. PICK job : job = tasks'[op]
    OBVIOUS
  <2>2. Ready(job) => Ready(job)'
    BY ReadyUnchanged
  <2> QED BY <2>1, <2>2
<1>6. PoolReady'
  <2>1. \A tx \in pool' : Ready(tx.job)'
    BY ReadyUnchanged
  <2> QED BY <2>1 DEF PoolReady
<1>7. FilesNameTheirOwn' /\ FilesAreUsable'
  BY FilesUnchanged
<1> QED BY <1>2, <1>3, <1>4, <1>5, <1>6, <1>7

LEMMA CrashKeeps ==
    ASSUME MintSetupAssumption, IInv, NEW op \in Operators, Crash(op)
    PROVE  IInv'
<1>1. UNCHANGED <<next_run, chain, files, started, pool, finished, unnoticed>>
  BY DEF Crash, history
<1>2. tasks' \in [Operators -> {None} \cup Jobs]
  BY DEF Crash, IInv, TypeOK
<1>3. \A o \in Operators : tasks'[o] # None => Ready(tasks'[o]) /\ tasks'[o].op = o
  BY DEF Crash, IInv, TypeOK, TasksReady
<1>4. \A tx \in pool : Ready(tx.job) /\ tx.job.step # "save"
  BY DEF IInv, PoolReady
<1>5. pool' \subseteq Transactions /\ finished' \subseteq Runs /\ unnoticed' \subseteq Jobs
  BY <1>1 DEF IInv, TypeOK
<1> QED BY <1>1, <1>2, <1>3, <1>4, <1>5, QuietKeeps

LEMMA SubmitKeeps ==
    ASSUME MintSetupAssumption, IInv, NEW op \in Operators, Submit(op)
    PROVE  IInv'
<1>1. PICK job \in Jobs : job = tasks[op] /\ Ready(job) /\ job.op = op /\ job.step # "save"
  BY DEF Submit, IInv, TypeOK, TasksReady
<1>2. PICK tx : tx = [job |-> job, current |-> CurrentAuthority(job)]
  OBVIOUS
<1>3. /\ pool' = pool \cup {tx}
      /\ tasks' = [tasks EXCEPT ![op].waiting = TRUE]
      /\ UNCHANGED <<next_run, chain, files, started, finished, unnoticed>>
  BY <1>1, <1>2 DEF Submit, history
<1>4. ReadsAuthority(job) => CurrentAuthority(job) \in Accounts \cup {None}
  <2>1. ReadsAuthority(job) => mints[job.mint] # None
    BY <1>1, MintExists DEF IInv, ReadsAuthority, TypeOK, ChainTypes
  <2> QED BY <1>1, <2>1 DEF CurrentAuthority, ReadsAuthority, IInv, TypeOK, MintAccounts, Jobs
<1>5. tx \in Transactions
  BY <1>1, <1>2, <1>4 DEF Transactions, CurrentAuthority, ReadsAuthority
<1>7. PICK w : w = [job EXCEPT !.waiting = TRUE]
  OBVIOUS
<1>8. w \in Jobs /\ Ready(w) /\ w.op = op
  BY <1>1, <1>7, WaitingReady
<1>9. tasks' = [tasks EXCEPT ![op] = w]
  BY <1>1, <1>3, <1>7
<1>10. tasks' \in [Operators -> {None} \cup Jobs]
  BY <1>8, <1>9 DEF IInv, TypeOK
<1>11. \A o \in Operators : tasks'[o] # None => Ready(tasks'[o]) /\ tasks'[o].op = o
  BY <1>8, <1>9 DEF IInv, TypeOK, TasksReady
<1>12. \A t \in pool' : Ready(t.job) /\ t.job.step # "save"
  BY <1>1, <1>2, <1>3 DEF IInv, PoolReady
<1>13. pool' \subseteq Transactions /\ finished' \subseteq Runs /\ unnoticed' \subseteq Jobs
  BY <1>3, <1>5 DEF IInv, TypeOK
<1> QED BY <1>3, <1>10, <1>11, <1>12, <1>13, QuietKeeps

\* The task that goes on after a transaction, if it is still there.
LEMMA ProceedTasks ==
    ASSUME IInv, NEW tx \in pool, Proceed(tx) \/ Abort(tx),
           NEW op \in Operators, tasks'[op] # None
    PROVE  \/ tasks'[op] = tasks[op]
           \/ /\ tasks'[op] = Advance(tx.job) /\ StepAfter(tx.job) # "done"
              /\ op = tx.job.op /\ IsAwaited(tx) /\ Proceed(tx)
BY DEF IInv, TypeOK, Proceed, Abort, Advance

LEMMA ProceedTypes ==
    ASSUME IInv, NEW tx \in pool, Proceed(tx) \/ Abort(tx)
    PROVE  tasks' \in [Operators -> {None} \cup Jobs] /\ finished' \subseteq Runs
<1>1. tx.job \in Jobs
  BY DEF IInv, TypeOK, Transactions
<1>2. Advance(tx.job) \in {None} \cup Jobs
  BY <1>1, AdvanceType DEF Advance
<1>3. tx.job.run \in Runs
  BY <1>1 DEF Jobs
<1> QED BY <1>2, <1>3 DEF IInv, TypeOK, Proceed, Abort, Ended

LEMMA ExpireKeeps ==
    ASSUME MintSetupAssumption, IInv, NEW tx \in pool, Expire(tx)
    PROVE  IInv'
<1>1. UNCHANGED <<next_run, chain, files, started, unnoticed>> /\ Abort(tx) /\ pool' = pool \ {tx}
  BY DEF Expire
<1>2. tasks' \in [Operators -> {None} \cup Jobs] /\ finished' \subseteq Runs
  BY <1>1, ProceedTypes
<1>3. \A o \in Operators : tasks'[o] # None => Ready(tasks'[o]) /\ tasks'[o].op = o
  BY <1>1 DEF Abort, IInv, TypeOK, TasksReady
<1>4. \A t \in pool' : Ready(t.job) /\ t.job.step # "save"
  BY <1>1 DEF IInv, PoolReady
<1>5. pool' \subseteq Transactions /\ unnoticed' \subseteq Jobs
  BY <1>1 DEF IInv, TypeOK
<1> QED BY <1>1, <1>2, <1>3, <1>4, <1>5, QuietKeeps

LEMMA AdvancedFields ==
    ASSUME NEW job \in Jobs, StepAfter(job) # "done"
    PROVE  /\ Advance(job).op = job.op /\ Advance(job).run = job.run
           /\ Advance(job).mint = job.mint /\ Advance(job).step = StepAfter(job)
<1>1. Advance(job) = [job EXCEPT !.step = StepAfter(job), !.waiting = FALSE]
  BY AdvanceType
<1> QED BY <1>1 DEF Jobs

LEMMA RefuseKeeps ==
    ASSUME MintSetupAssumption, IInv, NEW tx \in pool, Refuse(tx)
    PROVE  IInv'
<1> DEFINE job == tx.job
<1>1. /\ UNCHANGED <<next_run, chain, files, started>> /\ pool' = pool \ {tx}
      /\ Proceed(tx) \/ Abort(tx)
      /\ unnoticed \subseteq unnoticed' /\ unnoticed' \subseteq unnoticed \cup {job}
  BY DEF Refuse
<1>2. tasks' \in [Operators -> {None} \cup Jobs] /\ finished' \subseteq Runs
  BY <1>1, ProceedTypes
<1>3. tx \in Transactions /\ job \in Jobs /\ Ready(job)
  BY DEF IInv, TypeOK, PoolReady, Transactions
<1>4. ASSUME NEW o \in Operators, tasks'[o] # None
      PROVE  (Ready(tasks'[o]) \/ Ready(tasks[o])') /\ tasks'[o].op = o
  <2>1. CASE tasks'[o] = tasks[o]
    BY <1>4, <2>1 DEF IInv, TasksReady
  <2>2. CASE tasks'[o] # tasks[o]
    <3>1. tasks'[o] = Advance(job) /\ StepAfter(job) # "done" /\ o = job.op /\ IsAwaited(tx)
      BY <1>1, <1>4, <2>2, ProceedTasks
    <3>2. ~Abort(tx)
      BY <1>4, <2>2 DEF Abort, IInv, TypeOK
    <3>3. job.step \notin {"multisig", "token"} /\ job \in unnoticed'
      BY <3>1, <3>2 DEF Refuse, IsAsserted
    <3>4. Failed(job.step, job.run)'
      BY <3>3 DEF Failed
    <3>5. Ready(job)'
      BY <1>1, <1>3, ReadyUnchanged
    <3>6. CanAdvance(job)'
      BY <3>1, <3>3, <3>4, <3>5 DEF CanAdvance, StepAfter, NewToken
    <3>7. Ready(Advance(job))'
      <4>1. MintSetupAssumption' => \A j \in Jobs : CanAdvance(j)' => Ready(Advance(j))'
        BY AdvanceReadyNext
      <4> QED BY <1>3, <3>6, <4>1 DEF MintSetupAssumption
    <3>8. Ready(tasks[o])'
      BY <3>1, <3>7 DEF Advance, StepAfter, NewToken
    <3> QED BY <1>3, <3>1, <3>8, AdvancedFields
  <2> QED BY <2>1, <2>2
<1>5. \A t \in pool' : Ready(t.job) /\ t.job.step # "save"
  BY <1>1 DEF IInv, PoolReady
<1>6. pool' \subseteq Transactions /\ unnoticed' \subseteq Jobs
  BY <1>1, <1>3 DEF IInv, TypeOK
<1> QED BY <1>1, <1>2, <1>4, <1>5, <1>6, QuietKeeps

LEMMA LandKeeps ==
    ASSUME MintSetupAssumption, IInv, NEW tx \in pool, Land(tx)
    PROVE  IInv'
<1> DEFINE job == tx.job
<1>1. /\ Accepts(tx) /\ Execute(job) /\ Proceed(tx) /\ pool' = pool \ {tx}
      /\ UNCHANGED <<next_run, files, started, unnoticed>>
  BY DEF Land
<1>2. tx \in Transactions /\ job \in Jobs /\ Ready(job)
  BY DEF IInv, TypeOK, PoolReady, Transactions
<1>3. ChainTypes /\ ExistingMintsExist /\ StoresHaveMints /\ MintAuthorityAlive /\ Fresh /\ Registry
  BY DEF IInv, TypeOK, ChainTypes
<1>4. ChainTypes' /\ Grows
  BY <1>1, <1>2, <1>3, ExecuteTypes
<1>5. TypeOK'
  <2>1. tasks' \in [Operators -> {None} \cup Jobs] /\ finished' \subseteq Runs
    BY <1>1, ProceedTypes
  <2> QED BY <1>1, <1>4, <2>1 DEF IInv, TypeOK, ChainTypes
<1>6. MintAuthorityAlive'
  BY <1>1, <1>2, <1>3, LandKeepsAlive
<1>7. ExistingMintsExist' /\ StoresHaveMints' /\ Fresh' /\ Registry'
  <2>1. next_run \in Nat /\ started \subseteq Jobs
    BY DEF IInv, TypeOK
  <2> QED BY <1>1, <1>2, <1>3, <2>1, LandKeepsChain
<1>8. TasksReady'
  <2> SUFFICES ASSUME NEW op \in Operators, tasks'[op] # None
               PROVE  Ready(tasks[op])' /\ tasks'[op].op = op
    BY DEF TasksReady
  <2>1. PICK k : k = tasks'[op]
    OBVIOUS
  <2>2. CASE k = tasks[op]
    <3>1. k \in Jobs /\ Ready(k) /\ k.op = op
      BY <2>1, <2>2 DEF IInv, TypeOK, TasksReady
    <3>2. Ready(k)'
      BY <1>1, <1>2, <1>3, <3>1, ReadyKept
    <3> QED BY <2>1, <3>1, <3>2
  <2>3. CASE k # tasks[op]
    <3>1. k = Advance(job) /\ StepAfter(job) # "done" /\ op = job.op
      BY <1>1, <2>1, <2>3, ProceedTasks
    <3>2. Ready(Advance(job))'
      BY <1>1, <1>2, <1>3, <3>1, AdvanceAfterLanding
    <3>3. k.op = op
      BY <1>2, <3>1, AdvancedFields
    <3>4. tasks'[op] = Advance(job)
      BY <2>1, <3>1
    <3>5. Ready(tasks[op])'
      BY <3>2, <3>4 DEF Advance, StepAfter, NewToken
    <3> QED BY <2>1, <3>3, <3>5
  <2> QED BY <2>2, <2>3
<1>9. PoolReady'
  <2> SUFFICES ASSUME NEW t \in pool
               PROVE  Ready(t.job)' /\ t.job.step # "save"
    BY <1>1 DEF PoolReady
  <2>1. t \in Transactions /\ t.job \in Jobs /\ Ready(t.job) /\ t.job.step # "save"
    BY DEF IInv, TypeOK, PoolReady, Transactions
  <2> QED BY <1>1, <1>2, <1>3, <2>1, ReadyKept
<1>10. FilesNameTheirOwn'
  BY <1>1, <1>4 DEF IInv, FilesNameTheirOwn, Grows, TypeOK
<1>11. FilesAreUsable'
  <2> SUFFICES ASSUME NEW op \in Operators, files[op] # None
               PROVE  /\ ~Failed("store", files[op].store)' =>
                             /\ stores'[files[op].store] # None
                             /\ stores'[files[op].store].mint = files[op].mint
                      /\ /\ files[op].mint \in Runs
                         /\ ~Failed("authority", files[op].store)' /\ ~Diverted(files[op].mint)'
                         => Store(files[op].store) \in SignersOf(mints[files[op].mint].mint_authority)'
    BY <1>1 DEF FilesAreUsable
  <2>1. PICK f : f = files[op] /\ f \in [mint : MintIds, store : Runs, mint_authority : Accounts]
    BY DEF IInv, TypeOK
  <2>2. /\ Failed("store", f.store) => Failed("store", f.store)'
        /\ Failed("authority", f.store) => Failed("authority", f.store)'
        /\ Diverted(f.mint) => Diverted(f.mint)'
    BY <1>1, ExcusesKept
  <2>3. ASSUME ~Failed("store", f.store)
        PROVE  stores'[f.store] # None /\ stores'[f.store].mint = f.mint
    <3>1. stores[f.store] # None /\ stores[f.store].mint = f.mint
      BY <2>1, <2>3 DEF IInv, FilesAreUsable
    <3> QED BY <1>4, <2>1, <3>1 DEF Grows
  <2>4. ASSUME f.mint \in Runs, ~Failed("authority", f.store), ~Diverted(f.mint)
        PROVE  Store(f.store) \in SignersOf(mints[f.mint].mint_authority)'
    <3>1. f.mint = f.store /\ mints[f.mint] # None
      BY <2>1, <2>4 DEF IInv, FilesNameTheirOwn
    <3>2. Housed(f.mint)
      BY <2>1, <2>4, <3>1 DEF IInv, FilesAreUsable, Housed
    <3>3. Housed(f.mint)'
      BY <1>1, <1>2, <1>3, <2>4, <3>1, <3>2, HousedKept
    <3> QED BY <3>1, <3>3 DEF Housed
  <2> QED BY <1>1, <2>1, <2>2, <2>3, <2>4
<1> QED BY <1>5, <1>6, <1>7, <1>8, <1>9, <1>10, <1>11 DEF IInv

LEMMA SaveKeeps ==
    ASSUME MintSetupAssumption, IInv, NEW op \in Operators, SaveSolanaDeployment(op)
    PROVE  IInv'
<1>1. PICK job \in Jobs : job = tasks[op] /\ job.step = "save" /\ Ready(job) /\ job.op = op
  BY DEF SaveSolanaDeployment, IInv, TypeOK, TasksReady
<1>2. Advance(job) = None /\ Ended(job) = {job.run}
  BY <1>1 DEF Advance, Ended, StepAfter
<1>3. PICK file : file = [mint |-> job.mint, store |-> job.store,
                          mint_authority |-> IF job.command = "adapter"
                                             THEN mints[job.mint].mint_authority
                                             ELSE NewAuthority(job)]
  OBVIOUS
<1>4. /\ UNCHANGED <<next_run, mints, stores, multisigs, chain, pool, started, unnoticed>>
      /\ files' = [files EXCEPT ![op] = file]
      /\ tasks' = [tasks EXCEPT ![op] = None]
      /\ finished' = finished \cup {job.run}
  BY <1>1, <1>2, <1>3 DEF SaveSolanaDeployment, chain
<1>5. /\ job.store = job.run /\ job.mint \in MintIds /\ mints[job.mint] # None
      /\ job.mint \in Runs => job.store = job.mint
  <2>1. mints[job.mint] # None
    BY <1>1, MintExists DEF IInv, TypeOK, ChainTypes
  <2> QED BY <1>1, <2>1 DEF Ready, Plausible, Jobs, Commands, MintSetupAssumption
<1>6. file \in [mint : MintIds, store : Runs, mint_authority : Accounts]
  <2>1. mints[job.mint] \in MintAccounts
    BY <1>5 DEF IInv, TypeOK
  <2>2. NewAuthority(job) \in Accounts
    BY <1>1, AuthorityTypes
  <2> QED BY <1>1, <1>3, <2>1, <2>2 DEF MintAccounts, Jobs
<1>7. TypeOK'
  BY <1>1, <1>4, <1>6 DEF IInv, TypeOK, Jobs
<1>8. ExistingMintsExist' /\ StoresHaveMints' /\ MintAuthorityAlive'
  BY <1>4, ChainUnchanged DEF IInv
<1>9. Fresh' /\ Registry'
  BY <1>4 DEF IInv, Fresh, Registry
<1>10. TasksReady'
  <2> SUFFICES ASSUME NEW o \in Operators, tasks'[o] # None
               PROVE  Ready(tasks[o])' /\ tasks'[o].op = o
    BY DEF TasksReady
  <2>1. PICK k : k = tasks[o]
    OBVIOUS
  <2>2. tasks'[o] = k /\ Ready(k) /\ k.op = o
    BY <1>4, <2>1 DEF IInv, TypeOK, TasksReady
  <2>3. Ready(k)'
    BY <1>4, <2>2, ReadyUnchanged
  <2> QED BY <2>2, <2>3
<1>11. PoolReady'
  BY <1>4, ReadyUnchanged DEF IInv, PoolReady
<1>12. FilesNameTheirOwn'
  BY <1>3, <1>4, <1>5 DEF IInv, TypeOK, FilesNameTheirOwn
<1>13. FilesAreUsable'
  <2> SUFFICES ASSUME NEW o \in Operators, files'[o] # None
               PROVE  /\ ~Failed("store", files'[o].store) =>
                             /\ stores[files'[o].store] # None
                             /\ stores[files'[o].store].mint = files'[o].mint
                      /\ /\ files'[o].mint \in Runs
                         /\ ~Failed("authority", files'[o].store) /\ ~Diverted(files'[o].mint)
                         => Store(files'[o].store) \in SignersOf(mints[files'[o].mint].mint_authority)
    BY <1>4 DEF FilesAreUsable, SignersOf, Failed, Diverted
  <2>1. CASE o # op
    BY <1>4, <2>1 DEF IInv, TypeOK, FilesAreUsable
  <2>2. CASE o = op
    <3>1. files'[o] = file /\ file.store = job.store /\ file.mint = job.mint
      BY <1>3, <1>4, <2>2 DEF IInv, TypeOK
    <3>2. ASSUME job.mint \in Runs, ~Failed("authority", job.store), ~Diverted(job.mint)
          PROVE  Store(job.store) \in SignersOf(mints[job.mint].mint_authority)
      <4>1. Housed(job.mint)
        BY <1>1, <1>5, <3>2 DEF Ready
      <4> QED BY <1>5, <3>2, <4>1 DEF Housed
    <3>3. ~Failed("store", job.store) => stores[job.store] # None /\ stores[job.store].mint = job.mint
      BY <1>1, <1>5 DEF Ready
    <3> QED BY <3>1, <3>2, <3>3
  <2> QED BY <2>1, <2>2
<1> QED BY <1>7, <1>8, <1>9, <1>10, <1>11, <1>12, <1>13 DEF IInv

\* Every step of a task, of the chain and of the operator keeps it: each
\* transaction in flight, and each one a task will still send, finds on the
\* chain what the code expects there.
THEOREM StepIInv ==
    ASSUME MintSetupAssumption, IInv, [Next]_vars
    PROVE  IInv'
<1>1. ASSUME NEW op \in Operators, StartSome(op)
      PROVE  IInv'
  BY <1>1, CreateOFTKeeps, CreateOFTAdapterKeeps, SetAuthorityKeeps DEF StartSome
<1>2. ASSUME NEW op \in Operators, Submit(op)
      PROVE  IInv'
  BY <1>2, SubmitKeeps
<1>3. ASSUME NEW op \in Operators, SaveSolanaDeployment(op)
      PROVE  IInv'
  BY <1>3, SaveKeeps
<1>4. ASSUME NEW op \in Operators, Crash(op)
      PROVE  IInv'
  BY <1>4, CrashKeeps
<1>5. ASSUME NEW tx \in pool, Land(tx)
      PROVE  IInv'
  BY <1>5, LandKeeps
<1>6. ASSUME NEW tx \in pool, Refuse(tx)
      PROVE  IInv'
  BY <1>6, RefuseKeeps
<1>7. ASSUME NEW tx \in pool, Expire(tx)
      PROVE  IInv'
  BY <1>7, ExpireKeeps
<1>8. CASE UNCHANGED vars
  <2>1. UNCHANGED <<next_run, chain, files, tasks, pool, started, finished, unnoticed>>
    BY <1>8 DEF vars, history
  <2>2. \A op \in Operators : tasks'[op] # None => Ready(tasks'[op]) /\ tasks'[op].op = op
    BY <2>1 DEF IInv, TasksReady
  <2>3. \A tx \in pool' : Ready(tx.job) /\ tx.job.step # "save"
    BY <2>1 DEF IInv, PoolReady
  <2>4. /\ tasks' \in [Operators -> {None} \cup Jobs] /\ pool' \subseteq Transactions
        /\ finished' \subseteq Runs /\ unnoticed' \subseteq Jobs
    BY <2>1 DEF IInv, TypeOK
  <2> QED BY <2>1, <2>2, <2>3, <2>4, QuietKeeps
<1> QED BY <1>1, <1>2, <1>3, <1>4, <1>5, <1>6, <1>7, <1>8 DEF Next

\* So it holds in every state of every behaviour of createOFT, createOFTAdapter
\* and setAuthority.
THEOREM InvariantHolds == Spec => []IInv
<1>1. Init => IInv
  BY MintSetupAssumption, InitIInv
<1>2. IInv /\ [Next]_vars => IInv'
  BY MintSetupAssumption, StepIInv
<1> QED BY <1>1, <1>2, PTL DEF Spec

\* Mints, stores, multisigs, files and tasks are well typed in every reachable
\* state, for any number of tasks.
THEOREM TypeCorrect == Spec => []TypeOK
<1>1. IInv => TypeOK
  BY DEF IInv
<1> QED BY <1>1, InvariantHolds, PTL

\* Wherever tasks die and whichever transactions are lost, late or fail, every
\* mint has a mint authority somebody, or a store, can sign for, except a store
\* that setAuthority was told to name or whose init-oft failed unnoticed
\* (createOFT.ts:337).
THEOREM AuthorityStaysAlive == Spec => []MintAuthorityAlive
<1>1. IInv => MintAuthorityAlive
  BY DEF IInv
<1> QED BY <1>1, InvariantHolds, PTL

\* A deployment file that was written stays true of its store and mint, unless
\* the task took a failed init-oft or hand-over for done (createOFT.ts:337, :367)
\* or setAuthority was told of another store.
THEOREM FilesStayUsable == Spec => []FilesAreUsable
<1>1. IInv => FilesAreUsable
  BY DEF IInv
<1> QED BY <1>1, InvariantHolds, PTL

-----------------------------------------------------------------------------
(* --only-oft-store.                                                       *)

\* createOFT refuses the combinations that would give one authority twice.
Sensible(j) ==
    j.command = "create" =>
        /\ j.freeze # None => j.only
        /\ j.only => j.minters = None \/ j.minters = {}

Exclusive(j) == NewToken(j) /\ j.only

\* What createOFT leaves with --only-oft-store.
Sealed(j) ==
    /\ mints[j.mint] # None
    /\ SignersOf(mints[j.mint].mint_authority) = {Store(j.store)}
    /\ mints[j.mint].freeze_authority = IF j.freeze = None THEN None ELSE Key(j.freeze)

Running(j) == tasks[j.op] # None /\ tasks[j.op].run = j.run

\* From its start on, and after its end, nobody but the task itself moves an
\* authority of the mint it creates: others cannot sign, and its own operator
\* is busy.  If it dies this no longer holds.
Guarded(j) ==
    /\ mints[j.mint] = None \/ mints[j.mint] = OwnAuthorities(j.op) \/ Sealed(j)
    /\ j.run \in finished => Sealed(j)
    /\ Running(j) /\ tasks[j.op].step = "save" => Sealed(j)
    /\ \A op \in Operators :
          tasks[op] # None /\ tasks[op].mint = j.mint => tasks[op].step # "freeze_authority"
    /\ \A tx \in pool : tx.job.mint = j.mint => ~ReadsAuthority(tx.job)

AllGuarded ==
    \A j \in started :
        /\ Exclusive(j) /\ ~Failed("authority", j.run)
        /\ j.run \in finished \/ Running(j)
        => Guarded(j)

OInv ==
    /\ \A j \in started : Exclusive(j) => j.minters = None \/ j.minters = {}
    /\ \A r \in finished : r < next_run
    /\ AllGuarded

\* Two jobs of one run are the same request.
LEMMA SameRun ==
    ASSUME Registry, NEW j \in started, NEW job, Ready(job), job.run = j.run
    PROVE  SameRequest(j, job)
BY DEF Registry, Ready, SameRequest

\* Tasks that move authorities later find the mint there.
LEMMA ReadersFindMint ==
    ASSUME IInv, NEW job \in Jobs, Ready(job), ReadsAuthority(job)
    PROVE  job.command = "setAuthority" /\ mints[job.mint] # None
<1>1. job.command = "setAuthority"
  BY DEF Ready, Plausible, Jobs, Commands, ReadsAuthority
<1> QED BY <1>1, MintExists DEF IInv, TypeOK, ChainTypes

LEMMA SealedUnchanged ==
    ASSUME UNCHANGED chain
    PROVE  \A j : Sealed(j)' <=> Sealed(j)
BY DEF chain, Sealed, SignersOf

\* What createOFT, createOFTAdapter and setAuthority start with.
LEMMA StartedJobs ==
    ASSUME MintSetupAssumption, IInv, NEW op \in Operators, StartSome(op)
    PROVE  \E job \in Jobs :
              /\ Start(job) /\ job.op = op /\ job.run = next_run
              /\ job.step \notin {"save", "mint_authority", "freeze_authority"}
              /\ Sensible(job)
              /\ job.mint \in Runs => NewToken(job) \/ job.mint < next_run
<1>1. ASSUME NEW mint \in Existing \cup {None}, NEW minters \in MinterLists,
             NEW only \in BOOLEAN, NEW freeze \in FreezeAuthorities,
             CreateOFT(op, mint, minters, only, freeze)
      PROVE  \E job \in Jobs :
                /\ Start(job) /\ job.op = op /\ job.run = next_run
                /\ job.step \notin {"save", "mint_authority", "freeze_authority"}
                /\ Sensible(job)
                /\ job.mint \in Runs => NewToken(job) \/ job.mint < next_run
  <2>1. PICK job : job = [run |-> next_run, op |-> op, command |-> "create",
                   mint |-> IF mint = None THEN next_run ELSE mint,
                   store |-> next_run, minters |-> minters, only |-> only,
                   freeze |-> freeze, waiting |-> FALSE,
                   step |-> IF minters # None THEN "multisig"
                            ELSE IF mint = None THEN "token" ELSE "store"]
    OBVIOUS
  <2>2. /\ Start(job) /\ next_run \in Runs
        /\ freeze # None => only
        /\ ~(only /\ minters # None /\ minters # {})
    BY <1>1, <2>1 DEF CreateOFT, Start
  <2>3. job \in Jobs
    <3>1. minters \in {None} \cup SUBSET Keys /\ freeze \in Keys \cup {None}
      BY DEF MintSetupAssumption
    <3>2. (IF mint = None THEN next_run ELSE mint) \in MintIds
      BY <2>2 DEF MintIds
    <3> QED BY <2>1, <2>2, <3>1, <3>2 DEF Jobs, Commands, Steps
  <2>4. job.mint \in Runs => NewToken(job)
    BY <2>1 DEF NewToken, MintSetupAssumption
  <2>5. Sensible(job)
    BY <2>1, <2>2 DEF Sensible
  <2>6. job.op = op /\ job.run = next_run
        /\ job.step \notin {"save", "mint_authority", "freeze_authority"}
    BY <2>1
  <2> QED BY <2>2, <2>3, <2>4, <2>5, <2>6
<1>2. ASSUME NEW mint \in Existing, CreateOFTAdapter(op, mint)
      PROVE  \E job \in Jobs :
                /\ Start(job) /\ job.op = op /\ job.run = next_run
                /\ job.step \notin {"save", "mint_authority", "freeze_authority"}
                /\ Sensible(job)
                /\ job.mint \in Runs => NewToken(job) \/ job.mint < next_run
  <2>1. PICK job : job = [run |-> next_run, op |-> op, command |-> "adapter", mint |-> mint,
                   store |-> next_run, minters |-> None, only |-> FALSE,
                   freeze |-> None, waiting |-> FALSE, step |-> "store"]
    OBVIOUS
  <2>2. Start(job) /\ next_run \in Runs
    BY <1>2, <2>1 DEF CreateOFTAdapter, Start
  <2>3. job \in Jobs
    BY <2>1, <2>2 DEF Jobs, Commands, Steps, MintIds
  <2>4. job.mint \notin Runs
    BY <2>1 DEF MintSetupAssumption
  <2>5. Sensible(job) /\ job.op = op /\ job.run = next_run
        /\ job.step \notin {"save", "mint_authority", "freeze_authority"}
    BY <2>1 DEF Sensible
  <2> QED BY <2>2, <2>3, <2>4, <2>5
<1>3. ASSUME NEW mint \in MintIds, NEW store \in Runs, NEW minters \in MinterLists,
             NEW only \in BOOLEAN, SetAuthority(op, mint, store, minters, only)
      PROVE  \E job \in Jobs :
                /\ Start(job) /\ job.op = op /\ job.run = next_run
                /\ job.step \notin {"save", "mint_authority", "freeze_authority"}
                /\ Sensible(job)
                /\ job.mint \in Runs => NewToken(job) \/ job.mint < next_run
  <2>1. PICK job : job = [run |-> next_run, op |-> op, command |-> "setAuthority",
                   mint |-> mint, store |-> store,
                   minters |-> minters, only |-> only, freeze |-> None,
                   waiting |-> FALSE, step |-> "multisig"]
    OBVIOUS
  <2>2. Start(job) /\ next_run \in Runs /\ mints[mint] # None
    BY <1>3, <2>1 DEF SetAuthority, Start
  <2>3. job \in Jobs
    <3>1. minters \in {None} \cup SUBSET Keys
      BY DEF MintSetupAssumption
    <3> QED BY <2>1, <2>2, <3>1 DEF Jobs, Commands, Steps
  <2>4. job.mint \in Runs => job.mint < next_run
    BY <2>1, <2>2 DEF IInv, Fresh, Runs
  <2>5. Sensible(job) /\ job.op = op /\ job.run = next_run
        /\ job.step \notin {"save", "mint_authority", "freeze_authority"}
    BY <2>1 DEF Sensible
  <2> QED BY <2>2, <2>3, <2>4, <2>5
<1> QED BY <1>1, <1>2, <1>3 DEF StartSome

LEMMA StartGuards ==
    ASSUME MintSetupAssumption, IInv, OInv, NEW job \in Jobs, job.op \in Operators,
           job.run = next_run, Start(job),
           job.step \notin {"save", "mint_authority", "freeze_authority"},
           Exclusive(job) => job.minters = None \/ job.minters = {}
    PROVE  OInv'
<1>1. /\ UNCHANGED <<chain, pool, finished, unnoticed>> /\ started' = started \cup {job}
      /\ tasks' = [tasks EXCEPT ![job.op] = job] /\ tasks[job.op] = None
      /\ next_run \in Nat /\ next_run' = next_run + 1 /\ next_run \in Runs
  BY DEF Start, Runs
<1>2. UNCHANGED <<mints, stores, multisigs>>
  BY <1>1 DEF chain
<1>3. \A r \in finished' : r < next_run'
  BY <1>1 DEF OInv, IInv, TypeOK, Runs
<1>4. ASSUME NEW j \in started', Exclusive(j), ~Failed("authority", j.run),
             (j.run \in finished \/ Running(j))'
      PROVE  Guarded(j)'
  <2>1. CASE j = job
    <3>1. j.mint = next_run /\ mints[j.mint] = None
      BY <1>1, <1>4, <2>1 DEF Exclusive, NewToken, IInv, Fresh
    <3>2. j.run \notin finished
      BY <1>1, <2>1 DEF OInv
    <3>3. tasks'[j.op] = job
      BY <1>1, <2>1 DEF IInv, TypeOK
    <3>4. ASSUME NEW op \in Operators, tasks'[op] # None, tasks'[op].mint = j.mint
          PROVE  tasks'[op].step # "freeze_authority"
      <4>1. CASE op = job.op
        BY <1>1, <4>1 DEF IInv, TypeOK
      <4>2. CASE op # job.op
        <5>1. tasks'[op] = tasks[op] /\ tasks[op] \in Jobs /\ Ready(tasks[op])
          BY <1>1, <3>4, <4>2 DEF IInv, TypeOK, TasksReady
        <5> QED BY <3>1, <3>4, <5>1, ReadersFindMint DEF ReadsAuthority
      <4> QED BY <4>1, <4>2
    <3>5. ASSUME NEW tx \in pool, tx.job.mint = j.mint
          PROVE  ~ReadsAuthority(tx.job)
      <4>1. tx.job \in Jobs /\ Ready(tx.job)
        BY DEF IInv, TypeOK, PoolReady, Transactions
      <4> QED BY <3>1, <3>5, <4>1, ReadersFindMint
    <3> QED BY <1>1, <1>2, <2>1, <3>1, <3>2, <3>3, <3>4, <3>5 DEF Guarded, ReadsAuthority
  <2>2. CASE j # job
    <3>1. j \in started /\ j.run < next_run /\ j.run \in Nat
      BY <1>1, <1>4, <2>2 DEF IInv, Registry, TypeOK, Jobs, Runs
    <3>2. j.run \in finished \/ Running(j)
      BY <1>1, <1>4, <3>1 DEF Running, IInv, TypeOK
    <3>3. Guarded(j)
      BY <1>4, <3>1, <3>2 DEF OInv, AllGuarded
    <3>4. Running(j)' => tasks'[j.op] = tasks[j.op] /\ Running(j)
      BY <1>1, <3>1 DEF Running, IInv, TypeOK
    <3>5. \A op \in Operators :
             tasks'[op] # None /\ tasks'[op].mint = j.mint => tasks'[op].step # "freeze_authority"
      BY <1>1, <3>3 DEF Guarded, IInv, TypeOK
    <3> QED BY <1>1, <1>2, <3>3, <3>4, <3>5, SealedUnchanged DEF Guarded, ReadsAuthority, OwnAuthorities
  <2> QED BY <2>1, <2>2
<1>5. AllGuarded'
  BY <1>1, <1>4 DEF AllGuarded, Exclusive, NewToken, Failed
<1>6. (\A j \in started : Exclusive(j) => j.minters = None \/ j.minters = {})'
  BY <1>1 DEF OInv, Exclusive, NewToken
<1> QED BY <1>3, <1>5, <1>6 DEF OInv

\* What an exclusive mint's guard needs of the old state for the new one.
LEMMA GuardSteps ==
    ASSUME IInv, OInv, UNCHANGED <<next_run, started>>, unnoticed \subseteq unnoticed',
           \A r \in finished' : r < next_run,
           \A j \in started :
               /\ Exclusive(j) /\ ~Failed("authority", j.run)'
               /\ j.run \in finished' \/ Running(j)'
               => (j.run \in finished \/ Running(j)) /\ (Guarded(j) => Guarded(j)')
    PROVE  OInv'
<1>1. AllGuarded'
  BY ExcusesKept DEF OInv, AllGuarded, Exclusive, NewToken
<1> QED BY <1>1 DEF OInv, Exclusive, NewToken

\* Tasks and transactions that end change nothing.
LEMMA FewerGuards ==
    ASSUME IInv, OInv, UNCHANGED <<next_run, chain, started, finished, unnoticed>>,
           \A op \in Operators : tasks'[op] = tasks[op] \/ tasks'[op] = None,
           pool' \subseteq pool
    PROVE  OInv'
<1>1. UNCHANGED mints
  BY DEF chain
<1>2. \A j \in started : j.op \in Operators
  BY DEF IInv, TypeOK, Jobs
<1>3. \A j \in started : Running(j)' => Running(j) /\ tasks'[j.op] = tasks[j.op]
  BY <1>2 DEF Running
<1>4. \A j \in started : Guarded(j) => Guarded(j)'
  BY <1>1, <1>3, SealedUnchanged DEF Guarded, ReadsAuthority, OwnAuthorities
<1>5. \A r \in finished' : r < next_run
  BY DEF OInv
<1> QED BY <1>3, <1>4, <1>5, GuardSteps

\* A task that submits has not moved on.
LEMMA SubmitTasks ==
    ASSUME IInv, NEW op \in Operators, Submit(op)
    PROVE  /\ \A o \in Operators : tasks'[o] # None =>
                  /\ tasks[o] # None
                  /\ tasks'[o].run = tasks[o].run /\ tasks'[o].mint = tasks[o].mint
                  /\ tasks'[o].step = tasks[o].step
           /\ \A j \in started : Running(j)' => Running(j) /\ tasks'[j.op].step = tasks[j.op].step
<1>1. tasks[op] \in Jobs /\ tasks' = [tasks EXCEPT ![op].waiting = TRUE]
  BY DEF Submit, IInv, TypeOK
<1>2. PICK w : w = [tasks[op] EXCEPT !.waiting = TRUE]
  OBVIOUS
<1>3. w.run = tasks[op].run /\ w.mint = tasks[op].mint /\ w.step = tasks[op].step
  BY <1>1, <1>2 DEF Jobs
<1>4. tasks' = [tasks EXCEPT ![op] = w]
  BY <1>1, <1>2
<1>5. \A j \in started : j.op \in Operators
  BY DEF IInv, TypeOK, Jobs
<1> QED BY <1>3, <1>4, <1>5 DEF IInv, TypeOK, Submit, Running

LEMMA SubmitGuards ==
    ASSUME MintSetupAssumption, IInv, OInv, NEW op \in Operators, Submit(op)
    PROVE  OInv'
<1>1. PICK job \in Jobs : job = tasks[op] /\ Ready(job) /\ job.op = op
  BY DEF Submit, IInv, TypeOK, TasksReady
<1>2. PICK tx : tx = [job |-> job, current |-> CurrentAuthority(job)]
  OBVIOUS
<1>3. /\ Accepts(tx) /\ pool' = pool \cup {tx}
      /\ tasks' = [tasks EXCEPT ![op].waiting = TRUE]
      /\ UNCHANGED <<next_run, mints, chain, started, finished, unnoticed>>
  BY <1>1, <1>2 DEF Submit, history, chain
<1>4. \A o \in Operators :
         /\ tasks'[o] # None => tasks[o] # None
         /\ tasks'[o] # None => tasks'[o].run = tasks[o].run /\ tasks'[o].mint = tasks[o].mint
                                /\ tasks'[o].step = tasks[o].step
  BY SubmitTasks
<1>5. \A j \in started : Running(j)' => Running(j) /\ tasks'[j.op].step = tasks[j.op].step
  BY SubmitTasks
<1>6. ASSUME NEW j \in started, Exclusive(j), j.run \in finished \/ Running(j), Guarded(j),
             ReadsAuthority(job), job.mint = j.mint
      PROVE  FALSE
  <2>1. job.command = "setAuthority" /\ mints[job.mint] # None /\ job.step = "mint_authority"
    <3>1. job.step # "freeze_authority"
      BY <1>1, <1>6 DEF Guarded, Submit
    <3> QED BY <1>1, <1>6, <3>1, ReadersFindMint DEF ReadsAuthority
  <2>2. CanSign(op, mints[job.mint].mint_authority)
    BY <1>1, <1>2, <1>3, <1>6, <2>1, AcceptsCases DEF CurrentAuthority
  <2>3. ~Sealed(j)
    BY <1>6, <2>2 DEF Sealed, CanSign, Key, Store
  <2>4. mints[job.mint] = OwnAuthorities(j.op)
    BY <1>6, <2>1, <2>3 DEF Guarded
  <2>5. mints[job.mint].mint_authority = Key(j.op) /\ Key(j.op) # None
    <3>1. j \in Jobs
      BY DEF IInv, TypeOK
    <3>2. Key(j.op) \in Accounts
      BY <3>1, AuthorityTypes DEF OwnAuthorities, MintAccounts
    <3> QED BY <2>4, <3>2 DEF OwnAuthorities, MintSetupAssumption
  <2>6. SignersOf(Key(j.op)) = {Key(j.op)}
    BY <2>5 DEF SignersOf, Key
  <2>7. op = j.op
    BY <2>2, <2>5, <2>6 DEF CanSign, Key
  <2>8. job.run = j.run
    BY <1>1, <1>6, <2>3, <2>7 DEF Guarded, Running
  <2>9. j.command = "setAuthority"
    BY <1>1, <2>1, <2>8, SameRun DEF IInv, SameRequest
  <2> QED BY <1>6, <2>9 DEF Exclusive, NewToken
<1>7. \A j \in started :
         Exclusive(j) /\ (j.run \in finished' \/ Running(j)') =>
             (j.run \in finished \/ Running(j)) /\ (Guarded(j) => Guarded(j)')
  <2> SUFFICES ASSUME NEW j \in started, Exclusive(j), j.run \in finished \/ Running(j), Guarded(j)
               PROVE  Guarded(j)'
    BY <1>3, <1>5
  <2>1. \A t \in pool' : t.job.mint = j.mint => ~ReadsAuthority(t.job)
    BY <1>2, <1>3, <1>6 DEF Guarded
  <2>2. \A o \in Operators :
           tasks'[o] # None /\ tasks'[o].mint = j.mint => tasks'[o].step # "freeze_authority"
    BY <1>4 DEF Guarded
  <2> QED BY <1>3, <1>5, <2>1, <2>2, SealedUnchanged DEF Guarded, ReadsAuthority, OwnAuthorities
<1>8. \A r \in finished' : r < next_run
  BY <1>3 DEF OInv
<1> QED BY <1>3, <1>7, <1>8, GuardSteps

LEMMA SaveTasks ==
    ASSUME IInv, OInv, NEW op \in Operators, SaveSolanaDeployment(op)
    PROVE  /\ UNCHANGED <<next_run, mints, chain, pool, started, unnoticed>>
           /\ \A o \in Operators : tasks'[o] # None => tasks'[o] = tasks[o]
           /\ \A r \in finished' : r < next_run
           /\ \A j \in started : Running(j)' => Running(j) /\ tasks'[j.op] = tasks[j.op]
           /\ \A j \in started : j.run \in finished' =>
                 j.run \in finished \/ (Running(j) /\ tasks[j.op].step = "save")
<1>1. PICK job \in Jobs : job = tasks[op] /\ job # None /\ job.step = "save" /\ Ready(job) /\ job.op = op
  BY DEF SaveSolanaDeployment, IInv, TypeOK, TasksReady
<1>2. Advance(job) = None /\ Ended(job) = {job.run}
  BY <1>1 DEF Advance, Ended, StepAfter
<1>3. /\ UNCHANGED <<next_run, mints, chain, pool, started, unnoticed>>
      /\ tasks' = [tasks EXCEPT ![op] = None]
      /\ finished' = finished \cup {job.run}
  BY <1>1, <1>2 DEF SaveSolanaDeployment, chain
<1>4. \A r \in finished' : r < next_run
  <2>1. PICK j \in started : SameRequest(j, job)
    BY <1>1 DEF Ready
  <2> QED BY <1>3, <2>1 DEF OInv, IInv, Registry, SameRequest
<1>5. \A o \in Operators : tasks'[o] # None => tasks'[o] = tasks[o]
  BY <1>3 DEF IInv, TypeOK
<1>6. \A j \in started : Running(j)' => Running(j) /\ tasks'[j.op] = tasks[j.op]
  <2>1. \A j \in started : j.op \in Operators
    BY DEF IInv, TypeOK, Jobs
  <2> QED BY <1>5, <2>1 DEF Running
<1>7. ASSUME NEW j \in started, j.run = job.run
      PROVE  Running(j) /\ tasks[j.op].step = "save"
  <2>1. j.op = op
    BY <1>1, <1>7, SameRun DEF IInv, SameRequest
  <2> QED BY <1>1, <1>7, <2>1 DEF Running
<1> QED BY <1>3, <1>4, <1>5, <1>6, <1>7

LEMMA SaveGuards ==
    ASSUME MintSetupAssumption, IInv, OInv, NEW op \in Operators, SaveSolanaDeployment(op)
    PROVE  OInv'
<1>1. \A j \in started :
         Exclusive(j) /\ (j.run \in finished' \/ Running(j)') =>
             (j.run \in finished \/ Running(j)) /\ (Guarded(j) => Guarded(j)')
  <2> SUFFICES ASSUME NEW j \in started, Exclusive(j), j.run \in finished' \/ Running(j)'
               PROVE  (j.run \in finished \/ Running(j)) /\ (Guarded(j) => Guarded(j)')
    OBVIOUS
  <2>1. /\ UNCHANGED <<mints, chain, pool>>
        /\ \A o \in Operators : tasks'[o] # None => tasks'[o] = tasks[o]
        /\ Running(j)' => Running(j) /\ tasks'[j.op] = tasks[j.op]
        /\ j.run \in finished' => j.run \in finished \/ (Running(j) /\ tasks[j.op].step = "save")
    BY SaveTasks
  <2>2. Guarded(j) => (j.run \in finished' => Sealed(j))
    BY <2>1 DEF Guarded
  <2>3. Sealed(j)' <=> Sealed(j)
    BY <2>1, SealedUnchanged
  <2> QED BY <2>1, <2>2, <2>3 DEF Guarded, ReadsAuthority, OwnAuthorities
<1> QED BY <1>1, SaveTasks, GuardSteps

\* A transaction is of a step that submits one.
LEMMA SubmittedSteps ==
    ASSUME NEW tx \in Transactions, Ready(tx.job), tx.job.step # "save"
    PROVE  StepAfter(tx.job) = "done" => tx.job.command = "setAuthority"
<1>1. tx.job \in Jobs
  BY DEF Transactions
<1>2. tx.job.step \in {"multisig", "token", "store", "authority", "mint_authority", "freeze_authority"}
  BY <1>1 DEF Ready, Plausible, Jobs, Commands
<1>3. StepAfter(tx.job) = "done" => tx.job.step = "freeze_authority"
  BY <1>2 DEF StepAfter
<1>4. tx.job.step = "freeze_authority" => tx.job.command = "setAuthority"
  BY <1>1 DEF Ready, Plausible, Jobs, Commands
<1> QED BY <1>3, <1>4

\* How tasks go on, seen from a mint that a task created.
LEMMA ProceedGuards ==
    ASSUME MintSetupAssumption, IInv, OInv, NEW tx \in pool, Proceed(tx) \/ Abort(tx),
           pool' \subseteq pool,
           NEW j \in started, NewToken(j), j.run \in finished' \/ Running(j)'
    PROVE  /\ j.run \in finished \/ Running(j)
           /\ j.run \in finished' => j.run \in finished
           /\ Running(j)' => Running(j)
           /\ Guarded(j) => \A op \in Operators :
                 tasks'[op] # None /\ tasks'[op].mint = j.mint => tasks'[op].step # "freeze_authority"
           /\ Running(j)' /\ tasks'[j.op].step = "save" =>
                 \/ Running(j) /\ tasks[j.op].step = "save"
                 \/ tx.job.step = "authority" /\ tx.job.run = j.run /\ IsAwaited(tx)
<1> DEFINE job == tx.job
<1>1. /\ tx \in Transactions /\ job \in Jobs /\ Ready(job) /\ job.step # "save"
      /\ j \in Jobs /\ j.op \in Operators
  BY DEF IInv, TypeOK, PoolReady, Transactions, Jobs
<1>2. j.run = job.run => SameRequest(j, job)
  BY <1>1, SameRun DEF IInv
<1>3. j.run \in finished' => j.run \in finished
  <2>1. finished' \subseteq finished \cup Ended(job)
    BY DEF Proceed, Abort
  <2>2. j.run \notin Ended(job)
    <3>1. StepAfter(job) = "done" => job.command = "setAuthority"
      BY <1>1, SubmittedSteps
    <3> QED BY <1>2, <3>1 DEF Ended, NewToken, SameRequest
  <2> QED BY <2>1, <2>2
<1>4. ASSUME StepAfter(job) # "done"
      PROVE  Advance(job).run = job.run /\ Advance(job).mint = job.mint
             /\ Advance(job).step = StepAfter(job)
  BY <1>1, <1>4, AdvancedFields
<1>5. Running(j)' => Running(j)
  <2> SUFFICES ASSUME Running(j)' PROVE Running(j)
    OBVIOUS
  <2>1. tasks'[j.op] # None /\ tasks'[j.op].run = j.run
    BY DEF Running
  <2>2. CASE tasks'[j.op] = tasks[j.op]
    BY <2>1, <2>2 DEF Running
  <2>3. CASE tasks'[j.op] # tasks[j.op]
    <3>1. /\ tasks'[j.op] = Advance(job) /\ StepAfter(job) # "done"
          /\ j.op = job.op /\ IsAwaited(tx)
      BY <1>1, <2>1, <2>3, ProceedTasks
    <3> QED BY <1>4, <2>1, <3>1 DEF IsAwaited, Running
  <2> QED BY <2>2, <2>3
<1>6. ASSUME Guarded(j), NEW op \in Operators, tasks'[op] # None, tasks'[op].mint = j.mint,
             tasks'[op].step = "freeze_authority"
      PROVE  FALSE
  <2>1. tasks'[op] # tasks[op]
    BY <1>6 DEF Guarded
  <2>2. tasks'[op] = Advance(job) /\ StepAfter(job) # "done"
    BY <1>6, <2>1, ProceedTasks
  <2>3. job.mint = j.mint /\ StepAfter(job) = "freeze_authority"
    BY <1>4, <1>6, <2>2
  <2>4. job.step = "mint_authority"
    BY <2>3 DEF StepAfter
  <2> QED BY <1>6, <2>3, <2>4 DEF Guarded, ReadsAuthority
<1>7. ASSUME Running(j)', tasks'[j.op].step = "save", ~(Running(j) /\ tasks[j.op].step = "save")
      PROVE  job.step = "authority" /\ job.run = j.run /\ IsAwaited(tx)
  <2>1. tasks'[j.op] # None /\ tasks'[j.op].run = j.run /\ tasks'[j.op] # tasks[j.op]
    BY <1>5, <1>7 DEF Running
  <2>2. tasks'[j.op] = Advance(job) /\ StepAfter(job) # "done" /\ IsAwaited(tx)
    BY <1>1, <2>1, ProceedTasks
  <2>3. job.run = j.run /\ StepAfter(job) = "save"
    BY <1>4, <1>7, <2>1, <2>2
  <2>4. NewToken(job)
    BY <1>2, <2>3 DEF SameRequest, NewToken
  <2>5. job.step = "authority"
    BY <2>3, <2>4 DEF StepAfter
  <2> QED BY <2>2, <2>3, <2>5
<1> QED BY <1>3, <1>5, <1>6, <1>7

LEMMA ProceedFinished ==
    ASSUME IInv, OInv, NEW tx \in pool, Proceed(tx) \/ Abort(tx)
    PROVE  \A r \in finished' : r < next_run
<1>1. Ready(tx.job)
  BY DEF IInv, PoolReady
<1>2. PICK j \in started : SameRequest(j, tx.job)
  BY <1>1 DEF Ready
<1>3. tx.job.run < next_run
  BY <1>2 DEF IInv, Registry, SameRequest
<1>4. finished' \subseteq finished \cup {tx.job.run}
  BY DEF Proceed, Abort, Ended
<1> QED BY <1>3, <1>4 DEF OInv

\* A hand-over that failed and was awaited is one that failed unnoticed.
LEMMA RefusedHandOver ==
    ASSUME NEW tx, Refuse(tx), IsAwaited(tx), tx.job.step = "authority"
    PROVE  Failed("authority", tx.job.run)'
<1>1. tx.job \in unnoticed'
  BY DEF Refuse, IsAsserted
<1> QED BY <1>1 DEF Failed

LEMMA RefuseGuards ==
    ASSUME MintSetupAssumption, IInv, OInv, NEW tx \in pool, Refuse(tx)
    PROVE  OInv'
<1> DEFINE job == tx.job
<1>1. /\ UNCHANGED <<next_run, chain, mints, started>> /\ pool' \subseteq pool
      /\ Proceed(tx) \/ Abort(tx)
      /\ unnoticed \subseteq unnoticed'
  BY DEF Refuse, chain
<1>2. ASSUME NEW j \in started, Exclusive(j), ~Failed("authority", j.run)',
             j.run \in finished' \/ Running(j)'
      PROVE  (j.run \in finished \/ Running(j)) /\ (Guarded(j) => Guarded(j)')
  <2>1. /\ j.run \in finished \/ Running(j)
        /\ j.run \in finished' => j.run \in finished
        /\ Guarded(j) => \A op \in Operators :
              tasks'[op] # None /\ tasks'[op].mint = j.mint => tasks'[op].step # "freeze_authority"
        /\ Running(j)' /\ tasks'[j.op].step = "save" =>
              \/ Running(j) /\ tasks[j.op].step = "save"
              \/ job.step = "authority" /\ job.run = j.run /\ IsAwaited(tx)
    BY <1>1, <1>2, ProceedGuards DEF Exclusive
  <2>2. ~(job.step = "authority" /\ job.run = j.run /\ IsAwaited(tx))
    BY <1>2, RefusedHandOver
  <2> QED BY <1>1, <2>1, <2>2, SealedUnchanged DEF Guarded, ReadsAuthority, OwnAuthorities
<1>3. \A r \in finished' : r < next_run
  BY <1>1, ProceedFinished
<1> QED BY <1>1, <1>2, <1>3, GuardSteps

LEMMA LandGuards ==
    ASSUME MintSetupAssumption, IInv, OInv, NEW tx \in pool, Land(tx)
    PROVE  OInv'
<1> DEFINE job == tx.job
<1>1. /\ UNCHANGED <<next_run, started, unnoticed>> /\ pool' \subseteq pool
      /\ Proceed(tx) /\ Accepts(tx) /\ Execute(job)
  BY DEF Land
<1>2. tx \in Transactions /\ job \in Jobs /\ Ready(job)
  BY DEF IInv, TypeOK, PoolReady, Transactions
<1>3. ChainTypes /\ ExistingMintsExist /\ StoresHaveMints
  BY DEF IInv, TypeOK, ChainTypes
<1>4. ChainTypes' /\ Grows
  BY <1>1, <1>2, <1>3, ExecuteTypes
<1>5. ASSUME NEW j \in started, Exclusive(j), Sealed(j), mints'[j.mint] = mints[j.mint]
      PROVE  Sealed(j)'
  <2>1. j.mint \in MintIds
    BY DEF IInv, TypeOK, Jobs
  <2>2. PICK a \in Accounts : a = mints[j.mint].mint_authority
    BY <1>3, <1>5, <2>1 DEF Sealed, ChainTypes, MintAccounts
  <2>3. SignersOf(a)' = SignersOf(a)
    BY <1>3, <1>4, <1>5, <2>2, SignersKept DEF Sealed
  <2> QED BY <1>5, <2>2, <2>3 DEF Sealed
<1>6. ASSUME NEW j \in started, Exclusive(j), job.step = "authority", job.mint = j.mint
      PROVE  Sealed(j)'
  <2>1. j \in Jobs /\ NewToken(job) /\ job.mint \in MintIds
    BY <1>2, <1>6 DEF IInv, TypeOK, Ready, Plausible, Jobs
  <2>2. SameRequest(j, job)
    BY <1>2, <1>6, <2>1, SameRun DEF Exclusive, NewToken, IInv
  <2>3. mints'[j.mint] = [mint_authority |-> NewAuthority(job),
                          freeze_authority |-> NewFreezeAuthority(job)]
    <3>1. mints[job.mint] # None
      BY <1>2, <1>3, <1>6, MintExists
    <3>2. Execute(job)
      BY <1>1
    <3> HIDE DEF job
    <3> QED BY <1>3, <1>6, <2>1, <3>2 DEF Execute, HandOver, ChainTypes
  <2>4. job.command = "create" /\ job.only /\ (job.minters = None \/ job.minters = {})
    BY <1>6, <2>1, <2>2 DEF NewToken, Exclusive, SameRequest, OInv
  <2>5. SignersOf(NewAuthority(job))' = {Store(job.store)}
    <3>1. NewAuthority(job) \in Accounts /\ NewAuthority(job) # None
      BY <1>2, AuthorityTypes DEF MintSetupAssumption
    <3>2. SignersOf(NewAuthority(job)) = {Store(job.store)}
      <4>1. CASE job.minters = None
        BY <2>4, <3>1, <4>1 DEF NewAuthority, SignersOf, Store
      <4>2. CASE job.minters # None
        <5>1. multisigs[job.run] = MultisigSigners(job)
          BY <1>2, <1>6, <2>4, <4>2 DEF Ready, HasMultisig
        <5>2. MultisigSigners(job) = {Store(job.store)}
          BY <2>4, <4>2 DEF MultisigSigners
        <5> QED BY <2>4, <3>1, <4>2, <5>1, <5>2 DEF NewAuthority, SignersOf, Multisig
      <4> QED BY <4>1, <4>2
    <3> QED BY <1>3, <1>4, <3>1, <3>2, SignersKept
  <2>6. NewFreezeAuthority(job) = IF job.freeze = None THEN None ELSE Key(job.freeze)
    BY <2>4 DEF NewFreezeAuthority
  <2>7. mints'[j.mint] # None
    <3>1. mints[j.mint] # None
      BY <1>2, <1>3, <1>6, MintExists
    <3> QED BY <1>4, <1>6, <2>1, <3>1 DEF Grows
  <2>8. mints'[j.mint].mint_authority = NewAuthority(job)
        /\ mints'[j.mint].freeze_authority = NewFreezeAuthority(job)
    BY <2>3
  <2> QED BY <2>2, <2>5, <2>6, <2>7, <2>8 DEF Sealed, SameRequest
<1>7. ASSUME NEW j \in started, Exclusive(j), j.run \in finished' \/ Running(j)'
      PROVE  (j.run \in finished \/ Running(j)) /\ (Guarded(j) => Guarded(j)')
  <2>1. /\ j.run \in finished \/ Running(j)
        /\ j.run \in finished' => j.run \in finished
        /\ Guarded(j) => \A op \in Operators :
              tasks'[op] # None /\ tasks'[op].mint = j.mint => tasks'[op].step # "freeze_authority"
        /\ Running(j)' /\ tasks'[j.op].step = "save" =>
              \/ Running(j) /\ tasks[j.op].step = "save"
              \/ job.step = "authority" /\ job.run = j.run
    BY <1>1, <1>7, ProceedGuards DEF Exclusive
  <2> SUFFICES ASSUME Guarded(j) PROVE Guarded(j)'
    BY <2>1
  <2>2. \A t \in pool' : t.job.mint = j.mint => ~ReadsAuthority(t.job)
    BY <1>1 DEF Guarded
  <2>3. ~(job.step \in {"mint_authority", "freeze_authority"} /\ job.mint = j.mint)
    BY DEF Guarded, ReadsAuthority
  <2>4. j.mint \in MintIds
    BY DEF IInv, TypeOK, Jobs
  <2>5. \/ mints'[j.mint] = mints[j.mint]
        \/ job.step = "authority" /\ job.mint = j.mint
        \/ /\ job.step = "token" /\ j.mint = job.run /\ mints[j.mint] = None
           /\ mints'[j.mint] = OwnAuthorities(job.op)
    BY <1>1, <1>2, <1>3, <2>3, <2>4, MintChanges
  <2>6. Sealed(j) => Sealed(j)'
    BY <1>5, <1>6, <1>7, <2>5 DEF Sealed
  <2>7. mints'[j.mint] = None \/ mints'[j.mint] = OwnAuthorities(j.op) \/ Sealed(j)'
    <3>1. ASSUME job.step = "token", j.mint = job.run PROVE job.op = j.op
      <4>1. job.run = j.run
        BY <1>7, <3>1 DEF Exclusive, NewToken
      <4>2. Registry
        BY DEF IInv
      <4>3. SameRequest(j, job)
        BY <1>2, <1>7, <4>1, <4>2, SameRun
      <4> QED BY <4>3 DEF SameRequest
    <3> QED BY <1>6, <1>7, <2>5, <2>6, <3>1 DEF Guarded
  <2>8. job.step = "authority" /\ job.run = j.run => Sealed(j)'
    BY <1>2, <1>6, <1>7, SameRun DEF IInv, SameRequest
  <2> QED BY <2>1, <2>2, <2>6, <2>7, <2>8 DEF Guarded, ReadsAuthority, OwnAuthorities
<1>8. \A r \in finished' : r < next_run
  BY <1>1, ProceedFinished
<1> QED BY <1>1, <1>7, <1>8, GuardSteps

\* While createOFT runs with --only-oft-store, and after it ended, no step of
\* another task moves an authority of its mint (createOFT.ts:228, :337).
THEOREM StepOInv ==
    ASSUME MintSetupAssumption, IInv, OInv, [Next]_vars
    PROVE  OInv'
<1>1. ASSUME NEW op \in Operators, StartSome(op)
      PROVE  OInv'
  BY <1>1, StartedJobs, StartGuards, MintSetupAssumption DEF Sensible, Exclusive, NewToken
<1>2. ASSUME NEW op \in Operators, Crash(op)
      PROVE  OInv'
  <2>1. /\ UNCHANGED <<next_run, chain, started, finished, unnoticed>> /\ pool' \subseteq pool
        /\ \A o \in Operators : tasks'[o] = tasks[o] \/ tasks'[o] = None
    BY <1>2 DEF Crash, history, IInv, TypeOK
  <2> QED BY <2>1, FewerGuards
<1>3. ASSUME NEW tx \in pool, Expire(tx)
      PROVE  OInv'
  <2>1. /\ UNCHANGED <<next_run, chain, started, finished, unnoticed>> /\ pool' \subseteq pool
        /\ \A o \in Operators : tasks'[o] = tasks[o] \/ tasks'[o] = None
    BY <1>3 DEF Expire, Abort, IInv, TypeOK
  <2> QED BY <2>1, FewerGuards
<1>4. CASE UNCHANGED vars
  <2>1. /\ UNCHANGED <<next_run, chain, started, finished, unnoticed>> /\ pool' \subseteq pool
        /\ \A o \in Operators : tasks'[o] = tasks[o] \/ tasks'[o] = None
    BY <1>4 DEF vars, history
  <2> QED BY <2>1, FewerGuards
<1> QED BY <1>1, <1>2, <1>3, <1>4, SubmitGuards, SaveGuards, LandGuards, RefuseGuards
        DEF Next

\* Once createOFT has ended with --only-oft-store, only the store can ever mint
\* and the freeze authority is what was asked for, whatever setAuthority is
\* asked for afterwards, by anyone; unless its own hand-over failed unnoticed.
THEOREM OnlyTheStoreMints == Spec => []OnlyStoreMints
<1>1. Init => IInv
  BY MintSetupAssumption, InitIInv
<1>2. Init => OInv
  BY DEF Init, OInv, AllGuarded
<1>3. IInv /\ OInv /\ [Next]_vars => (IInv /\ OInv)'
  BY MintSetupAssumption, StepIInv, StepOInv
<1>4. OInv => OnlyStoreMints
  BY DEF OInv, AllGuarded, Exclusive, Guarded, Sealed, OnlyStoreMints
<1> QED BY <1>1, <1>2, <1>3, <1>4, PTL DEF Spec

-----------------------------------------------------------------------------
(* Who has power over a mint: its creator, while it lists itself, and after   *)
(* createOFT ended.                                                         *)

Listed(j) ==
    \E other \in started :
        other.mint = j.mint /\ other.minters # None /\ j.op \in other.minters

\* The creator can sign for an authority only if it was given it.  An authority
\* that nobody can sign for would be one that its multisig, once created, may
\* turn into the creator's.
LetGo(j) ==
    LET mint == mints[j.mint]
    IN  /\ mint # None
        /\ CanSign(j.op, mint.mint_authority) => Listed(j)
        /\ CanSign(j.op, mint.freeze_authority) => Listed(j) \/ j.freeze = j.op
        /\ mint.freeze_authority # None => SignersOf(mint.freeze_authority) # {}

\* Until its own task hands the authorities over, nobody moves just one.
Handed(j) ==
    /\ mints[j.mint] = None \/ mints[j.mint] = OwnAuthorities(j.op) \/ LetGo(j)
    /\ j.run \in finished => LetGo(j)
    /\ Running(j) /\ tasks[j.op].step = "save" => LetGo(j)

\* While a task creates a mint its operator has asked for nothing else on it.
Alone(j) == \A other \in started : other.mint = j.mint /\ other.op = j.op => other = j

AllHanded ==
    \A j \in started :
        /\ NewToken(j) /\ ~Failed("authority", j.run)
        /\ j.run \in finished \/ Running(j)
        => Handed(j)

AllAlone == \A j \in started : NewToken(j) /\ Running(j) => Alone(j)

PInv ==
    /\ \A j \in started : Sensible(j)
    /\ \A j \in started : j.mint \in Runs => j.mint < next_run
    /\ AllAlone
    /\ ListedOperatorKeepsControl
    /\ AllHanded

LEMMA SignersAfter ==
    ASSUME MintSetupAssumption, ChainTypes, Grows, NEW a \in Accounts \cup {None}
    PROVE  /\ SignersOf(a) \subseteq SignersOf(a)'
           /\ a = None \/ SignersOf(a) # {} => SignersOf(a)' = SignersOf(a)
<1>1. CASE a = None
  BY <1>1 DEF SignersOf
<1>2. CASE a # None
  BY <1>2, SignersKept
<1> QED BY <1>1, <1>2

\* With a task's new authority the store signs, and whoever it listed.
LEMMA NewSigners ==
    ASSUME MintSetupAssumption, ChainTypes, Grows, NEW job \in Jobs, Ready(job),
           job.step \in {"authority", "mint_authority", "freeze_authority"}
    PROVE  /\ SignersOf(NewAuthority(job))' = MultisigSigners(job)
           /\ \A k : Key(k) \in MultisigSigners(job) <=> job.minters # None /\ k \in job.minters
           /\ Store(job.store) \in MultisigSigners(job)
<1>1. NewAuthority(job) \in Accounts /\ NewAuthority(job) # None
  BY AuthorityTypes DEF MintSetupAssumption
<1>2. job.command \in {"create", "setAuthority"}
  BY DEF Ready, Plausible, Jobs, Commands
<1>3. SignersOf(NewAuthority(job)) = MultisigSigners(job)
  <2>1. CASE job.command = "create" /\ job.minters = None
    BY <1>1, <2>1 DEF NewAuthority, SignersOf, Store, MultisigSigners
  <2>2. CASE ~(job.command = "create" /\ job.minters = None)
    <3>1. multisigs[job.run] = MultisigSigners(job)
      BY <1>2, <2>2 DEF Ready, HasMultisig
    <3> QED BY <1>1, <2>2, <3>1 DEF NewAuthority, SignersOf, Multisig
  <2> QED BY <2>1, <2>2
<1>4. Store(job.store) \in MultisigSigners(job)
  BY DEF MultisigSigners
<1>5. ASSUME NEW k
      PROVE  Key(k) \in MultisigSigners(job) <=> job.minters # None /\ k \in job.minters
  <2> DEFINE M == IF job.minters = None THEN {} ELSE job.minters
  <2>1. Key(k) # Store(job.store) /\ \A l : Key(l) = Key(k) => l = k
    BY DEF Key, Store
  <2>2. MultisigSigners(job) = {Store(job.store)} \cup {Key(l) : l \in M}
    BY DEF MultisigSigners
  <2>3. Key(k) \in {Key(l) : l \in M} <=> k \in M
    BY <2>1
  <2> QED BY <2>1, <2>2, <2>3
<1> QED BY <1>1, <1>3, <1>4, <1>5, SignersKept

\* A task's request names the mint that its transactions change.
LEMMA RequestLists ==
    ASSUME Registry, NEW job, Ready(job), NEW j \in started, j.mint = job.mint
    PROVE  /\ (\A other \in started : other.mint = j.mint =>
                    other.minters # None /\ j.op \in other.minters) =>
                job.minters # None /\ j.op \in job.minters
           /\ job.minters # None /\ j.op \in job.minters => Listed(j)
BY DEF Ready, SameRequest, Listed

LEMMA LetGoKept ==
    ASSUME UNCHANGED chain, started \subseteq started', NEW j, LetGo(j)
    PROVE  LetGo(j)'
BY DEF chain, LetGo, Listed, CanSign, SignersOf

LEMMA StartHands ==
    ASSUME MintSetupAssumption, IInv, OInv, PInv, NEW job \in Jobs, job.op \in Operators,
           job.run = next_run, Start(job), job.step # "save", Sensible(job),
           job.mint \in Runs => NewToken(job) \/ job.mint < next_run
    PROVE  PInv'
<1>1. /\ UNCHANGED <<chain, pool, finished, unnoticed>> /\ started' = started \cup {job}
      /\ tasks' = [tasks EXCEPT ![job.op] = job] /\ tasks[job.op] = None
      /\ next_run \in Nat /\ next_run' = next_run + 1 /\ next_run \in Runs
  BY DEF Start, Runs
<1>2. UNCHANGED <<mints, stores, multisigs>>
  BY <1>1 DEF chain
<1>3. ASSUME NEW j \in started
      PROVE  /\ j \in Jobs /\ j.op \in Operators /\ j.run < next_run /\ j.run \in Nat
             /\ Running(j)' => Running(j) /\ tasks'[j.op] = tasks[j.op] /\ j.op # job.op
  <2>1. j \in Jobs /\ j.op \in Operators /\ j.run < next_run /\ j.run \in Nat
    BY DEF IInv, Registry, TypeOK, Jobs, Runs
  <2> QED BY <1>1, <2>1 DEF Running, IInv, TypeOK
<1>4. (\A j \in started : Sensible(j))'
  BY <1>1 DEF PInv, Sensible
<1>5. NewToken(job) => job.mint = next_run /\ mints[job.mint] = None
  BY <1>1 DEF NewToken, IInv, Fresh
<1>6. (\A j \in started : j.mint \in Runs => j.mint < next_run)'
  BY <1>1, <1>5 DEF PInv, Runs
<1>7. AllAlone'
  <2> SUFFICES ASSUME NEW j \in started', NewToken(j), Running(j)',
                      NEW other \in started', other.mint = j.mint, other.op = j.op
               PROVE  other = j
    BY DEF AllAlone, Alone, NewToken
  <2>1. CASE j = job
    <3>1. job.mint = next_run /\ ~(next_run < next_run)
      BY <1>1, <1>5, <2>1
    <3>2. \A s \in started : s.mint # next_run
      BY <1>1, <3>1 DEF PInv
    <3> QED BY <1>1, <2>1, <3>1, <3>2
  <2>2. CASE j \in started
    BY <1>1, <1>3, <2>2 DEF PInv, AllAlone, Alone
  <2> QED BY <1>1, <2>1, <2>2
<1>8. ListedOperatorKeepsControl'
  <2>1. \A op, a : CanSign(op, a)' <=> CanSign(op, a)
    BY <1>2 DEF CanSign, SignersOf
  <2> SUFFICES ASSUME NEW j \in started', NewToken(j), mints[j.mint] # None,
                      \A other \in started' :
                          other.mint = j.mint => other.minters # None /\ j.op \in other.minters
               PROVE  /\ CanSign(j.op, mints[j.mint].mint_authority)
                      /\ CanSign(j.op, mints[j.mint].freeze_authority)
    BY <1>2, <2>1 DEF ListedOperatorKeepsControl, NewToken
  <2> QED BY <1>1, <1>5 DEF PInv, ListedOperatorKeepsControl
<1>9. AllHanded'
  <2> SUFFICES ASSUME NEW j \in started', NewToken(j), ~Failed("authority", j.run),
                      (j.run \in finished \/ Running(j))'
               PROVE  Handed(j)'
    BY <1>1 DEF AllHanded, NewToken, Failed
  <2>1. CASE j = job
    <3>1. j.run \notin finished'
      BY <1>1, <2>1 DEF OInv
    <3>2. tasks'[j.op] = job
      BY <1>1, <2>1 DEF IInv, TypeOK
    <3>3. mints'[j.mint] = None
      BY <1>2, <1>5, <2>1
    <3> QED BY <2>1, <3>1, <3>2, <3>3 DEF Handed
  <2>2. CASE j \in started
    <3>1. Handed(j)
      BY <1>1, <1>3, <2>2 DEF PInv, AllHanded
    <3>2. LetGo(j) => LetGo(j)'
      BY <1>1, LetGoKept
    <3> QED BY <1>1, <1>2, <1>3, <2>2, <3>1, <3>2 DEF Handed, OwnAuthorities
  <2> QED BY <1>1, <2>1, <2>2
<1> QED BY <1>4, <1>6, <1>7, <1>8, <1>9 DEF PInv

\* Steps that leave the chain as it is.
LEMMA QuietHands ==
    ASSUME IInv, PInv, UNCHANGED <<next_run, chain, started>>, unnoticed \subseteq unnoticed',
           \A j \in started : NewToken(j) /\ Running(j)' => Running(j),
           \A j \in started :
               /\ NewToken(j) /\ ~Failed("authority", j.run)'
               /\ j.run \in finished' \/ Running(j)'
               => /\ j.run \in finished \/ Running(j)
                  /\ j.run \in finished' => LetGo(j)
                  /\ Running(j)' /\ tasks'[j.op].step = "save" => LetGo(j)
    PROVE  PInv'
<1>1. UNCHANGED <<mints, stores, multisigs>>
  BY DEF chain
<1>2. (\A j \in started : Sensible(j))' /\ (\A j \in started : j.mint \in Runs => j.mint < next_run)'
  BY DEF PInv, Sensible
<1>3. AllAlone'
  BY DEF PInv, AllAlone, Alone, NewToken
<1>4. ListedOperatorKeepsControl'
  <2>1. \A op, a : CanSign(op, a)' <=> CanSign(op, a)
    BY <1>1 DEF CanSign, SignersOf
  <2> QED BY <1>1, <2>1 DEF PInv, ListedOperatorKeepsControl, NewToken
<1>5. \A j \in started : LetGo(j) => LetGo(j)'
  BY LetGoKept
<1>6. AllHanded'
  <2> SUFFICES ASSUME NEW j \in started, NewToken(j), ~Failed("authority", j.run)',
                      (j.run \in finished \/ Running(j))'
               PROVE  Handed(j)'
    BY DEF AllHanded, NewToken
  <2>1. Handed(j)
    BY ExcusesKept DEF PInv, AllHanded
  <2> QED BY <1>1, <1>5, <2>1 DEF Handed, OwnAuthorities
<1> QED BY <1>2, <1>3, <1>4, <1>6 DEF PInv

\* A transaction that lands gives an authority to whom its task listed.
LEMMA LandControl ==
    ASSUME MintSetupAssumption, IInv, PInv, NEW tx \in pool, Land(tx)
    PROVE  ListedOperatorKeepsControl'
<1> DEFINE job == tx.job
<1>1. /\ UNCHANGED started /\ Accepts(tx) /\ Execute(job) /\ ChainTypes
      /\ ExistingMintsExist /\ StoresHaveMints /\ Registry
      /\ job \in Jobs /\ Ready(job) /\ job.mint \in MintIds /\ tx \in Transactions
  BY DEF Land, IInv, TypeOK, ChainTypes, PoolReady, Transactions, Jobs
<1>2. ChainTypes' /\ Grows
  BY <1>1, ExecuteTypes
<1> SUFFICES ASSUME NEW j \in started, NewToken(j), mints'[j.mint] # None,
                    \A other \in started :
                        other.mint = j.mint => other.minters # None /\ j.op \in other.minters
             PROVE  /\ Key(j.op) \in SignersOf(mints[j.mint].mint_authority)'
                    /\ Key(j.op) \in SignersOf(mints[j.mint].freeze_authority)'
  BY <1>1 DEF ListedOperatorKeepsControl, NewToken, CanSign
<1>3. j \in Jobs /\ j.mint \in MintIds /\ j.minters # None /\ j.op \in j.minters
  BY DEF IInv, TypeOK, Jobs
<1>4. ASSUME mints[j.mint] # None
      PROVE  /\ Key(j.op) \in SignersOf(mints[j.mint].mint_authority)
             /\ Key(j.op) \in SignersOf(mints[j.mint].freeze_authority)
             /\ mints[j.mint].mint_authority \in Accounts \cup {None}
             /\ mints[j.mint].freeze_authority \in Accounts \cup {None}
  BY <1>1, <1>3, <1>4 DEF PInv, ListedOperatorKeepsControl, CanSign, ChainTypes, MintAccounts
<1>5. ASSUME mints[j.mint] # None, mints'[j.mint].mint_authority = mints[j.mint].mint_authority
      PROVE  Key(j.op) \in SignersOf(mints[j.mint].mint_authority)'
  <2>1. PICK a \in Accounts \cup {None} :
           a = mints[j.mint].mint_authority /\ Key(j.op) \in SignersOf(a)
    BY <1>4, <1>5
  <2>2. Key(j.op) \in SignersOf(a)'
    BY <1>1, <1>2, <2>1, SignersAfter
  <2> QED BY <1>5, <2>1, <2>2
<1>6. ASSUME mints[j.mint] # None, mints'[j.mint].freeze_authority = mints[j.mint].freeze_authority
      PROVE  Key(j.op) \in SignersOf(mints[j.mint].freeze_authority)'
  <2>1. PICK a \in Accounts \cup {None} :
           a = mints[j.mint].freeze_authority /\ Key(j.op) \in SignersOf(a)
    BY <1>4, <1>6
  <2>2. Key(j.op) \in SignersOf(a)'
    BY <1>1, <1>2, <2>1, SignersAfter
  <2> QED BY <1>6, <2>1, <2>2
<1>7. ASSUME job.step \in {"authority", "mint_authority", "freeze_authority"}, j.mint = job.mint
      PROVE  /\ Key(j.op) \in SignersOf(NewAuthority(job))'
             /\ NewFreezeAuthority(job) = NewAuthority(job)
             /\ mints[j.mint] # None
  <2>1. job.minters # None /\ j.op \in job.minters
    BY <1>1, <1>7, RequestLists
  <2>2. Key(j.op) \in SignersOf(NewAuthority(job))'
    BY <1>1, <1>2, <1>7, <2>1, NewSigners
  <2>3. PICK r \in started : SameRequest(r, job)
    BY <1>1 DEF Ready
  <2>4. job.command # "setAuthority" => job.command = "create" /\ job.freeze = None /\ ~job.only
    <3>1. job.command # "adapter"
      BY <1>1, <1>7 DEF Ready, Plausible
    <3> QED BY <1>1, <2>1, <2>3, <3>1 DEF PInv, Sensible, SameRequest, Jobs, Commands
  <2>5. mints[job.mint] # None
    BY <1>1, <1>7, MintExists
  <2> QED BY <1>7, <2>2, <2>4, <2>5 DEF NewFreezeAuthority
<1>8. ASSUME job.step = "token", j.mint = job.run, mints'[j.mint] = OwnAuthorities(job.op)
      PROVE  /\ Key(j.op) \in SignersOf(mints[j.mint].mint_authority)'
             /\ Key(j.op) \in SignersOf(mints[j.mint].freeze_authority)'
  <2>1. job.op = j.op
    <3>1. job.run = j.run
      BY <1>8 DEF NewToken
    <3>2. SameRequest(j, job)
      BY <1>1, <3>1, SameRun
    <3> QED BY <3>2 DEF SameRequest
  <2>2. Key(j.op) # None
    BY <1>3, AuthorityTypes DEF OwnAuthorities, MintAccounts, MintSetupAssumption
  <2>3. SignersOf(Key(j.op))' = {Key(j.op)}
    BY <2>2 DEF SignersOf, Key
  <2>4. mints'[j.mint].mint_authority = Key(j.op) /\ mints'[j.mint].freeze_authority = Key(j.op)
    BY <1>8, <2>1 DEF OwnAuthorities
  <2> QED BY <2>3, <2>4
<1>9. \/ mints'[j.mint] = mints[j.mint]
      \/ job.step = "token" /\ j.mint = job.run /\ mints'[j.mint] = OwnAuthorities(job.op)
      \/ /\ job.step = "authority" /\ j.mint = job.mint
         /\ mints'[j.mint] = [mint_authority |-> NewAuthority(job),
                              freeze_authority |-> NewFreezeAuthority(job)]
      \/ /\ job.step = "mint_authority" /\ j.mint = job.mint
         /\ mints'[j.mint].mint_authority = NewAuthority(job)
         /\ mints'[j.mint].freeze_authority = mints[j.mint].freeze_authority
      \/ /\ job.step = "freeze_authority" /\ j.mint = job.mint
         /\ mints'[j.mint].mint_authority = mints[j.mint].mint_authority
         /\ mints'[j.mint].freeze_authority = NewFreezeAuthority(job)
  BY <1>1, <1>3, MintChanges
<1>10. CASE mints'[j.mint] = mints[j.mint]
  BY <1>5, <1>6, <1>10
<1>11. CASE /\ job.step = "authority" /\ j.mint = job.mint
            /\ mints'[j.mint] = [mint_authority |-> NewAuthority(job),
                                 freeze_authority |-> NewFreezeAuthority(job)]
  <2>1. mints'[j.mint].mint_authority = NewAuthority(job)
        /\ mints'[j.mint].freeze_authority = NewAuthority(job)
    BY <1>7, <1>11
  <2> QED BY <1>7, <1>11, <2>1
<1>12. CASE /\ job.step = "mint_authority" /\ j.mint = job.mint
            /\ mints'[j.mint].mint_authority = NewAuthority(job)
            /\ mints'[j.mint].freeze_authority = mints[j.mint].freeze_authority
  BY <1>6, <1>7, <1>12
<1>13. CASE /\ job.step = "freeze_authority" /\ j.mint = job.mint
            /\ mints'[j.mint].mint_authority = mints[j.mint].mint_authority
            /\ mints'[j.mint].freeze_authority = NewFreezeAuthority(job)
  <2>1. mints'[j.mint].freeze_authority = NewAuthority(job)
    BY <1>7, <1>13
  <2> QED BY <1>5, <1>7, <1>13, <2>1
<1> QED BY <1>8, <1>9, <1>10, <1>11, <1>12, <1>13

\* Whom a creator has let go of a mint, no task of anyone's gives it back to
\* without listing it.
LEMMA LandLetGo ==
    ASSUME MintSetupAssumption, IInv, PInv, NEW tx \in pool, Land(tx),
           NEW j \in started, NewToken(j), mints'[j.mint] # None,
           LetGo(j) \/ (tx.job.step = "authority" /\ tx.job.mint = j.mint)
    PROVE  LetGo(j)'
<1> DEFINE job == tx.job
<1>1. /\ UNCHANGED started /\ Accepts(tx) /\ Execute(job) /\ ChainTypes
      /\ ExistingMintsExist /\ StoresHaveMints /\ Registry
      /\ job \in Jobs /\ Ready(job) /\ job.mint \in MintIds /\ tx \in Transactions
      /\ j \in Jobs /\ j.mint \in MintIds
  BY DEF Land, IInv, TypeOK, ChainTypes, PoolReady, Transactions, Jobs
<1>2. ChainTypes' /\ Grows
  BY <1>1, ExecuteTypes
<1>3. Listed(j)' <=> Listed(j)
  BY <1>1 DEF Listed
<1>4. ASSUME job.step \in {"authority", "mint_authority", "freeze_authority"}, j.mint = job.mint
      PROVE  /\ Key(j.op) \in SignersOf(NewAuthority(job))' => Listed(j)
             /\ SignersOf(NewAuthority(job))' # {}
  <2>1. Key(j.op) \in SignersOf(NewAuthority(job))' <=> job.minters # None /\ j.op \in job.minters
    BY <1>1, <1>2, <1>4, NewSigners
  <2>2. job.minters # None /\ j.op \in job.minters => Listed(j)
    BY <1>1, <1>4, RequestLists
  <2>3. SignersOf(NewAuthority(job))' # {}
    BY <1>1, <1>2, <1>4, NewSigners
  <2> QED BY <2>1, <2>2, <2>3
<1>5. ASSUME LetGo(j), mints'[j.mint].mint_authority = mints[j.mint].mint_authority
      PROVE  Key(j.op) \in SignersOf(mints[j.mint].mint_authority)' => Listed(j)
  <2>1. PICK a \in Accounts : a = mints[j.mint].mint_authority
    BY <1>1, <1>5 DEF LetGo, ChainTypes, MintAccounts
  <2>2. SignersOf(a) # {}
    BY <1>1, <1>5, <2>1 DEF LetGo, IInv, MintAuthorityAlive
  <2>3. SignersOf(a)' = SignersOf(a)
    BY <1>1, <1>2, <2>1, <2>2, SignersKept
  <2> QED BY <1>5, <2>1, <2>3 DEF LetGo, CanSign
<1>6. ASSUME LetGo(j), mints'[j.mint].freeze_authority = mints[j.mint].freeze_authority
      PROVE  /\ Key(j.op) \in SignersOf(mints[j.mint].freeze_authority)' =>
                    Listed(j) \/ j.freeze = j.op
             /\ mints'[j.mint].freeze_authority # None =>
                    SignersOf(mints[j.mint].freeze_authority)' # {}
  <2>1. PICK a \in Accounts \cup {None} : a = mints[j.mint].freeze_authority
    BY <1>1, <1>6 DEF LetGo, ChainTypes, MintAccounts
  <2>2. a = None \/ SignersOf(a) # {}
    BY <1>6, <2>1 DEF LetGo
  <2>3. SignersOf(a)' = SignersOf(a)
    BY <1>1, <1>2, <2>1, <2>2, SignersAfter
  <2> QED BY <1>6, <2>1, <2>2, <2>3 DEF LetGo, CanSign
<1>7. ASSUME job.step = "authority", j.mint = job.mint
      PROVE  /\ Key(j.op) \in SignersOf(NewFreezeAuthority(job))' => Listed(j) \/ j.freeze = j.op
             /\ NewFreezeAuthority(job) # None => SignersOf(NewFreezeAuthority(job))' # {}
  <2>1. job.command = "create" /\ NewToken(job)
    BY <1>1, <1>7 DEF Ready, Plausible, NewToken
  <2>2. j.freeze = job.freeze
    <3>1. job.run = j.run
      BY <1>7, <2>1 DEF NewToken
    <3>2. SameRequest(j, job)
      BY <1>1, <3>1, SameRun
    <3> QED BY <3>2 DEF SameRequest
  <2>3. CASE job.freeze # None
    <3>1. job.freeze \in Keys
      BY <1>1, <2>3 DEF Jobs
    <3>2. Key(job.freeze) # None
      BY <3>1 DEF Key, Accounts, MintSetupAssumption
    <3>3. SignersOf(Key(job.freeze))' = {Key(job.freeze)}
      BY <3>2 DEF SignersOf, Key
    <3>4. NewFreezeAuthority(job) = Key(job.freeze)
      BY <2>1, <2>3 DEF NewFreezeAuthority
    <3> QED BY <2>2, <3>3, <3>4 DEF Key
  <2>4. CASE job.freeze = None /\ job.only
    <3>1. NewFreezeAuthority(job) = None
      BY <2>1, <2>4 DEF NewFreezeAuthority
    <3> QED BY <3>1 DEF SignersOf
  <2>5. CASE job.freeze = None /\ ~job.only
    <3>1. NewFreezeAuthority(job) = NewAuthority(job)
      BY <2>1, <2>5 DEF NewFreezeAuthority
    <3> QED BY <1>4, <1>7, <3>1
  <2> QED BY <2>3, <2>4, <2>5
<1>8. SUFFICES
         /\ Key(j.op) \in SignersOf(mints[j.mint].mint_authority)' => Listed(j)
         /\ Key(j.op) \in SignersOf(mints[j.mint].freeze_authority)' =>
                Listed(j) \/ j.freeze = j.op
         /\ mints'[j.mint].freeze_authority # None =>
                SignersOf(mints[j.mint].freeze_authority)' # {}
  BY <1>3 DEF LetGo, CanSign
<1>9. CASE mints'[j.mint] = mints[j.mint] /\ LetGo(j)
  BY <1>5, <1>6, <1>9
<1>10. CASE /\ job.step = "authority" /\ j.mint = job.mint
            /\ mints'[j.mint] = [mint_authority |-> NewAuthority(job),
                                 freeze_authority |-> NewFreezeAuthority(job)]
  <2>1. mints'[j.mint].mint_authority = NewAuthority(job)
        /\ mints'[j.mint].freeze_authority = NewFreezeAuthority(job)
    BY <1>10
  <2> QED BY <1>4, <1>7, <1>10, <2>1
<1>11. CASE /\ job.step = "mint_authority" /\ j.mint = job.mint /\ LetGo(j)
            /\ mints'[j.mint].mint_authority = NewAuthority(job)
            /\ mints'[j.mint].freeze_authority = mints[j.mint].freeze_authority
  BY <1>4, <1>6, <1>11
<1>12. CASE /\ job.step = "freeze_authority" /\ j.mint = job.mint /\ LetGo(j)
            /\ mints'[j.mint].mint_authority = mints[j.mint].mint_authority
            /\ mints'[j.mint].freeze_authority = NewFreezeAuthority(job)
  <2>1. NewFreezeAuthority(job) = NewAuthority(job)
    BY <1>1, <1>12 DEF Ready, Plausible, Jobs, Commands, NewFreezeAuthority
  <2>2. mints'[j.mint].freeze_authority = NewAuthority(job)
    BY <1>12, <2>1
  <2> QED BY <1>4, <1>5, <1>12, <2>2
<1>13. CASE job.step = "authority" /\ job.mint = j.mint
  <2>1. mints[j.mint] # None
    BY <1>1, <1>13, MintExists
  <2>2. Execute(job) /\ j.mint \in MintIds /\ ChainTypes /\ j.mint = job.mint
    BY <1>1, <1>13
  <2>3. mints'[j.mint] = [mint_authority |-> NewAuthority(job),
                          freeze_authority |-> NewFreezeAuthority(job)]
    <3> HIDE DEF job
    <3> QED BY <1>13, <2>2 DEF Execute, HandOver, ChainTypes
  <2> QED BY <1>10, <1>13, <2>2, <2>3
<1>14. CASE LetGo(j)
  <2>1. mints[j.mint] # None
    BY <1>14 DEF LetGo
  <2> QED BY <1>1, <1>9, <1>10, <1>11, <1>12, <1>14, <2>1, MintChanges
<1> QED BY <1>13, <1>14

LEMMA LandHands ==
    ASSUME MintSetupAssumption, IInv, OInv, PInv, NEW tx \in pool, Land(tx)
    PROVE  PInv'
<1> DEFINE job == tx.job
<1>1. /\ UNCHANGED <<next_run, started, unnoticed>> /\ pool' \subseteq pool
      /\ Proceed(tx) /\ Accepts(tx) /\ Execute(job) /\ ChainTypes
      /\ ExistingMintsExist /\ StoresHaveMints /\ Registry
      /\ job \in Jobs /\ Ready(job) /\ tx \in Transactions
  BY DEF Land, IInv, TypeOK, ChainTypes, PoolReady, Transactions
<1>2. Grows
  BY <1>1, ExecuteTypes
<1>3. (\A j \in started : Sensible(j))' /\ (\A j \in started : j.mint \in Runs => j.mint < next_run)'
  BY <1>1 DEF PInv, Sensible
<1>4. ASSUME NEW j \in started, NewToken(j), (j.run \in finished \/ Running(j))'
      PROVE  /\ j.run \in finished \/ Running(j)
             /\ j.run \in finished' => j.run \in finished
             /\ Running(j)' => Running(j)
             /\ Running(j)' /\ tasks'[j.op].step = "save" =>
                   \/ Running(j) /\ tasks[j.op].step = "save"
                   \/ job.step = "authority" /\ job.run = j.run
  BY <1>1, <1>4, ProceedGuards
<1>5. AllAlone'
  BY <1>1, <1>4 DEF PInv, AllAlone, Alone, NewToken
<1>6. AllHanded'
  <2> SUFFICES ASSUME NEW j \in started, NewToken(j), ~Failed("authority", j.run),
                      (j.run \in finished \/ Running(j))'
               PROVE  Handed(j)'
    BY <1>1 DEF AllHanded, NewToken, Failed
  <2>1. Handed(j) /\ j \in Jobs /\ j.mint \in MintIds
    BY <1>4 DEF PInv, AllHanded, IInv, TypeOK, Jobs
  <2>2. LetGo(j) => LetGo(j)'
    <3>1. LetGo(j) => mints'[j.mint] # None
      BY <1>2, <2>1 DEF LetGo, Grows
    <3> QED BY <3>1, LandLetGo
  <2>3. ASSUME job.step = "authority", job.mint = j.mint
        PROVE  LetGo(j)'
    <3>1. mints'[j.mint] # None
      BY <1>1, <1>2, <2>1, <2>3, MintExists DEF Grows
    <3> QED BY <2>3, <3>1, LandLetGo
  <2>4. job.run = j.run => job.mint = j.mint /\ job.op = j.op
    <3> SUFFICES ASSUME job.run = j.run PROVE job.mint = j.mint /\ job.op = j.op
      OBVIOUS
    <3>1. SameRequest(j, job)
      BY <1>1, SameRun
    <3> QED BY <3>1 DEF SameRequest
  <2>5. ASSUME job.step \in {"mint_authority", "freeze_authority"}, job.mint = j.mint
        PROVE  LetGo(j)'
    <3>1. mints[j.mint] # None /\ job.command = "setAuthority"
      BY <1>1, <2>5, ReadersFindMint DEF ReadsAuthority
    <3>2. CASE LetGo(j)
      BY <2>2, <3>2
    <3>3. CASE ~LetGo(j)
      <4>1. mints[j.mint] = OwnAuthorities(j.op) /\ Running(j)
        BY <1>4, <2>1, <3>1, <3>3 DEF Handed
      <4>2. CurrentAuthority(job) = Key(j.op)
        BY <2>5, <4>1 DEF CurrentAuthority, OwnAuthorities
      <4>3. CanSign(job.op, Key(j.op))
        BY <1>1, <2>5, <4>2, AcceptsCases DEF ReadsAuthority
      <4>4. Key(j.op) # None
        BY <2>1, AuthorityTypes DEF OwnAuthorities, MintAccounts, MintSetupAssumption
      <4>5. job.op = j.op
        BY <4>3, <4>4 DEF CanSign, SignersOf, Key
      <4>6. PICK r \in started : SameRequest(r, job)
        BY <1>1 DEF Ready
      <4>7. r = j
        BY <2>5, <4>1, <4>5, <4>6 DEF PInv, AllAlone, Alone, SameRequest
      <4> QED BY <3>1, <4>6, <4>7 DEF SameRequest, NewToken
    <3> QED BY <3>2, <3>3
  <2>6. mints'[j.mint] = None \/ mints'[j.mint] = OwnAuthorities(j.op) \/ LetGo(j)'
    <3>1. CASE mints'[j.mint] = mints[j.mint]
      BY <2>1, <2>2, <3>1 DEF Handed
    <3>2. CASE /\ job.step = "token" /\ j.mint = job.run
               /\ mints'[j.mint] = OwnAuthorities(job.op)
      <4>1. job.run = j.run
        BY <3>2 DEF NewToken
      <4> QED BY <2>4, <3>2, <4>1
    <3>3. \/ mints'[j.mint] = mints[j.mint]
          \/ job.step = "token" /\ j.mint = job.run /\ mints'[j.mint] = OwnAuthorities(job.op)
          \/ job.step \in {"authority", "mint_authority", "freeze_authority"} /\ job.mint = j.mint
      BY <1>1, <2>1, MintChanges
    <3> QED BY <2>3, <2>5, <3>1, <3>2, <3>3
  <2>7. j.run \in finished' => LetGo(j)'
    BY <1>4, <2>1, <2>2 DEF Handed
  <2>8. Running(j)' /\ tasks'[j.op].step = "save" => LetGo(j)'
    BY <1>4, <2>1, <2>2, <2>3, <2>4 DEF Handed
  <2> QED BY <2>6, <2>7, <2>8 DEF Handed, OwnAuthorities
<1>7. ListedOperatorKeepsControl'
  BY LandControl
<1> QED BY <1>3, <1>5, <1>6, <1>7 DEF PInv

LEMMA RefuseHands ==
    ASSUME MintSetupAssumption, IInv, OInv, PInv, NEW tx \in pool, Refuse(tx)
    PROVE  PInv'
<1> DEFINE job == tx.job
<1>1. /\ UNCHANGED <<next_run, chain, started>> /\ pool' \subseteq pool
      /\ Proceed(tx) \/ Abort(tx)
      /\ unnoticed \subseteq unnoticed'
  BY DEF Refuse
<1>2. ASSUME NEW j \in started, NewToken(j), j.run \in finished' \/ Running(j)'
      PROVE  /\ j.run \in finished \/ Running(j)
             /\ j.run \in finished' => j.run \in finished
             /\ Running(j)' => Running(j)
             /\ Running(j)' /\ tasks'[j.op].step = "save" =>
                   \/ Running(j) /\ tasks[j.op].step = "save"
                   \/ job.step = "authority" /\ job.run = j.run /\ IsAwaited(tx)
  BY <1>1, <1>2, ProceedGuards
<1>3. ASSUME NEW j \in started, NewToken(j), ~Failed("authority", j.run)',
             j.run \in finished' \/ Running(j)'
      PROVE  /\ j.run \in finished' => LetGo(j)
             /\ Running(j)' /\ tasks'[j.op].step = "save" => LetGo(j)
  <2>1. ~(job.step = "authority" /\ job.run = j.run /\ IsAwaited(tx))
    BY <1>3, RefusedHandOver
  <2>2. Handed(j)
    BY <1>1, <1>2, <1>3, ExcusesKept DEF PInv, AllHanded
  <2> QED BY <1>2, <1>3, <2>1, <2>2 DEF Handed
<1>4. \A j \in started : NewToken(j) /\ Running(j)' => Running(j)
  BY <1>2
<1> QED BY <1>1, <1>2, <1>3, <1>4, QuietHands

LEMMA SubmitHands ==
    ASSUME MintSetupAssumption, IInv, PInv, NEW op \in Operators, Submit(op)
    PROVE  PInv'
<1>1. UNCHANGED <<next_run, chain, started, finished, unnoticed>>
  BY DEF Submit, history
<1>2. \A j \in started : Running(j)' => Running(j) /\ tasks'[j.op].step = tasks[j.op].step
  BY SubmitTasks
<1>3. \A j \in started :
         NewToken(j) /\ ~Failed("authority", j.run)' /\ (j.run \in finished \/ Running(j)) =>
             Handed(j)
  BY <1>1 DEF PInv, AllHanded, Failed
<1> QED BY <1>1, <1>2, <1>3, QuietHands DEF Handed

LEMMA SaveHands ==
    ASSUME MintSetupAssumption, IInv, OInv, PInv, NEW op \in Operators, SaveSolanaDeployment(op)
    PROVE  PInv'
<1>1. /\ UNCHANGED <<next_run, chain, started, unnoticed>>
      /\ \A j \in started : Running(j)' => Running(j) /\ tasks'[j.op] = tasks[j.op]
      /\ \A j \in started : j.run \in finished' =>
            j.run \in finished \/ (Running(j) /\ tasks[j.op].step = "save")
  BY SaveTasks
<1>2. \A j \in started :
         NewToken(j) /\ ~Failed("authority", j.run)' /\ (j.run \in finished \/ Running(j)) =>
             Handed(j)
  BY <1>1 DEF PInv, AllHanded, Failed
<1> QED BY <1>1, <1>2, QuietHands DEF Handed

LEMMA FewerHands ==
    ASSUME IInv, PInv, UNCHANGED <<next_run, chain, started, finished, unnoticed>>,
           \A op \in Operators : tasks'[op] = tasks[op] \/ tasks'[op] = None
    PROVE  PInv'
<1>1. \A j \in started : j.op \in Operators
  BY DEF IInv, TypeOK, Jobs
<1>2. \A j \in started : Running(j)' => Running(j) /\ tasks'[j.op] = tasks[j.op]
  BY <1>1 DEF Running
<1>3. \A j \in started :
         NewToken(j) /\ ~Failed("authority", j.run)' /\ (j.run \in finished \/ Running(j)) =>
             Handed(j)
  BY <1>1 DEF PInv, AllHanded, Failed
<1> QED BY <1>2, <1>3, QuietHands DEF Handed

\* Each step of a task, and each transaction that lands late, keeps who has
\* power over a mint as the tasks' arguments say.
THEOREM StepPInv ==
    ASSUME MintSetupAssumption, IInv, OInv, PInv, [Next]_vars
    PROVE  PInv'
<1>1. ASSUME NEW op \in Operators, StartSome(op)
      PROVE  PInv'
  BY <1>1, StartedJobs, StartHands, MintSetupAssumption
<1>2. ASSUME NEW op \in Operators, Crash(op)
      PROVE  PInv'
  <2>1. /\ UNCHANGED <<next_run, chain, started, finished, unnoticed>>
        /\ \A o \in Operators : tasks'[o] = tasks[o] \/ tasks'[o] = None
    BY <1>2 DEF Crash, history, IInv, TypeOK
  <2> QED BY <2>1, FewerHands
<1>3. ASSUME NEW tx \in pool, Expire(tx)
      PROVE  PInv'
  <2>1. /\ UNCHANGED <<next_run, chain, started, finished, unnoticed>>
        /\ \A o \in Operators : tasks'[o] = tasks[o] \/ tasks'[o] = None
    BY <1>3 DEF Expire, Abort, IInv, TypeOK
  <2> QED BY <2>1, FewerHands
<1>4. CASE UNCHANGED vars
  <2>1. /\ UNCHANGED <<next_run, chain, started, finished, unnoticed>>
        /\ \A o \in Operators : tasks'[o] = tasks[o] \/ tasks'[o] = None
    BY <1>4 DEF vars, history
  <2> QED BY <2>1, FewerHands
<1> QED BY <1>1, <1>2, <1>3, <1>4, SubmitHands, SaveHands, LandHands, RefuseHands DEF Next

LEMMA PowersHold == Spec => [](IInv /\ OInv /\ PInv)
<1>1. Init => IInv
  BY MintSetupAssumption, InitIInv
<1>2. Init => OInv /\ PInv
  BY DEF Init, OInv, AllGuarded, PInv, AllAlone, ListedOperatorKeepsControl, AllHanded
<1>3. IInv /\ OInv /\ PInv /\ [Next]_vars => (IInv /\ OInv /\ PInv)'
  BY MintSetupAssumption, StepIInv, StepOInv, StepPInv
<1> QED BY <1>1, <1>2, <1>3, PTL DEF Spec

\* Between the two transactions of setAuthority, after tasks that died and
\* behind transactions that land late, a creator that lists itself in every
\* task can sign for both authorities of its mint: it can always repeat the
\* task (setAuthority.ts:152).
THEOREM ListedOperatorStaysInControl == Spec => []ListedOperatorKeepsControl
<1>1. PInv => ListedOperatorKeepsControl
  BY DEF PInv
<1> QED BY <1>1, PowersHold, PTL

\* After createOFT ended, its wallet can sign for the mint or for freezing only
\* as what some task on the mint made it, whichever tasks follow, unless its
\* hand-over failed unnoticed (createOFT.ts:367).
THEOREM CreatorHasLetGo == Spec => []CreatorLetsGo
<1>1. PInv => CreatorLetsGo
  BY DEF PInv, AllHanded, Handed, LetGo, Listed, CreatorLetsGo
<1> QED BY <1>1, PowersHold, PTL
=============================================================================
