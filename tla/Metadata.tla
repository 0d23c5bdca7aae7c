------------------------------- MODULE Metadata -------------------------------
(***************************************************************************)
(* The Metaplex metadata of the mint: what the create task makes, and the   *)
(* tasks update-metadata and set-update-authority.  Each reads the metadata, *)
(* checks it, and sends one transaction that is built from what it read; the *)
(* transaction may land later, after other operators' transactions, or never. *)
(*                                                                           *)
(* External: Metaplex updateV1, which asks for the signature of the update   *)
(* authority and refuses new data when the metadata is immutable.            *)
(***************************************************************************)
EXTENDS Integers, FiniteSets

CONSTANTS
    None,
    Operators,      \* wallets that run the tasks
    SystemProgram,  \* the update authority of renounced metadata
    Names, Fees,    \* data: a name, and the seller's fee in basis points
    MaxTransactions \* bound: transactions sent

Authorities == Operators \cup {SystemProgram}

MetadataAssumption ==
    /\ SystemProgram \notin Operators
    /\ None \notin Authorities /\ None \notin BOOLEAN
    /\ "" \in Names /\ 0 \in Fees /\ Fees \subseteq Nat
    /\ LET Data == [name : Names, fee : Nat]
       IN  None \notin Data \cup
              [update_authority : Authorities, is_mutable : BOOLEAN, data : Data]
    /\ MaxTransactions \in Nat

VARIABLES
    metadata,
    creation,   \* history: the arguments of the create task
    version,    \* history: changes of the data so far
    job,        \* of each operator: the task in progress
    pool,       \* transactions that may land
    sent,       \* transactions so far
    renounced   \* history: the metadata that renouncing left behind

vars == <<metadata, creation, version, job, pool, sent, renounced>>

\* createV1 with percentAmount(sellerFeeBasisPoints)
Created(args) ==
    [update_authority |-> args.operator, is_mutable |-> args.mutable,
     data |-> [name |-> args.name, fee |-> args.fee * 100]]

Init ==
    /\ metadata = None /\ creation = None
    /\ version = 0
    /\ job = [o \in Operators |-> None]
    /\ pool = {} /\ sent = 0
    /\ renounced = None

Creations == [operator : Operators, mutable : BOOLEAN, name : Names, fee : Fees]

\* The create task; Metaplex admits fees up to 10000 basis points.
Create(args) ==
    /\ metadata = None
    /\ args.fee * 100 <= 10000
    /\ metadata' = Created(args)
    /\ creation' = args
    /\ UNCHANGED <<version, job, pool, sent, renounced>>

-----------------------------------------------------------------------------
\* Variant: a fee of zero is taken for one that is not given.
MergeFalsy(given, data) ==
    [name |-> IF given.name \in {None, ""} THEN data.name ELSE given.name,
     fee  |-> IF given.fee \in {None, 0} THEN data.fee ELSE given.fee]

\* An empty name counts as none.
Merge(given, data) ==
    [name |-> IF given.name \in {None, ""} THEN data.name ELSE given.name,
     fee  |-> IF given.fee = None THEN data.fee ELSE given.fee]

\* update-metadata
UpdateMetadata(o, given) ==
    /\ job[o] = None /\ metadata # None
    /\ metadata.update_authority = o
    /\ metadata.is_mutable
    /\ job' = [job EXCEPT ![o] =
                 [signer |-> o, data |-> Merge(given, metadata.data), given |-> given,
                  authority |-> None, is_mutable |-> None, renounce |-> FALSE,
                  asks |-> FALSE, version |-> version]]
    /\ UNCHANGED <<metadata, creation, version, pool, sent, renounced>>

\* Variant: gives the authority up and leaves the metadata as it is.
IsMutableKept(renounce, is_mutable) == is_mutable

IsMutable(renounce, is_mutable) == IF renounce THEN FALSE ELSE is_mutable

\* set-update-authority, which refuses to hand on what is immutable.  Renouncing
\* takes no new authority; without it any one may be given, SystemProgram too.
SetUpdateAuthority(o, new, renounce) ==
    /\ job[o] = None /\ metadata # None
    /\ renounce => new = SystemProgram
    /\ metadata.update_authority = o
    /\ renounce \/ metadata.is_mutable
    /\ job' = [job EXCEPT ![o] =
                 [signer |-> o, data |-> None, given |-> None,
                  authority |-> new, is_mutable |-> IsMutable(renounce, metadata.is_mutable),
                  renounce |-> renounce, asks |-> renounce, version |-> version]]
    /\ UNCHANGED <<metadata, creation, version, pool, sent, renounced>>

MaySend(o) == job[o] # None /\ ~job[o].asks

\* promptToContinue
Confirm(o) ==
    /\ job[o] # None /\ job[o].asks
    /\ job' = [job EXCEPT ![o].asks = FALSE]
    /\ UNCHANGED <<metadata, creation, version, pool, sent, renounced>>

SendTransaction(o) ==
    /\ MaySend(o)
    /\ sent < MaxTransactions
    /\ sent' = sent + 1
    /\ pool' = pool \cup {job[o]}
    /\ UNCHANGED <<metadata, creation, version, job, renounced>>

\* The task has its answer, or gives up: declined, expired, or disconnected.
End(o) ==
    /\ job[o] # None
    /\ job' = [job EXCEPT ![o] = None]
    /\ UNCHANGED <<metadata, creation, version, pool, sent, renounced>>

\* updateV1
UpdateV1(tx) ==
    /\ metadata.update_authority = tx.signer
    /\ tx.data # None \/ tx.is_mutable = TRUE => metadata.is_mutable
    /\ metadata' =
          [update_authority |-> IF tx.authority = None THEN metadata.update_authority ELSE tx.authority,
           is_mutable |-> IF tx.is_mutable = None THEN metadata.is_mutable ELSE tx.is_mutable,
           data |-> IF tx.data = None THEN metadata.data ELSE tx.data]
    /\ version' = IF tx.data = None THEN version ELSE version + 1
    /\ renounced' = IF tx.renounce THEN metadata' ELSE renounced
    /\ pool' = pool \ {tx}
    /\ UNCHANGED <<creation, job, sent>>

Drop(tx) ==
    pool' = pool \ {tx} /\ UNCHANGED <<metadata, creation, version, job, sent, renounced>>

Givens == [name : Names \cup {None}, fee : Fees \cup {None}]

Next ==
    \/ \E args \in Creations : Create(args)
    \/ \E o \in Operators :
          \/ \E given \in Givens : UpdateMetadata(o, given)
          \/ \E new \in Authorities, renounce \in BOOLEAN : SetUpdateAuthority(o, new, renounce)
          \/ Confirm(o) \/ SendTransaction(o) \/ End(o)
    \/ \E tx \in pool : UpdateV1(tx) \/ Drop(tx)

Spec == Init /\ [][Next]_vars

-----------------------------------------------------------------------------
\* Who renounces leaves metadata that nobody may sign for and that is immutable,
\* and nothing changes it any more, whichever transactions are still on their way.
\* Metadata that was created mutable stays so until then, also when its authority
\* is handed to SystemProgram without renouncing.
RenouncedIsFinal ==
    metadata # None =>
    /\ renounced # None => /\ metadata = renounced
                           /\ renounced.update_authority = SystemProgram
                           /\ ~renounced.is_mutable
    /\ ~metadata.is_mutable /\ creation.mutable => renounced # None

\* An update that no other one overtook changes what it was given, a fee of zero
\* included, and nothing else.
UpdatesWhatIsGiven ==
    [][\A tx \in pool \ pool' :
          metadata' # metadata /\ tx.given # None /\ tx.version = version =>
             /\ metadata'.data.fee =
                   IF tx.given.fee = None THEN metadata.data.fee ELSE tx.given.fee
             /\ metadata'.data.name =
                   IF tx.given.name \in {None, ""} THEN metadata.data.name ELSE tx.given.name]_vars

\* src/tasks/solana/createOFT.ts:136: what the create task is given are "Seller
\* fee basis points", as in update-metadata.
FeeInBasisPoints == metadata # None /\ version = 0 => metadata.data.fee = creation.fee
=============================================================================
