------------------------------- MODULE ConfigGet -------------------------------
(***************************************************************************)
(* The lz:oapp:config:get task.  For every connection of the graph one      *)
(* asynchronous function reads the libraries of an OApp and what is set for  *)
(* them, one awaited call after the other, and merges an entry into an       *)
(* object that all of them share: first the functions of the EVM chains,     *)
(* then those of Solana, in parallel or in series.  Owners and LayerZero may *)
(* change libraries and settings between two calls; a call may throw, and    *)
(* the task with it.                                                         *)
(*                                                                           *)
(* The calls for the custom and the default configuration of an EVM chain    *)
(* are left out: they come first, and their answers are only printed.        *)
(* External: getReceiveConfig and getSendConfig, which read for EVM chains.  *)
(***************************************************************************)
EXTENDS Integers, Sequences
LOCAL INSTANCE SequencesExt

CONSTANTS
    None,
    Graph,          \* the connections of the graph, a sequence of <<from, to>>
    SolanaEids,
    Libraries, UlnProgram,
    Settings,       \* what a ULN or an executor may be set to
    MaxChanges      \* bound: changes on the chains while the task runs

Connections == ToSet(Graph)

ConfigAssumption ==
    /\ \A i, j \in 1 .. Len(Graph) : i # j => Graph[i] # Graph[j]
    /\ \A connection \in Connections : connection = <<connection[1], connection[2]>>
    /\ UlnProgram \in Libraries /\ None \notin Libraries
    /\ MaxChanges \in Nat

VARIABLES
    custom,     \* library an OApp has set, by connection and direction
    default,    \* library of the endpoint, likewise
    settings,   \* by connection and library, what each of Kinds is set to
    changes,
    parallel,   \* whether the applicative runs functions in parallel
    reads,      \* by connection: what its function has read so far
    merged,     \* connections whose function has returned
    configs,    \* what the functions build together
    status,
    was,        \* history: the libraries in force since the task started
    held        \* history: the settings since then

chainVars == <<custom, default, settings, changes>>
history == <<was, held>>
vars == <<chainVars, parallel, reads, merged, configs, status, history>>

IsSolana(connection) == connection[1] \in SolanaEids

Directions == {"receive", "send"}

\* On Solana the library defaults to the ULN program, in the task itself.
Active(connection, direction) ==
    IF custom[connection][direction] # None THEN custom[connection][direction]
    ELSE IF IsSolana(connection) THEN UlnProgram
    ELSE default[connection][direction]

Kinds == {"receiveUlnConfig", "sendUlnConfig", "sendExecutorConfig"}

\* The calls of a function, in their order.
Calls == <<"receiveLibrary", "receiveUlnConfig",
           "sendLibrary", "sendUlnConfig", "sendExecutorConfig">>

\* On Solana a ULN configuration is the ULN program's, whatever the library.
UlnLibrary(connection, library) == IF IsSolana(connection) THEN UlnProgram ELSE library

\* The answer to the next call, after those in values.
Answer(connection, values) ==
    LET call == Calls[Len(values) + 1]
        set(library) == settings[connection][library][call]
    IN  CASE call = "receiveLibrary"     -> Active(connection, "receive")
          [] call = "receiveUlnConfig"   -> set(UlnLibrary(connection, values[1]))
          [] call = "sendLibrary"        -> Active(connection, "send")
          [] call = "sendUlnConfig"      -> set(UlnLibrary(connection, values[3]))
          [] call = "sendExecutorConfig" -> set(values[3])

InForce == [c \in Connections |-> [d \in Directions |-> Active(c, d)]]

Init ==
    /\ custom \in [Connections -> {[d \in Directions |-> None]}]
    /\ \E library \in Libraries :
          default = [c \in Connections |-> [d \in Directions |-> library]]
    /\ \E value \in Settings :
          settings = [c \in Connections |-> [l \in Libraries |-> [k \in Kinds |-> value]]]
    /\ changes = 0
    /\ parallel \in BOOLEAN
    /\ reads = [c \in Connections |-> <<>>]
    /\ merged = {} /\ configs = <<>> /\ status = "runs"
    /\ was = [c \in Connections |-> [d \in Directions |-> {InForce[c][d]}]]
    /\ held = [c \in Connections |->
                 [l \in Libraries |-> [k \in Kinds |-> {settings[c][l][k]}]]]

-----------------------------------------------------------------------------
Before(a, b) ==
    \E i, j \in 1 .. Len(Graph) : i < j /\ Graph[i] = a /\ Graph[j] = b

\* await applicative(tasks), then await applicative(solTasks); what functions do
\* after another one threw reaches nobody.
MayRun(connection) ==
    /\ status = "runs"
    /\ connection \notin merged
    /\ \A other \in Connections \ merged :
          /\ IsSolana(connection) => IsSolana(other)
          /\ ~parallel /\ IsSolana(other) = IsSolana(connection) =>
                ~Before(other, connection)

Read(connection) ==
    /\ MayRun(connection)
    /\ Len(reads[connection]) < Len(Calls)
    /\ \/ /\ reads' = [reads EXCEPT ![connection] = Append(@, Answer(connection, @))]
          /\ UNCHANGED status
       \/ status' = "threw" /\ UNCHANGED reads
    /\ UNCHANGED <<chainVars, parallel, merged, configs, history>>

\* {...object, [key]: value}
Spread(object, key, value) ==
    [k \in {key} \cup DOMAIN object |-> IF k = key THEN value ELSE object[k]]

\* Variant: another connection of the same chain is replaced.
MergeReplacing(from, to, entry) == Spread(configs, from, [t \in {to} |-> entry])

\* configs[from] = {...configs[from], [to]: entry}
MergeInto(from, to, entry) ==
    LET old == IF from \in DOMAIN configs THEN configs[from] ELSE <<>>
    IN  Spread(configs, from, Spread(old, to, entry))

Entry(values) ==
    [defaultReceiveLibrary |-> values[1], receiveUlnConfig   |-> values[2],
     defaultSendLibrary    |-> values[3], sendUlnConfig      |-> values[4],
     sendExecutorConfig    |-> values[5]]

\* Runs to its end once the last call has returned.
Merge(connection) ==
    /\ MayRun(connection)
    /\ Len(reads[connection]) = Len(Calls)
    /\ configs' = MergeInto(connection[1], connection[2], Entry(reads[connection]))
    /\ merged' = merged \cup {connection}
    /\ UNCHANGED <<chainVars, parallel, reads, status, history>>

Return ==
    /\ status = "runs"
    /\ merged = Connections
    /\ status' = "returned"
    /\ UNCHANGED <<chainVars, parallel, reads, merged, configs, history>>

Record ==
    /\ was' = [c \in Connections |-> [d \in Directions |-> was[c][d] \cup {InForce'[c][d]}]]
    /\ held' = [c \in Connections |-> [l \in Libraries |->
                  [k \in Kinds |-> held[c][l][k] \cup {settings'[c][l][k]}]]]

TaskRests == UNCHANGED <<parallel, reads, merged, configs, status>>

SetLibrary(connection, direction, library) ==
    /\ changes < MaxChanges
    /\ changes' = changes + 1
    /\ \/ custom' = [custom EXCEPT ![connection][direction] = library] /\ UNCHANGED default
       \/ /\ library # None
          /\ default' = [default EXCEPT ![connection][direction] = library]
          /\ UNCHANGED custom
    /\ UNCHANGED settings /\ Record /\ TaskRests

Set(connection, library, kind, value) ==
    /\ changes < MaxChanges
    /\ changes' = changes + 1
    /\ settings' = [settings EXCEPT ![connection][library][kind] = value]
    /\ UNCHANGED <<custom, default>> /\ Record /\ TaskRests

Next ==
    \/ \E c \in Connections : Read(c) \/ Merge(c)
    \/ Return
    \/ \E c \in Connections, d \in Directions, library \in Libraries \cup {None} :
          SetLibrary(c, d, library)
    \/ \E c \in Connections, library \in Libraries, kind \in Kinds, value \in Settings :
          Set(c, library, kind, value)

Spec == Init /\ [][Next]_vars

-----------------------------------------------------------------------------
Has(connection) ==
    /\ connection[1] \in DOMAIN configs
    /\ connection[2] \in DOMAIN configs[connection[1]]

\* Functions that run at the same time and share an object lose no entry of each
\* other, and each part of what the task returns for a connection was in force
\* there at some moment of its run, in its own direction, and not that of another
\* connection: a library was active, and what is said to be set for it was.  On
\* Solana the ULN configurations are those of the ULN program.  Parts that are
\* read in different calls need not have been in force at the same moment.
EntriesWereInForce ==
    /\ merged \subseteq {c \in Connections : Has(c)}
    /\ \A c \in Connections : Has(c) =>
          LET entry   == configs[c[1]][c[2]]
              receive == entry.defaultReceiveLibrary
              send    == entry.defaultSendLibrary
          IN  /\ receive \in was[c]["receive"] /\ send \in was[c]["send"]
              /\ entry.receiveUlnConfig
                    \in held[c][UlnLibrary(c, receive)]["receiveUlnConfig"]
              /\ entry.sendUlnConfig \in held[c][UlnLibrary(c, send)]["sendUlnConfig"]
              /\ entry.sendExecutorConfig \in held[c][send]["sendExecutorConfig"]
=============================================================================
