-------------------------------- MODULE SendOFT --------------------------------
(***************************************************************************)
(* The lz:oft:send task: it reads a decimal amount, and sends it from an    *)
(* EVM chain (sendEvm) or from Solana (sendSolana): quote the native fee,   *)
(* submit a transaction that offers it, wait.  In between the fee and the   *)
(* balance change; the transaction may be refused, land late, or land while *)
(* nobody waits any more.  What the OFT program makes of a transfer is in   *)
(* SendTask; here there are no fees in tokens.                              *)
(*                                                                          *)
(* External: ethers, umi, and OFTUpgradeable, which slips on dust.          *)
(***************************************************************************)
EXTENDS Integers, Sequences

CONSTANTS
    None,
    Sources,        \* chain types one sends from
    Texts,          \* decimal numbers the user types: --amount
    MinTexts,       \* --min-amount, None if not given
    OptionTexts,    \* --extra-options, None if not given
    Base,           \* 10
    Decimals, SharedDecimals,
    InitialBalance,
    NativeFees,     \* what the endpoint may charge
    MaxRuns         \* bound: runs of the task

Number == [whole : Nat, fraction : Seq(0 .. Base - 1)]

ASSUME SendAssumption ==
    /\ Sources \subseteq {"EVM", "SOLANA", "APTOS"}
    /\ Texts \subseteq Number
    /\ MinTexts \subseteq {None} \cup Number
    /\ Base \in Nat \ {0, 1}
    /\ SharedDecimals \in Nat /\ Decimals \in Nat /\ SharedDecimals <= Decimals
    /\ InitialBalance \in Nat /\ NativeFees \subseteq Nat /\ MaxRuns \in Nat

VARIABLES
    balance,    \* of the user, in local units
    fee,        \* what the endpoint charges now
    task,       \* the run in progress, or the last one
    runs,
    pool,       \* transactions submitted and not settled
    landed      \* history: transfers that took place

vars == <<balance, fee, task, runs, pool, landed>>

-----------------------------------------------------------------------------
(* Decimal numbers.                                                        *)

Pow[n \in Nat] == IF n = 0 THEN 1 ELSE Base * Pow[n - 1]

PadEnd(fraction, i) == IF i \in DOMAIN fraction THEN fraction[i] ELSE 0

\* Digits beyond the decimals are cut off.
FracUnits(fraction, decimals) ==
    LET number[n \in Nat] ==
            IF n = 0 THEN 0 ELSE Base * number[n - 1] + PadEnd(fraction, n)
    IN  number[decimals]

ParseDecimalToUnits(text, decimals) ==
    text.whole * Pow[decimals] + FracUnits(text.fraction, decimals)

\* ethers' parseUnits throws unless they are zeros.
FitsDecimals(text, decimals) ==
    \A i \in DOMAIN text.fraction : i > decimals => text.fraction[i] = 0

Units(source, text) == ParseDecimalToUnits(text, Decimals)

Parses(source, text) == source = "EVM" => FitsDecimals(text, Decimals)

\* What the number stands for, in units of as many decimals as it has.
IsExactly(text, units) ==
    LET digits == Decimals + Len(text.fraction)
    IN  units * Pow[Len(text.fraction)] = ParseDecimalToUnits(text, digits)

WithoutDust(amount) ==
    (amount \div Pow[Decimals - SharedDecimals]) * Pow[Decimals - SharedDecimals]

\* The bytes of --extra-options: sendEvm passes a hex string, which ethers
\* decodes; sendSolana makes bytes of its characters.
OptionsType(source, text) ==
    IF text = None THEN "none" ELSE IF source = "EVM" THEN "type3" ELSE "text"

-----------------------------------------------------------------------------
Idle == [step |-> "idle", error |-> "none", source |-> None]

Init ==
    /\ balance = InitialBalance
    /\ fee \in NativeFees
    /\ task = Idle /\ runs = 0 /\ pool = {} /\ landed = {}

\* The quote and the send refuse dust below the minimum, and options that
\* cannot be combined with the enforced ones.
Accepts(request) ==
    /\ WithoutDust(request.amount) >= request.min_amount
    /\ OptionsType(request.source, request.options) # "text"

Fail(error) == task' = [task EXCEPT !.step = "failed", !.error = error]

\* Variant: without --min-amount any amount will do.
MinUnitsNone(source, text, min) == IF min = None THEN 0 ELSE Units(source, min)

MinUnits(source, text, min) == Units(source, IF min = None THEN text ELSE min)

\* sendOFT routes by the chain type of srcEid.
Routes(source) == source \in {"EVM", "SOLANA"}

\* Only sendSolana looks at the balance.
BalanceSuffices(source, text) == source = "SOLANA" => Units(source, text) \in 1 .. balance

Start(source, text, min, options) ==
    /\ task.step \in {"idle", "failed", "sent"}
    /\ runs < MaxRuns
    /\ Routes(source)
    /\ Parses(source, text)
    /\ min # None => Parses(source, min)
    /\ BalanceSuffices(source, text)
    /\ runs' = runs + 1
    /\ task' = [step |-> "quote", error |-> "none", source |-> source, offer |-> None,
                text |-> text, run |-> runs', options |-> options,
                amount |-> Units(source, text), by_default |-> min = None,
                min_amount |-> MinUnits(source, text, min)]
    /\ UNCHANGED <<balance, fee, pool, landed>>

\* Only sendEvm reports which of its steps threw.
QuotingError(source) == IF source = "EVM" THEN "quoting" ELSE "thrown"

Quote ==
    /\ task.step = "quote"
    /\ \/ /\ Accepts(task)
          /\ task' = [task EXCEPT !.step = "submit", !.offer = fee]
       \/ Fail(QuotingError(task.source))
    /\ UNCHANGED <<balance, fee, runs, pool, landed>>

\* What the chain asks of the transaction.
Executes(tx) ==
    /\ Accepts(tx)
    /\ WithoutDust(tx.amount) <= balance
    /\ tx.offer >= fee

\* Variant: both tasks share the error.
SubmissionErrorQuoting(source) == "quoting"

\* sendSolana reports it as an error while quoting.
SubmissionError(source) == IF source = "EVM" THEN "sending" ELSE "quoting"

\* The transaction is submitted, after a simulation that may fail; an answer
\* that gets lost looks like an error.
Submit ==
    /\ task.step = "submit"
    /\ \/ /\ Executes(task)
          /\ pool' = pool \cup {task}
          /\ task' = [task EXCEPT !.step = "wait"] \/ Fail(SubmissionError(task.source))
       \/ Fail(SubmissionError(task.source)) /\ UNCHANGED pool
    /\ UNCHANGED <<balance, fee, runs, landed>>

Waits(tx) == task.step = "wait" /\ task.run = tx.run

Sent == task' = [task EXCEPT !.step = "sent"]

Debited(tx) == WithoutDust(tx.amount)

Land(tx) ==
    /\ Executes(tx)
    /\ pool' = pool \ {tx}
    /\ balance' = balance - Debited(tx)
    /\ landed' = landed \cup {[run |-> tx.run, text |-> tx.text, debited |-> Debited(tx),
                               source |-> tx.source, by_default |-> tx.by_default,
                               received |-> WithoutDust(tx.amount),
                               paid |-> fee, offer |-> tx.offer]}
    /\ IF Waits(tx) THEN Sent ELSE UNCHANGED task
    /\ UNCHANGED <<fee, runs>>

\* Variant: sendEvm does not look at the receipt.
OnRevertUnnoticed(tx) == IF Waits(tx) THEN Sent ELSE UNCHANGED task

\* tx.wait throws for a transaction that was reverted; sendAndConfirm returns a
\* result, of which sendSolana takes the signature.
OnRevert(tx) ==
    IF ~Waits(tx) THEN UNCHANGED task
    ELSE IF tx.source = "EVM" THEN Fail("waiting") ELSE Sent

Revert(tx) ==
    /\ ~Executes(tx)
    /\ pool' = pool \ {tx}
    /\ OnRevert(tx)
    /\ UNCHANGED <<balance, fee, runs, landed>>

\* The connection breaks while the task waits.
LoseTrack ==
    /\ task.step = "wait"
    /\ Fail(IF task.source = "EVM" THEN "waiting" ELSE SubmissionError(task.source))
    /\ UNCHANGED <<balance, fee, runs, pool, landed>>

ChangeFee(f) == fee' = f /\ UNCHANGED <<balance, task, runs, pool, landed>>

\* The user spends tokens elsewhere.
Spend ==
    /\ balance > 0
    /\ balance' = balance - 1
    /\ UNCHANGED <<fee, task, runs, pool, landed>>

Next ==
    \/ \E source \in Sources, text \in Texts, min \in MinTexts, o \in OptionTexts :
          Start(source, text, min, o)
    \/ Quote \/ Submit \/ LoseTrack
    \/ \E tx \in pool : Land(tx) \/ Revert(tx)
    \/ \E f \in NativeFees : ChangeFee(f)
    \/ Spend

Spec == Init /\ [][Next]_vars

-----------------------------------------------------------------------------
\* Without --min-amount a transfer is all or nothing, to the last digit: from
\* an EVM chain exactly the number that was typed leaves and arrives, from
\* Solana the number cut to the token's decimals.
SentAsTyped ==
    \A t \in landed : t.by_default =>
        /\ t.debited = t.received
        /\ t.received = Units(t.source, t.text)
        /\ t.source = "EVM" => IsExactly(t.text, t.received)

\* With --min-amount no transfer takes or delivers more than the user typed.
NeverMoreThanTyped ==
    \A t \in landed :
        /\ t.received <= t.debited
        /\ t.debited * Pow[Len(t.text.fraction)] <=
              ParseDecimalToUnits(t.text, Decimals + Len(t.text.fraction))

\* Two ways to read a decimal number, the dust and the minimum leave the user
\* with what was typed: all of it by default, and in no case more.
AmountsAsTyped == SentAsTyped /\ NeverMoreThanTyped

\* When the task reports success for an EVM chain the transfer took place, in
\* spite of fees and balances that changed after the quote and of late blocks.
SuccessMeansSent ==
    task.step = "sent" /\ task.source = "EVM" =>
        \E t \in landed : t.run = task.run

\* An error while quoting is one after which the task can be run again without
\* sending twice.  sendEvm keeps the two errors apart (sendEvm.ts:107, 120).
QuotingErrorMeansUnsent ==
    task.step = "failed" /\ task.error = "quoting" /\ task.source = "EVM" =>
        \A t \in landed \cup pool : t.run # task.run

\* The same of both chains: sendSolana.ts:160 calls a failed submission
\* ERROR_QUOTING_NATIVE_GAS_COST, sendEvm.ts:120 ERROR_SENDING_TRANSACTION.
QuotingErrorIsOne ==
    task.step = "failed" /\ task.error = "quoting" =>
        \A t \in landed \cup pool : t.run # task.run

\* The same of both chains: sendOFT.ts:79 prints "Successfully sent".
SuccessIsSent == task.step = "sent" => \E t \in landed : t.run = task.run

\* src/tasks/common/sendOFT.ts:44: extra options add gas; they are in the form
\* the toolbox produces, and no reason to refuse a transfer.
ExtraOptionsAccepted ==
    task.step = "quote" => OptionsType(task.source, task.options) # "text"
=============================================================================
