----------------------------- MODULE ComputeBudget -----------------------------
(***************************************************************************)
(* The compute budget of the transactions that the Solana tasks send: a     *)
(* price taken from recent prioritization fees, and a limit taken from a     *)
(* simulation, which is tried three times before the user is asked whether   *)
(* an estimate will do.  The retry-payload task makes a budget of its own.   *)
(*                                                                           *)
(* External: the RPC node, whose calls may fail or say anything, and the     *)
(* user.                                                                     *)
(***************************************************************************)
EXTENDS Integers, Sequences, FiniteSets

CONSTANTS
    None,
    RecentFees,     \* sequences of fees the node may return
    UsedUnits,      \* compute units a simulation may find
    Estimates,      \* TransactionCuEstimates: units by transaction type
    ScaleFactors,   \* --compute-unit-price-scale-factor
    Eids, TableEids,    \* TableEids: those with a LOOKUP_TABLE_ADDRESS
    RetryUnits, RetryPrices \* --compute-units and --with-priority-fee

NumOfAttempts == 3

BudgetAssumption ==
    /\ RecentFees \subseteq Seq(Nat)
    /\ UsedUnits \cup RetryUnits \cup RetryPrices \subseteq Nat
    /\ \A type \in DOMAIN Estimates : Estimates[type] \in Nat \ {0}
    /\ ScaleFactors \subseteq [num : Nat, den : Nat \ {0}]
    /\ TableEids \subseteq Eids

VARIABLES
    step,
    request,    \* what the budget is for
    recent,     \* the fees the node returned, None if the call failed
    attempts,   \* simulations that failed
    units,      \* compute units found or estimated
    source,     \* where they come from
    consent,    \* what the user answered, None if nobody asked
    budget      \* [price, limit] of the transaction, None before it is built

vars == <<step, request, recent, attempts, units, source, consent, budget>>

-----------------------------------------------------------------------------
(* getPrioritizationFees                                                   *)

SumOf(fees) ==
    LET sum[n \in 0 .. Len(fees)] == IF n = 0 THEN 0 ELSE sum[n - 1] + fees[n]
    IN  sum[Len(fees)]

AverageOf(fees) == IF fees = <<>> THEN 0 ELSE SumOf(fees) \div Len(fees)

NonZero(fees) ==
    LET kept[n \in 0 .. Len(fees)] ==
            IF n = 0 THEN <<>>
            ELSE IF fees[n] = 0 THEN kept[n - 1] ELSE Append(kept[n - 1], fees[n])
    IN  kept[Len(fees)]

AtMost(fees, m)  == {i \in DOMAIN fees : fees[i] <= m}
AtLeast(fees, m) == {i \in DOMAIN fees : fees[i] >= m}

\* What is at place k once the fees are sorted.
SortedAt(fees, k) ==
    CHOOSE m \in {fees[i] : i \in DOMAIN fees} :
        /\ Cardinality(AtMost(fees, m)) >= k
        /\ Cardinality(AtLeast(fees, m)) > Len(fees) - k

MedianOf(fees) ==
    LET mid == Len(fees) \div 2
    IN  IF fees = <<>> THEN 0
        ELSE IF Len(fees) % 2 = 1 THEN SortedAt(fees, mid + 1)
        ELSE (SortedAt(fees, mid) + SortedAt(fees, mid + 1)) \div 2

\* Variant: the fees of idle slots pull the average down.
AverageWithZeros(fees) == AverageOf(fees)

AverageExcludingZeros(fees) == AverageOf(NonZero(fees))

\* A failed call and an empty answer look alike.
GetFee(fees) ==
    IF fees = None
    THEN [including |-> 0, excluding |-> 0, median |-> 0]
    ELSE [including |-> AverageOf(fees), excluding |-> AverageExcludingZeros(fees),
          median |-> MedianOf(NonZero(fees))]

-----------------------------------------------------------------------------
Init ==
    /\ step = "start" /\ request = None /\ recent = None
    /\ attempts = 0 /\ units = 0 /\ source = None /\ consent = None
    /\ budget = None

\* addComputeUnitInstructions begins with the lookup table of the chain.
GetAddressLookupTable(eid, type, scale) ==
    /\ step = "start"
    /\ request' = [type |-> type, scale |-> scale]
    /\ \/ eid \in TableEids /\ step' = "fees"
       \/ step' = "failed"
    /\ UNCHANGED <<recent, attempts, units, source, consent, budget>>

GetRecentPrioritizationFees(fees) ==
    /\ step = "fees"
    /\ recent' = fees
    /\ step' = "simulate"
    /\ UNCHANGED <<request, attempts, units, source, consent, budget>>

\* Nothing is built from a simulation that used no units.
Simulated(used) ==
    /\ step = "simulate"
    /\ units' = used
    /\ source' = "simulation"
    /\ step' = IF used = 0 THEN "failed" ELSE "build"
    /\ UNCHANGED <<request, recent, attempts, consent, budget>>

AfterFailure(failures) == IF failures < NumOfAttempts THEN "simulate" ELSE "prompt"

SimulationFailed ==
    /\ step = "simulate"
    /\ attempts' = attempts + 1
    /\ step' = AfterFailure(attempts + 1)
    /\ UNCHANGED <<request, recent, units, source, consent, budget>>

PromptToContinue(answer) ==
    /\ step = "prompt"
    /\ consent' = answer
    /\ step' = IF answer THEN "estimate" ELSE "failed"
    /\ UNCHANGED <<request, recent, attempts, units, source, budget>>

UseEstimate ==
    /\ step = "estimate"
    /\ units' = Estimates[request.type]
    /\ source' = "estimate"
    /\ step' = "build"
    /\ UNCHANGED <<request, recent, attempts, consent, budget>>

\* BigInt(Math.floor(computeUnitPriceScaleFactor))
Price(scale) == GetFee(recent).excluding * (scale.num \div scale.den)

\* computeUnitLimitScaleFactor, and the u32 of the instruction
Limit(used) == (used * 11) \div 10

AddComputeUnitInstructions ==
    /\ step = "build"
    /\ budget' = [price |-> Price(request.scale), limit |-> Limit(units)]
    /\ step' = "built"
    /\ UNCHANGED <<request, recent, attempts, units, source, consent>>

\* retry-payload: the units go into two bytes of parameters of the instruction.
RetryPayload(wanted, price) ==
    /\ step = "start"
    /\ request' = [type |-> "RetryPayload", wanted |-> wanted, bytes |-> wanted % 256]
    /\ budget' = [price |-> price, limit |-> None]
    /\ step' = "built"
    /\ UNCHANGED <<recent, attempts, units, source, consent>>

Next ==
    \/ \E eid \in Eids, type \in DOMAIN Estimates, scale \in ScaleFactors :
          GetAddressLookupTable(eid, type, scale)
    \/ \E fees \in {None} \cup RecentFees : GetRecentPrioritizationFees(fees)
    \/ \E used \in UsedUnits : Simulated(used)
    \/ SimulationFailed \/ UseEstimate \/ AddComputeUnitInstructions
    \/ \E answer \in BOOLEAN : PromptToContinue(answer)
    \/ \E wanted \in RetryUnits, price \in RetryPrices : RetryPayload(wanted, price)

Spec == Init /\ [][Next]_vars

-----------------------------------------------------------------------------
Built == step = "built" /\ request.type # "RetryPayload"

\* An estimate replaces a simulation only after three of them failed and the
\* user agreed; and whoever was not asked gets what a simulation found.
EstimateNeedsConsent ==
    Built => \/ source = "simulation" /\ attempts < NumOfAttempts
             \/ source = "estimate" /\ consent = TRUE /\ attempts = NumOfAttempts

\* The limit never cuts off what the simulation used, and with ten units or
\* more leaves a reserve; it is never zero.
LimitCoversUse ==
    Built => /\ budget.limit >= units /\ budget.limit > 0
             /\ units >= 10 => budget.limit > units

IsMedian(m, fees) ==
    /\ 2 * Cardinality(AtMost(fees, m)) >= Len(fees)
    /\ 2 * Cardinality(AtLeast(fees, m)) >= Len(fees)

\* The median that is reported halves the fees that were paid, whatever order
\* and number the node returned them in.
FeesAreMedian ==
    recent # None /\ NonZero(recent) # <<>> =>
        IsMedian(GetFee(recent).median, NonZero(recent))

\* Whoever scales by one or more outbids the average slot, and pays something
\* whenever somebody did.
PriceOutbidsAverage ==
    Built /\ recent # None /\ request.scale.num >= request.scale.den =>
        /\ budget.price >= AverageOf(recent)
        /\ (\E i \in DOMAIN recent : recent[i] # 0) => budget.price > 0

\* A budget that is built suffices: for what is run, and against who else pays;
\* and every number in it has the origin the user was told.
BudgetSuffices ==
    EstimateNeedsConsent /\ LimitCoversUse /\ PriceOutbidsAverage /\ FeesAreMedian

\* createOFT.ts:160 declares "The compute unit price scale factor" as a float:
\* the price is the fee times the factor.
PriceIsScaled ==
    Built => budget.price = (GetFee(recent).excluding * request.scale.num)
                                \div request.scale.den

\* retryPayload.ts:35, "The CU for the lzReceive instruction": the transaction
\* may use as many units as it was given.
RetryGetsItsUnits ==
    step = "built" /\ request.type = "RetryPayload" => budget.limit = request.wanted
=============================================================================
