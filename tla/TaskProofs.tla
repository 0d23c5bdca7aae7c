------------------------------ MODULE TaskProofs ------------------------------
(***************************************************************************)
(* What the operators' tools promise, for all inputs and bounds: the send    *)
(* task, the compute budget, config:get, and the tasks on the metadata.  The  *)
(* last section shows that the composition of module Tooling, which TLC       *)
(* checks, is each of its parts, and states their properties of it.           *)
(***************************************************************************)
EXTENDS Tooling, FiniteSetTheorems, WellFoundedInduction, TLAPS

-----------------------------------------------------------------------------
(* The send task.  The invariant ties a run's transaction to the run by its *)
(* number: none before the submission, at most the one in the pool while the *)
(* task waits, and the one that landed when the task reports success.        *)

IsTask(t) ==
    t = [step |-> t.step, error |-> t.error, source |-> t.source, offer |-> t.offer,
         text |-> t.text, run |-> t.run, options |-> t.options, amount |-> t.amount,
         by_default |-> t.by_default, min_amount |-> t.min_amount]

Shape ==
    /\ runs \in Nat
    /\ task = Idle \/ (IsTask(task) /\ task.step # "idle" /\ task.run \in Nat /\ task.run <= runs)
    /\ \A tx \in pool : IsTask(tx) /\ tx.run \in Nat /\ tx.run <= runs
    /\ \A t \in landed : t.run \in Nat /\ t.run <= runs

\* No transaction of the run in progress is known to any chain.
Unsent == \A t \in landed \cup pool : t.run # task.run

UnsentYet == task.step \in {"quote", "submit"} => Unsent

\* The transaction of the run in progress is the task's own.
OwnSource == task.step # "idle" => \A tx \in pool : tx.run = task.run => tx.source = task.source

SendInv ==
    /\ Shape
    /\ UnsentYet
    /\ OwnSource
    /\ QuotingErrorMeansUnsent
    /\ SuccessMeansSent

\* A step of the task keeps the run and its source.
LEMMA StepFields ==
    ASSUME NEW t, IsTask(t), NEW next, NEW u, u = [t EXCEPT !.step = next]
    PROVE  IsTask(u) /\ u.step = next /\ u.error = t.error /\ u.run = t.run /\ u.source = t.source
BY DEF IsTask

LEMMA FailFields ==
    ASSUME IsTask(task), NEW error, Fail(error)
    PROVE  /\ IsTask(task') /\ task'.step = "failed" /\ task'.error = error
           /\ task'.run = task.run /\ task'.source = task.source
BY DEF IsTask, Fail

LEMMA QuoteFields ==
    ASSUME IsTask(task), NEW offer, task' = [task EXCEPT !.step = "submit", !.offer = offer]
    PROVE  /\ IsTask(task') /\ task'.step = "submit"
           /\ task'.run = task.run /\ task'.source = task.source
BY DEF IsTask

\* Once a task has begun it is a whole record.
LEMMA BusyIsTask ==
    ASSUME Shape, task.step # "idle"
    PROVE  IsTask(task) /\ task.run \in Nat /\ task.run <= runs
BY DEF Shape, Idle

\* Initially nothing was run.
LEMMA InitIsSafe == Init => SendInv
BY DEF Init, SendInv, Shape, UnsentYet, OwnSource, QuotingErrorMeansUnsent,
       SuccessMeansSent, Idle

LEMMA StartKeeps ==
    ASSUME SendInv, NEW from, NEW text, NEW min, NEW options,
           Start(from, text, min, options)
    PROVE  SendInv'
<1>1. /\ IsTask(task') /\ task'.step = "quote" /\ task'.run = runs + 1
      /\ runs' = runs + 1 /\ UNCHANGED <<pool, landed>>
    BY DEF Start, IsTask
<1>2. Shape'
    BY <1>1 DEF SendInv, Shape
<1>3. Unsent'
    BY <1>1 DEF SendInv, Shape, Unsent
<1>4. OwnSource'
    BY <1>1, <1>3 DEF OwnSource, Unsent
<1> QED
    BY <1>1, <1>2, <1>3, <1>4
       DEF SendInv, UnsentYet, QuotingErrorMeansUnsent, SuccessMeansSent

LEMMA QuoteKeeps == ASSUME SendInv, Quote PROVE SendInv'
<1>1. IsTask(task) /\ task.run \in Nat /\ task.run <= runs
    BY BusyIsTask DEF SendInv, Quote
<1>2. UNCHANGED <<runs, pool, landed>> /\ task.step = "quote" /\ Unsent
    BY DEF SendInv, Quote, UnsentYet
<1>3. /\ IsTask(task') /\ task'.run = task.run /\ task'.source = task.source
      /\ task'.step \in {"submit", "failed"}
    <2>1. CASE task' = [task EXCEPT !.step = "submit", !.offer = fee]
        BY <1>1, <2>1, QuoteFields
    <2>2. CASE Fail(QuotingError(task.source))
        BY <1>1, <2>2, FailFields
    <2> QED
        BY <2>1, <2>2 DEF Quote
<1>4. Unsent' /\ Shape'
    BY <1>1, <1>2, <1>3 DEF SendInv, Shape, Unsent
<1> QED
    BY <1>2, <1>3, <1>4
       DEF SendInv, UnsentYet, OwnSource, Unsent, QuotingErrorMeansUnsent, SuccessMeansSent

LEMMA SubmitKeeps == ASSUME SendInv, Submit PROVE SendInv'
<1>1. IsTask(task) /\ task.run \in Nat /\ task.run <= runs /\ task.step = "submit"
    BY BusyIsTask DEF SendInv, Submit
<1>2. UNCHANGED <<runs, landed>> /\ Unsent /\ pool' \subseteq pool \cup {task}
    BY <1>1 DEF SendInv, Submit, UnsentYet
<1>3. /\ IsTask(task') /\ task'.run = task.run /\ task'.source = task.source
      /\ task'.step \in {"wait", "failed"}
      /\ task'.step = "failed" => task'.error = SubmissionError(task.source)
    <2>1. CASE task' = [task EXCEPT !.step = "wait"]
        BY <1>1, <2>1, StepFields
    <2>2. CASE Fail(SubmissionError(task.source))
        BY <1>1, <2>2, FailFields
    <2> QED
        BY <2>1, <2>2 DEF Submit
<1>4. Shape'
    BY <1>1, <1>2, <1>3 DEF SendInv, Shape
<1>5. OwnSource'
    BY <1>1, <1>2, <1>3 DEF OwnSource, Unsent
<1>6. QuotingErrorMeansUnsent'
    BY <1>3 DEF QuotingErrorMeansUnsent, SubmissionError
<1> QED
    BY <1>3, <1>4, <1>5, <1>6 DEF SendInv, UnsentYet, SuccessMeansSent

\* What is taken out of the pool is the run's own if it waits.
LEMMA LandKeeps == ASSUME SendInv, NEW tx \in pool, Land(tx) PROVE SendInv'
<1>1. PICK t : t.run = tx.run /\ landed' = landed \cup {t}
    BY DEF Land
<1>2. UNCHANGED runs /\ pool' \subseteq pool
    BY DEF Land
<1>3. tx.run \in Nat /\ tx.run <= runs
    BY DEF SendInv, Shape
<1>4. CASE Waits(tx)
    <2>1. IsTask(task) /\ task.run = tx.run
        BY <1>4, BusyIsTask DEF SendInv, Waits
    <2>2. IsTask(task') /\ task'.step = "sent" /\ task'.run = tx.run /\ task'.source = task.source
        BY <1>4, <2>1, StepFields DEF Land, Sent
    <2>3. Shape'
        BY <1>1, <1>2, <1>3, <2>2 DEF SendInv, Shape
    <2>4. OwnSource'
        BY <1>2, <1>4, <2>1, <2>2 DEF SendInv, OwnSource, Waits
    <2> QED
        BY <1>1, <2>2, <2>3, <2>4
           DEF SendInv, UnsentYet, QuotingErrorMeansUnsent, SuccessMeansSent
<1>5. CASE ~Waits(tx)
    <2>1. UNCHANGED task
        BY <1>5 DEF Land
    <2>2. Shape'
        BY <1>1, <1>2, <1>3, <2>1 DEF SendInv, Shape
    <2>3. UnsentYet'
        BY <1>1, <1>2, <2>1 DEF SendInv, UnsentYet, Unsent
    <2>4. OwnSource'
        BY <1>2, <2>1 DEF SendInv, OwnSource
    <2>5. QuotingErrorMeansUnsent'
        BY <1>1, <1>2, <2>1 DEF SendInv, QuotingErrorMeansUnsent
    <2>6. SuccessMeansSent'
        BY <1>1, <2>1 DEF SendInv, SuccessMeansSent
    <2> QED
        BY <2>2, <2>3, <2>4, <2>5, <2>6 DEF SendInv
<1> QED
    BY <1>4, <1>5

LEMMA RevertKeeps == ASSUME SendInv, NEW tx \in pool, Revert(tx) PROVE SendInv'
<1>1. UNCHANGED <<runs, landed>> /\ pool' \subseteq pool
    BY DEF Revert
<1>2. CASE Waits(tx)
    <2>1. IsTask(task) /\ task.run \in Nat /\ task.run <= runs /\ tx.source = task.source
        BY <1>2, BusyIsTask DEF SendInv, Waits, OwnSource
    <2>2. /\ IsTask(task') /\ task'.run = task.run /\ task'.source = task.source
          /\ \/ task'.step = "failed" /\ task'.error = "waiting"
             \/ task'.step = "sent" /\ task'.source # "EVM"
        <3>1. CASE tx.source = "EVM"
            BY <1>2, <2>1, <3>1, FailFields DEF Revert, OnRevert
        <3>2. CASE tx.source # "EVM"
            BY <1>2, <2>1, <3>2, StepFields DEF Revert, OnRevert, Sent
        <3> QED
            BY <3>1, <3>2
    <2>3. Shape'
        BY <1>1, <2>1, <2>2 DEF SendInv, Shape
    <2>4. OwnSource'
        BY <1>1, <1>2, <2>2 DEF SendInv, OwnSource, Waits
    <2> QED
        BY <2>2, <2>3, <2>4 DEF SendInv, UnsentYet, QuotingErrorMeansUnsent, SuccessMeansSent
<1>3. CASE ~Waits(tx)
    <2>1. UNCHANGED task
        BY <1>3 DEF Revert, OnRevert
    <2> QED
        BY <1>1, <2>1 DEF SendInv, Shape, UnsentYet, Unsent, OwnSource,
                          QuotingErrorMeansUnsent, SuccessMeansSent
<1> QED
    BY <1>2, <1>3

LEMMA LoseTrackKeeps == ASSUME SendInv, LoseTrack PROVE SendInv'
<1>1. IsTask(task) /\ task.run \in Nat /\ task.run <= runs /\ task.step = "wait"
    BY BusyIsTask DEF SendInv, LoseTrack
<1>2. UNCHANGED <<runs, pool, landed>>
    BY DEF LoseTrack
<1>3. /\ IsTask(task') /\ task'.run = task.run /\ task'.source = task.source
      /\ task'.step = "failed"
      /\ task.source = "EVM" => task'.error = "waiting"
    BY <1>1, FailFields DEF LoseTrack
<1>4. Shape'
    BY <1>1, <1>2, <1>3 DEF SendInv, Shape
<1>5. OwnSource'
    BY <1>1, <1>2, <1>3 DEF SendInv, OwnSource
<1> QED
    BY <1>3, <1>4, <1>5 DEF SendInv, UnsentYet, QuotingErrorMeansUnsent, SuccessMeansSent

LEMMA RestKeeps ==
    ASSUME SendInv, UNCHANGED <<task, runs, pool, landed>>
    PROVE  SendInv'
BY DEF SendInv, Shape, UnsentYet, Unsent, OwnSource, QuotingErrorMeansUnsent,
       SuccessMeansSent, Idle, IsTask

LEMMA StepIsSafe == SendInv /\ [Next]_vars => SendInv'
<1> SUFFICES ASSUME SendInv, [Next]_vars PROVE SendInv'
    OBVIOUS
<1>1. CASE \E from \in Sources, text \in Texts, min \in MinTexts, o \in OptionTexts :
              Start(from, text, min, o)
    BY <1>1, StartKeeps
<1>2. CASE Quote
    BY <1>2, QuoteKeeps
<1>3. CASE Submit
    BY <1>3, SubmitKeeps
<1>4. CASE LoseTrack
    BY <1>4, LoseTrackKeeps
<1>5. CASE \E tx \in pool : Land(tx) \/ Revert(tx)
    BY <1>5, LandKeeps, RevertKeeps
<1>6. CASE \E f \in NativeFees : ChangeFee(f)
    BY <1>6, RestKeeps DEF ChangeFee
<1>7. CASE Spend
    BY <1>7, RestKeeps DEF Spend
<1>8. CASE UNCHANGED vars
    BY <1>8, RestKeeps DEF vars
<1> QED
    BY <1>1, <1>2, <1>3, <1>4, <1>5, <1>6, <1>7, <1>8 DEF Next

\* Success reported for an EVM chain means that the transfer took place.
THEOREM SuccessIsTrue == Spec => []SuccessMeansSent
<1>1. SendInv => SuccessMeansSent
    BY DEF SendInv
<1> QED
    BY <1>1, InitIsSafe, StepIsSafe, PTL DEF Spec

\* After an error while quoting an EVM transfer nothing was sent, nor will be.
THEOREM QuotingErrorIsTrue == Spec => []QuotingErrorMeansUnsent
<1>1. SendInv => QuotingErrorMeansUnsent
    BY DEF SendInv
<1> QED
    BY <1>1, InitIsSafe, StepIsSafe, PTL DEF Spec

-----------------------------------------------------------------------------
(* Numbers written in base Base.  Induction over the naturals is a matter of  *)
(* sets here: a set that has 0 and the successor of each member has them all, *)
(* since what it lacks would have a least element.  That gives the equations  *)
(* of the two recursive functions, and with them what cutting digits does.    *)

\* Any set of naturals has a least element.
LEMMA LeastNat ==
  ASSUME NEW T \in SUBSET Nat, T # {}
  PROVE  \E n \in T : \A m \in T : n <= m
<1>. DEFINE R == OpToRel(<, Nat)
<1>1. \A x, y \in Nat : x < y => <<x, y>> \in R
  BY DEF OpToRel
<1>2. IsWellFoundedOn(R, Nat)
  BY NatLessThanWellFounded, Zenon
<1>. HIDE DEF R
<1>3. PICK n \in T : \A m \in T : ~ (<<m, n>> \in R)
  BY <1>2, WFMin
<1>4. ASSUME NEW m \in T PROVE n <= m
  <2>1. m \in Nat /\ n \in Nat
    OBVIOUS
  <2>2. ~(m < n)
    BY <1>1, <1>3, <2>1
  <2>. QED BY <2>1, <2>2
<1>. QED BY <1>4

\* Induction: a set of naturals that has 0, and n + 1 with n, has them all.
LEMMA AllNat ==
  ASSUME NEW P \in SUBSET Nat, 0 \in P, \A n \in P : n + 1 \in P
  PROVE  P = Nat
<1>. DEFINE B == Nat \ P
<1>1. ASSUME B # {} PROVE FALSE
  <2>1. PICK n \in B : \A m \in B : n <= m
    <3>1. B \in SUBSET Nat
      OBVIOUS
    <3>. HIDE DEF B
    <3>. QED BY <1>1, <3>1, LeastNat
  <2>2. n \in Nat /\ n # 0 /\ n \notin P
    OBVIOUS
  <2>3. n - 1 \in Nat /\ ~(n <= n - 1)
    BY <2>2
  <2>4. n - 1 \in P
    BY <2>1, <2>3
  <2>5. (n - 1) + 1 \in P
    BY <2>4
  <2>. QED BY <2>2, <2>5
<1>. QED BY <1>1

\* What a recursive function over the naturals is: a at 0, and the step G[n] of
\* its value at n - 1 at any other n;
Recursive(a, G, h) ==
    h = [n \in Nat |-> IF n = 0 THEN a ELSE G[n][h[n - 1]]]

\* and one that stops at k.
RecursiveTo(a, G, k, h) ==
    h = [n \in 0 .. k |-> IF n = 0 THEN a ELSE G[n][h[n - 1]]]

\* The recursion can be carried to any k,
LEMMA RecursionTo ==
  ASSUME NEW a, NEW G, NEW k \in Nat
  PROVE  \E h : RecursiveTo(a, G, k, h)
<1>. DEFINE P == {n \in Nat : \E h : RecursiveTo(a, G, n, h)}
<1>1. 0 \in P
  <2>. DEFINE h == [n \in 0 .. 0 |-> a]
  <2>1. RecursiveTo(a, G, 0, h)
    BY DEF RecursiveTo
  <2>. QED BY <2>1
<1>2. ASSUME NEW n \in P PROVE n + 1 \in P
  <2>1. PICK h : RecursiveTo(a, G, n, h)
    OBVIOUS
  <2>2. n \in Nat
    OBVIOUS
  <2>. DEFINE g == [m \in 0 .. n + 1 |-> IF m = 0 THEN a ELSE G[m][h[m - 1]]]
  <2>3. \A m \in 0 .. n : g[m] = h[m]
    BY <2>1, <2>2 DEF RecursiveTo
  <2>4. \A m \in 0 .. n + 1 : m # 0 => h[m - 1] = g[m - 1]
    <3>1. \A m \in 0 .. n + 1 : m # 0 => m - 1 \in 0 .. n
      BY <2>2
    <3>. HIDE DEF g
    <3>. QED BY <2>3, <3>1
  <2>5. g = [m \in 0 .. n + 1 |-> IF m = 0 THEN a ELSE G[m][g[m - 1]]]
    <3>. DEFINE f == g
    <3>1. \A m \in 0 .. n + 1 : m # 0 => h[m - 1] = f[m - 1]
      BY <2>4
    <3>. HIDE DEF f
    <3>2. [m \in 0 .. n + 1 |-> IF m = 0 THEN a ELSE G[m][h[m - 1]]]
            = [m \in 0 .. n + 1 |-> IF m = 0 THEN a ELSE G[m][f[m - 1]]]
      BY <3>1
    <3>. QED BY <3>2 DEF f
  <2>6. RecursiveTo(a, G, n + 1, g)
    BY <2>5 DEF RecursiveTo
  <2>. QED BY <2>2, <2>6
<1>3. P = Nat
  <2>. HIDE DEF P
  <2>1. P \in SUBSET Nat
    BY DEF P
  <2>. QED BY <1>1, <1>2, <2>1, AllNat
<1>. QED BY <1>3

\* in one way whatever follows,
LEMMA RecursionAgrees ==
  ASSUME NEW a, NEW G, NEW h, NEW g, NEW j \in Nat, NEW k \in Nat, j <= k,
         RecursiveTo(a, G, j, h), RecursiveTo(a, G, k, g)
  PROVE  \A n \in 0 .. j : h[n] = g[n]
<1>. DEFINE P == {n \in Nat : n <= j => h[n] = g[n]}
<1>1. 0 \in P
  BY DEF RecursiveTo
<1>2. ASSUME NEW n \in P PROVE n + 1 \in P
  BY DEF RecursiveTo
<1>3. P = Nat
  <2>. HIDE DEF P
  <2>1. P \in SUBSET Nat
    BY DEF P
  <2>. QED BY <1>1, <1>2, <2>1, AllNat
<1>. QED BY <1>3

\* so that there is such a function.
LEMMA Recursion ==
  ASSUME NEW a, NEW G
  PROVE  \E h : Recursive(a, G, h)
<1>. DEFINE H(k) == CHOOSE h : RecursiveTo(a, G, k, h)
            f == [n \in Nat |-> H(n)[n]]
<1>1. \A k \in Nat : RecursiveTo(a, G, k, H(k))
  BY RecursionTo
<1>. HIDE DEF H
<1>2. \A k \in Nat : \A n \in 0 .. k : H(n)[n] = H(k)[n]
  <2>. SUFFICES ASSUME NEW k \in Nat, NEW n \in 0 .. k PROVE H(n)[n] = H(k)[n]
    OBVIOUS
  <2>1. n \in Nat /\ n <= k /\ n \in 0 .. n
    OBVIOUS
  <2>. QED BY <1>1, <2>1, RecursionAgrees
<1>3. \A n \in Nat : f[n] = IF n = 0 THEN a ELSE G[n][f[n - 1]]
  <2>. SUFFICES ASSUME NEW n \in Nat
                PROVE  f[n] = IF n = 0 THEN a ELSE G[n][f[n - 1]]
    OBVIOUS
  <2>1. H(n)[n] = IF n = 0 THEN a ELSE G[n][H(n)[n - 1]]
    <3>1. n \in 0 .. n
      OBVIOUS
    <3>. QED BY <1>1, <3>1 DEF RecursiveTo
  <2>2. n # 0 => n - 1 \in Nat /\ n - 1 \in 0 .. n
    OBVIOUS
  <2>3. n # 0 => H(n)[n - 1] = f[n - 1]
    BY <1>2, <2>2
  <2>. QED BY <2>1, <2>3
<1>4. Recursive(a, G, f)
  <2>. DEFINE F == f
  <2>1. \A n \in Nat : F[n] = IF n = 0 THEN a ELSE G[n][F[n - 1]]
    BY <1>3
  <2>2. F = [n \in Nat |-> F[n]]
    OBVIOUS
  <2>. HIDE DEF F
  <2>3. F = [n \in Nat |-> IF n = 0 THEN a ELSE G[n][F[n - 1]]]
    BY <2>1, <2>2
  <2>. QED BY <2>3 DEF Recursive, F
<1>. QED BY <1>4

\* Its values are where its steps stay.
LEMMA RecursionIn ==
  ASSUME NEW S, NEW a \in S, NEW G \in [Nat \ {0} -> [S -> S]],
         NEW h, Recursive(a, G, h)
  PROVE  \A n \in Nat : h[n] \in S
<1>. DEFINE P == {n \in Nat : h[n] \in S}
<1>1. \A n \in Nat : h[n] = IF n = 0 THEN a ELSE G[n][h[n - 1]]
  BY DEF Recursive
<1>2. 0 \in P
  BY <1>1
<1>3. ASSUME NEW n \in P PROVE n + 1 \in P
  <2>1. n + 1 \in Nat \ {0} /\ (n + 1) - 1 = n /\ h[n] \in S
    OBVIOUS
  <2>2. h[n + 1] = G[n + 1][h[n]]
    BY <1>1, <2>1
  <2>. QED BY <2>1, <2>2
<1>4. P \in SUBSET Nat
  OBVIOUS
<1>. HIDE DEF P
<1>5. P = Nat
  BY <1>2, <1>3, <1>4, AllNat
<1>. QED BY <1>5 DEF P

LEMMA RecursionToIn ==
  ASSUME NEW S, NEW a \in S, NEW k \in Nat, NEW G \in [1 .. k -> [S -> S]],
         NEW h, RecursiveTo(a, G, k, h)
  PROVE  \A n \in 0 .. k : h[n] \in S
<1>. DEFINE P == {n \in Nat : n <= k => h[n] \in S}
<1>1. \A n \in 0 .. k : h[n] = IF n = 0 THEN a ELSE G[n][h[n - 1]]
  BY DEF RecursiveTo
<1>2. 0 \in P
  BY <1>1
<1>3. ASSUME NEW n \in P PROVE n + 1 \in P
  <2>. SUFFICES ASSUME n + 1 <= k PROVE h[n + 1] \in S
    OBVIOUS
  <2>1. n + 1 \in 1 .. k /\ n + 1 \in 0 .. k /\ n + 1 # 0 /\ (n + 1) - 1 = n /\ h[n] \in S
    OBVIOUS
  <2>2. h[n + 1] = G[n + 1][h[n]]
    BY <1>1, <2>1
  <2>. QED BY <2>1, <2>2
<1>4. P \in SUBSET Nat
  OBVIOUS
<1>. HIDE DEF P
<1>5. P = Nat
  BY <1>2, <1>3, <1>4, AllNat
<1>. QED BY <1>5 DEF P

\* The equations that define the powers of the base,
LEMMA PowIs ==
  /\ Pow[0] = 1
  /\ \A n \in Nat : Pow[n + 1] = Base * Pow[n]
<1>. DEFINE G == [n \in Nat \ {0} |-> [x \in Nat |-> Base * x]]
            P == CHOOSE P : P = [n \in Nat |-> IF n = 0 THEN 1 ELSE Base * P[n - 1]]
<1>1. PICK h : Recursive(1, G, h)
  BY Recursion
<1>2. \A n \in Nat : h[n] \in Nat
  <2>1. G \in [Nat \ {0} -> [Nat -> Nat]]
    BY SendAssumption
  <2>. HIDE DEF G
  <2>. QED BY <1>1, <2>1, RecursionIn
<1>3. h = [n \in Nat |-> IF n = 0 THEN 1 ELSE Base * h[n - 1]]
  <2>1. h = [n \in Nat |-> IF n = 0 THEN 1 ELSE G[n][h[n - 1]]]
    BY <1>1 DEF Recursive
  <2>2. \A n \in Nat : n # 0 => G[n][h[n - 1]] = Base * h[n - 1]
    <3>1. \A n \in Nat : n # 0 => n - 1 \in Nat /\ n \in Nat \ {0}
      OBVIOUS
    <3>. QED BY <1>2, <3>1
  <2>. HIDE DEF G
  <2>. QED BY <2>1, <2>2
<1>4. P = [n \in Nat |-> IF n = 0 THEN 1 ELSE Base * P[n - 1]]
  BY <1>3
<1>5. Pow = P
  BY DEF Pow
<1>. HIDE DEF P
<1>6. \A n \in Nat : P[n] = IF n = 0 THEN 1 ELSE Base * P[n - 1]
  BY <1>4
<1>. QED BY <1>5, <1>6

\* and the number that digits are read as.
LEMMA FracUnitsIs ==
  ASSUME NEW fraction, \A n \in Nat : PadEnd(fraction, n) \in Nat
  PROVE  /\ FracUnits(fraction, 0) = 0
         /\ \A n \in Nat : FracUnits(fraction, n + 1)
                = Base * FracUnits(fraction, n) + PadEnd(fraction, n + 1)
<1>. DEFINE d(n) == PadEnd(fraction, n)
            G == [n \in Nat \ {0} |-> [x \in Nat |-> Base * x + d(n)]]
            N == CHOOSE N : N = [n \in Nat |->
                    IF n = 0 THEN 0 ELSE Base * N[n - 1] + PadEnd(fraction, n)]
<1>. HIDE DEF d
<1>1. PICK h : Recursive(0, G, h)
  BY Recursion
<1>2. \A n \in Nat : h[n] \in Nat
  <2>1. G \in [Nat \ {0} -> [Nat -> Nat]]
    BY SendAssumption DEF d
  <2>. HIDE DEF G
  <2>. QED BY <1>1, <2>1, RecursionIn
<1>3. h = [n \in Nat |-> IF n = 0 THEN 0 ELSE Base * h[n - 1] + d(n)]
  <2>1. h = [n \in Nat |-> IF n = 0 THEN 0 ELSE G[n][h[n - 1]]]
    BY <1>1 DEF Recursive
  <2>2. \A n \in Nat : n # 0 => G[n][h[n - 1]] = Base * h[n - 1] + d(n)
    <3>1. \A n \in Nat : n # 0 => n - 1 \in Nat /\ n \in Nat \ {0}
      OBVIOUS
    <3>. QED BY <1>2, <3>1
  <2>. HIDE DEF G
  <2>. QED BY <2>1, <2>2
<1>4. N = [n \in Nat |-> IF n = 0 THEN 0 ELSE Base * N[n - 1] + PadEnd(fraction, n)]
  BY <1>3 DEF d
<1>5. \A n \in Nat : FracUnits(fraction, n) = N[n]
  BY DEF FracUnits
<1>. HIDE DEF N
<1>6. \A n \in Nat : N[n] = IF n = 0 THEN 0 ELSE Base * N[n - 1] + PadEnd(fraction, n)
  BY <1>4
<1>. QED BY <1>5, <1>6

\* Powers are positive.
LEMMA PowIsNat == \A n \in Nat : Pow[n] \in Nat \ {0}
<1>. DEFINE P == {n \in Nat : Pow[n] \in Nat \ {0}}
<1>1. 0 \in P
  BY PowIs
<1>2. ASSUME NEW n \in P PROVE n + 1 \in P
  <2>1. Pow[n + 1] = Base * Pow[n] /\ Pow[n] \in Nat \ {0} /\ Base \in Nat \ {0}
    BY PowIs, SendAssumption
  <2>2. \A b, p \in Nat \ {0} : b * p \in Nat \ {0}
    OBVIOUS
  <2>. QED BY <2>1, <2>2
<1>3. P \in SUBSET Nat
  OBVIOUS
<1>. HIDE DEF P
<1>4. P = Nat
  BY <1>1, <1>2, <1>3, AllNat
<1>. QED BY <1>4 DEF P

\* One decimal more takes in one digit more.
LEMMA ParseDecimal ==
  ASSUME NEW text \in Number
  PROVE  /\ \A n \in Nat : ParseDecimalToUnits(text, n) \in Nat
         /\ \A n \in Nat : PadEnd(text.fraction, n + 1) \in Nat
         /\ \A n \in Nat : ParseDecimalToUnits(text, n + 1)
                             = Base * ParseDecimalToUnits(text, n)
                                 + PadEnd(text.fraction, n + 1)
<1>1. text.whole \in Nat /\ Base \in Nat
  BY SendAssumption DEF Number
<1>2. \A n \in Nat : PadEnd(text.fraction, n) \in Nat
  <2>1. text.fraction \in Seq(0 .. Base - 1)
    BY DEF Number
  <2>. QED BY <1>1, <2>1 DEF PadEnd
<1>. DEFINE F(n) == FracUnits(text.fraction, n)
            P    == {n \in Nat : F(n) \in Nat}
<1>3. /\ F(0) = 0
      /\ \A n \in Nat : F(n + 1) = Base * F(n) + PadEnd(text.fraction, n + 1)
  BY <1>2, FracUnitsIs
<1>. HIDE DEF F
<1>4. P = Nat
  <2>1. 0 \in P
    BY <1>3
  <2>2. ASSUME NEW n \in P PROVE n + 1 \in P
    <3>1. n + 1 \in Nat /\ F(n) \in Nat
      OBVIOUS
    <3>2. F(n + 1) = Base * F(n) + PadEnd(text.fraction, n + 1)
      BY <1>3
    <3>3. PadEnd(text.fraction, n + 1) \in Nat
      BY <1>2, <3>1
    <3>. QED BY <1>1, <3>1, <3>2, <3>3
  <2>3. P \in SUBSET Nat
    OBVIOUS
  <2>. HIDE DEF P
  <2>. QED BY <2>1, <2>2, <2>3, AllNat
<1>5. \A n \in Nat : F(n) \in Nat
  BY <1>4
<1>6. \A n \in Nat : ParseDecimalToUnits(text, n) = text.whole * Pow[n] + F(n)
  BY DEF ParseDecimalToUnits, F
<1>7. ASSUME NEW n \in Nat
      PROVE  ParseDecimalToUnits(text, n + 1)
               = Base * ParseDecimalToUnits(text, n) + PadEnd(text.fraction, n + 1)
  <2>. DEFINE w == text.whole
              p == Pow[n]
              f == F(n)
              d == PadEnd(text.fraction, n + 1)
  <2>1. /\ w \in Nat /\ p \in Nat /\ f \in Nat /\ d \in Nat
        /\ n + 1 \in Nat
    BY <1>1, <1>2, <1>5, PowIsNat
  <2>2. ParseDecimalToUnits(text, n + 1) = w * (Base * p) + (Base * f + d)
    BY <1>3, <1>6, <2>1, PowIs
  <2>3. ParseDecimalToUnits(text, n) = w * p + f
    BY <1>6
  <2>. HIDE DEF w, p, f, d
  <2>4. w * (Base * p) + (Base * f + d) = Base * (w * p + f) + d
    BY <1>1, <2>1
  <2>. QED BY <2>2, <2>3, <2>4 DEF d
<1>8. \A n \in Nat : ParseDecimalToUnits(text, n) \in Nat
  <2>1. \A a, b, c \in Nat : a * b + c \in Nat
    OBVIOUS
  <2>. QED BY <1>1, <1>5, <1>6, <2>1, PowIsNat
<1>. QED BY <1>2, <1>7, <1>8

\* Cutting digits off never adds to a number, and takes nothing from one whose
\* digits beyond are zeros.
LEMMA CutDigits ==
  ASSUME NEW text \in Number, NEW decimals \in Nat, NEW k \in Nat
  PROVE  /\ ParseDecimalToUnits(text, decimals) * Pow[k]
              <= ParseDecimalToUnits(text, decimals + k)
         /\ FitsDecimals(text, decimals) =>
              ParseDecimalToUnits(text, decimals) * Pow[k]
                = ParseDecimalToUnits(text, decimals + k)
<1>. DEFINE U(n) == ParseDecimalToUnits(text, n)
            u    == U(decimals)
            P    == {n \in Nat :
                       /\ u * Pow[n] <= U(decimals + n)
                       /\ FitsDecimals(text, decimals) => u * Pow[n] = U(decimals + n)}
<1>1. /\ \A n \in Nat : U(n) \in Nat /\ PadEnd(text.fraction, n + 1) \in Nat
      /\ \A n \in Nat : U(n + 1) = Base * U(n) + PadEnd(text.fraction, n + 1)
  BY ParseDecimal
<1>2. FitsDecimals(text, decimals) =>
         \A n \in Nat : n > decimals => PadEnd(text.fraction, n) = 0
  BY DEF FitsDecimals, PadEnd
<1>. HIDE DEF U
<1>3. u \in Nat /\ Base \in Nat
  BY <1>1, SendAssumption
<1>. HIDE DEF u
<1>4. 0 \in P
  BY <1>3, PowIs DEF u
<1>5. ASSUME NEW n \in P PROVE n + 1 \in P
  <2>. DEFINE p == Pow[n]
              v == U(decimals + n)
              d == PadEnd(text.fraction, (decimals + n) + 1)
  <2>1. /\ n \in Nat /\ decimals + n \in Nat
        /\ decimals + (n + 1) = (decimals + n) + 1
        /\ (decimals + n) + 1 \in Nat /\ (decimals + n) + 1 > decimals
    OBVIOUS
  <2>2. /\ p \in Nat /\ v \in Nat /\ d \in Nat
        /\ Pow[n + 1] = Base * p
        /\ U(decimals + (n + 1)) = Base * v + d
    BY <1>1, <2>1, PowIs, PowIsNat
  <2>3. u * p <= v /\ (FitsDecimals(text, decimals) => u * p = v /\ d = 0)
    BY <1>2, <2>1
  <2>. HIDE DEF p, v, d
  <2>4. u * (Base * p) = Base * (u * p) /\ u * p \in Nat
    BY <1>3, <2>2
  <2>5. \A x, y, b \in Nat : x <= y => b * x <= b * y
    OBVIOUS
  <2>6. Base * (u * p) <= Base * v
    BY <1>3, <2>2, <2>3, <2>4, <2>5
  <2>7. Base * (u * p) \in Nat /\ Base * v \in Nat
    BY <1>3, <2>2, <2>4
  <2>8. /\ u * Pow[n + 1] <= U(decimals + (n + 1))
        /\ FitsDecimals(text, decimals) => u * Pow[n + 1] = U(decimals + (n + 1))
    BY <2>2, <2>3, <2>4, <2>6, <2>7
  <2>. QED BY <2>1, <2>8
<1>6. P \in SUBSET Nat
  OBVIOUS
<1>. HIDE DEF P
<1>7. P = Nat
  BY <1>4, <1>5, <1>6, AllNat
<1>. QED BY <1>7 DEF P, u, U

\* Removing the dust takes nothing that is shared, and never adds.
LEMMA DustFacts ==
  ASSUME NEW amount \in Nat
  PROVE  WithoutDust(amount) \in Nat /\ WithoutDust(amount) <= amount
<1>. DEFINE p == Pow[Decimals - SharedDecimals]
<1>1. Decimals - SharedDecimals \in Nat
  BY SendAssumption
<1>2. p \in Nat \ {0}
  BY <1>1, PowIsNat
<1>. HIDE DEF p
<1>3. /\ amount \div p \in Nat /\ amount % p \in Nat
      /\ amount = p * (amount \div p) + (amount % p)
  BY <1>2
<1>4. (amount \div p) * p = p * (amount \div p) /\ (amount \div p) * p \in Nat
  BY <1>2, <1>3
<1>. QED BY <1>3, <1>4 DEF WithoutDust, p

-----------------------------------------------------------------------------
(* What is sent is what was typed.  A run carries the number it was given,   *)
(* as units and as text, from its start to the transfer that lands.          *)

\* What a run, and the transaction it submits, was started with.
Typed(r) ==
    /\ r.text \in Texts
    /\ Parses(r.source, r.text)
    /\ r.amount = Units(r.source, r.text)
    /\ r.by_default => r.min_amount = r.amount

\* What landed was accepted.
SentWell(t) ==
    /\ t.text \in Texts
    /\ Parses(t.source, t.text)
    /\ t.received = WithoutDust(Units(t.source, t.text))
    /\ t.debited = t.received
    /\ t.by_default => t.received >= Units(t.source, t.text)

AmountInv ==
    /\ task.step # "idle" => Typed(task)
    /\ \A tx \in pool : Typed(tx)
    /\ \A t \in landed : SentWell(t)

\* The steps of a run change none of that.
LEMMA TypedStays ==
  ASSUME SendInv, task.step # "idle", Typed(task), NEW next, NEW error, NEW offer,
         \/ task' = [task EXCEPT !.step = next]
         \/ task' = [task EXCEPT !.step = next, !.error = error]
         \/ task' = [task EXCEPT !.step = next, !.offer = offer]
  PROVE  Typed(task')
<1>1. IsTask(task)
  BY BusyIsTask DEF SendInv
<1>2. /\ task'.text = task.text /\ task'.source = task.source
      /\ task'.amount = task.amount /\ task'.by_default = task.by_default
      /\ task'.min_amount = task.min_amount
  BY <1>1 DEF IsTask
<1>. QED BY <1>2 DEF Typed

\* A run starts with what was typed.
LEMMA StartIsTyped ==
  ASSUME AmountInv, NEW from, NEW text \in Texts, NEW min, NEW options,
         Start(from, text, min, options)
  PROVE  AmountInv'
<1>1. UNCHANGED <<pool, landed>> /\ Parses(from, text)
  BY DEF Start
<1>2. /\ task'.text = text /\ task'.source = from
      /\ task'.amount = Units(from, text)
      /\ task'.by_default = (min = None)
      /\ task'.min_amount = MinUnits(from, text, min)
  BY DEF Start
<1>3. Typed(task')
  BY <1>1, <1>2 DEF Typed, MinUnits
<1>. QED BY <1>1, <1>3 DEF AmountInv

\* What lands is what a transaction was started with, without its dust, and not
\* less than its minimum.
LEMMA LandIsTyped ==
  ASSUME SendInv, AmountInv, NEW tx \in pool, Land(tx)
  PROVE  AmountInv'
<1>. DEFINE t == [run |-> tx.run, text |-> tx.text, debited |-> Debited(tx),
                  source |-> tx.source, by_default |-> tx.by_default,
                  received |-> WithoutDust(tx.amount),
                  paid |-> fee, offer |-> tx.offer]
<1>1. landed' = landed \cup {t} /\ pool' \subseteq pool /\ Accepts(tx)
  BY DEF Land, Executes
<1>2. Typed(tx)
  BY DEF AmountInv
<1>3. SentWell(t)
  <2>1. /\ t.text = tx.text /\ t.source = tx.source /\ t.by_default = tx.by_default
        /\ t.debited = WithoutDust(tx.amount) /\ t.received = WithoutDust(tx.amount)
    BY DEF Debited
  <2>2. WithoutDust(tx.amount) >= tx.min_amount
    BY <1>1 DEF Accepts
  <2>. HIDE DEF t
  <2>. QED BY <1>2, <2>1, <2>2 DEF Typed, SentWell
<1>. HIDE DEF t
<1>4. task'.step # "idle" => Typed(task')
  <2>1. CASE Waits(tx)
    <3>1. task.step # "idle" /\ task' = [task EXCEPT !.step = "sent"]
      BY <2>1 DEF Land, Waits, Sent
    <3>. QED BY <3>1, TypedStays DEF AmountInv
  <2>2. CASE ~Waits(tx)
    BY <2>2 DEF Land, AmountInv
  <2>. QED BY <2>1, <2>2
<1>. QED BY <1>1, <1>3, <1>4 DEF AmountInv

\* No other step gives a run or a transaction another number.
LEMMA AmountStep == SendInv /\ AmountInv /\ [Next]_vars => AmountInv'
<1>. SUFFICES ASSUME SendInv, AmountInv, [Next]_vars PROVE AmountInv'
  OBVIOUS
<1>1. CASE \E from \in Sources, text \in Texts, min \in MinTexts, o \in OptionTexts :
              Start(from, text, min, o)
  BY <1>1, StartIsTyped
<1>2. CASE Quote
  <2>1. /\ task.step # "idle" /\ UNCHANGED <<pool, landed>>
        /\ \/ task' = [task EXCEPT !.step = "submit", !.offer = fee]
           \/ task' = [task EXCEPT !.step = "failed",
                                   !.error = QuotingError(task.source)]
    BY <1>2 DEF Quote, Fail
  <2>2. Typed(task')
    BY <2>1, TypedStays DEF AmountInv
  <2>. QED BY <2>1, <2>2 DEF AmountInv
<1>3. CASE Submit
  <2>1. /\ task.step # "idle" /\ pool' \subseteq pool \cup {task}
        /\ UNCHANGED landed
        /\ \/ task' = [task EXCEPT !.step = "wait"]
           \/ task' = [task EXCEPT !.step = "failed",
                                   !.error = SubmissionError(task.source)]
    BY <1>3 DEF Submit, Fail
  <2>2. Typed(task')
    BY <2>1, TypedStays DEF AmountInv
  <2>. QED BY <2>1, <2>2 DEF AmountInv
<1>4. CASE LoseTrack
  <2>1. /\ task.step # "idle" /\ UNCHANGED <<pool, landed>>
        /\ \E error : task' = [task EXCEPT !.step = "failed", !.error = error]
    BY <1>4 DEF LoseTrack, Fail
  <2>2. Typed(task')
    BY <2>1, TypedStays DEF AmountInv
  <2>. QED BY <2>1, <2>2 DEF AmountInv
<1>5. ASSUME NEW tx \in pool, Revert(tx) PROVE AmountInv'
  <2>1. pool' \subseteq pool /\ UNCHANGED landed
    BY <1>5 DEF Revert
  <2>2. \/ UNCHANGED task
        \/ /\ task.step # "idle"
           /\ \/ task' = [task EXCEPT !.step = "failed", !.error = "waiting"]
              \/ task' = [task EXCEPT !.step = "sent"]
    BY <1>5 DEF Revert, OnRevert, Waits, Fail, Sent
  <2>3. task'.step # "idle" => Typed(task')
    BY <2>2, TypedStays DEF AmountInv
  <2>. QED BY <2>1, <2>3 DEF AmountInv
<1>6. CASE UNCHANGED <<task, pool, landed>>
  BY <1>6 DEF AmountInv
<1>. QED BY <1>1, <1>2, <1>3, <1>4, <1>5, <1>6, LandIsTyped
         DEF Next, ChangeFee, Spend, vars

LEMMA AmountInvariant == Spec => []AmountInv
<1>1. Init => AmountInv
  BY DEF Init, AmountInv, Idle
<1>. QED BY <1>1, InitIsSafe, StepIsSafe, AmountStep, PTL DEF Spec

\* What the invariant says in numbers.
LEMMA AmountsFollow == AmountInv => AmountsAsTyped
<1>. SUFFICES ASSUME AmountInv, NEW t \in landed
              PROVE  /\ t.by_default =>
                          /\ t.debited = t.received
                          /\ t.received = Units(t.source, t.text)
                          /\ t.source = "EVM" => IsExactly(t.text, t.received)
                     /\ t.received <= t.debited
                     /\ t.debited * Pow[Len(t.text.fraction)]
                          <= ParseDecimalToUnits(t.text,
                                                 Decimals + Len(t.text.fraction))
  BY DEF AmountsAsTyped, SentAsTyped, NeverMoreThanTyped
<1>. DEFINE k == Len(t.text.fraction)
            u == Units(t.source, t.text)
<1>1. SentWell(t)
  BY DEF AmountInv
<1>2. t.text \in Number /\ Decimals \in Nat
  BY <1>1, SendAssumption DEF SentWell
<1>3. k \in Nat /\ Pow[k] \in Nat
  <2>1. t.text.fraction \in Seq(0 .. Base - 1)
    BY <1>2 DEF Number
  <2>2. k \in Nat
    BY <2>1
  <2>. QED BY <2>2, PowIsNat
<1>4. u = ParseDecimalToUnits(t.text, Decimals) /\ u \in Nat
  BY <1>2, ParseDecimal DEF Units
<1>. HIDE DEF k, u
<1>5. /\ u * Pow[k] <= ParseDecimalToUnits(t.text, Decimals + k)
      /\ FitsDecimals(t.text, Decimals) =>
            u * Pow[k] = ParseDecimalToUnits(t.text, Decimals + k)
  BY <1>2, <1>3, <1>4, CutDigits
<1>6. /\ t.received = WithoutDust(u) /\ t.debited = t.received
      /\ t.by_default => t.received >= u
      /\ t.source = "EVM" => FitsDecimals(t.text, Decimals)
  BY <1>1 DEF SentWell, Parses, u
<1>7. t.received \in Nat /\ t.received <= u
  BY <1>4, <1>6, DustFacts
<1>8. t.received * Pow[k] <= u * Pow[k]
  <2>1. \A x, y, p \in Nat : x <= y => x * p <= y * p
    OBVIOUS
  <2>. QED BY <1>3, <1>4, <1>7, <2>1
<1>9. t.received * Pow[k] <= ParseDecimalToUnits(t.text, Decimals + k)
  <2>1. /\ t.received * Pow[k] \in Nat /\ u * Pow[k] \in Nat
        /\ ParseDecimalToUnits(t.text, Decimals + k) \in Nat
    BY <1>2, <1>3, <1>4, <1>7, ParseDecimal
  <2>. QED BY <1>5, <1>8, <2>1
<1>10. t.by_default => t.received = u
  BY <1>4, <1>6, <1>7
<1>11. t.by_default /\ t.source = "EVM" => IsExactly(t.text, t.received)
  BY <1>5, <1>6, <1>10 DEF IsExactly, k
<1>. QED BY <1>6, <1>7, <1>9, <1>10, <1>11 DEF k, u

\* By default what leaves and arrives is what was typed, to the last digit for an
\* EVM chain; and no transfer, of either chain, takes or delivers more than was
\* typed: for numbers of any length in any base, whatever the decimals of the
\* token and however many of them are shared (parseDecimalToUnits, the dust that
\* the OFT removes, and the minimum that sendEvm and sendSolana set).
THEOREM AmountsAreAsTyped == Spec => []AmountsAsTyped
BY AmountInvariant, AmountsFollow, PTL

-----------------------------------------------------------------------------
(* The metadata.  A transaction is what its task made of what it read: it    *)
(* changes the data, or renounces and freezes, or hands on what is mutable.   *)

MetadataAccounts ==
    [update_authority : Data!Authorities, is_mutable : BOOLEAN,
     data : [name : Names, fee : Nat]]

Transactions ==
    [signer : Operators, data : {None} \cup [name : Names, fee : Nat],
     given : {None} \cup Data!Givens, authority : {None} \cup Data!Authorities,
     is_mutable : {None} \cup BOOLEAN, renounce : BOOLEAN, asks : BOOLEAN,
     version : Nat]

ChangesData(tx) ==
    /\ tx.authority = None /\ tx.is_mutable = None /\ tx.renounce = FALSE
    /\ tx.version <= version
    /\ tx.version = version => tx.data = Data!Merge(tx.given, metadata.data)
    /\ tx.data # None

Renounces(tx) ==
    /\ tx.authority = SystemProgram /\ tx.is_mutable = FALSE /\ tx.renounce = TRUE
    /\ tx.data = None /\ tx.given = None

HandsOn(tx) ==
    /\ tx.authority \in Data!Authorities /\ tx.is_mutable = TRUE /\ tx.renounce = FALSE
    /\ tx.data = None /\ tx.given = None

Meant(tx) ==
    /\ tx \in Transactions
    /\ metadata # None
    /\ ChangesData(tx) \/ Renounces(tx) \/ HandsOn(tx)

MetadataInv ==
    /\ metadata \in {None} \cup MetadataAccounts
    /\ metadata # None => creation \in Data!Creations
    /\ version \in Nat
    /\ update \in [Operators -> {None} \cup Transactions]
    /\ \A o \in Operators : update[o] # None => Meant(update[o])
    /\ \A tx \in updates : Meant(tx)
    /\ metadata = None => renounced = None
    /\ RenouncedIsFinal

LEMMA DataFacts ==
  /\ SystemProgram \notin Operators
  /\ None \notin Data!Authorities /\ None \notin BOOLEAN
  /\ "" \in Names /\ 0 \in Fees /\ Fees \subseteq Nat
  /\ None \notin [name : Names, fee : Nat] /\ None \notin MetadataAccounts
  /\ Data!Authorities = Operators \cup {SystemProgram}
BY PartsAssumption DEF Data!MetadataAssumption, Data!Authorities, MetadataAccounts

\* Merging keeps data well formed.
LEMMA MergeFacts ==
  ASSUME NEW given \in Data!Givens, NEW data \in [name : Names, fee : Nat]
  PROVE  /\ Data!Merge(given, data) \in [name : Names, fee : Nat]
         /\ Data!Merge(given, data).name =
              IF given.name \in {None, ""} THEN data.name ELSE given.name
         /\ Data!Merge(given, data).fee =
              IF given.fee = None THEN data.fee ELSE given.fee
<1>1. /\ given.name \in Names \cup {None} /\ given.fee \in Nat \cup {None}
  BY DataFacts DEF Data!Givens
<1>. QED BY <1>1 DEF Data!Merge

\* A step that leaves the metadata alone keeps what was meant.
LEMMA SameMetadata ==
  ASSUME UNCHANGED <<metadata, creation, version, renounced>>
  PROVE  /\ \A tx : Meant(tx)' <=> Meant(tx)
         /\ RenouncedIsFinal' <=> RenouncedIsFinal
BY DEF Meant, ChangesData, Renounces, HandsOn, RenouncedIsFinal, Data!RenouncedIsFinal

LEMMA CreateKeeps ==
  ASSUME MetadataInv, NEW args \in Data!Creations, Data!Create(args)
  PROVE  MetadataInv'
<1>1. /\ metadata = None /\ metadata' = Data!Created(args) /\ creation' = args
      /\ UNCHANGED <<version, update, updates, renounced>>
  BY DEF Data!Create
<1>2. /\ metadata' \in MetadataAccounts /\ metadata'.update_authority \in Operators
      /\ metadata'.is_mutable = args.mutable
  <2>1. /\ args.operator \in Operators /\ args.mutable \in BOOLEAN
        /\ args.name \in Names /\ args.fee \in Fees
    BY DEF Data!Creations
  <2>2. args.fee * 100 \in Nat
    <3>1. args.fee \in Nat
      BY <2>1, DataFacts
    <3>. QED BY <3>1
  <2>. QED BY <1>1, <2>1, <2>2, DataFacts DEF Data!Created, MetadataAccounts
<1>3. RenouncedIsFinal'
  <2>1. renounced' = None
    BY <1>1 DEF MetadataInv
  <2>2. metadata'.is_mutable = creation'.mutable
    BY <1>1, <1>2
  <2>. QED BY <2>1, <2>2, Zenon DEF RenouncedIsFinal, Data!RenouncedIsFinal
<1>4. updates = {} /\ \A o \in Operators : update[o] = None
  BY <1>1 DEF MetadataInv, Meant
<1>5. metadata' # None
  BY <1>2, DataFacts
<1>. QED BY <1>1, <1>2, <1>3, <1>4, <1>5 DEF MetadataInv

\* Starting, confirming and ending a task: what is new is meant.
LEMMA JobKeeps ==
  ASSUME MetadataInv, NEW o \in Operators, NEW job \in {None} \cup Transactions,
         job # None => Meant(job),
         update' = [update EXCEPT ![o] = job],
         UNCHANGED <<metadata, creation, version, updates, renounced>>
  PROVE  MetadataInv'
<1>1. update' \in [Operators -> {None} \cup Transactions]
  BY DEF MetadataInv
<1>2. \A p \in Operators : update'[p] # None => Meant(update'[p])
  BY DEF MetadataInv
<1>3. (\A p \in Operators : update[p] # None => Meant(update[p]))'
  BY <1>2 DEF Meant, ChangesData, Renounces, HandsOn
<1>4. (\A tx \in updates : Meant(tx))'
  BY DEF MetadataInv, Meant, ChangesData, Renounces, HandsOn
<1>. QED BY <1>1, <1>3, <1>4, SameMetadata DEF MetadataInv

LEMMA UpdateMetadataKeeps ==
  ASSUME MetadataInv, NEW o \in Operators, NEW given \in Data!Givens,
         Data!UpdateMetadata(o, given)
  PROVE  MetadataInv'
<1>. DEFINE job == [signer |-> o, data |-> Data!Merge(given, metadata.data),
                    given |-> given, authority |-> None, is_mutable |-> None,
                    renounce |-> FALSE, asks |-> FALSE, version |-> version]
<1>1. /\ metadata # None /\ update' = [update EXCEPT ![o] = job]
      /\ UNCHANGED <<metadata, creation, version, updates, renounced>>
  BY DEF Data!UpdateMetadata
<1>2. metadata.data \in [name : Names, fee : Nat]
  BY <1>1 DEF MetadataInv, MetadataAccounts
<1>3. Data!Merge(given, metadata.data) \in [name : Names, fee : Nat]
  BY <1>2, MergeFacts
<1>4. job \in Transactions
  BY <1>3 DEF Transactions, MetadataInv
<1>5. /\ job.authority = None /\ job.is_mutable = None /\ job.version = version
      /\ job.renounce = FALSE
      /\ job.data = Data!Merge(job.given, metadata.data) /\ job.data # None
      /\ version \in Nat
  BY <1>3, DataFacts DEF MetadataInv
<1>. HIDE DEF job
<1>6. Meant(job)
  BY <1>1, <1>4, <1>5 DEF Meant, ChangesData
<1>. QED BY <1>1, <1>4, <1>6, JobKeeps

LEMMA SetUpdateAuthorityKeeps ==
  ASSUME MetadataInv, NEW o \in Operators, NEW new \in Data!Authorities,
         NEW renounce \in BOOLEAN, Data!SetUpdateAuthority(o, new, renounce)
  PROVE  MetadataInv'
<1>. DEFINE job == [signer |-> o, data |-> None, given |-> None, authority |-> new,
                    is_mutable |-> Data!IsMutable(renounce, metadata.is_mutable),
                    renounce |-> renounce, asks |-> renounce, version |-> version]
<1>1. /\ metadata # None /\ update' = [update EXCEPT ![o] = job]
      /\ renounce => new = SystemProgram
      /\ renounce \/ metadata.is_mutable
      /\ UNCHANGED <<metadata, creation, version, updates, renounced>>
  BY DEF Data!SetUpdateAuthority
<1>2. metadata.is_mutable \in BOOLEAN
  BY <1>1 DEF MetadataInv, MetadataAccounts
<1>3. Data!IsMutable(renounce, metadata.is_mutable) = ~renounce
  BY <1>1, <1>2, Zenon DEF Data!IsMutable
<1>4. job \in Transactions
  BY <1>3 DEF Transactions, MetadataInv
<1>5. CASE renounce
  <2>1. Renounces(job)
    BY <1>1, <1>3, <1>5 DEF Renounces
  <2>. QED BY <1>1, <1>4, <2>1, JobKeeps DEF Meant
<1>6. CASE ~renounce
  <2>1. HandsOn(job)
    BY <1>1, <1>3, <1>6, DataFacts DEF HandsOn
  <2>. QED BY <1>1, <1>4, <2>1, JobKeeps DEF Meant
<1>. QED BY <1>5, <1>6

LEMMA ConfirmKeeps ==
  ASSUME MetadataInv, NEW o \in Operators, Data!Confirm(o)
  PROVE  MetadataInv'
<1>. DEFINE job == [update[o] EXCEPT !.asks = FALSE]
<1>1. /\ update[o] # None /\ update' = [update EXCEPT ![o].asks = FALSE]
      /\ UNCHANGED <<metadata, creation, version, updates, renounced>>
  BY DEF Data!Confirm
<1>2. update[o] \in Transactions /\ Meant(update[o])
  BY <1>1 DEF MetadataInv
<1>3. /\ job \in Transactions
      /\ job.data = update[o].data /\ job.given = update[o].given
      /\ job.authority = update[o].authority /\ job.is_mutable = update[o].is_mutable
      /\ job.version = update[o].version /\ job.renounce = update[o].renounce
  BY <1>2 DEF Transactions
<1>4. update' = [update EXCEPT ![o] = job]
  BY <1>1 DEF MetadataInv
<1>. HIDE DEF job
<1>5. Meant(job)
  BY <1>2, <1>3 DEF Meant, ChangesData, Renounces, HandsOn
<1>. QED BY <1>1, <1>3, <1>4, <1>5, JobKeeps

\* Sending, and losing, a transaction: what is on its way is meant.
LEMMA PoolKeeps ==
  ASSUME MetadataInv, \A tx \in updates' \ updates : Meant(tx),
         UNCHANGED <<metadata, creation, version, update, renounced>>
  PROVE  MetadataInv'
<1>1. \A tx \in updates' : Meant(tx)
  BY DEF MetadataInv
<1>2. (\A tx \in updates : Meant(tx))'
  BY <1>1 DEF Meant, ChangesData, Renounces, HandsOn
<1>3. (\A o \in Operators : update[o] # None => Meant(update[o]))'
  BY DEF MetadataInv, Meant, ChangesData, Renounces, HandsOn
<1>. QED BY <1>2, <1>3, SameMetadata DEF MetadataInv

\* What updateV1 writes when it accepts a transaction.
LEMMA UpdateV1Writes ==
  ASSUME MetadataInv, NEW tx \in updates, Data!UpdateV1(tx)
  PROVE  /\ metadata \in MetadataAccounts /\ metadata' \in MetadataAccounts
         /\ metadata # None
         /\ metadata.update_authority = tx.signer
         /\ updates' = updates \ {tx}
         /\ UNCHANGED <<creation, update>>
         /\ \/ /\ ChangesData(tx) /\ metadata.is_mutable /\ version' = version + 1
               /\ metadata'.data = tx.data
               /\ metadata'.update_authority = metadata.update_authority
               /\ metadata'.is_mutable = metadata.is_mutable /\ renounced' = renounced
            \/ /\ Renounces(tx) /\ version' = version
               /\ metadata'.data = metadata.data
               /\ metadata'.update_authority = SystemProgram
               /\ metadata'.is_mutable = FALSE /\ renounced' = metadata'
            \/ /\ HandsOn(tx) /\ metadata.is_mutable /\ version' = version
               /\ metadata'.data = metadata.data
               /\ metadata'.is_mutable = TRUE /\ renounced' = renounced
<1>. DEFINE a == IF tx.authority = None THEN metadata.update_authority ELSE tx.authority
            m == IF tx.is_mutable = None THEN metadata.is_mutable ELSE tx.is_mutable
            d == IF tx.data = None THEN metadata.data ELSE tx.data
<1>1. Meant(tx)
  BY DEF MetadataInv
<1>2. metadata # None /\ metadata \in MetadataAccounts /\ tx \in Transactions
  BY <1>1 DEF Meant, MetadataInv
<1>3. /\ metadata' = [update_authority |-> a, is_mutable |-> m, data |-> d]
      /\ metadata.update_authority = tx.signer
      /\ tx.data # None \/ tx.is_mutable = TRUE => metadata.is_mutable
      /\ version' = IF tx.data = None THEN version ELSE version + 1
      /\ updates' = updates \ {tx} /\ UNCHANGED <<creation, update>>
      /\ renounced' = IF tx.renounce THEN metadata' ELSE renounced
  BY DEF Data!UpdateV1
<1>4. /\ a \in Data!Authorities /\ m \in BOOLEAN /\ d \in [name : Names, fee : Nat]
  BY <1>2 DEF MetadataAccounts, Transactions
<1>. HIDE DEF a, m, d
<1>5. /\ metadata' \in MetadataAccounts
      /\ metadata'.update_authority = a /\ metadata'.is_mutable = m
      /\ metadata'.data = d
  BY <1>3, <1>4 DEF MetadataAccounts
<1>6. CASE ChangesData(tx)
  <2>1. a = metadata.update_authority /\ m = metadata.is_mutable /\ d = tx.data
    BY <1>6 DEF a, m, d, ChangesData
  <2>2. metadata.is_mutable /\ version' = version + 1 /\ renounced' = renounced
    BY <1>3, <1>6 DEF ChangesData
  <2>. QED BY <1>2, <1>3, <1>5, <1>6, <2>1, <2>2, Zenon
<1>7. CASE Renounces(tx)
  <2>1. a = SystemProgram /\ m = FALSE /\ d = metadata.data
    BY <1>7, DataFacts DEF a, m, d, Renounces
  <2>2. version' = version /\ renounced' = metadata'
    BY <1>3, <1>7 DEF Renounces
  <2>. QED BY <1>2, <1>3, <1>5, <1>7, <2>1, <2>2, Zenon
<1>8. CASE HandsOn(tx)
  <2>1. m = TRUE /\ d = metadata.data
    BY <1>8, DataFacts DEF a, m, d, HandsOn
  <2>2. version' = version /\ metadata.is_mutable /\ renounced' = renounced
    BY <1>3, <1>8 DEF HandsOn
  <2>. QED BY <1>2, <1>3, <1>5, <1>8, <2>1, <2>2, Zenon
<1>. QED BY <1>1, <1>6, <1>7, <1>8 DEF Meant

\* The data of a transaction that was overtaken no longer has to be the merge.
LEMMA UpdateV1Meant ==
  ASSUME MetadataInv, NEW tx \in updates, Data!UpdateV1(tx), NEW other, Meant(other)
  PROVE  /\ other \in Transactions /\ metadata' # None
         /\ \/ Renounces(other) \/ HandsOn(other)
            \/ /\ other.authority = None /\ other.is_mutable = None
               /\ other.version <= version'
               /\ other.version = version' =>
                     other.data = Data!Merge(other.given, metadata'.data)
               /\ other.data # None
<1>1. metadata' # None
  BY UpdateV1Writes, DataFacts
<1>2. /\ version \in Nat /\ other \in Transactions /\ other.version \in Nat
  BY DEF MetadataInv, Meant, Transactions
<1>3. \/ version' = version + 1
      \/ version' = version /\ metadata'.data = metadata.data
  BY UpdateV1Writes
<1>. QED BY <1>1, <1>2, <1>3 DEF Meant, ChangesData

LEMMA UpdateV1Keeps ==
  ASSUME MetadataInv, NEW tx \in updates, Data!UpdateV1(tx)
  PROVE  MetadataInv'
<1>1. /\ metadata' \in MetadataAccounts /\ version' \in Nat
      /\ updates' \subseteq updates /\ UNCHANGED <<creation, update>>
  <2>1. version \in Nat
    BY DEF MetadataInv
  <2>2. version' = version \/ version' = version + 1
    BY UpdateV1Writes
  <2>3. metadata' \in MetadataAccounts /\ updates' = updates \ {tx}
        /\ UNCHANGED <<creation, update>>
    BY UpdateV1Writes
  <2>. QED BY <2>1, <2>2, <2>3
<1>2. (\A o \in Operators : update[o] # None => Meant(update[o]))'
  <2>1. \A o \in Operators : update[o] # None => Meant(update[o])
    BY DEF MetadataInv
  <2>. QED BY <1>1, <2>1, UpdateV1Meant DEF Meant, ChangesData, Renounces, HandsOn
<1>3. (\A t \in updates : Meant(t))'
  <2>1. \A t \in updates : Meant(t)
    BY DEF MetadataInv
  <2>. QED BY <1>1, <2>1, UpdateV1Meant DEF Meant, ChangesData, Renounces, HandsOn
<1>4. RenouncedIsFinal'
  <2>1. /\ metadata # None /\ metadata.update_authority = tx.signer
        /\ tx.signer \in Operators /\ creation' = creation
    BY UpdateV1Writes DEF MetadataInv, Meant, Transactions
  <2>2. metadata.update_authority # SystemProgram
    BY <2>1, DataFacts
  <2>3. renounced = None /\ ~(~metadata.is_mutable /\ creation.mutable)
    BY <2>1, <2>2, Zenon DEF MetadataInv, RenouncedIsFinal, Data!RenouncedIsFinal
  <2>4. CASE metadata'.is_mutable = metadata.is_mutable /\ renounced' = renounced
    BY <2>1, <2>3, <2>4, Zenon DEF RenouncedIsFinal, Data!RenouncedIsFinal
  <2>5. CASE /\ metadata'.update_authority = SystemProgram
             /\ metadata'.is_mutable = FALSE /\ renounced' = metadata'
    <3>1. metadata' # None
      BY UpdateV1Writes, DataFacts
    <3>. QED BY <2>5, <3>1, Zenon DEF RenouncedIsFinal, Data!RenouncedIsFinal
  <2>6. CASE metadata'.is_mutable = TRUE /\ renounced' = renounced
    BY <2>3, <2>6, Zenon DEF RenouncedIsFinal, Data!RenouncedIsFinal
  <2>. QED BY <2>4, <2>5, <2>6, UpdateV1Writes
<1>5. creation' \in Data!Creations
  BY <1>1, UpdateV1Writes DEF MetadataInv
<1>6. metadata' # None
  BY UpdateV1Writes, DataFacts
<1>. QED BY <1>1, <1>2, <1>3, <1>4, <1>5, <1>6 DEF MetadataInv

LEMMA MetadataStep ==
  ASSUME MetadataInv, [Data!Next]_Data!vars
  PROVE  MetadataInv'
<1>1. CASE UNCHANGED Data!vars
  BY <1>1, PoolKeeps DEF Data!vars
<1>2. ASSUME NEW o \in Operators, Data!SendTransaction(o)
      PROVE  MetadataInv'
  <2>1. /\ update[o] # None /\ updates' = updates \cup {update[o]}
        /\ UNCHANGED <<metadata, creation, version, update, renounced>>
    BY <1>2 DEF Data!SendTransaction, Data!MaySend
  <2>2. Meant(update[o])
    BY <2>1 DEF MetadataInv
  <2>. QED BY <2>1, <2>2, PoolKeeps
<1>3. ASSUME NEW o \in Operators, Data!End(o)
      PROVE  MetadataInv'
  BY <1>3, JobKeeps DEF Data!End
<1>4. ASSUME NEW tx \in updates, Data!Drop(tx)
      PROVE  MetadataInv'
  BY <1>4, PoolKeeps DEF Data!Drop
<1>. QED BY <1>1, <1>2, <1>3, <1>4, CreateKeeps, UpdateMetadataKeeps,
            SetUpdateAuthorityKeeps, ConfirmKeeps, UpdateV1Keeps DEF Data!Next

LEMMA MetadataInvariant == Data!Spec => []MetadataInv
<1>1. Data!Init => MetadataInv
  BY DEF Data!Init, MetadataInv, RenouncedIsFinal, Data!RenouncedIsFinal
<1>. QED BY <1>1, MetadataStep, PTL DEF Data!Spec

\* Metadata whose update authority was renounced never changes again, and metadata
\* that was created mutable is frozen only in that way, whichever transactions of
\* other operators land first or later (setUpdateAuthority.ts).
THEOREM RenouncingIsFinal == Data!Spec => []RenouncedIsFinal
<1>1. MetadataInv => RenouncedIsFinal
  BY DEF MetadataInv
<1>. QED BY <1>1, MetadataInvariant, PTL

\* A transaction that leaves the pool and changes the metadata is the one landed.
LEMMA UpdateStep ==
  ASSUME MetadataInv, [Data!Next]_Data!vars, NEW tx \in updates \ updates',
         metadata' # metadata, tx.given # None, tx.version = version
  PROVE  /\ metadata'.data.fee =
              IF tx.given.fee = None THEN metadata.data.fee ELSE tx.given.fee
         /\ metadata'.data.name =
              IF tx.given.name \in {None, ""} THEN metadata.data.name ELSE tx.given.name
<1>1. PICK t \in updates : Data!UpdateV1(t)
  BY DEF Data!Next, Data!UpdateMetadata, Data!SetUpdateAuthority, Data!Confirm,
         Data!SendTransaction, Data!End, Data!Drop, Data!Create, Data!vars
<1>2. t = tx
  BY <1>1, UpdateV1Writes
<1>3. Meant(tx)
  BY DEF MetadataInv
<1>4. /\ ChangesData(tx) /\ metadata'.data = tx.data /\ metadata \in MetadataAccounts
  BY <1>1, <1>2, <1>3, UpdateV1Writes DEF Renounces, HandsOn
<1>5. metadata'.data = Data!Merge(tx.given, metadata.data)
  BY <1>4 DEF ChangesData
<1>6. tx.given \in Data!Givens /\ metadata.data \in [name : Names, fee : Nat]
  BY <1>3, <1>4 DEF Meant, Transactions, MetadataAccounts
<1>. DEFINE merged_data == Data!Merge(tx.given, metadata.data)
<1>7. /\ merged_data.name =
           IF tx.given.name \in {None, ""} THEN metadata.data.name ELSE tx.given.name
      /\ merged_data.fee =
           IF tx.given.fee = None THEN metadata.data.fee ELSE tx.given.fee
  BY <1>6, MergeFacts
<1>. QED BY <1>5, <1>7

\* An update that no other overtook changes the fields it was given, a fee of
\* zero included, and no other (updateMetadata.ts).
THEOREM UpdatesAreExact == Data!Spec => UpdatesWhatIsGiven
<1>. DEFINE A == \A tx \in updates \ updates' :
                   metadata' # metadata /\ tx.given # None /\ tx.version = version =>
                     /\ metadata'.data.fee =
                          IF tx.given.fee = None THEN metadata.data.fee ELSE tx.given.fee
                     /\ metadata'.data.name =
                          IF tx.given.name \in {None, ""} THEN metadata.data.name
                          ELSE tx.given.name
<1>1. MetadataInv /\ [Data!Next]_Data!vars => [A]_Data!vars
  BY UpdateStep
<1>. QED BY <1>1, MetadataInvariant, PTL
         DEF Data!Spec, UpdatesWhatIsGiven, Data!UpdatesWhatIsGiven

-----------------------------------------------------------------------------
(* config:get.  What a function has read was in force when it read it, the   *)
(* settings in the library that it had read before, and no merge touches     *)
(* another connection's entry.                                               *)

Values == Libraries \cup {None}

LibrariesOK ==
    /\ custom \in [Config!Connections -> [Config!Directions -> Values]]
    /\ default \in [Config!Connections -> [Config!Directions -> Libraries]]
    /\ \A c \in Config!Connections, d \in Config!Directions :
          Config!Active(c, d) \in was[c][d]

SettingsOK ==
    \A c \in Config!Connections, l \in Libraries, k \in Config!Kinds :
       settings[c][l][k] \in held[c][l][k]

\* What was read of connection c by the calls that have returned.
ReadsOf(c, values) ==
    /\ Len(values) >= 1 => values[1] \in Libraries /\ values[1] \in was[c]["receive"]
    /\ Len(values) >= 2 =>
          values[2] \in held[c][Config!UlnLibrary(c, values[1])]["receiveUlnConfig"]
    /\ Len(values) >= 3 => values[3] \in Libraries /\ values[3] \in was[c]["send"]
    /\ Len(values) >= 4 =>
          values[4] \in held[c][Config!UlnLibrary(c, values[3])]["sendUlnConfig"]
    /\ Len(values) >= 5 => values[5] \in held[c][values[3]]["sendExecutorConfig"]

IsSequence(values) == \E S : values \in Seq(S)

ReadsInForce ==
    /\ DOMAIN reads = Config!Connections
    /\ reads = [c \in Config!Connections |-> reads[c]]
    /\ \A c \in Config!Connections :
          IsSequence(reads[c]) /\ Len(reads[c]) \in 0 .. 5 /\ ReadsOf(c, reads[c])

\* An entry of which every part was in force.
Sound(c, entry) ==
    /\ entry.defaultReceiveLibrary \in Libraries /\ entry.defaultSendLibrary \in Libraries
    /\ entry.defaultReceiveLibrary \in was[c]["receive"]
    /\ entry.defaultSendLibrary \in was[c]["send"]
    /\ entry.receiveUlnConfig \in
          held[c][Config!UlnLibrary(c, entry.defaultReceiveLibrary)]["receiveUlnConfig"]
    /\ entry.sendUlnConfig \in
          held[c][Config!UlnLibrary(c, entry.defaultSendLibrary)]["sendUlnConfig"]
    /\ entry.sendExecutorConfig \in held[c][entry.defaultSendLibrary]["sendExecutorConfig"]

AllSound ==
    /\ merged \subseteq {c \in Config!Connections : Config!Has(c)}
    /\ \A c \in Config!Connections : Config!Has(c) => Sound(c, configs[c[1]][c[2]])

ConfigInv == LibrariesOK /\ SettingsOK /\ ReadsInForce /\ AllSound

LEMMA EntriesFollow == ConfigInv => EntriesWereInForce
BY DEF ConfigInv, AllSound, Sound, EntriesWereInForce, Config!EntriesWereInForce

LEMMA CallsFacts ==
  /\ Len(Config!Calls) = 5
  /\ Config!Calls[1] = "receiveLibrary" /\ Config!Calls[2] = "receiveUlnConfig"
  /\ Config!Calls[3] = "sendLibrary" /\ Config!Calls[4] = "sendUlnConfig"
  /\ Config!Calls[5] = "sendExecutorConfig"
BY DEF Config!Calls

\* Appending to a sequence of any values.
LEMMA AppendFacts ==
  ASSUME NEW values, IsSequence(values), NEW answer
  PROVE  /\ IsSequence(Append(values, answer)) /\ Len(values) \in Nat
         /\ Len(Append(values, answer)) = Len(values) + 1
         /\ Append(values, answer)[Len(values) + 1] = answer
         /\ \A i \in 1 .. Len(values) : Append(values, answer)[i] = values[i]
<1>1. PICK S : values \in Seq(S)
  BY DEF IsSequence
<1>. DEFINE T == S \cup {answer}
<1>2. values \in Seq(T) /\ answer \in T
  BY <1>1
<1>. HIDE DEF T
<1>3. Append(values, answer) \in Seq(T)
  BY <1>2
<1>. QED BY <1>2, <1>3 DEF IsSequence

LEMMA OneMore == \A m \in 0 .. 4 : \A n : n = m + 1 => n \in 0 .. 5
OBVIOUS

\* The answer to the next call is sound for what was read before.
LEMMA AnswerFacts ==
  ASSUME LibrariesOK, SettingsOK, NEW c \in Config!Connections, NEW values,
         Len(values) \in 0 .. 4, ReadsOf(c, values)
  PROVE  LET answer == Config!Answer(c, values)
         IN  /\ Len(values) = 0 => answer \in Libraries /\ answer \in was[c]["receive"]
             /\ Len(values) = 1 => answer \in
                   held[c][Config!UlnLibrary(c, values[1])]["receiveUlnConfig"]
             /\ Len(values) = 2 => answer \in Libraries /\ answer \in was[c]["send"]
             /\ Len(values) = 3 => answer \in
                   held[c][Config!UlnLibrary(c, values[3])]["sendUlnConfig"]
             /\ Len(values) = 4 => answer \in held[c][values[3]]["sendExecutorConfig"]
<1>1. UlnProgram \in Libraries
  BY PartsAssumption DEF Config!ConfigAssumption
<1>2. \A d \in Config!Directions :
         Config!Active(c, d) \in Libraries /\ Config!Active(c, d) \in was[c][d]
  BY <1>1 DEF LibrariesOK, Config!Active, Values
<1>3. \A l \in Libraries : Config!UlnLibrary(c, l) \in Libraries
  BY <1>1 DEF Config!UlnLibrary
<1>4. CASE Len(values) = 0
  <2>1. Config!Answer(c, values) = Config!Active(c, "receive")
    BY <1>4, CallsFacts DEF Config!Answer
  <2>. QED BY <1>2, <1>4, <2>1 DEF Config!Directions
<1>5. CASE Len(values) = 1
  <2>1. Config!Answer(c, values) =
          settings[c][Config!UlnLibrary(c, values[1])]["receiveUlnConfig"]
    BY <1>5, CallsFacts DEF Config!Answer
  <2>. QED BY <1>3, <1>5, <2>1 DEF SettingsOK, ReadsOf, Config!Kinds
<1>6. CASE Len(values) = 2
  <2>1. Config!Answer(c, values) = Config!Active(c, "send")
    BY <1>6, CallsFacts DEF Config!Answer
  <2>. QED BY <1>2, <1>6, <2>1 DEF Config!Directions
<1>7. CASE Len(values) = 3
  <2>1. Config!Answer(c, values) =
          settings[c][Config!UlnLibrary(c, values[3])]["sendUlnConfig"]
    BY <1>7, CallsFacts DEF Config!Answer
  <2>. QED BY <1>3, <1>7, <2>1 DEF SettingsOK, ReadsOf, Config!Kinds
<1>8. CASE Len(values) = 4
  <2>1. Config!Answer(c, values) = settings[c][values[3]]["sendExecutorConfig"]
    BY <1>8, CallsFacts DEF Config!Answer
  <2>. QED BY <1>8, <2>1 DEF SettingsOK, ReadsOf, Config!Kinds
<1>. QED BY <1>4, <1>5, <1>6, <1>7, <1>8

LEMMA ReadKeeps ==
  ASSUME ConfigInv, NEW c \in Config!Connections, Config!Read(c)
  PROVE  ConfigInv'
<1>. DEFINE answer == Config!Answer(c, reads[c])
            values == reads[c]
            new == Append(values, answer)
<1>1. /\ UNCHANGED <<custom, default, settings, merged, configs, was, held>>
      /\ Len(values) < 5
      /\ reads' = [reads EXCEPT ![c] = new] \/ reads' = reads
  BY CallsFacts DEF Config!Read, Config!chainVars, Config!history
<1>2. LibrariesOK' /\ SettingsOK' /\ AllSound'
  BY <1>1 DEF ConfigInv, LibrariesOK, SettingsOK, AllSound, Sound, Config!Active, Config!Has
<1>3. CASE reads' = reads
  BY <1>1, <1>2, <1>3 DEF ConfigInv, ReadsInForce, ReadsOf
<1>4. CASE reads' = [reads EXCEPT ![c] = new]
  <2>1. IsSequence(values) /\ Len(values) \in 0 .. 4 /\ ReadsOf(c, values)
    BY <1>1 DEF ConfigInv, ReadsInForce
  <2>2. /\ IsSequence(new) /\ Len(new) = Len(values) + 1
        /\ new[Len(values) + 1] = answer
        /\ \A i \in 1 .. Len(values) : new[i] = values[i]
    BY <2>1, AppendFacts
  <2>3. /\ Len(values) = 0 => answer \in Libraries /\ answer \in was[c]["receive"]
        /\ Len(values) = 1 => answer \in
              held[c][Config!UlnLibrary(c, values[1])]["receiveUlnConfig"]
        /\ Len(values) = 2 => answer \in Libraries /\ answer \in was[c]["send"]
        /\ Len(values) = 3 => answer \in
              held[c][Config!UlnLibrary(c, values[3])]["sendUlnConfig"]
        /\ Len(values) = 4 => answer \in held[c][values[3]]["sendExecutorConfig"]
    BY <2>1, AnswerFacts DEF ConfigInv
  <2>. HIDE DEF answer, new
  <2>4. ReadsOf(c, new)
    <3>1. CASE Len(values) = 0
      BY <2>2, <2>3, <3>1 DEF ReadsOf
    <3>2. CASE Len(values) = 1
      BY <2>1, <2>2, <2>3, <3>2 DEF ReadsOf
    <3>3. CASE Len(values) = 2
      BY <2>1, <2>2, <2>3, <3>3 DEF ReadsOf
    <3>4. CASE Len(values) = 3
      BY <2>1, <2>2, <2>3, <3>4 DEF ReadsOf
    <3>5. CASE Len(values) = 4
      BY <2>1, <2>2, <2>3, <3>5 DEF ReadsOf
    <3>. QED BY <2>1, <3>1, <3>2, <3>3, <3>4, <3>5
  <2>5. \A e \in Config!Connections : reads'[e] = IF e = c THEN new ELSE reads[e]
    BY <1>4 DEF ConfigInv, ReadsInForce
  <2>6. /\ DOMAIN reads' = Config!Connections
        /\ reads' = [e \in Config!Connections |-> reads'[e]]
    BY <1>4 DEF ConfigInv, ReadsInForce
  <2>7. \A e \in Config!Connections :
           IsSequence(reads'[e]) /\ Len(reads'[e]) \in 0 .. 5 /\ ReadsOf(e, reads'[e])
    <3>1. Len(new) \in 0 .. 5
      <4>1. Len(values) \in 0 .. 4 /\ Len(new) = Len(values) + 1
        BY <2>1, <2>2
      <4>. QED BY <4>1, OneMore, Zenon
    <3>2. \A e \in Config!Connections :
             IsSequence(reads[e]) /\ Len(reads[e]) \in 0 .. 5 /\ ReadsOf(e, reads[e])
      BY DEF ConfigInv, ReadsInForce
    <3>. HIDE DEF values
    <3>. QED BY <2>2, <2>4, <2>5, <3>1, <3>2, Zenon
  <2>8. ASSUME NEW e \in Config!Connections PROVE ReadsOf(e, reads[e])'
    <3>1. ReadsOf(e, reads'[e])
      BY <2>7
    <3>. QED BY <1>1, <3>1 DEF ReadsOf
  <2>9. ReadsInForce'
    BY <2>6, <2>7, <2>8 DEF ReadsInForce
  <2>. QED BY <1>2, <2>9 DEF ConfigInv
<1>. QED BY <1>1, <1>3, <1>4

\* A merge writes the entry of its connection and keeps those of the others,
\* of the same chain too.
LEMMA MergeKeeps ==
  ASSUME ConfigInv, NEW c \in Config!Connections, Config!Merge(c)
  PROVE  ConfigInv'
<1>. DEFINE entry == Config!Entry(reads[c])
<1>1. /\ UNCHANGED <<custom, default, settings, reads, was, held>>
      /\ configs' = Config!MergeInto(c[1], c[2], entry)
      /\ merged' = merged \cup {c} /\ Len(reads[c]) = 5
  BY CallsFacts DEF Config!Merge, Config!chainVars, Config!history
<1>2. Sound(c, entry)
  <2>1. Len(reads[c]) \in 0 .. 5 /\ ReadsOf(c, reads[c])
    BY <1>1 DEF ConfigInv, ReadsInForce
  <2>. QED BY <1>1, <2>1 DEF Sound, Config!Entry, ReadsOf
<1>. HIDE DEF entry
<1>3. /\ DOMAIN configs' = {c[1]} \cup DOMAIN configs
      /\ c[2] \in DOMAIN configs'[c[1]] /\ configs'[c[1]][c[2]] = entry
      /\ \A f \in DOMAIN configs : DOMAIN configs[f] \subseteq DOMAIN configs'[f]
      /\ \A f \in DOMAIN configs' : \A t \in DOMAIN configs'[f] :
            <<f, t>> # <<c[1], c[2]>> =>
               /\ f \in DOMAIN configs /\ t \in DOMAIN configs[f]
               /\ configs'[f][t] = configs[f][t]
  <2>. DEFINE from == c[1]
              to == c[2]
              old == IF from \in DOMAIN configs THEN configs[from] ELSE <<>>
              inner == Config!Spread(old, to, entry)
              new == Config!Spread(configs, from, inner)
  <2>1. configs' = new
    BY <1>1 DEF Config!MergeInto
  <2>. HIDE DEF from, to
  <2>2. /\ DOMAIN inner = {to} \cup DOMAIN old /\ inner[to] = entry
        /\ \A t \in DOMAIN old : t # to => inner[t] = old[t]
    <3>. HIDE DEF old
    <3>. QED BY DEF Config!Spread
  <2>. HIDE DEF inner
  <2>3. /\ DOMAIN new = {from} \cup DOMAIN configs /\ new[from] = inner
        /\ \A f \in DOMAIN configs : f # from => new[f] = configs[f]
    BY DEF Config!Spread
  <2>. HIDE DEF new
  <2>4. /\ from \in DOMAIN configs => old = configs[from]
        /\ from \notin DOMAIN configs => DOMAIN old = {}
    OBVIOUS
  <2>. HIDE DEF old
  <2>5. /\ DOMAIN configs' = {from} \cup DOMAIN configs
        /\ to \in DOMAIN configs'[from] /\ configs'[from][to] = entry
        /\ \A f \in DOMAIN configs : DOMAIN configs[f] \subseteq DOMAIN configs'[f]
        /\ \A f \in DOMAIN configs' : \A t \in DOMAIN configs'[f] :
              <<f, t>> # <<from, to>> =>
                 /\ f \in DOMAIN configs /\ t \in DOMAIN configs[f]
                 /\ configs'[f][t] = configs[f][t]
    BY <2>1, <2>2, <2>3, <2>4
  <2>. QED BY <2>5 DEF from, to
<1>4. merged' \subseteq {e \in Config!Connections : Config!Has(e)'}
  BY <1>1, <1>3 DEF ConfigInv, AllSound, Config!Has
<1>5. ASSUME NEW e \in Config!Connections, Config!Has(e)'
      PROVE  Sound(e, configs'[e[1]][e[2]])
  <2>1. CASE e = c
    BY <1>2, <1>3, <2>1
  <2>2. CASE e # c
    <3>1. e = <<e[1], e[2]>> /\ c = <<c[1], c[2]>>
      BY PartsAssumption DEF Config!ConfigAssumption
    <3>2. <<e[1], e[2]>> # <<c[1], c[2]>>
      BY <2>2, <3>1
    <3>3. /\ e[1] \in DOMAIN configs /\ e[2] \in DOMAIN configs[e[1]]
          /\ configs'[e[1]][e[2]] = configs[e[1]][e[2]]
      BY <1>3, <1>5, <3>2 DEF Config!Has
    <3>. QED BY <3>3 DEF ConfigInv, AllSound, Config!Has
  <2>. QED BY <2>1, <2>2
<1>6. AllSound'
  BY <1>1, <1>4, <1>5 DEF AllSound, Sound
<1>7. LibrariesOK' /\ SettingsOK' /\ ReadsInForce'
  BY <1>1 DEF ConfigInv, LibrariesOK, SettingsOK, ReadsInForce, ReadsOf, Config!Active
<1>. QED BY <1>6, <1>7 DEF ConfigInv

\* The histories only grow, so that what was in force stays so.
LEMMA HistoryKeeps ==
  ASSUME ConfigInv, UNCHANGED <<reads, merged, configs>>,
         \A e \in Config!Connections, f \in Config!Directions : was[e][f] \subseteq was'[e][f],
         \A e \in Config!Connections, l \in Libraries, k \in Config!Kinds :
            held[e][l][k] \subseteq held'[e][l][k]
  PROVE  ReadsInForce' /\ AllSound'
<1>1. \A e \in Config!Connections, l \in Libraries : Config!UlnLibrary(e, l) \in Libraries
  BY PartsAssumption DEF Config!ConfigAssumption, Config!UlnLibrary
<1>2. ASSUME NEW e \in Config!Connections PROVE ReadsOf(e, reads[e])'
  <2>1. ReadsOf(e, reads[e]) /\ Len(reads[e]) \in 0 .. 5
    BY DEF ConfigInv, ReadsInForce
  <2>. QED BY <1>1, <2>1 DEF ReadsOf, Config!Directions, Config!Kinds
<1>3. ASSUME NEW e \in Config!Connections, NEW entry, Sound(e, entry)
      PROVE  Sound(e, entry)'
  BY <1>1, <1>3 DEF Sound, Config!Directions, Config!Kinds
<1>4. ReadsInForce'
  BY <1>2 DEF ConfigInv, ReadsInForce
<1>5. AllSound'
  BY <1>3 DEF ConfigInv, AllSound, Config!Has
<1>. QED BY <1>4, <1>5

LEMMA RecordFacts ==
  ASSUME Config!Record
  PROVE  /\ \A e \in Config!Connections, f \in Config!Directions :
               was'[e][f] = was[e][f] \cup {Config!Active(e, f)'}
         /\ \A e \in Config!Connections, l \in Libraries, k \in Config!Kinds :
               held'[e][l][k] = held[e][l][k] \cup {settings'[e][l][k]}
<1>1. \A e \in Config!Connections, f \in Config!Directions :
         Config!InForce'[e][f] = Config!Active(e, f)'
  BY DEF Config!InForce
<1>. QED BY <1>1 DEF Config!Record

LEMMA SetLibraryKeeps ==
  ASSUME ConfigInv, NEW c \in Config!Connections, NEW d \in Config!Directions,
         NEW library \in Libraries \cup {None}, Config!SetLibrary(c, d, library)
  PROVE  ConfigInv'
<1>1. /\ UNCHANGED <<settings, reads, merged, configs>>
      /\ \/ custom' = [custom EXCEPT ![c][d] = library] /\ UNCHANGED default
         \/ /\ library # None
            /\ default' = [default EXCEPT ![c][d] = library] /\ UNCHANGED custom
      /\ Config!Record
  BY DEF Config!SetLibrary, Config!TaskRests
<1>2. /\ custom' \in [Config!Connections -> [Config!Directions -> Values]]
      /\ default' \in [Config!Connections -> [Config!Directions -> Libraries]]
  <2>. DEFINE V == Values
  <2>1. /\ custom \in [Config!Connections -> [Config!Directions -> V]]
        /\ default \in [Config!Connections -> [Config!Directions -> Libraries]]
        /\ library \in V /\ (library # None => library \in Libraries)
    BY DEF ConfigInv, LibrariesOK, Values
  <2>. HIDE DEF V
  <2>2. /\ [custom EXCEPT ![c][d] = library]
              \in [Config!Connections -> [Config!Directions -> V]]
        /\ library # None => [default EXCEPT ![c][d] = library]
              \in [Config!Connections -> [Config!Directions -> Libraries]]
    BY <2>1
  <2>. QED BY <1>1, <2>1, <2>2 DEF V
<1>3. LibrariesOK' /\ SettingsOK'
  BY <1>1, <1>2, RecordFacts DEF ConfigInv, LibrariesOK, SettingsOK
<1>4. ReadsInForce' /\ AllSound'
  BY <1>1, RecordFacts, HistoryKeeps
<1>. QED BY <1>3, <1>4 DEF ConfigInv

LEMMA SetKeeps ==
  ASSUME ConfigInv, Config!Record, UNCHANGED <<custom, default>>, Config!TaskRests
  PROVE  ConfigInv'
<1>1. UNCHANGED <<reads, merged, configs>>
  BY DEF Config!TaskRests
<1>2. LibrariesOK' /\ SettingsOK'
  BY RecordFacts DEF ConfigInv, LibrariesOK, SettingsOK
<1>3. ReadsInForce' /\ AllSound'
  BY <1>1, RecordFacts, HistoryKeeps
<1>. QED BY <1>2, <1>3 DEF ConfigInv

LEMMA ConfigStep == ConfigInv /\ [Config!Next]_Config!vars => ConfigInv'
<1>. SUFFICES ASSUME ConfigInv, [Config!Next]_Config!vars
              PROVE  ConfigInv'
  OBVIOUS
<1>1. CASE Config!Return \/ UNCHANGED Config!vars
  <2>1. UNCHANGED <<custom, default, settings, reads, merged, configs, was, held>>
    BY <1>1 DEF Config!Return, Config!vars, Config!chainVars, Config!history
  <2>. QED BY <2>1 DEF ConfigInv, LibrariesOK, SettingsOK, ReadsInForce, ReadsOf, AllSound,
                      Sound, Config!Active, Config!Has
<1>2. ASSUME NEW c, NEW library, NEW kind, NEW value, Config!Set(c, library, kind, value)
      PROVE  ConfigInv'
  BY <1>2, SetKeeps DEF Config!Set
<1>. QED BY <1>1, <1>2, ReadKeeps, MergeKeeps, SetLibraryKeeps DEF Config!Next

LEMMA ConfigInit == Config!Init => ConfigInv
<1>. SUFFICES ASSUME Config!Init
              PROVE  ConfigInv
  OBVIOUS
<1>1. PICK library \in Libraries :
         default = [c \in Config!Connections |-> [d \in Config!Directions |-> library]]
  BY DEF Config!Init
<1>2. /\ custom \in [Config!Connections -> [Config!Directions -> Values]]
      /\ default \in [Config!Connections -> [Config!Directions -> Libraries]]
  BY <1>1 DEF Config!Init, Values
<1>3. \A c \in Config!Connections, d \in Config!Directions :
         Config!Active(c, d) \in was[c][d]
  BY DEF Config!Init, Config!InForce
<1>4. SettingsOK
  BY DEF Config!Init, SettingsOK
<1>5. ReadsInForce
  <2>1. <<>> \in Seq({}) /\ Len(<<>>) = 0
    OBVIOUS
  <2>. QED BY <2>1 DEF Config!Init, ReadsInForce, ReadsOf, IsSequence
<1>6. AllSound
  BY DEF Config!Init, AllSound, Config!Has
<1>. QED BY <1>2, <1>3, <1>4, <1>5, <1>6 DEF ConfigInv, LibrariesOK

\* Functions that run in parallel and share an object lose no entry of each other,
\* and each part of what the task returns was in force at some moment of its run,
\* in its own connection and direction, though not all parts at the same moment
\* (config.get.ts, taskHelper.ts).
THEOREM EntriesAreInForce == Config!Spec => []EntriesWereInForce
<1>1. ConfigInv => EntriesWereInForce
  BY EntriesFollow
<1>. QED BY <1>1, ConfigInit, ConfigStep, PTL DEF Config!Spec

-----------------------------------------------------------------------------
(* The compute budget.  First the numbers made of the fees that a node        *)
(* returned: sums and averages with and without zeros, and medians, which are  *)
(* found by counting.  Then the invariant, which keeps at every step how many  *)
(* simulations failed and what the user answered, what that says of the units  *)
(* once there are some, and from which fees and factor the price was made.     *)

\* The fees up to each of them add up to what SumOf says,
LEMMA SumIs ==
  ASSUME NEW fees \in Seq(Nat)
  PROVE  \E sum : /\ Budget!SumOf(fees) = sum[Len(fees)]
                  /\ sum[0] = 0
                  /\ \A n \in 1 .. Len(fees) : sum[n] = sum[n - 1] + fees[n]
<1>. DEFINE k == Len(fees)
            G == [n \in 1 .. k |-> [x \in Nat |-> x + fees[n]]]
            C == CHOOSE C : C = [n \in 0 .. k |->
                    IF n = 0 THEN 0 ELSE C[n - 1] + fees[n]]
<1>0. k \in Nat /\ \A n \in 1 .. k : fees[n] \in Nat
  OBVIOUS
<1>. HIDE DEF k
<1>1. PICK h : RecursiveTo(0, G, k, h)
  BY <1>0, RecursionTo
<1>2. \A n \in 0 .. k : h[n] \in Nat
  <2>1. G \in [1 .. k -> [Nat -> Nat]]
    BY <1>0
  <2>. HIDE DEF G
  <2>. QED BY <1>0, <1>1, <2>1, RecursionToIn
<1>3. h = [n \in 0 .. k |-> IF n = 0 THEN 0 ELSE h[n - 1] + fees[n]]
  <2>1. h = [n \in 0 .. k |-> IF n = 0 THEN 0 ELSE G[n][h[n - 1]]]
    BY <1>1 DEF RecursiveTo
  <2>2. \A n \in 0 .. k : n # 0 => G[n][h[n - 1]] = h[n - 1] + fees[n]
    <3>1. \A n \in 0 .. k : n # 0 => n - 1 \in 0 .. k /\ n \in 1 .. k
      BY <1>0
    <3>. QED BY <1>2, <3>1
  <2>. HIDE DEF G
  <2>. QED BY <2>1, <2>2
<1>4. C = [n \in 0 .. k |-> IF n = 0 THEN 0 ELSE C[n - 1] + fees[n]]
  BY <1>3
<1>5. Budget!SumOf(fees) = C[k]
  BY DEF Budget!SumOf, k
<1>. HIDE DEF C
<1>6. \A n \in 0 .. k : C[n] = IF n = 0 THEN 0 ELSE C[n - 1] + fees[n]
  BY <1>4
<1>7. \A n \in 1 .. k : n \in 0 .. k /\ n # 0
  BY <1>0
<1>8. 0 \in 0 .. k
  BY <1>0
<1>. QED BY <1>5, <1>6, <1>7, <1>8 DEF k

\* and NonZero keeps those that are not zero.
LEMMA KeptIs ==
  ASSUME NEW fees \in Seq(Nat)
  PROVE  \E kept : /\ Budget!NonZero(fees) = kept[Len(fees)]
                   /\ kept[0] = <<>>
                   /\ \A n \in 1 .. Len(fees) :
                         kept[n] = IF fees[n] = 0 THEN kept[n - 1]
                                   ELSE Append(kept[n - 1], fees[n])
<1>. DEFINE k == Len(fees)
            next(x, n) == IF fees[n] = 0 THEN x ELSE Append(x, fees[n])
            G == [n \in 1 .. k |-> [x \in Seq(Nat) |-> next(x, n)]]
            C == CHOOSE C : C = [n \in 0 .. k |->
                    IF n = 0 THEN <<>>
                    ELSE IF fees[n] = 0 THEN C[n - 1]
                    ELSE Append(C[n - 1], fees[n])]
<1>0. k \in Nat /\ \A n \in 1 .. k : fees[n] \in Nat
  OBVIOUS
<1>. HIDE DEF k
<1>1. PICK h : RecursiveTo(<<>>, G, k, h)
  BY <1>0, RecursionTo
<1>2. \A n \in 0 .. k : h[n] \in Seq(Nat)
  <2>1. \A n \in 1 .. k, x \in Seq(Nat) : next(x, n) \in Seq(Nat)
    BY <1>0
  <2>2. G \in [1 .. k -> [Seq(Nat) -> Seq(Nat)]]
    BY <2>1
  <2>3. <<>> \in Seq(Nat)
    OBVIOUS
  <2>. HIDE DEF G
  <2>. QED BY <1>0, <1>1, <2>2, <2>3, RecursionToIn
<1>3. h = [n \in 0 .. k |-> IF n = 0 THEN <<>> ELSE next(h[n - 1], n)]
  <2>1. h = [n \in 0 .. k |-> IF n = 0 THEN <<>> ELSE G[n][h[n - 1]]]
    BY <1>1 DEF RecursiveTo
  <2>2. \A n \in 0 .. k : n # 0 => G[n][h[n - 1]] = next(h[n - 1], n)
    <3>1. \A n \in 0 .. k : n # 0 => n - 1 \in 0 .. k /\ n \in 1 .. k
      BY <1>0
    <3>. HIDE DEF next
    <3>. QED BY <1>2, <3>1
  <2>. HIDE DEF G, next
  <2>. QED BY <2>1, <2>2
<1>4. C = [n \in 0 .. k |-> IF n = 0 THEN <<>>
                            ELSE IF fees[n] = 0 THEN C[n - 1]
                            ELSE Append(C[n - 1], fees[n])]
  BY <1>3
<1>5. Budget!NonZero(fees) = C[k]
  BY DEF Budget!NonZero, k
<1>. HIDE DEF C
<1>6. \A n \in 0 .. k : C[n] = IF n = 0 THEN <<>>
                               ELSE IF fees[n] = 0 THEN C[n - 1]
                               ELSE Append(C[n - 1], fees[n])
  BY <1>4
<1>7. \A n \in 1 .. k : n \in 0 .. k /\ n # 0
  BY <1>0
<1>8. 0 \in 0 .. k
  BY <1>0
<1>. QED BY <1>5, <1>6, <1>7, <1>8 DEF k

\* One more fee adds to the sum.
LEMMA SumAppends ==
  ASSUME NEW fees \in Seq(Nat), NEW f \in Nat
  PROVE  /\ Budget!SumOf(<<>>) = 0
         /\ Budget!SumOf(Append(fees, f)) = Budget!SumOf(fees) + f
<1>1. Budget!SumOf(<<>>) = 0
  <2>1. <<>> \in Seq(Nat) /\ Len(<<>>) = 0
    OBVIOUS
  <2>2. PICK c : Budget!SumOf(<<>>) = c[Len(<<>>)] /\ c[0] = 0
    BY <2>1, SumIs
  <2>. QED BY <2>1, <2>2
<1>. DEFINE k == Len(fees)
            more == Append(fees, f)
<1>2. /\ more \in Seq(Nat) /\ Len(more) = k + 1 /\ k \in Nat
      /\ more[k + 1] = f /\ \A n \in 1 .. k : more[n] = fees[n]
  OBVIOUS
<1>. HIDE DEF more, k
<1>3. PICK c : /\ Budget!SumOf(fees) = c[k] /\ c[0] = 0
               /\ \A n \in 1 .. k : c[n] = c[n - 1] + fees[n]
  BY SumIs DEF k
<1>4. PICK e : /\ Budget!SumOf(more) = e[k + 1] /\ e[0] = 0
               /\ \A n \in 1 .. k + 1 : e[n] = e[n - 1] + more[n]
  <2>1. \E e : /\ Budget!SumOf(more) = e[Len(more)] /\ e[0] = 0
               /\ \A n \in 1 .. Len(more) : e[n] = e[n - 1] + more[n]
    BY <1>2, SumIs
  <2>. QED BY <1>2, <2>1
<1>. DEFINE P == {n \in Nat : n <= k => e[n] = c[n]}
<1>5. 0 \in P
  BY <1>3, <1>4
<1>6. ASSUME NEW n \in P PROVE n + 1 \in P
  <2>. SUFFICES ASSUME n + 1 <= k PROVE e[n + 1] = c[n + 1]
    OBVIOUS
  <2>1. n + 1 \in 1 .. k /\ n + 1 \in 1 .. k + 1 /\ (n + 1) - 1 = n /\ e[n] = c[n]
    BY <1>2
  <2>. QED BY <1>2, <1>3, <1>4, <2>1
<1>7. P \in SUBSET Nat
  OBVIOUS
<1>. HIDE DEF P
<1>8. P = Nat
  BY <1>5, <1>6, <1>7, AllNat
<1>9. e[k] = c[k]
  BY <1>2, <1>8 DEF P
<1>10. e[k + 1] = e[k] + f
  <2>1. k + 1 \in 1 .. k + 1 /\ (k + 1) - 1 = k
    BY <1>2
  <2>. QED BY <1>2, <1>4, <2>1
<1>. QED BY <1>1, <1>3, <1>4, <1>9, <1>10 DEF more

\* Leaving out the zeros leaves the sum, which no fee exceeds and which is as
\* many at least as there are fees left.
LEMMA FeesFacts ==
  ASSUME NEW fees \in Seq(Nat)
  PROVE  /\ Budget!SumOf(fees) \in Nat
         /\ \A i \in DOMAIN fees : fees[i] <= Budget!SumOf(fees)
         /\ Budget!NonZero(fees) \in Seq(Nat \ {0})
         /\ Len(Budget!NonZero(fees)) <= Len(fees)
         /\ Len(Budget!NonZero(fees)) <= Budget!SumOf(fees)
         /\ Budget!SumOf(Budget!NonZero(fees)) = Budget!SumOf(fees)
         /\ (\E i \in DOMAIN fees : fees[i] # 0) => Budget!NonZero(fees) # <<>>
<1>. DEFINE k == Len(fees)
<1>0. k \in Nat /\ DOMAIN fees = 1 .. k /\ \A n \in 1 .. k : fees[n] \in Nat
  OBVIOUS
<1>. HIDE DEF k
<1>1. PICK c : /\ Budget!SumOf(fees) = c[k] /\ c[0] = 0
               /\ \A n \in 1 .. k : c[n] = c[n - 1] + fees[n]
  BY SumIs DEF k
<1>2. PICK e : /\ Budget!NonZero(fees) = e[k] /\ e[0] = <<>>
               /\ \A n \in 1 .. k : e[n] = IF fees[n] = 0 THEN e[n - 1]
                                           ELSE Append(e[n - 1], fees[n])
  BY KeptIs DEF k
<1>. DEFINE Q(n) == /\ c[n] \in Nat
                    /\ \A i \in 1 .. n : fees[i] <= c[n]
                    /\ e[n] \in Seq(Nat \ {0})
                    /\ Len(e[n]) <= n /\ Len(e[n]) <= c[n]
                    /\ Budget!SumOf(e[n]) = c[n]
                    /\ (\E i \in 1 .. n : fees[i] # 0) => e[n] # <<>>
            P == {n \in Nat : n <= k => Q(n)}
<1>3. 0 \in P
  <2>1. Budget!SumOf(<<>>) = 0
    BY SumAppends
  <2>2. Q(0)
    BY <1>1, <1>2, <2>1
  <2>. QED BY <2>2
<1>4. ASSUME NEW n \in P PROVE n + 1 \in P
  <2>. SUFFICES ASSUME n + 1 <= k PROVE Q(n + 1)
    OBVIOUS
  <2>1. /\ n \in Nat /\ n <= k /\ n + 1 \in 1 .. k /\ (n + 1) - 1 = n
        /\ 1 .. n + 1 = 1 .. n \cup {n + 1} /\ Q(n)
    BY <1>0
  <2>. DEFINE f == fees[n + 1]
  <2>2. /\ f \in Nat /\ c[n + 1] = c[n] + f
        /\ e[n + 1] = IF f = 0 THEN e[n] ELSE Append(e[n], f)
    BY <1>0, <1>1, <1>2, <2>1
  <2>. HIDE DEF f
  <2>3. c[n + 1] \in Nat /\ c[n] <= c[n + 1] /\ f <= c[n + 1]
    BY <2>1, <2>2
  <2>4. ASSUME NEW i \in 1 .. n + 1 PROVE fees[i] <= c[n + 1]
    <3>1. CASE i = n + 1
      BY <2>3, <3>1 DEF f
    <3>2. CASE i \in 1 .. n
      <4>1. fees[i] \in Nat /\ fees[i] <= c[n] /\ c[n] \in Nat
        BY <1>0, <2>1, <3>2
      <4>. QED BY <2>3, <4>1
    <3>. QED BY <2>1, <3>1, <3>2
  <2>5. CASE f = 0
    <3>1. e[n + 1] = e[n] /\ c[n + 1] = c[n]
      BY <2>1, <2>2, <2>5
    <3>2. \A i \in 1 .. n + 1 : fees[i] # 0 => i \in 1 .. n
      BY <2>1, <2>5 DEF f
    <3>3. Len(e[n]) \in Nat
      BY <2>1
    <3>. QED BY <2>1, <2>3, <2>4, <3>1, <3>2, <3>3
  <2>6. CASE f # 0
    <3>1. e[n] \in Seq(Nat) /\ e[n] \in Seq(Nat \ {0}) /\ f \in Nat \ {0}
      BY <2>1, <2>2, <2>6
    <3>2. /\ e[n + 1] = Append(e[n], f)
          /\ Budget!SumOf(Append(e[n], f)) = Budget!SumOf(e[n]) + f
      BY <2>2, <2>6, <3>1, SumAppends
    <3>3. /\ e[n + 1] \in Seq(Nat \ {0}) /\ Len(e[n + 1]) = Len(e[n]) + 1
          /\ e[n + 1] # <<>> /\ Len(e[n]) \in Nat
      <4>. DEFINE s == e[n]
                  T == Nat \ {0}
      <4>1. s \in Seq(T) /\ f \in T
        BY <3>1
      <4>. HIDE DEF s, T
      <4>2. /\ Append(s, f) \in Seq(T) /\ Len(Append(s, f)) = Len(s) + 1
            /\ Append(s, f) # <<>> /\ Len(s) \in Nat
        BY <4>1
      <4>. QED BY <3>2, <4>2 DEF s, T
    <3>4. Len(e[n]) + 1 <= n + 1 /\ Len(e[n]) + 1 <= c[n] + f
      BY <2>1, <3>1, <3>3
    <3>. QED BY <2>1, <2>2, <2>3, <2>4, <3>2, <3>3, <3>4
  <2>. QED BY <2>5, <2>6, <2>2
<1>5. P \in SUBSET Nat
  OBVIOUS
<1>. HIDE DEF P
<1>6. P = Nat
  BY <1>3, <1>4, <1>5, AllNat
<1>7. Q(k)
  <2>1. k \in P
    BY <1>0, <1>6
  <2>. HIDE DEF Q
  <2>. QED BY <1>0, <2>1 DEF P
<1>. QED BY <1>0, <1>1, <1>2, <1>7 DEF k

\* The instance of the module of the budget counts as everybody does.
LEMMA BudgetCounts == \A S : Budget!Cardinality(S) = Cardinality(S)
BY DEF Budget!Cardinality, Cardinality, Budget!IsFiniteSet, IsFiniteSet

\* Dividing by less gives no less, and something if there is enough to divide.
LEMMA QuotientGrows ==
  ASSUME NEW s \in Nat, NEW k \in Nat \ {0}, NEW n \in Nat, k <= n
  PROVE  /\ s \div k \in Nat /\ s \div n \in Nat /\ s \div n <= s \div k
         /\ k <= s => s \div k > 0
<1>. DEFINE q == s \div k
            p == s \div n
<1>1. /\ q \in Nat /\ s < k * (q + 1)
      /\ p \in Nat /\ n * p <= s
  <2>1. \A a \in Nat, b \in Nat \ {0} :
           a \div b \in Nat /\ a < b * ((a \div b) + 1) /\ b * (a \div b) <= a
    OBVIOUS
  <2>. QED BY <2>1
<1>. HIDE DEF q, p
<1>2. ASSUME q < p PROVE FALSE
  <2>1. PICK d \in Nat : p = (q + 1) + d
    <3>1. p - (q + 1) \in Nat /\ p = (q + 1) + (p - (q + 1))
      BY <1>1, <1>2
    <3>. QED BY <3>1
  <2>2. PICK c \in Nat : n = k + c
    <3>1. n - k \in Nat /\ n = k + (n - k)
      OBVIOUS
    <3>. QED BY <3>1
  <2>3. n * p = k * (q + 1) + (k * d + c * p)
    <3>1. n * p = k * p + c * p
      BY <1>1, <2>2
    <3>2. k * p = k * (q + 1) + k * d
      BY <1>1, <2>1
    <3>. QED BY <1>1, <2>1, <2>2, <3>1, <3>2
  <2>4. k * d \in Nat /\ c * p \in Nat /\ k * (q + 1) \in Nat
    BY <1>1
  <2>. QED BY <1>1, <2>3, <2>4
<1>3. k <= s => q # 0
  BY <1>1
<1>. QED BY <1>1, <1>2, <1>3 DEF q, p

\* The average of the fees that were paid is above that of all, and zero only if
\* nobody paid.
LEMMA AverageFacts ==
  ASSUME NEW fees \in Seq(Nat)
  PROVE  /\ Budget!AverageOf(fees) \in Nat
         /\ Budget!AverageExcludingZeros(fees) \in Nat
         /\ Budget!AverageOf(fees) <= Budget!AverageExcludingZeros(fees)
         /\ (\E i \in DOMAIN fees : fees[i] # 0) =>
               Budget!AverageExcludingZeros(fees) > 0
<1>. DEFINE s    == Budget!SumOf(fees)
            paid == Budget!NonZero(fees)
            n    == Len(fees)
            k    == Len(paid)
<1>1. /\ s \in Nat /\ paid \in Seq(Nat \ {0}) /\ k <= n /\ k <= s
      /\ Budget!SumOf(paid) = s
      /\ (\E i \in DOMAIN fees : fees[i] # 0) => paid # <<>>
  BY FeesFacts
<1>2. /\ n \in Nat /\ (fees = <<>> <=> n = 0)
      /\ k \in Nat /\ (paid = <<>> <=> k = 0)
  <2>1. \A T, q : q \in Seq(T) => Len(q) \in Nat /\ (q = <<>> <=> Len(q) = 0)
    OBVIOUS
  <2>. HIDE DEF paid
  <2>. QED BY <1>1, <2>1
<1>3. /\ Budget!AverageOf(fees) = IF n = 0 THEN 0 ELSE s \div n
      /\ Budget!AverageExcludingZeros(fees) = IF k = 0 THEN 0 ELSE s \div k
  BY <1>1, <1>2 DEF Budget!AverageExcludingZeros, Budget!AverageOf
<1>4. k = 0 => s = 0
  BY <1>1, <1>2, SumAppends
<1>. HIDE DEF s, paid, n, k
<1>5. CASE k = 0
  <2>1. n # 0 => 0 \div n = 0
    BY <1>2
  <2>. QED BY <1>1, <1>2, <1>3, <1>4, <1>5, <2>1
<1>6. CASE k # 0
  <2>1. /\ s \div k \in Nat /\ s \div n \in Nat /\ s \div n <= s \div k
        /\ s \div k > 0
    BY <1>1, <1>2, <1>6, QuotientGrows
  <2>. QED BY <1>1, <1>2, <1>3, <1>6, <2>1
<1>. QED BY <1>5, <1>6

\* How many fees are at most or at least m.
LEMMA CountFacts ==
  ASSUME NEW fees \in Seq(Nat)
  PROVE  /\ Cardinality(DOMAIN fees) = Len(fees)
         /\ \A m, p \in Nat :
               /\ Cardinality(Budget!AtMost(fees, m)) \in Nat
               /\ Cardinality(Budget!AtLeast(fees, m)) \in Nat
               /\ m <= p => /\ Cardinality(Budget!AtMost(fees, m))
                                 <= Cardinality(Budget!AtMost(fees, p))
                            /\ Cardinality(Budget!AtLeast(fees, p))
                                 <= Cardinality(Budget!AtLeast(fees, m))
               /\ Cardinality(Budget!AtMost(fees, m))
                    + Cardinality(Budget!AtLeast(fees, m + 1)) = Len(fees)
<1>. DEFINE D == DOMAIN fees
<1>1. D = 1 .. Len(fees) /\ Len(fees) \in Nat /\ \A i \in D : fees[i] \in Nat
  OBVIOUS
<1>2. IsFiniteSet(D) /\ Cardinality(D) = Len(fees)
  <2>1. \A n \in Nat : IsFiniteSet(1 .. n) /\ Cardinality(1 .. n) = n
    BY FS_Interval
  <2>. HIDE DEF D
  <2>. QED BY <1>1, <2>1
<1>3. \A T \in SUBSET D : /\ IsFiniteSet(T) /\ Cardinality(T) \in Nat
                          /\ \A S \in SUBSET T : Cardinality(S) <= Cardinality(T)
  BY <1>2, FS_Subset, FS_CardinalityType
<1>4. ASSUME NEW m \in Nat, NEW p \in Nat
      PROVE  /\ Cardinality(Budget!AtMost(fees, m)) \in Nat
             /\ Cardinality(Budget!AtLeast(fees, m)) \in Nat
             /\ m <= p => /\ Cardinality(Budget!AtMost(fees, m))
                               <= Cardinality(Budget!AtMost(fees, p))
                          /\ Cardinality(Budget!AtLeast(fees, p))
                               <= Cardinality(Budget!AtLeast(fees, m))
             /\ Cardinality(Budget!AtMost(fees, m))
                  + Cardinality(Budget!AtLeast(fees, m + 1)) = Len(fees)
  <2>. DEFINE low  == Budget!AtMost(fees, m)
              high == Budget!AtLeast(fees, m + 1)
  <2>1. /\ low \in SUBSET D /\ Budget!AtLeast(fees, m) \in SUBSET D
        /\ high \in SUBSET D
        /\ Budget!AtMost(fees, p) \in SUBSET D
    BY DEF Budget!AtMost, Budget!AtLeast
  <2>2. m <= p => /\ low \subseteq Budget!AtMost(fees, p)
                  /\ Budget!AtLeast(fees, p) \subseteq Budget!AtLeast(fees, m)
    BY <1>1 DEF Budget!AtMost, Budget!AtLeast
  <2>3. low \cup high = D /\ low \cap high = {}
    BY <1>1 DEF Budget!AtMost, Budget!AtLeast
  <2>. HIDE DEF low, high, D
  <2>4. Cardinality(D) = Cardinality(low) + Cardinality(high) - Cardinality({})
    BY <1>3, <2>1, <2>3, FS_Union
  <2>5. Cardinality({}) = 0 /\ Cardinality(low) \in Nat /\ Cardinality(high) \in Nat
    BY <1>3, <2>1, FS_EmptySet
  <2>6. Cardinality(low) + Cardinality(high) = Len(fees)
    BY <1>2, <2>4, <2>5
  <2>. QED BY <1>3, <2>1, <2>2, <2>6 DEF low, high
<1>. QED BY <1>2, <1>4

\* Every place has a fee when the fees are sorted.
LEMMA SortedFacts ==
  ASSUME NEW fees \in Seq(Nat), NEW k \in 1 .. Len(fees)
  PROVE  /\ Budget!SortedAt(fees, k) \in Nat
         /\ Cardinality(Budget!AtMost(fees, Budget!SortedAt(fees, k))) >= k
         /\ Cardinality(Budget!AtLeast(fees, Budget!SortedAt(fees, k))) > Len(fees) - k
<1>. DEFINE low(m)  == Cardinality(Budget!AtMost(fees, m))
            high(m) == Cardinality(Budget!AtLeast(fees, m))
            n       == Len(fees)
            T       == {m \in Nat : low(m) >= k}
<1>1. /\ n \in Nat /\ k \in Nat /\ k >= 1 /\ k <= n
      /\ \A i \in DOMAIN fees : fees[i] \in Nat
  OBVIOUS
<1>2. \A m, p \in Nat : /\ low(m) \in Nat /\ high(m) \in Nat
                        /\ m <= p => low(m) <= low(p)
                        /\ low(m) + high(m + 1) = n
  BY CountFacts
<1>3. T # {}
  <2>. DEFINE s == Budget!SumOf(fees)
  <2>1. s \in Nat /\ Budget!AtMost(fees, s) = DOMAIN fees
    BY FeesFacts DEF Budget!AtMost
  <2>2. low(s) = n
    BY <2>1, CountFacts
  <2>3. s \in T
    BY <1>1, <2>1, <2>2
  <2>. QED BY <2>3
<1>. HIDE DEF low, high, n
<1>4. PICK m \in T : \A p \in T : m <= p
  <2>1. T \in SUBSET Nat
    OBVIOUS
  <2>. HIDE DEF T
  <2>. QED BY <1>3, <2>1, LeastNat
<1>5. m \in Nat /\ low(m) >= k
  OBVIOUS
<1>6. m # 0 => low(m - 1) < k
  <2>. SUFFICES ASSUME m # 0 PROVE low(m - 1) < k
    OBVIOUS
  <2>1. m - 1 \in Nat /\ ~(m <= m - 1)
    BY <1>5
  <2>2. low(m - 1) \in Nat
    BY <1>2, <2>1
  <2>. QED BY <1>1, <1>4, <2>1, <2>2
<1>7. high(m) > n - k
  <2>1. CASE m = 0
    <3>1. Budget!AtLeast(fees, 0) = DOMAIN fees
      <4>1. \A i \in DOMAIN fees : fees[i] >= 0
        BY <1>1
      <4>. QED BY <4>1 DEF Budget!AtLeast
    <3>2. high(0) = n
      BY <3>1, CountFacts DEF high, n
    <3>. QED BY <1>1, <2>1, <3>2
  <2>2. CASE m # 0
    <3>1. m - 1 \in Nat /\ (m - 1) + 1 = m
      BY <1>5, <2>2
    <3>2. low(m - 1) + high(m) = n /\ low(m - 1) \in Nat /\ high(m) \in Nat
      BY <1>2, <1>5, <3>1
    <3>. QED BY <1>1, <1>6, <2>2, <3>2
  <2>. QED BY <2>1, <2>2
<1>8. \E i \in DOMAIN fees : fees[i] = m
  <2>. SUFFICES ASSUME \A i \in DOMAIN fees : fees[i] # m PROVE FALSE
    OBVIOUS
  <2>1. m # 0 => low(m) = low(m - 1)
    <3>1. m # 0 => Budget!AtMost(fees, m) = Budget!AtMost(fees, m - 1)
      BY <1>1, <1>5 DEF Budget!AtMost
    <3>. QED BY <3>1 DEF low
  <2>2. m = 0 => low(m) = 0
    <3>1. m = 0 => Budget!AtMost(fees, m) = {}
      BY <1>1 DEF Budget!AtMost
    <3>. QED BY <3>1, FS_EmptySet DEF low
  <2>3. m # 0 => low(m) < k
    BY <1>6, <2>1
  <2>4. low(m) \in Nat
    BY <1>2, <1>5
  <2>. QED BY <1>1, <1>5, <2>2, <2>3, <2>4
<1>9. \E p \in {fees[i] : i \in DOMAIN fees} :
         /\ Cardinality(Budget!AtMost(fees, p)) >= k
         /\ Cardinality(Budget!AtLeast(fees, p)) > Len(fees) - k
  BY <1>5, <1>7, <1>8 DEF low, high, n
<1>10. /\ Budget!SortedAt(fees, k) \in {fees[i] : i \in DOMAIN fees}
       /\ Cardinality(Budget!AtMost(fees, Budget!SortedAt(fees, k))) >= k
       /\ Cardinality(Budget!AtLeast(fees, Budget!SortedAt(fees, k))) > Len(fees) - k
  BY <1>9, BudgetCounts DEF Budget!SortedAt
<1>. QED BY <1>1, <1>10

\* What is reported as the median halves the fees.
LEMMA MedianFacts ==
  ASSUME NEW fees \in Seq(Nat), fees # <<>>
  PROVE  Budget!IsMedian(Budget!MedianOf(fees), fees)
<1>. DEFINE low(m)  == Cardinality(Budget!AtMost(fees, m))
            high(m) == Cardinality(Budget!AtLeast(fees, m))
            at(k)   == Budget!SortedAt(fees, k)
            n       == Len(fees)
            mid     == n \div 2
<1>1. n \in Nat /\ n # 0
  OBVIOUS
<1>2. \A m, p \in Nat : /\ low(m) \in Nat /\ high(m) \in Nat
                        /\ m <= p => low(m) <= low(p) /\ high(p) <= high(m)
                        /\ low(m) + high(m + 1) = n
  BY CountFacts
<1>3. \A k \in 1 .. n : at(k) \in Nat /\ low(at(k)) >= k /\ high(at(k)) > n - k
  BY SortedFacts
<1>4. Budget!MedianOf(fees) =
        IF n % 2 = 1 THEN at(mid + 1) ELSE (at(mid) + at(mid + 1)) \div 2
  BY DEF Budget!MedianOf
<1>. HIDE DEF low, high, at, n
<1>5. /\ mid \in Nat /\ mid + 1 \in Nat
      /\ n % 2 = 1 => n = 2 * mid + 1
      /\ n % 2 # 1 => n = 2 * mid /\ mid \in 1 .. n /\ mid + 1 \in 1 .. n
      /\ n % 2 = 1 => mid + 1 \in 1 .. n
  BY <1>1
<1>. DEFINE M == Budget!MedianOf(fees)
<1>. HIDE DEF mid
<1>6. CASE n % 2 = 1
  <2>1. M = at(mid + 1)
    BY <1>4, <1>6
  <2>2. M \in Nat /\ low(M) >= mid + 1 /\ high(M) > n - (mid + 1)
    BY <1>3, <1>5, <1>6, <2>1
  <2>. HIDE DEF M
  <2>3. low(M) \in Nat /\ high(M) \in Nat
    BY <1>2, <2>2
  <2>4. 2 * low(M) >= n /\ 2 * high(M) >= n
    BY <1>1, <1>5, <1>6, <2>2, <2>3
  <2>. QED BY <2>4, BudgetCounts DEF Budget!IsMedian, low, high, n, M
<1>7. CASE n % 2 # 1
  <2>. DEFINE a == at(mid)
              b == at(mid + 1)
  <2>1. M = (a + b) \div 2
    BY <1>4, <1>7
  <2>2. /\ a \in Nat /\ low(a) >= mid /\ high(a) > n - mid
        /\ b \in Nat /\ low(b) >= mid + 1 /\ high(b) > n - (mid + 1)
    BY <1>3, <1>5, <1>7
  <2>. HIDE DEF M, a, b
  <2>3. a <= b
    <3>. SUFFICES ASSUME b + 1 <= a PROVE FALSE
      BY <2>2
    <3>1. b + 1 \in Nat /\ high(a) <= high(b + 1) /\ low(b) + high(b + 1) = n
      BY <1>2, <2>2
    <3>2. high(a) \in Nat /\ high(b + 1) \in Nat /\ low(b) \in Nat
      BY <1>2, <2>2, <3>1
    <3>. QED BY <1>1, <1>5, <2>2, <3>1, <3>2
  <2>4. M \in Nat /\ a <= M /\ M <= b
    BY <2>1, <2>2, <2>3
  <2>5. low(a) <= low(M) /\ high(b) <= high(M)
    BY <1>2, <2>2, <2>4
  <2>6. low(M) \in Nat /\ high(M) \in Nat /\ low(a) \in Nat /\ high(b) \in Nat
    BY <1>2, <2>2, <2>4
  <2>7. 2 * low(M) >= n /\ 2 * high(M) >= n
    BY <1>1, <1>5, <1>7, <2>2, <2>5, <2>6
  <2>. QED BY <2>7, BudgetCounts DEF Budget!IsMedian, low, high, n, M
<1>. QED BY <1>6, <1>7


Explained ==
    \/ source = "simulation" /\ attempts < Budget!NumOfAttempts
    \/ source = "estimate" /\ consent = TRUE /\ attempts = Budget!NumOfAttempts

BudgetInv ==
    /\ attempts \in Nat
    /\ step \in {"start", "fees", "simulate"} => attempts < Budget!NumOfAttempts
    /\ step = "prompt" => attempts = Budget!NumOfAttempts
    /\ step = "estimate" => attempts = Budget!NumOfAttempts /\ consent = TRUE
    /\ step \in {"fees", "simulate", "prompt", "estimate"} =>
          request.type \in DOMAIN Estimates
    /\ step = "build" \/ Budget!Built => units \in Nat \ {0} /\ Explained
    /\ Budget!Built => budget.limit = Budget!Limit(units)

FeesInv ==
    /\ recent \in {None} \cup RecentFees
    /\ step \in {"fees", "simulate", "prompt", "estimate", "build"} =>
          request.scale \in ScaleFactors
    /\ Budget!Built => /\ request.scale \in ScaleFactors
                       /\ budget.price = Budget!Price(request.scale)

\* The reserve of a tenth, rounded down.
LEMMA LimitFacts ==
  ASSUME NEW used \in Nat \ {0}
  PROVE  /\ Budget!Limit(used) >= used /\ Budget!Limit(used) > 0
         /\ used >= 10 => Budget!Limit(used) > used
BY DEF Budget!Limit

LEMMA BudgetStep == BudgetInv /\ [Budget!Next]_Budget!vars => BudgetInv'
<1>. SUFFICES ASSUME BudgetInv, [Budget!Next]_Budget!vars
              PROVE  BudgetInv'
  OBVIOUS
<1>. USE DEF Budget!NumOfAttempts
<1>1. ASSUME NEW eid \in Eids, NEW type \in DOMAIN Estimates, NEW scale \in ScaleFactors,
             Budget!GetAddressLookupTable(eid, type, scale)
      PROVE  BudgetInv'
  <2>1. /\ request'.type = type /\ step' \in {"fees", "failed"} /\ step = "start"
        /\ attempts' = attempts
    BY <1>1 DEF Budget!GetAddressLookupTable
  <2>. QED BY <2>1 DEF BudgetInv, Budget!Built
<1>2. ASSUME NEW fees, Budget!GetRecentPrioritizationFees(fees)
      PROVE  BudgetInv'
  BY <1>2 DEF Budget!GetRecentPrioritizationFees, BudgetInv, Budget!Built
<1>3. ASSUME NEW used \in UsedUnits, Budget!Simulated(used)
      PROVE  BudgetInv'
  <2>1. used \in Nat
    BY PartsAssumption DEF Budget!BudgetAssumption
  <2>. QED BY <1>3, <2>1 DEF Budget!Simulated, BudgetInv, Budget!Built, Explained
<1>4. CASE Budget!SimulationFailed
  BY <1>4 DEF Budget!SimulationFailed, Budget!AfterFailure, BudgetInv, Budget!Built
<1>5. ASSUME NEW answer \in BOOLEAN, Budget!PromptToContinue(answer)
      PROVE  BudgetInv'
  <2>1. /\ step = "prompt" /\ attempts' = attempts /\ request' = request
        /\ consent' = answer /\ step' = IF answer THEN "estimate" ELSE "failed"
    BY <1>5 DEF Budget!PromptToContinue
  <2>2. CASE answer = TRUE
    BY <2>1, <2>2 DEF BudgetInv, Budget!Built
  <2>3. CASE answer = FALSE
    BY <2>1, <2>3 DEF BudgetInv, Budget!Built
  <2>. QED BY <2>2, <2>3
<1>6. CASE Budget!UseEstimate
  <2>1. /\ step = "estimate" /\ units' = Estimates[request.type] /\ source' = "estimate"
        /\ step' = "build" /\ UNCHANGED <<attempts, consent>>
    BY <1>6 DEF Budget!UseEstimate
  <2>2. units' \in Nat \ {0}
    BY <2>1, PartsAssumption DEF Budget!BudgetAssumption, BudgetInv
  <2>. QED BY <2>1, <2>2 DEF BudgetInv, Budget!Built, Explained
<1>7. CASE Budget!AddComputeUnitInstructions
  <2>1. /\ step = "build" /\ step' = "built"
        /\ budget'.limit = Budget!Limit(units)
        /\ UNCHANGED <<attempts, units, source, consent>>
    BY <1>7 DEF Budget!AddComputeUnitInstructions
  <2>2. Budget!Limit(units)' = Budget!Limit(units)
    BY <2>1 DEF Budget!Limit
  <2>. QED BY <2>1, <2>2 DEF BudgetInv, Explained
<1>8. ASSUME NEW wanted, NEW price, Budget!RetryPayload(wanted, price)
      PROVE  BudgetInv'
  <2>1. /\ step' = "built" /\ request'.type = "RetryPayload" /\ attempts' = attempts
    BY <1>8 DEF Budget!RetryPayload
  <2>. QED BY <2>1 DEF BudgetInv, Budget!Built
<1>9. CASE UNCHANGED Budget!vars
  BY <1>9 DEF Budget!vars, BudgetInv, Budget!Built, Budget!Limit, Explained
<1>. QED BY <1>1, <1>2, <1>3, <1>4, <1>5, <1>6, <1>7, <1>8, <1>9 DEF Budget!Next

\* A step that does not build a budget keeps the fees and the factor, or takes
\* both from where the tools get them.
LEMMA FeesKept ==
  ASSUME FeesInv, step' # "built", recent' \in {None, recent} \cup RecentFees,
         \/ request' = request /\ step' = "failed"
         \/ /\ request' = request
            /\ step \in {"fees", "simulate", "prompt", "estimate", "build"}
         \/ request'.scale \in ScaleFactors
  PROVE  FeesInv'
<1>1. recent' \in {None} \cup RecentFees
  BY DEF FeesInv
<1>2. step' \in {"fees", "simulate", "prompt", "estimate", "build"} =>
         request'.scale \in ScaleFactors
  BY DEF FeesInv
<1>. QED BY <1>1, <1>2 DEF FeesInv, Budget!Built

LEMMA FeesStep == FeesInv /\ [Budget!Next]_Budget!vars => FeesInv'
<1>. SUFFICES ASSUME FeesInv, [Budget!Next]_Budget!vars
              PROVE  FeesInv'
  OBVIOUS
<1>1. ASSUME NEW eid \in Eids, NEW type \in DOMAIN Estimates,
             NEW scale \in ScaleFactors,
             Budget!GetAddressLookupTable(eid, type, scale)
      PROVE  FeesInv'
  <2>1. /\ request'.scale = scale /\ recent' = recent
        /\ step' \in {"fees", "failed"}
    BY <1>1 DEF Budget!GetAddressLookupTable
  <2>. QED BY <2>1, FeesKept
<1>2. ASSUME NEW fees \in {None} \cup RecentFees,
             Budget!GetRecentPrioritizationFees(fees)
      PROVE  FeesInv'
  <2>1. /\ step = "fees" /\ recent' = fees /\ step' = "simulate"
        /\ request' = request
    BY <1>2 DEF Budget!GetRecentPrioritizationFees
  <2>. QED BY <2>1, FeesKept
<1>3. CASE \/ \E used \in UsedUnits : Budget!Simulated(used)
           \/ Budget!SimulationFailed \/ Budget!UseEstimate
           \/ \E answer \in BOOLEAN : Budget!PromptToContinue(answer)
  <2>1. /\ request' = request /\ recent' = recent
        /\ step \in {"simulate", "prompt", "estimate"} /\ step' # "built"
    BY <1>3 DEF Budget!Simulated, Budget!SimulationFailed, Budget!AfterFailure,
                Budget!UseEstimate, Budget!PromptToContinue
  <2>. QED BY <2>1, FeesKept
<1>4. CASE Budget!AddComputeUnitInstructions
  <2>1. /\ step = "build" /\ step' = "built"
        /\ request' = request /\ recent' = recent
        /\ budget'.price = Budget!Price(request.scale)
    BY <1>4 DEF Budget!AddComputeUnitInstructions
  <2>2. Budget!Price(request.scale)' = Budget!Price(request.scale)
    BY <2>1 DEF Budget!Price
  <2>. QED BY <2>1, <2>2 DEF FeesInv, Budget!Built
<1>5. ASSUME NEW wanted, NEW price, Budget!RetryPayload(wanted, price)
      PROVE  FeesInv'
  <2>1. /\ step' = "built" /\ request'.type = "RetryPayload" /\ recent' = recent
    BY <1>5 DEF Budget!RetryPayload
  <2>. QED BY <2>1 DEF FeesInv, Budget!Built
<1>6. CASE UNCHANGED Budget!vars
  <2>1. UNCHANGED <<step, request, recent, budget>>
    BY <1>6 DEF Budget!vars
  <2>2. Budget!Price(request.scale)' = Budget!Price(request.scale)
    BY <2>1 DEF Budget!Price
  <2>. QED BY <2>1, <2>2 DEF FeesInv, Budget!Built
<1>. QED BY <1>1, <1>2, <1>3, <1>4, <1>5, <1>6 DEF Budget!Next

LEMMA BudgetInvariant == Budget!Spec => [](BudgetInv /\ FeesInv)
<1>1. Budget!Init => BudgetInv /\ FeesInv
  BY DEF Budget!Init, BudgetInv, FeesInv, Budget!Built, Budget!NumOfAttempts
<1>. QED BY <1>1, BudgetStep, FeesStep, PTL DEF Budget!Spec

\* The median that is reported halves the fees that were paid.
LEMMA FeesFollow == FeesInv => Budget!FeesAreMedian
<1>. SUFFICES ASSUME FeesInv, recent # None, Budget!NonZero(recent) # <<>>
              PROVE  Budget!IsMedian(Budget!GetFee(recent).median,
                                     Budget!NonZero(recent))
  BY DEF Budget!FeesAreMedian
<1>. DEFINE paid == Budget!NonZero(recent)
<1>1. recent \in Seq(Nat)
  BY PartsAssumption DEF FeesInv, Budget!BudgetAssumption
<1>2. paid \in Seq(Nat \ {0})
  BY <1>1, FeesFacts
<1>3. paid \in Seq(Nat)
  <2>1. \A q \in Seq(Nat \ {0}) : q \in Seq(Nat)
    OBVIOUS
  <2>. HIDE DEF paid
  <2>. QED BY <1>2, <2>1
<1>4. Budget!GetFee(recent).median = Budget!MedianOf(paid)
  BY DEF Budget!GetFee
<1>. QED BY <1>3, <1>4, MedianFacts

\* Whoever scales by one or more outbids the average slot.
LEMMA PriceFollows == FeesInv => Budget!PriceOutbidsAverage
<1>. SUFFICES ASSUME FeesInv, Budget!Built, recent # None,
                     request.scale.num >= request.scale.den
              PROVE  /\ budget.price >= Budget!AverageOf(recent)
                     /\ (\E i \in DOMAIN recent : recent[i] # 0) =>
                           budget.price > 0
  BY DEF Budget!PriceOutbidsAverage
<1>. DEFINE whole == request.scale.num \div request.scale.den
            paid == Budget!AverageExcludingZeros(recent)
<1>1. recent \in Seq(Nat)
  BY PartsAssumption DEF FeesInv, Budget!BudgetAssumption
<1>2. /\ request.scale \in ScaleFactors
      /\ budget.price = Budget!Price(request.scale)
  BY DEF FeesInv
<1>3. whole \in Nat \ {0}
  <2>1. request.scale.num \in Nat /\ request.scale.den \in Nat \ {0}
    BY <1>2, PartsAssumption DEF Budget!BudgetAssumption
  <2>2. \A a \in Nat, b \in Nat \ {0} : a >= b => a \div b \in Nat \ {0}
    OBVIOUS
  <2>. QED BY <2>1, <2>2
<1>4. budget.price = paid * whole
  BY <1>2 DEF Budget!Price, Budget!GetFee
<1>5. /\ Budget!AverageOf(recent) \in Nat /\ paid \in Nat
      /\ Budget!AverageOf(recent) <= paid
      /\ (\E i \in DOMAIN recent : recent[i] # 0) => paid > 0
  BY <1>1, AverageFacts
<1>6. \A a \in Nat, b \in Nat \ {0} : a * b >= a /\ a * b \in Nat
  OBVIOUS
<1>. HIDE DEF whole, paid
<1>7. budget.price >= paid /\ budget.price \in Nat
  BY <1>3, <1>4, <1>5, <1>6
<1>. QED BY <1>5, <1>7

\* A budget that is built suffices: an estimate replaces a simulation only after
\* three of them failed and the user agreed; the limit covers what was simulated
\* or estimated, with a reserve from ten units on; the price outbids the average
\* slot, whatever fees the node returned, and the median is one
\* (addComputeUnitInstructions, getFee.ts).
THEOREM BudgetsSuffice == Budget!Spec => []BudgetSuffices
<1>1. BudgetInv => Budget!EstimateNeedsConsent
  BY DEF BudgetInv, Explained, Budget!EstimateNeedsConsent
<1>2. BudgetInv => Budget!LimitCoversUse
  BY LimitFacts DEF BudgetInv, Budget!LimitCoversUse
<1>3. BudgetInv /\ FeesInv => BudgetSuffices
  BY <1>1, <1>2, FeesFollow, PriceFollows
     DEF BudgetSuffices, Budget!BudgetSuffices
<1>. QED BY <1>3, BudgetInvariant, PTL

-----------------------------------------------------------------------------
(* The composition.  The parts share no state: a step of one is a step that   *)
(* every other part does not notice.                                          *)

LEMMA StepOfAPart ==
  ASSUME [AnyNext]_allVars
  PROVE  /\ [Next]_vars /\ [Budget!Next]_Budget!vars /\ [Config!Next]_Config!vars
         /\ [Upgrade!Next]_Upgrade!vars /\ [Data!Next]_Data!vars
<1>1. /\ UNCHANGED budgetVars => UNCHANGED Budget!vars
      /\ UNCHANGED configVars => UNCHANGED Config!vars
      /\ UNCHANGED upgradeVars => UNCHANGED Upgrade!vars
      /\ UNCHANGED dataVars => UNCHANGED Data!vars
  BY DEF budgetVars, Budget!vars, configVars, Config!vars, Config!chainVars,
         Config!history, upgradeVars, Upgrade!vars, Upgrade!chainVars, dataVars, Data!vars
<1>2. UNCHANGED allVars => UNCHANGED <<vars, budgetVars, configVars, upgradeVars, dataVars>>
  BY DEF allVars
<1>. QED BY <1>1, <1>2 DEF AnyNext

\* What module Tooling composes is each of its parts.
THEOREM ToolingIsItsParts ==
  AnySpec => Spec /\ Budget!Spec /\ Config!Spec /\ Upgrade!Spec /\ Data!Spec
<1>1. AnyInit => Init /\ Budget!Init /\ Config!Init /\ Upgrade!Init /\ Data!Init
  BY DEF AnyInit
<1>. QED BY <1>1, StepOfAPart, PTL
         DEF AnySpec, Spec, Budget!Spec, Config!Spec, Upgrade!Spec, Data!Spec

\* The tools keep, side by side, what each of them promises: the send task's
\* answers are true and its amounts as typed, budgets suffice, each part of a
\* configuration was in force, metadata that was renounced is final and updates
\* write what they were given (tasks/).
THEOREM ToolsKeepTheirPromises ==
  AnySpec => /\ []SuccessMeansSent /\ []QuotingErrorMeansUnsent
             /\ []AmountsAsTyped
             /\ []BudgetSuffices /\ []EntriesWereInForce
             /\ []RenouncedIsFinal /\ UpdatesWhatIsGiven
BY ToolingIsItsParts, SuccessIsTrue, QuotingErrorIsTrue, AmountsAreAsTyped,
   BudgetsSuffice, EntriesAreInForce, RenouncingIsFinal,
   UpdatesAreExact, PTL
=============================================================================
