------------------------------ MODULE OmniLedger ------------------------------
(***************************************************************************)
(* What the whole bridge promises: a ledger of the tokens that Cosmos has   *)
(* escrowed.  Each is in circulation on the EVM chains, in circulation on   *)
(* Solana, or under way.  Tokens move between the two only by way of being  *)
(* under way, and enter and leave the ledger there.                         *)
(***************************************************************************)
EXTENDS Integers

VARIABLES backing, evm, solana, underway

ledgerVars == <<backing, evm, solana, underway>>

Init == backing = 0 /\ evm = 0 /\ solana = 0 /\ underway = 0

\* Cosmos escrows tokens, or releases tokens that were on their way back.
Settle ==
    /\ underway' \in Nat
    /\ backing' = backing + (underway' - underway)
    /\ UNCHANGED <<evm, solana>>

\* Tokens leave a place or reach it.
CrossEvm ==
    /\ underway' \in Nat /\ evm' \in Nat
    /\ evm' + underway' = evm + underway
    /\ UNCHANGED <<backing, solana>>

CrossSolana ==
    /\ underway' \in Nat /\ solana' \in Nat
    /\ solana' + underway' = solana + underway
    /\ UNCHANGED <<backing, evm>>

Next == Settle \/ CrossEvm \/ CrossSolana

Spec == Init /\ [][Next]_ledgerVars

LedgerTypeOK ==
    backing \in Nat /\ evm \in Nat /\ solana \in Nat /\ underway \in Nat

\* Nothing circulates that is not backed, and nothing is lost.
Conserved == backing = evm + solana + underway
=============================================================================
