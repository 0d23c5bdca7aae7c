-------------------------------- MODULE AlloOFT --------------------------------
(***************************************************************************)
(* AlloOFTUpgradeable on several EVM chains, and the two bridges that       *)
(* change its supply.  LayerZero burns on one chain and mints on another,   *)
(* in shared units.  The ICS-20 proxy burns what leaves for Cosmos and mints *)
(* what comes from there, while Cosmos keeps the tokens in escrow; a        *)
(* transfer that times out is minted back by the proxy that burnt it.       *)
(*                                                                          *)
(* External: OFTUpgradeable and ERC20Upgradeable, which the contract        *)
(* inherits, the proxies, and Cosmos.                                       *)
(***************************************************************************)
EXTENDS Naturals, FiniteSetsExt

CONSTANTS
    Chains,         \* EVM chains with an AlloOFTUpgradeable
    Users,          \* holders of tokens
    Owner,          \* owner of the contracts
    Proxies,        \* contracts that act as ICS-20 proxy
    FirstProxy,     \* the one initialize is given
    ConversionRate, \* local units in a shared unit: 10^(decimals - sharedDecimals)
    Amounts,        \* local amounts users move
    MaxTransfers,   \* bound: transfers over either bridge, in all
    MaxRotations    \* bound: calls of setICS20Proxy

AlloAssumption ==
    /\ IsFiniteSet(Chains) /\ IsFiniteSet(Users)
    /\ FirstProxy \in Proxies
    /\ ConversionRate \in Nat \ {0}
    /\ Amounts \subseteq Nat \ {0}
    /\ MaxTransfers \in Nat /\ MaxRotations \in Nat

VARIABLES
    ics20Proxy,     \* of the contract on each chain
    balances,       \* ERC-20 balances
    messages,       \* LayerZero messages sent and not received
    withdrawals,    \* burnt for Cosmos, neither acknowledged nor timed out
    deposits,       \* escrowed on Cosmos, not yet received
    escrowed,       \* what Cosmos holds for all EVM chains
    transfers,      \* number of transfers over either bridge so far, names them
    rotations       \* calls of setICS20Proxy so far

alloVars == <<ics20Proxy, balances, messages, withdrawals, deposits, escrowed,
              transfers, rotations>>

\* initialize, on every chain; the supply starts empty.
Init ==
    /\ ics20Proxy = [chain \in Chains |-> FirstProxy]
    /\ balances = [chain \in Chains |-> [user \in Users |-> 0]]
    /\ messages = {} /\ withdrawals = {} /\ deposits = {}
    /\ escrowed = 0 /\ transfers = 0 /\ rotations = 0

OnlySupplyAdmin(caller, chain) == caller = ics20Proxy[chain]

Credit(chain, user, amount) ==
    balances' = [balances EXCEPT ![chain][user] = @ + amount]

Debit(chain, user, amount) ==
    /\ balances[chain][user] >= amount
    /\ balances' = [balances EXCEPT ![chain][user] = @ - amount]

Mint(caller, chain, user, amount) ==
    OnlySupplyAdmin(caller, chain) /\ Credit(chain, user, amount)

Burn(caller, chain, user, amount) ==
    OnlySupplyAdmin(caller, chain) /\ Debit(chain, user, amount)

SetICS20Proxy(caller, chain, proxy) ==
    /\ rotations < MaxRotations
    /\ caller = Owner
    /\ ics20Proxy' = [ics20Proxy EXCEPT ![chain] = proxy]
    /\ rotations' = rotations + 1
    /\ UNCHANGED <<balances, messages, withdrawals, deposits, escrowed, transfers>>

NewTransfer == transfers < MaxTransfers /\ transfers' = transfers + 1

-----------------------------------------------------------------------------
(* LayerZero.                                                              *)

\* _debitView: an amount without dust.
AmountSent(amount) == (amount \div ConversionRate) * ConversionRate

Send(src, dst, user, amount) ==
    /\ NewTransfer
    /\ Debit(src, user, AmountSent(amount))
    /\ messages' = messages \cup
          {[id |-> transfers', dst |-> dst, user |-> user,
            amount_sd |-> amount \div ConversionRate]}
    /\ UNCHANGED <<ics20Proxy, withdrawals, deposits, escrowed, rotations>>

LzReceive(message) ==
    /\ messages' = messages \ {message}
    /\ Credit(message.dst, message.user, message.amount_sd * ConversionRate)
    /\ UNCHANGED <<ics20Proxy, withdrawals, deposits, escrowed, transfers, rotations>>

-----------------------------------------------------------------------------
(* ICS-20.                                                                 *)

\* A user withdraws to Cosmos through a proxy.
Withdraw(proxy, chain, user, amount) ==
    /\ NewTransfer
    /\ Burn(proxy, chain, user, amount)
    /\ withdrawals' = withdrawals \cup
          {[id |-> transfers', chain |-> chain, user |-> user, amount |-> amount,
            proxy |-> proxy]}
    /\ UNCHANGED <<ics20Proxy, messages, deposits, escrowed, rotations>>

Acknowledge(withdrawal) ==
    /\ withdrawals' = withdrawals \ {withdrawal}
    /\ escrowed' = escrowed - withdrawal.amount
    /\ UNCHANGED <<ics20Proxy, balances, messages, deposits, transfers, rotations>>

Refund(withdrawal) ==
    /\ Mint(withdrawal.proxy, withdrawal.chain, withdrawal.user, withdrawal.amount)
    /\ withdrawals' = withdrawals \ {withdrawal}
    /\ UNCHANGED <<ics20Proxy, messages, deposits, escrowed, transfers, rotations>>

\* Cosmos escrows tokens for a chain, whose proxy is to mint them.
Deposit(chain, user, amount, proxy) ==
    /\ NewTransfer
    /\ escrowed' = escrowed + amount
    /\ deposits' = deposits \cup
          {[id |-> transfers', chain |-> chain, user |-> user, amount |-> amount,
            proxy |-> proxy]}
    /\ UNCHANGED <<ics20Proxy, balances, messages, withdrawals, rotations>>

Receive(deposit) ==
    /\ Mint(deposit.proxy, deposit.chain, deposit.user, deposit.amount)
    /\ deposits' = deposits \ {deposit}
    /\ UNCHANGED <<ics20Proxy, messages, withdrawals, escrowed, transfers, rotations>>

\* The mint reverts, or the deposit timed out: Cosmos gives the tokens back.
Return(deposit) ==
    /\ deposits' = deposits \ {deposit}
    /\ escrowed' = escrowed - deposit.amount
    /\ UNCHANGED <<ics20Proxy, balances, messages, withdrawals, transfers, rotations>>

Administration ==
    \E caller \in Users \cup {Owner}, chain \in Chains, proxy \in Proxies :
        SetICS20Proxy(caller, chain, proxy)

Bridging ==
    \/ \E src, dst \in Chains, user \in Users, amount \in Amounts :
          src # dst /\ Send(src, dst, user, amount)
    \/ \E message \in messages : LzReceive(message)
    \/ \E chain \in Chains, user \in Users, amount \in Amounts, proxy \in Proxies :
          Withdraw(proxy, chain, user, amount) \/ Deposit(chain, user, amount, proxy)
    \/ \E w \in withdrawals : Acknowledge(w) \/ Refund(w)
    \/ \E d \in deposits : Receive(d) \/ Return(d)

Next == Administration \/ Bridging

Spec == Init /\ [][Next]_alloVars

-----------------------------------------------------------------------------
Supply(chain) == MapThenSumSet(LAMBDA user : balances[chain][user], Users)

\* What the EVM side can claim from Cosmos, now or when what is under way
\* has arrived or was given back.
Claims ==
    MapThenSumSet(Supply, Chains)
      + MapThenSumSet(LAMBDA m : m.amount_sd * ConversionRate, messages)
      + MapThenSumSet(LAMBDA w : w.amount, withdrawals)
      + MapThenSumSet(LAMBDA d : d.amount, deposits)
=============================================================================
