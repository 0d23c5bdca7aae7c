------------------------------- MODULE Omnichain -------------------------------
(***************************************************************************)
(* The bridge as a whole: OFTProgram on Solana, AlloOFTUpgradeable on the   *)
(* EVM chains, and Cosmos behind them.  A message is under way from the     *)
(* moment the sender's tokens are burnt until the receiver's are minted.    *)
(***************************************************************************)
EXTENDS OFTProgram, FiniteSetsExt

CONSTANTS
    Chains, Users, Owner, Proxies, FirstProxy, ConversionRate, Amounts,
    MaxTransfers, MaxRotations,
    ContractOf      \* address of the AlloOFTUpgradeable of each chain; those in
                    \* Eids have a pathway to Solana

VARIABLES
    ics20Proxy, balances, messages, withdrawals, deposits, escrowed, transfers,
    rotations,
    received        \* guids of the packets from Solana that were received

Evm == INSTANCE AlloOFT

ASSUME OmnichainAssumption ==
    /\ Evm!AlloAssumption
    /\ Eids \subseteq Chains
    /\ ContractOf \in [Chains -> Addresses]

evmVars == <<ics20Proxy, balances, messages, withdrawals, deposits, escrowed,
             transfers, rotations, received>>
omniVars == <<vars, evmVars>>

OmniInit == Init /\ Evm!Init /\ received = {}

\* OFTUpgradeable.send, to the store on Solana.
SendToSolana(chain, user, amount) ==
    /\ chain \in Eids
    /\ Evm!NewTransfer
    /\ Evm!Debit(chain, user, Evm!AmountSent(amount))
    /\ EndpointVerify(chain, ContractOf[chain], amount \div ConversionRate, FALSE)
    /\ UNCHANGED <<ics20Proxy, messages, withdrawals, deposits, escrowed,
                   rotations, received>>

\* OFTUpgradeable's lzReceive, of a packet the program sent.
ReceiveFromSolana(packet, user) ==
    /\ packet.guid \notin received
    /\ packet.receiver = ContractOf[packet.dst_eid]
    /\ Evm!Credit(packet.dst_eid, user, packet.amount_sd * ConversionRate)
    /\ received' = received \cup {packet.guid}
    /\ UNCHANGED <<vars, ics20Proxy, messages, withdrawals, deposits, escrowed,
                   transfers, rotations>>

OmniNext ==
    \/ Administration /\ UNCHANGED evmVars
    \/ Traffic /\ UNCHANGED evmVars
    \/ /\ \E t \in (now + 1) .. MaxTime, fee \in TransferFeeChoices : Tick(t, fee)
       /\ UNCHANGED evmVars
    \/ Evm!Next /\ UNCHANGED <<vars, received>>
    \/ \E chain \in Chains, user \in Users, amount \in Amounts :
          SendToSolana(chain, user, amount)
    \/ \E packet \in outbound, user \in Users : ReceiveFromSolana(packet, user)

OmniSpec == OmniInit /\ [][OmniNext]_omniVars

-----------------------------------------------------------------------------
(* In units so small that every chain's smallest amount is a whole number.  *)

EvmUnits(amount) == amount * Rate
SolanaUnits(amount_ld) == amount_ld * ConversionRate
SharedUnits(amount_sd) == amount_sd * Rate * ConversionRate

SumOf(amount(_), things) == MapThenSumSet(amount, things)

UnderWay ==
    EvmUnits(Evm!Claims - SumOf(Evm!Supply, Chains))
      + SharedUnits(SumOf(LAMBDA p : p.amount_sd, verified))
      + SharedUnits(SumOf(LAMBDA p : p.amount_sd,
                          {p \in outbound : p.guid \notin received}))

Ledger == INSTANCE OmniLedger WITH
    backing <- EvmUnits(escrowed),
    evm <- EvmUnits(SumOf(Evm!Supply, Chains)),
    solana <- SolanaUnits(Supply),
    underway <- UnderWay

\* The three chains together keep the ledger that OmniLedger describes, in
\* spite of two roundings, fees, dust, transfer fees of the token, packets that
\* arrive late, and proxies that are replaced.
BridgeKeepsLedger == Ledger!Spec
=============================================================================
