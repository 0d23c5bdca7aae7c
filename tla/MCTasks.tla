-------------------------------- MODULE MCTasks --------------------------------
(* A small instance of the tooling.  Base 2: one digit of the fraction is    *)
(* shared, one is dust, one cut off.  Every answer of up to four fees.  Two   *)
(* connections from one EVM chain, and one from Solana.                      *)
EXTENDS Tooling

CONSTANT hex

T(w, f) == [whole |-> w, fraction |-> f]

MCTexts == {T(1, <<>>), T(1, <<0, 1>>), T(0, <<1, 0, 1>>), T(1, <<1, 0, 0>>),
            T(0, <<0, 1, 1>>)}
MCMinTexts == {None, T(0, <<1>>)}

MCRecentFees == UNION {[1 .. n -> {0, 1, 2, 7}] : n \in 0 .. 4}
MCEstimates == [SetAuthority |-> 8, SendOFT |-> 23]

S(num, den) == [num |-> num, den |-> den]
MCScaleFactors == {S(1, 1), S(4, 1), S(3, 2), S(1, 2)}

MCGraph == << <<"SEPOLIA", "SOLANA">>, <<"SOLANA", "SEPOLIA">>, <<"SEPOLIA", "BASE">> >>
=============================================================================
