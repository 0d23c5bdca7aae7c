------------------------------- MODULE MCWiring -------------------------------
(* One pathway of layerzero.config.ts. *)
EXTENDS Wiring

MCPathways ==
    SelectSeq(LayerZeroPathways, LAMBDA p : {p[1], p[2]} = {"SEPOLIA", "SOLANA"})
=============================================================================
