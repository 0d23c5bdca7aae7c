------------------------------ MODULE MCMintSetup ------------------------------
(* Two operators; one mint exists beforehand.                                *)
EXTENDS MintSetup

CONSTANTS none, alice, bob, token

MCMinterLists == {none, {}, {alice}}
MCFirstAuthorities ==
    {[mint_authority |-> Key(alice), freeze_authority |-> none],
     [mint_authority |-> Key(bob), freeze_authority |-> Key(bob)],
     [mint_authority |-> Key(bob), freeze_authority |-> Key(alice)]}

MCFreezeAuthorities == {none, alice}
=============================================================================
