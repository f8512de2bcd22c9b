----------------------------- MODULE MCMessage ------------------------------
(* A few sessions for TLC.                                                   *)
EXTENDS Message, TLC

CONSTANTS a, b, c, alice, bob, carol

Accounts == a :> alice @@ b :> bob @@ c :> carol
=============================================================================
