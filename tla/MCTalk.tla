------------------------------- MODULE MCTalk -------------------------------
(* Three users, or two of whom one has two sessions, for TLC.                *)
EXTENDS Talk, TLC

CONSTANTS ann, ben, cat, none

MCLogins == {1 :> ann @@ 2 :> ben @@ 3 :> cat, 1 :> ann @@ 2 :> ben @@ 3 :> ben}
=============================================================================
