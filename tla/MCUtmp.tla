------------------------------- MODULE MCUtmp -------------------------------
(* Small lists of users for TLC: processes p1, p2, ... log in as alice or as *)
(* the sysop root.                                                           *)
EXTENDS Utmp, TLC

CONSTANTS p1, p2, p3, p4, alice, root

ThreeSessions == p1 :> alice @@ p2 :> alice @@ p3 :> alice @@ p4 :> root
Alices == Permutations({p1, p2, p3})
=============================================================================
