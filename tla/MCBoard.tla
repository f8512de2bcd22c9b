------------------------------ MODULE MCBoard -------------------------------
(* Small boards for TLC: alice and bob are readers, max manages the board.   *)
(* Each run gives the sessions a, b and m the commands it is about.          *)
EXTENDS Board, TLC

CONSTANTS a, b, m, alice, bob, max

LoginAM  == a :> alice @@ m :> max
LoginABM == a :> alice @@ b :> bob @@ m :> max

(* A reader with a bad line and the manager, who works in the digest too,    *)
(* both rewrite headers.                                                     *)
KeepUses == a :> {"post", "title", "hangup"} @@ m :> {"delete", "digest", "mark", "view"}

(* Everyone may post and delete, nobody rewrites headers.                    *)
DeleteUses == a :> {"post", "delete", "hangup"} @@ b :> {"post", "delete"}
              @@ m :> {"delete", "cross", "hangup"}

(* Headers of deleted articles are removed, by the manager's session only,   *)
(* one by one or as a range, while a reader posts, now or a second later;    *)
(* the manager's session may end in the middle.                             *)
RemoveUses == a :> {"post"} @@ m :> {"post", "delete", "mark", "range", "hangup"}

(* What the repository's documents say and the code does not do.             *)
TwoDeletersUses == a :> {"post", "delete"} @@ m :> {"delete"}
=============================================================================
