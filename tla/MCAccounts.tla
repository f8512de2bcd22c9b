----------------------------- MODULE MCAccounts -----------------------------
(* Small files of user records for TLC.                                      *)
EXTENDS Accounts, TLC

CONSTANTS a, b, c, al, bo, ce, da

Rec(u, l, t) == [userid |-> u, level |-> l, lastlogin |-> t]

(* ce runs the site; al was here yesterday, bo not for months.               *)
Start == <<Rec(ce, 1, 1), Rec(al, 0, 1), Rec(bo, 0, 0)>>

Role(uses, types, until) == [uses |-> uses, types |-> types, until |-> until]

(* Two want the name da, one that of bo, who comes back.                     *)
Registrations ==
  Role(a :> {"register"} @@ b :> {"register"} @@ c :> {"login"},
       a :> {da} @@ b :> {da, bo} @@ c :> {bo}, 2)

(* Two sessions of al, and an administrator.                                 *)
Levels ==
  Role(a :> {"login", "write", "define", "info", "offline", "leave"}
       @@ b :> {"login", "write"} @@ c :> {"login", "level", "edit", "accept"},
       a :> {al} @@ b :> {al} @@ c :> {ce, al}, 1)

(* An account is taken away, and its name and record are given anew.         *)
Deletions ==
  Role(a :> {"login", "write", "thesis", "leave"} @@ b :> {"register", "leave"}
       @@ c :> {"login", "delete"},
       a :> {al} @@ b :> {al} @@ c :> {ce, al}, 1)

(* The administrator gives bo the name that somebody registers.              *)
Renames ==
  Role(a :> {"login", "write"} @@ b :> {"register"} @@ c :> {"login", "rename"},
       a :> {bo} @@ b :> {bo, da} @@ c :> {ce, bo, da}, 1)

(* Names are changed while the purge has the list read again.                *)
RenamesAtPurge ==
  Role(a :> {"register"} @@ b :> {} @@ c :> {"login", "rename"},
       a :> {da} @@ b :> {} @@ c :> {ce, bo}, 2)

(* One administrator deletes the account that another one renames.           *)
TwoAdmins ==
  Role(a :> {"login", "delete"} @@ b :> {} @@ c :> {"login", "rename"},
       a :> {ce, al} @@ b :> {} @@ c :> {ce, al, da}, 1)

(* Two register the name of an account that is being deleted.                *)
NameAnew ==
  Role(a :> {"register"} @@ b :> {"register"} @@ c :> {"login", "delete"},
       a :> {al} @@ b :> {al, da} @@ c :> {ce, al}, 1)

MCRoles == {Registrations, Levels, Deletions, Renames, RenamesAtPurge, TwoAdmins,
            NameAnew}
=============================================================================
