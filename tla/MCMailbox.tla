----------------------------- MODULE MCMailbox ------------------------------
(* A small mailbox for TLC: three mails, one of them read and one marked.    *)
EXTENDS Mailbox, TLC

CONSTANTS a, b, c

Rec(n, r, m) == [file |-> n, read |-> r, marked |-> m]
Start == <<Rec(1, TRUE, FALSE), Rec(2, FALSE, FALSE), Rec(3, FALSE, TRUE)>>

(* The owner is in once, while others send; the line may break.              *)
Alone == a :> {"list", "read", "mark", "delete", "hangup"} @@ b :> {"send"} @@ c :> {}
Cutting == a :> {"list", "delete", "range", "hangup"} @@ b :> {"send"} @@ c :> {}
NewMail == a :> {"list", "range", "new", "hangup"} @@ b :> {"send"} @@ c :> {"send"}

(* A POP3 session, which may be killed, is alone; then another one comes.    *)
PopAlone == a :> {"pop", "hangup"} @@ b :> {"send"} @@ c :> {"send"}

(* A session of the BBS and one of POP3 at once.                             *)
ListAndPop == a :> {"list", "delete"} @@ b :> {"pop"} @@ c :> {}
NewAndPop == a :> {"new"} @@ b :> {"pop"} @@ c :> {}

(* Two sessions of the BBS, and two of POP3.                                 *)
TwoLists == a :> {"list", "delete", "range"} @@ b :> {"list", "range"} @@ c :> {"send"}
ListAndNew == a :> {"list", "delete"} @@ b :> {"new"} @@ c :> {}
TwoPops == a :> {"pop"} @@ b :> {"pop"} @@ c :> {"send"}

MCRoles == {Alone, Cutting, NewMail, PopAlone, ListAndPop, NewAndPop, TwoLists,
            ListAndNew, TwoPops}
=============================================================================
