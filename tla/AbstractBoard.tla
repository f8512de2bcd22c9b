---------------------------- MODULE AbstractBoard ----------------------------
(***************************************************************************)
(* What a discussion board with KEEP_DELETED_HEADER promises its users: the *)
(* articles are numbered in the order they were posted, a number belongs to *)
(* the same article for ever, and an article may be withdrawn, once and for *)
(* good, by its author or by a manager of the board.                        *)
(***************************************************************************)
EXTENDS Naturals, Sequences

CONSTANTS User, Manager

VARIABLES
  authors,     \* authors[i]: who wrote article number i
  withdrawn    \* the numbers of the articles taken back

Init == authors = <<>> /\ withdrawn = {}

Post(u) == authors' = Append(authors, u) /\ UNCHANGED withdrawn

Withdraw(u, i) ==
  /\ u = authors[i] \/ u \in Manager
  /\ withdrawn' = withdrawn \cup {i}
  /\ UNCHANGED authors

Next == \E u \in User : Post(u) \/ \E i \in 1..Len(authors) : Withdraw(u, i)

Spec == Init /\ [][Next]_<<authors, withdrawn>>
=============================================================================
