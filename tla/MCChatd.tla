------------------------------ MODULE MCChatd -------------------------------
(* Small conference halls for TLC.  c1, c2 and c3 are members; root is a     *)
(* sysop; out comes from a remote host and guest has no permission at all.   *)
EXTENDS Chatd, TLC

CONSTANTS c1, c2, c3, root, out, guest, n1, n2, n3

(* Members of the same standing and chat ids are interchangeable.            *)
Members == Permutations({c1, c2}) \cup Permutations({n1, n2})
=============================================================================
