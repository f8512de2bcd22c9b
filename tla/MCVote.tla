------------------------------- MODULE MCVote -------------------------------
(* A board with one or two polls for TLC.  Sessions a and b are of one        *)
(* account.  A session that may do nothing is of somebody who stays in the    *)
(* menu; in all roles but the last somebody goes on to log in.               *)
EXTENDS Vote, TLC

CONSTANTS a, b, c, ann, cat, none

MCUser == a :> ann @@ b :> ann @@ c :> cat
MCFirstLogin == ann :> 1 @@ cat :> 1

Does(x, y, z, n) == [may |-> a :> x @@ b :> y @@ c :> z, open |-> n]

Logs == {"login"}
TwoVoters == Does({"vote"}, {"vote"}, Logs, 1)
VoterAndSweep == Does({"vote"}, Logs, {}, 2)
VoterTwoSweeps == Does({"vote"}, Logs, Logs, 1)
TwoSweeps == Does(Logs, Logs, {}, 2)
EarlyAndDrop == Does({"early"}, {"drop"}, Logs, 1)
OpenAndDrop == Does({"open"}, {"drop"}, Logs, 1)
DropCutShort == Does({"drop", "killed"}, Logs, {}, 2)
SweepCutShort == Does({"login", "killed"}, Logs, {}, 1)
VotersCutShort == Does({"vote"}, {"early", "killed"}, {"vote"}, 1)

MCRoles == {TwoVoters, VoterAndSweep, VoterTwoSweeps, TwoSweeps, EarlyAndDrop,
            OpenAndDrop, DropCutShort, SweepCutShort, VotersCutShort}
=============================================================================
