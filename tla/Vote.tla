-------------------------------- MODULE Vote --------------------------------
(***************************************************************************)
(* The polls of one board: the list vote/<board>/control, and for each poll *)
(* the file flag.<opendate> with a ballot per account that voted.  Users    *)
(* vote from the list; managers open polls, close them early (O) or drop    *)
(* them (D).  Who logs in when brdshm->pollvote is over closes every poll   *)
(* that has expired: he counts its ballots, writes the file "results" of    *)
(* the board, posts it twice, and removes the ballots and the poll.         *)
(*                                                                         *)
(* A command names a poll by its number; currvote is the poll that was read *)
(* last, and keeps its value where get_record finds no such record.  A poll *)
(* is its opendate; that two are opened on a board in the same second is    *)
(* left out.  A missing file reads like an empty one.  delete_record holds  *)
(* flock on .dellock and goes by way of .tmpfile; nothing else is locked.   *)
(***************************************************************************)
EXTENDS FiniteSets, RecordFile

CONSTANTS
  Session,      \* sessions, one after another in the place of one process
  Account,      \* accounts
  NoAccount,    \* the name in a record of zeroes
  User,         \* whose each session is
  FirstLogin,   \* the first poll that an account is old enough for
  Roles,        \* what each session may do, and the polls open at the start
  MaxPoll       \* bound: polls

Poll == 1..MaxPoll

ASSUME VoteAssumption ==
  /\ MaxPoll \in Nat
  /\ \A r \in Roles : r.open \in 0..MaxPoll /\ DOMAIN r.may = Session
  /\ NoAccount \notin Account
  /\ User \in [Session -> Account] /\ FirstLogin \in [Account -> Nat \ {0}]

VARIABLES
  control,      \* the list of polls
  tmpfile,      \* .tmpfile beside it
  dellock,      \* who holds flock on .dellock
  flag,         \* flag.<opendate>: who voted
  results,      \* the file results: a poll and its ballots
  posted,       \* announcements, on the board "vote" and on the board itself
  voteflag,     \* VOTE_FLAG of the board
  due,          \* now >= brdshm->pollvote
  expired,      \* polls whose days are over
  last,         \* the last poll, open or being written
  role,         \* chosen at the start
  pc,           \* where a session is
  currvote,     \* the poll it read last
  at,           \* range of its list (0 outside), the number it works on, the
                \* position of its ballot, and whether b_closepolls runs
  tally,        \* what count_result counted
  opened,       \* history: polls that were in the list
  told,         \* history: who was told that his ballot is in the box
  late,         \* history: of those, the ones cast while the poll was closed,
                \* or after that in a poll that is torn
  mixed,        \* history: two sessions wrote or posted results at once
  astray,       \* history: polls that went because numbers were out of date,
                \* or were opened while a copy of the list was under way
  stale,        \* history: sessions whose number may mean another poll
  unmarked,     \* history: the mark was taken off while a poll was opened
  dropped,      \* history: polls that D was answered for
  torn          \* history: polls whose ballots were unlinked while somebody
                \* was about to write his at the place he had found

list == <<control, tmpfile, dellock>>
files == <<flag, results, posted, voteflag>>
clock == <<due, expired, last, role>>
local == <<pc, currvote, at, tally>>
history == <<opened, told, late, mixed, astray, stale, unmarked, dropped, torn>>
vars == <<list, files, clock, local, history>>

NoTmp == [exists |-> FALSE, recs |-> <<>>]
NoTally == [poll |-> 0, ballots |-> <<>>]
Nowhere == [range |-> 0, num |-> 0, pos |-> 0, sweep |-> FALSE]

Writing == {"count", "write", "postvote", "postown"}
Removing == {"unlink", "copy"}
Swapping == {"away", "in"}

Polls(f) == {f[i] : i \in 1..Len(f)}

TypeOK ==
  /\ control \in Seq(Poll) /\ dellock \subseteq Session
  /\ tmpfile \in [exists : BOOLEAN, recs : Seq(Poll)]
  /\ flag \in [{0} \cup Poll -> Seq(Account \cup {NoAccount})]
  /\ results.poll \in {0} \cup Poll /\ voteflag \in BOOLEAN
  /\ due \in BOOLEAN /\ expired \subseteq Poll /\ last \in 0..MaxPoll
  /\ role \in Roles
  /\ pc \in [Session -> {"out", "menu", "none", "list", "box", "cast", "edit", "append",
                         "early", "drop", "sweep", "recount", "unmark"}
                        \cup Writing \cup Removing \cup Swapping]
  /\ currvote \in [Session -> {0} \cup Poll]
  /\ at \in [Session -> [range : Nat, num : Nat, pos : Nat, sweep : BOOLEAN]]
  /\ \A s \in Session : tally[s] = <<>> \/ pc[s] = "write"
  /\ dellock = {s \in Session : pc[s] \in Swapping}
  /\ Cardinality(dellock) <= 1

May(s, c) == c \in role.may[s]

(* Who may log in is out at first, the others came before.                    *)
Init ==
  /\ role \in Roles
  /\ control = [i \in 1..role.open |-> i]
  /\ tmpfile = NoTmp /\ dellock = {}
  /\ flag = [p \in {0} \cup Poll |-> <<>>] /\ results = NoTally /\ posted = {}
  /\ voteflag = (role.open > 0)
  /\ due = FALSE /\ expired = {} /\ last = role.open
  /\ pc = [s \in Session |-> IF May(s, "login") THEN "out" ELSE "menu"]
  /\ currvote = [s \in Session |-> 0]
  /\ at = [s \in Session |-> Nowhere] /\ tally = [s \in Session |-> <<>>]
  /\ opened = Polls(control) /\ told = {} /\ late = {} /\ mixed = FALSE
  /\ astray = {} /\ stale = {} /\ unmarked = FALSE /\ dropped = {} /\ torn = {}

-----------------------------------------------------------------------------
Goto(s, label) == pc' = [pc EXCEPT ![s] = label]

(* get_record(controlfile, &currvote, num)                                   *)
ReadPoll(s, n) ==
  /\ currvote' = [currvote EXCEPT ![s] = IF n \in 1..Len(control) THEN control[n] ELSE @]
  /\ stale' = IF n \in 1..Len(control) THEN stale \ {s} ELSE stale \cup {s}

(* now > opendate + maxdays; so it is also while nothing was read.           *)
Closes(p) == p = 0 \/ p \in expired

(* The sessions that count, post or remove p.                                *)
Closing(s, p) == currvote[s] = p /\ pc[s] \in Writing \cup Removing \cup Swapping

(* The session is about to write its ballot where it found an earlier one.    *)
Overwrites(s, p) == currvote[s] = p /\ pc[s] = "cast" /\ at[s].pos > 0

(* Positions of the ballots of a; search_record with cmpvuid: the first.      *)
BallotsOf(p, a) == {i \in 1..Len(flag[p]) : flag[p][i] = a}

SearchBallot(p, a) ==
  IF BallotsOf(p, a) = {} THEN 0
  ELSE CHOOSE i \in BallotsOf(p, a) : \A j \in BallotsOf(p, a) : i <= j

(* The polls that are open, those included that a copy will bring back.      *)
Open == Polls(control) \cup Polls(tmpfile.recs)

(* The list is empty only because a copy is under way, or a poll is about to  *)
(* be put in it.                                                            *)
Hidden == tmpfile.recs # <<>> \/ \E q \in Session : pc[q] = "append"

-----------------------------------------------------------------------------
(* The list of polls (b_vote) and a vote (user_vote)                         *)

(* Where nothing is open, the user is told so and presses return.            *)
EnterList(s) ==
  /\ pc[s] = "menu" /\ role.may[s] \cap {"vote", "early", "drop"} # {}
  /\ Goto(s, IF control = <<>> THEN "none" ELSE "list")
  /\ at' = [at EXCEPT ![s] = [Nowhere EXCEPT !.range = Len(control)]]
  /\ unmarked' = (unmarked \/ (control = <<>> /\ Hidden))
  /\ UNCHANGED <<list, files, clock, currvote, tally, opened, told, late, mixed, astray,
                 stale, dropped, torn>>

NoneOpen(s) ==
  /\ pc[s] = "none"
  /\ voteflag' = FALSE
  /\ Goto(s, "menu")
  /\ UNCHANGED <<list, flag, results, posted, clock, currvote, at, tally, history>>

LeaveList(s) ==
  /\ pc[s] = "list"
  /\ at' = [at EXCEPT ![s] = Nowhere]
  /\ Goto(s, "menu")
  /\ UNCHANGED <<list, files, clock, currvote, tally, history>>

Chooses(s, c, n) == May(s, c) /\ pc[s] = "list" /\ n \in 1..at[s].range

(* Who registered after the poll was opened is not on its list.              *)
UserVote(s, n) ==
  /\ Chooses(s, "vote", n)
  /\ ReadPoll(s, n)
  /\ Goto(s, IF FirstLogin[User[s]] > currvote'[s] THEN "list" ELSE "box")
  /\ UNCHANGED <<list, files, clock, at, tally, opened, told, late, mixed, astray,
                 unmarked, dropped, torn>>

KeepVote(s) ==
  /\ pc[s] = "box"
  /\ Goto(s, "list")
  /\ UNCHANGED <<list, files, clock, currvote, at, tally, history>>

Search(s) ==
  /\ pc[s] = "box"
  /\ at' = [at EXCEPT ![s].pos = SearchBallot(currvote[s], User[s])]
  /\ Goto(s, "cast")
  /\ UNCHANGED <<list, files, clock, currvote, tally, history>>

(* Seeded fault: the new ballot is appended, whatever the search found.       *)
CastAnew(f, a, i) == AppendRecord(f, a)

CastAt(f, a, i) ==
  IF i > 0 THEN SubstituteRecord(f, a, i, NoAccount) ELSE AppendRecord(f, a)

Cast(s) ==
  LET p == currvote[s]
  IN /\ pc[s] = "cast"
     /\ flag' = [flag EXCEPT ![p] = CastAt(flag[p], User[s], at[s].pos)]
     /\ told' = told \cup {<<p, User[s]>>}
     /\ late' = IF p \notin Open \ torn \/ \E q \in Session : Closing(q, p)
                THEN late \cup {<<p, User[s]>>} ELSE late
     /\ at' = [at EXCEPT ![s].pos = 0]
     /\ Goto(s, "list")
     /\ UNCHANGED <<list, results, posted, voteflag, clock, currvote, tally, opened,
                    mixed, astray, stale, unmarked, dropped, torn>>

-----------------------------------------------------------------------------
(* vote_maintain, from the board or from the list                            *)

BackTo(s) == IF at[s].range > 0 THEN "list" ELSE "menu"

EditPoll(s) ==
  /\ May(s, "open") /\ pc[s] \in {"menu", "list"} /\ last < MaxPoll
  /\ last' = last + 1
  /\ currvote' = [currvote EXCEPT ![s] = last + 1]
  /\ Goto(s, "edit")
  /\ UNCHANGED <<list, files, due, expired, role, at, tally, history>>

AbandonPoll(s) ==
  /\ pc[s] = "edit"
  /\ Goto(s, BackTo(s))
  /\ UNCHANGED <<list, files, clock, currvote, at, tally, history>>

(* setvoteflag(currboard, 1) goes before append_record.                      *)
MarkBoard(s) ==
  /\ pc[s] = "edit"
  /\ voteflag' = TRUE
  /\ unmarked' = (unmarked \/ \E q \in Session : pc[q] \in {"none", "unmark"})
  /\ Goto(s, "append")
  /\ UNCHANGED <<list, flag, results, posted, clock, currvote, at, tally, opened, told, late,
                 mixed, astray, stale, dropped, torn>>

AppendPoll(s) ==
  LET copiers == {q \in Session : pc[q] \in Swapping}
  IN /\ pc[s] = "append"
     /\ control' = AppendRecord(control, currvote[s])
     /\ opened' = opened \cup {currvote[s]}
     /\ astray' = IF copiers = {} THEN astray ELSE astray \cup {currvote[s]}
     /\ stale' = stale \cup copiers
     /\ at' = [at EXCEPT ![s].range = IF @ > 0 THEN @ + 1 ELSE 0]
     /\ Goto(s, BackTo(s))
     /\ UNCHANGED <<tmpfile, dellock, files, clock, currvote, tally, told, late, mixed,
                    unmarked, dropped, torn>>

-----------------------------------------------------------------------------
(* O and D: the poll is read again by its number, and the user is asked       *)

Ask(s, c, n) ==
  /\ c \in {"early", "drop"} /\ Chooses(s, c, n)
  /\ ReadPoll(s, n)
  /\ at' = [at EXCEPT ![s].num = n]
  /\ Goto(s, c)
  /\ UNCHANGED <<list, files, clock, tally, opened, told, late, mixed, astray, unmarked,
                 dropped, torn>>

Refuse(s) ==
  /\ pc[s] \in {"early", "drop"}
  /\ Goto(s, "list")
  /\ UNCHANGED <<list, files, clock, currvote, at, tally, history>>

CloseEarly(s) ==
  /\ pc[s] = "early"
  /\ Goto(s, "count")
  /\ UNCHANGED <<list, files, clock, currvote, at, tally, history>>

Drop(s) ==
  /\ pc[s] = "drop"
  /\ dropped' = dropped \cup {currvote[s]}
  /\ Goto(s, "unlink")
  /\ UNCHANGED <<list, files, clock, currvote, at, tally, opened, told, late, mixed, astray,
                 stale, unmarked, torn>>

-----------------------------------------------------------------------------
(* b_closepolls, on the way in                                               *)

Login(s) ==
  /\ May(s, "login") /\ pc[s] = "out"
  /\ IF due
     THEN /\ at' = [at EXCEPT ![s] = [Nowhere EXCEPT !.num = Len(control), !.sweep = TRUE]]
          /\ Goto(s, "sweep")
     ELSE Goto(s, "menu") /\ UNCHANGED at
  /\ UNCHANGED <<list, files, clock, currvote, tally, history>>

(* Seeded fault: the polls are looked at from the second on.                 *)
SweepFrom(s) == at[s].num > 1

MoreToSweep(s) == at[s].num >= 1

SweepPoll(s) ==
  /\ pc[s] = "sweep" /\ MoreToSweep(s)
  /\ ReadPoll(s, at[s].num)
  /\ IF Closes(currvote'[s]) THEN Goto(s, "count") /\ UNCHANGED at
     ELSE at' = [at EXCEPT ![s].num = @ - 1] /\ UNCHANGED pc
  /\ UNCHANGED <<list, files, clock, tally, opened, told, late, mixed, astray, unmarked,
                 dropped, torn>>

SweepEnd(s) ==
  /\ pc[s] = "sweep" /\ ~MoreToSweep(s)
  /\ due' = FALSE
  /\ at' = [at EXCEPT ![s] = Nowhere]
  /\ Goto(s, "menu")
  /\ UNCHANGED <<list, files, expired, last, role, currvote, tally, history>>

-----------------------------------------------------------------------------
(* mk_result                                                                 *)

(* Seeded fault: the loop stops before the last ballot.                      *)
CountedButLast(f) == SubSeq(f, 1, Len(f) - 1)

Counted(f) == f

(* The ballots are read; then results is opened, which empties it.           *)
Count(s) ==
  /\ pc[s] = "count"
  /\ tally' = [tally EXCEPT ![s] = Counted(flag[currvote[s]])]
  /\ results' = NoTally
  /\ mixed' = (mixed \/ \E q \in Session : pc[q] \in Writing \ {"count"})
  /\ Goto(s, "write")
  /\ UNCHANGED <<list, flag, posted, voteflag, clock, currvote, at, opened, told, late, astray,
                 stale, unmarked, dropped, torn>>

Write(s) ==
  /\ pc[s] = "write"
  /\ results' = [poll |-> currvote[s], ballots |-> tally[s]]
  /\ tally' = [tally EXCEPT ![s] = <<>>]
  /\ Goto(s, "postvote")
  /\ UNCHANGED <<list, flag, posted, voteflag, clock, currvote, at, history>>

(* postfile copies what the file has now.                                    *)
Post(s, here, board, next) ==
  /\ pc[s] = here
  /\ posted' = posted \cup {<<board, results>>}
  /\ Goto(s, next)
  /\ UNCHANGED <<list, flag, results, voteflag, clock, currvote, at, tally, history>>

-----------------------------------------------------------------------------
(* dele_vote                                                                 *)

Unlink(s) ==
  /\ pc[s] = "unlink"
  /\ flag' = [flag EXCEPT ![currvote[s]] = <<>>]
  /\ torn' = IF \E q \in Session : Overwrites(q, currvote[s])
             THEN torn \cup {currvote[s]} ELSE torn
  /\ Goto(s, "copy")
  /\ UNCHANGED <<list, results, posted, voteflag, clock, currvote, at, tally, opened, told,
                 late, mixed, astray, stale, unmarked, dropped>>

(* Seeded fault: delete_record counts from 0.                                *)
WithoutNext(f, n) == DeleteRecord(f, n + 1)

Without(f, n) == DeleteRecord(f, n)

(* delete_record(controlfile, num): the record with that number goes.        *)
Copy(s) ==
  LET n == at[s].num
      hit == IF n <= Len(control) THEN {control[n]} \ {currvote[s]} ELSE {}
  IN /\ pc[s] = "copy" /\ dellock = {} /\ ~tmpfile.exists
     /\ tmpfile' = [exists |-> TRUE, recs |-> Without(control, n)]
     /\ dellock' = {s}
     /\ astray' = IF s \in stale THEN astray \cup hit ELSE astray
     /\ Goto(s, "away")
     /\ UNCHANGED <<control, files, clock, currvote, at, tally, opened, told, late, mixed,
                    stale, unmarked, dropped, torn>>

CopyRefused(s) ==
  /\ pc[s] = "copy" /\ dellock = {} /\ tmpfile.exists
  /\ Goto(s, "recount")
  /\ UNCHANGED <<list, files, clock, currvote, at, tally, history>>

SwapAway(s) ==
  /\ pc[s] = "away"
  /\ control' = <<>>
  /\ stale' = stale \cup (Session \ {s})
  /\ Goto(s, "in")
  /\ UNCHANGED <<tmpfile, dellock, files, clock, currvote, at, tally, opened, told, late, mixed,
                 astray, unmarked, dropped, torn>>

SwapIn(s) ==
  /\ pc[s] = "in"
  /\ control' = tmpfile.recs /\ tmpfile' = NoTmp /\ dellock' = {}
  /\ stale' = stale \cup (Session \ {s})
  /\ Goto(s, "recount")
  /\ UNCHANGED <<files, clock, currvote, at, tally, opened, told, late, mixed, astray, unmarked,
                 dropped, torn>>

(* The end of dele_vote: range--, and back into the list or the loop.        *)
Done(s) ==
  LET r == at[s]
  IN /\ at' = [at EXCEPT ![s] = IF r.sweep THEN [r EXCEPT !.num = r.num - 1]
                                ELSE [Nowhere EXCEPT !.range = r.range - 1]]
     /\ Goto(s, IF r.sweep THEN "sweep" ELSE IF r.range = 1 THEN "menu" ELSE "list")

(* Seeded fault: the mark goes with the last poll but one.                   *)
AlmostNone == Len(control) <= 1

NoneLeft == control = <<>>

Recount(s) ==
  /\ pc[s] = "recount"
  /\ IF NoneLeft THEN Goto(s, "unmark") /\ UNCHANGED at ELSE Done(s)
  /\ unmarked' = (unmarked \/ (NoneLeft /\ Hidden))
  /\ UNCHANGED <<list, files, clock, currvote, tally, opened, told, late, mixed, astray, stale,
                 dropped, torn>>

Unmark(s) ==
  /\ pc[s] = "unmark"
  /\ voteflag' = FALSE
  /\ Done(s)
  /\ UNCHANGED <<list, flag, results, posted, clock, currvote, tally, history>>

-----------------------------------------------------------------------------
Logout(s) ==
  /\ pc[s] = "menu"
  /\ Goto(s, "out")
  /\ currvote' = [currvote EXCEPT ![s] = 0]
  /\ UNCHANGED <<list, files, clock, at, tally, history>>

Killed(s) ==
  /\ May(s, "killed") /\ pc[s] # "out"
  /\ dellock' = dellock \ {s}
  /\ at' = [at EXCEPT ![s] = Nowhere] /\ tally' = [tally EXCEPT ![s] = <<>>]
  /\ currvote' = [currvote EXCEPT ![s] = 0]
  /\ Goto(s, "out")
  /\ UNCHANGED <<control, tmpfile, files, clock, history>>

(* Time: pollvote comes, at most seven hours after it was set; days end.      *)
PollTime ==
  /\ ~due /\ due' = TRUE
  /\ UNCHANGED <<list, files, expired, last, role, local, history>>

Expire(p) ==
  /\ p \in Open \ expired
  /\ expired' = expired \cup {p}
  /\ UNCHANGED <<list, files, due, last, role, local, history>>

(* What a session does without waiting for its user.                         *)
ByItself(s) ==
  \/ Cast(s) \/ AppendPoll(s) \/ SweepPoll(s) \/ SweepEnd(s)
  \/ Count(s) \/ Write(s) \/ Post(s, "postvote", "vote", "postown")
  \/ Post(s, "postown", "own", "unlink")
  \/ Unlink(s) \/ Copy(s) \/ CopyRefused(s) \/ SwapAway(s) \/ SwapIn(s)
  \/ Recount(s) \/ Unmark(s)

Step(s) ==
  \/ ByItself(s)
  \/ EnterList(s) \/ NoneOpen(s) \/ LeaveList(s)
  \/ \E n \in 1..MaxPoll : UserVote(s, n) \/ \E c \in {"early", "drop"} : Ask(s, c, n)
  \/ KeepVote(s) \/ Search(s)
  \/ EditPoll(s) \/ AbandonPoll(s) \/ MarkBoard(s)
  \/ Refuse(s) \/ CloseEarly(s) \/ Drop(s)
  \/ Login(s) \/ Logout(s) \/ Killed(s)

Next == PollTime \/ (\E p \in Poll : Expire(p)) \/ \E s \in Session : Step(s)

(* Time goes on, sessions go on where they do not wait for their users, and   *)
(* whoever is out or has nothing to do logs in or out.                       *)
Fairness ==
  /\ WF_vars(PollTime)
  /\ \A s \in Session : WF_vars(ByItself(s)) /\ WF_vars(Login(s)) /\ WF_vars(Logout(s))

Spec == Init /\ [][Next]_vars /\ Fairness

-----------------------------------------------------------------------------
(* Properties                                                               *)

(* However often the sessions of an account vote, a poll has no more ballots  *)
(* of the account than it has sessions: a session that voted before finds    *)
(* its ballot.  One per account is not guaranteed: two sessions may search   *)
(* before either appends.                                                   *)
BallotsPerAccount ==
  \A p \in Poll, a \in Account :
    Cardinality(BallotsOf(p, a)) <= Cardinality({s \in Session : User[s] = a})

(* Who was told that his ballot is in the box has it there, or in what was    *)
(* posted about the poll on its board; unless the poll was dropped or went   *)
(* astray, two results were written at once, or it was closed as he voted.   *)
(* Where a poll that was closed stays in the list, who found his ballot      *)
(* before the file was unlinked writes over the ballot somebody cast since.  *)
BallotCounted ==
  \A p \in Poll, a \in Account : <<p, a>> \in told \ late =>
    \/ p \in Open /\ BallotsOf(p, a) # {}
    \/ \E r \in posted : r[1] = "own" /\ r[2].poll = p /\ a \in Polls(r[2].ballots)
    \/ p \in dropped \cup astray \/ mixed

(* A poll that was opened is in the list until it is dropped, or its results  *)
(* are on both boards; unless a number was out of date, or two wrote results *)
(* at once.                                                                 *)
ResultsPosted ==
  \A p \in opened :
    \/ p \in Open \cup dropped \cup astray \/ mixed
    \/ \A b \in {"vote", "own"} : \E r \in posted : r[1] = b /\ r[2].poll = p

(* A board with an open poll has its mark; unless the mark was taken off by   *)
(* somebody who had found no poll, while one was opened or put back.         *)
MarkTells == control # <<>> /\ ~unmarked => voteflag

(* A .tmpfile that nobody works on any more                                  *)
Stray == tmpfile.exists /\ dellock = {}

(* Somebody who only looks in: he logs in and out, and may be killed.        *)
ComesAndGoes(s) == May(s, "login") /\ role.may[s] \subseteq {"login", "killed"}

(* An expired poll is closed in the end, as long as somebody comes and goes;  *)
(* unless a session died while it removed a poll, which ends all removing.   *)
ExpiredCloses ==
  \A p \in Poll :
    (p \in expired /\ p \in Open /\ \E s \in Session : ComesAndGoes(s))
      ~> (p \notin Open \/ Stray)
=============================================================================
