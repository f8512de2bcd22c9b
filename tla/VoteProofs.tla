----------------------------- MODULE VoteProofs ------------------------------
(***************************************************************************)
(* Polls, for any number of sessions, accounts, polls and roles: a poll has  *)
(* at most as many ballots of an account as the account has sessions, a      *)
(* board with an open poll has its mark, results of a poll that is gone are  *)
(* posted, and no ballot is lost on the way.  The first rests on an          *)
(* assignment of sessions to ballots: each ballot, and each place in the file *)
(* where a session is about to put one, has a session of its own.            *)
(***************************************************************************)
EXTENDS Vote, RecordProofs, FiniteSetTheorems

PostVote(s) == Post(s, "postvote", "vote", "postown")
PostOwn(s) == Post(s, "postown", "own", "unlink")

Act(s) ==
  \/ EnterList(s) \/ NoneOpen(s) \/ LeaveList(s)
  \/ (\E n \in 1..MaxPoll : UserVote(s, n)) \/ KeepVote(s) \/ Search(s) \/ Cast(s)
  \/ EditPoll(s) \/ AbandonPoll(s) \/ MarkBoard(s) \/ AppendPoll(s)
  \/ (\E n \in 1..MaxPoll, c \in {"early", "drop"} : Ask(s, c, n))
  \/ Refuse(s) \/ CloseEarly(s) \/ Drop(s)
  \/ Login(s) \/ SweepPoll(s) \/ SweepEnd(s)
  \/ Count(s) \/ Write(s) \/ PostVote(s) \/ PostOwn(s)
  \/ Unlink(s) \/ Copy(s) \/ CopyRefused(s) \/ SwapAway(s) \/ SwapIn(s)
  \/ Recount(s) \/ Unmark(s) \/ Logout(s) \/ Killed(s)

LEMMA StepActs == \A s \in Session : Step(s) => Act(s)
BY DEF Step, ByItself, Act, PostVote, PostOwn

Label ==
  {"out", "menu", "none", "list", "box", "cast", "edit", "append", "early", "drop",
   "sweep", "recount", "unmark"} \cup Writing \cup Removing \cup Swapping

Place == [range : Nat, num : Nat, pos : Nat, sweep : BOOLEAN]

(* Type correctness in parts, with what the types rest on: who writes a poll *)
(* has its number, who removes one came from the list or from the loop.      *)
TypeList == control \in Seq(Poll) /\ tmpfile \in [exists : BOOLEAN, recs : Seq(Poll)]
TypePc == pc \in [Session -> Label]
TypePoll ==
  /\ currvote \in [Session -> {0} \cup Poll] /\ last \in 0..MaxPoll
  /\ \A s \in Session : pc[s] \in {"edit", "append"} => currvote[s] \in Poll
TypeAt == at \in [Session -> Place]
Ranges ==
  \A s \in Session :
    /\ pc[s] = "sweep" => at[s].sweep
    /\ pc[s] \in {"early", "drop", "recount", "unmark"} \cup Writing \cup Removing \cup Swapping
         => at[s].num >= 1 /\ (at[s].sweep \/ at[s].range >= 1)
TypeFlag == flag \in [{0} \cup Poll -> Seq(Account \cup {NoAccount})]
TypeRest ==
  /\ results.poll \in {0} \cup Poll /\ voteflag \in BOOLEAN
  /\ due \in BOOLEAN /\ expired \subseteq Poll /\ role \in Roles
TypeTally ==
  /\ tally \in [Session -> Seq(Account \cup {NoAccount})]
  /\ \A s \in Session : tally[s] = <<>> \/ pc[s] = "write"
Locks == dellock = {s \in Session : pc[s] \in Swapping} /\ (dellock = {} \/ \E s : dellock = {s})

Typed ==
  /\ TypeList /\ TypePc /\ TypePoll /\ TypeAt /\ Ranges /\ TypeFlag /\ TypeRest
  /\ TypeTally /\ Locks

LEMMA DeletedType ==
  ASSUME NEW R, NEW f \in Seq(R), NEW n \in Nat \ {0}
  PROVE  DeleteRecord(f, n) \in Seq(R)
<1>1. CASE n <= Len(f)
  BY <1>1, LenProperties, DropRecordProperties DEF DeleteRecord
<1>2. CASE ~(n <= Len(f))
  BY <1>2 DEF DeleteRecord
<1> QED
  BY <1>1, <1>2

LEMMA Places ==
  /\ Nowhere \in Place
  /\ \A n \in Nat : [Nowhere EXCEPT !.range = n] \in Place
  /\ \A n \in Nat : [Nowhere EXCEPT !.num = n, !.sweep = TRUE] \in Place
  /\ \A r \in Place, n \in Nat : [r EXCEPT !.pos = n] \in Place
  /\ \A r \in Place, n \in Nat : [r EXCEPT !.num = n] \in Place
  /\ \A r \in Place, n \in Nat : [r EXCEPT !.range = n] \in Place
BY DEF Place, Nowhere

LEMMA PlacePut ==
  ASSUME TypeAt, NEW s \in Session, NEW r \in Place, at' = [at EXCEPT ![s] = r]
  PROVE  TypeAt'
BY DEF TypeAt

(* search_record with cmpvuid.                                               *)
LEMMA SearchBallotFinds ==
  ASSUME TypeFlag, NEW p \in {0} \cup Poll, NEW a
  PROVE  /\ SearchBallot(p, a) \in Nat
         /\ BallotsOf(p, a) = {} => SearchBallot(p, a) = 0
         /\ BallotsOf(p, a) # {} => SearchBallot(p, a) \in BallotsOf(p, a)
<1>1. flag[p] \in Seq(Account \cup {NoAccount})
  BY DEF TypeFlag
<1>2. Len(flag[p]) \in Nat
  BY <1>1, LenProperties
<1>3. BallotsOf(p, a) \in SUBSET Nat
  BY <1>2 DEF BallotsOf
<1>4. CASE BallotsOf(p, a) = {}
  BY <1>4 DEF SearchBallot
<1>5. CASE BallotsOf(p, a) # {}
  <2>1. \E i \in BallotsOf(p, a) : \A j \in BallotsOf(p, a) : i <= j
    BY <1>3, <1>5, FirstPositionExists
  <2>2. SearchBallot(p, a) \in BallotsOf(p, a)
    BY <1>5, <2>1 DEF SearchBallot
  <2> QED
    BY <1>3, <1>5, <2>2
<1> QED
  BY <1>4, <1>5

(* A ballot appended, or written at its place.                               *)
LEMMA CastType ==
  ASSUME TypeFlag, NEW p \in {0} \cup Poll, NEW a \in Account, NEW i \in Nat
  PROVE  CastAt(flag[p], a, i) \in Seq(Account \cup {NoAccount})
<1>1. flag[p] \in Seq(Account \cup {NoAccount})
  BY DEF TypeFlag
<1>2. CASE i > 0
  <2> DEFINE R == Account \cup {NoAccount}
  <2>0. flag[p] \in Seq(R) /\ a \in R /\ NoAccount \in R /\ i \in Nat \ {0}
    BY <1>1, <1>2
  <2> HIDE DEF R
  <2>1. SubstituteRecord(flag[p], a, i, NoAccount) \in Seq(R)
    BY <2>0, SubstituteRecordProperties
  <2> QED
    BY <1>2, <2>1 DEF CastAt, R
<1>3. CASE ~(i > 0)
  BY <1>1, <1>3 DEF CastAt, AppendRecord
<1> QED
  BY <1>2, <1>3

LEMMA StepList ==
  ASSUME Typed, NEW s \in Session, Act(s)
  PROVE  TypeList'
<1>0. TypeList /\ TypePoll /\ TypeAt /\ Ranges
  BY DEF Typed
<1>1. CASE EnterList(s) \/ NoneOpen(s) \/ LeaveList(s) \/ KeepVote(s) \/ Search(s) \/
          Cast(s) \/ EditPoll(s) \/ AbandonPoll(s) \/ MarkBoard(s) \/ Refuse(s) \/
          CloseEarly(s) \/ Drop(s) \/ Login(s) \/ SweepPoll(s) \/ SweepEnd(s) \/
          Count(s) \/ Write(s) \/ PostVote(s) \/ PostOwn(s) \/ Unlink(s) \/
          CopyRefused(s) \/ Recount(s) \/ Unmark(s) \/ Logout(s) \/ Killed(s) \/
          (\E n \in 1..MaxPoll : UserVote(s, n)) \/
          (\E n \in 1..MaxPoll, c \in {"early", "drop"} : Ask(s, c, n))
  BY <1>1, <1>0 DEF AbandonPoll, Ask, BackTo, Cast, Chooses, CloseEarly,
       CopyRefused, Count, Done, Drop, EditPoll, EnterList, Goto, KeepVote, Killed,
       LeaveList, Login, Logout, MarkBoard, MoreToSweep, NoneOpen, Post, PostOwn,
       PostVote, ReadPoll, Recount, Refuse, Search, SweepEnd, SweepPoll, Unlink,
       Unmark, UserVote, Write, TypeList, list, files, clock, local, history
<1>2. CASE AppendPoll(s)
  <2>1. currvote[s] \in Poll
    BY <1>2, <1>0 DEF AppendPoll, TypePoll
  <2>2. Append(control, currvote[s]) \in Seq(Poll)
    BY <1>0, <2>1 DEF TypeList
  <2> QED
    BY <1>2, <1>0, <2>2 DEF AppendPoll, AppendRecord, TypeList
<1>3. CASE Copy(s)
  <2>1. at[s].num \in Nat /\ at[s].num >= 1
    BY <1>3, <1>0 DEF Copy, TypeAt, Place, Ranges, Removing
  <2>2. Without(control, at[s].num) \in Seq(Poll)
    BY <1>0, <2>1, DeletedType DEF TypeList, Without
  <2> QED
    BY <1>3, <1>0, <2>2 DEF Copy, TypeList
<1>4. CASE SwapAway(s)
  BY <1>4, <1>0, EmptySeq DEF SwapAway, TypeList
<1>5. CASE SwapIn(s)
  BY <1>5, <1>0, EmptySeq DEF SwapIn, TypeList, NoTmp
<1> QED
  BY <1>1, <1>2, <1>3, <1>4, <1>5 DEF Act

LEMMA StepPc ==
  ASSUME TypePc, NEW s \in Session, Act(s)
  PROVE  TypePc'
<1>1. CASE NoneOpen(s) \/ LeaveList(s) \/ KeepVote(s) \/ Search(s) \/ Cast(s) \/
          EditPoll(s) \/ MarkBoard(s) \/ Refuse(s) \/ CloseEarly(s) \/ Drop(s) \/
          SweepEnd(s) \/ Count(s) \/ Write(s) \/ PostVote(s) \/ PostOwn(s) \/
          Unlink(s) \/ CopyRefused(s) \/ Logout(s) \/ Killed(s)
  BY <1>1 DEF Cast, CloseEarly, CopyRefused, Count, Drop, EditPoll, Goto, KeepVote,
       Killed, LeaveList, Logout, MarkBoard, NoneOpen, Post, PostOwn, PostVote,
       Refuse, Search, SweepEnd, Unlink, Write, TypePc, Label, Writing, Removing,
       Swapping, list, files, clock, local, history
<1>2. CASE Recount(s)
  BY <1>2, VoteAssumption DEF Recount, Done, Goto, TypePc, Label, Writing, Removing,
     Swapping, list, files, clock, local, history
<1>3. CASE Unmark(s)
  BY <1>3, VoteAssumption DEF Unmark, Done, Goto, TypePc, Label, Writing, Removing,
     Swapping, list, files, clock, local, history
<1>4. CASE SweepPoll(s)
  BY <1>4, VoteAssumption DEF SweepPoll, ReadPoll, Goto, MoreToSweep, TypePc, Label,
     Writing, Removing, Swapping, list, files, clock, local, history
<1>5. ASSUME NEW n \in 1..MaxPoll, UserVote(s, n)
      PROVE  TypePc'
  BY <1>5, VoteAssumption DEF UserVote, ReadPoll, Goto, Chooses, TypePc, Label,
     Writing, Removing, Swapping, list, files, clock, local, history
<1>6. ASSUME NEW n \in 1..MaxPoll, NEW c \in {"early", "drop"}, Ask(s, c, n)
      PROVE  TypePc'
  BY <1>6, VoteAssumption DEF Ask, ReadPoll, Goto, Chooses, TypePc, Label, Writing,
     Removing, Swapping, list, files, clock, local, history
<1>7. CASE Login(s)
  BY <1>7, VoteAssumption DEF Login, Goto, TypePc, Label, Writing, Removing,
     Swapping, list, files, clock, local, history
<1>8. CASE EnterList(s)
  BY <1>8, VoteAssumption DEF EnterList, Goto, TypePc, Label, Writing, Removing,
     Swapping, list, files, clock, local, history
<1>9. CASE AppendPoll(s)
  BY <1>9, VoteAssumption DEF AppendPoll, Goto, BackTo, TypePc, Label, Writing,
     Removing, Swapping, list, files, clock, local, history
<1>10. CASE AbandonPoll(s)
  BY <1>10, VoteAssumption DEF AbandonPoll, Goto, BackTo, TypePc, Label, Writing,
     Removing, Swapping, list, files, clock, local, history
<1>11. CASE SwapAway(s)
  BY <1>11, VoteAssumption DEF SwapAway, Goto, TypePc, Label, Writing, Removing,
     Swapping, list, files, clock, local, history
<1>12. CASE SwapIn(s)
  BY <1>12, VoteAssumption DEF SwapIn, Goto, TypePc, Label, Writing, Removing,
     Swapping, list, files, clock, local, history
<1>13. CASE Copy(s)
  BY <1>13, VoteAssumption DEF Copy, Goto, TypePc, Label, Writing, Removing,
     Swapping, list, files, clock, local, history
<1> QED
  BY <1>1, <1>2, <1>3, <1>4, <1>5, <1>6, <1>7, <1>8, <1>9, <1>10, <1>11, <1>12, <1>13
     DEF Act

LEMMA StepPoll ==
  ASSUME Typed, NEW s \in Session, Act(s)
  PROVE  TypePoll'
<1>0. TypeList /\ TypePc /\ TypePoll
  BY DEF Typed
<1>00. \A n \in 1..Len(control) : control[n] \in Poll
  BY <1>0, ElementOfSeq DEF TypeList
<1>1. CASE EnterList(s) \/ NoneOpen(s) \/ LeaveList(s) \/ KeepVote(s) \/ Search(s) \/
          Cast(s) \/ AbandonPoll(s) \/ AppendPoll(s) \/ Refuse(s) \/ CloseEarly(s) \/
          Drop(s) \/ Login(s) \/ SweepEnd(s) \/ Count(s) \/ Write(s) \/ PostVote(s) \/
          PostOwn(s) \/ Unlink(s) \/ Copy(s) \/ CopyRefused(s) \/ SwapAway(s) \/
          SwapIn(s) \/ Recount(s) \/ Unmark(s)
  BY <1>1, <1>0, <1>00 DEF AbandonPoll, AppendPoll, BackTo, Cast, CloseEarly, Copy,
       CopyRefused, Count, Done, Drop, EnterList, Goto, KeepVote, LeaveList, Login,
       NoneOpen, Post, PostOwn, PostVote, Recount, Refuse, Search, SwapAway, SwapIn,
       SweepEnd, Unlink, Unmark, Write, TypePoll, TypePc, list, files, clock, local,
       history
<1>2. ASSUME NEW n \in 1..MaxPoll, UserVote(s, n)
      PROVE  TypePoll'
  BY <1>2, <1>0, <1>00 DEF UserVote, ReadPoll, Goto, Chooses, TypePoll, TypePc,
     list, files, clock, local, history
<1>3. ASSUME NEW n \in 1..MaxPoll, NEW c \in {"early", "drop"}, Ask(s, c, n)
      PROVE  TypePoll'
  BY <1>3, <1>0, <1>00 DEF Ask, ReadPoll, Goto, Chooses, TypePoll, TypePc, list,
     files, clock, local, history
<1>4. CASE SweepPoll(s)
  BY <1>4, <1>0, <1>00 DEF SweepPoll, ReadPoll, Goto, MoreToSweep, TypePoll, TypePc,
     list, files, clock, local, history
<1>5. CASE EditPoll(s)
  <2>1. last \in Nat /\ MaxPoll \in Nat /\ last < MaxPoll
    BY <1>5, <1>0, VoteAssumption DEF EditPoll, TypePoll
  <2>2. last + 1 \in Poll /\ last + 1 \in 0..MaxPoll
    BY <2>1 DEF Poll
  <2> QED
    BY <1>5, <1>0, <2>2 DEF EditPoll, Goto, TypePoll, TypePc
<1>6. CASE MarkBoard(s)
  BY <1>6, <1>0, <1>00 DEF MarkBoard, Goto, TypePoll, TypePc, list, files, clock,
     local, history
<1>7. CASE Logout(s)
  BY <1>7, <1>0, <1>00 DEF Logout, Goto, TypePoll, TypePc, list, files, clock,
     local, history
<1>8. CASE Killed(s)
  BY <1>8, <1>0, <1>00 DEF Killed, Goto, TypePoll, TypePc, list, files, clock,
     local, history
<1> QED
  BY <1>1, <1>2, <1>3, <1>4, <1>5, <1>6, <1>7, <1>8 DEF Act

LEMMA StepAt ==
  ASSUME Typed, NEW s \in Session, Act(s)
  PROVE  TypeAt'
<1>0. TypeList /\ TypeAt /\ TypePoll /\ TypePc /\ TypeFlag /\ Ranges
  BY DEF Typed
<1>00. Len(control) \in Nat
  BY <1>0 DEF TypeList
<1>1. CASE NoneOpen(s) \/ KeepVote(s) \/ EditPoll(s) \/ AbandonPoll(s) \/ MarkBoard(s)
          \/ Refuse(s) \/ CloseEarly(s) \/ Drop(s) \/ Count(s) \/ Write(s) \/
          PostVote(s) \/ PostOwn(s) \/ Unlink(s) \/ Copy(s) \/ CopyRefused(s) \/
          SwapAway(s) \/ SwapIn(s) \/ Logout(s) \/
          (\E n \in 1..MaxPoll : UserVote(s, n))
  BY <1>1, <1>0, <1>00 DEF AbandonPoll, BackTo, Chooses, CloseEarly, Copy,
       CopyRefused, Count, Drop, EditPoll, Goto, KeepVote, Logout, MarkBoard,
       NoneOpen, Post, PostOwn, PostVote, ReadPoll, Refuse, SwapAway, SwapIn,
       Unlink, UserVote, Write, TypeAt, Place, list, files, clock, local, history
<1>2. CASE EnterList(s)
  <2>7. [Nowhere EXCEPT !.range = Len(control)] \in Place
    BY <1>00, Places
  <2>8. at' = [at EXCEPT ![s] = [Nowhere EXCEPT !.range = Len(control)]]
    BY <1>2 DEF EnterList
  <2> QED
    BY <1>0, <2>7, <2>8, PlacePut
<1>3. CASE LeaveList(s)
  <2>7. Nowhere \in Place
    BY Places
  <2>8. at' = [at EXCEPT ![s] = Nowhere]
    BY <1>3 DEF LeaveList
  <2> QED
    BY <1>0, <2>7, <2>8, PlacePut
<1>4. CASE Search(s)
  <2>1. SearchBallot(currvote[s], User[s]) \in Nat
    BY <1>0, SearchBallotFinds DEF TypePoll
  <2>7. [at[s] EXCEPT !.pos = SearchBallot(currvote[s], User[s])] \in Place
    BY <1>0, <2>1, Places DEF TypeAt
  <2>8. at' = [at EXCEPT ![s] = [at[s] EXCEPT !.pos = SearchBallot(currvote[s], User[s])]]
    BY <1>4 DEF Search
  <2> QED
    BY <1>0, <2>7, <2>8, PlacePut
<1>5. CASE Cast(s)
  <2>7. [at[s] EXCEPT !.pos = 0] \in Place
    BY <1>0, Places DEF TypeAt
  <2>8. at' = [at EXCEPT ![s] = [at[s] EXCEPT !.pos = 0]]
    BY <1>5 DEF Cast
  <2> QED
    BY <1>0, <2>7, <2>8, PlacePut
<1>6. CASE AppendPoll(s)
  <2>1. (IF at[s].range > 0 THEN at[s].range + 1 ELSE 0) \in Nat
    BY <1>0 DEF TypeAt, Place
  <2>7. [at[s] EXCEPT !.range = IF at[s].range > 0 THEN at[s].range + 1 ELSE 0] \in Place
    BY <1>0, <2>1, Places DEF TypeAt
  <2>8. at' = [at EXCEPT ![s] = [at[s] EXCEPT !.range = IF at[s].range > 0 THEN at[s].range + 1 ELSE 0]]
    BY <1>6 DEF AppendPoll
  <2> QED
    BY <1>0, <2>7, <2>8, PlacePut
<1>7. ASSUME NEW n \in 1..MaxPoll, NEW c \in {"early", "drop"}, Ask(s, c, n)
      PROVE  TypeAt'
  <2>6. n \in Nat
    BY VoteAssumption
  <2>7. [at[s] EXCEPT !.num = n] \in Place
    BY <1>0, <2>6, Places DEF TypeAt
  <2>8. at' = [at EXCEPT ![s] = [at[s] EXCEPT !.num = n]]
    BY <1>7 DEF Ask
  <2> QED
    BY <1>0, <2>7, <2>8, PlacePut
<1>8. CASE Login(s)
  <2>7. [Nowhere EXCEPT !.num = Len(control), !.sweep = TRUE] \in Place
    BY <1>00, Places
  <2>8. \/ at' = [at EXCEPT ![s] = [Nowhere EXCEPT !.num = Len(control), !.sweep = TRUE]]
        \/ at' = at
    BY <1>8 DEF Login
  <2> QED
    BY <1>0, <2>7, <2>8, PlacePut DEF TypeAt
<1>9. CASE SweepPoll(s)
  <2>1. at[s].num - 1 \in Nat
    BY <1>9, <1>0 DEF SweepPoll, MoreToSweep, TypeAt, Place
  <2>7. [at[s] EXCEPT !.num = at[s].num - 1] \in Place
    BY <1>0, <2>1, Places DEF TypeAt
  <2>8. at' = [at EXCEPT ![s] = [at[s] EXCEPT !.num = at[s].num - 1]] \/ at' = at
    BY <1>9 DEF SweepPoll
  <2> QED
    BY <1>0, <2>7, <2>8, PlacePut DEF TypeAt
<1>10. CASE SweepEnd(s)
  <2>7. Nowhere \in Place
    BY Places
  <2>8. at' = [at EXCEPT ![s] = Nowhere]
    BY <1>10 DEF SweepEnd
  <2> QED
    BY <1>0, <2>7, <2>8, PlacePut
<1>11. CASE Recount(s)
  <2>0. \/ at' = at
        \/ at' = [at EXCEPT ![s] = IF at[s].sweep THEN [at[s] EXCEPT !.num = at[s].num - 1]
                                   ELSE [Nowhere EXCEPT !.range = at[s].range - 1]]
    BY <1>11 DEF Recount, Done
  <2>1. CASE at[s].sweep
    <3>1. at[s].num - 1 \in Nat
      BY <1>11, <1>0 DEF Recount, TypeAt, Place, Ranges
    <3>2. [at[s] EXCEPT !.num = at[s].num - 1] \in Place
      BY <1>0, <3>1, Places DEF TypeAt
    <3>3. at' = [at EXCEPT ![s] = [at[s] EXCEPT !.num = at[s].num - 1]] \/ at' = at
      BY <2>0, <2>1
    <3> QED
      BY <1>0, <3>2, <3>3, PlacePut DEF TypeAt
  <2>2. CASE ~at[s].sweep
    <3>1. at[s].range - 1 \in Nat
      BY <1>11, <1>0, <2>2 DEF Recount, TypeAt, Place, Ranges
    <3>2. [Nowhere EXCEPT !.range = at[s].range - 1] \in Place
      BY <3>1, Places
    <3>3. at' = [at EXCEPT ![s] = [Nowhere EXCEPT !.range = at[s].range - 1]] \/ at' = at
      BY <2>0, <2>2
    <3> QED
      BY <1>0, <3>2, <3>3, PlacePut DEF TypeAt
  <2> QED
    BY <2>1, <2>2
<1>12. CASE Unmark(s)
  <2>0. \/ at' = at
        \/ at' = [at EXCEPT ![s] = IF at[s].sweep THEN [at[s] EXCEPT !.num = at[s].num - 1]
                                   ELSE [Nowhere EXCEPT !.range = at[s].range - 1]]
    BY <1>12 DEF Unmark, Done
  <2>1. CASE at[s].sweep
    <3>1. at[s].num - 1 \in Nat
      BY <1>12, <1>0 DEF Unmark, TypeAt, Place, Ranges
    <3>2. [at[s] EXCEPT !.num = at[s].num - 1] \in Place
      BY <1>0, <3>1, Places DEF TypeAt
    <3>3. at' = [at EXCEPT ![s] = [at[s] EXCEPT !.num = at[s].num - 1]] \/ at' = at
      BY <2>0, <2>1
    <3> QED
      BY <1>0, <3>2, <3>3, PlacePut DEF TypeAt
  <2>2. CASE ~at[s].sweep
    <3>1. at[s].range - 1 \in Nat
      BY <1>12, <1>0, <2>2 DEF Unmark, TypeAt, Place, Ranges
    <3>2. [Nowhere EXCEPT !.range = at[s].range - 1] \in Place
      BY <3>1, Places
    <3>3. at' = [at EXCEPT ![s] = [Nowhere EXCEPT !.range = at[s].range - 1]] \/ at' = at
      BY <2>0, <2>2
    <3> QED
      BY <1>0, <3>2, <3>3, PlacePut DEF TypeAt
  <2> QED
    BY <2>1, <2>2
<1>13. CASE Killed(s)
  <2>7. Nowhere \in Place
    BY Places
  <2>8. at' = [at EXCEPT ![s] = Nowhere]
    BY <1>13 DEF Killed
  <2> QED
    BY <1>0, <2>7, <2>8, PlacePut
<1> QED
  BY <1>1, <1>2, <1>3, <1>4, <1>5, <1>6, <1>7, <1>8, <1>9, <1>10, <1>11, <1>12, <1>13
     DEF Act

LEMMA StepRanges ==
  ASSUME Typed, NEW s \in Session, Act(s)
  PROVE  Ranges'
<1>0. TypeAt /\ TypePc /\ Ranges
  BY DEF Typed
<1>1. CASE NoneOpen(s) \/ KeepVote(s) \/ EditPoll(s) \/ MarkBoard(s) \/ Refuse(s) \/
          CloseEarly(s) \/ Drop(s) \/ Count(s) \/ Write(s) \/ PostVote(s) \/
          PostOwn(s) \/ Unlink(s) \/ Copy(s) \/ CopyRefused(s) \/ Logout(s) \/
          (\E n \in 1..MaxPoll : UserVote(s, n))
  BY <1>1, <1>0 DEF Chooses, CloseEarly, Copy, CopyRefused, Count, Drop, EditPoll,
       Goto, KeepVote, Logout, MarkBoard, NoneOpen, Post, PostOwn, PostVote,
       ReadPoll, Refuse, Unlink, UserVote, Write, Ranges, TypeAt, Place, TypePc,
       Writing, Removing, Swapping, list, files, clock, local, history
<1>2. CASE EnterList(s)
  BY <1>2, <1>0 DEF EnterList, Goto, Ranges, TypeAt, Place, TypePc, Writing,
     Removing, Swapping, list, files, clock, local, history
<1>3. CASE LeaveList(s)
  BY <1>3, <1>0 DEF LeaveList, Goto, Ranges, TypeAt, Place, TypePc, Writing,
     Removing, Swapping, list, files, clock, local, history
<1>4. CASE Search(s)
  BY <1>4, <1>0 DEF Search, Goto, Ranges, TypeAt, Place, TypePc, Writing, Removing,
     Swapping, list, files, clock, local, history
<1>5. CASE Cast(s)
  BY <1>5, <1>0 DEF Cast, Goto, Ranges, TypeAt, Place, TypePc, Writing, Removing,
     Swapping, list, files, clock, local, history
<1>6. CASE AppendPoll(s)
  BY <1>6, <1>0 DEF AppendPoll, Goto, BackTo, Ranges, TypeAt, Place, TypePc,
     Writing, Removing, Swapping, list, files, clock, local, history
<1>7. CASE AbandonPoll(s)
  BY <1>7, <1>0 DEF AbandonPoll, Goto, BackTo, Ranges, TypeAt, Place, TypePc,
     Writing, Removing, Swapping, list, files, clock, local, history
<1>8. ASSUME NEW n \in 1..MaxPoll, NEW c \in {"early", "drop"}, Ask(s, c, n)
      PROVE  Ranges'
  BY <1>8, <1>0 DEF Ask, ReadPoll, Goto, Chooses, Ranges, TypeAt, Place, TypePc,
     Writing, Removing, Swapping, list, files, clock, local, history
<1>9. CASE Login(s)
  <2>1. CASE at' = at /\ pc' = [pc EXCEPT ![s] = "menu"]
    BY <1>0, <2>1 DEF Ranges, TypePc, Writing, Removing, Swapping
  <2>2. CASE /\ at' = [at EXCEPT ![s] = [Nowhere EXCEPT !.num = Len(control), !.sweep = TRUE]]
             /\ pc' = [pc EXCEPT ![s] = "sweep"]
    <3>1. at'[s].sweep /\ pc'[s] = "sweep"
      BY <1>0, <2>2 DEF TypeAt, TypePc, Nowhere
    <3>2. \A q \in Session \ {s} : at'[q] = at[q] /\ pc'[q] = pc[q]
      BY <1>0, <2>2 DEF TypeAt, TypePc
    <3> QED
      BY <1>0, <3>1, <3>2 DEF Ranges, Writing, Removing, Swapping
  <2> QED
    BY <1>9, <2>1, <2>2 DEF Login, Goto
<1>10. CASE SweepPoll(s)
  <2>1. at[s].num \in Nat /\ at[s].num >= 1 /\ pc[s] = "sweep"
    BY <1>10, <1>0 DEF SweepPoll, MoreToSweep, TypeAt, Place
  <2>2. \A q \in Session \ {s} : pc'[q] = pc[q] /\ at'[q] = at[q]
    BY <1>10, <1>0 DEF SweepPoll, Goto, TypeAt, TypePc
  <2>3. at[s] \in Place /\ at[s].sweep
    BY <1>0, <2>1 DEF TypeAt, Ranges
  <2>4. CASE pc' = [pc EXCEPT ![s] = "count"] /\ at' = at
    BY <1>0, <2>1, <2>2, <2>3, <2>4 DEF Ranges, TypePc, Writing, Removing, Swapping
  <2>5. CASE pc' = pc /\ at' = [at EXCEPT ![s] = [at[s] EXCEPT !.num = at[s].num - 1]]
    <3>1. at'[s].sweep
      BY <1>0, <2>3, <2>5 DEF TypeAt, Place
    <3> QED
      BY <1>0, <2>1, <2>2, <2>5, <3>1 DEF Ranges, Writing, Removing, Swapping
  <2>6. \/ pc' = [pc EXCEPT ![s] = "count"] /\ at' = at
        \/ pc' = pc /\ at' = [at EXCEPT ![s] = [at[s] EXCEPT !.num = at[s].num - 1]]
    BY <1>10 DEF SweepPoll, Goto
  <2> QED
    BY <2>4, <2>5, <2>6
<1>11. CASE SweepEnd(s)
  BY <1>11, <1>0 DEF SweepEnd, Goto, Ranges, TypeAt, Place, TypePc, Writing,
     Removing, Swapping, list, files, clock, local, history
<1>12. CASE Recount(s)
  BY <1>12, <1>0 DEF Recount, Done, Goto, Ranges, TypeAt, Place, TypePc, Writing,
     Removing, Swapping, list, files, clock, local, history
<1>13. CASE Unmark(s)
  BY <1>13, <1>0 DEF Unmark, Done, Goto, Ranges, TypeAt, Place, TypePc, Writing,
     Removing, Swapping, list, files, clock, local, history
<1>14. CASE SwapAway(s)
  BY <1>14, <1>0 DEF SwapAway, Goto, Ranges, TypeAt, Place, TypePc, Writing,
     Removing, Swapping, list, files, clock, local, history
<1>15. CASE SwapIn(s)
  BY <1>15, <1>0 DEF SwapIn, Goto, Ranges, TypeAt, Place, TypePc, Writing, Removing,
     Swapping, list, files, clock, local, history
<1>16. CASE Killed(s)
  BY <1>16, <1>0 DEF Killed, Goto, Ranges, TypeAt, Place, TypePc, Writing, Removing,
     Swapping, list, files, clock, local, history
<1> QED
  BY <1>1, <1>2, <1>3, <1>4, <1>5, <1>6, <1>7, <1>8, <1>9, <1>10, <1>11, <1>12, <1>13,
     <1>14, <1>15, <1>16 DEF Act

LEMMA StepFlag ==
  ASSUME Typed, NEW s \in Session, Act(s)
  PROVE  TypeFlag'
<1>0. TypeFlag /\ TypePoll /\ TypeAt
  BY DEF Typed
<1>1. CASE EnterList(s) \/ NoneOpen(s) \/ LeaveList(s) \/ KeepVote(s) \/ Search(s) \/
          EditPoll(s) \/ AbandonPoll(s) \/ MarkBoard(s) \/ AppendPoll(s) \/ Refuse(s)
          \/ CloseEarly(s) \/ Drop(s) \/ Login(s) \/ SweepPoll(s) \/ SweepEnd(s) \/
          Count(s) \/ Write(s) \/ PostVote(s) \/ PostOwn(s) \/ Copy(s) \/
          CopyRefused(s) \/ SwapAway(s) \/ SwapIn(s) \/ Recount(s) \/ Unmark(s) \/
          Logout(s) \/ Killed(s) \/ (\E n \in 1..MaxPoll : UserVote(s, n)) \/
          (\E n \in 1..MaxPoll, c \in {"early", "drop"} : Ask(s, c, n))
  BY <1>1, <1>0 DEF AbandonPoll, AppendPoll, Ask, BackTo, Chooses, CloseEarly, Copy,
       CopyRefused, Count, Done, Drop, EditPoll, EnterList, Goto, KeepVote, Killed,
       LeaveList, Login, Logout, MarkBoard, MoreToSweep, NoneOpen, Post, PostOwn,
       PostVote, ReadPoll, Recount, Refuse, Search, SwapAway, SwapIn, SweepEnd,
       SweepPoll, Unmark, UserVote, Write, TypeFlag, list, files, clock, local,
       history
<1>2. CASE Cast(s)
  <2> DEFINE f == CastAt(flag[currvote[s]], User[s], at[s].pos)
  <2>1. f \in Seq(Account \cup {NoAccount})
    BY <1>0, CastType, VoteAssumption DEF TypePoll, TypeAt, Place
  <2>2. flag' = [flag EXCEPT ![currvote[s]] = f]
    BY <1>2 DEF Cast
  <2> HIDE DEF f
  <2> QED
    BY <1>0, <2>1, <2>2 DEF TypeFlag
<1>3. CASE Unlink(s)
  BY <1>3, <1>0, EmptySeq DEF Unlink, Goto, TypeFlag, list, files, clock, local,
     history
<1> QED
  BY <1>1, <1>2, <1>3 DEF Act

LEMMA StepRest ==
  ASSUME Typed, NEW s \in Session, Act(s)
  PROVE  TypeRest'
<1>0. TypeRest /\ TypePoll
  BY DEF Typed
<1>1. CASE EnterList(s) \/ NoneOpen(s) \/ LeaveList(s) \/ KeepVote(s) \/ Search(s) \/
          Cast(s) \/ EditPoll(s) \/ AbandonPoll(s) \/ MarkBoard(s) \/ AppendPoll(s) \/
          Refuse(s) \/ CloseEarly(s) \/ Drop(s) \/ Login(s) \/ SweepPoll(s) \/
          SweepEnd(s) \/ PostVote(s) \/ PostOwn(s) \/ Unlink(s) \/ Copy(s) \/
          CopyRefused(s) \/ SwapAway(s) \/ SwapIn(s) \/ Recount(s) \/ Unmark(s) \/
          Logout(s) \/ Killed(s) \/ (\E n \in 1..MaxPoll : UserVote(s, n)) \/
          (\E n \in 1..MaxPoll, c \in {"early", "drop"} : Ask(s, c, n))
  BY <1>1, <1>0 DEF AbandonPoll, AppendPoll, Ask, BackTo, Cast, Chooses, CloseEarly,
       Copy, CopyRefused, Done, Drop, EditPoll, EnterList, Goto, KeepVote, Killed,
       LeaveList, Login, Logout, MarkBoard, MoreToSweep, NoneOpen, Post, PostOwn,
       PostVote, ReadPoll, Recount, Refuse, Search, SwapAway, SwapIn, SweepEnd,
       SweepPoll, Unlink, Unmark, UserVote, TypeRest, TypePoll, NoTally, list,
       files, clock, local, history
<1>2. CASE Write(s)
  BY <1>2, <1>0 DEF Write, Goto, TypeRest, TypePoll, NoTally, list, files, clock,
     local, history
<1>3. CASE Count(s)
  BY <1>3, <1>0 DEF Count, Goto, TypeRest, TypePoll, NoTally, list, files, clock,
     local, history
<1> QED
  BY <1>1, <1>2, <1>3 DEF Act

LEMMA StepTally ==
  ASSUME Typed, NEW s \in Session, Act(s)
  PROVE  TypeTally'
<1>0. TypeTally /\ TypePc /\ TypeFlag /\ TypePoll
  BY DEF Typed
<1>1. CASE EnterList(s) \/ NoneOpen(s) \/ LeaveList(s) \/ KeepVote(s) \/ Search(s) \/
          Cast(s) \/ EditPoll(s) \/ AbandonPoll(s) \/ MarkBoard(s) \/ AppendPoll(s) \/
          Refuse(s) \/ CloseEarly(s) \/ Drop(s) \/ Login(s) \/ SweepPoll(s) \/
          SweepEnd(s) \/ PostVote(s) \/ PostOwn(s) \/ Unlink(s) \/ Copy(s) \/
          CopyRefused(s) \/ SwapAway(s) \/ SwapIn(s) \/ Recount(s) \/ Unmark(s) \/
          Logout(s) \/ (\E n \in 1..MaxPoll : UserVote(s, n)) \/
          (\E n \in 1..MaxPoll, c \in {"early", "drop"} : Ask(s, c, n))
  BY <1>1, <1>0 DEF AbandonPoll, AppendPoll, Ask, BackTo, Cast, Chooses, CloseEarly,
       Copy, CopyRefused, Done, Drop, EditPoll, EnterList, Goto, KeepVote,
       LeaveList, Login, Logout, MarkBoard, MoreToSweep, NoneOpen, Post, PostOwn,
       PostVote, ReadPoll, Recount, Refuse, Search, SwapAway, SwapIn, SweepEnd,
       SweepPoll, Unlink, Unmark, UserVote, TypeTally, TypePc, TypeFlag, TypePoll,
       Counted, list, files, clock, local, history
<1>2. CASE Count(s)
  BY <1>2, <1>0, EmptySeq DEF Count, Goto, TypeTally, TypePc, TypeFlag, TypePoll,
     Counted, list, files, clock, local, history
<1>3. CASE Write(s)
  BY <1>3, <1>0, EmptySeq DEF Write, Goto, TypeTally, TypePc, TypeFlag, TypePoll,
     Counted, list, files, clock, local, history
<1>4. CASE Killed(s)
  BY <1>4, <1>0, EmptySeq DEF Killed, Goto, TypeTally, TypePc, TypeFlag, TypePoll,
     Counted, list, files, clock, local, history
<1> QED
  BY <1>1, <1>2, <1>3, <1>4 DEF Act

LEMMA StepLocks ==
  ASSUME Typed, NEW s \in Session, Act(s)
  PROVE  Locks'
<1>0. Locks /\ TypePc
  BY DEF Typed
<1>1. CASE Count(s) \/ Write(s) \/ PostVote(s) \/ PostOwn(s) \/ Unlink(s) \/
          CopyRefused(s) \/ Logout(s) \/ Drop(s) \/ SweepEnd(s)
  BY <1>1, <1>0 DEF CopyRefused, Count, Drop, Goto, Logout, Post, PostOwn, PostVote,
       SweepEnd, Unlink, Write, Locks, TypePc, Writing, Removing, Swapping, list, files,
       clock, local, history
<1>13. CASE NoneOpen(s) \/ LeaveList(s) \/ KeepVote(s) \/ Search(s) \/ Cast(s) \/
          EditPoll(s) \/ MarkBoard(s) \/ Refuse(s) \/ CloseEarly(s) \/
          (\E n \in 1..MaxPoll : UserVote(s, n)) \/
          (\E n \in 1..MaxPoll, c \in {"early", "drop"} : Ask(s, c, n))
  BY <1>13, <1>0 DEF Ask, Cast, Chooses, CloseEarly, EditPoll, Goto, KeepVote,
       LeaveList, MarkBoard, NoneOpen, ReadPoll, Refuse, Search, UserVote,
       Locks, TypePc, Writing, Removing, Swapping, list, files, clock, local, history
<1>2. CASE Copy(s)
  BY <1>2, <1>0 DEF Copy, Goto, Locks, TypePc, Writing, Removing, Swapping, list,
     files, clock, local, history
<1>3. CASE SwapAway(s)
  BY <1>3, <1>0 DEF SwapAway, Goto, Locks, TypePc, Writing, Removing, Swapping,
     list, files, clock, local, history
<1>4. CASE SwapIn(s)
  BY <1>4, <1>0 DEF SwapIn, Goto, Locks, TypePc, Writing, Removing, Swapping, list,
     files, clock, local, history
<1>5. CASE Killed(s)
  BY <1>5, <1>0 DEF Killed, Goto, Locks, TypePc, Writing, Removing, Swapping, list,
     files, clock, local, history
<1>6. CASE Recount(s)
  BY <1>6, <1>0 DEF Recount, Done, Goto, Locks, TypePc, Writing, Removing, Swapping,
     list, files, clock, local, history
<1>7. CASE Unmark(s)
  BY <1>7, <1>0 DEF Unmark, Done, Goto, Locks, TypePc, Writing, Removing, Swapping,
     list, files, clock, local, history
<1>8. CASE AppendPoll(s)
  BY <1>8, <1>0 DEF AppendPoll, Goto, BackTo, Locks, TypePc, Writing, Removing,
     Swapping, list, files, clock, local, history
<1>9. CASE AbandonPoll(s)
  BY <1>9, <1>0 DEF AbandonPoll, Goto, BackTo, Locks, TypePc, Writing, Removing,
     Swapping, list, files, clock, local, history
<1>10. CASE Login(s)
  BY <1>10, <1>0 DEF Login, Goto, Locks, TypePc, Writing, Removing, Swapping, list,
     files, clock, local, history
<1>11. CASE SweepPoll(s)
  BY <1>11, <1>0 DEF SweepPoll, ReadPoll, Goto, MoreToSweep, Locks, TypePc, Writing,
     Removing, Swapping, list, files, clock, local, history
<1>12. CASE EnterList(s)
  BY <1>12, <1>0 DEF EnterList, Goto, Locks, TypePc, Writing, Removing, Swapping,
     list, files, clock, local, history
<1> QED
  BY <1>1, <1>2, <1>3, <1>4, <1>5, <1>6, <1>7, <1>8, <1>9, <1>10, <1>11, <1>12,
     <1>13 DEF Act

LEMMA TimeStep ==
  ASSUME Typed, PollTime \/ (\E p \in Poll : Expire(p)) \/ UNCHANGED vars
  PROVE  Typed'
<1> USE DEF list, files, clock, local, history, vars
<1>1. TypeList' /\ TypePc' /\ TypePoll' /\ TypeAt'
  BY DEF Typed, PollTime, Expire, TypeList, TypePc, TypePoll, TypeAt
<1>2. Ranges' /\ TypeFlag' /\ TypeTally' /\ Locks'
  BY DEF Typed, PollTime, Expire, Ranges, TypeFlag, TypeTally, Locks
<1>3. TypeRest'
  BY DEF Typed, PollTime, Expire, TypeRest
<1> QED
  BY <1>1, <1>2, <1>3 DEF Typed

LEMMA StepTyped == Typed /\ [Next]_vars => Typed'
<1> SUFFICES ASSUME Typed, [Next]_vars PROVE Typed'
  OBVIOUS
<1>1. ASSUME NEW s \in Session, Step(s)
      PROVE  Typed'
  <2>1. Act(s)
    BY <1>1, StepActs
  <2>2. TypePc
    BY DEF Typed
  <2> QED
    BY <2>1, <2>2, StepList, StepPc, StepPoll, StepAt, StepRanges, StepFlag, StepRest,
       StepTally, StepLocks DEF Typed
<1> QED
  BY <1>1, TimeStep DEF Next

LEMMA InitTyped == Init => Typed
<1> SUFFICES ASSUME Init PROVE Typed
  OBVIOUS
<1>0. role.open \in 0..MaxPoll /\ MaxPoll \in Nat /\ role \in Roles
  BY VoteAssumption DEF Init
<1>1. TypeList
  <2>1. control = [i \in 1..role.open |-> i] /\ role.open \in Nat
    BY <1>0 DEF Init
  <2>2. control \in [1..role.open -> Poll]
    BY <1>0, <2>1 DEF Poll
  <2>3. control \in Seq(Poll)
    BY <2>1, <2>2, SeqDef
  <2> QED
    BY <2>3, EmptySeq DEF Init, TypeList, NoTmp
<1>2. TypePc /\ \A s \in Session : pc[s] \in {"out", "menu"}
  BY DEF Init, TypePc, Label
<1>6. TypePoll
  BY <1>0, <1>2 DEF Init, TypePoll
<1>7. TypeRest
  <2>1. results.poll = 0
    BY DEF Init, NoTally
  <2>2. voteflag \in BOOLEAN
    BY DEF Init
  <2> QED
    BY <1>0, <2>1, <2>2 DEF Init, TypeRest
<1>3. TypeAt
  BY Places DEF Init, TypeAt
<1>4. Ranges /\ Locks
  BY <1>2 DEF Init, Ranges, Locks, Writing, Removing, Swapping
<1>5. TypeFlag /\ TypeTally
  BY EmptySeq DEF Init, TypeFlag, TypeTally
<1> QED
  BY <1>1, <1>2, <1>3, <1>4, <1>5, <1>6, <1>7 DEF Typed

(* Everything that the proofs below take for granted of a state.             *)
THEOREM VoteTyped == Spec => []Typed
<1>1. Spec => Init /\ [][Next]_vars
  BY PTL DEF Spec
<1> QED
  BY <1>1, InitTyped, StepTyped, PTL

(* Every variable keeps its type, and at most one session holds flock on     *)
(* .dellock, in delete_record.                                               *)
THEOREM VoteTypeCorrect == Spec => []TypeOK
<1>1. Typed => TypeOK
  <2> SUFFICES ASSUME Typed PROVE TypeOK
    OBVIOUS
  <2>1. Cardinality(dellock) <= 1
    <3>1. CASE dellock = {}
      BY <3>1, FS_EmptySet
    <3>2. ASSUME NEW s, dellock = {s}
          PROVE  Cardinality(dellock) <= 1
      BY <3>2, FS_Singleton
    <3> QED
      BY <3>1, <3>2 DEF Typed, Locks
  <2>2. dellock \subseteq Session
    BY DEF Typed, Locks
  <2> QED
    BY <2>1, <2>2 DEF Typed, TypeOK, TypeList, TypePc, TypePoll, TypeAt, TypeFlag, TypeRest,
       TypeTally, Locks, Label, Place
<1> QED
  BY <1>1, VoteTyped, PTL

-----------------------------------------------------------------------------
(* The mark of the board                                                     *)

(* While a poll is open, or about to be, there is a mark and nobody is about  *)
(* to take it off.                                                          *)
Marked ==
  ((control # <<>> \/ Hidden) /\ ~unmarked) =>
    voteflag /\ \A q \in Session : pc[q] \notin {"none", "unmark"}

LEMMA StepMarked ==
  ASSUME Typed, Marked, NEW s \in Session, Act(s)
  PROVE  Marked'
<1>0. TypePc /\ TypeList /\ TypeAt /\ Ranges
  BY DEF Typed
<1>1. CASE LeaveList(s) \/ KeepVote(s) \/ Search(s) \/ Cast(s) \/ EditPoll(s) \/
          Refuse(s) \/ CloseEarly(s) \/ Drop(s) \/ SweepEnd(s) \/ Count(s) \/ Write(s)
          \/ PostVote(s) \/ PostOwn(s) \/ Unlink(s) \/ CopyRefused(s) \/ Logout(s) \/
          (\E n \in 1..MaxPoll : UserVote(s, n)) \/
          (\E n \in 1..MaxPoll, c \in {"early", "drop"} : Ask(s, c, n))
  BY <1>1, <1>0 DEF Ask, Cast, Chooses, CloseEarly, CopyRefused, Count, Drop,
       EditPoll, Goto, KeepVote, LeaveList, Logout, Post, PostOwn, PostVote,
       ReadPoll, Refuse, Search, SweepEnd, Unlink, UserVote, Write, Marked, Hidden,
       TypePc, Writing, Removing, Swapping, list, files, clock, local, history
<1>2. CASE EnterList(s)
  BY <1>2, <1>0 DEF EnterList, Goto, Marked, Hidden, TypePc, Writing, Removing,
     Swapping, list, files, clock, local, history
<1>3. CASE NoneOpen(s)
  BY <1>3, <1>0 DEF NoneOpen, Goto, Marked, Hidden, TypePc, Writing, Removing,
     Swapping, list, files, clock, local, history
<1>4. CASE MarkBoard(s)
  BY <1>4, <1>0 DEF MarkBoard, Goto, Marked, Hidden, TypePc, Writing, Removing,
     Swapping, list, files, clock, local, history
<1>5. CASE AppendPoll(s)
  BY <1>5, <1>0 DEF AppendPoll, Goto, BackTo, Marked, Hidden, TypePc, Writing,
     Removing, Swapping, list, files, clock, local, history
<1>6. CASE AbandonPoll(s)
  BY <1>6, <1>0 DEF AbandonPoll, Goto, BackTo, Marked, Hidden, TypePc, Writing,
     Removing, Swapping, list, files, clock, local, history
<1>7. CASE Copy(s)
  <2>1. at[s].num \in Nat /\ at[s].num >= 1
    BY <1>7, <1>0 DEF Copy, TypeAt, Place, Ranges, Removing
  <2>2. control = <<>> => Without(control, at[s].num) = <<>>
    BY <2>1 DEF Without, DeleteRecord
  <2>3. tmpfile'.recs = Without(control, at[s].num)
    BY <1>7 DEF Copy
  <2> QED
    BY <1>7, <1>0, <2>2, <2>3 DEF Copy, Goto, Marked, Hidden, TypePc, files
<1>8. CASE SwapAway(s)
  BY <1>8, <1>0 DEF SwapAway, Goto, Marked, Hidden, TypePc, Writing, Removing,
     Swapping, list, files, clock, local, history
<1>9. CASE SwapIn(s)
  BY <1>9, <1>0 DEF SwapIn, Goto, Marked, Hidden, NoTmp, TypePc, files
<1>10. CASE Recount(s)
  BY <1>10, <1>0 DEF Recount, NoneLeft, Done, Goto, Marked, Hidden, TypePc, list, files
<1>11. CASE Unmark(s)
  BY <1>11, <1>0 DEF Unmark, Done, Goto, Marked, Hidden, TypePc, Writing, Removing,
     Swapping, list, files, clock, local, history
<1>12. CASE Killed(s)
  BY <1>12, <1>0 DEF Killed, Goto, Marked, Hidden, TypePc, Writing, Removing,
     Swapping, list, files, clock, local, history
<1>13. CASE Login(s)
  BY <1>13, <1>0 DEF Login, Goto, Marked, Hidden, TypePc, Writing, Removing,
     Swapping, list, files, clock, local, history
<1>14. CASE SweepPoll(s)
  BY <1>14, <1>0 DEF SweepPoll, ReadPoll, Goto, MoreToSweep, Marked, Hidden, TypePc,
     Writing, Removing, Swapping, list, files, clock, local, history
<1> QED
  BY <1>1, <1>2, <1>3, <1>4, <1>5, <1>6, <1>7, <1>8, <1>9, <1>10, <1>11, <1>12, <1>13,
     <1>14 DEF Act

(* A board on which a poll is open has its mark, unless somebody who had      *)
(* found no poll took it off while one was opened or put back: setvoteflag    *)
(* goes before append_record, and the mark goes only with the last poll.     *)
THEOREM VoteMarkTells == Spec => []MarkTells
<1>1. Init => Marked
  <2> SUFFICES ASSUME Init PROVE Marked
    OBVIOUS
  <2>1. /\ \A s \in Session : pc[s] \in {"out", "menu"}
        /\ tmpfile.recs = <<>>
    BY DEF Init, NoTmp
  <2>2. control # <<>> => voteflag
    <3>1. control = [i \in 1..role.open |-> i] /\ role.open \in Nat
      BY VoteAssumption DEF Init
    <3>2. CASE role.open > 0
      BY <3>2 DEF Init
    <3>3. CASE role.open = 0
      <4>1. control = <<>>
        BY <3>1, <3>3
      <4> QED
        BY <4>1
    <3> QED
      BY <3>1, <3>2, <3>3
  <2> QED
    BY <2>1, <2>2 DEF Marked, Hidden
<1>2. Typed /\ Marked /\ [Next]_vars => Marked'
  <2> SUFFICES ASSUME Typed, Marked, [Next]_vars PROVE Marked'
    OBVIOUS
  <2>1. CASE PollTime \/ (\E p \in Poll : Expire(p)) \/ UNCHANGED vars
    BY <2>1 DEF PollTime, Expire, vars, list, files, clock, local, history, Marked, Hidden
  <2>2. ASSUME NEW s \in Session, Step(s)
        PROVE  Marked'
    BY <2>2, StepActs, StepMarked
  <2> QED
    BY <2>1, <2>2 DEF Next
<1>3. Marked => MarkTells
  BY DEF Marked, MarkTells
<1>4. Spec => Init /\ [][Next]_vars
  BY PTL DEF Spec
<1> QED
  BY <1>1, <1>2, <1>3, <1>4, VoteTyped, PTL

-----------------------------------------------------------------------------
(* Ballots                                                                   *)

Injects(S, T) == \E f \in [S -> T] : \A x, y \in S : f[x] = f[y] => x = y

LEMMA InjectsLess ==
  ASSUME NEW S, NEW T, Injects(S, T), NEW S1, S1 \subseteq S, NEW T1, T \subseteq T1
  PROVE  Injects(S1, T1)
<1>1. PICK f \in [S -> T] : \A x, y \in S : f[x] = f[y] => x = y
  BY DEF Injects
<1> DEFINE g == [x \in S1 |-> f[x]]
<1>2. g \in [S1 -> T1] /\ \A x, y \in S1 : g[x] = g[y] => x = y
  BY <1>1
<1> QED
  BY <1>2 DEF Injects

LEMMA InjectsOneMore ==
  ASSUME NEW S, NEW T, Injects(S, T), NEW x, NEW t, t \notin T
  PROVE  Injects(S \cup {x}, T \cup {t})
<1>1. PICK f \in [S -> T] : \A y, z \in S : f[y] = f[z] => y = z
  BY DEF Injects
<1> DEFINE g == [y \in S \cup {x} |-> IF y \in S THEN f[y] ELSE t]
<1>2. g \in [S \cup {x} -> T \cup {t}]
  BY <1>1
<1>3. \A y, z \in S \cup {x} : g[y] = g[z] => y = z
  BY <1>1
<1> QED
  BY <1>2, <1>3 DEF Injects

LEMMA InjectsBack ==
  ASSUME NEW S, NEW h
  PROVE  Injects({h[q] : q \in S}, S)
<1> DEFINE V == {h[q] : q \in S}
           g == [x \in V |-> CHOOSE q \in S : h[q] = x]
<1>1. \A x \in V : g[x] \in S /\ h[g[x]] = x
  OBVIOUS
<1>2. g \in [V -> S] /\ \A x, y \in V : g[x] = g[y] => x = y
  <2> HIDE DEF g, V
  <2>1. g = [x \in V |-> g[x]]
    BY DEF g
  <2> QED
    BY <1>1, <2>1
<1> HIDE DEF g, V
<1>3. Injects(V, S)
  BY <1>2 DEF Injects
<1> QED
  BY <1>3 DEF V

(* Who is about to cast a ballot, where the file has none of the account      *)
(* (Fresh) or at the place where it was found (Placed); and the places that   *)
(* have a ballot of the account or are about to.                            *)
Casting(s, p, a) == User[s] = a /\ pc[s] = "cast" /\ currvote[s] = p
Fresh(p, a) == {s \in Session : Casting(s, p, a) /\ at[s].pos = 0}
Placed(p, a) == {s \in Session : Casting(s, p, a) /\ at[s].pos > 0}
Claimed(p, a) == BallotsOf(p, a) \cup {at[s].pos : s \in Placed(p, a)}
SessionsOf(a) == {s \in Session : User[s] = a}

(* Each of these places has a session of its own, and none that is Fresh.    *)
Bounded ==
  \A p \in Poll, a \in Account :
    Injects(Claimed(p, a), SessionsOf(a) \ Fresh(p, a))

QuietVote ==
  /\ flag' = flag
  /\ \A q \in Session : pc'[q] = "cast" =>
       pc[q] = "cast" /\ at'[q].pos = at[q].pos /\ currvote'[q] = currvote[q]

LEMMA StepVotes ==
  ASSUME Typed, NEW s \in Session, Act(s)
  PROVE  QuietVote \/ Search(s) \/ Cast(s) \/ Unlink(s)
<1>0. TypePc /\ TypeAt /\ TypePoll
  BY DEF Typed
<1> USE DEF TypeAt, TypePoll
<1>1. CASE NoneOpen(s) \/ KeepVote(s) \/ MarkBoard(s) \/ Refuse(s) \/ CloseEarly(s) \/
          Drop(s) \/ Count(s) \/ Write(s) \/ PostVote(s) \/ PostOwn(s) \/ Copy(s) \/
          CopyRefused(s) \/ SwapAway(s) \/ SwapIn(s)
  BY <1>1, <1>0 DEF CloseEarly, Copy, CopyRefused, Count, Drop, Goto, KeepVote,
       MarkBoard, NoneOpen, Post, PostOwn, PostVote, Refuse, SwapAway, SwapIn,
       Write, QuietVote, TypePc, Writing, Removing, Swapping, list, files, clock,
       local, history
<1>2. CASE Search(s)
  BY <1>2
<1>3. CASE Cast(s)
  BY <1>3
<1>4. CASE Unlink(s)
  BY <1>4
<1>5. CASE EnterList(s)
  BY <1>5, <1>0 DEF EnterList, Goto, QuietVote, TypePc, Writing, Removing, Swapping,
     list, files, clock, local, history
<1>6. CASE LeaveList(s)
  BY <1>6, <1>0 DEF LeaveList, Goto, QuietVote, TypePc, Writing, Removing, Swapping,
     list, files, clock, local, history
<1>7. CASE Recount(s)
  BY <1>7, <1>0 DEF Recount, Done, Goto, QuietVote, TypePc, Writing, Removing,
     Swapping, list, files, clock, local, history
<1>8. CASE Unmark(s)
  BY <1>8, <1>0 DEF Unmark, Done, Goto, QuietVote, TypePc, Writing, Removing,
     Swapping, list, files, clock, local, history
<1>9. CASE AppendPoll(s)
  BY <1>9, <1>0 DEF AppendPoll, Goto, BackTo, QuietVote, TypePc, Writing, Removing,
     Swapping, list, files, clock, local, history
<1>10. CASE AbandonPoll(s)
  BY <1>10, <1>0 DEF AbandonPoll, Goto, BackTo, QuietVote, TypePc, Writing,
     Removing, Swapping, list, files, clock, local, history
<1>11. CASE Login(s)
  BY <1>11, <1>0 DEF Login, Goto, QuietVote, TypePc, Writing, Removing, Swapping,
     list, files, clock, local, history
<1>12. CASE SweepPoll(s)
  BY <1>12, <1>0 DEF SweepPoll, ReadPoll, Goto, MoreToSweep, QuietVote, TypePc,
     Writing, Removing, Swapping, list, files, clock, local, history
<1>13. CASE SweepEnd(s)
  BY <1>13, <1>0 DEF SweepEnd, Goto, QuietVote, TypePc, Writing, Removing, Swapping,
     list, files, clock, local, history
<1>14. ASSUME NEW n \in 1..MaxPoll, NEW c \in {"early", "drop"}, Ask(s, c, n)
      PROVE  QuietVote \/ Search(s) \/ Cast(s) \/ Unlink(s)
  BY <1>14, <1>0 DEF Ask, ReadPoll, Goto, Chooses, QuietVote, TypePc, Writing,
     Removing, Swapping, list, files, clock, local, history
<1>15. ASSUME NEW n \in 1..MaxPoll, UserVote(s, n)
      PROVE  QuietVote \/ Search(s) \/ Cast(s) \/ Unlink(s)
  BY <1>15, <1>0 DEF UserVote, ReadPoll, Goto, Chooses, QuietVote, TypePc, Writing,
     Removing, Swapping, list, files, clock, local, history
<1>16. CASE EditPoll(s)
  BY <1>16, <1>0 DEF EditPoll, Goto, QuietVote, TypePc, Writing, Removing, Swapping,
     list, files, clock, local, history
<1>17. CASE Logout(s)
  BY <1>17, <1>0 DEF Logout, Goto, QuietVote, TypePc, Writing, Removing, Swapping,
     list, files, clock, local, history
<1>18. CASE Killed(s)
  BY <1>18, <1>0 DEF Killed, Goto, QuietVote, TypePc, Writing, Removing, Swapping,
     list, files, clock, local, history
<1> QED
  BY <1>1, <1>2, <1>3, <1>4, <1>5, <1>6, <1>7, <1>8, <1>9, <1>10, <1>11, <1>12, <1>13,
     <1>14, <1>15, <1>16, <1>17, <1>18 DEF Act

(* What a cast does to the ballots of b: at most its own place is added.     *)
LEMMA CastPlaces ==
  ASSUME NEW f \in Seq(Account \cup {NoAccount}), NEW a \in Account, NEW b \in Account,
         NEW i \in Nat, NEW j \in 1..Len(CastAt(f, a, i)), CastAt(f, a, i)[j] = b
  PROVE  \/ j \in 1..Len(f) /\ f[j] = b
         \/ a = b /\ j = (IF i > 0 THEN i ELSE Len(f) + 1)
<1> DEFINE R == Account \cup {NoAccount}
<1>0. Len(f) \in Nat /\ f \in Seq(R) /\ a \in R /\ NoAccount \in R /\ b # NoAccount
  BY LenProperties, VoteAssumption
<1>a. \A k \in 1..Len(f) : f[k] \in R
  BY <1>0, ElementOfSeq
<1> HIDE DEF R
<1>1. CASE i > 0
  <2> DEFINE n == IF i > Len(f) THEN i ELSE Len(f)
             g == [k \in 1..n |-> IF k = i THEN a ELSE IF k <= Len(f) THEN f[k] ELSE NoAccount]
  <2>1. CastAt(f, a, i) = g
    BY <1>1 DEF CastAt, SubstituteRecord
  <2>2. n \in Nat
    BY <1>0
  <2>3. g \in [1..n -> R]
    BY <1>0, <1>a
  <2>4. g \in Seq(R)
    BY <2>2, <2>3, SeqDef
  <2>5. DOMAIN g = 1..Len(g) /\ DOMAIN g = 1..n
    BY <2>3, <2>4, LenProperties
  <2>6. j \in 1..n
    BY <2>1, <2>5
  <2>7. g[j] = IF j = i THEN a ELSE IF j <= Len(f) THEN f[j] ELSE NoAccount
    BY <2>6
  <2>8. g[j] = b
    BY <2>1
  <2> HIDE DEF g, n
  <2> QED
    BY <1>0, <1>1, <2>2, <2>6, <2>7, <2>8
<1>2. CASE ~(i > 0)
  <2>1. CastAt(f, a, i) = Append(f, a)
    BY <1>2 DEF CastAt, AppendRecord
  <2>2. /\ Len(Append(f, a)) = Len(f) + 1 /\ Append(f, a)[Len(f) + 1] = a
        /\ \A k \in 1..Len(f) : Append(f, a)[k] = f[k]
    BY <1>0, AppendProperties
  <2> QED
    BY <1>0, <1>2, <2>1, <2>2
<1> QED
  BY <1>1, <1>2

LEMMA BoundedStep ==
  ASSUME Typed, Bounded, NEW s \in Session, Act(s)
  PROVE  Bounded'
<1> SUFFICES ASSUME NEW p \in Poll, NEW a \in Account
             PROVE  Injects(Claimed(p, a)', SessionsOf(a) \ Fresh(p, a)')
  BY DEF Bounded, SessionsOf
<1>0. /\ TypePc /\ TypePoll /\ TypeAt /\ TypeFlag
      /\ Injects(Claimed(p, a), SessionsOf(a) \ Fresh(p, a))
  BY DEF Typed, Bounded
<1>1. ASSUME Claimed(p, a)' \subseteq Claimed(p, a), Fresh(p, a)' \subseteq Fresh(p, a)
      PROVE  Injects(Claimed(p, a)', SessionsOf(a) \ Fresh(p, a)')
  <2>1. SessionsOf(a) \ Fresh(p, a) \subseteq SessionsOf(a) \ Fresh(p, a)'
    BY <1>1
  <2> QED
    BY <1>0, <1>1, <2>1, InjectsLess
<1>2. ASSUME BallotsOf(p, a)' = {}
      PROVE  Injects(Claimed(p, a)', SessionsOf(a) \ Fresh(p, a)')
  <2> DEFINE h == [q \in Session |-> at'[q].pos]
             P == Placed(p, a)'
  <2>1. P \subseteq SessionsOf(a) \ Fresh(p, a)'
    BY DEF Placed, Fresh, SessionsOf, Casting
  <2>2. Claimed(p, a)' = {h[q] : q \in P}
    BY <1>2 DEF Claimed, Placed
  <2>3. Injects({h[q] : q \in P}, P)
    BY InjectsBack
  <2> QED
    BY <2>1, <2>2, <2>3, InjectsLess
<1>3. CASE QuietVote
  <2>1. Fresh(p, a)' \subseteq Fresh(p, a)
    BY <1>3 DEF QuietVote, Fresh, Casting
  <2>2. \A q \in Placed(p, a)' : q \in Placed(p, a) /\ at'[q].pos = at[q].pos
    BY <1>3 DEF QuietVote, Placed, Casting
  <2>3. BallotsOf(p, a)' = BallotsOf(p, a)
    BY <1>3 DEF QuietVote, BallotsOf
  <2>4. Claimed(p, a)' \subseteq Claimed(p, a)
    BY <2>2, <2>3 DEF Claimed
  <2> QED
    BY <1>1, <2>1, <2>4
<1>4. CASE Unlink(s)
  <2>1. CASE currvote[s] = p
    <3>1. flag'[p] = <<>>
      BY <1>0, <1>4, <2>1 DEF Unlink, TypeFlag
    <3>2. BallotsOf(p, a)' = {}
      BY <3>1, EmptySeq DEF BallotsOf
    <3> QED
      BY <1>2, <3>2
  <2>2. CASE currvote[s] # p
    <3>1. flag'[p] = flag[p]
      BY <1>0, <1>4, <2>2 DEF Unlink, TypeFlag
    <3>2. /\ BallotsOf(p, a)' = BallotsOf(p, a) /\ at' = at /\ currvote' = currvote
          /\ \A q \in Session : pc'[q] = "cast" => pc[q] = "cast"
      BY <1>0, <1>4, <3>1 DEF Unlink, Goto, BallotsOf, TypePc
    <3>3. Fresh(p, a)' \subseteq Fresh(p, a) /\ Placed(p, a)' \subseteq Placed(p, a)
      BY <3>2 DEF Fresh, Placed, Casting
    <3>4. Claimed(p, a)' \subseteq Claimed(p, a)
      BY <3>2, <3>3 DEF Claimed
    <3> QED
      BY <1>1, <3>3, <3>4
  <2> QED
    BY <2>1, <2>2
<1>5. CASE Search(s)
  <2> DEFINE i == SearchBallot(currvote[s], User[s])
  <2>1. /\ flag' = flag /\ currvote' = currvote /\ pc[s] = "box"
        /\ \A q \in Session \ {s} : at'[q] = at[q] /\ pc'[q] = pc[q]
        /\ at'[s].pos = i /\ pc'[s] = "cast"
    <3>1. /\ flag' = flag /\ currvote' = currvote /\ pc[s] = "box"
          /\ pc' = [pc EXCEPT ![s] = "cast"]
          /\ at' = [at EXCEPT ![s] = [at[s] EXCEPT !.pos = i]]
      BY <1>5 DEF Search, Goto, files
    <3> HIDE DEF i
    <3>2. [at[s] EXCEPT !.pos = i].pos = i
      BY <1>0 DEF TypeAt, Place
    <3>3. at'[s] = [at[s] EXCEPT !.pos = i]
      BY <1>0, <3>1 DEF TypeAt
    <3> QED
      BY <1>0, <3>1, <3>2, <3>3 DEF TypeAt, TypePc
  <2>2. BallotsOf(p, a)' = BallotsOf(p, a)
    BY <2>1 DEF BallotsOf
  <2>3. /\ BallotsOf(currvote[s], User[s]) = {} => i = 0
        /\ BallotsOf(currvote[s], User[s]) # {} => i \in BallotsOf(currvote[s], User[s])
    BY <1>0, SearchBallotFinds DEF TypePoll
  <2>4. CASE BallotsOf(p, a) = {}
    BY <1>2, <2>2, <2>4
  <2>5. CASE ~(User[s] = a /\ currvote[s] = p)
    <3>1. \A q \in Session : Casting(q, p, a)' => Casting(q, p, a) /\ at'[q] = at[q]
      BY <2>1, <2>5 DEF Casting
    <3>2. Fresh(p, a)' \subseteq Fresh(p, a) /\ Placed(p, a)' \subseteq Placed(p, a)
      BY <3>1 DEF Fresh, Placed
    <3>3. \A q \in Placed(p, a)' : at'[q].pos = at[q].pos
      BY <3>1 DEF Placed
    <3>4. Claimed(p, a)' \subseteq Claimed(p, a)
      BY <2>2, <3>2, <3>3 DEF Claimed
    <3> QED
      BY <1>1, <3>2, <3>4
  <2>6. CASE BallotsOf(p, a) # {} /\ User[s] = a /\ currvote[s] = p
    <3>1. i \in BallotsOf(p, a) /\ i # 0
      BY <2>3, <2>6 DEF BallotsOf
    <3>2. Fresh(p, a)' \subseteq Fresh(p, a)
      BY <2>1, <3>1 DEF Fresh, Casting
    <3>3. \A q \in Placed(p, a)' : q = s \/ (q \in Placed(p, a) /\ at'[q].pos = at[q].pos)
      BY <2>1 DEF Placed, Casting
    <3>4. Claimed(p, a)' \subseteq Claimed(p, a)
      BY <2>1, <2>2, <3>1, <3>3 DEF Claimed
    <3> QED
      BY <1>1, <3>2, <3>4
  <2> QED
    BY <2>4, <2>5, <2>6
<1>6. CASE Cast(s)
  <2> DEFINE u == User[s]
             i == at[s].pos
             f == flag[p]
             g == CastAt(f, u, i)
             x == IF i > 0 THEN i ELSE Len(f) + 1
  <2>0. u \in Account /\ i \in Nat /\ f \in Seq(Account \cup {NoAccount})
    BY <1>0, VoteAssumption DEF TypeAt, Place, TypeFlag
  <2>1. /\ currvote' = currvote /\ pc[s] = "cast" /\ pc'[s] = "list"
        /\ \A q \in Session \ {s} : at'[q] = at[q] /\ pc'[q] = pc[q]
        /\ flag'[p] = IF currvote[s] = p THEN g ELSE f
    BY <1>0, <1>6 DEF Cast, Goto, TypeAt, TypePc, TypeFlag
  <2>2. \A q \in Session : Casting(q, p, a)' => q # s /\ Casting(q, p, a) /\ at'[q] = at[q]
    BY <2>1 DEF Casting
  <2>3. /\ Fresh(p, a)' \subseteq Fresh(p, a) \ {s}
        /\ \A q \in Placed(p, a)' : q \in Placed(p, a) /\ at'[q].pos = at[q].pos
    BY <2>2 DEF Fresh, Placed
  <2>4. CASE currvote[s] # p
    <3>1. BallotsOf(p, a)' = BallotsOf(p, a)
      BY <2>1, <2>4 DEF BallotsOf
    <3>2. Claimed(p, a)' \subseteq Claimed(p, a)
      BY <2>3, <3>1 DEF Claimed
    <3> QED
      BY <1>1, <2>3, <3>2
  <2>5. CASE currvote[s] = p
    <3>1. flag'[p] = g
      BY <2>1, <2>5
    <3>2. ASSUME NEW j \in BallotsOf(p, a)'
          PROVE  j \in BallotsOf(p, a) \/ (u = a /\ j = x)
      <4>1. j \in 1..Len(g) /\ g[j] = a
        BY <3>1 DEF BallotsOf
      <4> HIDE DEF g, f, i
      <4>2. \/ j \in 1..Len(f) /\ f[j] = a
            \/ u = a /\ j = x
        BY <2>0, <4>1, CastPlaces DEF g
      <4> QED
        BY <4>2 DEF BallotsOf, f
    <3>3. CASE u # a
      <4>1. Claimed(p, a)' \subseteq Claimed(p, a)
        BY <2>3, <3>2, <3>3 DEF Claimed
      <4> QED
        BY <1>1, <2>3, <4>1
    <3>4. CASE u = a /\ i > 0
      <4>1. x \in Claimed(p, a)
        BY <2>1, <2>5, <3>4 DEF Claimed, Placed, Casting
      <4>2. Claimed(p, a)' \subseteq Claimed(p, a)
        BY <2>3, <3>2, <4>1 DEF Claimed
      <4> QED
        BY <1>1, <2>3, <4>2
    <3>5. CASE u = a /\ ~(i > 0)
      <4>1. s \in Fresh(p, a) /\ s \in SessionsOf(a)
        BY <2>0, <2>1, <2>5, <3>5 DEF Fresh, Casting, SessionsOf
      <4>2. Injects(Claimed(p, a) \cup {x}, (SessionsOf(a) \ Fresh(p, a)) \cup {s})
        BY <1>0, <4>1, InjectsOneMore
      <4>3. Claimed(p, a)' \subseteq Claimed(p, a) \cup {x}
        BY <2>3, <3>2 DEF Claimed
      <4>4. (SessionsOf(a) \ Fresh(p, a)) \cup {s} \subseteq SessionsOf(a) \ Fresh(p, a)'
        BY <2>3, <4>1
      <4> QED
        BY <4>2, <4>3, <4>4, InjectsLess
    <3> QED
      BY <3>3, <3>4, <3>5
  <2> QED
    BY <2>4, <2>5
<1> QED
  BY <1>3, <1>4, <1>5, <1>6, StepVotes

LEMMA InitBounded == Init => Bounded
<1> SUFFICES ASSUME Init, NEW p \in Poll, NEW a \in Account
             PROVE  Injects(Claimed(p, a), SessionsOf(a) \ Fresh(p, a))
  BY DEF Bounded
<1>1. flag[p] = <<>> /\ \A s \in Session : pc[s] \in {"out", "menu"}
  BY DEF Init
<1>2. BallotsOf(p, a) = {}
  BY <1>1, EmptySeq DEF BallotsOf
<1>3. Placed(p, a) = {}
  BY <1>1 DEF Placed, Casting
<1>4. Claimed(p, a) = {}
  BY <1>2, <1>3 DEF Claimed
<1> DEFINE h == [q \in {} |-> q]
<1>5. {h[q] : q \in {}} = {} /\ Injects({h[q] : q \in {}}, {})
  BY InjectsBack
<1> QED
  BY <1>4, <1>5, InjectsLess

(* However often they vote, and though a ballot is searched and cast in two   *)
(* steps and the file may be unlinked in between, the sessions of an account  *)
(* put no more ballots in a poll than they are.                             *)
THEOREM VoteBallotsPerAccount ==
  IsFiniteSet(Session) => (Spec => []BallotsPerAccount)
<1> SUFFICES ASSUME IsFiniteSet(Session) PROVE Spec => []BallotsPerAccount
  OBVIOUS
<1>1. Typed /\ Bounded /\ [Next]_vars => Bounded'
  <2> SUFFICES ASSUME Typed, Bounded, [Next]_vars PROVE Bounded'
    OBVIOUS
  <2>1. CASE PollTime \/ (\E p \in Poll : Expire(p)) \/ UNCHANGED vars
    <3>1. flag' = flag /\ pc' = pc /\ currvote' = currvote /\ at' = at
      BY <2>1 DEF PollTime, Expire, vars, list, files, clock, local, history
    <3> QED
      BY <3>1 DEF Bounded, Claimed, BallotsOf, Placed, Fresh, Casting, SessionsOf
  <2>2. ASSUME NEW s \in Session, Step(s)
        PROVE  Bounded'
    BY <2>2, StepActs, BoundedStep
  <2> QED
    BY <2>1, <2>2 DEF Next
<1>2. Bounded => BallotsPerAccount
  <2> SUFFICES ASSUME Bounded, NEW p \in Poll, NEW a \in Account
               PROVE  Cardinality(BallotsOf(p, a)) <= Cardinality({s \in Session : User[s] = a})
    BY DEF BallotsPerAccount
  <2> DEFINE B == BallotsOf(p, a)
             V == {s \in Session : User[s] = a}
  <2>1. Injects(Claimed(p, a), SessionsOf(a) \ Fresh(p, a))
    BY DEF Bounded
  <2>2. B \subseteq Claimed(p, a) /\ SessionsOf(a) \ Fresh(p, a) \subseteq V
    BY DEF Claimed, SessionsOf
  <2>3. Injects(B, V)
    BY <2>1, <2>2, InjectsLess
  <2>4. IsFiniteSet(V)
    BY FS_Subset
  <2> HIDE DEF B, V
  <2>5. PICK f \in [B -> V] : \A x, y \in B : f[x] = f[y] => x = y
    BY <2>3 DEF Injects
  <2>6. f \in Injection(B, V)
    BY <2>5 DEF Injection, IsInjective
  <2>7. Cardinality(B) <= Cardinality(V)
    BY <2>4, <2>6, FS_Injection
  <2> QED
    BY <2>7 DEF B, V
<1>3. Spec => Init /\ [][Next]_vars
  BY PTL DEF Spec
<1> QED
  BY <1>1, <1>2, <1>3, InitBounded, VoteTyped, PTL

-----------------------------------------------------------------------------
(* Results.  A poll leaves the list only by the hand of who has dropped it or *)
(* posted its results, as long as his number still means it.                *)
Deciding == {"early", "drop"}
Late == {"unlink", "copy", "away"}
Printing == Writing \ {"count"}
Acting == {"cast"} \cup Deciding \cup Writing \cup Removing \cup Swapping

On(b, p) == \E r \in posted : r[1] = b /\ r[2].poll = p
OnBoth(p) == On("vote", p) /\ On("own", p)

(* There are records in .tmpfile only while it exists.                       *)
TmpEmpty == ~tmpfile.exists => tmpfile.recs = <<>>

(* A number that is not out of date is that of the poll it was read with.     *)
RightNumber(s) ==
  (s \notin stale /\ pc[s] \in Deciding \cup Writing \cup Removing) =>
    at[s].num \in 1..Len(control) /\ control[at[s].num] = currvote[s]

(* One session at a time prints results, and the file has what it writes.     *)
OnePrints == ~mixed => \A s, q \in Session :
  pc[s] \in Printing /\ pc[q] \in Printing => s = q

Printed(s) == ~mixed =>
  /\ pc[s] \in {"postvote", "postown"} => results.poll = currvote[s]
  /\ pc[s] = "postown" => On("vote", currvote[s])
  /\ pc[s] \in Late => currvote[s] \in dropped \/ OnBoth(currvote[s])

(* What a copy of the list has not: the poll to be removed, and what was      *)
(* opened since the copy was made.                                          *)
Left(s) ==
  /\ pc[s] = "away" => Polls(control) \subseteq Polls(tmpfile.recs) \cup astray \cup {currvote[s]}
  /\ pc[s] = "in" => Polls(control) \subseteq astray

Reported == /\ TmpEmpty /\ OnePrints /\ ResultsPosted
            /\ \A s \in Session : RightNumber(s) /\ Printed(s) /\ Left(s)

(* Ballots.  Whose ballot counts: it was cast while the poll was open, and    *)
(* nothing excuses its loss.                                                *)
Voted(p) == {a \in Account : <<p, a>> \in told \ late}
Excused(p) == p \in dropped \cup astray \/ mixed
InPost(p, a) ==
  \E r \in posted : r[1] = "own" /\ r[2].poll = p /\ a \in Polls(r[2].ballots)

(* The place where a session is about to write its ballot again is its own.   *)
PlaceKept(s) ==
  (pc[s] = "cast" /\ at[s].pos > 0 /\ currvote[s] \in Poll \ torn) =>
    at[s].pos \in BallotsOf(currvote[s], User[s])

TornPosted == \A p \in Poll \cap torn : \A a \in Voted(p) : InPost(p, a) \/ Excused(p)

(* From the count to the announcement no ballot gets lost.                   *)
Carried(s) == \A a \in Voted(currvote[s]) :
  InPost(currvote[s], a) \/ Excused(currvote[s]) \/
    /\ pc[s] = "write" => a \in Polls(tally[s])
    /\ pc[s] \in {"postvote", "postown"} => a \in Polls(results.ballots)
    /\ pc[s] \notin Late

CountKept == /\ TornPosted /\ BallotCounted
             /\ \A s \in Session : PlaceKept(s) /\ (currvote[s] \in Poll => Carried(s))

(* The steps by what they do to the list, the results and the ballots.        *)
Alone(s) == \A q \in Session \ {s} :
  /\ pc'[q] = pc[q] /\ currvote'[q] = currvote[q]
  /\ at'[q] = at[q] /\ tally'[q] = tally[q]

Same == <<control, tmpfile, flag, results, posted, opened, told, late, mixed, astray, dropped, torn>>

Calm(s) ==
  /\ UNCHANGED Same /\ pc'[s] \notin Acting
  /\ \A q \in Session \ {s} : q \in stale' <=> q \in stale

Asked(s) ==
  /\ UNCHANGED Same /\ pc'[s] \in Deciding \cup {"count"}
  /\ \A q \in Session \ {s} : q \in stale' <=> q \in stale
  /\ s \notin stale' =>
       at'[s].num \in 1..Len(control) /\ control[at'[s].num] = currvote'[s]

Kept(s) == pc' = [pc EXCEPT ![s] = pc'[s]] /\ currvote' = currvote /\ at' = at

Form(s) ==
  \/ Calm(s) \/ Asked(s) \/ AppendPoll(s) \/ Search(s) \/ Cast(s)
  \/ CloseEarly(s) \/ Drop(s) \/ Count(s) \/ Write(s) \/ PostVote(s) \/ PostOwn(s)
  \/ Unlink(s) \/ Copy(s) \/ SwapAway(s) \/ SwapIn(s)

LEMMA StepAlone ==
  ASSUME Typed, NEW s \in Session, Act(s)
  PROVE  Alone(s)
<1>0. /\ pc \in [Session -> Label] /\ currvote \in [Session -> {0} \cup Poll]
      /\ at \in [Session -> Place] /\ tally \in [Session -> Seq(Account \cup {NoAccount})]
  BY DEF Typed, TypePc, TypePoll, TypeAt, TypeTally
<1> DEFINE Kind(f, g) == \A q \in Session \ {s} : g[q] = f[q]
<1>1. Kind(pc, pc')
  BY <1>0 DEF Act, EnterList, NoneOpen, LeaveList, UserVote, KeepVote, Search, Cast,
     EditPoll, AbandonPoll, MarkBoard, AppendPoll, Ask, Refuse, CloseEarly, Drop,
     Login, SweepPoll, SweepEnd, Count, Write, PostVote, PostOwn, Post, Unlink,
     Copy, CopyRefused, SwapAway, SwapIn, Recount, Unmark, Logout, Killed, ReadPoll,
     Done, Goto, list, files, clock, local, history
<1>2. Kind(currvote, currvote')
  BY <1>0 DEF Act, EnterList, NoneOpen, LeaveList, UserVote, KeepVote, Search, Cast,
     EditPoll, AbandonPoll, MarkBoard, AppendPoll, Ask, Refuse, CloseEarly, Drop,
     Login, SweepPoll, SweepEnd, Count, Write, PostVote, PostOwn, Post, Unlink,
     Copy, CopyRefused, SwapAway, SwapIn, Recount, Unmark, Logout, Killed, ReadPoll,
     Done, Goto, list, files, clock, local, history
<1>3. Kind(at, at')
  BY <1>0 DEF Act, EnterList, NoneOpen, LeaveList, UserVote, KeepVote, Search, Cast,
     EditPoll, AbandonPoll, MarkBoard, AppendPoll, Ask, Refuse, CloseEarly, Drop,
     Login, SweepPoll, SweepEnd, Count, Write, PostVote, PostOwn, Post, Unlink,
     Copy, CopyRefused, SwapAway, SwapIn, Recount, Unmark, Logout, Killed, ReadPoll,
     Done, Goto, list, files, clock, local, history
<1>4. Kind(tally, tally')
  BY <1>0 DEF Act, EnterList, NoneOpen, LeaveList, UserVote, KeepVote, Search, Cast,
     EditPoll, AbandonPoll, MarkBoard, AppendPoll, Ask, Refuse, CloseEarly, Drop,
     Login, SweepPoll, SweepEnd, Count, Write, PostVote, PostOwn, Post, Unlink,
     Copy, CopyRefused, SwapAway, SwapIn, Recount, Unmark, Logout, Killed, ReadPoll,
     Done, Goto, list, files, clock, local, history
<1> QED
  BY <1>1, <1>2, <1>3, <1>4 DEF Alone

LEMMA StepForm ==
  ASSUME Typed, NEW s \in Session, Act(s)
  PROVE  Form(s)
<1>0. /\ pc \in [Session -> Label] /\ currvote \in [Session -> {0} \cup Poll]
      /\ at \in [Session -> Place] /\ control \in Seq(Poll)
  BY DEF Typed, TypePc, TypePoll, TypeAt, TypeList
<1> USE DEF Form
<1>1. CASE EnterList(s)
  BY <1>1, <1>0 DEF EnterList, Goto, Calm, Same, Acting, Deciding, Writing,
     Removing, Swapping, list, files, clock, local, history
<1>2. CASE NoneOpen(s)
  BY <1>2, <1>0 DEF NoneOpen, Goto, Calm, Same, Acting, Deciding, Writing, Removing,
     Swapping, list, files, clock, local, history
<1>3. CASE LeaveList(s)
  BY <1>3, <1>0 DEF LeaveList, Goto, Calm, Same, Acting, Deciding, Writing,
     Removing, Swapping, list, files, clock, local, history
<1>4. CASE KeepVote(s)
  BY <1>4, <1>0 DEF KeepVote, Goto, Calm, Same, Acting, Deciding, Writing, Removing,
     Swapping, list, files, clock, local, history
<1>5. CASE EditPoll(s)
  BY <1>5, <1>0 DEF EditPoll, Goto, Calm, Same, Acting, Deciding, Writing, Removing,
     Swapping, list, files, clock, local, history
<1>6. CASE AbandonPoll(s)
  BY <1>6, <1>0 DEF AbandonPoll, Goto, BackTo, Calm, Same, Acting, Deciding,
     Writing, Removing, Swapping, list, files, clock, local, history
<1>7. CASE MarkBoard(s)
  BY <1>7, <1>0 DEF MarkBoard, Goto, Calm, Same, Acting, Deciding, Writing,
     Removing, Swapping, list, files, clock, local, history
<1>8. CASE Refuse(s)
  BY <1>8, <1>0 DEF Refuse, Goto, Calm, Same, Acting, Deciding, Writing, Removing,
     Swapping, list, files, clock, local, history
<1>9. CASE Login(s)
  BY <1>9, <1>0 DEF Login, Goto, Calm, Same, Acting, Deciding, Writing, Removing,
     Swapping, list, files, clock, local, history
<1>10. CASE SweepEnd(s)
  BY <1>10, <1>0 DEF SweepEnd, Goto, Calm, Same, Acting, Deciding, Writing,
     Removing, Swapping, list, files, clock, local, history
<1>11. CASE Recount(s)
  BY <1>11, <1>0 DEF Recount, Goto, Done, Calm, Same, Acting, Deciding, Writing,
     Removing, Swapping, list, files, clock, local, history
<1>12. CASE Unmark(s)
  BY <1>12, <1>0 DEF Unmark, Goto, Done, Calm, Same, Acting, Deciding, Writing,
     Removing, Swapping, list, files, clock, local, history
<1>13. CASE Logout(s)
  BY <1>13, <1>0 DEF Logout, Goto, Calm, Same, Acting, Deciding, Writing, Removing,
     Swapping, list, files, clock, local, history
<1>14. CASE Killed(s)
  BY <1>14, <1>0 DEF Killed, Goto, Calm, Same, Acting, Deciding, Writing, Removing,
     Swapping, list, files, clock, local, history
<1>15. CASE CopyRefused(s)
  BY <1>15, <1>0 DEF CopyRefused, Goto, Calm, Same, Acting, Deciding, Writing,
     Removing, Swapping, list, files, clock, local, history
<1>40. ASSUME NEW n \in 1..MaxPoll, UserVote(s, n)
       PROVE  Calm(s)
  BY <1>40, <1>0 DEF UserVote, ReadPoll, Goto, Chooses, Calm, Same, Acting, Deciding,
     Writing, Removing, Swapping, list, files, clock, local, history
<1>41. ASSUME NEW n \in 1..MaxPoll, NEW c \in {"early", "drop"}, Ask(s, c, n)
       PROVE  Asked(s)
  <2>1. at[s] \in Place /\ [at[s] EXCEPT !.num = n].num = n
    BY <1>0 DEF Place
  <2>2. at'[s].num = n
    BY <1>41, <1>0, <2>1 DEF Ask
  <2> QED
    BY <1>41, <1>0, <2>2 DEF Ask, ReadPoll, Goto, Chooses, Asked, Same, Deciding,
       list, files, clock, local, history
<1>42. CASE SweepPoll(s)
  <2>0. at[s] \in Place
    BY <1>0
  <2>1. CASE Closes(currvote'[s])
    BY <1>42, <1>0, <2>1 DEF SweepPoll, ReadPoll, Goto, Asked, Same, Deciding,
       list, files, clock, local, history
  <2>2. CASE ~Closes(currvote'[s])
    BY <1>42, <1>0, <2>2 DEF SweepPoll, ReadPoll, Goto, Calm, Same, Acting, Deciding,
       Writing, Removing, Swapping, list, files, clock, local, history
  <2> QED
    BY <2>1, <2>2
<1> QED
  BY <1>1, <1>2, <1>3, <1>4, <1>5, <1>6, <1>7, <1>8, <1>9, <1>10, <1>11,
     <1>12, <1>13, <1>14, <1>15, <1>40, <1>41, <1>42 DEF Act

(* delete_record loses nothing but the record with the number.               *)
LEMMA DeletedKeeps ==
  ASSUME NEW R, NEW f \in Seq(R), NEW n \in Nat \ {0}, NEW i \in 1..Len(f), i # n
  PROVE  f[i] \in Polls(DeleteRecord(f, n))
<1>0. Len(f) \in Nat
  BY LenProperties
<1>1. CASE n <= Len(f)
  <2> DEFINE d == DropRecord(f, n)
  <2>1. /\ Len(d) = Len(f) - 1
        /\ \A k \in 1..(Len(f) - 1) : d[k] = IF k < n THEN f[k] ELSE f[k + 1]
    BY <1>0, <1>1, DropRecordProperties
  <2>2. DeleteRecord(f, n) = d
    BY <1>1 DEF DeleteRecord
  <2> HIDE DEF d
  <2>3. CASE i < n
    <3>1. i \in 1..(Len(f) - 1) /\ d[i] = f[i]
      BY <1>0, <1>1, <2>1, <2>3
    <3> QED
      BY <2>1, <2>2, <3>1 DEF Polls
  <2>4. CASE ~(i < n)
    <3>1. i - 1 \in 1..(Len(f) - 1) /\ ~(i - 1 < n) /\ (i - 1) + 1 = i
      BY <1>0, <2>4
    <3>2. d[i - 1] = f[i]
      BY <2>1, <3>1
    <3> QED
      BY <2>1, <2>2, <3>1, <3>2 DEF Polls
  <2> QED
    BY <2>3, <2>4
<1>2. CASE ~(n <= Len(f))
  BY <1>2 DEF DeleteRecord, Polls
<1> QED
  BY <1>1, <1>2

LEMMA StepTmpEmpty ==
  ASSUME Typed, TmpEmpty, NEW s \in Session, Act(s)
  PROVE  TmpEmpty'
<1>1. Form(s)
  BY StepForm
<1>2. CASE Copy(s) \/ SwapIn(s)
  BY <1>2 DEF Copy, SwapIn, TmpEmpty, NoTmp
<1>3. CASE ~(Copy(s) \/ SwapIn(s))
  <2>1. tmpfile' = tmpfile
    BY <1>1, <1>3 DEF Form, Calm, Asked, Same, AppendPoll, Search, Cast, CloseEarly, Drop,
       Count, Write, PostVote, PostOwn, Post, Unlink, SwapAway, list, files, clock
  <2> QED
    BY <2>1 DEF TmpEmpty
<1> QED
  BY <1>2, <1>3

(* What goes on inside a command changes neither the list nor the numbers.    *)
Onward(s) ==
  /\ pc[s] \in Deciding \cup Writing \cup Removing /\ pc'[s] \in Writing \cup Removing
  /\ UNCHANGED <<control, tmpfile, stale, currvote, at, opened, told, late, astray, torn>>

LEMMA StepOnward ==
  ASSUME Typed, NEW s \in Session,
         CloseEarly(s) \/ Drop(s) \/ Count(s) \/ Write(s) \/ PostVote(s) \/ PostOwn(s)
  PROVE  Onward(s)
<1>0. pc \in [Session -> Label]
  BY DEF Typed, TypePc
<1> QED
  BY <1>0 DEF CloseEarly, Drop, Count, Write, PostVote, PostOwn, Post, Goto, Onward,
     Deciding, Writing, Removing, list, files, clock, local, history

LEMMA StepUnlink ==
  ASSUME Typed, NEW s \in Session, Unlink(s)
  PROVE  /\ pc[s] = "unlink" /\ pc'[s] = "copy"
         /\ UNCHANGED <<control, tmpfile, stale, currvote, at, opened, told, late, astray,
                        results, posted, mixed, dropped, tally>>
         /\ \A p \in Poll : flag'[p] = IF p = currvote[s] THEN <<>> ELSE flag[p]
<1>0. pc \in [Session -> Label] /\ TypeFlag
  BY DEF Typed, TypePc
<1> QED
  BY <1>0 DEF Unlink, Goto, TypeFlag, list, files, clock, local, history

(* The steps that replace the list.                                          *)
LEMMA StepSwap ==
  ASSUME Typed, NEW s \in Session, Copy(s) \/ SwapAway(s) \/ SwapIn(s)
  PROVE  /\ UNCHANGED <<flag, results, posted, opened, told, late, mixed, dropped, torn,
                        currvote, at, tally>>
         /\ Copy(s) => pc[s] = "copy" /\ pc'[s] = "away" /\ control' = control /\ stale' = stale
         /\ SwapAway(s) => pc[s] = "away" /\ pc'[s] = "in" /\ control' = <<>>
         /\ SwapIn(s) => pc[s] = "in" /\ pc'[s] = "recount" /\ control' = tmpfile.recs
                         /\ tmpfile' = NoTmp
         /\ SwapAway(s) \/ SwapIn(s) => astray' = astray /\ stale' = stale \cup (Session \ {s})
         /\ SwapAway(s) => tmpfile' = tmpfile
<1>0. pc \in [Session -> Label]
  BY DEF Typed, TypePc
<1> QED
  BY <1>0 DEF Copy, SwapAway, SwapIn, Goto, list, files, clock, local, history

(* A poll is put at the end of the list.                                     *)
LEMMA StepAppend ==
  ASSUME Typed, NEW s \in Session, AppendPoll(s)
  PROVE  /\ pc[s] = "append" /\ pc'[s] \in {"menu", "list"}
         /\ UNCHANGED <<tmpfile, flag, results, posted, told, late, mixed, dropped, torn,
                        currvote, tally>>
         /\ control' = Append(control, currvote[s]) /\ opened' = opened \cup {currvote[s]}
         /\ astray \subseteq astray' /\ stale \subseteq stale'
         /\ (\E q \in Session : pc[q] \in Swapping) => currvote[s] \in astray'
         /\ Len(control) \in Nat /\ Len(control') = Len(control) + 1
         /\ control'[Len(control) + 1] = currvote[s]
         /\ \A i \in 1..Len(control) : control'[i] = control[i]
         /\ Polls(control') = Polls(control) \cup {currvote[s]}
<1>0. pc \in [Session -> Label] /\ control \in Seq(Poll) /\ currvote[s] \in Poll
  BY DEF Typed, TypePc, TypeList, TypePoll, AppendPoll
<1>1. /\ pc[s] = "append" /\ pc'[s] \in {"menu", "list"}
      /\ UNCHANGED <<tmpfile, flag, results, posted, told, late, mixed, dropped, torn,
                     currvote, tally>>
      /\ control' = Append(control, currvote[s]) /\ opened' = opened \cup {currvote[s]}
      /\ astray \subseteq astray' /\ stale \subseteq stale'
      /\ (\E q \in Session : pc[q] \in Swapping) => currvote[s] \in astray'
  BY <1>0 DEF AppendPoll, AppendRecord, BackTo, Goto, list, files, clock
<1>2. /\ Len(control) \in Nat /\ Len(control') = Len(control) + 1
      /\ control'[Len(control) + 1] = currvote[s]
      /\ \A i \in 1..Len(control) : control'[i] = control[i]
  BY <1>0, <1>1, LenProperties, AppendProperties
<1> HIDE DEF AppendPoll
<1>3. Polls(control') = Polls(control) \cup {currvote[s]}
  <2>1. Polls(control') \subseteq Polls(control) \cup {currvote[s]}
    <3> SUFFICES ASSUME NEW i \in 1..Len(control')
                 PROVE  control'[i] \in Polls(control) \cup {currvote[s]}
      BY DEF Polls
    <3>1. i \in 1..Len(control) \/ i = Len(control) + 1
      BY <1>2
    <3> QED
      BY <1>2, <3>1 DEF Polls
  <2>2. Polls(control) \subseteq Polls(control')
    <3> SUFFICES ASSUME NEW i \in 1..Len(control)
                 PROVE  control[i] \in Polls(control')
      BY DEF Polls
    <3>1. i \in 1..Len(control')
      BY <1>2
    <3> QED
      BY <1>2, <3>1 DEF Polls
  <2>3. currvote[s] \in Polls(control')
    <3>1. Len(control) + 1 \in 1..Len(control')
      BY <1>2
    <3> QED
      BY <1>2, <3>1 DEF Polls
  <2> QED
    BY <2>1, <2>2, <2>3
<1> QED
  BY <1>1, <1>2, <1>3

LEMMA StepCast ==
  ASSUME Typed, NEW s \in Session, Search(s) \/ Cast(s)
  PROVE  /\ pc'[s] \in {"cast", "list"} /\ pc[s] \in {"box", "cast"}
         /\ UNCHANGED <<control, tmpfile, stale, currvote, opened, astray, results, posted,
                        mixed, dropped, tally, torn>>
<1>0. pc \in [Session -> Label]
  BY DEF Typed, TypePc
<1> QED
  BY <1>0 DEF Search, Cast, Goto, list, files, clock, local, history

LEMMA StepRightNumber ==
  ASSUME Typed, NEW s \in Session, Act(s), NEW q \in Session, RightNumber(q)
  PROVE  RightNumber(q)'
<1>0. Form(s) /\ Alone(s)
  BY StepForm, StepAlone
<1> USE DEF RightNumber
<1>1. CASE Calm(s)
  BY <1>0, <1>1 DEF Calm, Alone, Same, Acting
<1>2. CASE Asked(s)
  BY <1>0, <1>2 DEF Asked, Alone, Same
<1>3. CASE Onward(s) \/ Unlink(s)
  BY <1>0, <1>3, StepUnlink DEF Onward, Alone, Removing
<1>4. CASE Search(s) \/ Cast(s)
  BY <1>0, <1>4, StepCast DEF Alone, Deciding, Writing, Removing
<1>5. CASE Copy(s) \/ SwapAway(s) \/ SwapIn(s)
  BY <1>0, <1>5, StepSwap DEF Alone, Deciding, Writing, Removing
<1>6. CASE AppendPoll(s)
  BY <1>0, <1>6, StepAppend DEF Alone, Deciding, Writing, Removing
<1> QED
  BY <1>0, <1>1, <1>2, <1>3, <1>4, <1>5, <1>6, StepOnward DEF Form

LEMMA StepPrint ==
  ASSUME Typed, NEW s \in Session
  PROVE  /\ CloseEarly(s) => /\ pc[s] = "early" /\ pc'[s] = "count"
                             /\ UNCHANGED <<flag, results, posted, mixed, dropped, tally>>
         /\ Drop(s) => /\ pc[s] = "drop" /\ pc'[s] = "unlink"
                       /\ UNCHANGED <<flag, results, posted, mixed, tally>>
                       /\ dropped' = dropped \cup {currvote[s]}
         /\ Count(s) => /\ pc[s] = "count" /\ pc'[s] = "write"
                        /\ UNCHANGED <<flag, posted, dropped>> /\ results' = NoTally
                        /\ tally'[s] = flag[currvote[s]]
                        /\ mixed' = (mixed \/ \E q \in Session : pc[q] \in Printing)
         /\ Write(s) => /\ pc[s] = "write" /\ pc'[s] = "postvote"
                        /\ UNCHANGED <<flag, posted, mixed, dropped>>
                        /\ results' = [poll |-> currvote[s], ballots |-> tally[s]]
         /\ PostVote(s) => /\ pc[s] = "postvote" /\ pc'[s] = "postown"
                           /\ UNCHANGED <<flag, results, mixed, dropped, tally>>
                           /\ posted' = posted \cup {<<"vote", results>>}
         /\ PostOwn(s) => /\ pc[s] = "postown" /\ pc'[s] = "unlink"
                          /\ UNCHANGED <<flag, results, mixed, dropped, tally>>
                          /\ posted' = posted \cup {<<"own", results>>}
<1>0. pc \in [Session -> Label] /\ tally \in [Session -> Seq(Account \cup {NoAccount})]
  BY DEF Typed, TypePc, TypeTally
<1> QED
  BY <1>0 DEF CloseEarly, Drop, Count, Counted, Write, PostVote, PostOwn, Post, Goto, Printing,
     list, files, clock, local, history

Prints(s) ==
  CloseEarly(s) \/ Drop(s) \/ Count(s) \/ Write(s) \/ PostVote(s) \/ PostOwn(s)

LEMMA StepOnePrints ==
  ASSUME Typed, OnePrints, NEW s \in Session, Act(s)
  PROVE  OnePrints'
<1>0. Form(s) /\ Alone(s)
  BY StepForm, StepAlone
<1>1. CASE Count(s)
  <2>1. /\ mixed' = (mixed \/ \E q \in Session : pc[q] \in Printing)
        /\ \A q \in Session \ {s} : pc'[q] = pc[q]
    BY <1>0, <1>1, StepPrint DEF Alone
  <2> QED
    BY <2>1 DEF OnePrints
<1>2. CASE ~Count(s)
  <2>1. mixed' = mixed /\ (pc'[s] \in Printing => pc[s] \in Printing)
    <3>1. CASE Calm(s) \/ Asked(s)
      BY <3>1 DEF Calm, Asked, Same, Acting, Deciding, Writing, Printing
    <3>2. CASE Prints(s)
      BY <3>2, <1>2, StepPrint DEF Prints, Printing, Writing
    <3>3. CASE Unlink(s) \/ Search(s) \/ Cast(s)
      BY <3>3, StepUnlink, StepCast DEF Printing, Writing
    <3>4. CASE Copy(s) \/ SwapAway(s) \/ SwapIn(s) \/ AppendPoll(s)
      BY <3>4, StepSwap, StepAppend DEF Printing, Writing
    <3> QED
      BY <1>0, <3>1, <3>2, <3>3, <3>4 DEF Form, Prints
  <2>2. \A q \in Session : pc'[q] \in Printing => pc[q] \in Printing
    BY <1>0, <2>1 DEF Alone
  <2> QED
    BY <2>1, <2>2 DEF OnePrints
<1> QED
  BY <1>1, <1>2

(* Announcements, drops, losses and mixing are for ever.                      *)
LEMMA StepForEver ==
  ASSUME Typed, NEW s \in Session, Act(s)
  PROVE  /\ posted \subseteq posted' /\ dropped \subseteq dropped' /\ astray \subseteq astray'
         /\ mixed => mixed'
<1>0. Form(s)
  BY StepForm
<1>1. CASE Calm(s) \/ Asked(s)
  BY <1>1 DEF Calm, Asked, Same
<1>2. CASE Prints(s)
  BY <1>2, StepPrint, StepOnward DEF Prints, Onward
<1>3. CASE Unlink(s) \/ Search(s) \/ Cast(s) \/ AppendPoll(s)
  BY <1>3, StepUnlink, StepCast, StepAppend
<1>4. CASE Copy(s) \/ SwapAway(s) \/ SwapIn(s)
  <2>1. astray \subseteq astray'
    BY <1>4 DEF Copy, SwapAway, SwapIn
  <2> QED
    BY <1>4, <2>1, StepSwap
<1> QED
  BY <1>0, <1>1, <1>2, <1>3, <1>4 DEF Form, Prints

(* Who prints is undisturbed, unless results are mixed.                      *)
LEMMA ResultsKept ==
  ASSUME Typed, OnePrints, NEW s \in Session, Act(s), NEW q \in Session \ {s}, ~mixed',
         pc[q] \in Printing
  PROVE  results' = results
<1>0. Form(s) /\ ~mixed
  BY StepForm, StepForEver
<1>1. CASE Calm(s) \/ Asked(s)
  BY <1>1 DEF Calm, Asked, Same
<1>2. CASE Prints(s)
  <2>1. ~Count(s)
    BY StepPrint
  <2>2. ~Write(s)
    BY <1>0, StepPrint DEF OnePrints, Printing, Writing
  <2> QED
    BY <1>2, <2>1, <2>2, StepPrint DEF Prints
<1>3. CASE Unlink(s) \/ Search(s) \/ Cast(s) \/ AppendPoll(s)
  BY <1>3, StepUnlink, StepCast, StepAppend
<1>4. CASE Copy(s) \/ SwapAway(s) \/ SwapIn(s)
  BY <1>4, StepSwap
<1> QED
  BY <1>0, <1>1, <1>2, <1>3, <1>4 DEF Form, Prints

LEMMA StepPrinted ==
  ASSUME Typed, OnePrints, NEW s \in Session, Act(s), NEW q \in Session, Printed(q)
  PROVE  Printed(q)'
<1>0. /\ Form(s) /\ Alone(s) /\ posted \subseteq posted' /\ dropped \subseteq dropped'
      /\ mixed => mixed'
  BY StepForm, StepAlone, StepForEver
<1>a. SUFFICES ASSUME ~mixed' PROVE Printed(q)'
  BY DEF Printed
<1>b. ~mixed
  BY <1>0, <1>a
<1>1. CASE q # s
  <2>1. pc'[q] = pc[q] /\ currvote'[q] = currvote[q]
    BY <1>0, <1>1 DEF Alone
  <2>2. pc[q] \in {"postvote", "postown"} => results' = results
    BY <1>1, <1>a, ResultsKept DEF Printing, Writing
  <2>3. posted \subseteq posted' /\ currvote'[q] = currvote[q]
    BY <1>0, <2>1
  <2>4. /\ On("vote", currvote[q]) => On("vote", currvote[q])'
        /\ OnBoth(currvote[q]) => OnBoth(currvote[q])'
    BY <2>3 DEF On, OnBoth
  <2> QED
    BY <1>0, <1>b, <2>1, <2>2, <2>4 DEF Printed
<1>2. CASE q = s
  <2>1. CASE Calm(s) \/ Asked(s)
    BY <1>2, <2>1 DEF Calm, Asked, Acting, Deciding, Writing, Removing, Swapping, Late, Printed
  <2>2. CASE CloseEarly(s) \/ Count(s)
    BY <1>2, <2>2, StepPrint DEF Late, Printed
  <2>3. CASE Drop(s)
    <3>1. currvote' = currvote /\ currvote[s] \in dropped' /\ pc'[s] = "unlink"
      BY <2>3, StepPrint, StepOnward DEF Onward
    <3> QED
      BY <1>2, <3>1 DEF Printed
  <2>4. CASE Write(s)
    <3>1. currvote' = currvote /\ results'.poll = currvote[s] /\ pc'[s] = "postvote"
      BY <2>4, StepPrint, StepOnward DEF Onward
    <3> QED
      BY <1>2, <3>1 DEF Printed, Late
  <2>5. CASE PostVote(s)
    <3>1. /\ currvote' = currvote /\ results' = results /\ pc'[s] = "postown"
          /\ <<"vote", results>> \in posted' /\ results.poll = currvote[s]
      BY <1>2, <1>b, <2>5, StepPrint, StepOnward DEF Onward, Printed
    <3>2. On("vote", currvote[s])'
      <4>1. <<"vote", results>>[1] = "vote" /\ <<"vote", results>>[2].poll = currvote'[s]
        BY <3>1
      <4> QED
        BY <3>1, <4>1 DEF On
    <3> QED
      BY <1>2, <3>1, <3>2 DEF Printed, Late
  <2>6. CASE PostOwn(s)
    <3>1. /\ currvote' = currvote /\ pc'[s] = "unlink" /\ <<"own", results>> \in posted'
          /\ results.poll = currvote[s] /\ On("vote", currvote[s])
      BY <1>2, <1>b, <2>6, StepPrint, StepOnward DEF Onward, Printed
    <3>2. On("own", currvote[s])'
      <4>1. <<"own", results>>[1] = "own" /\ <<"own", results>>[2].poll = currvote'[s]
        BY <3>1
      <4> QED
        BY <3>1, <4>1 DEF On
    <3>3. On("vote", currvote[s])'
      BY <1>0, <3>1 DEF On
    <3> QED
      BY <1>2, <3>1, <3>2, <3>3 DEF Printed, OnBoth
  <2>7. CASE Unlink(s)
    <3>1. /\ currvote' = currvote /\ pc'[s] = "copy" /\ pc[s] = "unlink"
          /\ dropped' = dropped /\ posted' = posted
      BY <2>7, StepUnlink
    <3> QED
      BY <1>2, <1>b, <3>1 DEF Printed, Late, OnBoth, On
  <2>8. CASE Copy(s) \/ SwapAway(s) \/ SwapIn(s)
    <3>1. /\ currvote' = currvote /\ dropped' = dropped /\ posted' = posted
          /\ pc'[s] \in {"away", "in", "recount"} /\ (pc'[s] = "away" => pc[s] = "copy")
      BY <2>8, StepSwap
    <3> QED
      BY <1>2, <1>b, <3>1 DEF Printed, Late, OnBoth, On
  <2>9. CASE Search(s) \/ Cast(s) \/ AppendPoll(s)
    BY <1>2, <2>9, StepCast, StepAppend DEF Printed, Late
  <2> QED
    BY <1>0, <2>1, <2>2, <2>3, <2>4, <2>5, <2>6, <2>7, <2>8, <2>9 DEF Form
<1> QED
  BY <1>1, <1>2

(* A copy leaves out the record with the number only.                        *)
LEMMA CopyLeaves ==
  ASSUME Typed, NEW s \in Session, RightNumber(s), Copy(s)
  PROVE  Polls(control) \subseteq Polls(tmpfile'.recs) \cup astray' \cup {currvote[s]}
<1>0. /\ control \in Seq(Poll) /\ Len(control) \in Nat /\ at[s].num \in Nat \ {0}
  <2>1. control \in Seq(Poll) /\ at[s].num \in Nat
    BY DEF Typed, TypeList, TypeAt, Place
  <2>2. at[s].num >= 1
    BY DEF Typed, Ranges, Copy, Removing
  <2> QED
    BY <2>1, <2>2, LenProperties
<1> DEFINE n == at[s].num
<1>1. /\ tmpfile'.recs = DeleteRecord(control, n) /\ pc[s] = "copy"
      /\ astray' = IF s \in stale
                   THEN astray \cup (IF n <= Len(control) THEN {control[n]} \ {currvote[s]} ELSE {})
                   ELSE astray
  BY DEF Copy, Without
<1> HIDE DEF n
<1> SUFFICES ASSUME NEW i \in 1..Len(control)
             PROVE  control[i] \in Polls(tmpfile'.recs) \cup astray' \cup {currvote[s]}
  BY DEF Polls
<1>2. CASE i # n
  BY <1>0, <1>1, <1>2, DeletedKeeps DEF n
<1>3. CASE i = n
  <2>1. s \notin stale => control[n] = currvote[s]
    BY <1>1 DEF RightNumber, Removing, n
  <2>2. n <= Len(control)
    BY <1>0, <1>3
  <2> QED
    BY <1>1, <1>3, <2>1, <2>2
<1> QED
  BY <1>2, <1>3

(* One session at a time replaces the list.                                  *)
LEMMA OneSwapping ==
  ASSUME Typed, NEW s \in Session, NEW q \in Session, pc[s] \in Swapping, pc[q] \in Swapping
  PROVE  s = q
BY DEF Typed, Locks

LEMMA StepLeft ==
  ASSUME Typed, TmpEmpty, NEW s \in Session, Act(s), RightNumber(s), NEW q \in Session, Left(q)
  PROVE  Left(q)'
<1>0. Form(s) /\ Alone(s) /\ astray \subseteq astray'
  BY StepForm, StepAlone, StepForEver
<1>1. CASE Calm(s) \/ Asked(s)
  <2>1. UNCHANGED Same /\ pc'[s] \notin Swapping
    BY <1>1 DEF Calm, Asked, Acting, Deciding, Writing, Swapping
  <2>2. pc'[q] \in Swapping => q # s /\ pc'[q] = pc[q] /\ currvote'[q] = currvote[q]
    BY <1>0, <2>1 DEF Alone
  <2> QED
    BY <2>1, <2>2 DEF Left, Same, Swapping, Polls
<1>2. CASE Onward(s) \/ Unlink(s) \/ Search(s) \/ Cast(s)
  <2>1. /\ control' = control /\ tmpfile' = tmpfile /\ currvote' = currvote
        /\ pc'[s] \notin Swapping
    BY <1>2, StepUnlink, StepCast DEF Onward, Writing, Removing, Swapping
  <2>2. pc'[q] \in Swapping => q # s /\ pc'[q] = pc[q]
    BY <1>0, <2>1 DEF Alone
  <2> QED
    BY <1>0, <2>1, <2>2 DEF Left, Swapping, Polls
<1>3. CASE AppendPoll(s)
  <2>1. /\ Polls(control') = Polls(control) \cup {currvote[s]} /\ tmpfile' = tmpfile
        /\ currvote' = currvote /\ pc'[s] \notin Swapping
        /\ (\E r \in Session : pc[r] \in Swapping) => currvote[s] \in astray'
    BY <1>3, StepAppend DEF Swapping
  <2>2. pc'[q] \in Swapping => q # s /\ pc'[q] = pc[q]
    BY <1>0, <2>1 DEF Alone
  <2>3. Polls(control)' = Polls(control) \cup {currvote[s]}
    BY <2>1 DEF Polls
  <2>4. Polls(tmpfile.recs)' = Polls(tmpfile.recs)
    BY <2>1 DEF Polls
  <2> QED
    BY <1>0, <2>1, <2>2, <2>3, <2>4 DEF Left, Swapping
<1>4. CASE Copy(s)
  <2>0. pc[s] = "copy" /\ pc'[s] = "away" /\ control' = control /\ currvote' = currvote
    BY <1>4, StepSwap
  <2>1. CASE q = s
    <3>1. Polls(control) \subseteq Polls(tmpfile'.recs) \cup astray' \cup {currvote[s]}
      BY <1>4, CopyLeaves
    <3> QED
      BY <2>0, <2>1, <3>1 DEF Left, Polls
  <2>2. CASE q # s
    <3>1. pc'[q] = pc[q] /\ dellock = {}
      BY <1>0, <1>4, <2>2 DEF Alone, Copy
    <3>2. pc'[q] \notin Swapping
      BY <3>1 DEF Typed, Locks
    <3> QED
      BY <3>2 DEF Left, Swapping
  <2> QED
    BY <2>1, <2>2
<1>5. CASE SwapAway(s) \/ SwapIn(s)
  <2>1. /\ pc[s] \in Swapping /\ pc'[s] \in {"in", "recount"}
        /\ pc'[s] = "in" => control' = <<>>
    BY <1>5, StepSwap DEF Swapping
  <2>2. pc'[q] \in Swapping => q = s
    BY <1>0, <2>1, OneSwapping DEF Alone
  <2>3. pc'[q] = "in" => Polls(control)' = {}
    BY <2>1, <2>2, EmptySeq DEF Polls, Swapping
  <2> QED
    BY <2>1, <2>2, <2>3 DEF Left, Swapping
<1> QED
  BY <1>0, <1>1, <1>2, <1>3, <1>4, <1>5, StepOnward DEF Form

(* Nothing is lost from the list and its copy but what was left out.          *)
LEMMA OpenKept ==
  ASSUME Typed, TmpEmpty, NEW s \in Session, Act(s), RightNumber(s), Left(s)
  PROVE  /\ Open \subseteq Open' \cup astray' \cup {currvote[s]}
         /\ ~SwapAway(s) => Open \subseteq Open' \cup astray'
<1>0. Form(s) /\ astray \subseteq astray'
  BY StepForm, StepForEver
<1>1. CASE Calm(s) \/ Asked(s) \/ Onward(s) \/ Unlink(s) \/ Search(s) \/ Cast(s)
  <2>1. control' = control /\ tmpfile' = tmpfile
    BY <1>1, StepUnlink, StepCast DEF Calm, Asked, Same, Onward
  <2> QED
    BY <2>1 DEF Open, Polls
<1>2. CASE AppendPoll(s)
  <2>1. Polls(control') = Polls(control) \cup {currvote[s]} /\ tmpfile' = tmpfile
    BY <1>2, StepAppend
  <2> QED
    BY <2>1 DEF Open, Polls
<1>3. CASE Copy(s)
  <2>1. control' = control /\ tmpfile.recs = <<>>
    BY <1>3, StepSwap DEF Copy, TmpEmpty
  <2>2. Polls(tmpfile.recs) = {}
    BY <2>1, EmptySeq DEF Polls
  <2> QED
    BY <2>1, <2>2 DEF Open, Polls
<1>4. CASE SwapAway(s)
  <2>1. pc[s] = "away" /\ tmpfile' = tmpfile
    BY <1>4, StepSwap
  <2> QED
    BY <1>0, <1>4, <2>1 DEF Open, Polls, Left
<1>5. CASE SwapIn(s)
  <2>1. pc[s] = "in" /\ control' = tmpfile.recs
    BY <1>5, StepSwap
  <2>2. Polls(control)' = Polls(tmpfile.recs) /\ Polls(control) \subseteq astray
    BY <2>1 DEF Polls, Left
  <2> QED
    BY <1>0, <2>2 DEF Open
<1> QED
  BY <1>0, <1>1, <1>2, <1>3, <1>4, <1>5, StepOnward DEF Form

LEMMA StepResultsPosted ==
  ASSUME Typed, TmpEmpty, ResultsPosted, NEW s \in Session, Act(s), RightNumber(s), Left(s),
         Printed(s)
  PROVE  ResultsPosted'
<1> SUFFICES ASSUME NEW p \in opened', p \notin (Open \cup dropped \cup astray)', ~mixed'
             PROVE  OnBoth(p)'
  BY DEF ResultsPosted, OnBoth, On
<1>0. /\ Form(s) /\ posted \subseteq posted' /\ dropped \subseteq dropped'
      /\ astray \subseteq astray'
      /\ mixed => mixed'
  BY StepForm, StepForEver
<1>1. ~mixed /\ p \notin dropped \cup astray
  BY <1>0
<1>c. OnBoth(p) => OnBoth(p)'
  <2>1. posted \subseteq posted'
    BY <1>0
  <2> QED
    BY <2>1 DEF OnBoth, On
<1>2. CASE p \in opened
  <2>1. CASE p \notin Open
    <3>1. OnBoth(p)
      BY <1>1, <1>2, <2>1 DEF ResultsPosted, OnBoth, On
    <3> QED
      BY <1>c, <3>1
  <2>2. CASE p \in Open
    <3>1. p = currvote[s] /\ SwapAway(s)
      BY <2>2, OpenKept
    <3>2. OnBoth(currvote[s])
      BY <1>1, <3>1, StepSwap DEF Printed, Late
    <3> QED
      BY <1>c, <3>1, <3>2
  <2> QED
    BY <2>1, <2>2
<1>3. CASE p \notin opened
  <2>1. AppendPoll(s)
    BY <1>0, <1>3, StepOnward, StepUnlink, StepCast, StepSwap DEF Form, Calm, Asked, Same, Onward
  <2>2. p = currvote[s] /\ Polls(control') = Polls(control) \cup {currvote[s]}
    BY <1>3, <2>1, StepAppend
  <2>3. p \in Open'
    BY <2>2 DEF Open, Polls
  <2> QED
    BY <2>3
<1> QED
  BY <1>2, <1>3

LEMMA StepReported ==
  ASSUME Typed, Reported, [Next]_vars
  PROVE  Reported'
<1>1. ASSUME NEW s \in Session, Step(s)
      PROVE  Reported'
  <2>1. Act(s)
    BY <1>1, StepActs
  <2>2. TmpEmpty' /\ OnePrints' /\ ResultsPosted'
    BY <2>1, StepTmpEmpty, StepOnePrints, StepResultsPosted DEF Reported
  <2>3. ASSUME NEW q \in Session
        PROVE  RightNumber(q)' /\ Printed(q)' /\ Left(q)'
    BY <2>1, StepRightNumber, StepPrinted, StepLeft DEF Reported
  <2> QED
    BY <2>2, <2>3 DEF Reported
<1>2. CASE PollTime \/ (\E p \in Poll : Expire(p)) \/ UNCHANGED vars
  <2>1. UNCHANGED <<list, flag, results, posted, pc, currvote, at, tally, history>>
    BY <1>2 DEF PollTime, Expire, vars, list, files, local
  <2> QED
    BY <2>1 DEF Reported, TmpEmpty, OnePrints, ResultsPosted, RightNumber, Printed, Left, On,
       OnBoth, Open, Polls, list, history
<1> QED
  BY <1>1, <1>2 DEF Next

LEMMA InitReported == Init => Reported
<1> SUFFICES ASSUME Init PROVE Reported
  OBVIOUS
<1>1. /\ \A s \in Session : pc[s] \in {"out", "menu"}
      /\ tmpfile.recs = <<>> /\ opened = Polls(control)
  BY DEF Init, NoTmp
<1> QED
  BY <1>1 DEF Reported, TmpEmpty, OnePrints, ResultsPosted, RightNumber, Printed, Left, Open,
     Printing, Deciding, Writing, Removing, Late

(* Every poll that was opened is in the list, was dropped, or is announced on *)
(* both boards, whoever closes what and however often sessions die; unless    *)
(* somebody used a number that was out of date or two printed at once.       *)
THEOREM VoteResultsPosted == Spec => []ResultsPosted
<1>1. Reported => ResultsPosted
  BY DEF Reported
<1> QED
  BY <1>1, VoteTyped, InitReported, StepReported, PTL DEF Spec

-----------------------------------------------------------------------------
(* No ballot is lost.                                                        *)
LEMMA CountedMeans ==
  BallotCounted <=> \A p \in Poll : \A a \in Voted(p) :
    (p \in Open /\ BallotsOf(p, a) # {}) \/ InPost(p, a) \/ Excused(p)
BY DEF BallotCounted, Voted, InPost, Excused

(* A ballot written over the account's own, or appended, keeps all others.    *)
LEMMA CastKeeps ==
  ASSUME NEW f \in Seq(Account \cup {NoAccount}), NEW a \in Account, NEW i \in Nat,
         i > 0 => i \in 1..Len(f) /\ f[i] = a
  PROVE  /\ \A k \in 1..Len(f) : k \in 1..Len(CastAt(f, a, i)) /\ CastAt(f, a, i)[k] = f[k]
         /\ \E k \in 1..Len(CastAt(f, a, i)) : CastAt(f, a, i)[k] = a
<1> DEFINE R == Account \cup {NoAccount}
<1>0. Len(f) \in Nat /\ f \in Seq(R) /\ a \in R /\ NoAccount \in R
  BY LenProperties
<1> HIDE DEF R
<1>1. CASE i > 0
  <2> DEFINE g == SubstituteRecord(f, a, i, NoAccount)
  <2>0. i \in Nat \ {0} /\ i \in 1..Len(f) /\ f[i] = a
    BY <1>1
  <2>1. /\ i <= Len(f) => Len(g) = Len(f)
        /\ \A k \in 1..Len(f) : g[k] = IF k = i THEN a ELSE f[k]
    BY <1>0, <2>0, SubstituteRecordProperties
  <2>2. CastAt(f, a, i) = g
    BY <1>1 DEF CastAt
  <2> HIDE DEF g
  <2>3. Len(g) = Len(f) /\ \A k \in 1..Len(f) : g[k] = f[k]
    BY <1>0, <2>0, <2>1
  <2> QED
    BY <2>0, <2>2, <2>3
<1>2. CASE ~(i > 0)
  <2>1. CastAt(f, a, i) = Append(f, a)
    BY <1>2 DEF CastAt, AppendRecord
  <2>2. /\ Len(Append(f, a)) = Len(f) + 1 /\ Append(f, a)[Len(f) + 1] = a
        /\ \A k \in 1..Len(f) : Append(f, a)[k] = f[k]
    BY <1>0, AppendProperties
  <2>3. Len(f) + 1 \in 1..(Len(f) + 1) /\ \A k \in 1..Len(f) : k \in 1..(Len(f) + 1)
    BY <1>0
  <2> QED
    BY <2>1, <2>2, <2>3
<1> QED
  BY <1>1, <1>2

(* Only a cast makes a vote that counts, and only in a poll that is open, is   *)
(* not being closed, and not torn.                                          *)
LEMMA StepVoted ==
  ASSUME Typed, NEW s \in Session, Act(s), NEW p \in Poll, NEW a \in Voted(p)'
  PROVE  \/ a \in Voted(p)
         \/ /\ Cast(s) /\ p = currvote[s] /\ a = User[s] /\ p \in Open /\ p \notin torn
            /\ \A q \in Session : ~Closing(q, p)
<1>0. Form(s)
  BY StepForm
<1>1. CASE Cast(s)
  <2> DEFINE v == <<currvote[s], User[s]>>
             closed == currvote[s] \notin Open \ torn \/ \E q \in Session : Closing(q, currvote[s])
  <2>1. told' = told \cup {v} /\ late' = IF closed THEN late \cup {v} ELSE late
    BY <1>1 DEF Cast
  <2>2. a \in Account /\ <<p, a>> \in told' \ late'
    BY DEF Voted
  <2>3. CASE <<p, a>> = v
    <3>1. p = currvote[s] /\ a = User[s]
      BY <2>3
    <3>2. CASE closed
      BY <2>1, <2>2, <2>3, <3>2
    <3>3. CASE ~closed
      BY <1>1, <3>1, <3>3
    <3> QED
      BY <3>2, <3>3
  <2>4. CASE <<p, a>> # v
    <3> HIDE DEF v, closed
    <3>1. <<p, a>> \in told \ late
      BY <2>1, <2>2, <2>4
    <3> QED
      BY <2>2, <3>1 DEF Voted
  <2> QED
    BY <2>3, <2>4
<1>2. CASE ~Cast(s)
  <2>1. told' = told /\ late' = late
    BY <1>0, <1>2, StepOnward, StepUnlink, StepSwap, StepAppend
       DEF Form, Calm, Asked, Same, Onward, Search, history
  <2> QED
    BY <2>1 DEF Voted
<1> QED
  BY <1>1, <1>2

LEMMA SettledForEver ==
  ASSUME Typed, NEW s \in Session, Act(s), NEW p, NEW a
  PROVE  /\ InPost(p, a) => InPost(p, a)'
         /\ Excused(p) => Excused(p)'
<1>0. /\ posted \subseteq posted' /\ dropped \subseteq dropped' /\ astray \subseteq astray'
      /\ mixed => mixed'
  BY StepForEver
<1>1. InPost(p, a) => InPost(p, a)'
  BY <1>0 DEF InPost, Polls
<1>2. Excused(p) => Excused(p)'
  <2>1. mixed => mixed'
    BY <1>0
  <2>2. p \in dropped \cup astray => p \in dropped' \cup astray'
    BY <1>0
  <2> QED
    BY <2>1, <2>2 DEF Excused
<1> QED
  BY <1>1, <1>2

(* The file of a poll is changed by a cast in it, or unlinked.                *)
LEMMA StepBallots ==
  ASSUME Typed, NEW s \in Session, Act(s), NEW p \in Poll
  PROVE  \/ flag'[p] = flag[p]
         \/ Unlink(s) /\ currvote[s] = p
         \/ Cast(s) /\ currvote[s] = p /\ flag'[p] = CastAt(flag[p], User[s], at[s].pos)
<1>0. Form(s)
  BY StepForm
<1>1. CASE Cast(s)
  BY <1>1 DEF Cast, Typed, TypeFlag
<1>2. CASE Unlink(s)
  BY <1>2, StepUnlink
<1>3. CASE ~Cast(s) /\ ~Unlink(s)
  <2>1. flag' = flag
    BY <1>0, <1>3, StepPrint, StepSwap, StepAppend DEF Form, Calm, Asked, Same, Search, files
  <2> QED
    BY <2>1
<1> QED
  BY <1>1, <1>2, <1>3

(* A cast where the place is kept loses no ballot.                           *)
LEMMA CastFlag ==
  ASSUME Typed, NEW s \in Session, Cast(s), PlaceKept(s), currvote[s] \in Poll \ torn,
         flag'[currvote[s]] = CastAt(flag[currvote[s]], User[s], at[s].pos)
  PROVE  /\ \A a \in Account : BallotsOf(currvote[s], a) \subseteq BallotsOf(currvote[s], a)'
         /\ BallotsOf(currvote[s], User[s])' # {}
<1> DEFINE p == currvote[s]
           f == flag[p]
           i == at[s].pos
           g == CastAt(f, User[s], i)
<1>0. /\ f \in Seq(Account \cup {NoAccount}) /\ User[s] \in Account /\ i \in Nat
      /\ pc[s] = "cast" /\ currvote' = currvote
  BY VoteAssumption, StepCast DEF Typed, TypeFlag, TypeAt, Place, Cast
<1>1. i > 0 => i \in 1..Len(f) /\ f[i] = User[s]
  BY <1>0 DEF PlaceKept, BallotsOf
<1>2. /\ \A k \in 1..Len(f) : k \in 1..Len(g) /\ g[k] = f[k]
      /\ \E k \in 1..Len(g) : g[k] = User[s]
  <2> HIDE DEF f, i
  <2> QED
    BY <1>0, <1>1, CastKeeps
<1>3. flag'[p] = g
  OBVIOUS
<1> HIDE DEF g, f
<1>4. ASSUME NEW a \in Account
      PROVE  BallotsOf(p, a) \subseteq BallotsOf(p, a)'
  BY <1>0, <1>2, <1>3 DEF BallotsOf, f
<1>5. BallotsOf(p, User[s])' # {}
  <2>1. BallotsOf(p, User[s])' = {k \in 1..Len(g) : g[k] = User[s]}
    BY <1>0, <1>3 DEF BallotsOf
  <2> QED
    BY <1>2, <2>1
<1> QED
  BY <1>4, <1>5

LEMMA StepPlaceKept ==
  ASSUME Typed, NEW s \in Session, Act(s), PlaceKept(s), NEW q \in Session, PlaceKept(q)
  PROVE  PlaceKept(q)'
<1>0. Form(s) /\ Alone(s)
  BY StepForm, StepAlone
<1> SUFFICES ASSUME pc'[q] = "cast", at'[q].pos > 0, currvote'[q] \in Poll \ torn'
             PROVE  (at[q].pos \in BallotsOf(currvote[q], User[q]))'
  BY DEF PlaceKept
<1>1. CASE Search(s) /\ q = s
  <2>0. /\ TypeFlag /\ currvote[s] \in {0} \cup Poll /\ at[s] \in Place
        /\ flag' = flag /\ currvote' = currvote
    BY <1>1 DEF Typed, TypePoll, TypeAt, Search, files
  <2>1. at' = [at EXCEPT ![s] = [at[s] EXCEPT !.pos = SearchBallot(currvote[s], User[s])]]
    BY <1>1 DEF Search
  <2>2. at'[s].pos = SearchBallot(currvote[s], User[s])
    <3> DEFINE i == SearchBallot(currvote[s], User[s])
    <3> HIDE DEF i
    <3>1. at'[s] = [at[s] EXCEPT !.pos = i] /\ [at[s] EXCEPT !.pos = i].pos = i
      BY <2>0, <2>1 DEF Typed, TypeAt, Place, i
    <3> QED
      BY <3>1 DEF i
  <2>3. BallotsOf(currvote[s], User[s]) = {} => SearchBallot(currvote[s], User[s]) = 0
    BY <2>0, SearchBallotFinds
  <2>4. BallotsOf(currvote[s], User[s]) # {}
    BY <2>2, <2>3, <1>1
  <2>5. SearchBallot(currvote[s], User[s]) \in BallotsOf(currvote[s], User[s])
    BY <2>0, <2>4, SearchBallotFinds
  <2> QED
    BY <1>1, <2>0, <2>2, <2>5 DEF BallotsOf
<1>2. CASE ~(Search(s) /\ q = s)
  <2>1. q # s
    <3>1. pc'[s] = "cast" => Search(s)
      <4>1. Cast(s) => pc'[s] = "list"
        BY DEF Typed, TypePc, Cast, Goto
      <4> QED
        BY <1>0, <4>1, StepOnward, StepUnlink, StepSwap, StepAppend
           DEF Form, Calm, Asked, Acting, Deciding, Onward, Writing, Removing
    <3> QED
      BY <1>2, <3>1
  <2> DEFINE p == currvote[q]
  <2>2. pc'[q] = pc[q] /\ currvote'[q] = p /\ at'[q] = at[q]
    BY <1>0, <2>1 DEF Alone
  <2>3. torn \subseteq torn'
    BY <1>0, StepOnward, StepSwap, StepAppend, StepCast
       DEF Form, Calm, Asked, Same, Onward, Unlink
  <2>4. p \in Poll \ torn /\ at[q].pos \in BallotsOf(p, User[q])
    BY <2>2, <2>3 DEF PlaceKept
  <2>5. CASE flag'[p] = flag[p]
    BY <2>2, <2>4, <2>5 DEF BallotsOf
  <2>6. CASE Unlink(s) /\ currvote[s] = p
    <3>1. Overwrites(q, p)
      BY <2>2 DEF Overwrites
    <3>2. p \in torn'
      BY <2>6, <3>1 DEF Unlink
    <3> QED
      BY <2>2, <3>2
  <2>7. CASE Cast(s) /\ currvote[s] = p /\ flag'[p] = CastAt(flag[p], User[s], at[s].pos)
    <3>1. User[q] \in Account
      BY VoteAssumption
    <3>2. BallotsOf(currvote[s], User[q]) \subseteq BallotsOf(currvote[s], User[q])'
      BY <2>4, <2>7, <3>1, CastFlag
    <3>3. currvote' = currvote
      BY <2>7, StepCast
    <3>4. BallotsOf(p, User[q])' = BallotsOf(currvote[s], User[q])'
      BY <2>7, <3>3 DEF BallotsOf
    <3> QED
      BY <2>2, <2>4, <2>7, <3>2, <3>3, <3>4 DEF BallotsOf
  <2> QED
    BY <2>4, <2>5, <2>6, <2>7, StepBallots
<1> QED
  BY <1>1, <1>2

LEMMA StepTornPosted ==
  ASSUME Typed, TornPosted, NEW s \in Session, Act(s), currvote[s] \in Poll => Carried(s)
  PROVE  TornPosted'
<1> SUFFICES ASSUME NEW p \in Poll, p \in torn', NEW a \in Voted(p)'
             PROVE  InPost(p, a)' \/ Excused(p)'
  BY DEF TornPosted
<1>0. Form(s)
  BY StepForm
<1>1. CASE p \in torn
  <2>1. a \in Voted(p)
    BY <1>1, StepVoted
  <2>2. InPost(p, a) \/ Excused(p)
    BY <1>1, <2>1 DEF TornPosted
  <2> QED
    BY <2>2, SettledForEver
<1>2. CASE p \notin torn
  <2>1. Unlink(s) /\ p = currvote[s]
    <3>1. Unlink(s) \/ torn' = torn
      BY <1>0, StepOnward, StepSwap, StepAppend, StepCast DEF Form, Calm, Asked, Same, Onward
    <3>2. Unlink(s)
      BY <1>2, <3>1
    <3>3. torn' \subseteq torn \cup {currvote[s]}
      BY <3>2 DEF Unlink
    <3> QED
      BY <1>2, <3>2, <3>3
  <2>2. pc[s] \in Late
    BY <2>1 DEF Unlink, Late
  <2>3. a \in Voted(p)
    <3>1. ~Cast(s)
      BY <2>1 DEF Unlink, Cast
    <3> QED
      BY <3>1, StepVoted
  <2>4. InPost(p, a) \/ Excused(p)
    BY <2>1, <2>2, <2>3 DEF Carried
  <2> QED
    BY <2>4, SettledForEver
<1> QED
  BY <1>1, <1>2

LEMMA StepCarried ==
  ASSUME Typed, OnePrints, BallotCounted, NEW s \in Session, Act(s), NEW q \in Session,
         Printed(q), currvote[q] \in Poll => Carried(q), currvote'[q] \in Poll
  PROVE  Carried(q)'
<1>0. Form(s) /\ Alone(s)
  BY StepForm, StepAlone
<1> DEFINE Busy == {"write", "postvote", "postown"} \cup Late
<1>a. SUFFICES ASSUME pc'[q] \in Busy, NEW p \in Poll, p = currvote'[q], NEW a \in Account,
                      a \in Voted(p)', ~InPost(p, a)', ~Excused(p)'
      PROVE  /\ pc'[q] = "write" => a \in Polls(tally'[q])
             /\ pc'[q] \in {"postvote", "postown"} => a \in Polls(results'.ballots)
             /\ pc'[q] \notin Late
  BY DEF Carried, Voted, InPost, Excused, Polls
<1>b. ~InPost(p, a) /\ ~Excused(p) /\ ~mixed' /\ ~mixed
  <2>1. ~InPost(p, a) /\ ~Excused(p)
    BY <1>a, SettledForEver
  <2> QED
    BY <1>a, <2>1 DEF Excused
<1>1. CASE q # s
  <2>1. pc'[q] = pc[q] /\ p = currvote[q] /\ tally'[q] = tally[q]
    BY <1>0, <1>1, <1>a DEF Alone
  <2>2. Closing(q, p)
    BY <1>a, <2>1 DEF Closing, Writing, Removing, Swapping, Late
  <2>3. a \in Voted(p)
    BY <1>a, <2>2, StepVoted
  <2>4. /\ pc[q] = "write" => a \in Polls(tally[q])
        /\ pc[q] \in {"postvote", "postown"} => a \in Polls(results.ballots)
        /\ pc[q] \notin Late
    BY <1>b, <2>1, <2>3 DEF Carried
  <2>5. pc[q] \in {"postvote", "postown"} => results' = results
    BY <1>1, <1>b, ResultsKept DEF Printing, Writing
  <2> QED
    BY <2>1, <2>4, <2>5
<1>2. CASE q = s
  <2>1. Prints(s) \/ Unlink(s) \/ Copy(s)
    BY <1>0, <1>2, <1>a, StepCast, StepAppend, StepSwap
       DEF Form, Calm, Asked, Acting, Deciding, Writing, Removing, Swapping, Late, Prints
  <2>2. currvote' = currvote /\ ~Cast(s)
    <3>1. currvote' = currvote
      BY <2>1, StepOnward, StepUnlink, StepSwap DEF Prints, Onward
    <3>2. pc[s] # "cast"
      BY <2>1, StepPrint, StepUnlink, StepSwap DEF Prints
    <3> QED
      BY <3>1, <3>2 DEF Cast
  <2>3. p = currvote[s] /\ a \in Voted(p)
    BY <1>2, <1>a, <2>2, StepVoted
  <2>4. /\ pc[s] = "write" => a \in Polls(tally[s])
        /\ pc[s] \in {"postvote", "postown"} => a \in Polls(results.ballots)
        /\ pc[s] \notin Late
    BY <1>2, <1>b, <2>3 DEF Carried
  <2>5. CASE CloseEarly(s)
    BY <1>2, <1>a, <2>5, StepPrint DEF Late
  <2>6. CASE Drop(s)
    <3>1. p \in dropped'
      BY <2>3, <2>6, StepPrint
    <3> QED
      BY <1>a, <3>1 DEF Excused
  <2>7. CASE Count(s)
    <3>1. pc'[s] = "write" /\ tally'[s] = flag[p]
      BY <2>3, <2>7, StepPrint
    <3>2. BallotsOf(p, a) # {}
      BY <1>b, <2>3, CountedMeans
    <3>3. a \in Polls(flag[p])
      BY <3>2 DEF BallotsOf, Polls
    <3> QED
      BY <1>2, <3>1, <3>3 DEF Late
  <2>8. CASE Write(s)
    <3>1. pc[s] = "write" /\ pc'[s] = "postvote" /\ results'.ballots = tally[s]
      BY <2>8, StepPrint
    <3> QED
      BY <1>2, <2>4, <3>1 DEF Late
  <2>9. CASE PostVote(s)
    <3>1. pc[s] = "postvote" /\ pc'[s] = "postown" /\ results' = results
      BY <2>9, StepPrint
    <3> QED
      BY <1>2, <2>4, <3>1 DEF Late
  <2>10. CASE PostOwn(s)
    <3>1. /\ pc[s] = "postown" /\ <<"own", results>> \in posted'
      BY <2>10, StepPrint
    <3>2. a \in Polls(results.ballots) /\ results.poll = p
      BY <1>2, <1>b, <2>3, <2>4, <3>1 DEF Printed
    <3>3. /\ <<"own", results>>[1] = "own" /\ <<"own", results>>[2].poll = p
          /\ a \in Polls(<<"own", results>>[2].ballots)
      BY <3>2
    <3>4. \E r \in posted' : r[1] = "own" /\ r[2].poll = p /\ a \in Polls(r[2].ballots)
      BY <3>1, <3>3
    <3> QED
      BY <1>a, <3>4 DEF InPost, Polls
  <2>11. CASE Unlink(s) \/ Copy(s)
    BY <2>4, <2>11 DEF Unlink, Copy, Late
  <2> QED
    BY <2>1, <2>5, <2>6, <2>7, <2>8, <2>9, <2>10, <2>11 DEF Prints
<1> QED
  BY <1>1, <1>2

LEMMA StepBallotCounted ==
  ASSUME Typed, TmpEmpty, TornPosted, BallotCounted, NEW s \in Session, Act(s),
         RightNumber(s), Left(s), PlaceKept(s), currvote[s] \in Poll => Carried(s)
  PROVE  BallotCounted'
<1>a. SUFFICES ASSUME NEW p \in Poll, NEW a \in Account, a \in Voted(p)', ~InPost(p, a)',
                      ~Excused(p)'
      PROVE  (p \in Open)' /\ BallotsOf(p, a)' # {}
  BY DEF BallotCounted, Voted, InPost, Excused
<1>b. ~InPost(p, a) /\ ~Excused(p)
  BY <1>a, SettledForEver
<1>c. p \notin astray'
  BY <1>a DEF Excused
<1>1. p \in Open /\ p \notin torn' \cap torn
  <2>1. CASE a \in Voted(p)
    BY <1>b, <2>1, CountedMeans DEF TornPosted
  <2>2. CASE a \notin Voted(p)
    BY <1>a, <2>2, StepVoted
  <2> QED
    BY <2>1, <2>2
<1>2. currvote[s] = p /\ pc[s] \in Late => a \notin Voted(p)
  BY <1>b DEF Carried
<1>3. ~Cast(s) => a \in Voted(p)
  BY <1>a, StepVoted
<1>4. (p \in Open)'
  <2>1. CASE SwapAway(s)
    <3>1. pc[s] \in Late /\ ~Cast(s)
      BY <2>1 DEF SwapAway, Cast, Late
    <3>2. currvote[s] # p
      BY <1>2, <1>3, <3>1
    <3>3. Open \subseteq Open' \cup astray' \cup {currvote[s]}
      BY OpenKept
    <3> QED
      BY <1>1, <1>c, <3>2, <3>3
  <2>2. CASE ~SwapAway(s)
    <3>1. Open \subseteq Open' \cup astray'
      BY <2>2, OpenKept
    <3> QED
      BY <1>1, <1>c, <3>1
  <2> QED
    BY <2>1, <2>2
<1>5. BallotsOf(p, a)' # {}
  <2>1. CASE flag'[p] = flag[p] /\ ~(Cast(s) /\ currvote[s] = p)
    <3>1. a \in Voted(p)
      BY <1>a, <2>1, StepVoted
    <3>2. BallotsOf(p, a) # {}
      BY <1>b, <3>1, CountedMeans
    <3> QED
      BY <2>1, <3>2 DEF BallotsOf
  <2>2. CASE Unlink(s) /\ currvote[s] = p
    <3>1. pc[s] \in Late /\ ~Cast(s)
      BY <2>2 DEF Unlink, Cast, Late
    <3> QED
      BY <1>2, <1>3, <2>2, <3>1
  <2>3. CASE Cast(s) /\ currvote[s] = p
    <3>1. p \notin torn
      <4>1. torn' = torn
        BY <2>3, StepCast
      <4> QED
        BY <1>1, <4>1
    <3>2. flag'[p] = CastAt(flag[p], User[s], at[s].pos)
      BY <2>3 DEF Cast, Typed, TypeFlag
    <3>3. currvote' = currvote
      BY <2>3, StepCast
    <3>4. /\ \A b \in Account : BallotsOf(currvote[s], b) \subseteq BallotsOf(currvote[s], b)'
          /\ BallotsOf(currvote[s], User[s])' # {}
      BY <2>3, <3>1, <3>2, CastFlag
    <3>5. BallotsOf(p, a)' = BallotsOf(currvote[s], a)'
      BY <2>3, <3>3 DEF BallotsOf
    <3>6. CASE a \in Voted(p)
      <4>1. BallotsOf(p, a) # {}
        BY <1>b, <3>6, CountedMeans
      <4>2. BallotsOf(currvote[s], a) \subseteq BallotsOf(currvote[s], a)'
        BY <3>4
      <4> QED
        BY <2>3, <3>5, <4>1, <4>2
    <3>7. CASE a \notin Voted(p)
      <4>1. a = User[s]
        BY <1>a, <3>7, StepVoted
      <4> QED
        BY <3>4, <3>5, <4>1
    <3> QED
      BY <3>6, <3>7
  <2> QED
    BY <2>1, <2>2, <2>3, StepBallots
<1> QED
  BY <1>4, <1>5

LEMMA StepCountKept ==
  ASSUME Typed, Reported, CountKept, [Next]_vars
  PROVE  CountKept'
<1>1. ASSUME NEW s \in Session, Step(s)
      PROVE  CountKept'
  <2>0. Act(s) /\ TmpEmpty /\ OnePrints
    BY <1>1, StepActs DEF Reported
  <2>1. ASSUME NEW q \in Session
        PROVE  PlaceKept(q)' /\ (currvote'[q] \in Poll => Carried(q)')
    BY <2>0, StepPlaceKept, StepCarried DEF CountKept, Reported
  <2>2. TornPosted'
    BY <2>0, StepTornPosted DEF CountKept
  <2>3. BallotCounted'
    BY <2>0, StepBallotCounted DEF CountKept, Reported
  <2> QED
    BY <2>1, <2>2, <2>3 DEF CountKept
<1>2. CASE PollTime \/ (\E p \in Poll : Expire(p)) \/ UNCHANGED vars
  <2>1. UNCHANGED <<list, flag, results, posted, pc, currvote, at, tally, history>>
    BY <1>2 DEF PollTime, Expire, vars, list, files, local
  <2>2. TornPosted' /\ BallotCounted'
    BY <2>1 DEF CountKept, TornPosted, BallotCounted, Voted, InPost, Excused, Open, BallotsOf,
       Polls, list, history
  <2>3. ASSUME NEW q \in Session
        PROVE  PlaceKept(q)' /\ (currvote'[q] \in Poll => Carried(q)')
    BY <2>1 DEF CountKept, PlaceKept, Carried, Voted, InPost, Excused, BallotsOf, Polls, history
  <2> QED
    BY <2>2, <2>3 DEF CountKept
<1> QED
  BY <1>1, <1>2 DEF Next

LEMMA InitCountKept == Init => CountKept
<1> SUFFICES ASSUME Init PROVE CountKept
  OBVIOUS
<1>1. /\ \A s \in Session : pc[s] \in {"out", "menu"}
      /\ told = {} /\ torn = {}
  BY DEF Init
<1> QED
  BY <1>1 DEF CountKept, TornPosted, BallotCounted, PlaceKept, Carried, Voted

(* Who was told that his ballot is in the box has it there as long as the poll *)
(* is open, and then in what is posted on the board: though a ballot is       *)
(* searched for and written in two steps, and counting, announcing and        *)
(* removing are steps of their own, by whoever logs in.                     *)
THEOREM VoteBallotCounted == Spec => []BallotCounted
<1>1. CountKept => BallotCounted
  BY DEF CountKept
<1> QED
  BY <1>1, VoteTyped, InitReported, StepReported, InitCountKept, StepCountKept, PTL DEF Spec

=============================================================================
