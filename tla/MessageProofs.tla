---------------------------- MODULE MessageProofs ----------------------------
(***************************************************************************)
(* Messages, for any number of sessions, accounts, slots and messages: an    *)
(* answer goes to the account that asked, and r_msg prints a line it has read *)
(* as long as no signal, removal or count came in between.  The second rests *)
(* on an account of the lines: what a session has counted and not yet shown  *)
(* is in its account's file.  The third: what a session was signalled for it  *)
(* has missed only if another message to the account came before.           *)
(***************************************************************************)
EXTENDS Message, FiniteSetTheorems, TLAPS

Act(p) ==
  \/ Enter(p) \/ Goodbye(p) \/ UExit(p) \/ Exit(p)
  \/ (\E i \in Slot : Compose(p, i)) \/ (\E i \in Slot : Wall(p, i))
  \/ (\E l \in Level, m \in 1..Len(book) : Answer(p, l, m))
  \/ (\E l \in Level : WriteLine(p, l)) \/ (\E l \in Level : GiveUp(p, l))
  \/ (\E l \in Level : KillTtou(p, l)) \/ (\E l \in Level : KillUsr2(p, l))
  \/ CountMsg(p) \/ StartRMsg(p) \/ TakeCount(p) \/ ShowLine(p) \/ NoFile(p)
  \/ PressReturn(p) \/ EndRMsg(p)

LEMMA NextActs == Next => \E p \in Session : Act(p)
BY DEF Next, Handler, Sending, Choice, Act

(* Type correctness, variable by variable.                                   *)
Entry == [to : User, for : Session, from : Session, re : Msg \cup {0}]

TypeWho ==
  /\ uinfo \in [Slot -> Session \cup {NoPid}]
  /\ life \in [Session -> {"new", "in", "goodbye", "left", "gone"}]
TypeFiles == msgfile \in [User -> Seq(Msg)]
TypeBook == book \in Seq(Entry)
TypeCount == msg_num \in [Session -> Nat] /\ cnt \in [Session -> Nat]
TypeSignals == ttou \in [Session -> BOOLEAN] /\ usr2 \in [Session -> BOOLEAN]
TypeHandler == hnd \in [Session -> {"none", "loop", "counted", "key", "answer"}]
TypeJob == job \in [Session -> [Level -> Job]]
TypeShown == shown \in [Session -> SUBSET Msg]
TypeHistory ==
  /\ signalled \subseteq Msg \X Session /\ overtaken \subseteq Msg
  /\ drift \subseteq Session /\ garbage \subseteq Session

LEMMA TypeParts ==
  TypeOK <=> /\ TypeWho /\ TypeFiles /\ TypeBook /\ TypeCount /\ TypeSignals
             /\ TypeHandler /\ TypeJob /\ TypeShown /\ TypeHistory
BY DEF TypeOK, TypeWho, TypeFiles, TypeBook, TypeCount, TypeSignals, TypeHandler,
       TypeJob, TypeShown, TypeHistory, Entry

(* r_msg reads lines only if it has messages to show.                        *)
SomethingCounted == \A p \in Session : hnd[p] = "counted" => msg_num[p] > 0

(* Only messages that were written are in files, answered, or being signalled. *)
FilesWritten ==
  \A u \in User : \A k \in 1..Len(msgfile[u]) : msgfile[u][k] <= Len(book)

AnsweredWritten == \A k \in 1..Len(book) : book[k].re <= Len(book)

Written(j) ==
  /\ j.m <= Len(book) /\ j.re <= Len(book)
  /\ j.stage \in {"ttou", "usr2"} => j.m # 0

JobsWritten == \A p \in Session, l \in Level : Written(job[p][l])

(* While an answer is typed its entry and process id are those of the account  *)
(* that asked.                                                              *)
AnswerJob ==
  \A p \in Session, l \in Level : job[p][l].stage = "type" /\ job[p][l].re # 0 =>
    /\ job[p][l].at # 0 /\ job[p][l].pid # NoPid
    /\ Account[job[p][l].pid] = Account[book[job[p][l].re].from]

IInv0 ==
  /\ TypeOK /\ SomethingCounted /\ FilesWritten /\ AnsweredWritten /\ JobsWritten
  /\ AnswerJob /\ AnswerToAsker

LEMMA StepWho ==
  ASSUME TypeWho, NEW p \in Session, Act(p)
  PROVE  TypeWho'
<1>1. CASE (\E i \in Slot : Compose(p, i)) \/ (\E i \in Slot : Wall(p, i)) \/
          (\E l \in Level, m \in 1..Len(book) : Answer(p, l, m)) \/
          (\E l \in Level : WriteLine(p, l)) \/ (\E l \in Level : GiveUp(p, l)) \/
          (\E l \in Level : KillTtou(p, l)) \/ (\E l \in Level : KillUsr2(p, l)) \/
          CountMsg(p) \/ StartRMsg(p) \/ TakeCount(p) \/ ShowLine(p) \/ NoFile(p) \/
          PressReturn(p) \/ EndRMsg(p)
  BY <1>1 DEF Answer, Compose, CountMsg, EndRMsg, GiveUp, KillTtou, KillUsr2,
       NoFile, PressReturn, ShowLine, StartRMsg, TakeCount, Wall, WriteLine, TypeWho
<1>2. CASE Enter(p)
  BY <1>2, MessageAssumption DEF Enter, TypeWho
<1>3. CASE Goodbye(p)
  BY <1>3, MessageAssumption DEF Goodbye, TypeWho
<1>4. CASE UExit(p)
  BY <1>4, MessageAssumption DEF UExit, TypeWho
<1>5. CASE Exit(p)
  BY <1>5, MessageAssumption DEF Exit, TypeWho
<1> QED
  BY <1>1, <1>2, <1>3, <1>4, <1>5 DEF Act

LEMMA IsNat == \A m \in Msg \cup {0} : m \in Nat
BY DEF Msg

(* What a message is written to, and by whom it is looked for.                *)
LEMMA Sent ==
  ASSUME IInv0, NEW p \in Session, NEW l \in Level, WriteLine(p, l)
  PROVE  /\ Uident(job[p][l]) \in User /\ Uin(job[p][l]) \in Session
         /\ Len(book) + 1 \in Msg
         /\ job[p][l].re # 0 => Uident(job[p][l]) = Account[book[job[p][l].re].from]
<1> DEFINE j == job[p][l]
<1>1. TypeWho /\ TypeJob
  BY TypeParts DEF IInv0
<1>2. j \in Job /\ j.stage = "type" /\ Reachable(j) /\ Len(book) + 1 \in Msg
  BY <1>1 DEF WriteLine, TypeJob
<1>3. Uin(j) # NoPid /\ (j.pid # NoPid => j.pid = Uin(j))
  BY <1>2 DEF Reachable
<1>4. Uin(j) \in Session
  BY <1>1, <1>2, <1>3 DEF Uin, TypeWho, Job
<1>5. CASE j.re = 0
  BY <1>2, <1>4, <1>5 DEF Uident, Job
<1>6. CASE j.re # 0
  <2>1. j.at # 0 /\ j.pid # NoPid /\ Account[j.pid] = Account[book[j.re].from]
    BY <1>2, <1>6 DEF IInv0, AnswerJob
  <2>2. Uin(j) = uinfo[j.at] /\ Uident(j) = Account[uinfo[j.at]]
    BY <1>6, <2>1 DEF Uin, Uident
  <2> QED
    BY <1>2, <1>3, <1>4, <2>1, <2>2, MessageAssumption
<1> QED
  BY <1>5, <1>6

LEMMA StepFiles ==
  ASSUME IInv0, NEW p \in Session, Act(p)
  PROVE  TypeFiles'
<1>0. TypeFiles
  BY TypeParts DEF IInv0
<1>1. CASE Enter(p) \/ UExit(p) \/ Exit(p) \/ (\E i \in Slot : Compose(p, i)) \/
          (\E i \in Slot : Wall(p, i)) \/
          (\E l \in Level, m \in 1..Len(book) : Answer(p, l, m)) \/
          (\E l \in Level : GiveUp(p, l)) \/ (\E l \in Level : KillTtou(p, l)) \/
          (\E l \in Level : KillUsr2(p, l)) \/ CountMsg(p) \/ StartRMsg(p) \/
          TakeCount(p) \/ ShowLine(p) \/ NoFile(p) \/ PressReturn(p) \/ EndRMsg(p)
  BY <1>1, <1>0 DEF Answer, Compose, CountMsg, EndRMsg, Enter, Exit, GiveUp,
       KillTtou, KillUsr2, NoFile, PressReturn, ShowLine, StartRMsg, TakeCount,
       UExit, Wall, TypeFiles
<1>2. CASE Goodbye(p)
  BY <1>2, <1>0, MessageAssumption DEF Goodbye, TypeFiles
<1>3. ASSUME NEW l \in Level, WriteLine(p, l)
      PROVE  TypeFiles'
  <2> DEFINE u == Uident(job[p][l])  m == Len(book) + 1
  <2>1. u \in User /\ m \in Msg
    BY <1>3, Sent
  <2>2. msgfile' = [msgfile EXCEPT ![u] = Append(msgfile[u], m)]
    BY <1>3 DEF WriteLine
  <2>3. Append(msgfile[u], m) \in Seq(Msg)
    BY <1>0, <2>1 DEF TypeFiles
  <2> QED
    BY <1>0, <2>2, <2>3 DEF TypeFiles
<1> QED
  BY <1>1, <1>2, <1>3 DEF Act

LEMMA StepBook ==
  ASSUME IInv0, NEW p \in Session, Act(p)
  PROVE  TypeBook'
<1>0. TypeBook /\ TypeJob
  BY TypeParts DEF IInv0
<1>1. CASE Enter(p) \/ Goodbye(p) \/ UExit(p) \/ Exit(p) \/
          (\E i \in Slot : Compose(p, i)) \/ (\E i \in Slot : Wall(p, i)) \/
          (\E l \in Level, m \in 1..Len(book) : Answer(p, l, m)) \/
          (\E l \in Level : GiveUp(p, l)) \/ (\E l \in Level : KillTtou(p, l)) \/
          (\E l \in Level : KillUsr2(p, l)) \/ CountMsg(p) \/ StartRMsg(p) \/
          TakeCount(p) \/ ShowLine(p) \/ NoFile(p) \/ PressReturn(p) \/ EndRMsg(p)
  BY <1>1, <1>0 DEF Answer, Compose, CountMsg, EndRMsg, Enter, Exit, GiveUp,
       Goodbye, KillTtou, KillUsr2, NoFile, PressReturn, ShowLine, StartRMsg,
       TakeCount, UExit, Wall, TypeBook
<1>2. ASSUME NEW l \in Level, WriteLine(p, l)
      PROVE  TypeBook'
  <2> DEFINE j == job[p][l]
             b == [to |-> Uident(j), for |-> Uin(j), from |-> p, re |-> j.re]
  <2>1. Uident(j) \in User /\ Uin(j) \in Session /\ j \in Job
    BY <1>2, <1>0, Sent DEF TypeJob
  <2>2. b \in Entry
    BY <2>1 DEF Entry, Job
  <2>3. book' = Append(book, b)
    BY <1>2 DEF WriteLine
  <2> QED
    BY <1>0, <2>2, <2>3 DEF TypeBook
<1> QED
  BY <1>1, <1>2 DEF Act

LEMMA StepCount ==
  ASSUME IInv0, NEW p \in Session, Act(p)
  PROVE  TypeCount'
<1>0. TypeCount /\ TypeFiles /\ SomethingCounted
  BY TypeParts DEF IInv0
<1>1. CASE Enter(p) \/ Goodbye(p) \/ UExit(p) \/ Exit(p) \/
          (\E i \in Slot : Compose(p, i)) \/ (\E i \in Slot : Wall(p, i)) \/
          (\E l \in Level, m \in 1..Len(book) : Answer(p, l, m)) \/
          (\E l \in Level : WriteLine(p, l)) \/ (\E l \in Level : GiveUp(p, l)) \/
          (\E l \in Level : KillTtou(p, l)) \/ (\E l \in Level : KillUsr2(p, l)) \/
          NoFile(p) \/ PressReturn(p) \/ EndRMsg(p)
  BY <1>1, <1>0 DEF Answer, Compose, EndRMsg, Enter, Exit, GiveUp, Goodbye,
       KillTtou, KillUsr2, NoFile, PressReturn, UExit, Wall, WriteLine, TypeCount,
       signals
<1>2. CASE CountMsg(p)
  BY <1>2, <1>0 DEF CountMsg, TypeCount, signals
<1>3. CASE StartRMsg(p)
  BY <1>3, <1>0 DEF StartRMsg, TypeCount, signals
<1>4. CASE TakeCount(p)
  <2>1. msgfile[Account[p]] \in Seq(Msg)
    BY <1>0, MessageAssumption DEF TypeFiles
  <2>2. Len(msgfile[Account[p]]) \in Nat
    BY <2>1
  <2> QED
    BY <1>4, <1>0, <2>2 DEF TakeCount, TypeCount, signals
<1>5. CASE ShowLine(p)
  <2>1. msg_num[p] - 1 \in Nat
    BY <1>5, <1>0 DEF ShowLine, SomethingCounted, TypeCount
  <2> QED
    BY <1>5, <1>0, <2>1 DEF ShowLine, TypeCount
<1> QED
  BY <1>1, <1>2, <1>3, <1>4, <1>5 DEF Act

LEMMA StepSignals ==
  ASSUME TypeSignals, NEW p \in Session, Act(p)
  PROVE  TypeSignals'
<1>1. CASE Enter(p) \/ Goodbye(p) \/ UExit(p) \/ Exit(p) \/
          (\E i \in Slot : Compose(p, i)) \/ (\E i \in Slot : Wall(p, i)) \/
          (\E l \in Level, m \in 1..Len(book) : Answer(p, l, m)) \/
          (\E l \in Level : WriteLine(p, l)) \/ (\E l \in Level : GiveUp(p, l)) \/
          TakeCount(p) \/ ShowLine(p) \/ NoFile(p) \/ PressReturn(p) \/ EndRMsg(p)
  BY <1>1 DEF Answer, Compose, EndRMsg, Enter, Exit, GiveUp, Goodbye, NoFile,
       PressReturn, ShowLine, TakeCount, UExit, Wall, WriteLine, TypeSignals,
       signals
<1>2. ASSUME NEW l \in Level, KillTtou(p, l)
      PROVE  TypeSignals'
  BY <1>2, MessageAssumption DEF KillTtou, TypeSignals, signals
<1>3. ASSUME NEW l \in Level, KillUsr2(p, l)
      PROVE  TypeSignals'
  BY <1>3, MessageAssumption DEF KillUsr2, TypeSignals, signals
<1>4. CASE CountMsg(p)
  BY <1>4, MessageAssumption DEF CountMsg, TypeSignals, signals
<1>5. CASE StartRMsg(p)
  BY <1>5, MessageAssumption DEF StartRMsg, TypeSignals, signals
<1> QED
  BY <1>1, <1>2, <1>3, <1>4, <1>5 DEF Act

LEMMA StepHandler ==
  ASSUME TypeHandler, NEW p \in Session, Act(p)
  PROVE  TypeHandler'
<1>1. CASE Enter(p) \/ Goodbye(p) \/ UExit(p) \/ Exit(p) \/
          (\E i \in Slot : Compose(p, i)) \/ (\E i \in Slot : Wall(p, i)) \/
          (\E l \in Level : WriteLine(p, l)) \/ (\E l \in Level : KillTtou(p, l)) \/
          CountMsg(p)
  BY <1>1 DEF Compose, CountMsg, Enter, Exit, Goodbye, KillTtou, UExit, Wall,
       WriteLine, TypeHandler, AfterLine
<1>2. ASSUME NEW l \in Level, NEW m \in 1..Len(book), Answer(p, l, m)
      PROVE  TypeHandler'
  BY <1>2, MessageAssumption DEF Answer, TypeHandler, AfterLine
<1>3. ASSUME NEW l \in Level, GiveUp(p, l)
      PROVE  TypeHandler'
  BY <1>3 DEF GiveUp, Finish, TypeHandler
<1>4. ASSUME NEW l \in Level, KillUsr2(p, l)
      PROVE  TypeHandler'
  BY <1>4 DEF KillUsr2, Finish, TypeHandler
<1>5. CASE StartRMsg(p)
  BY <1>5, MessageAssumption DEF StartRMsg, TypeHandler, AfterLine
<1>6. CASE TakeCount(p)
  BY <1>6, MessageAssumption DEF TakeCount, TypeHandler, AfterLine
<1>7. CASE ShowLine(p)
  BY <1>7, MessageAssumption DEF ShowLine, TypeHandler, AfterLine
<1>8. CASE NoFile(p)
  BY <1>8, MessageAssumption DEF NoFile, TypeHandler, AfterLine
<1>9. CASE PressReturn(p)
  BY <1>9, MessageAssumption DEF PressReturn, TypeHandler, AfterLine
<1>10. CASE EndRMsg(p)
  BY <1>10, MessageAssumption DEF EndRMsg, TypeHandler, AfterLine
<1> QED
  BY <1>1, <1>2, <1>3, <1>4, <1>5, <1>6, <1>7, <1>8, <1>9, <1>10 DEF Act

(* The jobs a session takes on.                                             *)
LEMMA Jobs ==
  /\ \A p \in Session : NoJob(p) \in Job
  /\ \A p \in Session, i \in Slot, u \in User :
       [NoJob(p) EXCEPT !.stage = "type", !.at = i, !.to = u] \in Job
  /\ \A p \in Session, q \in Session, u \in User :
       [NoJob(p) EXCEPT !.stage = "type", !.pid = q, !.to = u] \in Job
  /\ \A p \in Session, i \in Slot, q \in Session, m \in Msg :
       [NoJob(p) EXCEPT !.stage = "type", !.at = i, !.pid = q, !.re = m] \in Job
  /\ \A j \in Job, m \in Msg : [j EXCEPT !.stage = "ttou", !.m = m] \in Job
  /\ \A j \in Job : [j EXCEPT !.stage = "usr2"] \in Job
<1>0. \A p \in Session : NoJob(p) \in Job
  BY MessageAssumption DEF NoJob, Job
<1>1. ASSUME NEW j \in Job
      PROVE  /\ [j EXCEPT !.stage = "type"] \in Job
             /\ [j EXCEPT !.stage = "ttou"] \in Job
             /\ [j EXCEPT !.stage = "usr2"] \in Job
             /\ \A i \in Slot : [j EXCEPT !.at = i] \in Job
             /\ \A q \in Session : [j EXCEPT !.pid = q] \in Job
             /\ \A m \in Msg : [j EXCEPT !.re = m] \in Job
             /\ \A m \in Msg : [j EXCEPT !.m = m] \in Job
             /\ \A u \in User : [j EXCEPT !.to = u] \in Job
  BY DEF Job
<1>2. ASSUME NEW p \in Session, NEW i \in Slot, NEW u \in User
      PROVE  [NoJob(p) EXCEPT !.stage = "type", !.at = i, !.to = u] \in Job
  <2>1. [NoJob(p) EXCEPT !.stage = "type", !.at = i, !.to = u]
          = [[[NoJob(p) EXCEPT !.stage = "type"] EXCEPT !.at = i] EXCEPT !.to = u]
    OBVIOUS
  <2> QED
    BY <1>0, <1>1, <2>1
<1>3. ASSUME NEW p \in Session, NEW q \in Session, NEW u \in User
      PROVE  [NoJob(p) EXCEPT !.stage = "type", !.pid = q, !.to = u] \in Job
  <2>1. [NoJob(p) EXCEPT !.stage = "type", !.pid = q, !.to = u]
          = [[[NoJob(p) EXCEPT !.stage = "type"] EXCEPT !.pid = q] EXCEPT !.to = u]
    OBVIOUS
  <2> QED
    BY <1>0, <1>1, <2>1
<1>4. ASSUME NEW p \in Session, NEW i \in Slot, NEW q \in Session, NEW m \in Msg
      PROVE  [NoJob(p) EXCEPT !.stage = "type", !.at = i, !.pid = q, !.re = m] \in Job
  <2>1. [NoJob(p) EXCEPT !.stage = "type", !.at = i, !.pid = q, !.re = m]
          = [[[[NoJob(p) EXCEPT !.stage = "type"] EXCEPT !.at = i] EXCEPT !.pid = q]
               EXCEPT !.re = m]
    OBVIOUS
  <2> QED
    BY <1>0, <1>1, <2>1
<1>5. ASSUME NEW j \in Job, NEW m \in Msg
      PROVE  [j EXCEPT !.stage = "ttou", !.m = m] \in Job
  <2>1. [j EXCEPT !.stage = "ttou", !.m = m] = [[j EXCEPT !.stage = "ttou"] EXCEPT !.m = m]
    OBVIOUS
  <2> QED
    BY <1>1, <2>1
<1> QED
  BY <1>0, <1>1, <1>2, <1>3, <1>4, <1>5

LEMMA JobWritten ==
  ASSUME TypeJob, NEW p \in Session, NEW l \in Level, NEW j \in Job, SetJob(p, l, j)
  PROVE  TypeJob'
<1>1. [job[p] EXCEPT ![l] = j] \in [Level -> Job]
  BY DEF TypeJob
<1> QED
  BY <1>1 DEF TypeJob, SetJob

LEMMA Found ==
  ASSUME TypeWho, NEW m, NEW i \in FoundFor(m)
  PROVE  i \in Slot /\ uinfo[i] \in Session /\ Account[uinfo[i]] = Account[book[m].from]
BY DEF FoundFor, TypeWho

LEMMA StepJob ==
  ASSUME IInv0, NEW p \in Session, Act(p)
  PROVE  TypeJob'
<1>0. TypeJob /\ TypeWho /\ TypeBook
  BY TypeParts DEF IInv0
<1>1. CASE Enter(p) \/ Goodbye(p) \/ UExit(p) \/ Exit(p) \/ CountMsg(p) \/ StartRMsg(p)
          \/ TakeCount(p) \/ ShowLine(p) \/ NoFile(p) \/ PressReturn(p) \/ EndRMsg(p)
  BY <1>1, <1>0 DEF CountMsg, EndRMsg, Enter, Exit, Goodbye, NoFile, PressReturn,
       ShowLine, StartRMsg, TakeCount, UExit, TypeJob
<1>2. ASSUME NEW i \in Slot, Compose(p, i)
      PROVE  TypeJob'
  <2>1. uinfo[i] \in Session /\ Account[uinfo[i]] \in User /\ "menu" \in Level
    BY <1>2, <1>0, MessageAssumption DEF Compose, TypeWho, Level
  <2>2. [NoJob(p) EXCEPT !.stage = "type", !.at = i, !.to = Account[uinfo[i]]] \in Job
    BY <2>1, Jobs
  <2> QED
    BY <1>2, <1>0, <2>1, <2>2, JobWritten DEF Compose
<1>3. ASSUME NEW i \in Slot, Wall(p, i)
      PROVE  TypeJob'
  <2>1. uinfo[i] \in Session /\ Account[uinfo[i]] \in User /\ "menu" \in Level
    BY <1>3, <1>0, MessageAssumption DEF Wall, TypeWho, Level
  <2>2. [NoJob(p) EXCEPT !.stage = "type", !.pid = uinfo[i], !.to = Account[uinfo[i]]] \in Job
    BY <2>1, Jobs
  <2> QED
    BY <1>3, <1>0, <2>1, <2>2, JobWritten DEF Wall
<1>4. ASSUME NEW l \in Level, NEW m \in 1..Len(book), Answer(p, l, m)
      PROVE  TypeJob'
  <2>1. PICK i \in FoundFor(m) :
          SetJob(p, l, [NoJob(p) EXCEPT !.stage = "type", !.at = i, !.pid = uinfo[i],
                                        !.re = m])
    BY <1>4 DEF Answer
  <2>2. m \in Msg
    <3>1. Len(book) < MaxMsg /\ Len(book) \in Nat
      BY <1>4, <1>0 DEF Answer, CanWrite, TypeBook
    <3> QED
      BY <3>1, MessageAssumption DEF Msg
  <2>3. [NoJob(p) EXCEPT !.stage = "type", !.at = i, !.pid = uinfo[i], !.re = m] \in Job
    BY <1>0, <2>2, Found, Jobs
  <2> QED
    BY <1>0, <2>1, <2>3, JobWritten
<1>5. ASSUME NEW l \in Level, WriteLine(p, l)
      PROVE  TypeJob'
  <2>1. job[p][l] \in Job /\ Len(book) + 1 \in Msg
    BY <1>5, <1>0, Sent DEF TypeJob
  <2> QED
    BY <1>5, <1>0, <2>1, Jobs, JobWritten DEF WriteLine
<1>6. ASSUME NEW l \in Level, GiveUp(p, l)
      PROVE  TypeJob'
  BY <1>6, <1>0, Jobs, JobWritten DEF GiveUp, Finish
<1>7. ASSUME NEW l \in Level, KillTtou(p, l)
      PROVE  TypeJob'
  <2>1. job[p][l] \in Job
    BY <1>0 DEF TypeJob
  <2> QED
    BY <1>7, <1>0, <2>1, Jobs, JobWritten DEF KillTtou
<1>8. ASSUME NEW l \in Level, KillUsr2(p, l)
      PROVE  TypeJob'
  BY <1>8, <1>0, Jobs, JobWritten DEF KillUsr2, Finish
<1> QED
  BY <1>1, <1>2, <1>3, <1>4, <1>5, <1>6, <1>7, <1>8 DEF Act

LEMMA LastReadType ==
  ASSUME TypeFiles, TypeCount, SomethingCounted, NEW p \in Session, hnd[p] = "counted",
         msgfile[Account[p]] # <<>>
  PROVE  LastRead(p) \subseteq Msg
<1> DEFINE f == msgfile[Account[p]]  upto == cnt[p] + 1 - msg_num[p]
<1>1. f \in Seq(Msg) /\ Len(f) \in Nat /\ Len(f) > 0
  BY MessageAssumption DEF TypeFiles
<1>2. msg_num[p] \in Nat /\ cnt[p] \in Nat
  BY DEF TypeCount
<1>3. CASE msg_num[p] > cnt[p]
  BY <1>3 DEF LastRead
<1>4. CASE ~ (msg_num[p] > cnt[p])
  <2>1. upto \in Nat /\ upto > 0
    BY <1>2, <1>4
  <2>2. (IF upto <= Len(f) THEN upto ELSE Len(f)) \in 1..Len(f)
    BY <1>1, <2>1
  <2>3. LastRead(p) = {f[IF upto <= Len(f) THEN upto ELSE Len(f)]}
    BY <1>4 DEF LastRead
  <2> QED
    BY <1>1, <2>2, <2>3
<1> QED
  BY <1>3, <1>4

LEMMA StepShown ==
  ASSUME IInv0, NEW p \in Session, Act(p)
  PROVE  TypeShown'
<1>0. TypeShown /\ TypeFiles /\ TypeCount /\ SomethingCounted
  BY TypeParts DEF IInv0
<1>1. CASE Enter(p) \/ Goodbye(p) \/ UExit(p) \/ Exit(p) \/
          (\E i \in Slot : Compose(p, i)) \/ (\E i \in Slot : Wall(p, i)) \/
          (\E l \in Level, m \in 1..Len(book) : Answer(p, l, m)) \/
          (\E l \in Level : WriteLine(p, l)) \/ (\E l \in Level : GiveUp(p, l)) \/
          (\E l \in Level : KillTtou(p, l)) \/ (\E l \in Level : KillUsr2(p, l)) \/
          CountMsg(p) \/ StartRMsg(p) \/ TakeCount(p) \/ NoFile(p) \/ PressReturn(p)
          \/ EndRMsg(p)
  BY <1>1, <1>0 DEF Answer, Compose, CountMsg, EndRMsg, Enter, Exit, GiveUp,
       Goodbye, KillTtou, KillUsr2, NoFile, PressReturn, StartRMsg, TakeCount,
       UExit, Wall, WriteLine, TypeShown, history
<1>2. CASE ShowLine(p)
  <2>1. LastRead(p) \subseteq Msg
    BY <1>2, <1>0, LastReadType DEF ShowLine
  <2>2. shown' = [shown EXCEPT ![p] = shown[p] \cup LastRead(p)]
    BY <1>2 DEF ShowLine
  <2> QED
    BY <1>0, <2>1, <2>2 DEF TypeShown
<1> QED
  BY <1>1, <1>2 DEF Act

LEMMA StepHistory ==
  ASSUME IInv0, NEW p \in Session, Act(p)
  PROVE  TypeHistory'
<1>0. TypeHistory /\ TypeFiles /\ TypeJob /\ TypeWho
  BY TypeParts DEF IInv0
<1>1. CASE Enter(p) \/ UExit(p) \/ Exit(p) \/ (\E i \in Slot : Compose(p, i)) \/
          (\E i \in Slot : Wall(p, i)) \/
          (\E l \in Level, m \in 1..Len(book) : Answer(p, l, m)) \/
          (\E l \in Level : GiveUp(p, l)) \/ StartRMsg(p) \/ TakeCount(p) \/ NoFile(p)
          \/ PressReturn(p) \/ EndRMsg(p)
  BY <1>1, <1>0 DEF Answer, Compose, EndRMsg, Enter, Exit, GiveUp, NoFile,
       PressReturn, StartRMsg, TakeCount, UExit, Wall, TypeHistory, history
<1>2. CASE Goodbye(p)
  BY <1>2, <1>0 DEF Goodbye, TypeHistory, history
<1>3. ASSUME NEW l \in Level, WriteLine(p, l)
      PROVE  TypeHistory'
  <2> DEFINE u == Uident(job[p][l])
  <2>1. msgfile[u] \in Seq(Msg)
    BY <1>3, <1>0, Sent DEF TypeFiles
  <2>2. ToSet(msgfile[u]) \subseteq Msg
    BY <2>1 DEF ToSet
  <2> QED
    BY <1>3, <1>0, <2>2 DEF WriteLine, TypeHistory
<1>4. ASSUME NEW l \in Level, KillTtou(p, l)
      PROVE  TypeHistory'
  <2>1. job[p][l] \in Job
    BY <1>0 DEF TypeJob
  <2>2. \A q \in Hit(job[p][l]) : q \in Session
    BY <1>0, <2>1 DEF Hit, Uin, TypeWho, Job
  <2>3. drift' = drift \cup {q \in Hit(job[p][l]) : ~Addressed(job[p][l].m, q)}
    BY <1>4 DEF KillTtou
  <2> QED
    BY <1>4, <1>0, <2>2, <2>3 DEF KillTtou, TypeHistory
<1>5. ASSUME NEW l \in Level, KillUsr2(p, l)
      PROVE  TypeHistory'
  <2>1. job[p][l].stage = "usr2" /\ job[p][l] \in Job
    BY <1>5, <1>0 DEF KillUsr2, TypeJob
  <2>2. job[p][l].m \in Msg
    BY <2>1 DEF IInv0, JobsWritten, Written, Job
  <2>3. \A q \in Hit(job[p][l]) : q \in Session
    BY <1>0, <2>1 DEF Hit, Uin, TypeWho, Job
  <2>4. signalled' = signalled \cup {<<job[p][l].m, q>> : q \in Hit(job[p][l])}
    BY <1>5 DEF KillUsr2
  <2> QED
    BY <1>5, <1>0, <2>2, <2>3, <2>4 DEF KillUsr2, TypeHistory
<1>6. CASE CountMsg(p)
  BY <1>6, <1>0 DEF CountMsg, TypeHistory, history
<1>7. CASE ShowLine(p)
  BY <1>7, <1>0 DEF ShowLine, TypeHistory, history
<1> QED
  BY <1>1, <1>2, <1>3, <1>4, <1>5, <1>6, <1>7 DEF Act

LEMMA StepType ==
  ASSUME IInv0, NEW p \in Session, Act(p)
  PROVE  TypeOK'
<1>1. TypeWho /\ TypeSignals /\ TypeHandler
  BY TypeParts DEF IInv0
<1>2. TypeWho' /\ TypeSignals' /\ TypeHandler'
  BY <1>1, StepWho, StepSignals, StepHandler
<1>3. TypeFiles' /\ TypeBook' /\ TypeCount' /\ TypeJob' /\ TypeShown' /\ TypeHistory'
  BY StepFiles, StepBook, StepCount, StepJob, StepShown, StepHistory
<1> QED
  BY <1>2, <1>3 DEF TypeOK, TypeWho, TypeFiles, TypeBook, TypeCount, TypeSignals,
     TypeHandler, TypeJob, TypeShown, TypeHistory, Entry

LEMMA StepCounted ==
  ASSUME IInv0, NEW p \in Session, Act(p)
  PROVE  SomethingCounted'
<1>0. SomethingCounted /\ TypeHandler /\ TypeCount
  BY TypeParts DEF IInv0
<1>1. CASE Enter(p) \/ Goodbye(p) \/ UExit(p) \/ Exit(p) \/
          (\E i \in Slot : Compose(p, i)) \/ (\E i \in Slot : Wall(p, i)) \/
          (\E l \in Level : WriteLine(p, l)) \/ (\E l \in Level : KillTtou(p, l))
  BY <1>1, <1>0 DEF Compose, Enter, Exit, Goodbye, KillTtou, UExit, Wall, WriteLine,
       SomethingCounted, signals
<1>2. CASE CountMsg(p)
  BY <1>2, <1>0 DEF CountMsg, SomethingCounted, TypeHandler, TypeCount, signals
<1>3. CASE StartRMsg(p)
  BY <1>3, <1>0 DEF StartRMsg, SomethingCounted, TypeHandler, TypeCount, signals
<1>4. CASE TakeCount(p)
  BY <1>4, <1>0 DEF TakeCount, SomethingCounted, TypeHandler, TypeCount, signals
<1>5. CASE ShowLine(p)
  BY <1>5, <1>0 DEF ShowLine, SomethingCounted, TypeHandler, TypeCount, signals, AfterLine
<1>6. CASE NoFile(p)
  BY <1>6, <1>0 DEF NoFile, SomethingCounted, TypeHandler, TypeCount, signals
<1>7. CASE PressReturn(p)
  BY <1>7, <1>0 DEF PressReturn, SomethingCounted, TypeHandler, TypeCount, signals
<1>8. CASE EndRMsg(p)
  BY <1>8, <1>0 DEF EndRMsg, SomethingCounted, TypeHandler, TypeCount, signals
<1>9. ASSUME NEW l \in Level, NEW m \in 1..Len(book), Answer(p, l, m)
      PROVE  SomethingCounted'
  BY <1>9, <1>0 DEF Answer, SomethingCounted, TypeHandler, TypeCount, signals
<1>10. ASSUME NEW l \in Level, GiveUp(p, l)
      PROVE  SomethingCounted'
  BY <1>10, <1>0 DEF GiveUp, SomethingCounted, TypeHandler, TypeCount, signals, Finish
<1>11. ASSUME NEW l \in Level, KillUsr2(p, l)
      PROVE  SomethingCounted'
  BY <1>11, <1>0 DEF KillUsr2, SomethingCounted, TypeHandler, TypeCount, signals, Finish
<1> QED
  BY <1>1, <1>2, <1>3, <1>4, <1>5, <1>6, <1>7, <1>8, <1>9, <1>10, <1>11 DEF Act

(* The book is only added to.                                               *)
BookGrows ==
  /\ Len(book) \in Nat /\ Len(book') \in Nat /\ Len(book) <= Len(book')
  /\ \A k \in 1..Len(book) : book'[k] = book[k]

LEMMA StepBookGrows ==
  ASSUME IInv0, NEW p \in Session, Act(p)
  PROVE  BookGrows
<1>0. TypeBook
  BY TypeParts DEF IInv0
<1>2. CASE Enter(p)
  BY <1>2, <1>0 DEF Enter, BookGrows, TypeBook
<1>3. CASE Goodbye(p)
  BY <1>3, <1>0 DEF Goodbye, BookGrows, TypeBook
<1>4. CASE UExit(p)
  BY <1>4, <1>0 DEF UExit, BookGrows, TypeBook
<1>5. CASE Exit(p)
  BY <1>5, <1>0 DEF Exit, BookGrows, TypeBook
<1>6. ASSUME NEW i \in Slot, Compose(p, i)
      PROVE  BookGrows
  BY <1>6, <1>0 DEF Compose, BookGrows, TypeBook
<1>7. ASSUME NEW i \in Slot, Wall(p, i)
      PROVE  BookGrows
  BY <1>7, <1>0 DEF Wall, BookGrows, TypeBook
<1>8. ASSUME NEW l \in Level, NEW m \in 1..Len(book), Answer(p, l, m)
      PROVE  BookGrows
  BY <1>8, <1>0 DEF Answer, BookGrows, TypeBook
<1>9. ASSUME NEW l \in Level, WriteLine(p, l)
      PROVE  BookGrows
  <2> DEFINE j == job[p][l]
             b == [to |-> Uident(j), for |-> Uin(j), from |-> p, re |-> j.re]
  <2>1. book' = Append(book, b) /\ book \in Seq(Entry)
    BY <1>9, <1>0 DEF WriteLine, TypeBook
  <2> QED
    BY <2>1 DEF BookGrows
<1>10. ASSUME NEW l \in Level, GiveUp(p, l)
      PROVE  BookGrows
  BY <1>10, <1>0 DEF GiveUp, BookGrows, TypeBook
<1>11. ASSUME NEW l \in Level, KillTtou(p, l)
      PROVE  BookGrows
  BY <1>11, <1>0 DEF KillTtou, BookGrows, TypeBook
<1>12. ASSUME NEW l \in Level, KillUsr2(p, l)
      PROVE  BookGrows
  BY <1>12, <1>0 DEF KillUsr2, BookGrows, TypeBook
<1>13. CASE CountMsg(p)
  BY <1>13, <1>0 DEF CountMsg, BookGrows, TypeBook
<1>14. CASE StartRMsg(p)
  BY <1>14, <1>0 DEF StartRMsg, BookGrows, TypeBook
<1>15. CASE TakeCount(p)
  BY <1>15, <1>0 DEF TakeCount, BookGrows, TypeBook
<1>16. CASE ShowLine(p)
  BY <1>16, <1>0 DEF ShowLine, BookGrows, TypeBook
<1>17. CASE NoFile(p)
  BY <1>17, <1>0 DEF NoFile, BookGrows, TypeBook
<1>18. CASE PressReturn(p)
  BY <1>18, <1>0 DEF PressReturn, BookGrows, TypeBook
<1>19. CASE EndRMsg(p)
  BY <1>19, <1>0 DEF EndRMsg, BookGrows, TypeBook
<1> QED
  BY <1>2, <1>3, <1>4, <1>5, <1>6, <1>7, <1>8, <1>9, <1>10, <1>11, <1>12, <1>13,
     <1>14, <1>15, <1>16, <1>17, <1>18, <1>19 DEF Act

LEMMA StepFilesWritten ==
  ASSUME IInv0, NEW p \in Session, Act(p)
  PROVE  FilesWritten'
<1>0. FilesWritten /\ TypeFiles /\ TypeBook
  BY TypeParts DEF IInv0
<1>2. CASE Enter(p)
  BY <1>2, <1>0 DEF Enter, FilesWritten
<1>3. CASE Goodbye(p)
  <2>1. ASSUME NEW u \in User, NEW k \in 1..Len(msgfile'[u])
        PROVE  msgfile'[u][k] <= Len(book')
    <3>1. book' = book /\ (msgfile'[u] = <<>> \/ msgfile'[u] = msgfile[u])
      BY <1>3, <1>0 DEF Goodbye, TypeFiles
    <3>2. Len(<<>>) = 0
      OBVIOUS
    <3> QED
      BY <1>0, <2>1, <3>1, <3>2 DEF FilesWritten
  <2> QED
    BY <2>1 DEF FilesWritten
<1>4. CASE UExit(p)
  BY <1>4, <1>0 DEF UExit, FilesWritten
<1>5. CASE Exit(p)
  BY <1>5, <1>0 DEF Exit, FilesWritten
<1>6. ASSUME NEW i \in Slot, Compose(p, i)
      PROVE  FilesWritten'
  BY <1>6, <1>0 DEF Compose, FilesWritten
<1>7. ASSUME NEW i \in Slot, Wall(p, i)
      PROVE  FilesWritten'
  BY <1>7, <1>0 DEF Wall, FilesWritten
<1>8. ASSUME NEW l \in Level, NEW m \in 1..Len(book), Answer(p, l, m)
      PROVE  FilesWritten'
  BY <1>8, <1>0 DEF Answer, FilesWritten
<1>9. ASSUME NEW l \in Level, WriteLine(p, l)
      PROVE  FilesWritten'
  <2> DEFINE w == Uident(job[p][l])  m == Len(book) + 1
  <2>1. w \in User /\ m \in Msg
    BY <1>9, Sent
  <2>2. msgfile' = [msgfile EXCEPT ![w] = Append(msgfile[w], m)]
    BY <1>9 DEF WriteLine
  <2>3. BookGrows /\ Len(book') = m
    <3> DEFINE b == [to |-> w, for |-> Uin(job[p][l]), from |-> p, re |-> job[p][l].re]
    <3>1. book' = Append(book, b) /\ book \in Seq(Entry)
      BY <1>9, <1>0 DEF WriteLine, TypeBook
    <3> QED
      BY <3>1, StepBookGrows
  <2>4. ASSUME NEW u \in User, NEW k \in 1..Len(msgfile'[u])
        PROVE  msgfile'[u][k] <= Len(book')
    <3>1. CASE u # w
      <4>1. msgfile'[u] = msgfile[u]
        BY <1>0, <2>2, <3>1 DEF TypeFiles
      <4>2. msgfile[u] \in Seq(Msg) /\ k \in 1..Len(msgfile[u])
        BY <1>0, <2>4, <4>1 DEF TypeFiles
      <4>3. msgfile[u][k] <= Len(book) /\ msgfile[u][k] \in Nat
        BY <1>0, <2>4, <4>2, IsNat DEF FilesWritten
      <4> QED
        BY <2>3, <4>1, <4>3 DEF BookGrows
    <3>2. CASE u = w
      <4>1. msgfile'[u] = Append(msgfile[u], m) /\ msgfile[u] \in Seq(Msg)
        BY <1>0, <2>2, <3>2 DEF TypeFiles
      <4>2. CASE k \in 1..Len(msgfile[u])
        <5>1. msgfile'[u][k] = msgfile[u][k] /\ msgfile[u][k] <= Len(book)
              /\ msgfile[u][k] \in Nat
          BY <1>0, <4>1, <4>2, IsNat DEF FilesWritten
        <5> QED
          BY <2>3, <5>1 DEF BookGrows
      <4>3. CASE k \notin 1..Len(msgfile[u])
        <5>1. msgfile'[u][k] = m
          BY <2>4, <4>1, <4>3
        <5> QED
          BY <2>1, <2>3, <5>1 DEF Msg
      <4> QED
        BY <4>2, <4>3
    <3> QED
      BY <3>1, <3>2
  <2> QED
    BY <2>4 DEF FilesWritten
<1>10. ASSUME NEW l \in Level, GiveUp(p, l)
      PROVE  FilesWritten'
  BY <1>10, <1>0 DEF GiveUp, FilesWritten
<1>11. ASSUME NEW l \in Level, KillTtou(p, l)
      PROVE  FilesWritten'
  BY <1>11, <1>0 DEF KillTtou, FilesWritten
<1>12. ASSUME NEW l \in Level, KillUsr2(p, l)
      PROVE  FilesWritten'
  BY <1>12, <1>0 DEF KillUsr2, FilesWritten
<1>13. CASE CountMsg(p)
  BY <1>13, <1>0 DEF CountMsg, FilesWritten
<1>14. CASE StartRMsg(p)
  BY <1>14, <1>0 DEF StartRMsg, FilesWritten
<1>15. CASE TakeCount(p)
  BY <1>15, <1>0 DEF TakeCount, FilesWritten
<1>16. CASE ShowLine(p)
  BY <1>16, <1>0 DEF ShowLine, FilesWritten
<1>17. CASE NoFile(p)
  BY <1>17, <1>0 DEF NoFile, FilesWritten
<1>18. CASE PressReturn(p)
  BY <1>18, <1>0 DEF PressReturn, FilesWritten
<1>19. CASE EndRMsg(p)
  BY <1>19, <1>0 DEF EndRMsg, FilesWritten
<1> QED
  BY <1>2, <1>3, <1>4, <1>5, <1>6, <1>7, <1>8, <1>9, <1>10, <1>11, <1>12, <1>13,
     <1>14, <1>15, <1>16, <1>17, <1>18, <1>19 DEF Act

(* What the sending of a message leaves in the book.                          *)
LEMMA NewEntry ==
  ASSUME IInv0, NEW p \in Session, NEW l \in Level, WriteLine(p, l)
  PROVE  /\ Len(book') = Len(book) + 1
         /\ book'[Len(book) + 1] = [to |-> Uident(job[p][l]), for |-> Uin(job[p][l]),
                                   from |-> p, re |-> job[p][l].re]
         /\ \A k \in 1..Len(book) : book'[k] = book[k] /\ book'[k] \in Entry
         /\ Len(book) \in Nat
<1> DEFINE b == [to |-> Uident(job[p][l]), for |-> Uin(job[p][l]),
                 from |-> p, re |-> job[p][l].re]
<1>1. book' = Append(book, b) /\ book \in Seq(Entry)
  BY TypeParts DEF IInv0, WriteLine, TypeBook
<1> QED
  BY <1>1

LEMMA StepAnswered ==
  ASSUME IInv0, NEW p \in Session, Act(p)
  PROVE  AnsweredWritten'
<1>0. AnsweredWritten /\ JobsWritten /\ TypeJob
  BY TypeParts DEF IInv0
<1>1. CASE Enter(p) \/ Goodbye(p) \/ UExit(p) \/ Exit(p) \/
          (\E i \in Slot : Compose(p, i)) \/ (\E i \in Slot : Wall(p, i)) \/
          (\E l \in Level, m \in 1..Len(book) : Answer(p, l, m)) \/
          (\E l \in Level : GiveUp(p, l)) \/ (\E l \in Level : KillTtou(p, l)) \/
          (\E l \in Level : KillUsr2(p, l)) \/ CountMsg(p) \/ StartRMsg(p) \/
          TakeCount(p) \/ ShowLine(p) \/ NoFile(p) \/ PressReturn(p) \/ EndRMsg(p)
  BY <1>1, <1>0 DEF Answer, Compose, CountMsg, EndRMsg, Enter, Exit, GiveUp,
       Goodbye, KillTtou, KillUsr2, NoFile, PressReturn, ShowLine, StartRMsg,
       TakeCount, UExit, Wall, AnsweredWritten
<1>2. ASSUME NEW l \in Level, WriteLine(p, l)
      PROVE  AnsweredWritten'
  <2>0. /\ Len(book') = Len(book) + 1 /\ Len(book) \in Nat
        /\ book'[Len(book) + 1] = [to |-> Uident(job[p][l]), for |-> Uin(job[p][l]),
                                  from |-> p, re |-> job[p][l].re]
        /\ \A k \in 1..Len(book) : book'[k] = book[k] /\ book'[k] \in Entry
    BY <1>2, NewEntry
  <2>1. job[p][l].re <= Len(book) /\ job[p][l].re \in Nat
    BY <1>0, IsNat DEF JobsWritten, Written, TypeJob, Job
  <2>2. ASSUME NEW k \in 1..Len(book') PROVE book'[k].re <= Len(book')
    <3>1. CASE k \in 1..Len(book)
      <4>1. book'[k] = book[k] /\ book[k].re <= Len(book) /\ book[k].re \in Nat
        BY <1>2, <1>0, <3>1, <2>0, IsNat DEF AnsweredWritten, Entry
      <4> QED
        BY <1>2, <4>1, <2>0
    <3>2. CASE k \notin 1..Len(book)
      <4>1. k = Len(book) + 1
        BY <1>2, <2>2, <3>2, <2>0
      <4> QED
        BY <1>2, <2>1, <4>1, <2>0
    <3> QED
      BY <3>1, <3>2
  <2> QED
    BY <2>2 DEF AnsweredWritten
<1> QED
  BY <1>1, <1>2 DEF Act

LEMMA StepAsker ==
  ASSUME IInv0, NEW p \in Session, Act(p)
  PROVE  AnswerToAsker'
<1>0. AnswerToAsker /\ AnsweredWritten /\ JobsWritten /\ TypeJob
  BY TypeParts DEF IInv0
<1>1. CASE Enter(p) \/ Goodbye(p) \/ UExit(p) \/ Exit(p) \/
          (\E i \in Slot : Compose(p, i)) \/ (\E i \in Slot : Wall(p, i)) \/
          (\E l \in Level, m \in 1..Len(book) : Answer(p, l, m)) \/
          (\E l \in Level : GiveUp(p, l)) \/ (\E l \in Level : KillTtou(p, l)) \/
          (\E l \in Level : KillUsr2(p, l)) \/ CountMsg(p) \/ StartRMsg(p) \/
          TakeCount(p) \/ ShowLine(p) \/ NoFile(p) \/ PressReturn(p) \/ EndRMsg(p)
  BY <1>1, <1>0 DEF Answer, Compose, CountMsg, EndRMsg, Enter, Exit, GiveUp,
       Goodbye, KillTtou, KillUsr2, NoFile, PressReturn, ShowLine, StartRMsg,
       TakeCount, UExit, Wall, AnswerToAsker
<1>2. ASSUME NEW l \in Level, WriteLine(p, l)
      PROVE  AnswerToAsker'
  <2>0. /\ Len(book') = Len(book) + 1 /\ Len(book) \in Nat
        /\ book'[Len(book) + 1] = [to |-> Uident(job[p][l]), for |-> Uin(job[p][l]),
                                  from |-> p, re |-> job[p][l].re]
        /\ \A k \in 1..Len(book) : book'[k] = book[k] /\ book'[k] \in Entry
    BY <1>2, NewEntry
  <2>1. ASSUME NEW k \in 1..Len(book'), book'[k].re # 0
        PROVE  book'[k].to = Account[book'[book'[k].re].from]
    <3>1. CASE k \in 1..Len(book)
      <4>1. book'[k] = book[k] /\ book[k].re <= Len(book) /\ book[k].re \in Nat
        BY <1>2, <1>0, <3>1, <2>0, IsNat DEF AnsweredWritten, Entry
      <4>2. book'[k].re \in 1..Len(book)
        BY <1>2, <2>1, <4>1, <2>0
      <4>3. book[k].to = Account[book[book[k].re].from]
        BY <1>0, <2>1, <3>1, <4>1 DEF AnswerToAsker
      <4> QED
        BY <1>2, <4>1, <4>2, <4>3, <2>0
    <3>2. CASE k \notin 1..Len(book)
      <4>1. k = Len(book) + 1
        BY <1>2, <2>1, <3>2, <2>0
      <4>2. /\ book'[k].to = Uident(job[p][l]) /\ book'[k].re = job[p][l].re
        BY <1>2, <4>1, <2>0
      <4>3. job[p][l].re \in 1..Len(book)
        BY <1>2, <1>0, <2>1, <4>2, <2>0, IsNat DEF JobsWritten, Written, TypeJob, Job
      <4>4. Uident(job[p][l]) = Account[book[job[p][l].re].from]
        BY <1>2, <2>1, <4>2, Sent
      <4> QED
        BY <1>2, <4>2, <4>3, <4>4, <2>0
    <3> QED
      BY <3>1, <3>2
  <2> QED
    BY <2>1 DEF AnswerToAsker
<1> QED
  BY <1>1, <1>2 DEF Act

(* One job changes at a time.                                               *)
LEMMA OneJob ==
  ASSUME TypeJob, NEW p \in Session, NEW l \in Level, NEW j, SetJob(p, l, j)
  PROVE  /\ job'[p][l] = j
         /\ \A q \in Session, k \in Level :
              q # p \/ k # l => job'[q][k] = job[q][k]
BY DEF TypeJob, SetJob

LEMMA JobFields ==
  ASSUME NEW p \in Session
  PROVE  /\ NoJob(p).stage = "none" /\ NoJob(p).m = 0 /\ NoJob(p).re = 0
         /\ \A i, u : LET j == [NoJob(p) EXCEPT !.stage = "type", !.at = i, !.to = u]
                     IN  j.stage = "type" /\ j.m = 0 /\ j.re = 0
         /\ \A q, u : LET j == [NoJob(p) EXCEPT !.stage = "type", !.pid = q, !.to = u]
                     IN  j.stage = "type" /\ j.m = 0 /\ j.re = 0
         /\ \A i, q, m : LET j == [NoJob(p) EXCEPT !.stage = "type", !.at = i, !.pid = q,
                                                  !.re = m]
                        IN  j.stage = "type" /\ j.m = 0 /\ j.re = m /\ j.at = i /\ j.pid = q
         /\ \A j \in Job : \A m : LET n == [j EXCEPT !.stage = "ttou", !.m = m]
                             IN  n.stage = "ttou" /\ n.m = m /\ n.re = j.re
         /\ \A j \in Job : LET n == [j EXCEPT !.stage = "usr2"]
                          IN  n.stage = "usr2" /\ n.m = j.m /\ n.re = j.re
BY DEF NoJob, Job

LEMMA JobsKept ==
  ASSUME IInv0, BookGrows, NEW p \in Session, NEW l \in Level, NEW j, SetJob(p, l, j),
         j.m <= Len(book'), j.re <= Len(book'),
         j.stage \in {"ttou", "usr2"} => j.m # 0
  PROVE  JobsWritten'
<1>0. TypeJob /\ JobsWritten
  BY TypeParts DEF IInv0
<1>1. ASSUME NEW q \in Session, NEW k \in Level PROVE Written(job[q][k])'
  <2>1. CASE q = p /\ k = l
    BY <1>0, <2>1, OneJob DEF Written
  <2>2. CASE q # p \/ k # l
    <3>1. job'[q][k] = job[q][k] /\ Written(job[q][k])
      BY <1>0, <2>2, OneJob DEF JobsWritten
    <3>2. job[q][k].m \in Nat /\ job[q][k].re \in Nat
      BY <1>0, IsNat DEF TypeJob, Job
    <3> QED
      BY <3>1, <3>2 DEF Written, BookGrows
  <2> QED
    BY <2>1, <2>2
<1> QED
  BY <1>1 DEF JobsWritten

LEMMA AnswersKept ==
  ASSUME IInv0, BookGrows, NEW p \in Session, NEW l \in Level, NEW j, SetJob(p, l, j),
         j.stage = "type" /\ j.re # 0 =>
           j.at # 0 /\ j.pid # NoPid /\ Account[j.pid] = Account[book'[j.re].from]
  PROVE  AnswerJob'
<1>0. TypeJob /\ JobsWritten /\ AnswerJob
  BY TypeParts DEF IInv0
<1>1. ASSUME NEW q \in Session, NEW k \in Level,
             job'[q][k].stage = "type", job'[q][k].re # 0
      PROVE  /\ job'[q][k].at # 0 /\ job'[q][k].pid # NoPid
             /\ Account[job'[q][k].pid] = Account[book'[job'[q][k].re].from]
  <2>1. CASE q = p /\ k = l
    BY <1>0, <1>1, <2>1, OneJob
  <2>2. CASE q # p \/ k # l
    <3>1. job'[q][k] = job[q][k] /\ Written(job[q][k])
      BY <1>0, <2>2, OneJob DEF JobsWritten
    <3>2. job[q][k].re \in Nat
      BY <1>0, IsNat DEF TypeJob, Job
    <3>3. job[q][k].re \in 1..Len(book)
      BY <1>1, <3>1, <3>2 DEF Written, BookGrows
    <3>4. book'[job[q][k].re] = book[job[q][k].re]
      BY <3>3 DEF BookGrows
    <3> QED
      BY <1>0, <1>1, <3>1, <3>4 DEF AnswerJob
  <2> QED
    BY <2>1, <2>2
<1> QED
  BY <1>1 DEF AnswerJob

LEMMA StepJobsWritten ==
  ASSUME IInv0, NEW p \in Session, Act(p)
  PROVE  JobsWritten'
<1>0. TypeJob /\ TypeWho /\ JobsWritten /\ AnswerJob
  BY TypeParts DEF IInv0
<1>00. BookGrows
  BY StepBookGrows
<1>1. CASE Enter(p) \/ Goodbye(p) \/ UExit(p) \/ Exit(p) \/ CountMsg(p) \/ StartRMsg(p)
          \/ TakeCount(p) \/ ShowLine(p) \/ NoFile(p) \/ PressReturn(p) \/ EndRMsg(p)
  BY <1>1, <1>0, <1>00 DEF CountMsg, EndRMsg, Enter, Exit, Goodbye, NoFile,
       PressReturn, ShowLine, StartRMsg, TakeCount, UExit, JobsWritten, Written
<1>2. ASSUME NEW i \in Slot, Compose(p, i)
      PROVE  JobsWritten'
  <2> DEFINE j == [NoJob(p) EXCEPT !.stage = "type", !.at = i, !.to = Account[uinfo[i]]]
  <2>1. SetJob(p, "menu", j) /\ "menu" \in Level
    BY <1>2 DEF Compose, Level
  <2>2. j.stage = "type" /\ j.m = 0 /\ j.re = 0 /\ 0 <= Len(book')
    BY <1>00, JobFields DEF BookGrows
  <2> HIDE DEF j
  <2> QED
    BY <1>00, <2>1, <2>2, JobsKept
<1>3. ASSUME NEW i \in Slot, Wall(p, i)
      PROVE  JobsWritten'
  <2> DEFINE j == [NoJob(p) EXCEPT !.stage = "type", !.pid = uinfo[i],
                                    !.to = Account[uinfo[i]]]
  <2>1. SetJob(p, "menu", j) /\ "menu" \in Level
    BY <1>3 DEF Wall, Level
  <2>2. j.stage = "type" /\ j.m = 0 /\ j.re = 0 /\ 0 <= Len(book')
    BY <1>00, JobFields DEF BookGrows
  <2> HIDE DEF j
  <2> QED
    BY <1>00, <2>1, <2>2, JobsKept
<1>4. ASSUME NEW l \in Level, GiveUp(p, l)
      PROVE  JobsWritten'
  <2>1. SetJob(p, l, NoJob(p))
    BY <1>4 DEF GiveUp, Finish
  <2>2. NoJob(p).stage = "none" /\ NoJob(p).m = 0 /\ NoJob(p).re = 0 /\ 0 <= Len(book')
    BY <1>00, JobFields DEF BookGrows
  <2> QED
    BY <1>00, <2>1, <2>2, JobsKept
<1>5. ASSUME NEW l \in Level, KillUsr2(p, l)
      PROVE  JobsWritten'
  <2>1. SetJob(p, l, NoJob(p))
    BY <1>5 DEF KillUsr2, Finish
  <2>2. NoJob(p).stage = "none" /\ NoJob(p).m = 0 /\ NoJob(p).re = 0 /\ 0 <= Len(book')
    BY <1>00, JobFields DEF BookGrows
  <2> QED
    BY <1>00, <2>1, <2>2, JobsKept
<1>6. ASSUME NEW l \in Level, NEW m \in 1..Len(book), Answer(p, l, m)
      PROVE  JobsWritten'
  <2>1. PICK i \in FoundFor(m) :
          SetJob(p, l, [NoJob(p) EXCEPT !.stage = "type", !.at = i, !.pid = uinfo[i],
                                        !.re = m])
    BY <1>6 DEF Answer
  <2> DEFINE j == [NoJob(p) EXCEPT !.stage = "type", !.at = i, !.pid = uinfo[i], !.re = m]
  <2>2. j.stage = "type" /\ j.m = 0 /\ j.re = m /\ j.at = i /\ j.pid = uinfo[i]
    BY JobFields
  <2>3. /\ i # 0 /\ uinfo[i] # NoPid /\ Account[uinfo[i]] = Account[book[m].from]
        /\ m <= Len(book') /\ 0 <= Len(book') /\ book'[m] = book[m]
    BY <1>0, <1>00, Found, MessageAssumption DEF BookGrows, Slot
  <2>4. SetJob(p, l, j)
    BY <2>1
  <2> HIDE DEF j
  <2> QED
    BY <1>00, <2>2, <2>3, <2>4, JobsKept
<1>7. ASSUME NEW l \in Level, WriteLine(p, l)
      PROVE  JobsWritten'
  <2> DEFINE j == [job[p][l] EXCEPT !.stage = "ttou", !.m = Len(book) + 1]
  <2>1. SetJob(p, l, j)
    BY <1>7 DEF WriteLine
  <2>2. job[p][l] \in Job /\ Written(job[p][l]) /\ job[p][l].re \in Nat
    BY <1>0, IsNat DEF TypeJob, JobsWritten, Job
  <2>3. j.stage = "ttou" /\ j.m = Len(book) + 1 /\ j.re = job[p][l].re
    BY <2>2, JobFields
  <2>4. Len(book') = Len(book) + 1 /\ Len(book) \in Nat
    BY <1>7, NewEntry
  <2> HIDE DEF j
  <2> QED
    BY <1>00, <2>1, <2>2, <2>3, <2>4, JobsKept DEF Written
<1>8. ASSUME NEW l \in Level, KillTtou(p, l)
      PROVE  JobsWritten'
  <2> DEFINE j == [job[p][l] EXCEPT !.stage = "usr2"]
  <2>1. SetJob(p, l, j) /\ book' = book /\ job[p][l].stage = "ttou"
    BY <1>8 DEF KillTtou
  <2>2. job[p][l] \in Job /\ Written(job[p][l])
    BY <1>0 DEF TypeJob, JobsWritten
  <2>3. j.stage = "usr2" /\ j.m = job[p][l].m /\ j.re = job[p][l].re
    BY <2>2, JobFields
  <2> HIDE DEF j
  <2> QED
    BY <1>00, <2>1, <2>2, <2>3, JobsKept DEF Written
<1> QED
  BY <1>1, <1>2, <1>3, <1>4, <1>5, <1>6, <1>7, <1>8 DEF Act

LEMMA StepAnswerJob ==
  ASSUME IInv0, NEW p \in Session, Act(p)
  PROVE  AnswerJob'
<1>0. TypeJob /\ TypeWho /\ JobsWritten /\ AnswerJob
  BY TypeParts DEF IInv0
<1>00. BookGrows
  BY StepBookGrows
<1>1. CASE Enter(p) \/ Goodbye(p) \/ UExit(p) \/ Exit(p) \/ CountMsg(p) \/ StartRMsg(p)
          \/ TakeCount(p) \/ ShowLine(p) \/ NoFile(p) \/ PressReturn(p) \/ EndRMsg(p)
  BY <1>1, <1>0, <1>00 DEF CountMsg, EndRMsg, Enter, Exit, Goodbye, NoFile,
       PressReturn, ShowLine, StartRMsg, TakeCount, UExit, AnswerJob, Written
<1>2. ASSUME NEW i \in Slot, Compose(p, i)
      PROVE  AnswerJob'
  <2> DEFINE j == [NoJob(p) EXCEPT !.stage = "type", !.at = i, !.to = Account[uinfo[i]]]
  <2>1. SetJob(p, "menu", j) /\ "menu" \in Level
    BY <1>2 DEF Compose, Level
  <2>2. j.stage = "type" /\ j.m = 0 /\ j.re = 0 /\ 0 <= Len(book')
    BY <1>00, JobFields DEF BookGrows
  <2> HIDE DEF j
  <2> QED
    BY <1>00, <2>1, <2>2, AnswersKept
<1>3. ASSUME NEW i \in Slot, Wall(p, i)
      PROVE  AnswerJob'
  <2> DEFINE j == [NoJob(p) EXCEPT !.stage = "type", !.pid = uinfo[i],
                                    !.to = Account[uinfo[i]]]
  <2>1. SetJob(p, "menu", j) /\ "menu" \in Level
    BY <1>3 DEF Wall, Level
  <2>2. j.stage = "type" /\ j.m = 0 /\ j.re = 0 /\ 0 <= Len(book')
    BY <1>00, JobFields DEF BookGrows
  <2> HIDE DEF j
  <2> QED
    BY <1>00, <2>1, <2>2, AnswersKept
<1>4. ASSUME NEW l \in Level, GiveUp(p, l)
      PROVE  AnswerJob'
  <2>1. SetJob(p, l, NoJob(p))
    BY <1>4 DEF GiveUp, Finish
  <2>2. NoJob(p).stage = "none" /\ NoJob(p).m = 0 /\ NoJob(p).re = 0 /\ 0 <= Len(book')
    BY <1>00, JobFields DEF BookGrows
  <2> QED
    BY <1>00, <2>1, <2>2, AnswersKept
<1>5. ASSUME NEW l \in Level, KillUsr2(p, l)
      PROVE  AnswerJob'
  <2>1. SetJob(p, l, NoJob(p))
    BY <1>5 DEF KillUsr2, Finish
  <2>2. NoJob(p).stage = "none" /\ NoJob(p).m = 0 /\ NoJob(p).re = 0 /\ 0 <= Len(book')
    BY <1>00, JobFields DEF BookGrows
  <2> QED
    BY <1>00, <2>1, <2>2, AnswersKept
<1>6. ASSUME NEW l \in Level, NEW m \in 1..Len(book), Answer(p, l, m)
      PROVE  AnswerJob'
  <2>1. PICK i \in FoundFor(m) :
          SetJob(p, l, [NoJob(p) EXCEPT !.stage = "type", !.at = i, !.pid = uinfo[i],
                                        !.re = m])
    BY <1>6 DEF Answer
  <2> DEFINE j == [NoJob(p) EXCEPT !.stage = "type", !.at = i, !.pid = uinfo[i], !.re = m]
  <2>2. j.stage = "type" /\ j.m = 0 /\ j.re = m /\ j.at = i /\ j.pid = uinfo[i]
    BY JobFields
  <2>3. /\ i # 0 /\ uinfo[i] # NoPid /\ Account[uinfo[i]] = Account[book[m].from]
        /\ m <= Len(book') /\ 0 <= Len(book') /\ book'[m] = book[m]
    BY <1>0, <1>00, Found, MessageAssumption DEF BookGrows, Slot
  <2>4. SetJob(p, l, j)
    BY <2>1
  <2> HIDE DEF j
  <2> QED
    BY <1>00, <2>2, <2>3, <2>4, AnswersKept
<1>7. ASSUME NEW l \in Level, WriteLine(p, l)
      PROVE  AnswerJob'
  <2> DEFINE j == [job[p][l] EXCEPT !.stage = "ttou", !.m = Len(book) + 1]
  <2>1. SetJob(p, l, j)
    BY <1>7 DEF WriteLine
  <2>2. job[p][l] \in Job /\ Written(job[p][l]) /\ job[p][l].re \in Nat
    BY <1>0, IsNat DEF TypeJob, JobsWritten, Job
  <2>3. j.stage = "ttou" /\ j.m = Len(book) + 1 /\ j.re = job[p][l].re
    BY <2>2, JobFields
  <2>4. Len(book') = Len(book) + 1 /\ Len(book) \in Nat
    BY <1>7, NewEntry
  <2> HIDE DEF j
  <2> QED
    BY <1>00, <2>1, <2>2, <2>3, <2>4, AnswersKept DEF Written
<1>8. ASSUME NEW l \in Level, KillTtou(p, l)
      PROVE  AnswerJob'
  <2> DEFINE j == [job[p][l] EXCEPT !.stage = "usr2"]
  <2>1. SetJob(p, l, j) /\ book' = book /\ job[p][l].stage = "ttou"
    BY <1>8 DEF KillTtou
  <2>2. job[p][l] \in Job /\ Written(job[p][l])
    BY <1>0 DEF TypeJob, JobsWritten
  <2>3. j.stage = "usr2" /\ j.m = job[p][l].m /\ j.re = job[p][l].re
    BY <2>2, JobFields
  <2> HIDE DEF j
  <2> QED
    BY <1>00, <2>1, <2>2, <2>3, AnswersKept DEF Written
<1> QED
  BY <1>1, <1>2, <1>3, <1>4, <1>5, <1>6, <1>7, <1>8 DEF Act

LEMMA Init0 == Init => IInv0
<1> SUFFICES ASSUME Init PROVE IInv0
  OBVIOUS
<1>1. TypeWho /\ TypeFiles /\ TypeBook /\ TypeCount /\ TypeSignals /\ TypeHandler
  BY DEF Init, TypeWho, TypeFiles, TypeBook, TypeCount, TypeSignals, TypeHandler
<1>2. TypeJob /\ TypeShown /\ TypeHistory
  BY Jobs DEF Init, TypeJob, TypeShown, TypeHistory
<1>3. Len(<<>>) = 0
  OBVIOUS
<1>4. SomethingCounted /\ FilesWritten /\ AnsweredWritten /\ AnswerToAsker
  BY <1>3 DEF Init, SomethingCounted, FilesWritten, AnsweredWritten, AnswerToAsker
<1>5. JobsWritten /\ AnswerJob
  BY <1>3, JobFields DEF Init, JobsWritten, Written, AnswerJob
<1> QED
  BY <1>1, <1>2, <1>4, <1>5, TypeParts DEF IInv0

LEMMA Next0 == IInv0 /\ [Next]_vars => IInv0'
<1> SUFFICES ASSUME IInv0, [Next]_vars PROVE IInv0'
  OBVIOUS
<1>1. CASE Next
  <2>1. PICK p \in Session : Act(p)
    BY <1>1, NextActs
  <2> QED
    BY <2>1, StepType, StepCounted, StepFilesWritten, StepAnswered, StepJobsWritten,
       StepAnswerJob, StepAsker DEF IInv0
<1>2. CASE UNCHANGED vars
  <2>1. TypeOK' /\ SomethingCounted'
    BY <1>2 DEF vars, IInv0, TypeOK, SomethingCounted
  <2>2. FilesWritten' /\ AnsweredWritten' /\ AnswerToAsker'
    BY <1>2 DEF vars, IInv0, FilesWritten, AnsweredWritten, AnswerToAsker
  <2>3. JobsWritten' /\ AnswerJob'
    BY <1>2 DEF vars, IInv0, JobsWritten, Written, AnswerJob
  <2> QED
    BY <2>1, <2>2, <2>3 DEF IInv0
<1> QED
  BY <1>1, <1>2

LEMMA Inductive0 == Spec => []IInv0
BY Init0, Next0, PTL DEF Spec

(* Every variable has its type in every state: no counter is negative, and    *)
(* what is read from a file, shown or signalled is a message.                *)
THEOREM MessageTypeCorrect == Spec => []TypeOK
<1>1. IInv0 => TypeOK
  BY DEF IInv0
<1> QED
  BY <1>1, Inductive0, PTL

(* An answer goes to the account that asked, however long the user takes to   *)
(* type it and whoever takes the slot of the one who asked meanwhile.        *)
THEOREM MessageAnswerToAsker == Spec => []AnswerToAsker
<1>1. IInv0 => AnswerToAsker
  BY DEF IInv0
<1> QED
  BY <1>1, Inductive0, PTL

-----------------------------------------------------------------------------
(* The account of the lines.  A message is pending until count_msg has been    *)
(* signalled for it; of the other lines of its file a session has at least as  *)
(* many as it has counted and not shown.                                    *)
Sends(p, l, m) == job[p][l].stage = "ttou" /\ job[p][l].m = m

Pending == {m \in Msg : \E p \in Session, l \in Level : Sends(p, l, m)}

File(p) == ToSet(msgfile[Account[p]])

Lines(p) == File(p) \ Pending

Due(p) == msg_num[p] + (IF ttou[p] THEN 1 ELSE 0)

Settled(p) == p \in Session /\ p \notin drift

SendersDiffer ==
  \A m \in Msg : \A p, q \in Session, l, k \in Level :
    Sends(p, l, m) /\ Sends(q, k, m) => p = q /\ l = k

SentInFile ==
  \A q \in Session : Settled(q) =>
    \A p \in Session, l \in Level, m \in Msg :
      Sends(p, l, m) /\ Addressed(m, q) => m \in File(q)

Accounted == \A p \in Session : Settled(p) => Due(p) <= Cardinality(Lines(p))

CountedInFile ==
  \A p \in Session : Settled(p) /\ hnd[p] = "counted" => msg_num[p] <= cnt[p]

IInv1 == SendersDiffer /\ SentInFile /\ Accounted /\ CountedInFile /\ PrintsWhatItRead
IInv == IInv0 /\ IInv1

LEMMA LinesFinite ==
  ASSUME NEW S, NEW f \in Seq(S), NEW T
  PROVE  /\ IsFiniteSet(ToSet(f) \ T) /\ Cardinality(ToSet(f) \ T) \in Nat
         /\ Cardinality(ToSet(f) \ T) <= Len(f)
<1>1. Len(f) \in Nat /\ DOMAIN f = 1..Len(f)
  OBVIOUS
<1>2. f \in Surjection(1..Len(f), ToSet(f))
  BY <1>1 DEF Surjection, ToSet
<1>3. IsFiniteSet(1..Len(f)) /\ Cardinality(1..Len(f)) = Len(f)
  BY <1>1, FS_Interval
<1>4. IsFiniteSet(ToSet(f)) /\ Cardinality(ToSet(f)) <= Len(f)
  BY <1>2, <1>3, FS_Surjection
<1>5. /\ IsFiniteSet(ToSet(f) \ T)
      /\ Cardinality(ToSet(f) \ T) <= Cardinality(ToSet(f))
  BY <1>4, FS_Subset
<1>6. Cardinality(ToSet(f) \ T) \in Nat /\ Cardinality(ToSet(f)) \in Nat
  BY <1>4, <1>5, FS_CardinalityType
<1> QED
  BY <1>1, <1>4, <1>5, <1>6

LEMMA MoreLines ==
  ASSUME TypeFiles, TypeFiles', TypeCount, TypeCount', NEW p \in Session,
         Lines(p) \subseteq Lines(p)', Due(p)' <= Due(p), Due(p) <= Cardinality(Lines(p))
  PROVE  Due(p)' <= Cardinality(Lines(p)')
<1>1. msgfile[Account[p]] \in Seq(Msg) /\ msgfile'[Account[p]] \in Seq(Msg)
  BY MessageAssumption DEF TypeFiles
<1>2. /\ IsFiniteSet(Lines(p)') /\ Cardinality(Lines(p)') \in Nat
      /\ Cardinality(Lines(p)) \in Nat
  BY <1>1, LinesFinite DEF Lines, File
<1>3. Cardinality(Lines(p)) <= Cardinality(Lines(p)')
  BY <1>2, FS_Subset
<1>4. Due(p) \in Nat /\ Due(p)' \in Nat
  BY DEF Due, TypeCount
<1> QED
  BY <1>2, <1>3, <1>4

(* The same messages are being sent.                                        *)
SameSending ==
  \A p \in Session, l \in Level :
    /\ job'[p][l].stage = "ttou" <=> job[p][l].stage = "ttou"
    /\ job[p][l].stage = "ttou" => job'[p][l].m = job[p][l].m

LEMMA SameSendingKept ==
  ASSUME TypeJob, NEW p \in Session, NEW l \in Level, NEW j, SetJob(p, l, j),
         job[p][l].stage # "ttou", j.stage # "ttou"
  PROVE  SameSending
BY OneJob DEF SameSending

LEMMA StepSending ==
  ASSUME IInv0, NEW p \in Session, Act(p),
         ~ (\E l \in Level : WriteLine(p, l) \/ KillTtou(p, l))
  PROVE  SameSending
<1>0. TypeJob
  BY TypeParts DEF IInv0
<1>1. CASE Enter(p) \/ Goodbye(p) \/ UExit(p) \/ Exit(p) \/ CountMsg(p) \/ StartRMsg(p)
          \/ TakeCount(p) \/ ShowLine(p) \/ NoFile(p) \/ PressReturn(p) \/ EndRMsg(p)
  BY <1>1, <1>0 DEF CountMsg, EndRMsg, Enter, Exit, Goodbye, NoFile, PressReturn,
       ShowLine, StartRMsg, TakeCount, UExit, SameSending
<1>2. ASSUME NEW i \in Slot, Compose(p, i)
      PROVE  SameSending
  <2> DEFINE j == [NoJob(p) EXCEPT !.stage = "type", !.at = i, !.to = Account[uinfo[i]]]
  <2>1. SetJob(p, "menu", j) /\ job[p]["menu"].stage # "ttou" /\ "menu" \in Level
    BY <1>2 DEF Compose, Finish, Level
  <2>2. j.stage # "ttou"
    BY JobFields
  <2> HIDE DEF j
  <2> QED
    BY <1>0, <2>1, <2>2, SameSendingKept
<1>3. ASSUME NEW i \in Slot, Wall(p, i)
      PROVE  SameSending
  <2> DEFINE j == [NoJob(p) EXCEPT !.stage = "type", !.pid = uinfo[i],
                                    !.to = Account[uinfo[i]]]
  <2>1. SetJob(p, "menu", j) /\ job[p]["menu"].stage # "ttou" /\ "menu" \in Level
    BY <1>3 DEF Wall, Finish, Level
  <2>2. j.stage # "ttou"
    BY JobFields
  <2> HIDE DEF j
  <2> QED
    BY <1>0, <2>1, <2>2, SameSendingKept
<1>4. ASSUME NEW l \in Level, NEW m \in 1..Len(book), Answer(p, l, m)
      PROVE  SameSending
  <2>1. PICK i \in FoundFor(m) :
          SetJob(p, l, [NoJob(p) EXCEPT !.stage = "type", !.at = i, !.pid = uinfo[i],
                                        !.re = m])
    BY <1>4 DEF Answer
  <2> DEFINE j == [NoJob(p) EXCEPT !.stage = "type", !.at = i, !.pid = uinfo[i], !.re = m]
  <2>2. SetJob(p, l, j) /\ job[p][l].stage # "ttou"
    BY <1>4, <2>1 DEF Answer
  <2>3. j.stage # "ttou"
    BY JobFields
  <2> HIDE DEF j
  <2> QED
    BY <1>0, <2>2, <2>3, SameSendingKept
<1>5. ASSUME NEW l \in Level, GiveUp(p, l)
      PROVE  SameSending
  <2> DEFINE j == NoJob(p)
  <2>1. SetJob(p, l, j) /\ job[p][l].stage # "ttou" /\ l \in Level
    BY <1>5 DEF GiveUp, Finish, Level
  <2>2. j.stage # "ttou"
    BY JobFields
  <2> HIDE DEF j
  <2> QED
    BY <1>0, <2>1, <2>2, SameSendingKept
<1>6. ASSUME NEW l \in Level, KillUsr2(p, l)
      PROVE  SameSending
  <2> DEFINE j == NoJob(p)
  <2>1. SetJob(p, l, j) /\ job[p][l].stage # "ttou" /\ l \in Level
    BY <1>6 DEF KillUsr2, Finish, Level
  <2>2. j.stage # "ttou"
    BY JobFields
  <2> HIDE DEF j
  <2> QED
    BY <1>0, <2>1, <2>2, SameSendingKept
<1>7. ASSUME NEW l \in Level, WriteLine(p, l)
      PROVE  SameSending
  BY <1>7
<1>8. ASSUME NEW l \in Level, KillTtou(p, l)
      PROVE  SameSending
  BY <1>8
<1> QED
  BY <1>1, <1>2, <1>3, <1>4, <1>5, <1>6, <1>7, <1>8 DEF Act

LEMMA StepDue ==
  ASSUME IInv0, NEW p \in Session, Act(p)
  PROVE  ~ (\E k \in Level : KillTtou(p, k)) => \A q \in Session : Due(q)' <= Due(q)
<1>0. TypeCount /\ TypeSignals
  BY TypeParts DEF IInv0
<1>2. CASE Enter(p)
  BY <1>2, <1>0 DEF Enter, Due, TypeCount, TypeSignals, signals
<1>3. CASE Goodbye(p)
  BY <1>3, <1>0 DEF Goodbye, Due, TypeCount, TypeSignals, signals
<1>4. CASE UExit(p)
  BY <1>4, <1>0 DEF UExit, Due, TypeCount, TypeSignals, signals
<1>5. CASE Exit(p)
  BY <1>5, <1>0 DEF Exit, Due, TypeCount, TypeSignals, signals
<1>6. ASSUME NEW i \in Slot, Compose(p, i)
      PROVE  ~ (\E k \in Level : KillTtou(p, k)) => \A q \in Session : Due(q)' <= Due(q)
  BY <1>6, <1>0 DEF Compose, Due, TypeCount, TypeSignals, signals
<1>7. ASSUME NEW i \in Slot, Wall(p, i)
      PROVE  ~ (\E k \in Level : KillTtou(p, k)) => \A q \in Session : Due(q)' <= Due(q)
  BY <1>7, <1>0 DEF Wall, Due, TypeCount, TypeSignals, signals
<1>8. ASSUME NEW l \in Level, NEW m \in 1..Len(book), Answer(p, l, m)
      PROVE  ~ (\E k \in Level : KillTtou(p, k)) => \A q \in Session : Due(q)' <= Due(q)
  BY <1>8, <1>0 DEF Answer, Due, TypeCount, TypeSignals, signals
<1>9. ASSUME NEW l \in Level, WriteLine(p, l)
      PROVE  ~ (\E k \in Level : KillTtou(p, k)) => \A q \in Session : Due(q)' <= Due(q)
  BY <1>9, <1>0 DEF WriteLine, Due, TypeCount, TypeSignals, signals
<1>10. ASSUME NEW l \in Level, GiveUp(p, l)
      PROVE  ~ (\E k \in Level : KillTtou(p, k)) => \A q \in Session : Due(q)' <= Due(q)
  BY <1>10, <1>0 DEF GiveUp, Due, TypeCount, TypeSignals, signals
<1>11. ASSUME NEW l \in Level, KillTtou(p, l)
      PROVE  ~ (\E k \in Level : KillTtou(p, k)) => \A q \in Session : Due(q)' <= Due(q)
  BY <1>11
<1>12. ASSUME NEW l \in Level, KillUsr2(p, l)
      PROVE  ~ (\E k \in Level : KillTtou(p, k)) => \A q \in Session : Due(q)' <= Due(q)
  BY <1>12, <1>0 DEF KillUsr2, Due, TypeCount, TypeSignals, signals
<1>13. CASE CountMsg(p)
  BY <1>13, <1>0 DEF CountMsg, Due, TypeCount, TypeSignals, signals
<1>14. CASE StartRMsg(p)
  BY <1>14, <1>0 DEF StartRMsg, Due, TypeCount, TypeSignals, signals
<1>15. CASE TakeCount(p)
  BY <1>15, <1>0 DEF TakeCount, Due, TypeCount, TypeSignals, signals
<1>16. CASE ShowLine(p)
  BY <1>16, <1>0 DEF ShowLine, Due, TypeCount, TypeSignals, signals
<1>17. CASE NoFile(p)
  BY <1>17, <1>0 DEF NoFile, Due, TypeCount, TypeSignals, signals
<1>18. CASE PressReturn(p)
  BY <1>18, <1>0 DEF PressReturn, Due, TypeCount, TypeSignals, signals
<1>19. CASE EndRMsg(p)
  BY <1>19, <1>0 DEF EndRMsg, Due, TypeCount, TypeSignals, signals
<1> QED
  BY <1>2, <1>3, <1>4, <1>5, <1>6, <1>7, <1>8, <1>9, <1>10, <1>11, <1>12, <1>13,
     <1>14, <1>15, <1>16, <1>17, <1>18, <1>19 DEF Act

LEMMA SetGrows ==
  ASSUME NEW S, NEW f \in Seq(S), NEW x \in S
  PROVE  ToSet(f) \subseteq ToSet(Append(f, x)) /\ x \in ToSet(Append(f, x))
<1> DEFINE g == Append(f, x)
<1>1. /\ DOMAIN f = 1..Len(f) /\ DOMAIN g = 1..(Len(f) + 1) /\ Len(f) \in Nat
      /\ g[Len(f) + 1] = x /\ \A k \in 1..Len(f) : g[k] = f[k]
  OBVIOUS
<1>2. Len(f) + 1 \in DOMAIN g /\ \A k \in DOMAIN f : k \in DOMAIN g
  BY <1>1
<1> HIDE DEF g
<1> QED
  BY <1>1, <1>2 DEF ToSet, g

(* Whoever is settled has lost no line.                                      *)
LEMMA StepFilesGrow ==
  ASSUME IInv0, NEW p \in Session, Act(p)
  PROVE  /\ drift \subseteq drift'
         /\ \A q \in Session : q \notin drift' => File(q) \subseteq File(q)'
<1>0. TypeFiles
  BY TypeParts DEF IInv0
<1>2. CASE Enter(p)
  BY <1>2 DEF Enter, File, history, signals
<1>3. CASE Goodbye(p)
  <2>1. /\ drift' = drift \cup {q \in Session : Account[q] = Account[p]}
        /\ msgfile' = [msgfile EXCEPT ![Account[p]] = <<>>]
    BY <1>3 DEF Goodbye
  <2>2. \A q \in Session : Account[q] # Account[p] =>
          msgfile'[Account[q]] = msgfile[Account[q]]
    BY <1>0, <2>1, MessageAssumption DEF TypeFiles
  <2> QED
    BY <2>1, <2>2 DEF File
<1>4. CASE UExit(p)
  BY <1>4 DEF UExit, File, history, signals
<1>5. CASE Exit(p)
  BY <1>5 DEF Exit, File, history, signals
<1>6. ASSUME NEW i \in Slot, Compose(p, i)
      PROVE  /\ drift \subseteq drift'
         /\ \A q \in Session : q \notin drift' => File(q) \subseteq File(q)'
  BY <1>6 DEF Compose, File, history, signals
<1>7. ASSUME NEW i \in Slot, Wall(p, i)
      PROVE  /\ drift \subseteq drift'
         /\ \A q \in Session : q \notin drift' => File(q) \subseteq File(q)'
  BY <1>7 DEF Wall, File, history, signals
<1>8. ASSUME NEW l \in Level, NEW m \in 1..Len(book), Answer(p, l, m)
      PROVE  /\ drift \subseteq drift'
         /\ \A q \in Session : q \notin drift' => File(q) \subseteq File(q)'
  BY <1>8 DEF Answer, File, history, signals
<1>9. ASSUME NEW l \in Level, WriteLine(p, l)
      PROVE  /\ drift \subseteq drift'
         /\ \A q \in Session : q \notin drift' => File(q) \subseteq File(q)'
  <2> DEFINE u == Uident(job[p][l])  m == Len(book) + 1
  <2>1. u \in User /\ m \in Msg
    BY <1>9, Sent
  <2>2. msgfile' = [msgfile EXCEPT ![u] = Append(msgfile[u], m)] /\ drift' = drift
    BY <1>9 DEF WriteLine
  <2>3. ToSet(msgfile[u]) \subseteq ToSet(Append(msgfile[u], m))
    BY <1>0, <2>1, SetGrows DEF TypeFiles
  <2> QED
    BY <1>0, <2>1, <2>2, <2>3, MessageAssumption DEF File, TypeFiles
<1>10. ASSUME NEW l \in Level, GiveUp(p, l)
      PROVE  /\ drift \subseteq drift'
         /\ \A q \in Session : q \notin drift' => File(q) \subseteq File(q)'
  BY <1>10 DEF GiveUp, File, history, signals
<1>11. ASSUME NEW l \in Level, KillTtou(p, l)
      PROVE  /\ drift \subseteq drift'
         /\ \A q \in Session : q \notin drift' => File(q) \subseteq File(q)'
  BY <1>11 DEF KillTtou, File, history, signals
<1>12. ASSUME NEW l \in Level, KillUsr2(p, l)
      PROVE  /\ drift \subseteq drift'
         /\ \A q \in Session : q \notin drift' => File(q) \subseteq File(q)'
  BY <1>12 DEF KillUsr2, File, history, signals
<1>13. CASE CountMsg(p)
  BY <1>13 DEF CountMsg, File, history, signals
<1>14. CASE StartRMsg(p)
  BY <1>14 DEF StartRMsg, File, history, signals
<1>15. CASE TakeCount(p)
  BY <1>15 DEF TakeCount, File, history, signals
<1>16. CASE ShowLine(p)
  BY <1>16 DEF ShowLine, File, history, signals
<1>17. CASE NoFile(p)
  BY <1>17 DEF NoFile, File, history, signals
<1>18. CASE PressReturn(p)
  BY <1>18 DEF PressReturn, File, history, signals
<1>19. CASE EndRMsg(p)
  BY <1>19 DEF EndRMsg, File, history, signals
<1> QED
  BY <1>2, <1>3, <1>4, <1>5, <1>6, <1>7, <1>8, <1>9, <1>10, <1>11, <1>12, <1>13,
     <1>14, <1>15, <1>16, <1>17, <1>18, <1>19 DEF Act

(* What the writing of a message adds.                                      *)
LEMMA WriteAdds ==
  ASSUME IInv0, NEW p \in Session, NEW l \in Level, WriteLine(p, l)
  PROVE  /\ Len(book) \in Nat /\ Len(book) + 1 \in Msg /\ drift' = drift
         /\ \A q \in Session, k \in Level, m \in Msg :
              Sends(q, k, m)' <=> IF q = p /\ k = l THEN m = Len(book) + 1
                                 ELSE Sends(q, k, m)
         /\ ~ \E m \in Msg : Sends(p, l, m)
         /\ \A q \in Session, k \in Level, m \in Msg : Sends(q, k, m) => m <= Len(book)
         /\ \A q \in Session : \A m \in File(q) : m \in Msg /\ m <= Len(book)
<1>0. TypeJob /\ TypeFiles /\ JobsWritten /\ FilesWritten
  BY TypeParts DEF IInv0
<1>1. Len(book) \in Nat /\ Len(book) + 1 \in Msg /\ drift' = drift
  BY Sent, NewEntry DEF WriteLine
<1> DEFINE j == [job[p][l] EXCEPT !.stage = "ttou", !.m = Len(book) + 1]
<1>2. SetJob(p, l, j) /\ job[p][l].stage = "type" /\ job[p][l] \in Job
  BY <1>0 DEF WriteLine, TypeJob
<1>3. j.stage = "ttou" /\ j.m = Len(book) + 1
  BY <1>2, JobFields
<1> HIDE DEF j
<1>4. \A q \in Session, k \in Level, m \in Msg :
        Sends(q, k, m)' <=> IF q = p /\ k = l THEN m = Len(book) + 1
                           ELSE Sends(q, k, m)
  <2>1. \A q \in Session, k \in Level : q # p \/ k # l => job'[q][k] = job[q][k]
    BY <1>0, <1>2, OneJob
  <2>2. job'[p][l].stage = "ttou" /\ job'[p][l].m = Len(book) + 1
    BY <1>0, <1>2, <1>3, OneJob
  <2>3. ASSUME NEW q \in Session, NEW k \in Level, NEW m \in Msg
        PROVE  Sends(q, k, m)' <=> IF q = p /\ k = l THEN m = Len(book) + 1
                                  ELSE Sends(q, k, m)
    <3>1. CASE q = p /\ k = l
      BY <2>2, <3>1 DEF Sends
    <3>2. CASE q # p \/ k # l
      BY <2>1, <3>2 DEF Sends
    <3> QED
      BY <3>1, <3>2
  <2> QED
    BY <2>3
<1>5. ~ \E m \in Msg : Sends(p, l, m)
  BY <1>2 DEF Sends
<1>6. \A q \in Session, k \in Level, m \in Msg : Sends(q, k, m) => m <= Len(book)
  BY <1>0 DEF Sends, JobsWritten, Written
<1>7. ASSUME NEW q \in Session, NEW m \in File(q) PROVE m \in Msg /\ m <= Len(book)
  <2>1. msgfile[Account[q]] \in Seq(Msg) /\ Account[q] \in User
    BY <1>0, MessageAssumption DEF TypeFiles
  <2>2. PICK k \in 1..Len(msgfile[Account[q]]) : msgfile[Account[q]][k] = m
    BY <2>1 DEF File, ToSet
  <2> QED
    BY <1>0, <2>1, <2>2 DEF FilesWritten
<1> QED
  BY <1>1, <1>4, <1>5, <1>6, <1>7

(* What the first signal for a message takes away.                            *)
LEMMA KillTakes ==
  ASSUME IInv0, NEW p \in Session, NEW l \in Level, KillTtou(p, l)
  PROVE  /\ job[p][l].m \in Msg /\ Sends(p, l, job[p][l].m)
         /\ \A q \in Session, k \in Level, m \in Msg :
              Sends(q, k, m)' <=> (q # p \/ k # l) /\ Sends(q, k, m)
         /\ book' = book /\ msgfile' = msgfile
<1>0. TypeJob /\ JobsWritten
  BY TypeParts DEF IInv0
<1> DEFINE j == [job[p][l] EXCEPT !.stage = "usr2"]
<1>1. SetJob(p, l, j) /\ job[p][l].stage = "ttou" /\ job[p][l] \in Job
  BY <1>0 DEF KillTtou, TypeJob
<1>2. j.stage = "usr2"
  BY <1>1, JobFields
<1> HIDE DEF j
<1>3. \A q \in Session, k \in Level, m \in Msg :
        Sends(q, k, m)' <=> (q # p \/ k # l) /\ Sends(q, k, m)
  BY <1>0, <1>1, <1>2, OneJob DEF Sends
<1>4. job[p][l].m \in Msg
  BY <1>0, <1>1 DEF JobsWritten, Written, Job
<1> QED
  BY <1>1, <1>3, <1>4 DEF KillTtou, Sends

LEMMA SameSends ==
  ASSUME SameSending
  PROVE  /\ \A q \in Session, k \in Level, m \in Msg : Sends(q, k, m)' <=> Sends(q, k, m)
         /\ Pending' = Pending
<1>1. \A q \in Session, k \in Level, m \in Msg : Sends(q, k, m)' <=> Sends(q, k, m)
  BY DEF SameSending, Sends
<1> QED
  BY <1>1 DEF Pending

LEMMA StepSendersDiffer ==
  ASSUME IInv, NEW p \in Session, Act(p)
  PROVE  SendersDiffer'
<1>0. IInv0 /\ SendersDiffer
  BY DEF IInv, IInv1
<1>1. ASSUME NEW l \in Level, WriteLine(p, l) PROVE SendersDiffer'
  <2>1. \A m \in Msg : m \in Nat
    BY IsNat
  <2> QED
    BY <1>0, <1>1, <2>1, WriteAdds DEF SendersDiffer
<1>2. ASSUME NEW l \in Level, KillTtou(p, l) PROVE SendersDiffer'
  BY <1>0, <1>2, KillTakes DEF SendersDiffer
<1>3. CASE ~ (\E l \in Level : WriteLine(p, l) \/ KillTtou(p, l))
  <2>1. SameSending
    BY <1>0, <1>3, StepSending
  <2> QED
    BY <1>0, <2>1, SameSends DEF SendersDiffer
<1> QED
  BY <1>1, <1>2, <1>3

(* What is settled after a step was settled before.                           *)
LEMMA SettledBefore ==
  ASSUME IInv0, NEW p \in Session, Act(p), NEW q \in Session, Settled(q)'
  PROVE  Settled(q) /\ q \notin drift' /\ File(q) \subseteq File(q)'
<1>1. q \notin drift'
  BY DEF Settled
<1> QED
  BY <1>1, StepFilesGrow DEF Settled

LEMMA StepSentInFile ==
  ASSUME IInv, NEW p \in Session, Act(p)
  PROVE  SentInFile'
<1>0. IInv0 /\ SentInFile /\ TypeFiles /\ TypeJob
  BY TypeParts DEF IInv, IInv0, IInv1
<1> SUFFICES ASSUME NEW q \in Session, Settled(q)', NEW r \in Session, NEW k \in Level,
                    NEW m \in Msg, Sends(r, k, m)', Addressed(m, q)'
    PROVE  m \in File(q)'
  BY DEF SentInFile
<1>1. Settled(q) /\ File(q) \subseteq File(q)'
  BY <1>0, SettledBefore
<1>2. CASE Sends(r, k, m)
  <2>1. m \in 1..Len(book)
    BY <1>0, <1>2, IsNat DEF IInv0, JobsWritten, Written, Sends, Msg
  <2>2. book'[m] = book[m]
    BY <1>0, <2>1, StepBookGrows DEF BookGrows
  <2>3. Addressed(m, q)
    BY <2>2 DEF Addressed
  <2> QED
    BY <1>0, <1>1, <1>2, <2>3 DEF SentInFile
<1>3. CASE ~ Sends(r, k, m)
  <2>1. PICK l \in Level : WriteLine(p, l)
    <3>1. CASE \E l \in Level : KillTtou(p, l)
      BY <1>0, <1>3, <3>1, KillTakes
    <3>2. CASE ~ (\E l \in Level : WriteLine(p, l) \/ KillTtou(p, l))
      BY <1>0, <1>3, <3>2, StepSending, SameSends
    <3> QED
      BY <3>1, <3>2
  <2> DEFINE u == Uident(job[p][l])
  <2>2. m = Len(book) + 1
    BY <1>0, <1>3, <2>1, WriteAdds
  <2>3. u = Account[q]
    <3>1. book'[m] = [to |-> u, for |-> Uin(job[p][l]), from |-> p, re |-> job[p][l].re]
      BY <1>0, <2>1, <2>2, NewEntry
    <3>2. book'[m].to = Account[q]
      BY DEF Addressed
    <3> QED
      BY <3>1, <3>2
  <2>4. msgfile'[Account[q]] = Append(msgfile[Account[q]], m)
    BY <1>0, <2>1, <2>2, <2>3, MessageAssumption DEF WriteLine, TypeFiles
  <2>5. msgfile[Account[q]] \in Seq(Msg)
    BY <1>0, MessageAssumption DEF TypeFiles
  <2> QED
    BY <2>4, <2>5, SetGrows DEF File
<1> QED
  BY <1>2, <1>3

LEMMA StepAccounted ==
  ASSUME IInv, NEW p \in Session, Act(p)
  PROVE  Accounted'
<1>0. /\ IInv0 /\ SendersDiffer /\ SentInFile /\ Accounted
      /\ TypeFiles /\ TypeCount /\ TypeSignals /\ TypeJob /\ TypeWho
  BY TypeParts DEF IInv, IInv1, IInv0
<1>00. TypeFiles' /\ TypeCount' /\ TypeSignals'
  BY <1>0, StepFiles, StepCount, StepSignals
<1> SUFFICES ASSUME NEW q \in Session, Settled(q)'
    PROVE  Due(q)' <= Cardinality(Lines(q)')
  BY DEF Accounted
<1>1. Settled(q) /\ q \notin drift' /\ File(q) \subseteq File(q)'
  BY <1>0, SettledBefore
<1>2. Due(q) <= Cardinality(Lines(q))
  BY <1>0, <1>1 DEF Accounted
<1>3. ASSUME NEW l \in Level, WriteLine(p, l)
      PROVE  Due(q)' <= Cardinality(Lines(q)')
  <2>1. ASSUME NEW m \in Lines(q) PROVE m \in Lines(q)'
    <3>1. m \in File(q) /\ m \in Msg /\ m <= Len(book) /\ m \notin Pending
      BY <1>0, <1>3, WriteAdds DEF Lines
    <3>2. m # Len(book) + 1
      BY <1>0, <1>3, <3>1, WriteAdds, IsNat
    <3>3. m \notin Pending'
      BY <1>0, <1>3, <3>1, <3>2, WriteAdds DEF Pending
    <3> QED
      BY <1>1, <3>1, <3>3 DEF Lines
  <2>2. Due(q)' <= Due(q)
    BY <1>0, <1>3 DEF WriteLine, signals, Due, TypeCount
  <2> QED
    BY <1>0, <1>00, <1>2, <2>1, <2>2, MoreLines
<1>4. ASSUME NEW l \in Level, KillTtou(p, l)
      PROVE  Due(q)' <= Cardinality(Lines(q)')
  <2>0. PICK sent \in Msg : sent = job[p][l].m
    BY <1>0, <1>4, KillTakes
  <2>1. /\ sent \in Msg /\ Sends(p, l, sent) /\ book' = book /\ File(q)' = File(q)
        /\ \A r \in Session, k \in Level, n \in Msg :
             Sends(r, k, n)' <=> (r # p \/ k # l) /\ Sends(r, k, n)
    BY <1>0, <1>4, <2>0, KillTakes DEF File
  <2>2. sent \in Pending /\ Pending' = Pending \ {sent}
    <3>1. sent \in Pending
      BY <2>1 DEF Pending
    <3>2. \A r \in Session, k \in Level : ~ Sends(r, k, sent)'
      <4> SUFFICES ASSUME NEW r \in Session, NEW k \in Level, Sends(r, k, sent)' PROVE FALSE
        OBVIOUS
      <4>1. (r # p \/ k # l) /\ Sends(r, k, sent)
        BY <2>1
      <4> QED
        BY <1>0, <2>1, <4>1 DEF SendersDiffer
    <3>3. ASSUME NEW n \in Msg, n # sent PROVE n \in Pending' <=> n \in Pending
      <4>1. \A r \in Session, k \in Level : Sends(r, k, n)' <=> Sends(r, k, n)
        <5>1. ~ Sends(p, l, n)
          BY <2>1, <3>3 DEF Sends
        <5> QED
          BY <2>1, <3>3, <5>1
      <4> QED
        BY <3>3, <4>1 DEF Pending
    <3>4. sent \notin Pending' /\ Pending \subseteq Msg /\ Pending' \subseteq Msg
      BY <3>2 DEF Pending
    <3> QED
      BY <3>1, <3>3, <3>4
  <2>3. /\ ttou'[q] <=> ttou[q] \/ q \in Hit(job[p][l])
        /\ msg_num' = msg_num
        /\ drift' = drift \cup {r \in Hit(job[p][l]) : ~Addressed(sent, r)}
    BY <1>0, <1>4, <2>0 DEF KillTtou, TypeSignals
  <2>4. CASE q \in Hit(job[p][l])
    <3>1. Addressed(sent, q)
      BY <1>1, <2>3, <2>4
    <3>2. sent \in File(q)
      BY <1>0, <1>1, <2>1, <3>1 DEF SentInFile
    <3>3. Lines(q)' = Lines(q) \cup {sent} /\ sent \notin Lines(q)
      BY <2>1, <2>2, <3>2 DEF Lines
    <3>4. IsFiniteSet(Lines(q)) /\ Cardinality(Lines(q)) \in Nat
      BY <1>0, MessageAssumption, LinesFinite DEF Lines, File, TypeFiles
    <3>5. Cardinality(Lines(q)') = Cardinality(Lines(q)) + 1
      BY <3>3, <3>4, FS_AddElement
    <3>6. Due(q) \in Nat /\ Due(q)' \in Nat /\ Due(q)' <= Due(q) + 1
      BY <1>0, <1>00, <2>3 DEF Due, TypeCount
    <3> QED
      BY <1>2, <3>4, <3>5, <3>6
  <2>5. CASE q \notin Hit(job[p][l])
    <3>1. Due(q)' <= Due(q)
      BY <1>0, <2>3, <2>5 DEF Due, TypeCount, TypeSignals
    <3>2. Lines(q) \subseteq Lines(q)'
      BY <2>1, <2>2 DEF Lines
    <3> QED
      BY <1>0, <1>00, <1>2, <3>1, <3>2, MoreLines
  <2> QED
    BY <2>4, <2>5
<1>5. CASE ~ (\E l \in Level : WriteLine(p, l) \/ KillTtou(p, l))
  <2>1. Pending' = Pending
    BY <1>0, <1>5, StepSending, SameSends
  <2>2. Due(q)' <= Due(q)
    BY <1>0, <1>5, StepDue
  <2>3. Lines(q) \subseteq Lines(q)'
    BY <1>1, <2>1 DEF Lines
  <2> QED
    BY <1>0, <1>00, <1>2, <2>2, <2>3, MoreLines
<1> QED
  BY <1>3, <1>4, <1>5

LEMMA LinesThere ==
  ASSUME TypeFiles, TypeCount, TypeSignals, Accounted, NEW p \in Session, Settled(p)
  PROVE  msg_num[p] <= Len(msgfile[Account[p]])
<1>1. msgfile[Account[p]] \in Seq(Msg)
  BY MessageAssumption DEF TypeFiles
<1>2. /\ Cardinality(Lines(p)) \in Nat /\ Cardinality(Lines(p)) <= Len(msgfile[Account[p]])
      /\ Len(msgfile[Account[p]]) \in Nat
  <2>1. Lines(p) = ToSet(msgfile[Account[p]]) \ Pending
    BY DEF Lines, File
  <2>2. LET T == Pending
        IN  /\ Cardinality(ToSet(msgfile[Account[p]]) \ T) \in Nat
            /\ Cardinality(ToSet(msgfile[Account[p]]) \ T) <= Len(msgfile[Account[p]])
    BY <1>1, LinesFinite
  <2> QED
    BY <1>1, <2>1, <2>2
<1>3. msg_num[p] \in Nat /\ Due(p) \in Nat /\ msg_num[p] <= Due(p)
  BY DEF Due, TypeCount
<1>4. Due(p) <= Cardinality(Lines(p))
  BY DEF Accounted
<1> QED
  BY <1>2, <1>3, <1>4

LEMMA StepCountedInFile ==
  ASSUME IInv, NEW p \in Session, Act(p)
  PROVE  CountedInFile'
<1>0. /\ IInv0 /\ CountedInFile /\ Accounted /\ TypeFiles /\ TypeCount /\ TypeSignals
      /\ TypeHandler
  BY TypeParts DEF IInv, IInv1, IInv0
<1>00. \A q \in Session : Settled(q)' => Settled(q) /\ q \notin drift'
  BY <1>0, SettledBefore
<1>2. CASE Enter(p)
  BY <1>2, <1>0, <1>00 DEF Enter, CountedInFile, TypeHandler, TypeCount, signals
<1>3. CASE Goodbye(p)
  BY <1>3, <1>0, <1>00 DEF Goodbye, CountedInFile, TypeHandler, TypeCount, signals
<1>4. CASE UExit(p)
  BY <1>4, <1>0, <1>00 DEF UExit, CountedInFile, TypeHandler, TypeCount, signals
<1>5. CASE Exit(p)
  BY <1>5, <1>0, <1>00 DEF Exit, CountedInFile, TypeHandler, TypeCount, signals
<1>6. ASSUME NEW i \in Slot, Compose(p, i)
      PROVE  CountedInFile'
  BY <1>6, <1>0, <1>00 DEF Compose, CountedInFile, TypeHandler, TypeCount, signals
<1>7. ASSUME NEW i \in Slot, Wall(p, i)
      PROVE  CountedInFile'
  BY <1>7, <1>0, <1>00 DEF Wall, CountedInFile, TypeHandler, TypeCount, signals
<1>8. ASSUME NEW l \in Level, NEW m \in 1..Len(book), Answer(p, l, m)
      PROVE  CountedInFile'
  BY <1>8, <1>0, <1>00 DEF Answer, CountedInFile, TypeHandler, TypeCount, signals
<1>9. ASSUME NEW l \in Level, WriteLine(p, l)
      PROVE  CountedInFile'
  BY <1>9, <1>0, <1>00 DEF WriteLine, CountedInFile, TypeHandler, TypeCount, signals
<1>10. ASSUME NEW l \in Level, GiveUp(p, l)
      PROVE  CountedInFile'
  BY <1>10, <1>0, <1>00 DEF GiveUp, CountedInFile, TypeHandler, TypeCount, signals, Finish
<1>11. ASSUME NEW l \in Level, KillTtou(p, l)
      PROVE  CountedInFile'
  BY <1>11, <1>0, <1>00 DEF KillTtou, CountedInFile, TypeHandler, TypeCount, signals
<1>12. ASSUME NEW l \in Level, KillUsr2(p, l)
      PROVE  CountedInFile'
  BY <1>12, <1>0, <1>00 DEF KillUsr2, CountedInFile, TypeHandler, TypeCount, signals, Finish
<1>13. CASE CountMsg(p)
  BY <1>13, <1>0, <1>00 DEF CountMsg, CountedInFile, TypeHandler, TypeCount, signals
<1>14. CASE StartRMsg(p)
  BY <1>14, <1>0, <1>00 DEF StartRMsg, CountedInFile, TypeHandler, TypeCount, signals
<1>15. CASE TakeCount(p)
  <2>1. Settled(p) => msg_num[p] <= Len(msgfile[Account[p]])
    BY <1>0, LinesThere
  <2> QED
    BY <1>15, <1>0, <1>00, <2>1 DEF TakeCount, CountedInFile, TypeHandler, TypeCount, signals
<1>16. CASE ShowLine(p)
  BY <1>16, <1>0, <1>00 DEF ShowLine, CountedInFile, TypeHandler, TypeCount, signals, AfterLine
<1>17. CASE NoFile(p)
  BY <1>17, <1>0, <1>00 DEF NoFile, CountedInFile, TypeHandler, TypeCount, signals
<1>18. CASE PressReturn(p)
  BY <1>18, <1>0, <1>00 DEF PressReturn, CountedInFile, TypeHandler, TypeCount, signals
<1>19. CASE EndRMsg(p)
  BY <1>19, <1>0, <1>00 DEF EndRMsg, CountedInFile, TypeHandler, TypeCount, signals
<1> QED
  BY <1>2, <1>3, <1>4, <1>5, <1>6, <1>7, <1>8, <1>9, <1>10, <1>11, <1>12, <1>13,
     <1>14, <1>15, <1>16, <1>17, <1>18, <1>19 DEF Act

LEMMA StepPrints ==
  ASSUME IInv, NEW p \in Session, Act(p)
  PROVE  PrintsWhatItRead'
<1>0. IInv0 /\ CountedInFile /\ PrintsWhatItRead
  BY DEF IInv, IInv1
<1>1. CASE Enter(p) \/ UExit(p) \/ Exit(p) \/ (\E i \in Slot : Compose(p, i)) \/
          (\E i \in Slot : Wall(p, i)) \/
          (\E l \in Level, m \in 1..Len(book) : Answer(p, l, m)) \/
          (\E l \in Level : WriteLine(p, l)) \/ (\E l \in Level : GiveUp(p, l)) \/
          (\E l \in Level : KillUsr2(p, l)) \/ StartRMsg(p) \/ TakeCount(p) \/
          NoFile(p) \/ PressReturn(p) \/ EndRMsg(p)
  BY <1>1, <1>0 DEF Answer, Compose, EndRMsg, Enter, Exit, GiveUp, KillUsr2, NoFile,
       PressReturn, StartRMsg, TakeCount, UExit, Wall, WriteLine, PrintsWhatItRead,
       history
<1>2. CASE ShowLine(p)
  <2>1. p \in drift \/ LastRead(p) # {}
    BY <1>2, <1>0 DEF ShowLine, CountedInFile, Settled, LastRead, IInv0, TypeOK
  <2> QED
    BY <1>2, <1>0, <2>1 DEF ShowLine, PrintsWhatItRead
<1>3. CASE Goodbye(p)
  BY <1>3, <1>0 DEF Goodbye, PrintsWhatItRead, history
<1>4. ASSUME NEW l \in Level, KillTtou(p, l)
      PROVE  PrintsWhatItRead'
  BY <1>4, <1>0 DEF KillTtou, PrintsWhatItRead, history
<1>5. CASE CountMsg(p)
  BY <1>5, <1>0 DEF CountMsg, PrintsWhatItRead, history
<1> QED
  BY <1>1, <1>2, <1>3, <1>4, <1>5 DEF Act

LEMMA InitIInv == Init => IInv
<1> SUFFICES ASSUME Init PROVE IInv
  OBVIOUS
<1>1. IInv0
  BY Init0
<1>2. SendersDiffer /\ SentInFile /\ Pending = {}
  BY JobFields DEF Init, SendersDiffer, SentInFile, Sends, Pending
<1>3. ASSUME NEW p \in Session PROVE Due(p) <= Cardinality(Lines(p))
  <2>1. Due(p) = 0
    BY DEF Init, Due
  <2>2. msgfile[Account[p]] \in Seq(Msg)
    BY MessageAssumption DEF Init
  <2>3. Lines(p) = ToSet(msgfile[Account[p]]) \ Pending
    BY DEF Lines, File
  <2>4. Cardinality(ToSet(msgfile[Account[p]]) \ Pending) \in Nat
    BY <2>2, LinesFinite
  <2> QED
    BY <2>1, <2>3, <2>4
<1>4. Accounted /\ CountedInFile /\ PrintsWhatItRead
  BY <1>3 DEF Init, Accounted, CountedInFile, PrintsWhatItRead
<1> QED
  BY <1>1, <1>2, <1>4 DEF IInv, IInv1

LEMMA NextIInv == IInv /\ [Next]_vars => IInv'
<1> SUFFICES ASSUME IInv, [Next]_vars PROVE IInv'
  OBVIOUS
<1>1. IInv0'
  BY Next0 DEF IInv
<1>2. CASE Next
  <2>1. PICK p \in Session : Act(p)
    BY <1>2, NextActs
  <2> QED
    BY <1>1, <2>1, StepSendersDiffer, StepSentInFile, StepAccounted, StepCountedInFile,
       StepPrints DEF IInv, IInv1
<1>3. CASE UNCHANGED vars
  <2>1. SendersDiffer' /\ SentInFile' /\ Accounted'
    BY <1>3 DEF vars, IInv, IInv1, SendersDiffer, SentInFile, Accounted, Sends, Settled,
       Addressed, File, Lines, Pending, Due
  <2>2. CountedInFile' /\ PrintsWhatItRead'
    BY <1>3 DEF vars, IInv, IInv1, CountedInFile, PrintsWhatItRead, Settled
  <2> QED
    BY <1>1, <2>1, <2>2 DEF IInv, IInv1
<1> QED
  BY <1>2, <1>3

(* r_msg never prints its uninitialised buffer, unless a signal for somebody   *)
(* else's message, a removal of the file or a count between its reads came in. *)
THEOREM MessagePrintsWhatItRead == Spec => []PrintsWhatItRead
<1>1. Spec => []IInv
  BY InitIInv, NextIInv, PTL DEF Spec
<1>2. IInv => PrintsWhatItRead
  BY DEF IInv, IInv1
<1> QED
  BY <1>1, <1>2, PTL

-----------------------------------------------------------------------------
(* What a session has missed: only the last line of its file can be neither    *)
(* shown nor overtaken, and as long as it is not shown, it still comes.       *)
(* Whom a message is for had come.                                           *)
ForWhoCame == \A k \in 1..Len(book) : life[book[k].for] # "new"

(* While a message is sent, the one it is for is found, if he has not left.   *)
Finds(j, p) ==
  (j.stage \in {"ttou", "usr2"} /\ book[j.m].for = p /\ life[p] \in {"in", "goodbye"}) =>
    Uin(j) = p

AllFind == \A p, q \in Session, l \in Level : Finds(job[q][l], p)

ToldWritten == \A m \in Msg, p \in Session : <<m, p>> \in signalled => m <= Len(book)

(* Of the lines of a file only the last is neither shown nor overtaken.       *)
OnlyLastMissed ==
  \A u \in User : \A k \in 1..Len(msgfile[u]) :
    \/ k = Len(msgfile[u])
    \/ msgfile[u][k] \in shown[book[msgfile[u][k]].for] \cup overtaken

(* SIGTTOU was sent for the message.                                         *)
Told(m, p) ==
  \/ <<m, p>> \in signalled
  \/ \E q \in Session, l \in Level : job[q][l].stage = "usr2" /\ job[q][l].m = m

(* The last line is still to be shown.                                       *)
Comes(p) ==
  \/ ttou[p]
  \/ /\ msg_num[p] > 0
     /\ hnd[p] = "counted" => cnt[p] >= Len(msgfile[Account[p]]) \/ msg_num[p] > 1

Missing(m, p) ==
  m \in File(p) /\ Addressed(m, p) /\ Told(m, p) /\ m \notin shown[p] \cup overtaken

StillComes ==
  \A p \in Session : life[p] = "in" => \A m \in Msg : Missing(m, p) => Comes(p)

IInv2 == ForWhoCame /\ AllFind /\ ToldWritten /\ OnlyLastMissed /\ StillComes
(* What a step does to sessions, slots and jobs being sent.                   *)
LEMMA StepLife ==
  ASSUME IInv0, NEW p \in Session, Act(p), NEW q \in Session
  PROVE  /\ life[q] # "new" => life'[q] # "new"
         /\ life'[q] = "in" => life[q] \in {"in", "new"}
         /\ life'[q] \in {"in", "goodbye"} => life[q] \in {"in", "goodbye", "new"}
         /\ \A i \in Slot : uinfo[i] = q /\ life'[q] \in {"in", "goodbye"} => uinfo'[i] = q
<1>0. TypeWho /\ q # NoPid
  BY TypeParts, MessageAssumption DEF IInv0
<1>1. CASE Enter(p)
  BY <1>0, <1>1 DEF Enter, TypeWho
<1>2. CASE Goodbye(p)
  BY <1>0, <1>2 DEF Goodbye, TypeWho
<1>3. CASE UExit(p)
  BY <1>0, <1>3 DEF UExit, TypeWho
<1>4. CASE Exit(p)
  BY <1>0, <1>4 DEF Exit, TypeWho
<1>5. CASE UNCHANGED <<life, uinfo>>
  BY <1>5
<1>6. CASE Enter(p) \/ Goodbye(p) \/ UExit(p) \/ Exit(p) \/ UNCHANGED <<life, uinfo>>
  BY <1>1, <1>2, <1>3, <1>4, <1>5, <1>6
<1> QED
  BY <1>6 DEF Act, Compose, Wall, Answer, WriteLine, GiveUp, KillTtou, KillUsr2, CountMsg,
     StartRMsg, TakeCount, ShowLine, NoFile, PressReturn, EndRMsg

LEMMA SentFields ==
  ASSUME NEW p \in Session
  PROVE  /\ \A i, u : [NoJob(p) EXCEPT !.stage = "type", !.at = i, !.to = u].stage = "type"
         /\ \A i, u : [NoJob(p) EXCEPT !.stage = "type", !.pid = i, !.to = u].stage = "type"
         /\ \A i, q, m : [NoJob(p) EXCEPT !.stage = "type", !.at = i, !.pid = q,
                                          !.re = m].stage = "type"
         /\ NoJob(p).stage = "none"
         /\ \A j \in Job : \A m : LET n == [j EXCEPT !.stage = "ttou", !.m = m]
                             IN  n.stage = "ttou" /\ n.m = m /\ n.at = j.at /\ n.pid = j.pid
         /\ \A j \in Job : LET n == [j EXCEPT !.stage = "usr2"]
                          IN  n.stage = "usr2" /\ n.m = j.m /\ n.at = j.at /\ n.pid = j.pid
BY DEF NoJob, Job

SameWay(j, k) == j.m = k.m /\ j.at = k.at /\ j.pid = k.pid

(* A job that is being sent was so before, or its line was just written.      *)
LEMMA SendingBefore ==
  ASSUME IInv0, NEW p \in Session, Act(p), NEW q \in Session, NEW l \in Level,
         job'[q][l].stage \in {"ttou", "usr2"}
  PROVE  \/ /\ job[q][l].stage \in {"ttou", "usr2"} /\ SameWay(job'[q][l], job[q][l])
            /\ job'[q][l].stage # job[q][l].stage => q = p /\ KillTtou(p, l)
         \/ /\ q = p /\ WriteLine(p, l) /\ job'[q][l].stage = "ttou"
            /\ job'[q][l].m = Len(book) + 1
            /\ job'[q][l].at = job[q][l].at /\ job'[q][l].pid = job[q][l].pid
<1> DEFINE Goal ==
         \/ /\ job[q][l].stage \in {"ttou", "usr2"} /\ SameWay(job'[q][l], job[q][l])
            /\ job'[q][l].stage # job[q][l].stage => q = p /\ KillTtou(p, l)
         \/ /\ q = p /\ WriteLine(p, l) /\ job'[q][l].stage = "ttou"
            /\ job'[q][l].m = Len(book) + 1
            /\ job'[q][l].at = job[q][l].at /\ job'[q][l].pid = job[q][l].pid
<1>0. TypeJob /\ job[q][l] \in Job
  BY TypeParts DEF IInv0, TypeJob
<1>1. job'[q][l] = job[q][l] => Goal
  BY DEF SameWay
<1>2. ASSUME NEW k \in Level, NEW j, SetJob(p, k, j)
      PROVE  job'[q][l] = job[q][l] \/ (q = p /\ l = k /\ job'[q][l] = j)
  BY <1>0, <1>2, OneJob
<1>3. ASSUME NEW k \in Level, NEW j, SetJob(p, k, j), j.stage \notin {"ttou", "usr2"}
      PROVE  Goal
  BY <1>1, <1>2, <1>3
<1>4. CASE Enter(p) \/ Goodbye(p) \/ UExit(p) \/ Exit(p) \/ CountMsg(p) \/ StartRMsg(p)
          \/ TakeCount(p) \/ ShowLine(p) \/ NoFile(p) \/ PressReturn(p) \/ EndRMsg(p)
  <2>1. job' = job
    BY <1>4 DEF CountMsg, EndRMsg, Enter, Exit, Goodbye, NoFile, PressReturn, ShowLine,
       StartRMsg, TakeCount, UExit
  <2> QED
    BY <2>1, <1>1
<1>5. ASSUME NEW i \in Slot, Compose(p, i) PROVE Goal
  <2> DEFINE j == [NoJob(p) EXCEPT !.stage = "type", !.at = i, !.to = Account[uinfo[i]]]
  <2>1. SetJob(p, "menu", j) /\ "menu" \in Level
    BY <1>5 DEF Compose, Level
  <2>2. j.stage = "type"
    BY SentFields
  <2> HIDE DEF j
  <2> QED
    BY <1>3, <2>1, <2>2
<1>6. ASSUME NEW i \in Slot, Wall(p, i) PROVE Goal
  <2> DEFINE j == [NoJob(p) EXCEPT !.stage = "type", !.pid = uinfo[i],
                                   !.to = Account[uinfo[i]]]
  <2>1. SetJob(p, "menu", j) /\ "menu" \in Level
    BY <1>6 DEF Wall, Level
  <2>2. j.stage = "type"
    BY SentFields
  <2> HIDE DEF j
  <2> QED
    BY <1>3, <2>1, <2>2
<1>7. ASSUME NEW k \in Level, NEW m \in 1..Len(book), Answer(p, k, m) PROVE Goal
  <2>1. PICK i \in FoundFor(m) :
          SetJob(p, k, [NoJob(p) EXCEPT !.stage = "type", !.at = i, !.pid = uinfo[i],
                                        !.re = m])
    BY <1>7 DEF Answer
  <2> DEFINE j == [NoJob(p) EXCEPT !.stage = "type", !.at = i, !.pid = uinfo[i], !.re = m]
  <2>2. SetJob(p, k, j)
    BY <2>1
  <2>3. j.stage = "type"
    BY SentFields
  <2> HIDE DEF j
  <2> QED
    BY <1>3, <2>2, <2>3
<1>8. ASSUME NEW k \in Level, GiveUp(p, k) \/ KillUsr2(p, k) PROVE Goal
  <2>1. SetJob(p, k, NoJob(p))
    BY <1>8 DEF GiveUp, KillUsr2, Finish
  <2> QED
    BY <2>1, <1>3, SentFields
<1>9. ASSUME NEW k \in Level, WriteLine(p, k) PROVE Goal
  <2>1. SetJob(p, k, [job[p][k] EXCEPT !.stage = "ttou", !.m = Len(book) + 1])
    BY <1>9 DEF WriteLine
  <2>2. CASE q = p /\ l = k
    <3>1. job'[q][l] = [job[q][l] EXCEPT !.stage = "ttou", !.m = Len(book) + 1]
      BY <1>0, <2>1, <2>2, OneJob
    <3> QED
      BY <1>0, <1>9, <2>2, <3>1, SentFields
  <2>3. CASE ~ (q = p /\ l = k)
    BY <1>1, <1>2, <2>1, <2>3
  <2> QED
    BY <2>2, <2>3
<1>10. ASSUME NEW k \in Level, KillTtou(p, k) PROVE Goal
  <2>1. SetJob(p, k, [job[p][k] EXCEPT !.stage = "usr2"]) /\ job[p][k].stage = "ttou"
    BY <1>10 DEF KillTtou
  <2>2. CASE q = p /\ l = k
    <3>1. job'[q][l] = [job[q][l] EXCEPT !.stage = "usr2"]
      BY <1>0, <2>1, <2>2, OneJob
    <3> QED
      BY <1>0, <1>10, <2>1, <2>2, <3>1, SentFields DEF SameWay
  <2>3. CASE ~ (q = p /\ l = k)
    BY <1>1, <1>2, <2>1, <2>3
  <2> QED
    BY <2>2, <2>3
<1> QED
  BY <1>4, <1>5, <1>6, <1>7, <1>8, <1>9, <1>10 DEF Act

LEMMA BookKept ==
  ASSUME IInv0, NEW p \in Session, Act(p), NEW m \in 1..Len(book)
  PROVE  book'[m] = book[m] /\ book[m] \in Entry /\ m \in 1..Len(book')
<1>1. TypeBook
  BY TypeParts DEF IInv0
<1> QED
  BY <1>1, StepBookGrows DEF BookGrows, TypeBook

(* Which step changes what.                                                  *)
Frame(p) ==
  /\ ~ Goodbye(p) /\ (\A l \in Level : ~ WriteLine(p, l)) => msgfile' = msgfile
  /\ (\A l \in Level : ~ WriteLine(p, l)) => book' = book /\ overtaken' = overtaken
  /\ (\A l \in Level : ~ KillUsr2(p, l)) => signalled' = signalled
  /\ ~ ShowLine(p) => shown' = shown

LEMMA StepFrame ==
  ASSUME NEW p \in Session, Act(p)
  PROVE  Frame(p)
<1>1. CASE Enter(p)
  BY <1>1 DEF Enter, Frame, history
<1>2. CASE Goodbye(p)
  BY <1>2 DEF Goodbye, Frame, history
<1>3. CASE UExit(p)
  BY <1>3 DEF UExit, Frame, history
<1>4. CASE Exit(p)
  BY <1>4 DEF Exit, Frame, history
<1>5. ASSUME NEW i \in Slot, Compose(p, i) PROVE Frame(p)
  BY <1>5 DEF Compose, Frame, history
<1>6. ASSUME NEW i \in Slot, Wall(p, i) PROVE Frame(p)
  BY <1>6 DEF Wall, Frame, history
<1>7. ASSUME NEW l \in Level, NEW m \in 1..Len(book), Answer(p, l, m) PROVE Frame(p)
  BY <1>7 DEF Answer, Frame, history
<1>8. ASSUME NEW l \in Level, WriteLine(p, l) PROVE Frame(p)
  BY <1>8 DEF WriteLine, Frame, history
<1>9. ASSUME NEW l \in Level, GiveUp(p, l) PROVE Frame(p)
  BY <1>9 DEF GiveUp, Frame, history
<1>10. ASSUME NEW l \in Level, KillTtou(p, l) PROVE Frame(p)
  BY <1>10 DEF KillTtou, Frame, history
<1>11. ASSUME NEW l \in Level, KillUsr2(p, l) PROVE Frame(p)
  BY <1>11 DEF KillUsr2, Frame, history
<1>12. CASE CountMsg(p)
  BY <1>12 DEF CountMsg, Frame, history
<1>13. CASE StartRMsg(p)
  BY <1>13 DEF StartRMsg, Frame, history
<1>14. CASE TakeCount(p)
  BY <1>14 DEF TakeCount, Frame, history
<1>15. CASE ShowLine(p)
  BY <1>15 DEF ShowLine, Frame, history
<1>16. CASE NoFile(p)
  BY <1>16 DEF NoFile, Frame, history
<1>17. CASE PressReturn(p)
  BY <1>17 DEF PressReturn, Frame, history
<1>18. CASE EndRMsg(p)
  BY <1>18 DEF EndRMsg, Frame, history
<1> QED
  BY <1>1, <1>2, <1>3, <1>4, <1>5, <1>6, <1>7, <1>8, <1>9, <1>10, <1>11, <1>12, <1>13,
     <1>14, <1>15, <1>16, <1>17, <1>18 DEF Act

LEMMA StepForWhoCame ==
  ASSUME IInv0, ForWhoCame, NEW p \in Session, Act(p)
  PROVE  ForWhoCame'
<1>0. TypeBook /\ TypeWho /\ TypeJob
  BY TypeParts DEF IInv0
<1> SUFFICES ASSUME NEW k \in 1..Len(book') PROVE life'[book'[k].for] # "new"
  BY DEF ForWhoCame
<1>1. CASE k \in 1..Len(book)
  <2>1. book'[k] = book[k] /\ book[k].for \in Session
    BY <1>1, BookKept DEF Entry
  <2> QED
    BY <1>1, <2>1, StepLife DEF ForWhoCame
<1>2. CASE k \notin 1..Len(book)
  <2>1. PICK l \in Level : WriteLine(p, l)
    <3>1. CASE \A l \in Level : ~ WriteLine(p, l)
      <4>1. book' = book
        BY <3>1, StepFrame DEF Frame
      <4> QED
        BY <1>2, <4>1
    <3> QED
      BY <3>1
  <2>2. Len(book') = Len(book) + 1 /\ Len(book) \in Nat
        /\ book'[Len(book) + 1] = [to |-> Uident(job[p][l]), for |-> Uin(job[p][l]),
                                   from |-> p, re |-> job[p][l].re]
    BY <2>1, NewEntry
  <2>20. k = Len(book) + 1
    BY <1>2, <2>2
  <2>3. Alive(Uin(job[p][l])) /\ life' = life
    BY <2>1 DEF WriteLine, Reachable
  <2> QED
    BY <2>2, <2>20, <2>3 DEF Alive
<1> QED
  BY <1>1, <1>2

LEMMA StepAllFind ==
  ASSUME IInv0, ForWhoCame, AllFind, NEW p \in Session, Act(p)
  PROVE  AllFind'
<1>0. TypeJob /\ TypeWho /\ JobsWritten
  BY TypeParts DEF IInv0
<1> SUFFICES ASSUME NEW r \in Session, NEW q \in Session, NEW l \in Level,
                    job'[q][l].stage \in {"ttou", "usr2"}, book'[job'[q][l].m].for = r,
                    life'[r] \in {"in", "goodbye"}
             PROVE  Uin(job[q][l])' = r
  BY DEF AllFind, Finds
<1> DEFINE j == job[q][l]
<1>00. j \in Job /\ j.at \in Slot \cup {0}
  BY <1>0 DEF TypeJob, Job
<1>1. CASE /\ j.stage \in {"ttou", "usr2"} /\ SameWay(job'[q][l], j)
  <2>1. j.m \in 1..Len(book)
    BY <1>0, <1>00, <1>1, IsNat, StepBookGrows DEF JobsWritten, Written, Job, BookGrows
  <2>2. book[j.m].for = r
    BY <1>1, <2>1, BookKept DEF SameWay
  <2>3. life[r] \in {"in", "goodbye"}
    BY <2>1, <2>2, StepLife DEF ForWhoCame
  <2>4. Uin(j) = r
    BY <1>1, <2>2, <2>3 DEF AllFind, Finds
  <2>5. CASE j.at = 0
    BY <1>1, <2>4, <2>5 DEF Uin, SameWay
  <2>6. CASE j.at # 0
    <3>1. uinfo'[j.at] = r
      BY <1>00, <2>4, <2>6, StepLife DEF Uin
    <3> QED
      BY <1>1, <2>6, <3>1 DEF Uin, SameWay
  <2> QED
    BY <2>5, <2>6
<1>2. CASE /\ q = p /\ WriteLine(p, l) /\ job'[q][l].m = Len(book) + 1
           /\ job'[q][l].at = j.at /\ job'[q][l].pid = j.pid
  <2>1. book'[Len(book) + 1] = [to |-> Uident(j), for |-> Uin(j), from |-> p, re |-> j.re]
    BY <1>2, NewEntry
  <2>2. Uin(j) = r /\ uinfo' = uinfo
    BY <1>2, <2>1 DEF WriteLine
  <2> QED
    BY <1>2, <2>2 DEF Uin
<1> QED
  BY <1>1, <1>2, SendingBefore

LEMMA StepToldWritten ==
  ASSUME IInv0, ToldWritten, NEW p \in Session, Act(p)
  PROVE  ToldWritten'
<1>0. JobsWritten /\ BookGrows /\ \A m \in Msg : m \in Nat
  BY StepBookGrows, IsNat DEF IInv0
<1> SUFFICES ASSUME NEW m \in Msg, NEW q \in Session, <<m, q>> \in signalled'
             PROVE  m <= Len(book')
  BY DEF ToldWritten
<1>1. CASE <<m, q>> \in signalled
  BY <1>0, <1>1 DEF ToldWritten, BookGrows
<1>2. CASE \E l \in Level : KillUsr2(p, l) /\ m = job[p][l].m
  BY <1>0, <1>2 DEF JobsWritten, Written, BookGrows
<1>3. ASSUME NEW l \in Level, KillUsr2(p, l)
      PROVE  m = job[p][l].m \/ <<m, q>> \in signalled
  BY <1>3 DEF KillUsr2
<1>4. CASE \A l \in Level : ~ KillUsr2(p, l)
  <2>1. signalled' = signalled
    BY <1>4, StepFrame DEF Frame
  <2> QED
    BY <2>1, <1>1
<1> QED
  BY <1>1, <1>2, <1>3, <1>4

LEMMA StepShownGrows ==
  ASSUME IInv0, NEW p \in Session, Act(p)
  PROVE  /\ \A q \in Session : shown[q] \subseteq shown'[q]
         /\ overtaken \subseteq overtaken'
<1>0. TypeShown
  BY TypeParts DEF IInv0
<1>1. ShowLine(p) => \A q \in Session : shown[q] \subseteq shown'[q]
  BY <1>0 DEF ShowLine, TypeShown
<1>2. (\E l \in Level : WriteLine(p, l)) => overtaken \subseteq overtaken'
  BY DEF WriteLine
<1>3. ~ ShowLine(p) => shown' = shown
  BY StepFrame DEF Frame
<1>4. (\A l \in Level : ~ WriteLine(p, l)) => overtaken' = overtaken
  BY StepFrame DEF Frame
<1>5. \A q \in Session : shown[q] \subseteq shown'[q]
  BY <1>1, <1>3
<1>6. overtaken \subseteq overtaken'
  BY <1>2, <1>4
<1> QED
  BY <1>5, <1>6

LEMMA StepFilesKept ==
  ASSUME NEW p \in Session, Act(p),
         ~ Goodbye(p), ~ \E l \in Level : WriteLine(p, l)
  PROVE  msgfile' = msgfile /\ book' = book
BY StepFrame DEF Frame

LEMMA StepOnlyLastMissed ==
  ASSUME IInv0, OnlyLastMissed, NEW p \in Session, Act(p)
  PROVE  OnlyLastMissed'
<1>0. TypeFiles /\ TypeBook /\ FilesWritten /\ TypeShown /\ TypeHistory
  BY TypeParts DEF IInv0
<1> SUFFICES ASSUME NEW u \in User, NEW k \in 1..Len(msgfile'[u]), k # Len(msgfile'[u])
             PROVE  msgfile'[u][k] \in shown'[book'[msgfile'[u][k]].for] \cup overtaken'
  BY DEF OnlyLastMissed
<1>00. msgfile[u] \in Seq(Msg) /\ Len(msgfile[u]) \in Nat
  BY <1>0 DEF TypeFiles
<1>1. ASSUME NEW i \in 1..Len(msgfile[u])
      PROVE  LET x == msgfile[u][i]
             IN  /\ book'[x] = book[x] /\ book[x].for \in Session
                 /\ shown[book[x].for] \cup overtaken
                      \subseteq shown'[book'[x].for] \cup overtaken'
  <2>1. msgfile[u][i] \in 1..Len(book)
    <3>1. msgfile[u][i] \in Msg /\ msgfile[u][i] <= Len(book)
      BY <1>0, <1>00 DEF FilesWritten
    <3>2. Len(book) \in Nat
      BY StepBookGrows DEF BookGrows
    <3> QED
      BY <3>1, <3>2, MessageAssumption DEF Msg
  <2> QED
    BY <2>1, BookKept, StepShownGrows DEF Entry
<1>2. CASE Goodbye(p)
  <2>1. msgfile'[u] = <<>> \/ msgfile'[u] = msgfile[u]
    BY <1>0, <1>2 DEF Goodbye, TypeFiles
  <2> QED
    BY <1>1, <2>1 DEF OnlyLastMissed
<1>3. ASSUME NEW l \in Level, WriteLine(p, l)
      PROVE  msgfile'[u][k] \in shown'[book'[msgfile'[u][k]].for] \cup overtaken'
  <2>1. CASE u # Uident(job[p][l])
    <3>1. msgfile'[u] = msgfile[u]
      BY <1>0, <1>3, <2>1 DEF WriteLine, TypeFiles
    <3> QED
      BY <1>1, <3>1 DEF OnlyLastMissed
  <2>2. CASE u = Uident(job[p][l])
    <3>1. /\ msgfile'[u] = Append(msgfile[u], Len(book) + 1) /\ Len(book) + 1 \in Msg
          /\ shown' = shown
          /\ overtaken' = overtaken \cup {x \in ToSet(msgfile[u]) : x \notin shown[book[x].for]}
      BY <1>0, <1>3, <2>2 DEF WriteLine, TypeFiles
    <3>2. k \in 1..Len(msgfile[u]) /\ msgfile'[u][k] = msgfile[u][k]
      BY <1>00, <3>1
    <3>3. msgfile[u][k] \in ToSet(msgfile[u])
      BY <1>00, <3>2 DEF ToSet
    <3> QED
      BY <1>1, <3>1, <3>2, <3>3
  <2> QED
    BY <2>1, <2>2
<1>4. CASE ~ Goodbye(p) /\ ~ \E l \in Level : WriteLine(p, l)
  <2>1. msgfile'[u] = msgfile[u]
    BY <1>4, StepFilesKept
  <2> QED
    BY <1>1, <2>1 DEF OnlyLastMissed
<1> QED
  BY <1>2, <1>3, <1>4

(* Only KillTtou tells.                                                      *)
LEMMA ToldBefore ==
  ASSUME IInv0, NEW p \in Session, Act(p), NEW m \in Msg, NEW q \in Session, Told(m, q)'
  PROVE  Told(m, q) \/ \E l \in Level : KillTtou(p, l) /\ job[p][l].m = m
<1>0. TypeJob
  BY TypeParts DEF IInv0
<1>1. CASE <<m, q>> \in signalled'
  <2>1. ASSUME NEW l \in Level, KillUsr2(p, l)
        PROVE  Told(m, q)
    <3>1. job[p][l].stage = "usr2"
      BY <2>1 DEF KillUsr2
    <3>2. m = job[p][l].m \/ <<m, q>> \in signalled
      BY <1>1, <2>1 DEF KillUsr2
    <3> QED
      BY <3>1, <3>2 DEF Told
  <2>2. CASE \A l \in Level : ~ KillUsr2(p, l)
    <3>1. signalled' = signalled
      BY <2>2, StepFrame DEF Frame
    <3> QED
      BY <1>1, <3>1 DEF Told
  <2> QED
    BY <2>1, <2>2
<1>2. ASSUME NEW r \in Session, NEW l \in Level,
             job'[r][l].stage = "usr2", job'[r][l].m = m
      PROVE  Told(m, q) \/ \E k \in Level : KillTtou(p, k) /\ job[p][k].m = m
  <2>1. /\ job[r][l].stage \in {"ttou", "usr2"} /\ SameWay(job'[r][l], job[r][l])
        /\ job'[r][l].stage # job[r][l].stage => r = p /\ KillTtou(p, l)
    BY <1>2, SendingBefore
  <2> QED
    BY <1>2, <2>1 DEF Told, SameWay
<1> QED
  BY <1>1, <1>2 DEF Told

(* What is missing after a step that neither writes nor tells was missing.    *)
LEMMA MissingBefore ==
  ASSUME IInv0, ForWhoCame, NEW p \in Session, Act(p), NEW m \in Msg, NEW q \in Session,
         life'[q] = "in", Missing(m, q)', ~ \E l \in Level : WriteLine(p, l)
  PROVE  /\ life[q] = "in" /\ m \in File(q) /\ Addressed(m, q)
         /\ m \notin shown[q] \cup overtaken /\ msgfile'[Account[q]] = msgfile[Account[q]]
         /\ Missing(m, q) \/ \E l \in Level : KillTtou(p, l) /\ job[p][l].m = m
<1>0. TypeFiles /\ FilesWritten /\ Account[q] \in User
  BY TypeParts, MessageAssumption DEF IInv0
<1>1. msgfile'[Account[q]] = msgfile[Account[q]]
  <2>1. CASE Goodbye(p)
    <3>1. msgfile'[Account[q]] = <<>> \/ msgfile'[Account[q]] = msgfile[Account[q]]
      BY <1>0, <2>1 DEF Goodbye, TypeFiles
    <3>2. ToSet(<<>>) = {}
      BY DEF ToSet
    <3> QED
      BY <3>1, <3>2 DEF Missing, File
  <2> QED
    BY <2>1, StepFilesKept
<1>2. m \in File(q)
  BY <1>1 DEF Missing, File
<1>3. m \in 1..Len(book)
  <2>1. PICK i \in 1..Len(msgfile[Account[q]]) : m = msgfile[Account[q]][i]
    BY <1>0, <1>2 DEF File, ToSet, TypeFiles
  <2> QED
    BY <1>0, <2>1, StepBookGrows DEF FilesWritten, BookGrows, Msg
<1>4. Addressed(m, q)
  BY <1>3, BookKept DEF Missing, Addressed
<1>5. life[q] = "in"
  BY <1>3, <1>4, StepLife DEF ForWhoCame, Addressed
<1>6. m \notin shown[q] \cup overtaken
  BY StepShownGrows DEF Missing
<1>7. Told(m, q)'
  BY DEF Missing
<1> QED
  BY <1>1, <1>2, <1>4, <1>5, <1>6, <1>7, ToldBefore DEF Missing

(* The session shows the last line, and nothing more is due.                  *)
ShowsLast(q) ==
  ShowLine(q) /\ msg_num[q] = 1 /\ cnt[q] >= Len(msgfile[Account[q]])

LEMMA StepComes ==
  ASSUME IInv0, NEW p \in Session, Act(p), NEW q \in Session, Comes(q),
         msgfile'[Account[q]] = msgfile[Account[q]]
  PROVE  Comes(q)' \/ ShowsLast(q)
<1>0. TypeCount /\ TypeSignals /\ TypeHandler /\ SomethingCounted
  BY TypeParts DEF IInv0
<1>00. Len(msgfile[Account[q]]) \in Nat
  <2>1. msgfile[Account[q]] \in Seq(Msg)
    BY TypeParts, MessageAssumption DEF IInv0, TypeFiles
  <2> QED
    BY <2>1
<1>1. CASE Enter(p)
  BY <1>1, <1>0 DEF Enter, Comes, TypeCount, TypeSignals, TypeHandler, signals
<1>2. CASE Goodbye(p)
  BY <1>2, <1>0 DEF Goodbye, Comes, TypeCount, TypeSignals, TypeHandler, signals
<1>3. CASE UExit(p)
  BY <1>3, <1>0 DEF UExit, Comes, TypeCount, TypeSignals, TypeHandler, signals
<1>4. CASE Exit(p)
  BY <1>4, <1>0 DEF Exit, Comes, TypeCount, TypeSignals, TypeHandler, signals
<1>5. ASSUME NEW i \in Slot, Compose(p, i) PROVE Comes(q)'
  BY <1>5, <1>0 DEF Compose, Comes, TypeCount, TypeSignals, TypeHandler, signals
<1>6. ASSUME NEW i \in Slot, Wall(p, i) PROVE Comes(q)'
  BY <1>6, <1>0 DEF Wall, Comes, TypeCount, TypeSignals, TypeHandler, signals
<1>7. ASSUME NEW l \in Level, NEW m \in 1..Len(book), Answer(p, l, m) PROVE Comes(q)'
  BY <1>7, <1>0 DEF Answer, Comes, TypeCount, TypeSignals, TypeHandler, signals
<1>8. ASSUME NEW l \in Level, WriteLine(p, l) PROVE Comes(q)'
  BY <1>8, <1>0 DEF WriteLine, Comes, TypeCount, TypeSignals, TypeHandler, signals
<1>9. ASSUME NEW l \in Level, GiveUp(p, l) PROVE Comes(q)'
  BY <1>9, <1>0 DEF GiveUp, Comes, TypeCount, TypeSignals, TypeHandler, signals, Finish
<1>10. ASSUME NEW l \in Level, KillTtou(p, l) PROVE Comes(q)'
  BY <1>10, <1>0 DEF KillTtou, Comes, TypeCount, TypeSignals, TypeHandler, signals
<1>11. ASSUME NEW l \in Level, KillUsr2(p, l) PROVE Comes(q)'
  BY <1>11, <1>0 DEF KillUsr2, Comes, TypeCount, TypeSignals, TypeHandler, signals, Finish
<1>12. CASE CountMsg(p)
  BY <1>12, <1>0 DEF CountMsg, Comes, TypeCount, TypeSignals, TypeHandler, signals,
     SomethingCounted
<1>13. CASE StartRMsg(p)
  BY <1>13, <1>0 DEF StartRMsg, Comes, TypeCount, TypeSignals, TypeHandler, signals
<1>14. CASE TakeCount(p)
  <2>1. /\ msg_num' = msg_num /\ ttou' = ttou /\ msg_num[p] > 0
        /\ hnd' = [hnd EXCEPT ![p] = "counted"]
        /\ cnt' = [cnt EXCEPT ![p] = Len(msgfile[Account[p]])]
    BY <1>14 DEF TakeCount, signals
  <2>2. CASE q = p
    <3>1. cnt'[q] = Len(msgfile'[Account[q]]) /\ msg_num'[q] > 0
      BY <1>0, <2>1, <2>2 DEF TypeCount
    <3> QED
      BY <1>00, <3>1 DEF Comes
  <2>3. CASE q # p
    <3>1. /\ cnt'[q] = cnt[q] /\ hnd'[q] = hnd[q]
          /\ msg_num'[q] = msg_num[q] /\ ttou'[q] = ttou[q]
      BY <1>0, <2>1, <2>3 DEF TypeCount, TypeHandler
    <3> QED
      BY <3>1 DEF Comes
  <2> QED
    BY <2>2, <2>3
<1>15. CASE ShowLine(p)
  <2>1. /\ msg_num' = [msg_num EXCEPT ![p] = @ - 1] /\ ttou' = ttou /\ cnt' = cnt
        /\ hnd' = [hnd EXCEPT ![p] = AfterLine(p)] /\ hnd[p] = "counted"
    BY <1>15 DEF ShowLine
  <2>2. CASE q = p
    <3>1. msg_num'[q] = msg_num[q] - 1 /\ hnd'[q] # "counted" /\ ttou'[q] = ttou[q]
      BY <1>0, <2>1, <2>2 DEF TypeCount, TypeHandler, AfterLine
    <3>2. msg_num[q] \in Nat /\ msg_num[q] > 0 /\ hnd[q] = "counted"
      BY <1>0, <2>1, <2>2 DEF TypeCount, SomethingCounted
    <3>3. CASE msg_num[q] > 1 \/ ttou[q]
      BY <3>1, <3>2, <3>3 DEF Comes
    <3>4. CASE msg_num[q] = 1 /\ ~ ttou[q]
      BY <1>15, <2>2, <3>2, <3>4 DEF Comes, ShowsLast
    <3> QED
      BY <3>2, <3>3, <3>4
  <2>3. CASE q # p
    <3>1. /\ cnt'[q] = cnt[q] /\ hnd'[q] = hnd[q]
          /\ msg_num'[q] = msg_num[q] /\ ttou'[q] = ttou[q]
      BY <1>0, <2>1, <2>3 DEF TypeCount, TypeHandler
    <3> QED
      BY <3>1 DEF Comes
  <2> QED
    BY <2>2, <2>3
<1>16. CASE NoFile(p)
  BY <1>16, <1>0 DEF NoFile, Comes, TypeCount, TypeSignals, TypeHandler, signals
<1>17. CASE PressReturn(p)
  BY <1>17, <1>0 DEF PressReturn, Comes, TypeCount, TypeSignals, TypeHandler, signals
<1>18. CASE EndRMsg(p)
  BY <1>18, <1>0 DEF EndRMsg, Comes, TypeCount, TypeSignals, TypeHandler, signals
<1> QED
  BY <1>1, <1>2, <1>3, <1>4, <1>5, <1>6, <1>7, <1>8, <1>9, <1>10, <1>11, <1>12, <1>13,
     <1>14, <1>15, <1>16, <1>17, <1>18 DEF Act

LEMMA LastIsShown ==
  ASSUME IInv0, OnlyLastMissed, NEW q \in Session, ShowsLast(q), NEW m \in File(q),
         Addressed(m, q), m \notin shown[q] \cup overtaken
  PROVE  m \in shown'[q]
<1> DEFINE f == msgfile[Account[q]]
<1>0. TypeCount /\ TypeShown /\ Account[q] \in User /\ f \in Seq(Msg)
  BY TypeParts, MessageAssumption DEF IInv0, TypeFiles
<1>1. PICK k \in 1..Len(f) : m = f[k]
  BY <1>0 DEF File, ToSet
<1>2. k = Len(f)
  BY <1>0, <1>1 DEF OnlyLastMissed, Addressed
<1>3. cnt[q] >= 1 /\ msg_num[q] = 1 /\ cnt[q] \in Nat
  BY <1>0, <1>1 DEF ShowsLast, TypeCount
<1>4. cnt[q] + 1 - msg_num[q] = cnt[q] /\ ~ (msg_num[q] > cnt[q])
  BY <1>3
<1>5. (IF cnt[q] <= Len(f) THEN cnt[q] ELSE Len(f)) = Len(f)
  BY <1>0, <1>3 DEF ShowsLast
<1>6. LastRead(q) = {f[Len(f)]}
  BY <1>4, <1>5 DEF LastRead
<1> QED
  BY <1>0, <1>1, <1>2, <1>6 DEF ShowsLast, ShowLine, TypeShown

LEMMA StepStillComes ==
  ASSUME IInv0, IInv2, NEW p \in Session, Act(p)
  PROVE  StillComes'
<1>0. /\ TypeFiles /\ TypeBook /\ TypeSignals /\ TypeWho /\ FilesWritten /\ JobsWritten
      /\ ForWhoCame /\ AllFind /\ ToldWritten /\ OnlyLastMissed /\ StillComes
  BY TypeParts DEF IInv0, IInv2
<1> SUFFICES ASSUME NEW q \in Session, life'[q] = "in", NEW m \in Msg, Missing(m, q)'
             PROVE  Comes(q)'
  BY DEF StillComes
<1>00. Account[q] \in User /\ m \in Nat
  BY MessageAssumption, IsNat
<1>1. ASSUME NEW l \in Level, WriteLine(p, l)
      PROVE  Comes(q)'
  <2>1. Told(m, q)
    <3>1. \A k \in Level : ~ KillTtou(p, k)
      BY <1>1 DEF WriteLine, KillTtou, Running, Level, SetJob
    <3> QED
      BY <3>1, ToldBefore DEF Missing
  <2>2. m \in 1..Len(book)
    <3>1. m <= Len(book)
      BY <1>0, <2>1 DEF Told, ToldWritten, JobsWritten, Written
    <3> QED
      BY <1>00, <3>1, StepBookGrows DEF BookGrows, Msg
  <2>3. Addressed(m, q)
    BY <2>2, BookKept DEF Missing, Addressed
  <2>4. m \notin shown[q] \cup overtaken /\ life[q] = "in"
    BY <1>1, StepShownGrows DEF Missing, WriteLine
  <2>5. CASE Uident(job[p][l]) = Account[q]
    <3>1. msgfile'[Account[q]] = Append(msgfile[Account[q]], Len(book) + 1)
      BY <1>0, <1>00, <1>1, <2>5 DEF WriteLine, TypeFiles
    <3>2. msgfile[Account[q]] \in Seq(Msg) /\ m # Len(book) + 1
      BY <1>0, <1>00, <2>2 DEF TypeFiles
    <3>3. m \in ToSet(msgfile[Account[q]])
      BY <3>1, <3>2 DEF Missing, File, ToSet
    <3>4. m \in overtaken'
      BY <1>1, <2>3, <2>4, <2>5, <3>3 DEF WriteLine, Addressed
    <3> QED
      BY <3>4 DEF Missing
  <2>6. CASE Uident(job[p][l]) # Account[q]
    <3>1. msgfile'[Account[q]] = msgfile[Account[q]]
      BY <1>0, <1>00, <1>1, <2>6 DEF WriteLine, TypeFiles
    <3>2. Missing(m, q)
      BY <2>1, <2>3, <2>4, <3>1 DEF Missing, File
    <3>3. Comes(q)
      BY <1>0, <2>4, <3>2 DEF StillComes
    <3> QED
      BY <1>1, <3>1, <3>3 DEF WriteLine, Comes, signals
  <2> QED
    BY <2>5, <2>6
<1>2. CASE \A l \in Level : ~ WriteLine(p, l)
  <2>0. /\ life[q] = "in" /\ m \in File(q) /\ Addressed(m, q)
        /\ m \notin shown[q] \cup overtaken /\ msgfile'[Account[q]] = msgfile[Account[q]]
        /\ Missing(m, q) \/ \E l \in Level : KillTtou(p, l) /\ job[p][l].m = m
    BY <1>0, <1>2, MissingBefore
  <2>1. CASE Missing(m, q)
    <3>1. Comes(q)
      BY <1>0, <2>0, <2>1 DEF StillComes
    <3>2. ~ ShowsLast(q)
      BY <1>0, <2>0, LastIsShown DEF Missing
    <3> QED
      BY <2>0, <3>1, <3>2, StepComes
  <2>2. ASSUME NEW l \in Level, KillTtou(p, l), job[p][l].m = m
        PROVE  Comes(q)'
    <3>1. Uin(job[p][l]) = q
      BY <1>0, <2>0, <2>2 DEF KillTtou, AllFind, Finds, Addressed
    <3>2. q \in Hit(job[p][l])
      BY <2>0, <3>1, MessageAssumption DEF Hit, Alive
    <3> QED
      BY <2>2, <3>2 DEF KillTtou, Comes
  <2> QED
    BY <2>0, <2>1, <2>2
<1> QED
  BY <1>1, <1>2

LEMMA InitIInv2 == Init => IInv2
<1> SUFFICES ASSUME Init PROVE IInv2
  OBVIOUS
<1>1. ForWhoCame /\ ToldWritten /\ OnlyLastMissed
  BY MessageAssumption DEF Init, ForWhoCame, ToldWritten, OnlyLastMissed
<1>2. AllFind /\ StillComes
  <2>1. \A p \in Session, l \in Level : job[p][l].stage = "none"
    BY JobFields DEF Init
  <2> QED
    BY <2>1 DEF Init, AllFind, Finds, StillComes
<1> QED
  BY <1>1, <1>2 DEF IInv2

LEMMA NextIInv2 == IInv0 /\ IInv2 /\ [Next]_vars => IInv2'
<1> SUFFICES ASSUME IInv0, IInv2, [Next]_vars PROVE IInv2'
  OBVIOUS
<1>1. CASE Next
  <2>1. PICK p \in Session : Act(p)
    BY <1>1, NextActs
  <2> QED
    BY <2>1, StepForWhoCame, StepAllFind, StepToldWritten, StepOnlyLastMissed,
       StepStillComes DEF IInv2
<1>2. CASE UNCHANGED vars
  BY <1>2 DEF vars, IInv2, ForWhoCame, AllFind, Finds, Uin, ToldWritten, OnlyLastMissed,
     StillComes, Missing, Told, File, Addressed, Comes
<1> QED
  BY <1>1, <1>2

(* A session that has worked off its signals has shown every message in its   *)
(* file it was signalled for, unless another was written to the account       *)
(* before: coalesced signals and shifted counts lose no last message.        *)
THEOREM MessageMissedOnlyWhenOvertaken == Spec => []MissedOnlyWhenOvertaken
<1>1. Init => IInv0 /\ IInv2
  BY Init0, InitIInv2
<1>2. (IInv0 /\ IInv2) /\ [Next]_vars => (IInv0 /\ IInv2)'
  BY Next0, NextIInv2
<1>3. IInv0 /\ IInv2 => MissedOnlyWhenOvertaken
  <2> SUFFICES ASSUME IInv0, IInv2, NEW p \in Session, AtRest(p), NEW m \in File(p),
                      <<m, p>> \in signalled, Addressed(m, p)
               PROVE  m \in shown[p] \cup overtaken
    BY DEF MissedOnlyWhenOvertaken, File
  <2>1. m \in Msg
    BY TypeParts DEF IInv0, TypeHistory
  <2>2. ~ Comes(p)
    BY TypeParts DEF AtRest, Comes
  <2> QED
    BY <2>1, <2>2 DEF IInv2, StillComes, AtRest, Missing, Told
<1> QED
  BY <1>1, <1>2, <1>3, PTL DEF Spec
=============================================================================
