------------------------------ MODULE Message -------------------------------
(***************************************************************************)
(* Messages between users (sendmsg.c).  A message is a line at the end of   *)
(* the file of the account it is for, followed by two signals to one        *)
(* session: SIGTTOU counts it, SIGUSR2 has the session show the last lines  *)
(* of the file, as many as were counted.  Signals of a kind that are        *)
(* pending together are one signal, the file belongs to all sessions of the *)
(* account, and the session is found through a pointer into the list of     *)
(* users, whose slot may have a new owner, or none, when the pointer is     *)
(* followed.                                                                *)
(*                                                                         *)
(* Signals as glibc's signal() has them: a handler stays installed and is   *)
(* not interrupted by its own signal, but count_msg interrupts r_msg.       *)
(***************************************************************************)
EXTENDS Naturals, Sequences, SequencesExt

CONSTANTS
  Session,     \* processes
  User,        \* accounts
  Account,     \* Account[p]: who session p is
  Writer,      \* sessions that write to others
  Quitter,     \* sessions that leave
  GetKey,      \* sessions with DEF_MSGGETKEY: a message stays until a key
  UshmSize,    \* slots in the list of users
  MaxMsg,      \* bound: messages
  NoPid

ASSUME MessageAssumption ==
  /\ Account \in [Session -> User]
  /\ Writer \cup Quitter \cup GetKey \subseteq Session
  /\ UshmSize \in Nat /\ MaxMsg \in Nat /\ NoPid \notin Session

Slot == 1..UshmSize
Msg == 1..MaxMsg

VARIABLES
  uinfo,      \* uinfo[i].pid, of active slots
  life,       \* where a session is: in, at Q_Goodbye, after u_exit ...
  msgfile,    \* msgfile[u]: the lines of "msgfile"; none when it has no file
  book,       \* every message written: whom it was for and from
  msg_num,    \* the counter of a session
  ttou, usr2, \* signals pending
  hnd, cnt,   \* where a session is in r_msg, and its i
  job,        \* what a session is sending, from its menus or from r_msg
  shown,      \* history: messages r_msg showed to a session
  signalled,  \* history: <<m, p>>: both signals for m went to p
  overtaken,  \* history: messages not yet shown when the next was written
  drift,      \* history: sessions whose count and file need not agree
  garbage     \* history: sessions to which r_msg showed what it never read

vars == <<uinfo, life, msgfile, book, msg_num, ttou, usr2, hnd, cnt, job,
          shown, signalled, overtaken, drift, garbage>>

history == <<shown, signalled, overtaken, drift, garbage>>
signals == <<msg_num, ttou, usr2>>

Level == {"menu", "r_msg"}

(* do_sendmsg's uin, userpid and uident.  at = 0: uin is a copy of an entry. *)
Job ==
  [stage : {"none", "type", "ttou", "usr2"}, at : Slot \cup {0},
   pid : Session \cup {NoPid}, re : Msg \cup {0}, m : Msg \cup {0},
   to : User]

NoJob(p) ==
  [stage |-> "none", at |-> 0, pid |-> NoPid, re |-> 0, m |-> 0,
   to |-> Account[p]]

TypeOK ==
  /\ uinfo \in [Slot -> Session \cup {NoPid}]
  /\ life \in [Session -> {"new", "in", "goodbye", "left", "gone"}]
  /\ msgfile \in [User -> Seq(Msg)]
  /\ book \in Seq([to : User, for : Session, from : Session, re : Msg \cup {0}])
  /\ msg_num \in [Session -> Nat]
  /\ ttou \in [Session -> BOOLEAN] /\ usr2 \in [Session -> BOOLEAN]
  /\ hnd \in [Session -> {"none", "loop", "counted", "key", "answer"}]
  /\ cnt \in [Session -> Nat]
  /\ job \in [Session -> [Level -> Job]]
  /\ shown \in [Session -> SUBSET Msg]
  /\ signalled \subseteq Msg \X Session /\ overtaken \subseteq Msg
  /\ drift \subseteq Session /\ garbage \subseteq Session

Init ==
  /\ uinfo = [i \in Slot |-> NoPid]
  /\ life = [p \in Session |-> "new"]
  /\ msgfile = [u \in User |-> <<>>]
  /\ book = <<>>
  /\ msg_num = [p \in Session |-> 0]
  /\ ttou = [p \in Session |-> FALSE] /\ usr2 = [p \in Session |-> FALSE]
  /\ hnd = [p \in Session |-> "none"] /\ cnt = [p \in Session |-> 0]
  /\ job = [p \in Session |-> [l \in Level |-> NoJob(p)]]
  /\ shown = [p \in Session |-> {}]
  /\ signalled = {} /\ overtaken = {} /\ drift = {} /\ garbage = {}

-----------------------------------------------------------------------------
Alive(p) == life[p] \in {"in", "goodbye", "left"}

(* The code a session runs when no handler has interrupted it ...           *)
AtMenu(p) == Alive(p) /\ hnd[p] = "none"

(* ... and the place it sends from.                                         *)
Running(p, l) == hnd[p] = IF l = "menu" THEN "none" ELSE "answer"

Uin(j) == IF j.at = 0 THEN j.pid ELSE uinfo[j.at]

SetJob(p, l, j) == job' = [job EXCEPT ![p] = [job[p] EXCEPT ![l] = j]]

-----------------------------------------------------------------------------
(* Sessions come and go                                                     *)

Enter(p) ==
  /\ life[p] = "new"
  /\ \E i \in Slot :
       /\ uinfo[i] = NoPid /\ \A j \in 1..(i - 1) : uinfo[j] # NoPid
       /\ uinfo' = [uinfo EXCEPT ![i] = p]
  /\ life' = [life EXCEPT ![p] = "in"]
  /\ UNCHANGED <<msgfile, book, signals, hnd, cnt, job, history>>

(* Q_Goodbye removes the account's file, whoever else is reading it.        *)
Goodbye(p) ==
  /\ p \in Quitter /\ life[p] = "in" /\ AtMenu(p) /\ job[p]["menu"].stage = "none"
  /\ life' = [life EXCEPT ![p] = "goodbye"]
  /\ msgfile' = [msgfile EXCEPT ![Account[p]] = <<>>]
  /\ drift' = drift \cup {q \in Session : Account[q] = Account[p]}
  /\ UNCHANGED <<uinfo, book, signals, hnd, cnt, job, shown, signalled,
                 overtaken, garbage>>

UExit(p) ==
  /\ life[p] = "goodbye" /\ AtMenu(p)
  /\ life' = [life EXCEPT ![p] = "left"]
  /\ uinfo' = [i \in Slot |-> IF uinfo[i] = p THEN NoPid ELSE uinfo[i]]
  /\ UNCHANGED <<msgfile, book, signals, hnd, cnt, job, history>>

Exit(p) ==
  /\ life[p] = "left" /\ AtMenu(p)
  /\ life' = [life EXCEPT ![p] = "gone"]
  /\ UNCHANGED <<uinfo, msgfile, book, signals, hnd, cnt, job, history>>

-----------------------------------------------------------------------------
(* do_sendmsg                                                               *)

CanWrite(p) ==
  /\ p \in Writer /\ life[p] = "in" /\ Len(book) < MaxMsg

(* s_msg: the user is found by name, the text is typed; no process id is     *)
(* remembered.                                                              *)
Compose(p, i) ==
  /\ CanWrite(p) /\ AtMenu(p) /\ job[p]["menu"].stage = "none"
  /\ uinfo[i] # NoPid /\ Account[uinfo[i]] # Account[p]
  /\ SetJob(p, "menu", [NoJob(p) EXCEPT !.stage = "type", !.at = i,
                                        !.to = Account[uinfo[i]]])
  /\ UNCHANGED <<uinfo, life, msgfile, book, signals, hnd, cnt, history>>

(* friend_wall, wall, friend_login_wall: the text is there already and goes  *)
(* to a copy of the entry.                                                  *)
Wall(p, i) ==
  /\ CanWrite(p) /\ AtMenu(p) /\ job[p]["menu"].stage = "none"
  /\ uinfo[i] # NoPid /\ Account[uinfo[i]] # Account[p]
  /\ SetJob(p, "menu", [NoJob(p) EXCEPT !.stage = "type", !.pid = uinfo[i],
                                        !.to = Account[uinfo[i]]])
  /\ UNCHANGED <<uinfo, life, msgfile, book, signals, hnd, cnt, history>>

(* t_search with the process id of a message: that session, or else the last *)
(* one of the account.                                                      *)
FoundFor(m) ==
  LET mine == {i \in Slot : uinfo[i] # NoPid
                              /\ Account[uinfo[i]] = Account[book[m].from]}
      exact == {i \in mine : uinfo[i] = book[m].from}
  IN IF exact # {} THEN exact
     ELSE {i \in mine : \A j \in mine : j <= i}

(* ^R under the message in r_msg, or ^Z and r_msg2 from anywhere: a line of   *)
(* the file is answered, userpid is taken from the entry found.             *)
Answer(p, l, m) ==
  /\ CanWrite(p) /\ job[p][l].stage = "none"
  /\ \/ l = "menu" /\ AtMenu(p) /\ m \in ToSet(msgfile[Account[p]])
        /\ UNCHANGED hnd
     \/ l = "r_msg" /\ hnd[p] = "key" /\ m \in shown[p]
        /\ hnd' = [hnd EXCEPT ![p] = "answer"]
  /\ \E i \in FoundFor(m) :
       SetJob(p, l, [NoJob(p) EXCEPT !.stage = "type", !.at = i,
                                     !.pid = uinfo[i], !.re = m])
  /\ UNCHANGED <<uinfo, life, msgfile, book, signals, cnt, history>>

(* The job is over; r_msg goes on with its loop.                            *)
Finish(p, l) ==
  /\ SetJob(p, l, NoJob(p))
  /\ hnd' = IF l = "menu" THEN hnd ELSE [hnd EXCEPT ![p] = "loop"]

(* Whose file: the name typed, or who has the entry now.                    *)
Uident(j) == IF j.re = 0 THEN j.to ELSE Account[uinfo[j.at]]

(* Seeded fault: the process id found before the answer was typed is not     *)
(* compared.                                                                *)
ReachableUnchecked(j) == Uin(j) # NoPid /\ Alive(Uin(j))

(* userpid is compared with the entry as it is now; the process must exist.  *)
Reachable(j) ==
  /\ Uin(j) # NoPid /\ Alive(Uin(j))
  /\ j.pid # NoPid => j.pid = Uin(j)

(* Typed: the line is written, or nobody is there.                          *)
WriteLine(p, l) ==
  LET j == job[p][l]
      m == Len(book) + 1
      u == Uident(j)
      q == Uin(j)
  IN /\ Running(p, l) /\ j.stage = "type" /\ Reachable(j) /\ m \in Msg
     /\ msgfile' = [msgfile EXCEPT ![u] = Append(@, m)]
     /\ book' = Append(book, [to |-> u, for |-> q, from |-> p, re |-> j.re])
     /\ overtaken' = overtaken \cup
          {k \in ToSet(msgfile[u]) : k \notin shown[book[k].for]}
     /\ SetJob(p, l, [j EXCEPT !.stage = "ttou", !.m = m])
     /\ UNCHANGED <<uinfo, life, signals, hnd, cnt, shown, signalled, drift,
                    garbage>>

(* The user changes his mind, or the other one has gone.                    *)
GiveUp(p, l) ==
  /\ Running(p, l) /\ job[p][l].stage = "type"
  /\ Finish(p, l)
  /\ UNCHANGED <<uinfo, life, msgfile, book, signals, cnt, history>>

(* kill(uin->pid, ...): the entry is looked at again.  Process id 0 is the    *)
(* whole process group, which all sessions of bbsd share.                   *)
Hit(j) == IF Uin(j) = NoPid THEN {q \in Session : Alive(q)}
          ELSE {q \in {Uin(j)} : Alive(q)}

(* Message m was written into the file of q's account, for q.               *)
Addressed(m, q) == book[m].for = q /\ book[m].to = Account[q]

KillTtou(p, l) ==
  LET j == job[p][l]
  IN /\ Running(p, l) /\ j.stage = "ttou"
     /\ ttou' = [q \in Session |-> ttou[q] \/ q \in Hit(j)]
     /\ drift' = drift \cup {q \in Hit(j) : ~Addressed(j.m, q)}
     /\ SetJob(p, l, [j EXCEPT !.stage = "usr2"])
     /\ UNCHANGED <<uinfo, life, msgfile, book, msg_num, usr2, hnd, cnt, shown,
                    signalled, overtaken, garbage>>

KillUsr2(p, l) ==
  LET j == job[p][l]
  IN /\ Running(p, l) /\ j.stage = "usr2"
     /\ usr2' = [q \in Session |-> usr2[q] \/ q \in Hit(j)]
     /\ signalled' = signalled \cup {<<j.m, q>> : q \in Hit(j)}
     /\ Finish(p, l)
     /\ UNCHANGED <<uinfo, life, msgfile, book, msg_num, ttou, cnt, shown,
                    overtaken, drift, garbage>>

-----------------------------------------------------------------------------
(* count_msg and r_msg                                                      *)

CountMsg(p) ==
  /\ Alive(p) /\ ttou[p]
  /\ ttou' = [ttou EXCEPT ![p] = FALSE]
  /\ msg_num' = [msg_num EXCEPT ![p] = @ + 1]
  /\ drift' = IF hnd[p] = "counted" THEN drift \cup {p} ELSE drift
  /\ UNCHANGED <<uinfo, life, msgfile, book, usr2, hnd, cnt, job, shown,
                 signalled, overtaken, garbage>>

(* Seeded fault: r_msg counts the message as well.                          *)
StartRMsgCounting(p) ==
  /\ AtMenu(p) /\ usr2[p]
  /\ usr2' = [usr2 EXCEPT ![p] = FALSE]
  /\ ttou' = [ttou EXCEPT ![p] = FALSE]
  /\ msg_num' = [msg_num EXCEPT ![p] = IF ttou[p] THEN @ + 2 ELSE @ + 1]
  /\ hnd' = [hnd EXCEPT ![p] = "loop"]
  /\ UNCHANGED <<uinfo, life, msgfile, book, cnt, job, history>>

(* SIGUSR2 is delivered.  SIGTTOU was sent before: if it is pending still,   *)
(* it is delivered with it.                                                 *)
StartRMsg(p) ==
  /\ AtMenu(p) /\ usr2[p]
  /\ usr2' = [usr2 EXCEPT ![p] = FALSE]
  /\ ttou' = [ttou EXCEPT ![p] = FALSE]
  /\ msg_num' = [msg_num EXCEPT ![p] = IF ttou[p] THEN @ + 1 ELSE @]
  /\ hnd' = [hnd EXCEPT ![p] = "loop"]
  /\ UNCHANGED <<uinfo, life, msgfile, book, cnt, job, history>>

(* while (msg_num): i = get_num_records() ...                               *)
TakeCount(p) ==
  /\ Alive(p) /\ hnd[p] = "loop" /\ msg_num[p] > 0
  /\ hnd' = [hnd EXCEPT ![p] = "counted"]
  /\ cnt' = [cnt EXCEPT ![p] = Len(msgfile[Account[p]])]
  /\ UNCHANGED <<uinfo, life, msgfile, book, signals, job, history>>

(* Seeded fault: the line before is the last one read.                      *)
LastReadShort(p) ==
  LET f == msgfile[Account[p]]
      upto == cnt[p] - msg_num[p]
  IN IF msg_num[p] >= cnt[p] THEN {}
     ELSE {f[IF upto <= Len(f) THEN upto ELSE Len(f)]}

(* ... then lines 0 to i - msg_num are read, the last one is shown.          *)
LastRead(p) ==
  LET f == msgfile[Account[p]]
      upto == cnt[p] + 1 - msg_num[p]
  IN IF msg_num[p] > cnt[p] THEN {}
     ELSE {f[IF upto <= Len(f) THEN upto ELSE Len(f)]}

AfterLine(p) == IF p \in GetKey THEN "key" ELSE "loop"

(* Seeded fault: the counter is cleared, not counted down.                   *)
ShowLineAll(p) ==
  /\ Alive(p) /\ hnd[p] = "counted" /\ msgfile[Account[p]] # <<>>
  /\ shown' = [shown EXCEPT ![p] = @ \cup LastRead(p)]
  /\ garbage' = IF LastRead(p) = {} THEN garbage \cup {p} ELSE garbage
  /\ msg_num' = [msg_num EXCEPT ![p] = 0]
  /\ hnd' = [hnd EXCEPT ![p] = AfterLine(p)]
  /\ UNCHANGED <<uinfo, life, msgfile, book, ttou, usr2, cnt, job, signalled,
                 overtaken, drift>>

ShowLine(p) ==
  /\ Alive(p) /\ hnd[p] = "counted" /\ msgfile[Account[p]] # <<>>
  /\ shown' = [shown EXCEPT ![p] = @ \cup LastRead(p)]
  /\ garbage' = IF LastRead(p) = {} THEN garbage \cup {p} ELSE garbage
  /\ msg_num' = [msg_num EXCEPT ![p] = @ - 1]
  /\ hnd' = [hnd EXCEPT ![p] = AfterLine(p)]
  /\ UNCHANGED <<uinfo, life, msgfile, book, ttou, usr2, cnt, job, signalled,
                 overtaken, drift>>

(* The file cannot be opened: r_msg returns, the counter stays.             *)
NoFile(p) ==
  /\ Alive(p) /\ hnd[p] = "counted" /\ msgfile[Account[p]] = <<>>
  /\ hnd' = [hnd EXCEPT ![p] = "none"]
  /\ UNCHANGED <<uinfo, life, msgfile, book, signals, cnt, job, history>>

(* Return is pressed under the message.                                     *)
PressReturn(p) ==
  /\ Alive(p) /\ hnd[p] = "key"
  /\ hnd' = [hnd EXCEPT ![p] = "loop"]
  /\ UNCHANGED <<uinfo, life, msgfile, book, signals, cnt, job, history>>

EndRMsg(p) ==
  /\ Alive(p) /\ hnd[p] = "loop" /\ msg_num[p] = 0
  /\ hnd' = [hnd EXCEPT ![p] = "none"]
  /\ UNCHANGED <<uinfo, life, msgfile, book, signals, cnt, job, history>>

-----------------------------------------------------------------------------
(* What the programs do by themselves ...                                   *)
Handler(p) ==
  CountMsg(p) \/ StartRMsg(p) \/ TakeCount(p) \/ ShowLine(p) \/ NoFile(p) \/ EndRMsg(p)

Sending(p) == \E l \in Level : KillTtou(p, l) \/ KillUsr2(p, l)

(* ... and what users make them do.                                         *)
Choice(p) ==
  \/ Enter(p) \/ Goodbye(p) \/ UExit(p) \/ Exit(p) \/ PressReturn(p)
  \/ \E i \in Slot : Compose(p, i) \/ Wall(p, i)
  \/ \E l \in Level : WriteLine(p, l) \/ GiveUp(p, l)
  \/ \E l \in Level, m \in 1..Len(book) : Answer(p, l, m)

Next == \E p \in Session : Handler(p) \/ Sending(p) \/ Choice(p)

(* Signals are delivered and handlers run on: a process that can run does so *)
(* in the end.  Nothing is assumed of the users.                            *)
Fairness ==
  \A p \in Session :
    /\ WF_vars(CountMsg(p)) /\ WF_vars(StartRMsg(p))
    /\ WF_vars(TakeCount(p)) /\ WF_vars(ShowLine(p)) /\ WF_vars(NoFile(p))
    /\ WF_vars(EndRMsg(p)) /\ WF_vars(Sending(p))

Spec == Init /\ [][Next]_vars /\ Fairness

-----------------------------------------------------------------------------
(* Properties                                                               *)

(* r_msg prints a line it has read, never its uninitialised buffer, unless    *)
(* one of three things happened: a signal for somebody else's message came   *)
(* (the slot had changed hands), the account's file was removed, or          *)
(* count_msg ran between the counting of the lines and their reading.       *)
PrintsWhatItRead == garbage \subseteq drift

AtRest(p) ==
  life[p] = "in" /\ hnd[p] = "none" /\ msg_num[p] = 0 /\ ~ttou[p] /\ ~usr2[p]

(* A session that has worked off its signals has shown every message it was  *)
(* signalled for and that is still in the file, unless the next message to   *)
(* the account was written before that one was shown.                       *)
MissedOnlyWhenOvertaken ==
  \A p \in Session : AtRest(p) =>
    \A m \in ToSet(msgfile[Account[p]]) :
      (<<m, p>> \in signalled /\ Addressed(m, p)) =>
        m \in shown[p] \cup overtaken

(* An answer goes to the account that asked, whoever has taken its slot      *)
(* while the answer was typed.                                              *)
AnswerToAsker ==
  \A k \in 1..Len(book) :
    book[k].re # 0 => book[k].to = Account[book[book[k].re].from]

(* Whatever signals coalesce: the message a session was signalled for is     *)
(* shown, or a later one is in the file, or the file or the session goes;    *)
(* or the user never presses the key that ends the message before.          *)
Obsolete(m, p) ==
  \/ life[p] \in {"goodbye", "left", "gone"}
  \/ m \notin ToSet(msgfile[Account[p]]) \/ Last(msgfile[Account[p]]) # m

NewestShown ==
  \A m \in Msg, p \in Session :
    (<<m, p>> \in signalled /\ Addressed(m, p)) ~>
      (m \in shown[p] \/ Obsolete(m, p) \/ hnd[p] \in {"key", "answer"})
=============================================================================
