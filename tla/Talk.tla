-------------------------------- MODULE Talk --------------------------------
(***************************************************************************)
(* Calling another user for a talk.  The caller opens a listening socket,   *)
(* puts its port and the account he calls into his entry of the list of     *)
(* users, and signals the session he calls, again every 20 seconds.  That   *)
(* session learns from the signal only that somebody calls: it looks for    *)
(* the first entry that names its account, asks the user, connects to the   *)
(* port of that entry and writes a letter.  The caller accepts one          *)
(* connection and reads the letter.                                         *)
(*                                                                         *)
(* Whoever waits for a key writes his uinfo to the list (igetch), so an     *)
(* entry is out of date only while its session blocks in read.  Sessions    *)
(* are numbered by their slots.  A call is a port; ports are not used twice. *)
(***************************************************************************)
EXTENDS Naturals, Sequences

CONSTANTS
  Slots,        \* sessions, in the order of the list of users
  Account,      \* accounts
  Logins,       \* functions that say whose each session may be
  NoAccount,    \* destuid 0
  MaxCalls,     \* bound: ports
  Mortal,       \* sessions that may end
  Backlog       \* connections that wait to be accepted: listen(sock, 1)

Session == 1..Slots
Letter == {"y", "n", "m"}   \* yes, one of the refusals, a reason in words

ASSUME TalkAssumption ==
  /\ Slots \in Nat /\ MaxCalls \in Nat /\ Backlog \in Nat \ {0}
  /\ Logins \subseteq [Session -> Account]
  /\ NoAccount \notin Account /\ Mortal \subseteq Session

VARIABLES
  acct,         \* chosen at the start
  pc,           \* where a session is
  uinfo,        \* its entry: on, ringing (sockactive), port, dest, paging (mode)
  flag,         \* talkrequest
  told,         \* page_requestor is set
  callee,       \* uin of ttt_talk: the session called, or 0
  ui,           \* ui of talkreply: the account and the port of the entry found
  queue,        \* connections to the caller's port that wait for accept
  conn,         \* the one he accepted
  partner,      \* whom talkreply connected to, or 0
  leaked,       \* ports of calls that were left without closing the socket
  calls         \* the last port

vars == <<acct, pc, uinfo, flag, told, callee, ui, queue, conn, partner, leaked, calls>>

NoConn == [from |-> 0, said |-> "nothing"]
NoUi == [acct |-> NoAccount, port |-> 0]
Fresh == [on |-> TRUE, ringing |-> FALSE, port |-> 0, dest |-> NoAccount, paging |-> FALSE]
Gone == [Fresh EXCEPT !.on = FALSE]

TypeOK ==
  /\ acct \in Logins /\ calls \in 0..MaxCalls /\ leaked \in [Session -> SUBSET (1..MaxCalls)]
  /\ pc \in [Session -> {"menu", "sure", "page", "read", "told", "left", "ask",
                         "reason", "talk", "log", "gone"}]
  /\ uinfo \in [Session -> [on : BOOLEAN, ringing : BOOLEAN, port : 0..MaxCalls,
                            dest : Account \cup {NoAccount}, paging : BOOLEAN]]
  /\ flag \in [Session -> BOOLEAN] /\ told \in [Session -> BOOLEAN]
  /\ callee \in [Session -> 0..Slots] /\ partner \in [Session -> 0..Slots]
  /\ ui \in [Session -> [acct : Account \cup {NoAccount}, port : 0..MaxCalls]]
  /\ queue \in [Session -> Seq([from : Session, said : Letter \cup {"nothing"}])]
  /\ conn \in [Session -> [from : 0..Slots, said : Letter \cup {"nothing"}]]
  /\ \A s \in Session : Len(queue[s]) <= Backlog /\ (queue[s] # <<>> => pc[s] = "page")

Init ==
  /\ acct \in Logins
  /\ pc = [s \in Session |-> "menu"]
  /\ uinfo = [s \in Session |-> Fresh]
  /\ flag = [s \in Session |-> FALSE] /\ told = [s \in Session |-> FALSE]
  /\ callee = [s \in Session |-> 0] /\ partner = [s \in Session |-> 0]
  /\ ui = [s \in Session |-> NoUi]
  /\ queue = [s \in Session |-> <<>>] /\ conn = [s \in Session |-> NoConn]
  /\ leaked = [s \in Session |-> {}] /\ calls = 0

-----------------------------------------------------------------------------
Alive(s) == pc[s] # "gone"

Goto(s, label) == pc' = [pc EXCEPT ![s] = label]

(* uinfo is changed, and seen by others when the session waits for a key.    *)
Publish(s, u) == uinfo' = [uinfo EXCEPT ![s] = u]

(* kill(pid, SIGUSR1)                                                        *)
Signal(t) == flag' = [flag EXCEPT ![t] = flag[t] \/ Alive(t)]

(* search_ulist with cmpunums: the first entry that names the account of t.  *)
Named(t) == {s \in Session : uinfo[s].on /\ uinfo[s].dest = acct[t]}

First(t) == IF Named(t) = {} THEN 0
            ELSE CHOOSE s \in Named(t) : \A q \in Named(t) : s <= q

(* Seeded fault: setpagerequest(1), for sockets that no session opens.       *)
FoundForMessage(t) == FALSE

(* setpagerequest: that entry must have its socket open.                     *)
Found(t) == First(t) # 0 /\ uinfo[First(t)].ringing

(* Who waits on a port, and whether a socket is left there that nobody minds. *)
Listeners(p) == {s \in Session : pc[s] = "page" /\ uinfo[s].port = p}

Left(p) == \E s \in Session : p \in leaked[s]

(* The connection that t has with s is not closed on the side of s.          *)
Joined(s, t) ==
  /\ pc[t] = "talk" /\ partner[t] = s
  /\ \/ pc[s] \in {"read", "talk"} /\ conn[s] = [from |-> t, said |-> "y"]
     \/ \E k \in 1..Len(queue[s]) : queue[s][k] = [from |-> t, said |-> "y"]

-----------------------------------------------------------------------------
(* The caller: ttt_talk                                                      *)

(* egetch answers a request before it returns the key of a command.          *)
Choose(s, t) ==
  /\ pc[s] = "menu" /\ ~flag[s] /\ calls < MaxCalls /\ acct[t] # acct[s]
  /\ uinfo[t].on /\ ~uinfo[t].paging /\ Alive(t)
  /\ callee' = [callee EXCEPT ![s] = t]
  /\ Goto(s, "sure")
  /\ UNCHANGED <<acct, uinfo, flag, told, ui, queue, conn, partner, leaked, calls>>

ThinksBetter(s) ==
  /\ pc[s] = "sure"
  /\ Goto(s, "menu")
  /\ callee' = [callee EXCEPT ![s] = 0]
  /\ UNCHANGED <<acct, uinfo, flag, told, ui, queue, conn, partner, leaked, calls>>

Ring(s) ==
  /\ pc[s] = "sure" /\ calls < MaxCalls
  /\ calls' = calls + 1
  /\ Publish(s, [on |-> TRUE, ringing |-> TRUE, port |-> calls + 1,
                 dest |-> acct[callee[s]], paging |-> TRUE])
  /\ Signal(callee[s])
  /\ Goto(s, "page")
  /\ UNCHANGED <<acct, told, callee, ui, queue, conn, partner, leaked>>

(* Seeded fault: the bell rings for the caller only.                         *)
RingAgainHere(s) == pc[s] = "page" /\ UNCHANGED vars

(* I_TIMEOUT                                                                 *)
RingAgain(s) ==
  /\ pc[s] = "page" /\ Alive(callee[s])
  /\ Signal(callee[s])
  /\ UNCHANGED <<acct, pc, uinfo, told, callee, ui, queue, conn, partner, leaked, calls>>

(* Back in the menu: sockactive and destuid are cleared, the mode is no longer *)
(* PAGE; the port stays in the entry, but is read with sockactive only.      *)
BackFromCall(s) ==
  /\ Goto(s, "menu")
  /\ Publish(s, Fresh)
  /\ callee' = [callee EXCEPT ![s] = 0]
  /\ conn' = [conn EXCEPT ![s] = NoConn]

(* Connections that were not accepted are reset.                             *)
CloseSocket(s) == queue' = [queue EXCEPT ![s] = <<>>]

(* Ctrl-D                                                                    *)
HangUp(s) ==
  /\ pc[s] = "page"
  /\ BackFromCall(s)
  /\ CloseSocket(s)
  /\ UNCHANGED <<acct, flag, told, ui, partner, leaked, calls>>

(* The next ring finds the session called gone; the socket is not closed.     *)
CalleeGone(s) ==
  /\ pc[s] = "page" /\ ~Alive(callee[s])
  /\ BackFromCall(s)
  /\ leaked' = [leaked EXCEPT ![s] = @ \cup {uinfo[s].port}]
  /\ queue' = [queue EXCEPT ![s] = <<>>]
  /\ UNCHANGED <<acct, flag, told, ui, partner, calls>>

(* The entry goes on saying that the socket is open.                         *)
Accept(s) ==
  /\ pc[s] = "page" /\ queue[s] # <<>>
  /\ conn' = [conn EXCEPT ![s] = Head(queue[s])]
  /\ CloseSocket(s)
  /\ Goto(s, "read")
  /\ UNCHANGED <<acct, uinfo, flag, told, callee, ui, partner, leaked, calls>>

(* read fills c, or finds the connection closed and leaves c as it was.       *)
Heard(s) ==
  IF conn[s].said # "nothing" THEN {conn[s].said}
  ELSE IF pc[conn[s].from] = "reason" THEN {} ELSE Letter

ReadLetter(s, c) ==
  /\ pc[s] = "read" /\ c \in Heard(s)
  /\ Goto(s, IF c = "y" THEN "talk" ELSE IF c = "n" THEN "told" ELSE "left")
  /\ Publish(s, [uinfo[s] EXCEPT !.ringing = FALSE, !.port = 0, !.paging = (c # "y")])
  /\ UNCHANGED <<acct, flag, told, callee, ui, queue, conn, partner, leaked, calls>>

(* After a refusal pressreturn is the end; a reason falls through to do_talk. *)
PressReturn(s) ==
  \/ /\ pc[s] = "told"
     /\ BackFromCall(s)
     /\ UNCHANGED <<acct, flag, told, ui, queue, partner, leaked, calls>>
  \/ /\ pc[s] = "left"
     /\ Goto(s, "talk") /\ Publish(s, [uinfo[s] EXCEPT !.paging = FALSE])
     /\ UNCHANGED <<acct, flag, told, callee, ui, queue, conn, partner, leaked, calls>>

-----------------------------------------------------------------------------
(* The session called: talk_request, and talkreply when it waits for a key   *)

TalkReplyIgnores(t) ==
  /\ pc[t] = "menu" /\ flag[t] /\ ~Found(t)
  /\ flag' = [flag EXCEPT ![t] = FALSE]
  /\ UNCHANGED <<acct, pc, uinfo, told, callee, ui, queue, conn, partner, leaked, calls>>

(* Seeded fault: ui goes on being filled after the name was copied.          *)
UiOfLast(t, f) ==
  [acct |-> acct[f], port |-> uinfo[CHOOSE s \in Named(t) : \A q \in Named(t) : q <= s].port]

UiOf(t, f) == [acct |-> acct[f], port |-> uinfo[f].port]

TalkReplyAsks(t) ==
  /\ pc[t] = "menu" /\ flag[t] /\ Found(t)
  /\ flag' = [flag EXCEPT ![t] = FALSE] /\ told' = [told EXCEPT ![t] = FALSE]
  /\ ui' = [ui EXCEPT ![t] = UiOf(t, First(t))]
  /\ Publish(t, [uinfo[t] EXCEPT !.dest = acct[First(t)]])
  /\ Goto(t, "ask")
  /\ UNCHANGED <<acct, callee, queue, conn, partner, leaked, calls>>

(* The user has answered; connect and, unless he will give a reason, write.  *)
Answer(t, c) ==
  \E s \in Listeners(ui[t].port) :
    /\ pc[t] = "ask" /\ Len(queue[s]) < Backlog
    /\ queue' = [queue EXCEPT ![s] =
         Append(queue[s], [from |-> t, said |-> IF c = "m" THEN "nothing" ELSE c])]
    /\ partner' = [partner EXCEPT ![t] = IF c = "n" THEN 0 ELSE s]
    /\ Goto(t, IF c = "y" THEN "talk" ELSE IF c = "n" THEN "menu" ELSE "reason")
    /\ ui' = [ui EXCEPT ![t] = IF c = "y" THEN ui[t] ELSE NoUi]
    /\ UNCHANGED <<acct, uinfo, flag, told, callee, conn, leaked, calls>>

ConnectFails(t) ==
  /\ pc[t] = "ask" /\ Listeners(ui[t].port) = {} /\ ~Left(ui[t].port)
  /\ Goto(t, "menu") /\ ui' = [ui EXCEPT ![t] = NoUi]
  /\ UNCHANGED <<acct, uinfo, flag, told, callee, queue, conn, partner, leaked, calls>>

(* A connection to a socket that was left open: nobody will read the letter,  *)
(* nor close it.                                                            *)
AnswerNobody(t, c) ==
  /\ pc[t] = "ask" /\ Left(ui[t].port)
  /\ ui' = [ui EXCEPT ![t] = IF c = "y" THEN ui[t] ELSE NoUi]
  /\ Goto(t, IF c = "y" THEN "talk" ELSE IF c = "n" THEN "menu" ELSE "reason")
  /\ UNCHANGED <<acct, uinfo, flag, told, callee, queue, conn, partner, leaked, calls>>

(* The letter m goes out only now, with the reason; the connection may have   *)
(* been reset before.                                                       *)
Said(k, t) == IF k.from = t /\ k.said = "nothing" THEN [k EXCEPT !.said = "m"] ELSE k

Reason(t) ==
  /\ pc[t] = "reason"
  /\ queue' = [s \in Session |-> [k \in 1..Len(queue[s]) |-> Said(queue[s][k], t)]]
  /\ conn' = [s \in Session |-> Said(conn[s], t)]
  /\ partner' = [partner EXCEPT ![t] = 0]
  /\ Goto(t, "menu")
  /\ UNCHANGED <<acct, uinfo, flag, told, callee, ui, leaked, calls>>

-----------------------------------------------------------------------------
(* do_talk                                                                   *)

(* servicepage: the request is forgotten unless the first entry rings.       *)
ServicePage(t) ==
  /\ pc[t] = "talk" /\ flag[t]
  /\ \/ /\ ~Found(t)
        /\ flag' = [flag EXCEPT ![t] = FALSE] /\ told' = [told EXCEPT ![t] = FALSE]
        /\ UNCHANGED uinfo
     \/ /\ Found(t) /\ ~told[t]
        /\ told' = [told EXCEPT ![t] = TRUE]
        /\ Publish(t, [uinfo[t] EXCEPT !.dest = acct[First(t)]])
        /\ UNCHANGED flag
  /\ UNCHANGED <<acct, pc, callee, ui, queue, conn, partner, leaked, calls>>

(* Ctrl-D, or the other end has closed; then the log of the talk is offered,  *)
(* in the mode the session was in before, which for the caller is PAGE.      *)
EndTalk(s) ==
  /\ pc[s] = "talk"
  /\ Goto(s, "log")
  /\ Publish(s, [uinfo[s] EXCEPT !.paging = (callee[s] # 0)])
  /\ partner' = [partner EXCEPT ![s] = 0]
  /\ conn' = [conn EXCEPT ![s] = NoConn] /\ ui' = [ui EXCEPT ![s] = NoUi]
  /\ UNCHANGED <<acct, flag, told, callee, queue, leaked, calls>>

(* ttt_talk clears destuid, talkreply does not.                              *)
LogDone(s) ==
  /\ pc[s] = "log"
  /\ IF callee[s] # 0 THEN BackFromCall(s)
     ELSE Goto(s, "menu") /\ UNCHANGED <<uinfo, callee, conn>>
  /\ UNCHANGED <<acct, flag, told, ui, queue, partner, leaked, calls>>

-----------------------------------------------------------------------------
(* A session ends, in order (u_exit) or killed, which leaves its entry until  *)
(* some login purges it.                                                    *)
End(s) ==
  /\ Goto(s, "gone")
  /\ callee' = [callee EXCEPT ![s] = 0] /\ partner' = [partner EXCEPT ![s] = 0]
  /\ conn' = [conn EXCEPT ![s] = NoConn] /\ queue' = [queue EXCEPT ![s] = <<>>]
  /\ ui' = [ui EXCEPT ![s] = NoUi] /\ leaked' = [leaked EXCEPT ![s] = {}]
  /\ flag' = [flag EXCEPT ![s] = FALSE] /\ told' = [told EXCEPT ![s] = FALSE]
  /\ UNCHANGED <<acct, calls>>

Leave(s) == s \in Mortal /\ Alive(s) /\ End(s) /\ Publish(s, Gone)

Killed(s) == s \in Mortal /\ Alive(s) /\ End(s) /\ UNCHANGED uinfo

Purge(s) ==
  /\ ~Alive(s) /\ uinfo[s].on
  /\ Publish(s, Gone)
  /\ UNCHANGED <<acct, pc, flag, told, callee, ui, queue, conn, partner, leaked, calls>>

Step(s) ==
  \/ \E t \in Session : Choose(s, t)
  \/ ThinksBetter(s) \/ Ring(s) \/ RingAgain(s) \/ HangUp(s) \/ CalleeGone(s)
  \/ Accept(s)
  \/ \E c \in Letter : ReadLetter(s, c) \/ Answer(s, c) \/ AnswerNobody(s, c)
  \/ PressReturn(s) \/ TalkReplyIgnores(s) \/ TalkReplyAsks(s) \/ ConnectFails(s)
  \/ Reason(s) \/ ServicePage(s) \/ EndTalk(s) \/ LogDone(s)
  \/ Leave(s) \/ Killed(s) \/ Purge(s)

Next == \E s \in Session : Step(s)

(* What the program does by itself, with keys pressed now and then: egetch    *)
(* answers requests, do_talk looks for them, the caller accepts and reads.   *)
ByItself(s) ==
  \/ Accept(s) \/ \E c \in Letter : ReadLetter(s, c)
  \/ TalkReplyIgnores(s) \/ TalkReplyAsks(s) \/ ServicePage(s)

(* What is assumed of users: who is asked answers, and every talk ends.      *)
InTheEnd(s) ==
  \/ ThinksBetter(s) \/ PressReturn(s) \/ ConnectFails(s)
  \/ (\E c \in Letter : Answer(s, c) \/ AnswerNobody(s, c)) \/ Reason(s) \/ EndTalk(s) \/ LogDone(s)

Fairness ==
  \A s \in Session : WF_vars(ByItself(s)) /\ WF_vars(InTheEnd(s)) /\ WF_vars(RingAgain(s))

Spec == Init /\ [][Next]_vars /\ Fairness

-----------------------------------------------------------------------------
(* Properties                                                               *)

(* A letter comes from a session of the account that was called, and two who  *)
(* talk with each other are shown each other's names: the caller the one he  *)
(* called, the other the one in the entry he found.                         *)
RightPartner ==
  \A s, t \in Session :
    /\ conn[s].from = t => acct[t] = acct[callee[s]]
    /\ Joined(s, t) => ui[t].acct = acct[s]

(* The first entry that names t is not that of a caller who waits.            *)
Shadowed(t) == First(t) # 0 /\ pc[First(t)] # "page"

(* Who waits is asked for, stops waiting, or calls somebody who is gone or    *)
(* waits himself; unless an earlier entry of the list names the same account. *)
Asked(s) == \E q \in Session : pc[q] = "ask" /\ ui[q].port = uinfo[s].port

CallIsAsked ==
  \A s \in Session :
    (pc[s] = "page") ~>
      (pc[s] = "page" => \/ pc[callee[s]] \in {"page", "gone"} \/ Shadowed(callee[s])
                        \/ Asked(s))

(* A request is dropped without asking only when nobody waits for that        *)
(* account, or another entry hides the one who does.                        *)
DroppedWithReason ==
  [][\A t \in Session :
       (flag[t] /\ ~flag'[t] /\ pc'[t] \notin {"ask", "gone"}) =>
         \/ \A s \in Session : pc[s] = "page" => acct[callee[s]] # acct[t]
         \/ Shadowed(t)]_vars
=============================================================================
