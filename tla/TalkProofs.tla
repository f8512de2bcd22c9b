----------------------------- MODULE TalkProofs ------------------------------
(***************************************************************************)
(* Calls between users, for any number of sessions, ports and connections   *)
(* that wait: a letter comes from the account that was called, and who talks *)
(* sees the name of the one he talks with.  An entry may be out of date (a   *)
(* killed session's), but it cannot be mistaken for another call, because    *)
(* a port belongs to one call.                                              *)
(***************************************************************************)
EXTENDS Talk, WellFoundedInduction, TLAPS

(* A port is in one entry, and was given out.                               *)
PortsDiffer ==
  /\ \A s, q \in Session :
       s # q /\ uinfo[s].port # 0 => uinfo[s].port # uinfo[q].port
  /\ \A s \in Session : uinfo[s].port <= calls /\ ui[s].port <= calls
  /\ \A s \in Session : uinfo[s].ringing => uinfo[s].port # 0

(* Who waits has his call in his entry, for all to see.                     *)
EntryOfCaller ==
  /\ \A s \in Session : pc[s] = "sure" => callee[s] # 0
  /\ \A s \in Session : pc[s] = "page" =>
       /\ callee[s] # 0 /\ uinfo[s].port # 0 /\ uinfo[s].dest = acct[callee[s]]
       /\ uinfo[s].on /\ uinfo[s].ringing

(* The port that the session called has noted, if somebody waits there, is   *)
(* that of a call to its account, by the user whose name it has noted.       *)
NotedCall ==
  \A s, t \in Session :
    pc[s] = "page" /\ uinfo[s].port = ui[t].port =>
      acct[callee[s]] = acct[t] /\ ui[t].acct = acct[s]

(* What is connected to whom.                                               *)
ConnectedTo ==
  \A t \in Session : partner[t] # 0 =>
    /\ pc[t] \in {"talk", "reason"}
    /\ pc[t] = "talk" => ui[t].acct = acct[partner[t]]

Connections ==
  /\ \A s \in Session : \A k \in 1..Len(queue[s]) :
       acct[queue[s][k].from] = acct[callee[s]]
  /\ \A s \in Session : conn[s].from # 0 =>
       /\ pc[s] \in {"read", "told", "left", "talk"}
       /\ acct[conn[s].from] = acct[callee[s]]

IInv == TypeOK /\ PortsDiffer /\ EntryOfCaller /\ NotedCall /\ ConnectedTo /\ Connections

USE DEF Session

(* Type correctness, variable by variable.                                   *)
Entry == [on : BOOLEAN, ringing : BOOLEAN, port : 0..MaxCalls,
          dest : Account \cup {NoAccount}, paging : BOOLEAN]
Label == {"menu", "sure", "page", "read", "told", "left", "ask", "reason", "talk",
          "log", "gone"}
Connection == [from : Session, said : Letter \cup {"nothing"}]

TypeFixed == acct \in Logins /\ calls \in 0..MaxCalls
TypePc == pc \in [Session -> Label]
TypeFlags == flag \in [Session -> BOOLEAN] /\ told \in [Session -> BOOLEAN]
TypeCalls ==
  /\ callee \in [Session -> 0..Slots] /\ partner \in [Session -> 0..Slots]
  /\ leaked \in [Session -> SUBSET (1..MaxCalls)]
TypeEntry == uinfo \in [Session -> Entry]
TypeUi == ui \in [Session -> [acct : Account \cup {NoAccount}, port : 0..MaxCalls]]
TypeQueue == queue \in [Session -> Seq(Connection)]
TypeConn == conn \in [Session -> [from : 0..Slots, said : Letter \cup {"nothing"}]]
Waiting ==
  \A s \in Session : Len(queue[s]) <= Backlog /\ (queue[s] # <<>> => pc[s] = "page")

LEMMA TypeParts ==
  TypeOK <=> /\ TypeFixed /\ TypePc /\ TypeFlags /\ TypeCalls /\ TypeEntry
             /\ TypeUi /\ TypeQueue /\ TypeConn /\ Waiting
BY DEF TypeOK, TypeFixed, TypePc, TypeFlags, TypeCalls, TypeEntry, TypeUi, TypeQueue,
       TypeConn, Waiting, Entry, Label, Connection

LEMMA Names == TypeFixed => \A s \in Session : acct[s] \in Account
BY TalkAssumption DEF TypeFixed

(* A set of numbers has a smallest member.                                   *)
Below == {r \in Nat \X Nat : r[1] < r[2]}
LEMMA Smallest ==
  ASSUME NEW T \in SUBSET Nat, T # {}
  PROVE  \E m \in T : \A q \in T : m <= q
<1>1. IsWellFoundedOn(OpToRel(<, Nat), Nat)
  BY NatLessThanWellFounded
<1>2. Below \cap (Nat \X Nat) \subseteq OpToRel(<, Nat)
  BY DEF OpToRel, Below
<1>3. IsWellFoundedOn(Below, Nat)
  BY <1>1, <1>2, IsWellFoundedOnSubrelation
<1>4. \E x \in T : \A y \in T : ~ (<<y, x>> \in Below)
  BY <1>3, WFMin
<1>5. \A x, y \in T : y < x => <<y, x>> \in Below
  BY DEF Below
<1>6. PICK x \in T : \A y \in T : ~ (<<y, x>> \in Below)
  BY <1>4
<1>7. \A y \in T : ~ (y < x)
  BY <1>5, <1>6
<1> QED
  BY <1>7

(* The entry that search_ulist finds names the account.                      *)
LEMMA FirstNamed ==
  ASSUME NEW t \in Session, First(t) # 0
  PROVE  First(t) \in Session /\ uinfo[First(t)].on /\ uinfo[First(t)].dest = acct[t]
<1>1. Named(t) # {} /\ First(t) = CHOOSE s \in Named(t) : \A q \in Named(t) : s <= q
  BY DEF First
<1>2. Named(t) \in SUBSET Nat
  BY DEF Named
<1>3. \E s \in Named(t) : \A q \in Named(t) : s <= q
  BY <1>1, <1>2, Smallest
<1> QED
  BY <1>1, <1>3 DEF Named

(* A letter that is sent later is a letter.                                  *)
LEMMA SaidType ==
  ASSUME NEW S, NEW t \in Session, NEW k \in [from : S, said : Letter \cup {"nothing"}]
  PROVE  /\ Said(k, t) \in [from : S, said : Letter \cup {"nothing"}]
         /\ Said(k, t).from = k.from
BY DEF Said, Letter

LEMMA StepFixed ==
  ASSUME TypeFixed, NEW s \in Session, Step(s)
  PROVE  TypeFixed'
<1>1. CASE (\E t \in Session : Choose(s, t)) \/ ThinksBetter(s) \/ RingAgain(s) \/
          HangUp(s) \/ CalleeGone(s) \/ Accept(s) \/
          (\E c \in Letter : ReadLetter(s, c)) \/ (\E c \in Letter : Answer(s, c)) \/
          (\E c \in Letter : AnswerNobody(s, c)) \/ PressReturn(s) \/
          TalkReplyIgnores(s) \/ TalkReplyAsks(s) \/ ConnectFails(s) \/ Reason(s) \/
          ServicePage(s) \/ EndTalk(s) \/ LogDone(s) \/ Leave(s) \/ Killed(s) \/
          Purge(s)
  BY <1>1 DEF Accept, Answer, AnswerNobody, BackFromCall, CalleeGone, Choose,
       CloseSocket, ConnectFails, End, EndTalk, HangUp, Killed, Leave, LogDone,
       PressReturn, Purge, ReadLetter, Reason, RingAgain, ServicePage, Signal,
       TalkReplyAsks, TalkReplyIgnores, ThinksBetter, TypeFixed
<1>2. CASE Ring(s)
  BY <1>2, TalkAssumption DEF Ring, Signal, TypeFixed
<1> QED
  BY <1>1, <1>2 DEF Step

LEMMA StepPc ==
  ASSUME TypePc, NEW s \in Session, Step(s)
  PROVE  TypePc'
<1>1. CASE (\E t \in Session : Choose(s, t)) \/ ThinksBetter(s) \/ Ring(s) \/
          RingAgain(s) \/ HangUp(s) \/ CalleeGone(s) \/ Accept(s) \/
          TalkReplyIgnores(s) \/ TalkReplyAsks(s) \/ ConnectFails(s) \/ Reason(s) \/
          ServicePage(s) \/ EndTalk(s) \/ LogDone(s) \/ Leave(s) \/ Killed(s) \/
          Purge(s)
  BY <1>1 DEF Accept, BackFromCall, CalleeGone, Choose, CloseSocket, ConnectFails,
       End, EndTalk, HangUp, Killed, Leave, LogDone, Purge, Reason, Ring, RingAgain,
       ServicePage, Signal, TalkReplyAsks, TalkReplyIgnores, ThinksBetter, TypePc,
       Goto, Label, Letter
<1>2. ASSUME NEW c \in Letter, ReadLetter(s, c)
      PROVE  TypePc'
  BY <1>2, TalkAssumption DEF ReadLetter, TypePc, Goto, Label, Letter
<1>3. CASE PressReturn(s)
  BY <1>3, TalkAssumption DEF PressReturn, BackFromCall, TypePc, Goto, Label, Letter
<1>4. ASSUME NEW c \in Letter, Answer(s, c)
      PROVE  TypePc'
  BY <1>4, TalkAssumption DEF Answer, TypePc, Goto, Label, Letter
<1>5. ASSUME NEW c \in Letter, AnswerNobody(s, c)
      PROVE  TypePc'
  BY <1>5, TalkAssumption DEF AnswerNobody, TypePc, Goto, Label, Letter
<1> QED
  BY <1>1, <1>2, <1>3, <1>4, <1>5 DEF Step

LEMMA StepFlags ==
  ASSUME TypeFlags, NEW s \in Session, Step(s)
  PROVE  TypeFlags'
<1>1. CASE (\E t \in Session : Choose(s, t)) \/ ThinksBetter(s) \/ HangUp(s) \/
          CalleeGone(s) \/ Accept(s) \/ (\E c \in Letter : ReadLetter(s, c)) \/
          (\E c \in Letter : Answer(s, c)) \/ (\E c \in Letter : AnswerNobody(s, c))
          \/ PressReturn(s) \/ ConnectFails(s) \/ Reason(s) \/ EndTalk(s) \/
          LogDone(s) \/ Purge(s)
  BY <1>1 DEF Accept, Answer, AnswerNobody, BackFromCall, CalleeGone, Choose,
       CloseSocket, ConnectFails, EndTalk, HangUp, LogDone, PressReturn, Purge,
       ReadLetter, Reason, ThinksBetter, TypeFlags
<1>2. CASE Ring(s)
  BY <1>2, TalkAssumption DEF Ring, Signal, TypeFlags
<1>3. CASE RingAgain(s)
  BY <1>3, TalkAssumption DEF RingAgain, Signal, TypeFlags
<1>4. CASE TalkReplyIgnores(s)
  BY <1>4, TalkAssumption DEF TalkReplyIgnores, TypeFlags
<1>5. CASE TalkReplyAsks(s)
  BY <1>5, TalkAssumption DEF TalkReplyAsks, TypeFlags
<1>6. CASE ServicePage(s)
  BY <1>6, TalkAssumption DEF ServicePage, TypeFlags
<1>7. CASE Leave(s)
  BY <1>7, TalkAssumption DEF Leave, End, TypeFlags
<1>8. CASE Killed(s)
  BY <1>8, TalkAssumption DEF Killed, End, TypeFlags
<1> QED
  BY <1>1, <1>2, <1>3, <1>4, <1>5, <1>6, <1>7, <1>8 DEF Step

LEMMA StepCalls ==
  ASSUME IInv, NEW s \in Session, Step(s)
  PROVE  TypeCalls'
<1>0. TypeCalls /\ TypeEntry /\ EntryOfCaller
  BY TypeParts DEF IInv
<1>1. CASE RingAgain(s) \/ Accept(s) \/ (\E c \in Letter : ReadLetter(s, c)) \/
          (\E c \in Letter : AnswerNobody(s, c)) \/ TalkReplyIgnores(s) \/
          TalkReplyAsks(s) \/ ConnectFails(s) \/ ServicePage(s) \/ Purge(s)
  BY <1>1, <1>0 DEF Accept, AnswerNobody, CloseSocket, ConnectFails, Purge,
       ReadLetter, RingAgain, ServicePage, Signal, TalkReplyAsks, TalkReplyIgnores,
       TypeCalls
<1>2. ASSUME NEW t \in Session, Choose(s, t)
      PROVE  TypeCalls'
  BY <1>2, <1>0, TalkAssumption DEF Choose, TypeCalls
<1>3. CASE ThinksBetter(s)
  BY <1>3, <1>0, TalkAssumption DEF ThinksBetter, TypeCalls
<1>4. CASE Ring(s)
  BY <1>4, <1>0, TalkAssumption DEF Ring, Signal, TypeCalls
<1>5. CASE HangUp(s)
  BY <1>5, <1>0, TalkAssumption DEF HangUp, BackFromCall, CloseSocket, TypeCalls
<1>6. CASE CalleeGone(s)
  <2>1. uinfo[s].port \in 0..MaxCalls /\ uinfo[s].port # 0
    BY <1>6, <1>0 DEF CalleeGone, TypeEntry, Entry, EntryOfCaller
  <2> QED
    BY <1>6, <2>1, <1>0, TalkAssumption DEF CalleeGone, BackFromCall, TypeCalls
<1>7. CASE PressReturn(s)
  BY <1>7, <1>0, TalkAssumption DEF PressReturn, BackFromCall, TypeCalls
<1>8. ASSUME NEW c \in Letter, Answer(s, c)
      PROVE  TypeCalls'
  <2>1. PICK q \in Session : partner' = [partner EXCEPT ![s] = IF c = "n" THEN 0 ELSE q]
    BY <1>8 DEF Answer, Listeners
  <2> QED
    BY <1>8, <2>1, <1>0, TalkAssumption DEF Answer, TypeCalls
<1>9. CASE Reason(s)
  BY <1>9, <1>0, TalkAssumption DEF Reason, TypeCalls
<1>10. CASE EndTalk(s)
  BY <1>10, <1>0, TalkAssumption DEF EndTalk, TypeCalls
<1>11. CASE LogDone(s)
  <2>1. callee' = callee \/ callee' = [callee EXCEPT ![s] = 0]
    BY <1>11 DEF LogDone, BackFromCall
  <2>2. UNCHANGED <<partner, leaked>> /\ 0 \in 0..Slots
    BY <1>11, TalkAssumption DEF LogDone
  <2> QED
    BY <2>1, <2>2, <1>0 DEF TypeCalls
<1>12. CASE Leave(s)
  BY <1>12, <1>0, TalkAssumption DEF Leave, End, TypeCalls
<1>13. CASE Killed(s)
  BY <1>13, <1>0, TalkAssumption DEF Killed, End, TypeCalls
<1> QED
  BY <1>1, <1>2, <1>3, <1>4, <1>5, <1>6, <1>7, <1>8, <1>9, <1>10, <1>11, <1>12, <1>13
     DEF Step

LEMMA EntryWritten ==
  ASSUME TypeEntry, NEW s \in Session, NEW u \in Entry, Publish(s, u)
  PROVE  TypeEntry'
BY DEF TypeEntry, Publish

LEMMA Entries ==
  /\ Fresh \in Entry /\ Gone \in Entry
  /\ \A u \in Entry, b \in BOOLEAN : [u EXCEPT !.paging = b] \in Entry
  /\ \A u \in Entry, a \in Account : [u EXCEPT !.dest = a] \in Entry
  /\ \A u \in Entry, b \in BOOLEAN :
       [u EXCEPT !.ringing = FALSE, !.port = 0, !.paging = b] \in Entry
<1>1. Fresh \in Entry /\ Gone \in Entry
  <2>1. 0 \in 0..MaxCalls
    BY TalkAssumption
  <2>2. Fresh \in Entry
    BY <2>1 DEF Entry, Fresh
  <2> QED
    BY <2>2 DEF Entry, Gone
<1>2. ASSUME NEW u \in Entry, NEW b \in BOOLEAN
      PROVE  [u EXCEPT !.paging = b] \in Entry
  BY DEF Entry
<1>3. ASSUME NEW u \in Entry, NEW a \in Account
      PROVE  [u EXCEPT !.dest = a] \in Entry
  BY DEF Entry
<1>4. ASSUME NEW u \in Entry, NEW b \in BOOLEAN
      PROVE  [u EXCEPT !.ringing = FALSE, !.port = 0, !.paging = b] \in Entry
  <2>1. [u EXCEPT !.ringing = FALSE, !.port = 0, !.paging = b]
          = [[[u EXCEPT !.ringing = FALSE] EXCEPT !.port = 0] EXCEPT !.paging = b]
    OBVIOUS
  <2>2. 0 \in 0..MaxCalls
    BY TalkAssumption
  <2>3. [u EXCEPT !.ringing = FALSE] \in Entry
    BY DEF Entry
  <2>4. [[u EXCEPT !.ringing = FALSE] EXCEPT !.port = 0] \in Entry
    BY <2>2, <2>3 DEF Entry
  <2> QED
    BY <2>1, <2>4, <1>2
<1> QED
  BY <1>1, <1>2, <1>3, <1>4

LEMMA StepEntry ==
  ASSUME IInv, NEW s \in Session, Step(s)
  PROVE  TypeEntry'
<1>0. TypeEntry /\ TypeFixed /\ TypeCalls /\ EntryOfCaller
  BY TypeParts DEF IInv
<1>1. CASE (\E t \in Session : Choose(s, t)) \/ ThinksBetter(s) \/ RingAgain(s) \/
          Accept(s) \/ (\E c \in Letter : Answer(s, c)) \/
          (\E c \in Letter : AnswerNobody(s, c)) \/ TalkReplyIgnores(s) \/
          ConnectFails(s) \/ Reason(s) \/ Killed(s)
  BY <1>1, <1>0 DEF Accept, Answer, AnswerNobody, Choose, CloseSocket, ConnectFails,
       End, Killed, Reason, RingAgain, Signal, TalkReplyIgnores, ThinksBetter,
       TypeEntry
<1>2. CASE Ring(s)
  <2>1. callee[s] \in Session
    BY <1>2, <1>0, TalkAssumption DEF Ring, TypeCalls, EntryOfCaller
  <2>2. acct[callee[s]] \in Account /\ calls + 1 \in 0..MaxCalls
    BY <1>2, <1>0, <2>1, Names, TalkAssumption DEF Ring, TypeFixed
  <2>3. [on |-> TRUE, ringing |-> TRUE, port |-> calls + 1, dest |-> acct[callee[s]],
         paging |-> TRUE] \in Entry
    BY <2>2 DEF Entry
  <2> QED
    BY <1>2, <1>0, <2>3, EntryWritten DEF Ring
<1>3. CASE HangUp(s)
  BY <1>3, <1>0, Entries, EntryWritten DEF HangUp, BackFromCall, CloseSocket,
     TypeEntry
<1>4. CASE CalleeGone(s)
  BY <1>4, <1>0, Entries, EntryWritten DEF CalleeGone, BackFromCall, TypeEntry
<1>5. ASSUME NEW c \in Letter, ReadLetter(s, c)
      PROVE  TypeEntry'
  <2>1. [uinfo[s] EXCEPT !.ringing = FALSE, !.port = 0, !.paging = (c # "y")] \in Entry
    BY <1>0, <1>5, Entries DEF TypeEntry
  <2> QED
    BY <1>5, <1>0, <2>1, EntryWritten DEF ReadLetter
<1>6. CASE PressReturn(s)
  <2>1. [uinfo[s] EXCEPT !.paging = FALSE] \in Entry /\ Fresh \in Entry
    BY <1>0, Entries DEF TypeEntry
  <2> QED
    BY <1>6, <1>0, <2>1, EntryWritten DEF PressReturn, BackFromCall
<1>7. CASE TalkReplyAsks(s)
  <2>1. [uinfo[s] EXCEPT !.dest = acct[First(s)]] \in Entry
    BY <1>7, <1>0, Entries, Names, FirstNamed DEF TalkReplyAsks, Found, TypeEntry
  <2> QED
    BY <1>7, <1>0, <2>1, EntryWritten DEF TalkReplyAsks
<1>8. CASE ServicePage(s)
  <2>1. CASE Found(s)
    <3>1. [uinfo[s] EXCEPT !.dest = acct[First(s)]] \in Entry
      BY <2>1, <1>0, Entries, Names, FirstNamed DEF Found, TypeEntry
    <3> QED
      BY <1>8, <1>0, <2>1, <3>1, EntryWritten DEF ServicePage
  <2>2. CASE ~Found(s)
    BY <1>8, <1>0, <2>2 DEF ServicePage, TypeEntry
  <2> QED
    BY <2>1, <2>2
<1>9. CASE EndTalk(s)
  <2>1. [uinfo[s] EXCEPT !.paging = (callee[s] # 0)] \in Entry
    BY <1>0, <1>9, Entries DEF TypeEntry
  <2> QED
    BY <1>9, <1>0, <2>1, EntryWritten DEF EndTalk
<1>10. CASE LogDone(s)
  <2>1. CASE callee[s] # 0
    BY <1>10, <2>1, <1>0, Entries, EntryWritten DEF LogDone, BackFromCall
  <2>2. CASE callee[s] = 0
    BY <1>10, <2>2, <1>0 DEF LogDone, TypeEntry
  <2> QED
    BY <2>1, <2>2
<1>11. CASE Leave(s)
  BY <1>11, <1>0, Entries, EntryWritten DEF Leave, End, TypeEntry
<1>12. CASE Purge(s)
  BY <1>12, <1>0, Entries, EntryWritten DEF Purge, TypeEntry
<1> QED
  BY <1>1, <1>2, <1>3, <1>4, <1>5, <1>6, <1>7, <1>8, <1>9, <1>10, <1>11, <1>12 DEF
     Step

LEMMA StepUi ==
  ASSUME IInv, NEW s \in Session, Step(s)
  PROVE  TypeUi'
<1>0. TypeUi /\ TypeEntry /\ TypeFixed
  BY TypeParts DEF IInv
<1>00. NoUi \in [acct : Account \cup {NoAccount}, port : 0..MaxCalls]
  BY TalkAssumption DEF NoUi
<1>1. CASE (\E t \in Session : Choose(s, t)) \/ ThinksBetter(s) \/ Ring(s) \/
          RingAgain(s) \/ HangUp(s) \/ CalleeGone(s) \/ Accept(s) \/
          (\E c \in Letter : ReadLetter(s, c)) \/ PressReturn(s) \/
          TalkReplyIgnores(s) \/ Reason(s) \/ ServicePage(s) \/ LogDone(s) \/ Purge(s)
  BY <1>1, <1>0, <1>00 DEF Accept, BackFromCall, CalleeGone, Choose, CloseSocket,
       HangUp, LogDone, PressReturn, Purge, ReadLetter, Reason, Ring, RingAgain,
       ServicePage, Signal, TalkReplyIgnores, ThinksBetter, TypeUi
<1>2. CASE TalkReplyAsks(s)
  <2>1. UiOf(s, First(s)) \in [acct : Account \cup {NoAccount}, port : 0..MaxCalls]
    BY <1>2, <1>0, Names, FirstNamed DEF TalkReplyAsks, Found, UiOf, TypeEntry, Entry
  <2> QED
    BY <1>2, <1>0, <2>1 DEF TalkReplyAsks, TypeUi
<1>3. ASSUME NEW c \in Letter, Answer(s, c)
      PROVE  TypeUi'
  BY <1>3, <1>0, <1>00 DEF Answer, TypeUi
<1>4. CASE ConnectFails(s)
  BY <1>4, <1>0, <1>00 DEF ConnectFails, TypeUi
<1>5. ASSUME NEW c \in Letter, AnswerNobody(s, c)
      PROVE  TypeUi'
  BY <1>5, <1>0, <1>00 DEF AnswerNobody, TypeUi
<1>6. CASE EndTalk(s)
  BY <1>6, <1>0, <1>00 DEF EndTalk, TypeUi
<1>7. CASE Leave(s)
  BY <1>7, <1>0, <1>00 DEF Leave, End, TypeUi
<1>8. CASE Killed(s)
  BY <1>8, <1>0, <1>00 DEF Killed, End, TypeUi
<1> QED
  BY <1>1, <1>2, <1>3, <1>4, <1>5, <1>6, <1>7, <1>8 DEF Step

LEMMA StepQueue ==
  ASSUME IInv, NEW s \in Session, Step(s)
  PROVE  TypeQueue'
<1>0. TypeQueue
  BY TypeParts DEF IInv
<1>1. CASE (\E t \in Session : Choose(s, t)) \/ ThinksBetter(s) \/ Ring(s) \/
          RingAgain(s) \/ (\E c \in Letter : ReadLetter(s, c)) \/
          (\E c \in Letter : AnswerNobody(s, c)) \/ PressReturn(s) \/
          TalkReplyIgnores(s) \/ TalkReplyAsks(s) \/ ConnectFails(s) \/ ServicePage(s)
          \/ EndTalk(s) \/ LogDone(s) \/ Purge(s)
  BY <1>1, <1>0 DEF AnswerNobody, BackFromCall, Choose, ConnectFails, EndTalk,
       LogDone, PressReturn, Purge, ReadLetter, Ring, RingAgain, ServicePage,
       Signal, TalkReplyAsks, TalkReplyIgnores, ThinksBetter, TypeQueue
<1>2. CASE HangUp(s)
  BY <1>2, <1>0 DEF HangUp, BackFromCall, CloseSocket, TypeQueue
<1>3. CASE CalleeGone(s)
  BY <1>3, <1>0 DEF CalleeGone, BackFromCall, TypeQueue
<1>4. CASE Accept(s)
  BY <1>4, <1>0 DEF Accept, CloseSocket, TypeQueue
<1>5. ASSUME NEW c \in Letter, Answer(s, c)
      PROVE  TypeQueue'
  <2>1. PICK q \in Session :
          queue' = [queue EXCEPT ![q] =
            Append(queue[q], [from |-> s, said |-> IF c = "m" THEN "nothing" ELSE c])]
    BY <1>5 DEF Answer, Listeners
  <2>2. [from |-> s, said |-> IF c = "m" THEN "nothing" ELSE c] \in Connection
    BY DEF Connection
  <2>3. Append(queue[q], [from |-> s, said |-> IF c = "m" THEN "nothing" ELSE c])
          \in Seq(Connection)
    BY <1>0, <2>2 DEF TypeQueue
  <2> QED
    BY <1>0, <2>1, <2>3 DEF TypeQueue
<1>6. CASE Reason(s)
  <2>1. \A k \in Connection : Said(k, s) \in Connection
    BY SaidType DEF Connection
  <2>2. ASSUME NEW q \in Session
        PROVE  [k \in 1..Len(queue[q]) |-> Said(queue[q][k], s)] \in Seq(Connection)
    <3>1. /\ Len(queue[q]) \in Nat
          /\ \A k \in 1..Len(queue[q]) : queue[q][k] \in Connection
      BY <1>0 DEF TypeQueue
    <3> QED
      BY <2>1, <3>1
  <2> QED
    BY <1>6, <2>2 DEF Reason, TypeQueue
<1>7. CASE Leave(s)
  BY <1>7, <1>0 DEF Leave, End, TypeQueue
<1>8. CASE Killed(s)
  BY <1>8, <1>0 DEF Killed, End, TypeQueue
<1> QED
  BY <1>1, <1>2, <1>3, <1>4, <1>5, <1>6, <1>7, <1>8 DEF Step

LEMMA StepConn ==
  ASSUME IInv, NEW s \in Session, Step(s)
  PROVE  TypeConn'
<1>0. TypeConn /\ TypeQueue /\ Waiting
  BY TypeParts DEF IInv
<1>00. NoConn \in [from : 0..Slots, said : Letter \cup {"nothing"}]
  BY TalkAssumption DEF NoConn
<1>1. CASE (\E t \in Session : Choose(s, t)) \/ ThinksBetter(s) \/ Ring(s) \/
          RingAgain(s) \/ (\E c \in Letter : ReadLetter(s, c)) \/
          (\E c \in Letter : Answer(s, c)) \/ (\E c \in Letter : AnswerNobody(s, c))
          \/ TalkReplyIgnores(s) \/ TalkReplyAsks(s) \/ ConnectFails(s) \/
          ServicePage(s) \/ Purge(s)
  BY <1>1, <1>0, <1>00 DEF Answer, AnswerNobody, Choose, ConnectFails, Purge,
       ReadLetter, Ring, RingAgain, ServicePage, Signal, TalkReplyAsks,
       TalkReplyIgnores, ThinksBetter, TypeConn
<1>2. CASE HangUp(s)
  BY <1>2, <1>0, <1>00 DEF HangUp, BackFromCall, CloseSocket, TypeConn
<1>3. CASE CalleeGone(s)
  BY <1>3, <1>0, <1>00 DEF CalleeGone, BackFromCall, TypeConn
<1>4. CASE Accept(s)
  <2>1. Head(queue[s]) \in Connection
    BY <1>4, <1>0 DEF Accept, TypeQueue
  <2>2. Head(queue[s]) \in [from : 0..Slots, said : Letter \cup {"nothing"}]
    BY <2>1 DEF Connection
  <2> QED
    BY <1>4, <1>0, <2>2 DEF Accept, TypeConn
<1>5. CASE PressReturn(s)
  BY <1>5, <1>0, <1>00 DEF PressReturn, BackFromCall, TypeConn
<1>6. CASE Reason(s)
  <2>1. \A k \in [from : 0..Slots, said : Letter \cup {"nothing"}] :
          Said(k, s) \in [from : 0..Slots, said : Letter \cup {"nothing"}]
    BY SaidType
  <2> QED
    BY <1>6, <1>0, <2>1 DEF Reason, TypeConn
<1>7. CASE EndTalk(s)
  BY <1>7, <1>0, <1>00 DEF EndTalk, TypeConn
<1>8. CASE LogDone(s)
  BY <1>8, <1>0, <1>00 DEF LogDone, BackFromCall, TypeConn
<1>9. CASE Leave(s)
  BY <1>9, <1>0, <1>00 DEF Leave, End, TypeConn
<1>10. CASE Killed(s)
  BY <1>10, <1>0, <1>00 DEF Killed, End, TypeConn
<1> QED
  BY <1>1, <1>2, <1>3, <1>4, <1>5, <1>6, <1>7, <1>8, <1>9, <1>10 DEF Step

LEMMA NoneWaits ==
  ASSUME Waiting, NEW s \in Session, queue'[s] = <<>>,
         \A r \in Session \ {s} : queue'[r] = queue[r] /\ pc'[r] = pc[r]
  PROVE  Waiting'
<1>1. Len(queue'[s]) <= Backlog
  BY TalkAssumption
<1>2. ASSUME NEW r \in Session \ {s}
      PROVE  Len(queue'[r]) <= Backlog /\ (queue'[r] # <<>> => pc'[r] = "page")
  BY <1>2 DEF Waiting
<1> QED
  BY <1>1, <1>2 DEF Waiting

LEMMA StepWaiting ==
  ASSUME IInv, NEW s \in Session, Step(s)
  PROVE  Waiting'
<1>0. TypeQueue /\ TypePc /\ Waiting
  BY TypeParts DEF IInv
<1>00. Backlog \in Nat /\ Len(<<>>) = 0
  BY TalkAssumption
<1>1. CASE RingAgain(s) \/ TalkReplyIgnores(s) \/ ServicePage(s) \/ Purge(s)
  BY <1>1, <1>0, <1>00 DEF Purge, RingAgain, ServicePage, Signal, TalkReplyIgnores,
       Waiting, Goto
<1>2. ASSUME NEW t \in Session, Choose(s, t)
      PROVE  Waiting'
  BY <1>2, <1>0, <1>00 DEF Choose, Waiting, Goto
<1>3. CASE ThinksBetter(s)
  BY <1>3, <1>0, <1>00 DEF ThinksBetter, Waiting, Goto
<1>4. CASE Ring(s)
  BY <1>4, <1>0, <1>00 DEF Ring, Signal, Waiting, Goto
<1>5. CASE HangUp(s)
  <2>1. queue'[s] = <<>>
    BY <1>5, <1>0 DEF HangUp, BackFromCall, CloseSocket, TypeQueue, Waiting
  <2>2. \A r \in Session \ {s} : queue'[r] = queue[r] /\ pc'[r] = pc[r]
    BY <1>5, <1>0 DEF HangUp, BackFromCall, CloseSocket, Goto, TypeQueue, TypePc
  <2> QED
    BY <1>0, <2>1, <2>2, NoneWaits
<1>6. CASE CalleeGone(s)
  <2>1. queue'[s] = <<>>
    BY <1>6, <1>0 DEF CalleeGone, BackFromCall, TypeQueue, Waiting
  <2>2. \A r \in Session \ {s} : queue'[r] = queue[r] /\ pc'[r] = pc[r]
    BY <1>6, <1>0 DEF CalleeGone, BackFromCall, Goto, TypeQueue, TypePc
  <2> QED
    BY <1>0, <2>1, <2>2, NoneWaits
<1>7. CASE Accept(s)
  <2>1. queue'[s] = <<>>
    BY <1>7, <1>0 DEF Accept, CloseSocket, TypeQueue, Waiting
  <2>2. \A r \in Session \ {s} : queue'[r] = queue[r] /\ pc'[r] = pc[r]
    BY <1>7, <1>0 DEF Accept, CloseSocket, Goto, TypeQueue, TypePc
  <2> QED
    BY <1>0, <2>1, <2>2, NoneWaits
<1>8. ASSUME NEW c \in Letter, ReadLetter(s, c)
      PROVE  Waiting'
  BY <1>8, <1>0, <1>00 DEF ReadLetter, Waiting, Goto
<1>9. CASE PressReturn(s)
  <2>1. queue'[s] = <<>>
    BY <1>9, <1>0 DEF PressReturn, BackFromCall, TypeQueue, Waiting
  <2>2. \A r \in Session \ {s} : queue'[r] = queue[r] /\ pc'[r] = pc[r]
    BY <1>9, <1>0 DEF PressReturn, BackFromCall, Goto, TypeQueue, TypePc
  <2> QED
    BY <1>0, <2>1, <2>2, NoneWaits
<1>10. CASE TalkReplyAsks(s)
  BY <1>10, <1>0, <1>00 DEF TalkReplyAsks, Waiting, Goto
<1>11. ASSUME NEW c \in Letter, Answer(s, c)
      PROVE  Waiting'
  <2>1. PICK q \in Session :
          /\ pc[q] = "page" /\ Len(queue[q]) < Backlog /\ pc[s] = "ask"
          /\ queue' = [queue EXCEPT ![q] =
               Append(queue[q], [from |-> s, said |-> IF c = "m" THEN "nothing" ELSE c])]
    BY <1>11 DEF Answer, Listeners
  <2>2. Len(queue'[q]) = Len(queue[q]) + 1
    BY <1>0, <2>1 DEF TypeQueue
  <2>3. \A r \in Session \ {q} : queue'[r] = queue[r]
    BY <1>0, <2>1 DEF TypeQueue
  <2>4. \A r \in Session \ {s} : pc'[r] = pc[r]
    BY <1>11, <1>0 DEF Answer, Goto, TypePc
  <2>5. \A r \in Session : Len(queue[r]) \in Nat
    BY <1>0 DEF TypeQueue
  <2> QED
    BY <1>0, <1>00, <2>1, <2>2, <2>3, <2>4, <2>5 DEF Waiting
<1>12. CASE ConnectFails(s)
  BY <1>12, <1>0, <1>00 DEF ConnectFails, Waiting, Goto
<1>13. ASSUME NEW c \in Letter, AnswerNobody(s, c)
      PROVE  Waiting'
  BY <1>13, <1>0, <1>00 DEF AnswerNobody, Waiting, Goto
<1>14. CASE Reason(s)
  <2>1. \A r \in Session : queue'[r] = [k \in 1..Len(queue[r]) |-> Said(queue[r][k], s)]
    BY <1>14 DEF Reason
  <2>2. ASSUME NEW r \in Session
        PROVE  Len(queue'[r]) = Len(queue[r]) /\ (queue[r] = <<>> => queue'[r] = <<>>)
    <3>1. Len(queue[r]) \in Nat
      BY <1>0 DEF TypeQueue
    <3>2. queue'[r] \in Seq(Connection)
      BY StepQueue DEF TypeQueue
    <3>3. Len(queue'[r]) \in Nat /\ DOMAIN queue'[r] = 1..Len(queue'[r])
      BY <3>2
    <3>4. DOMAIN queue'[r] = 1..Len(queue[r])
      BY <2>1
    <3>5. Len(queue'[r]) = Len(queue[r])
      BY <3>1, <3>3, <3>4
    <3> QED
      BY <3>2, <3>5
  <2> QED
    BY <1>14, <1>0, <2>2 DEF Reason, Waiting, Goto, TypePc
<1>15. CASE EndTalk(s)
  BY <1>15, <1>0, <1>00 DEF EndTalk, Waiting, Goto
<1>16. CASE LogDone(s)
  <2>1. queue'[s] = <<>>
    BY <1>16, <1>0 DEF LogDone, BackFromCall, TypeQueue, Waiting
  <2>2. \A r \in Session \ {s} : queue'[r] = queue[r] /\ pc'[r] = pc[r]
    BY <1>16, <1>0 DEF LogDone, BackFromCall, Goto, TypeQueue, TypePc
  <2> QED
    BY <1>0, <2>1, <2>2, NoneWaits
<1>17. CASE Leave(s)
  <2>1. queue'[s] = <<>>
    BY <1>17, <1>0 DEF Leave, End, TypeQueue, Waiting
  <2>2. \A r \in Session \ {s} : queue'[r] = queue[r] /\ pc'[r] = pc[r]
    BY <1>17, <1>0 DEF Leave, End, Goto, TypeQueue, TypePc
  <2> QED
    BY <1>0, <2>1, <2>2, NoneWaits
<1>18. CASE Killed(s)
  <2>1. queue'[s] = <<>>
    BY <1>18, <1>0 DEF Killed, End, TypeQueue, Waiting
  <2>2. \A r \in Session \ {s} : queue'[r] = queue[r] /\ pc'[r] = pc[r]
    BY <1>18, <1>0 DEF Killed, End, Goto, TypeQueue, TypePc
  <2> QED
    BY <1>0, <2>1, <2>2, NoneWaits
<1> QED
  BY <1>1, <1>2, <1>3, <1>4, <1>5, <1>6, <1>7, <1>8, <1>9, <1>10, <1>11, <1>12, <1>13,
     <1>14, <1>15, <1>16, <1>17, <1>18 DEF Step

LEMMA StepType ==
  ASSUME IInv, NEW s \in Session, Step(s)
  PROVE  TypeOK'
<1>1. TypeFixed /\ TypePc /\ TypeFlags
  BY TypeParts DEF IInv
<1>2. TypeFixed' /\ TypePc' /\ TypeFlags'
  BY <1>1, StepFixed, StepPc, StepFlags
<1>3. TypeCalls' /\ TypeEntry' /\ TypeUi'
  BY StepCalls, StepEntry, StepUi
<1>4. TypeQueue' /\ TypeConn' /\ Waiting'
  BY StepQueue, StepConn, StepWaiting
<1> QED
  BY <1>2, <1>3, <1>4, TypeParts DEF TypeOK, TypeFixed, TypePc, TypeFlags, TypeCalls,
     TypeEntry, TypeUi, TypeQueue, TypeConn, Waiting, Entry, Label, Connection

LEMMA PortKept ==
  ASSUME PortsDiffer, TypeFixed, TypeUi, TypeEntry, NEW s \in Session,
         calls' = calls, ui'[s].port <= calls,
         uinfo'[s].port = 0 \/ uinfo'[s].port = uinfo[s].port,
         uinfo'[s].ringing => uinfo[s].ringing /\ uinfo'[s].port = uinfo[s].port,
         \A q \in Session \ {s} : uinfo'[q] = uinfo[q] /\ ui'[q] = ui[q]
  PROVE  PortsDiffer'
<1>1. 0 <= calls /\ uinfo'[s].port <= calls
  BY TalkAssumption DEF PortsDiffer, TypeFixed
<1>2. \A q, r \in Session :
        q # r /\ uinfo'[q].port # 0 => uinfo'[q].port # uinfo'[r].port
  BY DEF PortsDiffer
<1>3. \A q \in Session : uinfo'[q].port <= calls' /\ ui'[q].port <= calls'
  BY <1>1 DEF PortsDiffer
<1>4. \A q \in Session : uinfo'[q].ringing => uinfo'[q].port # 0
  BY DEF PortsDiffer
<1> QED
  BY <1>2, <1>3, <1>4 DEF PortsDiffer

LEMMA StepPorts ==
  ASSUME IInv, NEW s \in Session, Step(s)
  PROVE  PortsDiffer'
<1>0. PortsDiffer /\ TypeEntry /\ TypeUi /\ TypeFixed
  BY TypeParts DEF IInv
<1>1. CASE (\E t \in Session : Choose(s, t)) \/ ThinksBetter(s) \/ RingAgain(s) \/
          Accept(s) \/ TalkReplyIgnores(s) \/ Reason(s)
  BY <1>1, <1>0 DEF Accept, Choose, CloseSocket, Reason, RingAgain, Signal,
       TalkReplyIgnores, ThinksBetter, PortsDiffer
<1>2. CASE Ring(s)
  <2>1. calls' = calls + 1 /\ uinfo'[s].port = calls + 1 /\ ui' = ui
    BY <1>2, <1>0 DEF Ring, Publish, TypeEntry
  <2>2. \A q \in Session \ {s} : uinfo'[q] = uinfo[q]
    BY <1>2, <1>0 DEF Ring, Publish, TypeEntry
  <2>3. calls \in Nat /\ \A q \in Session : uinfo[q].port \in Nat /\ ui[q].port \in Nat
    BY <1>0, TalkAssumption DEF TypeFixed, TypeEntry, TypeUi, Entry
  <2> QED
    BY <1>0, <2>1, <2>2, <2>3 DEF PortsDiffer
<1>3. CASE HangUp(s)
  <2>1. calls' = calls /\ 0 <= calls
    BY <1>3, <1>0, TalkAssumption DEF HangUp, BackFromCall, Fresh, TypeFixed
  <2>2. ui'[s].port <= calls
    BY <1>3, <1>0, <2>1 DEF HangUp, BackFromCall, Fresh, TypeUi, PortsDiffer
  <2>3. /\ uinfo'[s].port = 0 \/ uinfo'[s].port = uinfo[s].port
        /\ uinfo'[s].ringing => uinfo[s].ringing /\ uinfo'[s].port = uinfo[s].port
    BY <1>3, <1>0 DEF HangUp, BackFromCall, Fresh, Publish, TypeEntry, Entry
  <2>4. \A q \in Session \ {s} : uinfo'[q] = uinfo[q] /\ ui'[q] = ui[q]
    BY <1>3, <1>0 DEF HangUp, BackFromCall, Fresh, Publish, TypeEntry, TypeUi
  <2> QED
    BY <1>0, <2>1, <2>2, <2>3, <2>4, PortKept
<1>4. CASE CalleeGone(s)
  <2>1. calls' = calls /\ 0 <= calls
    BY <1>4, <1>0, TalkAssumption DEF CalleeGone, BackFromCall, Fresh, TypeFixed
  <2>2. ui'[s].port <= calls
    BY <1>4, <1>0, <2>1 DEF CalleeGone, BackFromCall, Fresh, TypeUi, PortsDiffer
  <2>3. /\ uinfo'[s].port = 0 \/ uinfo'[s].port = uinfo[s].port
        /\ uinfo'[s].ringing => uinfo[s].ringing /\ uinfo'[s].port = uinfo[s].port
    BY <1>4, <1>0 DEF CalleeGone, BackFromCall, Fresh, Publish, TypeEntry, Entry
  <2>4. \A q \in Session \ {s} : uinfo'[q] = uinfo[q] /\ ui'[q] = ui[q]
    BY <1>4, <1>0 DEF CalleeGone, BackFromCall, Fresh, Publish, TypeEntry, TypeUi
  <2> QED
    BY <1>0, <2>1, <2>2, <2>3, <2>4, PortKept
<1>5. ASSUME NEW c \in Letter, ReadLetter(s, c)
      PROVE  PortsDiffer'
  <2>1. calls' = calls /\ 0 <= calls
    BY <1>5, <1>0, TalkAssumption DEF ReadLetter, TypeFixed
  <2>2. ui'[s].port <= calls
    BY <1>5, <1>0, <2>1 DEF ReadLetter, TypeUi, PortsDiffer
  <2>3. /\ uinfo'[s].port = 0 \/ uinfo'[s].port = uinfo[s].port
        /\ uinfo'[s].ringing => uinfo[s].ringing /\ uinfo'[s].port = uinfo[s].port
    BY <1>5, <1>0 DEF ReadLetter, Publish, TypeEntry, Entry
  <2>4. \A q \in Session \ {s} : uinfo'[q] = uinfo[q] /\ ui'[q] = ui[q]
    BY <1>5, <1>0 DEF ReadLetter, Publish, TypeEntry, TypeUi
  <2> QED
    BY <1>0, <2>1, <2>2, <2>3, <2>4, PortKept
<1>6. CASE PressReturn(s)
  <2>1. calls' = calls /\ 0 <= calls /\ ui' = ui
    BY <1>6, <1>0, TalkAssumption DEF PressReturn, TypeFixed
  <2>2. ui'[s].port <= calls
    BY <1>0, <2>1 DEF PortsDiffer
  <2>3. uinfo'[s] \in {Fresh, uinfo[s], [uinfo[s] EXCEPT !.paging = FALSE]}
    BY <1>6, <1>0 DEF PressReturn, BackFromCall, Publish, TypeEntry
  <2>4. /\ uinfo'[s].port = 0 \/ uinfo'[s].port = uinfo[s].port
        /\ uinfo'[s].ringing => uinfo[s].ringing /\ uinfo'[s].port = uinfo[s].port
    BY <2>3, <1>0 DEF Fresh, TypeEntry, Entry
  <2>5. \A q \in Session \ {s} : uinfo'[q] = uinfo[q] /\ ui'[q] = ui[q]
    BY <1>6, <1>0, <2>1 DEF PressReturn, BackFromCall, Publish, TypeEntry
  <2> QED
    BY <1>0, <2>1, <2>2, <2>4, <2>5, PortKept
<1>7. CASE TalkReplyAsks(s)
  <2>1. First(s) \in Session
    BY <1>7, FirstNamed DEF TalkReplyAsks, Found
  <2>2. /\ ui'[s].port <= calls /\ uinfo'[s].port = uinfo[s].port
        /\ uinfo'[s].ringing = uinfo[s].ringing
    BY <1>7, <1>0, <2>1 DEF TalkReplyAsks, Publish, UiOf, TypeUi, TypeEntry, Entry, PortsDiffer
  <2>3. \A q \in Session \ {s} : uinfo'[q] = uinfo[q] /\ ui'[q] = ui[q]
    BY <1>7, <1>0 DEF TalkReplyAsks, Publish, TypeUi, TypeEntry
  <2>4. calls' = calls
    BY <1>7 DEF TalkReplyAsks
  <2> QED
    BY <1>0, <2>2, <2>3, <2>4, PortKept
<1>8. ASSUME NEW c \in Letter, Answer(s, c)
      PROVE  PortsDiffer'
  <2>1. calls' = calls /\ 0 <= calls
    BY <1>8, <1>0, TalkAssumption DEF Answer, NoUi, TypeFixed
  <2>2. ui'[s].port <= calls
    BY <1>8, <1>0, <2>1 DEF Answer, NoUi, TypeUi, PortsDiffer
  <2>3. /\ uinfo'[s].port = 0 \/ uinfo'[s].port = uinfo[s].port
        /\ uinfo'[s].ringing => uinfo[s].ringing /\ uinfo'[s].port = uinfo[s].port
    BY <1>8, <1>0 DEF Answer, NoUi, Publish, TypeEntry, Entry
  <2>4. \A q \in Session \ {s} : uinfo'[q] = uinfo[q] /\ ui'[q] = ui[q]
    BY <1>8, <1>0 DEF Answer, NoUi, Publish, TypeEntry, TypeUi
  <2> QED
    BY <1>0, <2>1, <2>2, <2>3, <2>4, PortKept
<1>9. CASE ConnectFails(s)
  <2>1. calls' = calls /\ 0 <= calls
    BY <1>9, <1>0, TalkAssumption DEF ConnectFails, NoUi, TypeFixed
  <2>2. ui'[s].port <= calls
    BY <1>9, <1>0, <2>1 DEF ConnectFails, NoUi, TypeUi, PortsDiffer
  <2>3. /\ uinfo'[s].port = 0 \/ uinfo'[s].port = uinfo[s].port
        /\ uinfo'[s].ringing => uinfo[s].ringing /\ uinfo'[s].port = uinfo[s].port
    BY <1>9, <1>0 DEF ConnectFails, NoUi, Publish, TypeEntry, Entry
  <2>4. \A q \in Session \ {s} : uinfo'[q] = uinfo[q] /\ ui'[q] = ui[q]
    BY <1>9, <1>0 DEF ConnectFails, NoUi, Publish, TypeEntry, TypeUi
  <2> QED
    BY <1>0, <2>1, <2>2, <2>3, <2>4, PortKept
<1>10. ASSUME NEW c \in Letter, AnswerNobody(s, c)
      PROVE  PortsDiffer'
  <2>1. calls' = calls /\ 0 <= calls
    BY <1>10, <1>0, TalkAssumption DEF AnswerNobody, NoUi, TypeFixed
  <2>2. ui'[s].port <= calls
    BY <1>10, <1>0, <2>1 DEF AnswerNobody, NoUi, TypeUi, PortsDiffer
  <2>3. /\ uinfo'[s].port = 0 \/ uinfo'[s].port = uinfo[s].port
        /\ uinfo'[s].ringing => uinfo[s].ringing /\ uinfo'[s].port = uinfo[s].port
    BY <1>10, <1>0 DEF AnswerNobody, NoUi, Publish, TypeEntry, Entry
  <2>4. \A q \in Session \ {s} : uinfo'[q] = uinfo[q] /\ ui'[q] = ui[q]
    BY <1>10, <1>0 DEF AnswerNobody, NoUi, Publish, TypeEntry, TypeUi
  <2> QED
    BY <1>0, <2>1, <2>2, <2>3, <2>4, PortKept
<1>11. CASE ServicePage(s)
  <2>1. calls' = calls /\ 0 <= calls
    BY <1>11, <1>0, TalkAssumption DEF ServicePage, TypeFixed
  <2>2. ui'[s].port <= calls
    BY <1>11, <1>0, <2>1 DEF ServicePage, TypeUi, PortsDiffer
  <2>3. /\ uinfo'[s].port = 0 \/ uinfo'[s].port = uinfo[s].port
        /\ uinfo'[s].ringing => uinfo[s].ringing /\ uinfo'[s].port = uinfo[s].port
    BY <1>11, <1>0 DEF ServicePage, Publish, TypeEntry, Entry
  <2>4. \A q \in Session \ {s} : uinfo'[q] = uinfo[q] /\ ui'[q] = ui[q]
    BY <1>11, <1>0 DEF ServicePage, Publish, TypeEntry, TypeUi
  <2> QED
    BY <1>0, <2>1, <2>2, <2>3, <2>4, PortKept
<1>12. CASE EndTalk(s)
  <2>1. calls' = calls /\ 0 <= calls
    BY <1>12, <1>0, TalkAssumption DEF EndTalk, NoUi, TypeFixed
  <2>2. ui'[s].port <= calls
    BY <1>12, <1>0, <2>1 DEF EndTalk, NoUi, TypeUi, PortsDiffer
  <2>3. /\ uinfo'[s].port = 0 \/ uinfo'[s].port = uinfo[s].port
        /\ uinfo'[s].ringing => uinfo[s].ringing /\ uinfo'[s].port = uinfo[s].port
    BY <1>12, <1>0 DEF EndTalk, NoUi, Publish, TypeEntry, Entry
  <2>4. \A q \in Session \ {s} : uinfo'[q] = uinfo[q] /\ ui'[q] = ui[q]
    BY <1>12, <1>0 DEF EndTalk, NoUi, Publish, TypeEntry, TypeUi
  <2> QED
    BY <1>0, <2>1, <2>2, <2>3, <2>4, PortKept
<1>13. CASE LogDone(s)
  <2>1. calls' = calls /\ 0 <= calls /\ ui' = ui
    BY <1>13, <1>0, TalkAssumption DEF LogDone, TypeFixed
  <2>2. ui'[s].port <= calls
    BY <1>0, <2>1 DEF PortsDiffer
  <2>3. uinfo'[s] \in {Fresh, uinfo[s], [uinfo[s] EXCEPT !.paging = FALSE]}
    BY <1>13, <1>0 DEF LogDone, BackFromCall, Publish, TypeEntry
  <2>4. /\ uinfo'[s].port = 0 \/ uinfo'[s].port = uinfo[s].port
        /\ uinfo'[s].ringing => uinfo[s].ringing /\ uinfo'[s].port = uinfo[s].port
    BY <2>3, <1>0 DEF Fresh, TypeEntry, Entry
  <2>5. \A q \in Session \ {s} : uinfo'[q] = uinfo[q] /\ ui'[q] = ui[q]
    BY <1>13, <1>0, <2>1 DEF LogDone, BackFromCall, Publish, TypeEntry
  <2> QED
    BY <1>0, <2>1, <2>2, <2>4, <2>5, PortKept
<1>14. CASE Leave(s)
  <2>1. calls' = calls /\ 0 <= calls
    BY <1>14, <1>0, TalkAssumption DEF Leave, End, Gone, Fresh, NoUi, TypeFixed
  <2>2. ui'[s].port <= calls
    BY <1>14, <1>0, <2>1 DEF Leave, End, Gone, Fresh, NoUi, TypeUi, PortsDiffer
  <2>3. /\ uinfo'[s].port = 0 \/ uinfo'[s].port = uinfo[s].port
        /\ uinfo'[s].ringing => uinfo[s].ringing /\ uinfo'[s].port = uinfo[s].port
    BY <1>14, <1>0 DEF Leave, End, Gone, Fresh, NoUi, Publish, TypeEntry, Entry
  <2>4. \A q \in Session \ {s} : uinfo'[q] = uinfo[q] /\ ui'[q] = ui[q]
    BY <1>14, <1>0 DEF Leave, End, Gone, Fresh, NoUi, Publish, TypeEntry, TypeUi
  <2> QED
    BY <1>0, <2>1, <2>2, <2>3, <2>4, PortKept
<1>15. CASE Killed(s)
  <2>1. calls' = calls /\ 0 <= calls
    BY <1>15, <1>0, TalkAssumption DEF Killed, End, NoUi, TypeFixed
  <2>2. ui'[s].port <= calls
    BY <1>15, <1>0, <2>1 DEF Killed, End, NoUi, TypeUi, PortsDiffer
  <2>3. /\ uinfo'[s].port = 0 \/ uinfo'[s].port = uinfo[s].port
        /\ uinfo'[s].ringing => uinfo[s].ringing /\ uinfo'[s].port = uinfo[s].port
    BY <1>15, <1>0 DEF Killed, End, NoUi, Publish, TypeEntry, Entry
  <2>4. \A q \in Session \ {s} : uinfo'[q] = uinfo[q] /\ ui'[q] = ui[q]
    BY <1>15, <1>0 DEF Killed, End, NoUi, Publish, TypeEntry, TypeUi
  <2> QED
    BY <1>0, <2>1, <2>2, <2>3, <2>4, PortKept
<1>16. CASE Purge(s)
  <2>1. calls' = calls /\ 0 <= calls
    BY <1>16, <1>0, TalkAssumption DEF Purge, Gone, Fresh, TypeFixed
  <2>2. ui'[s].port <= calls
    BY <1>16, <1>0, <2>1 DEF Purge, Gone, Fresh, TypeUi, PortsDiffer
  <2>3. /\ uinfo'[s].port = 0 \/ uinfo'[s].port = uinfo[s].port
        /\ uinfo'[s].ringing => uinfo[s].ringing /\ uinfo'[s].port = uinfo[s].port
    BY <1>16, <1>0 DEF Purge, Gone, Fresh, Publish, TypeEntry, Entry
  <2>4. \A q \in Session \ {s} : uinfo'[q] = uinfo[q] /\ ui'[q] = ui[q]
    BY <1>16, <1>0 DEF Purge, Gone, Fresh, Publish, TypeEntry, TypeUi
  <2> QED
    BY <1>0, <2>1, <2>2, <2>3, <2>4, PortKept
<1> QED
  BY <1>1, <1>2, <1>3, <1>4, <1>5, <1>6, <1>7, <1>8, <1>9, <1>10, <1>11, <1>12, <1>13,
     <1>14, <1>15, <1>16 DEF Step

LEMMA CallerKept ==
  ASSUME EntryOfCaller, NEW s \in Session, acct' = acct,
         pc'[s] = "sure" => callee'[s] # 0, pc'[s] # "page",
         \A q \in Session \ {s} :
           pc'[q] = pc[q] /\ callee'[q] = callee[q] /\ uinfo'[q] = uinfo[q]
  PROVE  EntryOfCaller'
<1>1. ASSUME NEW q \in Session PROVE pc'[q] = "sure" => callee'[q] # 0
  BY DEF EntryOfCaller
<1>2. ASSUME NEW q \in Session, pc'[q] = "page"
      PROVE  /\ callee'[q] # 0 /\ uinfo'[q].port # 0 /\ uinfo'[q].dest = acct'[callee'[q]]
             /\ uinfo'[q].on /\ uinfo'[q].ringing
  <2>1. q \in Session \ {s}
    BY <1>2
  <2> QED
    BY <1>2, <2>1 DEF EntryOfCaller
<1> QED
  BY <1>1, <1>2 DEF EntryOfCaller

LEMMA StepCaller ==
  ASSUME IInv, NEW s \in Session, Step(s)
  PROVE  EntryOfCaller'
<1>0. TypeEntry /\ TypePc /\ TypeCalls /\ TypeFixed /\ EntryOfCaller
  BY TypeParts DEF IInv
<1>1. CASE RingAgain(s) \/ TalkReplyIgnores(s)
  BY <1>1, <1>0 DEF RingAgain, Signal, TalkReplyIgnores, EntryOfCaller
<1>2. ASSUME NEW t \in Session, Choose(s, t)
      PROVE  EntryOfCaller'
  <2>1. acct' = acct /\ \A q \in Session \ {s} : pc'[q] = pc[q] /\ callee'[q] = callee[q]
    BY <1>2, <1>0 DEF Choose, Goto, TypePc, TypeCalls
  <2>2. \A q \in Session \ {s} : uinfo'[q] = uinfo[q]
    BY <1>2, <1>0 DEF Choose, Publish, TypeEntry
  <2>3. pc'[s] # "page" /\ (pc'[s] = "sure" => callee'[s] # 0)
    BY <1>2, <1>0, TalkAssumption DEF Choose, Goto, TypePc, TypeCalls
  <2> QED
    BY <1>0, <2>1, <2>2, <2>3, CallerKept
<1>3. CASE ThinksBetter(s)
  <2>1. acct' = acct /\ \A q \in Session \ {s} : pc'[q] = pc[q] /\ callee'[q] = callee[q]
    BY <1>3, <1>0 DEF ThinksBetter, Goto, TypePc, TypeCalls
  <2>2. \A q \in Session \ {s} : uinfo'[q] = uinfo[q]
    BY <1>3, <1>0 DEF ThinksBetter, Publish, TypeEntry
  <2>3. pc'[s] # "page" /\ (pc'[s] = "sure" => callee'[s] # 0)
    BY <1>3, <1>0, TalkAssumption DEF ThinksBetter, Goto, TypePc, TypeCalls
  <2> QED
    BY <1>0, <2>1, <2>2, <2>3, CallerKept
<1>4. CASE Ring(s)
  <2>1. callee' = callee /\ acct' = acct /\ callee[s] # 0 /\ calls + 1 # 0
    BY <1>4, <1>0, TalkAssumption DEF Ring, EntryOfCaller, TypeFixed
  <2>2. /\ uinfo'[s].port = calls + 1 /\ uinfo'[s].dest = acct[callee[s]]
        /\ uinfo'[s].on /\ uinfo'[s].ringing
    BY <1>4, <1>0 DEF Ring, Publish, TypeEntry
  <2>3. \A q \in Session \ {s} : uinfo'[q] = uinfo[q] /\ pc'[q] = pc[q]
    BY <1>4, <1>0 DEF Ring, Publish, Goto, TypeEntry, TypePc
  <2>4. pc'[s] = "page"
    BY <1>4, <1>0 DEF Ring, Goto, TypePc
  <2> QED
    BY <1>0, <2>1, <2>2, <2>3, <2>4 DEF EntryOfCaller
<1>5. CASE HangUp(s)
  <2>1. acct' = acct /\ \A q \in Session \ {s} : pc'[q] = pc[q] /\ callee'[q] = callee[q]
    BY <1>5, <1>0 DEF HangUp, BackFromCall, Goto, TypePc, TypeCalls
  <2>2. \A q \in Session \ {s} : uinfo'[q] = uinfo[q]
    BY <1>5, <1>0 DEF HangUp, BackFromCall, Publish, TypeEntry
  <2>3. pc'[s] # "page" /\ (pc'[s] = "sure" => callee'[s] # 0)
    BY <1>5, <1>0, TalkAssumption DEF HangUp, BackFromCall, Goto, TypePc, TypeCalls
  <2> QED
    BY <1>0, <2>1, <2>2, <2>3, CallerKept
<1>6. CASE CalleeGone(s)
  <2>1. acct' = acct /\ \A q \in Session \ {s} : pc'[q] = pc[q] /\ callee'[q] = callee[q]
    BY <1>6, <1>0 DEF CalleeGone, BackFromCall, Goto, TypePc, TypeCalls
  <2>2. \A q \in Session \ {s} : uinfo'[q] = uinfo[q]
    BY <1>6, <1>0 DEF CalleeGone, BackFromCall, Publish, TypeEntry
  <2>3. pc'[s] # "page" /\ (pc'[s] = "sure" => callee'[s] # 0)
    BY <1>6, <1>0, TalkAssumption DEF CalleeGone, BackFromCall, Goto, TypePc, TypeCalls
  <2> QED
    BY <1>0, <2>1, <2>2, <2>3, CallerKept
<1>7. CASE Accept(s)
  <2>1. acct' = acct /\ \A q \in Session \ {s} : pc'[q] = pc[q] /\ callee'[q] = callee[q]
    BY <1>7, <1>0 DEF Accept, Goto, TypePc, TypeCalls
  <2>2. \A q \in Session \ {s} : uinfo'[q] = uinfo[q]
    BY <1>7, <1>0 DEF Accept, Publish, TypeEntry
  <2>3. pc'[s] # "page" /\ (pc'[s] = "sure" => callee'[s] # 0)
    BY <1>7, <1>0, TalkAssumption DEF Accept, Goto, TypePc, TypeCalls
  <2> QED
    BY <1>0, <2>1, <2>2, <2>3, CallerKept
<1>8. ASSUME NEW c \in Letter, ReadLetter(s, c)
      PROVE  EntryOfCaller'
  <2>1. acct' = acct /\ \A q \in Session \ {s} : pc'[q] = pc[q] /\ callee'[q] = callee[q]
    BY <1>8, <1>0 DEF ReadLetter, Goto, TypePc, TypeCalls
  <2>2. \A q \in Session \ {s} : uinfo'[q] = uinfo[q]
    BY <1>8, <1>0 DEF ReadLetter, Publish, TypeEntry
  <2>3. pc'[s] # "page" /\ (pc'[s] = "sure" => callee'[s] # 0)
    BY <1>8, <1>0, TalkAssumption DEF ReadLetter, Goto, TypePc, TypeCalls
  <2> QED
    BY <1>0, <2>1, <2>2, <2>3, CallerKept
<1>9. CASE PressReturn(s)
  <2>1. acct' = acct /\ \A q \in Session \ {s} : pc'[q] = pc[q] /\ callee'[q] = callee[q]
    BY <1>9, <1>0 DEF PressReturn, BackFromCall, Goto, TypePc, TypeCalls
  <2>2. \A q \in Session \ {s} : uinfo'[q] = uinfo[q]
    BY <1>9, <1>0 DEF PressReturn, BackFromCall, Publish, TypeEntry
  <2>3. pc'[s] # "page" /\ (pc'[s] = "sure" => callee'[s] # 0)
    BY <1>9, <1>0, TalkAssumption DEF PressReturn, BackFromCall, Goto, TypePc, TypeCalls
  <2> QED
    BY <1>0, <2>1, <2>2, <2>3, CallerKept
<1>10. CASE TalkReplyAsks(s)
  <2>1. acct' = acct /\ \A q \in Session \ {s} : pc'[q] = pc[q] /\ callee'[q] = callee[q]
    BY <1>10, <1>0 DEF TalkReplyAsks, Goto, TypePc, TypeCalls
  <2>2. \A q \in Session \ {s} : uinfo'[q] = uinfo[q]
    BY <1>10, <1>0 DEF TalkReplyAsks, Publish, TypeEntry
  <2>3. pc'[s] # "page" /\ (pc'[s] = "sure" => callee'[s] # 0)
    BY <1>10, <1>0, TalkAssumption DEF TalkReplyAsks, Goto, TypePc, TypeCalls
  <2> QED
    BY <1>0, <2>1, <2>2, <2>3, CallerKept
<1>11. ASSUME NEW c \in Letter, Answer(s, c)
      PROVE  EntryOfCaller'
  <2>1. acct' = acct /\ \A q \in Session \ {s} : pc'[q] = pc[q] /\ callee'[q] = callee[q]
    BY <1>11, <1>0 DEF Answer, Goto, TypePc, TypeCalls
  <2>2. \A q \in Session \ {s} : uinfo'[q] = uinfo[q]
    BY <1>11, <1>0 DEF Answer, Publish, TypeEntry
  <2>3. pc'[s] # "page" /\ (pc'[s] = "sure" => callee'[s] # 0)
    BY <1>11, <1>0, TalkAssumption DEF Answer, Goto, TypePc, TypeCalls
  <2> QED
    BY <1>0, <2>1, <2>2, <2>3, CallerKept
<1>12. CASE ConnectFails(s)
  <2>1. acct' = acct /\ \A q \in Session \ {s} : pc'[q] = pc[q] /\ callee'[q] = callee[q]
    BY <1>12, <1>0 DEF ConnectFails, Goto, TypePc, TypeCalls
  <2>2. \A q \in Session \ {s} : uinfo'[q] = uinfo[q]
    BY <1>12, <1>0 DEF ConnectFails, Publish, TypeEntry
  <2>3. pc'[s] # "page" /\ (pc'[s] = "sure" => callee'[s] # 0)
    BY <1>12, <1>0, TalkAssumption DEF ConnectFails, Goto, TypePc, TypeCalls
  <2> QED
    BY <1>0, <2>1, <2>2, <2>3, CallerKept
<1>13. ASSUME NEW c \in Letter, AnswerNobody(s, c)
      PROVE  EntryOfCaller'
  <2>1. acct' = acct /\ \A q \in Session \ {s} : pc'[q] = pc[q] /\ callee'[q] = callee[q]
    BY <1>13, <1>0 DEF AnswerNobody, Goto, TypePc, TypeCalls
  <2>2. \A q \in Session \ {s} : uinfo'[q] = uinfo[q]
    BY <1>13, <1>0 DEF AnswerNobody, Publish, TypeEntry
  <2>3. pc'[s] # "page" /\ (pc'[s] = "sure" => callee'[s] # 0)
    BY <1>13, <1>0, TalkAssumption DEF AnswerNobody, Goto, TypePc, TypeCalls
  <2> QED
    BY <1>0, <2>1, <2>2, <2>3, CallerKept
<1>14. CASE ServicePage(s)
  <2>1. acct' = acct /\ \A q \in Session \ {s} : pc'[q] = pc[q] /\ callee'[q] = callee[q]
    BY <1>14, <1>0 DEF ServicePage, Goto, TypePc, TypeCalls
  <2>2. \A q \in Session \ {s} : uinfo'[q] = uinfo[q]
    BY <1>14, <1>0 DEF ServicePage, Publish, TypeEntry
  <2>3. pc'[s] # "page" /\ (pc'[s] = "sure" => callee'[s] # 0)
    BY <1>14, <1>0, TalkAssumption DEF ServicePage, Goto, TypePc, TypeCalls
  <2> QED
    BY <1>0, <2>1, <2>2, <2>3, CallerKept
<1>15. CASE Reason(s)
  <2>1. acct' = acct /\ \A q \in Session \ {s} : pc'[q] = pc[q] /\ callee'[q] = callee[q]
    BY <1>15, <1>0 DEF Reason, Goto, TypePc, TypeCalls
  <2>2. \A q \in Session \ {s} : uinfo'[q] = uinfo[q]
    BY <1>15, <1>0 DEF Reason, Publish, TypeEntry
  <2>3. pc'[s] # "page" /\ (pc'[s] = "sure" => callee'[s] # 0)
    BY <1>15, <1>0, TalkAssumption DEF Reason, Goto, TypePc, TypeCalls
  <2> QED
    BY <1>0, <2>1, <2>2, <2>3, CallerKept
<1>16. CASE EndTalk(s)
  <2>1. acct' = acct /\ \A q \in Session \ {s} : pc'[q] = pc[q] /\ callee'[q] = callee[q]
    BY <1>16, <1>0 DEF EndTalk, Goto, TypePc, TypeCalls
  <2>2. \A q \in Session \ {s} : uinfo'[q] = uinfo[q]
    BY <1>16, <1>0 DEF EndTalk, Publish, TypeEntry
  <2>3. pc'[s] # "page" /\ (pc'[s] = "sure" => callee'[s] # 0)
    BY <1>16, <1>0, TalkAssumption DEF EndTalk, Goto, TypePc, TypeCalls
  <2> QED
    BY <1>0, <2>1, <2>2, <2>3, CallerKept
<1>17. CASE LogDone(s)
  <2>1. acct' = acct /\ \A q \in Session \ {s} : pc'[q] = pc[q] /\ callee'[q] = callee[q]
    BY <1>17, <1>0 DEF LogDone, BackFromCall, Goto, TypePc, TypeCalls
  <2>2. \A q \in Session \ {s} : uinfo'[q] = uinfo[q]
    BY <1>17, <1>0 DEF LogDone, BackFromCall, Publish, TypeEntry
  <2>3. pc'[s] # "page" /\ (pc'[s] = "sure" => callee'[s] # 0)
    BY <1>17, <1>0, TalkAssumption DEF LogDone, BackFromCall, Goto, TypePc, TypeCalls
  <2> QED
    BY <1>0, <2>1, <2>2, <2>3, CallerKept
<1>18. CASE Leave(s)
  <2>1. acct' = acct /\ \A q \in Session \ {s} : pc'[q] = pc[q] /\ callee'[q] = callee[q]
    BY <1>18, <1>0 DEF Leave, End, Goto, TypePc, TypeCalls
  <2>2. \A q \in Session \ {s} : uinfo'[q] = uinfo[q]
    BY <1>18, <1>0 DEF Leave, End, Publish, TypeEntry
  <2>3. pc'[s] # "page" /\ (pc'[s] = "sure" => callee'[s] # 0)
    BY <1>18, <1>0, TalkAssumption DEF Leave, End, Goto, TypePc, TypeCalls
  <2> QED
    BY <1>0, <2>1, <2>2, <2>3, CallerKept
<1>19. CASE Killed(s)
  <2>1. acct' = acct /\ \A q \in Session \ {s} : pc'[q] = pc[q] /\ callee'[q] = callee[q]
    BY <1>19, <1>0 DEF Killed, End, Goto, TypePc, TypeCalls
  <2>2. \A q \in Session \ {s} : uinfo'[q] = uinfo[q]
    BY <1>19, <1>0 DEF Killed, End, Publish, TypeEntry
  <2>3. pc'[s] # "page" /\ (pc'[s] = "sure" => callee'[s] # 0)
    BY <1>19, <1>0, TalkAssumption DEF Killed, End, Goto, TypePc, TypeCalls
  <2> QED
    BY <1>0, <2>1, <2>2, <2>3, CallerKept
<1>20. CASE Purge(s)
  <2>1. acct' = acct /\ \A q \in Session \ {s} : pc'[q] = pc[q] /\ callee'[q] = callee[q]
    BY <1>20, <1>0 DEF Purge, Alive, Goto, TypePc, TypeCalls
  <2>2. \A q \in Session \ {s} : uinfo'[q] = uinfo[q]
    BY <1>20, <1>0 DEF Purge, Alive, Publish, TypeEntry
  <2>3. pc'[s] # "page" /\ (pc'[s] = "sure" => callee'[s] # 0)
    BY <1>20, <1>0, TalkAssumption DEF Purge, Alive, Goto, TypePc, TypeCalls
  <2> QED
    BY <1>0, <2>1, <2>2, <2>3, CallerKept
<1> QED
  BY <1>1, <1>2, <1>3, <1>4, <1>5, <1>6, <1>7, <1>8, <1>9, <1>10, <1>11, <1>12, <1>13,
     <1>14, <1>15, <1>16, <1>17, <1>18, <1>19, <1>20 DEF Step

(* A session changes nothing of another one but its signals and connections.  *)
LEMMA OthersKept ==
  ASSUME IInv, NEW s \in Session, Step(s)
  PROVE  acct' = acct /\ \A q \in Session \ {s} :
           /\ pc'[q] = pc[q] /\ callee'[q] = callee[q] /\ uinfo'[q] = uinfo[q]
           /\ ui'[q] = ui[q] /\ partner'[q] = partner[q]
<1>0. TypePc /\ TypeCalls /\ TypeEntry /\ TypeUi
  BY TypeParts DEF IInv
<1>1. CASE (\E t \in Session : Choose(s, t)) \/ ThinksBetter(s) \/ Ring(s) \/
          RingAgain(s) \/ Accept(s) \/ TalkReplyIgnores(s) \/ TalkReplyAsks(s) \/
          ConnectFails(s) \/ Reason(s) \/ Purge(s)
  BY <1>1, <1>0 DEF Accept, Choose, CloseSocket, ConnectFails, Purge, Reason, Ring,
       RingAgain, Signal, TalkReplyAsks, TalkReplyIgnores, ThinksBetter, Goto,
       Publish, TypePc, TypeCalls, TypeEntry, TypeUi
<1>2. CASE HangUp(s)
  BY <1>2, <1>0 DEF HangUp, BackFromCall, CloseSocket, Goto, Publish, TypePc,
     TypeCalls, TypeEntry, TypeUi
<1>3. CASE CalleeGone(s)
  BY <1>3, <1>0 DEF CalleeGone, BackFromCall, Goto, Publish, TypePc, TypeCalls,
     TypeEntry, TypeUi
<1>4. CASE PressReturn(s)
  BY <1>4, <1>0 DEF PressReturn, BackFromCall, Goto, Publish, TypePc, TypeCalls,
     TypeEntry, TypeUi
<1>5. CASE LogDone(s)
  BY <1>5, <1>0 DEF LogDone, BackFromCall, Goto, Publish, TypePc, TypeCalls,
     TypeEntry, TypeUi
<1>6. CASE Leave(s)
  BY <1>6, <1>0 DEF Leave, End, Goto, Publish, TypePc, TypeCalls, TypeEntry, TypeUi
<1>7. CASE Killed(s)
  BY <1>7, <1>0 DEF Killed, End, Goto, Publish, TypePc, TypeCalls, TypeEntry, TypeUi
<1>8. ASSUME NEW c \in Letter, Answer(s, c)
      PROVE  acct' = acct /\ \A q \in Session \ {s} :
           /\ pc'[q] = pc[q] /\ callee'[q] = callee[q] /\ uinfo'[q] = uinfo[q]
           /\ ui'[q] = ui[q] /\ partner'[q] = partner[q]
  BY <1>8, <1>0 DEF Answer, Goto, Publish, TypePc, TypeCalls, TypeEntry, TypeUi
<1>9. ASSUME NEW c \in Letter, AnswerNobody(s, c)
      PROVE  acct' = acct /\ \A q \in Session \ {s} :
           /\ pc'[q] = pc[q] /\ callee'[q] = callee[q] /\ uinfo'[q] = uinfo[q]
           /\ ui'[q] = ui[q] /\ partner'[q] = partner[q]
  BY <1>9, <1>0 DEF AnswerNobody, Goto, Publish, TypePc, TypeCalls, TypeEntry,
     TypeUi
<1>10. ASSUME NEW c \in Letter, ReadLetter(s, c)
      PROVE  acct' = acct /\ \A q \in Session \ {s} :
           /\ pc'[q] = pc[q] /\ callee'[q] = callee[q] /\ uinfo'[q] = uinfo[q]
           /\ ui'[q] = ui[q] /\ partner'[q] = partner[q]
  BY <1>10, <1>0 DEF ReadLetter, Goto, Publish, TypePc, TypeCalls, TypeEntry, TypeUi
<1>11. CASE ServicePage(s)
  BY <1>11, <1>0 DEF ServicePage, Goto, Publish, TypePc, TypeCalls, TypeEntry,
     TypeUi
<1>12. CASE EndTalk(s)
  BY <1>12, <1>0 DEF EndTalk, Goto, Publish, TypePc, TypeCalls, TypeEntry, TypeUi
<1> QED
  BY <1>1, <1>2, <1>3, <1>4, <1>5, <1>6, <1>7, <1>8, <1>9, <1>10, <1>11, <1>12 DEF
     Step

(* Only Ring makes a session wait.                                           *)
LEMMA OnlyRingWaits ==
  ASSUME IInv, NEW s \in Session, Step(s)
  PROVE  ~ Ring(s) /\ ~ RingAgain(s) /\ ~ TalkReplyIgnores(s) => pc'[s] # "page"
<1>0. TypePc
  BY TypeParts DEF IInv
<1>1. CASE (\E t \in Session : Choose(s, t)) \/ ThinksBetter(s) \/ Ring(s) \/
          RingAgain(s) \/ HangUp(s) \/ CalleeGone(s) \/ Accept(s) \/
          TalkReplyIgnores(s) \/ ConnectFails(s) \/ Reason(s) \/ EndTalk(s) \/
          Leave(s) \/ Killed(s)
  BY <1>1, <1>0 DEF Accept, BackFromCall, CalleeGone, Choose, CloseSocket,
       ConnectFails, End, EndTalk, HangUp, Killed, Leave, Reason, Ring, RingAgain,
       Signal, TalkReplyIgnores, ThinksBetter, Goto, TypePc
<1>2. ASSUME NEW c \in Letter, Answer(s, c)
      PROVE  ~ Ring(s) /\ ~ RingAgain(s) /\ ~ TalkReplyIgnores(s) => pc'[s] # "page"
  BY <1>2, <1>0 DEF Answer, Goto, TypePc
<1>3. ASSUME NEW c \in Letter, AnswerNobody(s, c)
      PROVE  ~ Ring(s) /\ ~ RingAgain(s) /\ ~ TalkReplyIgnores(s) => pc'[s] # "page"
  BY <1>3, <1>0 DEF AnswerNobody, Goto, TypePc
<1>4. ASSUME NEW c \in Letter, ReadLetter(s, c)
      PROVE  ~ Ring(s) /\ ~ RingAgain(s) /\ ~ TalkReplyIgnores(s) => pc'[s] # "page"
  BY <1>4, <1>0 DEF ReadLetter, Goto, TypePc
<1>5. CASE ServicePage(s)
  BY <1>5, <1>0 DEF ServicePage, Goto, TypePc
<1>6. CASE TalkReplyAsks(s)
  BY <1>6, <1>0 DEF TalkReplyAsks, Goto, TypePc
<1>7. CASE PressReturn(s)
  BY <1>7, <1>0 DEF PressReturn, BackFromCall, Goto, TypePc
<1>8. CASE LogDone(s)
  BY <1>8, <1>0 DEF LogDone, BackFromCall, Goto, TypePc
<1>9. CASE Purge(s)
  BY <1>9, <1>0 DEF Purge, Alive
<1> QED
  BY <1>1, <1>2, <1>3, <1>4, <1>5, <1>6, <1>7, <1>8, <1>9 DEF Step

LEMMA NotedKept ==
  ASSUME NotedCall, EntryOfCaller, acct' = acct,
         \A s \in Session : pc'[s] = "page" =>
           pc[s] = "page" /\ callee'[s] = callee[s] /\ uinfo'[s].port = uinfo[s].port,
         \A t \in Session : ui'[t] = ui[t] \/ ui'[t].port = 0
  PROVE  NotedCall'
<1>1. ASSUME NEW s \in Session, NEW t \in Session, pc'[s] = "page",
             uinfo'[s].port = ui'[t].port
      PROVE  acct[callee'[s]] = acct[t] /\ ui'[t].acct = acct[s]
  <2>1. pc[s] = "page" /\ callee'[s] = callee[s] /\ uinfo'[s].port = uinfo[s].port
    BY <1>1
  <2>2. uinfo[s].port # 0
    BY <2>1 DEF EntryOfCaller
  <2>3. ui'[t] = ui[t]
    BY <1>1, <2>1, <2>2
  <2>4. pc[s] = "page" /\ uinfo[s].port = ui[t].port
    BY <1>1, <2>1, <2>3
  <2>5. acct[callee[s]] = acct[t] /\ ui[t].acct = acct[s]
    BY <2>4 DEF NotedCall
  <2> QED
    BY <2>1, <2>3, <2>5
<1> QED
  BY <1>1 DEF NotedCall

LEMMA OnlyTalkReplyNotes ==
  ASSUME IInv, NEW s \in Session, Step(s)
  PROVE  ~ TalkReplyAsks(s) => ui'[s] = ui[s] \/ ui'[s].port = 0
<1>0. TypeUi
  BY TypeParts DEF IInv
<1>1. CASE (\E t \in Session : Choose(s, t)) \/ ThinksBetter(s) \/ Ring(s) \/
          RingAgain(s) \/ HangUp(s) \/ CalleeGone(s) \/ Accept(s) \/
          (\E c \in Letter : ReadLetter(s, c)) \/ PressReturn(s) \/
          TalkReplyIgnores(s) \/ Reason(s) \/ ServicePage(s) \/ LogDone(s) \/ Purge(s)
  BY <1>1, <1>0 DEF Accept, BackFromCall, CalleeGone, Choose, CloseSocket, HangUp,
       LogDone, PressReturn, Purge, ReadLetter, Reason, Ring, RingAgain,
       ServicePage, Signal, TalkReplyIgnores, ThinksBetter, NoUi, TypeUi
<1>2. ASSUME NEW c \in Letter, Answer(s, c)
      PROVE  ~ TalkReplyAsks(s) => ui'[s] = ui[s] \/ ui'[s].port = 0
  BY <1>2, <1>0 DEF Answer, NoUi, TypeUi
<1>3. CASE ConnectFails(s)
  BY <1>3, <1>0 DEF ConnectFails, NoUi, TypeUi
<1>4. ASSUME NEW c \in Letter, AnswerNobody(s, c)
      PROVE  ~ TalkReplyAsks(s) => ui'[s] = ui[s] \/ ui'[s].port = 0
  BY <1>4, <1>0 DEF AnswerNobody, NoUi, TypeUi
<1>5. CASE EndTalk(s)
  BY <1>5, <1>0 DEF EndTalk, NoUi, TypeUi
<1>6. CASE Leave(s)
  BY <1>6, <1>0 DEF Leave, End, NoUi, TypeUi
<1>7. CASE Killed(s)
  BY <1>7, <1>0 DEF Killed, End, NoUi, TypeUi
<1>8. CASE TalkReplyAsks(s)
  BY <1>8, <1>0 DEF TalkReplyAsks, NoUi, TypeUi
<1> QED
  BY <1>1, <1>2, <1>3, <1>4, <1>5, <1>6, <1>7, <1>8 DEF Step

LEMMA StepNoted ==
  ASSUME IInv, NEW s \in Session, Step(s)
  PROVE  NotedCall'
<1>0. /\ TypePc /\ TypeCalls /\ TypeEntry /\ TypeUi /\ TypeFixed
      /\ PortsDiffer /\ EntryOfCaller /\ NotedCall
  BY TypeParts DEF IInv
<1>1. acct' = acct /\ \A q \in Session \ {s} :
           /\ pc'[q] = pc[q] /\ callee'[q] = callee[q] /\ uinfo'[q] = uinfo[q]
           /\ ui'[q] = ui[q]
  BY OthersKept
<1>2. CASE Ring(s)
  <2>1. ui' = ui /\ callee' = callee /\ uinfo'[s].port = calls + 1
    BY <1>0, <1>2 DEF Ring, Publish, TypeEntry
  <2>2. \A t \in Session : ui'[t].port # calls + 1
    <3>1. ASSUME NEW t \in Session PROVE ui[t].port # calls + 1
      <4>1. ui[t].port <= calls
        BY <1>0 DEF PortsDiffer
      <4>2. calls \in Nat /\ ui[t].port \in Nat
        BY <1>0, TalkAssumption DEF TypeFixed, TypeUi
      <4> QED
        BY <4>1, <4>2
    <3> QED
      BY <2>1, <3>1
  <2> QED
    BY <1>0, <1>1, <2>1, <2>2 DEF NotedCall
<1>3. CASE TalkReplyAsks(s)
  <2> DEFINE f == First(s)
  <2>1. /\ f \in Session /\ uinfo[f].ringing /\ uinfo[f].dest = acct[s]
        /\ ui'[s] = [acct |-> acct[f], port |-> uinfo[f].port] /\ pc'[s] = "ask"
    BY <1>0, <1>3, FirstNamed DEF TalkReplyAsks, Found, UiOf, Goto, TypePc, TypeUi
  <2>2. uinfo[f].port # 0
    BY <1>0, <2>1 DEF PortsDiffer
  <2>3. ASSUME NEW q \in Session, pc'[q] = "page", uinfo'[q].port = ui'[s].port
        PROVE  acct[callee'[q]] = acct[s] /\ ui'[s].acct = acct[q]
    <3>1. q # s
      BY <2>1, <2>3
    <3>2. pc[q] = "page" /\ uinfo[q].port = uinfo[f].port /\ callee'[q] = callee[q]
      BY <1>1, <2>1, <2>3, <3>1
    <3>3. q = f
      BY <1>0, <2>1, <2>2, <3>2 DEF PortsDiffer
    <3>4. uinfo[q].dest = acct[callee[q]]
      BY <1>0, <3>2 DEF EntryOfCaller
    <3> QED
      BY <2>1, <3>2, <3>3, <3>4
  <2>4. ASSUME NEW q \in Session, NEW t \in Session \ {s}, pc'[q] = "page",
               uinfo'[q].port = ui'[t].port
        PROVE  acct[callee'[q]] = acct[t] /\ ui'[t].acct = acct[q]
    BY <1>0, <1>1, <2>1, <2>4 DEF NotedCall
  <2> QED
    BY <1>1, <2>3, <2>4 DEF NotedCall
<1>4. CASE ~ Ring(s) /\ ~ TalkReplyAsks(s)
  <2>1. ui'[s] = ui[s] \/ ui'[s].port = 0
    BY <1>0, <1>4, OnlyTalkReplyNotes
  <2>2. CASE RingAgain(s) \/ TalkReplyIgnores(s)
    <3>1. UNCHANGED <<pc, callee, uinfo>>
      BY <2>2 DEF RingAgain, TalkReplyIgnores
    <3> QED
      BY <1>0, <1>1, <2>1, <3>1, NotedKept
  <2>3. CASE ~ RingAgain(s) /\ ~ TalkReplyIgnores(s)
    <3>1. pc'[s] # "page"
      BY <1>4, <2>3, OnlyRingWaits
    <3> QED
      BY <1>0, <1>1, <2>1, <3>1, NotedKept
  <2> QED
    BY <2>2, <2>3
<1> QED
  BY <1>2, <1>3, <1>4

LEMMA ConnectedKept ==
  ASSUME ConnectedTo, NEW s \in Session, acct' = acct,
         partner'[s] # 0 => /\ pc'[s] \in {"talk", "reason"}
                            /\ pc'[s] = "talk" => ui'[s].acct = acct[partner'[s]],
         \A q \in Session \ {s} :
           pc'[q] = pc[q] /\ ui'[q] = ui[q] /\ partner'[q] = partner[q]
  PROVE  ConnectedTo'
BY DEF ConnectedTo

LEMMA OwnPartner ==
  ASSUME IInv, NEW s \in Session, Step(s)
  PROVE  partner'[s] # 0 =>
           /\ pc'[s] \in {"talk", "reason"}
           /\ pc'[s] = "talk" => ui'[s].acct = acct[partner'[s]]
<1>0. TypePc /\ TypeCalls /\ TypeUi /\ ConnectedTo /\ NotedCall
  BY TypeParts DEF IInv
<1>1. CASE ThinksBetter(s) \/ ConnectFails(s)
  BY <1>1, <1>0 DEF ConnectFails, ThinksBetter, TypeCalls, ConnectedTo
<1>2. ASSUME NEW t \in Session, Choose(s, t)
      PROVE  partner'[s] # 0 =>
           /\ pc'[s] \in {"talk", "reason"}
           /\ pc'[s] = "talk" => ui'[s].acct = acct[partner'[s]]
  <2>1. partner[s] = 0 /\ partner' = partner
    BY <1>2, <1>0 DEF Choose, Alive, ConnectedTo
  <2> QED
    BY <2>1
<1>3. CASE Ring(s)
  <2>1. partner[s] = 0 /\ partner' = partner
    BY <1>3, <1>0 DEF Ring, Alive, ConnectedTo
  <2> QED
    BY <2>1
<1>4. CASE RingAgain(s)
  <2>1. partner' = partner /\ pc' = pc /\ ui' = ui
    BY <1>4 DEF RingAgain
  <2> QED
    BY <1>0, <2>1 DEF ConnectedTo
<1>5. CASE HangUp(s)
  <2>1. partner[s] = 0 /\ partner' = partner
    BY <1>5, <1>0 DEF HangUp, Alive, ConnectedTo
  <2> QED
    BY <2>1
<1>6. CASE CalleeGone(s)
  <2>1. partner[s] = 0 /\ partner' = partner
    BY <1>6, <1>0 DEF CalleeGone, Alive, ConnectedTo
  <2> QED
    BY <2>1
<1>7. CASE Accept(s)
  <2>1. partner[s] = 0 /\ partner' = partner
    BY <1>7, <1>0 DEF Accept, Alive, ConnectedTo
  <2> QED
    BY <2>1
<1>8. ASSUME NEW c \in Letter, ReadLetter(s, c)
      PROVE  partner'[s] # 0 =>
           /\ pc'[s] \in {"talk", "reason"}
           /\ pc'[s] = "talk" => ui'[s].acct = acct[partner'[s]]
  <2>1. partner[s] = 0 /\ partner' = partner
    BY <1>8, <1>0 DEF ReadLetter, Alive, ConnectedTo
  <2> QED
    BY <2>1
<1>9. ASSUME NEW c \in Letter, Answer(s, c)
      PROVE  partner'[s] # 0 =>
           /\ pc'[s] \in {"talk", "reason"}
           /\ pc'[s] = "talk" => ui'[s].acct = acct[partner'[s]]
  <2>1. PICK q \in Listeners(ui[s].port) :
          /\ pc[s] = "ask"
          /\ partner' = [partner EXCEPT ![s] = IF c = "n" THEN 0 ELSE q]
          /\ pc' = [pc EXCEPT ![s] = IF c = "y" THEN "talk"
                                    ELSE IF c = "n" THEN "menu" ELSE "reason"]
          /\ ui' = [ui EXCEPT ![s] = IF c = "y" THEN ui[s] ELSE NoUi]
    BY <1>9 DEF Answer, Goto
  <2>2. ui[s].acct = acct[q]
    BY <1>0, <2>1 DEF NotedCall, Listeners
  <2> QED
    BY <1>9, <1>0, <2>1, <2>2 DEF TypePc, TypeCalls, TypeUi, Letter
<1>10. ASSUME NEW c \in Letter, AnswerNobody(s, c)
      PROVE  partner'[s] # 0 =>
           /\ pc'[s] \in {"talk", "reason"}
           /\ pc'[s] = "talk" => ui'[s].acct = acct[partner'[s]]
  <2>1. partner[s] = 0 /\ partner' = partner
    BY <1>10, <1>0 DEF AnswerNobody, Alive, ConnectedTo
  <2> QED
    BY <2>1
<1>11. CASE PressReturn(s)
  <2>1. partner[s] = 0 /\ partner' = partner
    BY <1>11, <1>0 DEF PressReturn, Alive, ConnectedTo
  <2> QED
    BY <2>1
<1>12. CASE TalkReplyIgnores(s)
  <2>1. partner[s] = 0 /\ partner' = partner
    BY <1>12, <1>0 DEF TalkReplyIgnores, Alive, ConnectedTo
  <2> QED
    BY <2>1
<1>13. CASE TalkReplyAsks(s)
  <2>1. partner[s] = 0 /\ partner' = partner
    BY <1>13, <1>0 DEF TalkReplyAsks, Alive, ConnectedTo
  <2> QED
    BY <2>1
<1>14. CASE Reason(s)
  <2>1. partner'[s] = 0
    BY <1>14, <1>0 DEF Reason, TypeCalls
  <2> QED
    BY <2>1
<1>15. CASE ServicePage(s)
  <2>1. partner' = partner /\ pc' = pc /\ ui' = ui
    BY <1>15 DEF ServicePage
  <2> QED
    BY <1>0, <2>1 DEF ConnectedTo
<1>16. CASE EndTalk(s)
  <2>1. partner'[s] = 0
    BY <1>16, <1>0 DEF EndTalk, TypeCalls
  <2> QED
    BY <2>1
<1>17. CASE LogDone(s)
  <2>1. partner[s] = 0 /\ partner' = partner
    BY <1>17, <1>0 DEF LogDone, Alive, ConnectedTo
  <2> QED
    BY <2>1
<1>18. CASE Leave(s)
  <2>1. partner'[s] = 0
    BY <1>18, <1>0 DEF Leave, End, TypeCalls
  <2> QED
    BY <2>1
<1>19. CASE Killed(s)
  <2>1. partner'[s] = 0
    BY <1>19, <1>0 DEF Killed, End, TypeCalls
  <2> QED
    BY <2>1
<1>20. CASE Purge(s)
  <2>1. partner[s] = 0 /\ partner' = partner
    BY <1>20, <1>0 DEF Purge, Alive, ConnectedTo
  <2> QED
    BY <2>1
<1> QED
  BY <1>1, <1>2, <1>3, <1>4, <1>5, <1>6, <1>7, <1>8, <1>9, <1>10, <1>11, <1>12, <1>13,
     <1>14, <1>15, <1>16, <1>17, <1>18, <1>19, <1>20 DEF Step

LEMMA StepConnected ==
  ASSUME IInv, NEW s \in Session, Step(s)
  PROVE  ConnectedTo'
<1>1. ConnectedTo
  BY DEF IInv
<1> QED
  BY <1>1, OthersKept, OwnPartner, ConnectedKept

(* Who waits at the other end of a connection belongs to the account called. *)
QueueFrom ==
  \A s \in Session : \A k \in 1..Len(queue[s]) :
    acct[queue[s][k].from] = acct[callee[s]]
ConnFrom ==
  \A s \in Session : conn[s].from # 0 =>
    /\ pc[s] \in {"read", "told", "left", "talk"}
    /\ acct[conn[s].from] = acct[callee[s]]

LEMMA EmptyQueue ==
  ASSUME QueueFrom, TypeQueue, NEW s \in Session, acct' = acct,
         queue'[s] = <<>>,
         \A q \in Session \ {s} : queue'[q] = queue[q] /\ callee'[q] = callee[q]
  PROVE  QueueFrom'
<1>1. Len(<<>>) = 0
  OBVIOUS
<1>2. ASSUME NEW k \in 1..Len(queue'[s])
      PROVE  acct[queue'[s][k].from] = acct[callee'[s]]
  BY <1>1, <1>2 DEF QueueFrom
<1>3. ASSUME NEW q \in Session \ {s}, NEW k \in 1..Len(queue'[q])
      PROVE  acct[queue'[q][k].from] = acct[callee'[q]]
  BY <1>3 DEF QueueFrom
<1> QED
  BY <1>2, <1>3 DEF QueueFrom

LEMMA StepQueueFrom ==
  ASSUME IInv, NEW s \in Session, Step(s)
  PROVE  QueueFrom'
<1>0. TypeQueue /\ TypeCalls /\ Waiting /\ Connections /\ NotedCall
  BY TypeParts DEF IInv
<1>00. QueueFrom /\ acct' = acct
  BY <1>0, OthersKept DEF Connections, QueueFrom
<1>1. CASE Ring(s) \/ RingAgain(s) \/ (\E c \in Letter : ReadLetter(s, c)) \/
          (\E c \in Letter : AnswerNobody(s, c)) \/ TalkReplyIgnores(s) \/
          TalkReplyAsks(s) \/ ConnectFails(s) \/ ServicePage(s) \/ EndTalk(s) \/
          Purge(s)
  BY <1>1, <1>0, <1>00 DEF AnswerNobody, ConnectFails, EndTalk, Purge, ReadLetter,
       Ring, RingAgain, ServicePage, Signal, TalkReplyAsks, TalkReplyIgnores,
       QueueFrom
<1>2. ASSUME NEW t \in Session, Choose(s, t)
      PROVE  QueueFrom'
  <2>1. queue'[s] = <<>>
    BY <1>2, <1>0 DEF Choose, TypeQueue, Waiting
  <2>2. \A q \in Session \ {s} : queue'[q] = queue[q] /\ callee'[q] = callee[q]
    BY <1>2, <1>0 DEF Choose, TypeQueue, TypeCalls
  <2> QED
    BY <1>0, <1>00, <2>1, <2>2, EmptyQueue
<1>3. CASE ThinksBetter(s)
  <2>1. queue'[s] = <<>>
    BY <1>3, <1>0 DEF ThinksBetter, TypeQueue, Waiting
  <2>2. \A q \in Session \ {s} : queue'[q] = queue[q] /\ callee'[q] = callee[q]
    BY <1>3, <1>0 DEF ThinksBetter, TypeQueue, TypeCalls
  <2> QED
    BY <1>0, <1>00, <2>1, <2>2, EmptyQueue
<1>4. CASE HangUp(s)
  <2>1. queue'[s] = <<>>
    BY <1>4, <1>0 DEF HangUp, BackFromCall, CloseSocket, TypeQueue, Waiting
  <2>2. \A q \in Session \ {s} : queue'[q] = queue[q] /\ callee'[q] = callee[q]
    BY <1>4, <1>0 DEF HangUp, BackFromCall, CloseSocket, TypeQueue, TypeCalls
  <2> QED
    BY <1>0, <1>00, <2>1, <2>2, EmptyQueue
<1>5. CASE CalleeGone(s)
  <2>1. queue'[s] = <<>>
    BY <1>5, <1>0 DEF CalleeGone, BackFromCall, TypeQueue, Waiting
  <2>2. \A q \in Session \ {s} : queue'[q] = queue[q] /\ callee'[q] = callee[q]
    BY <1>5, <1>0 DEF CalleeGone, BackFromCall, TypeQueue, TypeCalls
  <2> QED
    BY <1>0, <1>00, <2>1, <2>2, EmptyQueue
<1>6. CASE Accept(s)
  <2>1. queue'[s] = <<>>
    BY <1>6, <1>0 DEF Accept, CloseSocket, TypeQueue, Waiting
  <2>2. \A q \in Session \ {s} : queue'[q] = queue[q] /\ callee'[q] = callee[q]
    BY <1>6, <1>0 DEF Accept, CloseSocket, TypeQueue, TypeCalls
  <2> QED
    BY <1>0, <1>00, <2>1, <2>2, EmptyQueue
<1>7. CASE PressReturn(s)
  <2>1. queue'[s] = <<>>
    BY <1>7, <1>0 DEF PressReturn, BackFromCall, TypeQueue, Waiting
  <2>2. \A q \in Session \ {s} : queue'[q] = queue[q] /\ callee'[q] = callee[q]
    BY <1>7, <1>0 DEF PressReturn, BackFromCall, TypeQueue, TypeCalls
  <2> QED
    BY <1>0, <1>00, <2>1, <2>2, EmptyQueue
<1>8. CASE LogDone(s)
  <2>1. queue'[s] = <<>>
    BY <1>8, <1>0 DEF LogDone, BackFromCall, TypeQueue, Waiting
  <2>2. \A q \in Session \ {s} : queue'[q] = queue[q] /\ callee'[q] = callee[q]
    BY <1>8, <1>0 DEF LogDone, BackFromCall, TypeQueue, TypeCalls
  <2> QED
    BY <1>0, <1>00, <2>1, <2>2, EmptyQueue
<1>9. CASE Leave(s)
  <2>1. queue'[s] = <<>>
    BY <1>9, <1>0 DEF Leave, End, TypeQueue, Waiting
  <2>2. \A q \in Session \ {s} : queue'[q] = queue[q] /\ callee'[q] = callee[q]
    BY <1>9, <1>0 DEF Leave, End, TypeQueue, TypeCalls
  <2> QED
    BY <1>0, <1>00, <2>1, <2>2, EmptyQueue
<1>10. CASE Killed(s)
  <2>1. queue'[s] = <<>>
    BY <1>10, <1>0 DEF Killed, End, TypeQueue, Waiting
  <2>2. \A q \in Session \ {s} : queue'[q] = queue[q] /\ callee'[q] = callee[q]
    BY <1>10, <1>0 DEF Killed, End, TypeQueue, TypeCalls
  <2> QED
    BY <1>0, <1>00, <2>1, <2>2, EmptyQueue
<1>11. ASSUME NEW c \in Letter, Answer(s, c)
      PROVE  QueueFrom'
  <2>1. PICK q \in Listeners(ui[s].port) :
          queue' = [queue EXCEPT ![q] =
            Append(queue[q], [from |-> s, said |-> IF c = "m" THEN "nothing" ELSE c])]
    BY <1>11 DEF Answer
  <2>2. q \in Session /\ acct[s] = acct[callee[q]]
    BY <1>0, <2>1 DEF NotedCall, Listeners
  <2>3. callee' = callee
    BY <1>11 DEF Answer
  <2> DEFINE e == [from |-> s, said |-> IF c = "m" THEN "nothing" ELSE c]
  <2>4. queue'[q] = Append(queue[q], e) /\ \A r \in Session \ {q} : queue'[r] = queue[r]
    BY <1>0, <2>1, <2>2 DEF TypeQueue
  <2>5. ASSUME NEW k \in 1..Len(queue'[q])
        PROVE  acct[queue'[q][k].from] = acct[callee[q]]
    <3>1. queue[q] \in Seq(Connection) /\ Len(queue[q]) \in Nat
      BY <1>0, <2>2 DEF TypeQueue
    <3>2. queue'[q][k] = IF k <= Len(queue[q]) THEN queue[q][k] ELSE e
      BY <2>4, <3>1
    <3>3. CASE k <= Len(queue[q])
      BY <1>00, <2>2, <3>1, <3>2, <3>3 DEF QueueFrom
    <3>4. CASE ~ (k <= Len(queue[q]))
      BY <2>2, <3>2, <3>4
    <3> QED
      BY <3>3, <3>4
  <2>6. ASSUME NEW r \in Session \ {q}, NEW k \in 1..Len(queue'[r])
        PROVE  acct[queue'[r][k].from] = acct[callee[r]]
    BY <1>00, <2>4, <2>6 DEF QueueFrom
  <2>7. \A r \in Session : \A k \in 1..Len(queue'[r]) :
          acct[queue'[r][k].from] = acct[callee[r]]
    BY <2>5, <2>6
  <2> QED
    BY <1>00, <2>3, <2>7 DEF QueueFrom
<1>12. CASE Reason(s)
  <2>1. callee' = callee
    BY <1>12 DEF Reason
  <2>2. ASSUME NEW q \in Session, NEW k \in 1..Len(queue'[q])
        PROVE  acct[queue'[q][k].from] = acct[callee[q]]
    <3>1. queue[q] \in Seq(Connection) /\ queue'[q] \in Seq(Connection)
      BY <1>0, StepQueue DEF TypeQueue
    <3>2. queue'[q] = [i \in 1..Len(queue[q]) |-> Said(queue[q][i], s)]
      BY <1>12 DEF Reason
    <3>3. k \in 1..Len(queue[q])
      <4>1. DOMAIN queue'[q] = 1..Len(queue'[q])
        BY <3>1
      <4> QED
        BY <2>2, <3>2, <4>1
    <3>4. queue'[q][k] = Said(queue[q][k], s) /\ queue[q][k] \in Connection
      BY <3>1, <3>2, <3>3
    <3>5. queue'[q][k].from = queue[q][k].from
      BY <3>4 DEF Said
    <3> QED
      BY <1>00, <3>3, <3>5 DEF QueueFrom
  <2> QED
    BY <1>00, <2>1, <2>2 DEF QueueFrom
<1> QED
  BY <1>1, <1>2, <1>3, <1>4, <1>5, <1>6, <1>7, <1>8, <1>9, <1>10, <1>11, <1>12 DEF
     Step

LEMMA OwnConn ==
  ASSUME IInv, NEW s \in Session, Step(s)
  PROVE  conn'[s].from # 0 =>
           /\ pc'[s] \in {"read", "told", "left", "talk"}
           /\ acct[conn'[s].from] = acct[callee'[s]]
<1>0. TypePc /\ TypeConn /\ TypeQueue /\ Waiting /\ Connections /\ TypeFixed
  BY TypeParts DEF IInv
<1>00. QueueFrom /\ ConnFrom
  BY <1>0 DEF Connections, QueueFrom, ConnFrom
<1>2. ASSUME NEW t \in Session, Choose(s, t)
      PROVE  conn'[s].from # 0 =>
           /\ pc'[s] \in {"read", "told", "left", "talk"}
           /\ acct[conn'[s].from] = acct[callee'[s]]
  <2>1. conn[s].from = 0 /\ conn'[s] = conn[s]
    BY <1>2, <1>0, <1>00 DEF Choose, Alive, ConnFrom
  <2> QED
    BY <2>1
<1>3. CASE ThinksBetter(s)
  <2>1. conn[s].from = 0 /\ conn'[s] = conn[s]
    BY <1>3, <1>0, <1>00 DEF ThinksBetter, Alive, ConnFrom
  <2> QED
    BY <2>1
<1>4. CASE Ring(s)
  <2>1. conn[s].from = 0 /\ conn'[s] = conn[s]
    BY <1>4, <1>0, <1>00 DEF Ring, Alive, ConnFrom
  <2> QED
    BY <2>1
<1>5. CASE RingAgain(s)
  <2>1. conn[s].from = 0 /\ conn'[s] = conn[s]
    BY <1>5, <1>0, <1>00 DEF RingAgain, Alive, ConnFrom
  <2> QED
    BY <2>1
<1>6. CASE HangUp(s)
  <2>1. conn'[s] = NoConn
    BY <1>6, <1>0, <1>00 DEF HangUp, BackFromCall, TypeConn
  <2> QED
    BY <2>1 DEF NoConn
<1>7. CASE CalleeGone(s)
  <2>1. conn'[s] = NoConn
    BY <1>7, <1>0, <1>00 DEF CalleeGone, BackFromCall, TypeConn
  <2> QED
    BY <2>1 DEF NoConn
<1>8. CASE Accept(s)
  <2>1. conn'[s] = queue[s][1] /\ pc'[s] = "read" /\ callee' = callee
    BY <1>8, <1>0 DEF Accept, Goto, TypePc, TypeConn, TypeQueue
  <2>2. 1 \in 1..Len(queue[s])
    BY <1>8, <1>0 DEF Accept, TypeQueue
  <2>3. acct[queue[s][1].from] = acct[callee[s]]
    BY <1>00, <2>2 DEF QueueFrom
  <2> QED
    BY <2>1, <2>3
<1>9. ASSUME NEW c \in Letter, ReadLetter(s, c)
      PROVE  conn'[s].from # 0 =>
           /\ pc'[s] \in {"read", "told", "left", "talk"}
           /\ acct[conn'[s].from] = acct[callee'[s]]
  <2>1. pc[s] = "read" /\ pc'[s] \in {"talk", "told", "left"}
    BY <1>9, <1>0 DEF ReadLetter, Goto, TypePc
  <2>2. conn' = conn /\ callee' = callee
    BY <1>9 DEF ReadLetter
  <2> QED
    BY <1>00, <2>1, <2>2 DEF ConnFrom
<1>10. ASSUME NEW c \in Letter, Answer(s, c)
      PROVE  conn'[s].from # 0 =>
           /\ pc'[s] \in {"read", "told", "left", "talk"}
           /\ acct[conn'[s].from] = acct[callee'[s]]
  <2>1. conn[s].from = 0 /\ conn'[s] = conn[s]
    BY <1>10, <1>0, <1>00 DEF Answer, Alive, ConnFrom
  <2> QED
    BY <2>1
<1>11. ASSUME NEW c \in Letter, AnswerNobody(s, c)
      PROVE  conn'[s].from # 0 =>
           /\ pc'[s] \in {"read", "told", "left", "talk"}
           /\ acct[conn'[s].from] = acct[callee'[s]]
  <2>1. conn[s].from = 0 /\ conn'[s] = conn[s]
    BY <1>11, <1>0, <1>00 DEF AnswerNobody, Alive, ConnFrom
  <2> QED
    BY <2>1
<1>12. CASE PressReturn(s)
  <2>1. CASE pc[s] = "told"
    <3>1. conn'[s] = NoConn
      BY <1>12, <2>1, <1>0 DEF PressReturn, BackFromCall, TypeConn
    <3> QED
      BY <3>1 DEF NoConn
  <2>2. CASE pc[s] = "left"
    <3>1. conn' = conn /\ callee' = callee /\ pc'[s] = "talk"
      BY <1>12, <2>2, <1>0 DEF PressReturn, Goto, TypePc
    <3> QED
      BY <1>00, <2>2, <3>1 DEF ConnFrom
  <2> QED
    BY <1>12, <2>1, <2>2 DEF PressReturn
<1>13. CASE TalkReplyIgnores(s)
  <2>1. conn[s].from = 0 /\ conn'[s] = conn[s]
    BY <1>13, <1>0, <1>00 DEF TalkReplyIgnores, Alive, ConnFrom
  <2> QED
    BY <2>1
<1>14. CASE TalkReplyAsks(s)
  <2>1. conn[s].from = 0 /\ conn'[s] = conn[s]
    BY <1>14, <1>0, <1>00 DEF TalkReplyAsks, Alive, ConnFrom
  <2> QED
    BY <2>1
<1>15. CASE ConnectFails(s)
  <2>1. conn[s].from = 0 /\ conn'[s] = conn[s]
    BY <1>15, <1>0, <1>00 DEF ConnectFails, Alive, ConnFrom
  <2> QED
    BY <2>1
<1>16. CASE Reason(s)
  <2>1. conn[s].from = 0
    BY <1>16, <1>00 DEF Reason, ConnFrom
  <2>2. conn'[s] = Said(conn[s], s) /\ conn[s] \in [from : 0..Slots, said : Letter \cup {"nothing"}]
    BY <1>16, <1>0 DEF Reason, TypeConn
  <2>3. conn'[s].from = 0
    BY <2>1, <2>2, SaidType
  <2> QED
    BY <2>3
<1>17. CASE ServicePage(s)
  <2>1. conn' = conn /\ callee' = callee /\ pc' = pc
    BY <1>17 DEF ServicePage
  <2> QED
    BY <1>00, <2>1 DEF ConnFrom
<1>18. CASE EndTalk(s)
  <2>1. conn'[s] = NoConn
    BY <1>18, <1>0, <1>00 DEF EndTalk, TypeConn
  <2> QED
    BY <2>1 DEF NoConn
<1>19. CASE LogDone(s)
  <2>1. CASE callee[s] # 0
    <3>1. conn'[s] = NoConn
      BY <1>19, <2>1, <1>0 DEF LogDone, BackFromCall, TypeConn
    <3> QED
      BY <3>1 DEF NoConn
  <2>2. CASE callee[s] = 0
    <3>1. conn[s].from = 0 /\ conn' = conn
      BY <1>19, <2>2, <1>00 DEF LogDone, ConnFrom
    <3> QED
      BY <3>1
  <2> QED
    BY <2>1, <2>2
<1>20. CASE Leave(s)
  <2>1. conn'[s] = NoConn
    BY <1>20, <1>0, <1>00 DEF Leave, End, TypeConn
  <2> QED
    BY <2>1 DEF NoConn
<1>21. CASE Killed(s)
  <2>1. conn'[s] = NoConn
    BY <1>21, <1>0, <1>00 DEF Killed, End, TypeConn
  <2> QED
    BY <2>1 DEF NoConn
<1>22. CASE Purge(s)
  <2>1. conn[s].from = 0 /\ conn'[s] = conn[s]
    BY <1>22, <1>0, <1>00 DEF Purge, Alive, ConnFrom
  <2> QED
    BY <2>1
<1> QED
  BY <1>2, <1>3, <1>4, <1>5, <1>6, <1>7, <1>8, <1>9, <1>10, <1>11, <1>12, <1>13,
     <1>14, <1>15, <1>16, <1>17, <1>18, <1>19, <1>20, <1>21, <1>22 DEF Step

LEMMA ConnKept ==
  ASSUME IInv, NEW s \in Session, Step(s), NEW q \in Session \ {s}
  PROVE  conn'[q].from = conn[q].from
<1>0. TypeConn
  BY TypeParts DEF IInv
<1>1. CASE Reason(s)
  <2>1. conn'[q] = Said(conn[q], s) /\ conn[q] \in [from : 0..Slots, said : Letter \cup {"nothing"}]
    BY <1>0, <1>1 DEF Reason, TypeConn
  <2> QED
    BY <2>1, SaidType
<1>2. CASE ~ Reason(s)
  <2>1. conn' = conn \/ \E v : conn' = [conn EXCEPT ![s] = v]
    BY <1>2 DEF Step, Choose, ThinksBetter, Ring, RingAgain, HangUp, CalleeGone, Accept,
       ReadLetter, Answer, AnswerNobody, PressReturn, TalkReplyIgnores, TalkReplyAsks,
       ConnectFails, ServicePage, EndTalk, LogDone, Leave, Killed, Purge, BackFromCall,
       CloseSocket, End
  <2> QED
    BY <1>0, <2>1 DEF TypeConn
<1> QED
  BY <1>1, <1>2

LEMMA StepConnections ==
  ASSUME IInv, NEW s \in Session, Step(s)
  PROVE  Connections'
<1>1. QueueFrom'
  BY StepQueueFrom
<1>2. ASSUME NEW q \in Session, conn'[q].from # 0
      PROVE  /\ pc'[q] \in {"read", "told", "left", "talk"}
             /\ acct'[conn'[q].from] = acct'[callee'[q]]
  <2>1. acct' = acct
    BY OthersKept
  <2>2. CASE q = s
    BY <1>2, <2>1, <2>2, OwnConn
  <2>3. CASE q # s
    <3>1. conn'[q].from = conn[q].from
      BY <2>3, ConnKept
    <3>2. pc'[q] = pc[q] /\ callee'[q] = callee[q]
      BY <2>3, OthersKept
    <3>3. ConnFrom
      BY DEF IInv, Connections, ConnFrom
    <3> QED
      BY <1>2, <2>1, <3>1, <3>2, <3>3 DEF ConnFrom
  <2> QED
    BY <2>2, <2>3
<1> QED
  BY <1>1, <1>2 DEF Connections, QueueFrom

LEMMA InitIInv == Init => IInv
<1> SUFFICES ASSUME Init PROVE IInv
  OBVIOUS
<1>1. 0 \in 0..MaxCalls /\ 0 \in 0..Slots /\ Len(<<>>) = 0 /\ Backlog \in Nat
  BY TalkAssumption
<1>2. TypeFixed /\ TypePc /\ TypeFlags /\ TypeCalls
  BY <1>1 DEF Init, TypeFixed, TypePc, TypeFlags, TypeCalls, Label
<1>3. TypeEntry
  BY Entries DEF Init, TypeEntry
<1>4. TypeUi /\ TypeQueue /\ TypeConn /\ Waiting
  BY <1>1 DEF Init, TypeUi, TypeQueue, TypeConn, Waiting, NoUi, NoConn, Letter
<1>5. PortsDiffer /\ EntryOfCaller /\ NotedCall /\ ConnectedTo
  BY <1>1 DEF Init, PortsDiffer, EntryOfCaller, NotedCall, ConnectedTo, Fresh, NoUi
<1>6. Connections
  BY <1>1 DEF Init, Connections, NoConn
<1> QED
  BY <1>2, <1>3, <1>4, <1>5, <1>6, TypeParts DEF IInv

LEMMA NextIInv == IInv /\ [Next]_vars => IInv'
<1> SUFFICES ASSUME IInv, [Next]_vars PROVE IInv'
  OBVIOUS
<1>1. CASE Next
  <2>1. PICK s \in Session : Step(s)
    BY <1>1 DEF Next
  <2> QED
    BY <2>1, StepType, StepPorts, StepCaller, StepNoted, StepConnected, StepConnections
       DEF IInv
<1>2. CASE UNCHANGED vars
  <2>1. TypeOK'
    BY <1>2 DEF vars, IInv, TypeOK
  <2>2. PortsDiffer' /\ EntryOfCaller'
    BY <1>2 DEF vars, IInv, PortsDiffer, EntryOfCaller
  <2>3. NotedCall' /\ ConnectedTo'
    BY <1>2 DEF vars, IInv, NotedCall, ConnectedTo
  <2>4. Connections'
    BY <1>2 DEF vars, IInv, Connections
  <2> QED
    BY <2>1, <2>2, <2>3, <2>4 DEF IInv
<1> QED
  BY <1>1, <1>2

LEMMA Inductive == Spec => []IInv
BY InitIInv, NextIInv, PTL DEF Spec

(* Every variable of every session has its type; a port that is left behind   *)
(* is one that was opened, and connections wait only where somebody accepts.  *)
THEOREM TalkTypeCorrect == Spec => []TypeOK
<1>1. IInv => TypeOK
  BY DEF IInv
<1> QED
  BY <1>1, Inductive, PTL

(* Whoever reads a letter reads it from the account he called, and two who    *)
(* talk are shown each other's names, however many calls went astray before.  *)
THEOREM TalkRightPartner == Spec => []RightPartner
<1>1. IInv => RightPartner
  <2> SUFFICES ASSUME IInv, NEW s \in Session, NEW t \in Session
      PROVE  /\ conn[s].from = t => acct[t] = acct[callee[s]]
             /\ Joined(s, t) => ui[t].acct = acct[s]
    BY DEF RightPartner
  <2>1. s # 0 /\ t # 0
    OBVIOUS
  <2>2. conn[s].from = t => acct[t] = acct[callee[s]]
    BY <2>1 DEF IInv, Connections
  <2>3. Joined(s, t) => ui[t].acct = acct[s]
    BY <2>1 DEF IInv, ConnectedTo, Joined
  <2> QED
    BY <2>2, <2>3
<1> QED
  BY <1>1, Inductive, PTL

(* Where an entry that names the account does not hide the one who waits for it, *)
(* the request that is dropped is nobody's.                                  *)
LEMMA NotFound ==
  ASSUME EntryOfCaller, NEW t \in Session, ~ Found(t)
  PROVE  \/ \A s \in Session : pc[s] = "page" => acct[callee[s]] # acct[t]
         \/ Shadowed(t)
<1>1. CASE First(t) = 0
  <2> SUFFICES ASSUME NEW s \in Session, pc[s] = "page", acct[callee[s]] = acct[t]
      PROVE  FALSE
    OBVIOUS
  <2>1. s \in Named(t)
    BY DEF EntryOfCaller, Named
  <2>2. First(t) = CHOOSE r \in Named(t) : \A q \in Named(t) : r <= q
    BY <2>1 DEF First
  <2>3. \E r \in Named(t) : \A q \in Named(t) : r <= q
    <3>1. Named(t) \in SUBSET Nat /\ Named(t) # {}
      BY <2>1 DEF Named
    <3> QED
      BY <3>1, Smallest
  <2>4. First(t) \in Named(t)
    BY <2>2, <2>3
  <2> QED
    BY <1>1, <2>4 DEF Named
<1>2. CASE First(t) # 0
  <2>1. First(t) \in Session /\ ~ uinfo[First(t)].ringing
    BY <1>2, FirstNamed DEF Found
  <2>2. pc[First(t)] # "page"
    BY <2>1 DEF EntryOfCaller
  <2> QED
    BY <1>2, <2>2 DEF Shadowed
<1> QED
  BY <1>1, <1>2

LEMMA DroppedHow ==
  ASSUME IInv, NEW s \in Session, Step(s), NEW t \in Session,
         flag[t], ~ flag'[t], pc'[t] \notin {"ask", "gone"}
  PROVE  ~ Found(t)
<1>0. TypeFlags /\ TypePc
  BY TypeParts DEF IInv
<1>1. CASE TalkReplyIgnores(s)
  BY <1>0, <1>1 DEF TalkReplyIgnores, TypeFlags
<1>2. CASE ServicePage(s)
  BY <1>0, <1>2 DEF ServicePage, TypeFlags
<1>3. CASE TalkReplyAsks(s)
  BY <1>0, <1>3 DEF TalkReplyAsks, Goto, TypeFlags, TypePc
<1>4. CASE Leave(s) \/ Killed(s)
  BY <1>0, <1>4 DEF Leave, Killed, End, Goto, TypeFlags, TypePc
<1>5. CASE Ring(s) \/ RingAgain(s)
  BY <1>0, <1>5 DEF Ring, RingAgain, Signal, TypeFlags
<1>6. CASE ~ (\/ TalkReplyIgnores(s) \/ ServicePage(s) \/ TalkReplyAsks(s) \/ Leave(s)
              \/ Killed(s) \/ Ring(s) \/ RingAgain(s))
  <2>1. flag' = flag
    BY <1>6 DEF Step, Choose, ThinksBetter, HangUp, CalleeGone, Accept, ReadLetter,
       Answer, AnswerNobody, PressReturn, ConnectFails, Reason, EndTalk, LogDone, Purge
  <2> QED
    BY <2>1
<1> QED
  BY <1>1, <1>2, <1>3, <1>4, <1>5, <1>6

(* A request for a talk is dropped without asking only when nobody waits for   *)
(* the account, or another entry that names it stands before the caller's.    *)
THEOREM TalkDroppedWithReason == Spec => DroppedWithReason
<1>1. IInv /\ [Next]_vars =>
        [\A t \in Session :
           (flag[t] /\ ~flag'[t] /\ pc'[t] \notin {"ask", "gone"}) =>
             \/ \A s \in Session : pc[s] = "page" => acct[callee[s]] # acct[t]
             \/ Shadowed(t)]_vars
  <2> SUFFICES ASSUME IInv, Next, NEW t \in Session,
                      flag[t], ~ flag'[t], pc'[t] \notin {"ask", "gone"}
      PROVE  \/ \A s \in Session : pc[s] = "page" => acct[callee[s]] # acct[t]
             \/ Shadowed(t)
    OBVIOUS
  <2>1. ~ Found(t)
    BY DroppedHow DEF Next
  <2>2. EntryOfCaller
    BY DEF IInv
  <2> QED
    BY <2>1, <2>2, NotFound
<1> QED
  BY <1>1, Inductive, PTL DEF Spec, DroppedWithReason

=============================================================================
