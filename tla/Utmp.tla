-------------------------------- MODULE Utmp --------------------------------
(***************************************************************************)
(* The list of users on line: utmpshm->uinfo, a table in shared memory      *)
(* that every session reads and writes by itself.  Taking a free slot is    *)
(* done under flock on ULIST; everything else is not: a session writes its  *)
(* own slot blindly ever after, a session that has just logged in clears    *)
(* the slots of dead processes when nobody did so for a minute, and a user  *)
(* who throws a session out writes its slot for it.                         *)
(*                                                                         *)
(* A session is one process from the moment it is connected; a process id   *)
(* is not used twice.                                                       *)
(***************************************************************************)
EXTENDS Integers, FiniteSets

CONSTANTS
  Session,        \* processes
  Ghost,          \* those that were killed before, whose entry may be left
  User,           \* accounts
  Account,        \* Account[p]: whom session p logs in as
  Sysop,          \* accounts with PERM_SYSOP
  Exempt,         \* accounts with PERM_MULTILOG
  Guest,          \* {} or the account "guest"
  MaxActive,      \* MAXACTIVE
  UshmSize,       \* USHM_SIZE
  MultiLogins,    \* MULTI_LOGINS
  MaxGuest,       \* MAXGUEST
  NoUser, NoPid   \* uid 0 and pid 0

ASSUME UtmpAssumption ==
  /\ Account \in [Session -> User] /\ Ghost \subseteq Session
  /\ Sysop \cup Exempt \cup Guest \subseteq User
  /\ MaxActive \in Nat /\ UshmSize \in Nat \ {0}
  /\ MultiLogins \in Nat /\ MaxGuest \in Nat
  /\ NoUser \notin User /\ NoPid \notin Session

Slot == 1..UshmSize       \* utmpent: the index in uinfo plus 1

VARIABLES
  uinfo,     \* utmpshm->uinfo
  due,       \* now > utmpshm->uptime + 60
  pc,        \* where a session is
  utmpent,   \* its slot; 0 when it has none
  seen,      \* the process id it has read from the list
  at,        \* the slot it is looking at
  evicted,   \* history: live sessions whose entry somebody else wrote over,
             \* until they write it again
  missed     \* history: accounts that logged in while another session of
             \* theirs could not be counted

vars == <<uinfo, due, pc, utmpent, seen, at, evicted, missed>>

(* struct user_info as far as it matters here                               *)
UserInfo ==
  [active : BOOLEAN, uid : User \cup {NoUser}, pid : Session \cup {NoPid}]

Zero == [active |-> FALSE, uid |-> NoUser, pid |-> NoPid]

(* What u_enter fills in, and what u_exit and kick_user leave of it.        *)
OwnEntry(p) == [active |-> TRUE, uid |-> Account[p], pid |-> p]
LeftEntry(u) == [active |-> FALSE, uid |-> u, pid |-> NoPid]

LoggingIn == {"login", "ask", "enter"}
InList == {"entered", "stamp", "scan", "probe", "wipe", "in", "kick"}
Alive == LoggingIn \cup InList \cup {"left"}

TypeOK ==
  /\ uinfo \in [Slot -> UserInfo]
  /\ due \in BOOLEAN
  /\ pc \in [Session -> {"new", "dead"} \cup Alive]
  /\ utmpent \in [Session -> Slot \cup {0}]
  /\ seen \in [Session -> Session \cup {NoPid}]
  /\ at \in [Session -> 0..(UshmSize + 1)]
  /\ evicted \subseteq Session
  /\ missed \subseteq User

Init ==
  /\ LET none == [i \in Slot |-> Zero]
     IN \/ uinfo = none
        \/ \E i \in Slot, g \in Ghost : uinfo = [none EXCEPT ![i] = OwnEntry(g)]
  /\ due = FALSE
  /\ pc = [p \in Session |-> IF p \in Ghost THEN "dead" ELSE "new"]
  /\ utmpent = [p \in Session |-> 0]
  /\ seen = [p \in Session |-> NoPid]
  /\ at = [p \in Session |-> 0]
  /\ evicted = {} /\ missed = {}

-----------------------------------------------------------------------------
(* Looking at the list                                                      *)

IsAlive(p) == pc[p] \in Alive

Used(i) == uinfo[i].active /\ uinfo[i].pid # NoPid

(* num_active_users and count_user                                          *)
Active == {i \in Slot : Used(i)}
Logins(u) == {i \in Active : uinfo[i].uid = u}

FirstOf(S, i) == i \in S /\ \A j \in S : i <= j

(* search_ulist with cmpuids2: entries that were left count as well.        *)
Entries(u) == {i \in Slot : uinfo[i].uid = u}

(* Live sessions that miss their entry when slot i is written.              *)
Robbed(i) == {q \in Session : uinfo[i] = OwnEntry(q) /\ IsAlive(q)}

Goto(p, label) == pc' = [pc EXCEPT ![p] = label]

(* What p has read goes out of scope.                                       *)
Forget(p) ==
  /\ seen' = [seen EXCEPT ![p] = NoPid]
  /\ at' = [at EXCEPT ![p] = 0]

(* Slot i is written, whoever's it is ...                                   *)
Write(i, entry) ==
  /\ uinfo' = [uinfo EXCEPT ![i] = entry]
  /\ evicted' = evicted \cup Robbed(i)

(* ... or by p, who takes it for its own.                                   *)
WriteAs(p, i, entry) ==
  /\ uinfo' = [uinfo EXCEPT ![i] = entry]
  /\ evicted' = (evicted \cup Robbed(i)) \ {p}

(* update_ulist does nothing for a session without a slot.                  *)
WriteOwn(p, entry) ==
  IF utmpent[p] = 0 THEN UNCHANGED <<uinfo, evicted>>
  ELSE WriteAs(p, utmpent[p], entry)

(* p has ended: neither its slot nor its history matters any more.          *)
Gone(p) ==
  /\ utmpent' = [utmpent EXCEPT ![p] = 0]
  /\ evicted' = evicted \ {p}

-----------------------------------------------------------------------------
(* Logging in                                                               *)

(* A minute goes by.                                                        *)
Elapse ==
  /\ ~due /\ due' = TRUE
  /\ UNCHANGED <<uinfo, pc, utmpent, seen, at, evicted, missed>>

(* login_query: no more than MAXACTIVE users.                               *)
Connect(p) ==
  /\ pc[p] = "new"
  /\ Goto(p, IF Cardinality(Active) >= MaxActive THEN "dead" ELSE "login")
  /\ UNCHANGED <<uinfo, due, utmpent, seen, at, evicted, missed>>

(* Seeded fault: one login too many.                                        *)
OneTooMany(u) ==
  Cardinality(Logins(u)) > IF u \in Guest THEN MaxGuest ELSE MultiLogins

TooMany(u) ==
  IF u \in Guest THEN Cardinality(Logins(u)) > MaxGuest
  ELSE Cardinality(Logins(u)) >= MultiLogins

(* The sessions of u that have passed the check and have not left ...       *)
Admitted(u) ==
  {q \in Session : Account[q] = u /\ pc[q] \in {"ask", "enter"} \cup InList}

(* ... and those of them that are not in the list (yet, or no longer).      *)
Unlisted(u) == {q \in Admitted(u) : \A i \in Slot : uinfo[i] # OwnEntry(q)}

(* multi_user_check: refused, under heavyload() even a second login.        *)
RefuseLogin(p) ==
  /\ pc[p] = "login" /\ Account[p] \notin Exempt
  /\ TooMany(Account[p]) \/ Logins(Account[p]) # {}
  /\ Goto(p, "dead")
  /\ UNCHANGED <<uinfo, due, utmpent, seen, at, evicted, missed>>

(* The first entry of the account is looked up; if it is of a live process, *)
(* the user is asked whether to remove that one.                            *)
AllowLogin(p) ==
  LET u == Account[p]
  IN /\ pc[p] = "login"
     /\ u \in Exempt \/ ~TooMany(u)
     /\ missed' = IF Unlisted(u) = {} THEN missed ELSE missed \cup {u}
     /\ \/ /\ u \in Exempt \cup Guest \/ Entries(u) = {}
           /\ Goto(p, "enter") /\ UNCHANGED seen
        \/ /\ u \notin Exempt \cup Guest
           /\ \E i \in Entries(u) :
                /\ FirstOf(Entries(u), i)
                /\ IF Used(i) /\ IsAlive(uinfo[i].pid)
                   THEN /\ Goto(p, "ask")
                        /\ seen' = [seen EXCEPT ![p] = uinfo[i].pid]
                   ELSE Goto(p, "enter") /\ UNCHANGED seen
     /\ UNCHANGED <<uinfo, due, utmpent, at, evicted>>

(* The answer: N, or Y and kill(uin.pid, 9).                                *)
Answer(p) ==
  /\ pc[p] = "ask"
  /\ \/ /\ Goto(p, "enter")
        /\ UNCHANGED <<utmpent, evicted>>
     \/ /\ pc' = [pc EXCEPT ![p] = "enter", ![seen[p]] = "dead"]
        /\ Gone(seen[p])
  /\ Forget(p)
  /\ UNCHANGED <<uinfo, due, missed>>

(* Seeded fault: the slot was looked for before the lock was taken, and may  *)
(* be somebody's by now.                                                    *)
AnySlot == Slot

(* getnewutmpent: under the lock the first slot that is free is taken.      *)
FreeSlots == {i \in Slot : ~Used(i)}

Enter(p) ==
  /\ pc[p] = "enter"
  /\ \/ \E i \in FreeSlots :
          /\ FirstOf(FreeSlots, i)
          /\ uinfo' = [uinfo EXCEPT ![i] = OwnEntry(p)]
          /\ utmpent' = [utmpent EXCEPT ![p] = i]
          /\ Goto(p, "entered")
     \/ /\ FreeSlots = {}
        /\ Goto(p, "in")
        /\ UNCHANGED <<uinfo, utmpent>>
  /\ UNCHANGED <<due, seen, at, evicted, missed>>

-----------------------------------------------------------------------------
(* The purge, after the lock was given back                                 *)

ReadUptime(p) ==
  /\ pc[p] = "entered"
  /\ Goto(p, IF due THEN "stamp" ELSE "in")
  /\ UNCHANGED <<uinfo, due, utmpent, seen, at, evicted, missed>>

StampUptime(p) ==
  /\ pc[p] = "stamp"
  /\ due' = FALSE
  /\ at' = [at EXCEPT ![p] = 1]
  /\ Goto(p, "scan")
  /\ UNCHANGED <<uinfo, utmpent, seen, evicted, missed>>

(* The process id of the entry is read ...                                  *)
Scan(p) ==
  /\ pc[p] = "scan"
  /\ \/ /\ at[p] > UshmSize
        /\ Goto(p, "in") /\ Forget(p)
     \/ /\ at[p] <= UshmSize /\ Used(at[p])
        /\ seen' = [seen EXCEPT ![p] = uinfo[at[p]].pid]
        /\ Goto(p, "probe") /\ UNCHANGED at
     \/ /\ at[p] <= UshmSize /\ ~Used(at[p])
        /\ at' = [at EXCEPT ![p] = @ + 1]
        /\ UNCHANGED <<pc, seen>>
  /\ UNCHANGED <<uinfo, due, utmpent, evicted, missed>>

(* Seeded fault: an entry is taken for a dead one unless its process is the  *)
(* one that looks.                                                          *)
ProbeSelf(p) ==
  /\ pc[p] = "probe"
  /\ \/ /\ seen[p] # p
        /\ Goto(p, "wipe") /\ UNCHANGED at
     \/ /\ seen[p] = p
        /\ at' = [at EXCEPT ![p] = @ + 1] /\ Goto(p, "scan")
  /\ UNCHANGED <<uinfo, due, utmpent, seen, evicted, missed>>

(* ... then kill(pid, 0) asks for the process ...                           *)
Probe(p) ==
  /\ pc[p] = "probe"
  /\ \/ /\ ~IsAlive(seen[p])
        /\ Goto(p, "wipe") /\ UNCHANGED at
     \/ /\ IsAlive(seen[p])
        /\ at' = [at EXCEPT ![p] = @ + 1] /\ Goto(p, "scan")
  /\ UNCHANGED <<uinfo, due, utmpent, seen, evicted, missed>>

(* ... and when there is none the entry, whoever's it is now, is cleared.   *)
Wipe(p) ==
  /\ pc[p] = "wipe"
  /\ Write(at[p], Zero)
  /\ at' = [at EXCEPT ![p] = @ + 1]
  /\ Goto(p, "scan")
  /\ UNCHANGED <<due, utmpent, seen, missed>>

-----------------------------------------------------------------------------
(* On line, and leaving                                                     *)

(* update_utmp, modify_user_mode                                            *)
Update(p) ==
  /\ pc[p] \in {"in", "kick"}
  /\ WriteOwn(p, OwnEntry(p))
  /\ UNCHANGED <<due, pc, utmpent, seen, at, missed>>

(* Q_Goodbye: u_exit, then a key is waited for.                             *)
Leave(p) ==
  /\ pc[p] = "in"
  /\ WriteOwn(p, LeftEntry(Account[p]))
  /\ Goto(p, "left")
  /\ UNCHANGED <<due, utmpent, seen, at, missed>>

Quit(p) ==
  /\ pc[p] = "left"
  /\ Goto(p, "dead") /\ Gone(p)
  /\ UNCHANGED <<uinfo, due, seen, at, missed>>

(* abort_bbs, system_abort: u_exit once the session has "started", which it *)
(* still has when it has left already.                                      *)
Abort(p) ==
  /\ pc[p] \in {"in", "kick", "left"}
  /\ WriteOwn(p, LeftEntry(Account[p]))
  /\ utmpent' = [utmpent EXCEPT ![p] = 0]
  /\ Goto(p, "dead") /\ Forget(p)
  /\ UNCHANGED <<due, missed>>

(* The process is killed or crashes, or its connection is lost before it    *)
(* has "started": its entry, if any, stays.                                 *)
Die(p) ==
  /\ IsAlive(p)
  /\ Goto(p, "dead") /\ Forget(p) /\ Gone(p)
  /\ UNCHANGED <<uinfo, due, missed>>

(* kick_user, part 1: SIGHUP to the process of entry i (which may run       *)
(* abort_bbs from now on, as it may anyway).  From the list of users, where *)
(* everybody may also choose a session of his own, ind is YEA, that is 1.   *)
Kick(p, i, byname) ==
  /\ pc[p] = "in"
  /\ Used(i) /\ IsAlive(uinfo[i].pid)
  /\ \/ Account[p] \in Sysop
     \/ ~byname /\ uinfo[i].uid = Account[p]
  /\ byname => FirstOf(Logins(uinfo[i].uid), i)
  /\ seen' = [seen EXCEPT ![p] = uinfo[i].pid]
  /\ at' = [at EXCEPT ![p] = IF byname THEN i ELSE 1]
  /\ Goto(p, "kick")
  /\ UNCHANGED <<uinfo, due, utmpent, evicted, missed>>

(* Part 2: the copy of the entry, made inactive, is written at ind.         *)
KickWrite(p) ==
  /\ pc[p] = "kick"
  /\ Write(at[p], LeftEntry(Account[seen[p]]))
  /\ Goto(p, "in") /\ Forget(p)
  /\ UNCHANGED <<due, utmpent, missed>>

Step(p) ==
  \/ Connect(p) \/ RefuseLogin(p) \/ AllowLogin(p) \/ Answer(p) \/ Enter(p)
  \/ ReadUptime(p) \/ StampUptime(p) \/ Scan(p) \/ Probe(p) \/ Wipe(p)
  \/ Update(p) \/ Leave(p) \/ Quit(p) \/ Abort(p) \/ Die(p)
  \/ \E i \in Slot, byname \in BOOLEAN : Kick(p, i, byname)
  \/ KickWrite(p)

Next == Elapse \/ \E p \in Session : Step(p)

Spec == Init /\ [][Next]_vars

-----------------------------------------------------------------------------
(* Properties                                                               *)

HasSlot(p) == pc[p] \in InList /\ utmpent[p] # 0

(* getnewutmpent, update_utmp: a session whose entry nobody wrote over has   *)
(* it in its slot, whoever else logs in, leaves, dies or purges meanwhile.   *)
KeepsEntry ==
  \A p \in Session \ evicted : HasSlot(p) => uinfo[utmpent[p]] = OwnEntry(p)

(* No process is in the list twice, whatever was written over: users are not *)
(* counted double, and a signal for an entry reaches the user it shows.      *)
ListedOnce ==
  \A i, j \in Slot :
    (uinfo[i].pid = uinfo[j].pid /\ uinfo[i].pid # NoPid) => i = j

(* multi_user_check: an account is on line at most MULTI_LOGINS times, unless *)
(* one of its sessions was let in while another had passed the check but not *)
(* taken its slot, had found no slot or had its entry written over.          *)
LimitKept ==
  \A u \in User \ (missed \cup Exempt \cup Guest) :
    Cardinality(Admitted(u)) <= MultiLogins

(* How the entry of a live session q in slot i may come to an end in a step. *)
Reason(q, i) ==
  \/ pc'[q] \in {"left", "dead"}
  \/ \E p \in Session :
       \/ pc[p] = "kick" /\ pc'[p] = "in" /\ at[p] = i
       \/ pc[p] = "wipe" /\ pc'[p] = "scan" /\ at[p] = i /\ seen[p] # q
       \/ /\ p # q /\ utmpent[p] = i
          /\ p \in evicted \/ pc[p] = "left"
          /\ uinfo'[i] \in {OwnEntry(p), LeftEntry(Account[p])}

EndsEntry(q, i) ==
  uinfo[i] = OwnEntry(q) /\ IsAlive(q) /\ uinfo'[i] # uinfo[i]

(* Who ends the entry of a live session: it itself; somebody who kicks; a    *)
(* purge, but only when the entry changed hands between the reading of the   *)
(* process id and the clearing; and the owner of the slot before, if he lost *)
(* it to a third party or has left and is cut off before he quits.           *)
EndedForAReason ==
  [][\A q \in Session, i \in Slot : EndsEntry(q, i) => Reason(q, i)]_vars
=============================================================================
