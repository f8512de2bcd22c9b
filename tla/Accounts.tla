------------------------------ MODULE Accounts ------------------------------
(***************************************************************************)
(* User records: the file .PASSWDS and the list of account names that       *)
(* sessions keep in shared memory (uidshm).  Every session copies a record, *)
(* works on the copy, and writes the whole of it back.  A copy is either    *)
(* currentuser, four fields of which set_safe_record renews before a write, *)
(* or lookupuser, which getuser fills and a dialogue writes back as it is.  *)
(* Only a registration holds flock on .PASSWDS for more than one call.      *)
(* The list is filled again, name by name and without a lock, by every      *)
(* session that finds the file FLUSH newer than the list.                   *)
(*                                                                         *)
(* "level" stands for the four fields of set_safe_record, lastlogin is a    *)
(* coarse clock: 0 is an account nobody used for months.                    *)
(***************************************************************************)
EXTENDS RecordFile

CONSTANTS
  Process,      \* processes
  UserId,       \* names an account can have
  Xempt,        \* accounts with PERM_XEMPT
  Admin,        \* accounts with the administrator's menu
  SysopId,      \* the account "SYSOP"
  Roles,        \* what sessions do, the names they type, and for how long
  InitFile,     \* .PASSWDS at the start
  MaxUsers,     \* MAXUSERS
  MaxTime,      \* bound: half hours after the start
  Nobody,       \* the userid of an empty record
  Newcomer      \* "new", the userid of a record being registered

ASSUME AccountsAssumption ==
  /\ Xempt \cup Admin \subseteq UserId
  /\ MaxUsers \in Nat \ {0} /\ MaxTime \in Nat \ {0}
  /\ Nobody # Newcomer /\ {Nobody, Newcomer} \cap UserId = {}

ASSUME RolesAssumption ==
  \A r \in Roles : /\ r.types \in [Process -> SUBSET UserId]
                    /\ r.until \in 1..MaxTime

Uid == 1..MaxUsers
Name == UserId \cup {Nobody, Newcomer}

(* struct userec                                                            *)
Userec == [userid : Name, level : {0, 1}, lastlogin : 0..MaxTime]
Zerorec == [userid |-> Nobody, level |-> 0, lastlogin |-> 0]

ASSUME FileAssumption ==
  /\ InitFile \in Seq(Userec) /\ Len(InitFile) <= MaxUsers
  /\ \A i, j \in DOMAIN InitFile :
       /\ InitFile[i].userid \in UserId
       /\ InitFile[i].userid = InitFile[j].userid => i = j

VARIABLES
  passfile,    \* .PASSWDS
  userid,      \* uidshm->userid
  number,      \* uidshm->number
  uptime,      \* uidshm->uptime
  flush,       \* the time of the file FLUSH
  flocked,     \* who holds flock on .PASSWDS in getnewuserid
  killuser,    \* tmp/killuser is more than an hour old
  now,
  role,        \* chosen at the start
  stage,       \* where a session is
  currentuser, usernum,
  lookupuser,  \* ... or another copy made for a dialogue
  id,          \* and its record number; the record getnewuserid is at
  want,        \* the name typed in a registration or a change of name
  reload,      \* where a session is in resolve_ucache
  late,        \* history: the level in a copy was changed in the file since
  lost,        \* history: sessions whose account was deleted, killed, renamed
  haunted,     \* history: records, or entries, such sessions wrote to
  torn,        \* history: the list was written by one session behind another
  strayed,     \* history: a write to record number 0 went to record 1
  raced        \* history: names that may be created twice

shm == <<userid, number, uptime>>
file == <<passfile, flush, flocked, killuser, now>>
history == <<late, lost, haunted, torn, strayed, raced>>
accountVars == <<shm, file, role, stage, currentuser, usernum, lookupuser, id,
                 want, reload, history>>

Registering == {"checked", "clean", "kill", "lock", "search", "took",
                "password", "created", "recheck"}
Dialogue == {"dialogue", "info", "edit", "level", "delete", "deleted",
             "rename", "confirm", "renamed"}
OnLine == {"enter", "on", "safe"} \cup Dialogue

(* Who goes on to write record number id.                                    *)
Holding == {"took", "password", "created"} \cup Dialogue

Reloading == [step : {"none", "read", "fill", "end", "done"},
              at : 0..(MaxUsers + 1), got : Name, ftime : Nat, crossed : BOOLEAN]

AccountsTypeOK ==
  /\ passfile \in Seq(Userec) /\ Len(passfile) <= MaxUsers
  /\ userid \in [Uid -> Name] /\ number \in 0..MaxUsers
  /\ uptime \in Nat /\ flush \in Nat /\ uptime <= flush
  /\ flocked \subseteq Process /\ killuser \in BOOLEAN /\ now \in 1..MaxTime
  /\ role \in Roles
  /\ stage \in [Process -> {"out", "gone"} \cup Registering \cup OnLine]
  /\ currentuser \in [Process -> Userec] /\ usernum \in [Process -> 0..MaxUsers]
  /\ lookupuser \in [Process -> Userec] /\ id \in [Process -> 0..(MaxUsers + 1)]
  /\ want \in [Process -> Name]
  /\ reload \in [Process -> Reloading]
  /\ late \in [Process -> [currentuser : BOOLEAN, lookupuser : BOOLEAN]]
  /\ lost \subseteq Process /\ haunted \subseteq Uid
  /\ torn \in BOOLEAN /\ strayed \in BOOLEAN /\ raced \subseteq UserId

NoReload == [step |-> "none", at |-> 0, got |-> Nobody, ftime |-> 0,
             crossed |-> FALSE]

AccountsInit ==
  /\ passfile = InitFile
  /\ userid = [i \in Uid |-> IF i <= Len(InitFile) THEN InitFile[i].userid
                             ELSE Nobody]
  /\ number = Len(InitFile) /\ uptime = 0
  /\ role \in Roles
  /\ flush = 0
  /\ flocked = {} /\ killuser = (role.until > 1) /\ now = 1
  /\ stage = [s \in Process |-> "out"]
  /\ currentuser = [s \in Process |-> Zerorec] /\ usernum = [s \in Process |-> 0]
  /\ lookupuser = [s \in Process |-> Zerorec] /\ id = [s \in Process |-> 0]
  /\ want = [s \in Process |-> Nobody]
  /\ reload = [s \in Process |-> NoReload]
  /\ late = [s \in Process |-> [currentuser |-> FALSE, lookupuser |-> FALSE]]
  /\ lost = {} /\ haunted = {} /\ torn = FALSE /\ strayed = FALSE /\ raced = {}

-----------------------------------------------------------------------------
May(s, c) == c \in role.uses[s]

ComesTo(s, label) == stage' = [stage EXCEPT ![s] = label]

SetCopy(s, rec, n) ==
  /\ currentuser' = [currentuser EXCEPT ![s] = rec]
  /\ usernum' = [usernum EXCEPT ![s] = n]

SetLookup(s, rec, n) ==
  /\ lookupuser' = [lookupuser EXCEPT ![s] = rec]
  /\ id' = [id EXCEPT ![s] = n]

NotLate == [currentuser |-> FALSE, lookupuser |-> FALSE]

(* The process ends, and what it had in its variables with it.               *)
End(s) ==
  /\ ComesTo(s, "gone")
  /\ SetCopy(s, Zerorec, 0) /\ SetLookup(s, Zerorec, 0)
  /\ want' = [want EXCEPT ![s] = Nobody]
  /\ late' = [late EXCEPT ![s] = NotLate]

SetLate(s, copy, b) == late' = [late EXCEPT ![s] = [late[s] EXCEPT ![copy] = b]]

-----------------------------------------------------------------------------
(* The list of names: resolve_ucache, searchuser, searchnewuser, setuserid   *)

(* A session in resolve_ucache does nothing else.                            *)
Free(s) == reload[s].step \in {"none", "done"}

(* A look at the list follows a reload, when one is due.                     *)
Resolved(s) == uptime >= flush \/ reload[s].step = "done"

ReloadStart(s) ==
  /\ stage[s] \in {"out", "on", "search", "recheck", "rename"} /\ ~Resolved(s)
  /\ reload[s].step = "none"
  /\ reload' = [reload EXCEPT ![s] =
                  [NoReload EXCEPT !.step = "read", !.at = 1, !.ftime = flush]]
  /\ UNCHANGED <<shm, file, role, stage, currentuser, usernum, lookupuser, id,
                 want, history>>

(* apply_record reads a record, or the end of the file.                      *)
ReloadRead(s) ==
  LET r == reload[s]
  IN /\ r.step = "read"
     /\ reload' = [reload EXCEPT ![s] =
          IF r.at > Len(passfile) THEN [r EXCEPT !.step = "end"]
          ELSE [r EXCEPT !.step = "fill", !.got = passfile[r.at].userid]]
     /\ UNCHANGED <<shm, file, role, stage, currentuser, usernum, lookupuser, id,
                    want, history>>

(* fillucache                                                               *)
ReloadFill(s) ==
  LET r == reload[s]
  IN /\ r.step = "fill"
     /\ userid' = [userid EXCEPT ![r.at] = r.got]
     /\ torn' = (torn \/ r.crossed)
     /\ reload' = [reload EXCEPT ![s] = [r EXCEPT !.step = "read", !.at = @ + 1,
                                                  !.crossed = FALSE]]
     /\ UNCHANGED <<number, uptime, file, role, stage, currentuser, usernum,
                    lookupuser, id, want, late, lost, haunted, strayed, raced>>

(* usernumber                                                                *)
Counted(r) == r.at - 1

ReloadEnd(s) ==
  LET r == reload[s]
  IN /\ r.step = "end"
     /\ number' = Counted(r) /\ uptime' = r.ftime
     /\ torn' = (torn \/ r.crossed)
     /\ reload' = [reload EXCEPT ![s] = [NoReload EXCEPT !.step = "done"]]
     /\ UNCHANGED <<userid, file, role, stage, currentuser, usernum, lookupuser,
                    id, want, late, lost, haunted, strayed, raced>>

(* Seeded fault: the last entry is not looked at.                            *)
EntriesShort(n) == {i \in 1..(number - 1) : userid[i] = n}

(* searchuser: the first entry with the name, or 0.                          *)
EntriesOf(n) == {i \in 1..number : userid[i] = n}

First(S) == IF S = {} THEN 0 ELSE CHOOSE i \in S : \A j \in S : i <= j

SearchUser(n) == First(EntriesOf(n))

(* searchnewuser: the first empty entry, else one more.                      *)
SearchNewUser ==
  IF EntriesOf(Nobody) # {} THEN First(EntriesOf(Nobody))
  ELSE IF number < MaxUsers THEN number + 1 ELSE 0

Looked(s) == Resolved(s) /\ reload' = [reload EXCEPT ![s] = NoReload]

(* A reload by q has what s writes into entry i behind it.                   *)
Crosses(q, i) ==
  \/ reload[q].step = "fill" /\ reload[q].at = i
  \/ reload[q].step = "end" /\ reload[q].at <= i

SetUserId(s, i, n) ==
  /\ haunted' = IF s \in lost THEN haunted \cup {i} ELSE haunted
  /\ userid' = [userid EXCEPT ![i] = n]
  /\ number' = IF i > number THEN i ELSE number
  /\ reload' = [q \in Process |->
       [reload[q] EXCEPT !.crossed = @ \/ Crosses(q, i)]]

-----------------------------------------------------------------------------
(* Writing a record                                                         *)

(* substitute_record seeks to a negative offset for number 0, reports the     *)
(* error, and writes at the beginning of the file.                          *)
Position(n) == IF n = 0 THEN 1 ELSE n

Outdated(copy, rec) == copy.userid = rec.userid /\ copy.level # rec.level

(* substitute_record(PASSFILE, &rec, n) by s, who waits for flock.           *)
Substitute(s, rec, n, label) ==
  LET i == Position(n)
  IN /\ flocked = {} /\ ComesTo(s, label)
     /\ passfile' = SubstituteRecord(passfile, rec, i, Zerorec)
     /\ strayed' = (strayed \/ n = 0)
     /\ haunted' = IF s \in lost THEN haunted \cup {i} ELSE haunted
     /\ late' = [q \in Process |->
          [currentuser |-> late[q].currentuser \/
              (stage[q] \in OnLine /\ usernum[q] = i /\ Outdated(currentuser[q], rec)),
           lookupuser |-> stage'[q] \in Dialogue /\ (late[q].lookupuser \/
              (id[q] = i /\ Outdated(lookupuser[q], rec)))]]

(* Sessions that have record i, when s takes the account away.               *)
Bereft(s, i) ==
  {q \in Process : stage[q] \in OnLine /\ usernum[q] = i} \cup
  {q \in Process \ {s} : stage[q] \in Holding /\ id[q] = i}

-----------------------------------------------------------------------------
(* Logging in, and what a session does with its own record                   *)

(* dosearchuser: the name is looked for in the list, the record is read and  *)
(* compared.                                                                *)
Known(n) == LET i == SearchUser(n) IN i # 0 /\ passfile[i].userid = n

Become(s, n) ==
  /\ SetCopy(s, passfile[SearchUser(n)], SearchUser(n))
  /\ SetLate(s, "currentuser", FALSE)
  /\ ComesTo(s, "enter")

Login(s, n) ==
  /\ May(s, "login") /\ stage[s] = "out" /\ Known(n) /\ Looked(s)
  /\ Become(s, n)
  /\ UNCHANGED <<shm, file, role, lookupuser, id, want, lost, haunted, torn,
                 strayed, raced>>

(* Seeded fault: the level is not among the fields renewed.                  *)
RenewedNot(copy, rec) == copy

(* set_safe_record: the fields renewed from the file.                        *)
Renewed(copy, rec) == [copy EXCEPT !.level = rec.level]

(* user_login, check_maxmail, post_article, Q_Goodbye, u_exit ...            *)
SetSafeRecord(s) ==
  /\ stage[s] = "enter" \/ (stage[s] = "on" /\ May(s, "write"))
  /\ LET copy == IF stage[s] = "enter" THEN [currentuser[s] EXCEPT !.lastlogin = now]
                 ELSE currentuser[s]
     IN SetCopy(s, Renewed(copy, passfile[usernum[s]]), usernum[s])
  /\ SetLate(s, "currentuser", FALSE)
  /\ ComesTo(s, "safe")
  /\ UNCHANGED <<shm, file, role, lookupuser, id, want, reload, lost, haunted,
                 torn, strayed, raced>>

WriteBack(s) ==
  /\ stage[s] = "safe"
  /\ Substitute(s, currentuser[s], usernum[s], "on")
  /\ UNCHANGED <<shm, flush, flocked, killuser, now, role, currentuser, usernum,
                 lookupuser, id, want, reload, lost, torn, raced>>

(* offline: the account gives up its level at once, and the session ends.    *)
Offline(s) ==
  LET rec == [currentuser[s] EXCEPT !.level = 0]
  IN /\ May(s, "offline") /\ stage[s] = "on"
     /\ Substitute(s, rec, usernum[s], "gone")
     /\ currentuser' = [currentuser EXCEPT ![s] = rec]
     /\ UNCHANGED <<shm, flush, flocked, killuser, now, role, usernum,
                    lookupuser, id, want, reload, lost, torn, raced>>

(* The line breaks, or the user leaves.                                      *)
AbortBbs(s) ==
  /\ stage[s] \in {"on", "safe", "dialogue", "password"} /\ May(s, "leave")
  /\ End(s)
  /\ reload' = [reload EXCEPT ![s] = NoReload]
  /\ UNCHANGED <<shm, file, role, lost, haunted, torn, strayed, raced>>

(* x_userdefine reads the user's own record by name, and waits for a choice.  *)
(* Nobody compares the name of the record with that of its entry.            *)
UserDefine(s) ==
  LET i == SearchUser(currentuser[s].userid)
  IN /\ May(s, "define") /\ stage[s] = "on" /\ i # 0 /\ Looked(s)
     /\ SetLookup(s, passfile[i], i)
     /\ SetLate(s, "lookupuser", FALSE)
     /\ lost' = IF Known(currentuser[s].userid) THEN lost ELSE lost \cup {s}
     /\ ComesTo(s, "dialogue")
     /\ UNCHANGED <<shm, file, role, currentuser, usernum, want, haunted, torn,
                    strayed, raced>>

(* thesis_mode does it without waiting, and without a look at the result of  *)
(* getuser, which leaves lookupuser as it was when it finds nobody.          *)
ThesisMode(s) ==
  LET i == SearchUser(currentuser[s].userid)
      rec == IF i = 0 THEN lookupuser[s] ELSE passfile[i]
  IN /\ May(s, "thesis") /\ stage[s] = "on" /\ Looked(s)
     /\ SetLookup(s, rec, 0)
     /\ Substitute(s, rec, i, stage[s])
     /\ UNCHANGED <<shm, flush, flocked, killuser, now, role, currentuser,
                    usernum, want, lost, torn, raced>>

(* x_info copies currentuser, however old, and waits; set_safe_record then    *)
(* renews currentuser, not the copy that is written.                        *)
Info(s) ==
  /\ May(s, "info") /\ stage[s] = "on"
  /\ SetLookup(s, currentuser[s], usernum[s])
  /\ SetLate(s, "lookupuser", late[s].currentuser)
  /\ ComesTo(s, "info")
  /\ UNCHANGED <<shm, file, role, currentuser, usernum, want, reload, lost,
                 haunted, torn, strayed, raced>>

InfoRenew(s) ==
  /\ stage[s] = "info"
  /\ SetCopy(s, Renewed(lookupuser[s], passfile[usernum[s]]), usernum[s])
  /\ SetLate(s, "currentuser", FALSE)
  /\ ComesTo(s, "dialogue")
  /\ UNCHANGED <<shm, file, role, lookupuser, id, want, reload, lost, haunted,
                 torn, strayed, raced>>

(* The dialogue ends: the copy is written.                                   *)
EndDialogue(s) ==
  /\ stage[s] = "dialogue"
  /\ Substitute(s, lookupuser[s], id[s], "on")
  /\ UNCHANGED <<shm, flush, flocked, killuser, now, role, currentuser, usernum,
                 lookupuser, id, want, reload, lost, torn, raced>>

-----------------------------------------------------------------------------
(* Administration: x_level, d_user, m_info                                   *)

(* getuser, which does not compare the names either, and the first question. *)
Consult(s, n, c, label) ==
  /\ May(s, c) /\ currentuser[s].userid \in Admin
  /\ stage[s] = "on" /\ SearchUser(n) # 0 /\ Looked(s)
  /\ SetLookup(s, passfile[SearchUser(n)], SearchUser(n))
  /\ SetLate(s, "lookupuser", FALSE)
  /\ lost' = IF Known(n) THEN lost ELSE lost \cup {s}
  /\ ComesTo(s, label)
  /\ UNCHANGED <<shm, file, role, currentuser, usernum, want, haunted, torn,
                 strayed, raced>>

XLevel(s) ==
  LET rec == [lookupuser[s] EXCEPT !.level = 1 - @]
  IN /\ stage[s] = "level"
     /\ Substitute(s, rec, id[s], "on")
     /\ lookupuser' = [lookupuser EXCEPT ![s] = rec]
     /\ UNCHANGED <<shm, flush, flocked, killuser, now, role, currentuser,
                    usernum, id, want, reload, lost, torn, raced>>

(* The name is taken from the record first, then from the list.              *)
DUser(s) ==
  LET rec == [lookupuser[s] EXCEPT !.userid = Nobody, !.level = 0]
  IN /\ stage[s] = "delete" /\ lookupuser[s].userid \notin {Nobody, SysopId}
     /\ Substitute(s, rec, id[s], "deleted")
     /\ lookupuser' = [lookupuser EXCEPT ![s] = rec]
     /\ lost' = lost \cup Bereft(s, id[s])
     /\ UNCHANGED <<shm, flush, flocked, killuser, now, role, currentuser,
                    usernum, id, want, reload, torn, raced>>

DUserListed(s) ==
  /\ stage[s] = "deleted"
  /\ SetUserId(s, id[s], Nobody)
  /\ ComesTo(s, "on")
  /\ UNCHANGED <<uptime, file, role, currentuser, usernum, lookupuser, id, want,
                 late, lost, torn, strayed, raced>>

(* m_info: fields other than the name are changed ...                        *)
EditRenew(s) ==
  /\ stage[s] = "edit"
  /\ SetCopy(s, Renewed(currentuser[s], passfile[usernum[s]]), usernum[s])
  /\ SetLate(s, "currentuser", FALSE)
  /\ ComesTo(s, "dialogue")
  /\ UNCHANGED <<shm, file, role, lookupuser, id, want, reload, lost, haunted,
                 torn, strayed, raced>>

(* Somebody else is about to create the name n, or is taking it from a record; *)
(* or the account was deleted, and its entry in the list hides any other.     *)
Races(s, n) ==
  raced' = IF \/ SearchUser(n) # 0
              \/ \E q \in Process \ {s} :
                   \/ want[q] = n /\ stage[q] \in Registering \cup {"confirm", "renamed"}
                   \/ lookupuser[q].userid = n /\ stage[q] = "renamed"
           THEN raced \cup {n} ELSE raced

(* ... or the name, which must not be in the list,                           *)
RenameCheck(s, n) ==
  /\ stage[s] = "rename" /\ SearchUser(n) = 0 /\ Looked(s)
  /\ want' = [want EXCEPT ![s] = n]
  /\ Races(s, n)
  /\ ComesTo(s, "confirm")
  /\ UNCHANGED <<shm, file, role, currentuser, usernum, lookupuser, id, late,
                 lost, haunted, torn, strayed>>

(* and which is changed in the list first, then in the record.               *)
RenameListed(s) ==
  /\ stage[s] = "confirm"
  /\ SetUserId(s, id[s], want[s])
  /\ SetCopy(s, Renewed(currentuser[s], passfile[usernum[s]]), usernum[s])
  /\ SetLate(s, "currentuser", FALSE)
  /\ ComesTo(s, "renamed")
  /\ UNCHANGED <<uptime, file, role, lookupuser, id, want, lost, torn, strayed,
                 raced>>

RenameWrite(s) ==
  LET rec == [lookupuser[s] EXCEPT !.userid = want[s]]
  IN /\ stage[s] = "renamed"
     /\ Substitute(s, rec, id[s], "on")
     /\ lost' = lost \cup Bereft(s, id[s])
     /\ torn' = (torn \/ userid[id[s]] # want[s]
                      \/ \E q \in Process : Crosses(q, id[s]))
     /\ UNCHANGED <<shm, flush, flocked, killuser, now, role, currentuser,
                    usernum, lookupuser, id, want, reload, raced>>

-----------------------------------------------------------------------------
(* new_register and getnewuserid                                             *)

(* The name must not be in the list.                                         *)
Check(s, n) ==
  /\ May(s, "register") /\ stage[s] = "out" /\ ~Known(n) /\ Looked(s)
  /\ want' = [want EXCEPT ![s] = n]
  /\ Races(s, n)
  /\ ComesTo(s, "checked")
  /\ UNCHANGED <<shm, file, role, currentuser, usernum, lookupuser, id, late,
                 lost, haunted, torn, strayed>>

(* compute_user_value < 0: unused for months, or half an hour in registration *)
Dated(rec) ==
  \/ rec.userid = Newcomer /\ rec.lastlogin < now
  \/ rec.userid \in UserId \ Xempt /\ rec.lastlogin = 0

CleanStart(s) ==
  /\ stage[s] = "checked"
  /\ killuser' = FALSE
  /\ id' = [id EXCEPT ![s] = 1]
  /\ ComesTo(s, IF killuser THEN "clean" ELSE "lock")
  /\ UNCHANGED <<shm, passfile, flush, flocked, now, role, currentuser, usernum,
                 lookupuser, want, reload, history>>

CleanRead(s) ==
  /\ stage[s] = "clean" /\ id[s] <= Len(passfile)
  /\ IF Dated(passfile[id[s]])
     THEN ComesTo(s, "kill") /\ UNCHANGED id
     ELSE id' = [id EXCEPT ![s] = @ + 1] /\ UNCHANGED stage
  /\ UNCHANGED <<shm, file, role, currentuser, usernum, lookupuser, want, reload,
                 history>>

(* The directories are removed, the record is cleared; flock is not asked for. *)
CleanKill(s) ==
  /\ stage[s] = "kill"
  /\ passfile' = [passfile EXCEPT ![id[s]] = Zerorec]
  /\ lost' = lost \cup Bereft(s, id[s])
  /\ id' = [id EXCEPT ![s] = @ + 1]
  /\ ComesTo(s, "clean")
  /\ UNCHANGED <<shm, flush, flocked, killuser, now, role, currentuser, usernum,
                 lookupuser, want, reload, late, haunted, torn, strayed, raced>>

(* Seeded fault: the list is not reloaded after the purge.                   *)
Untouched == flush

(* touchnew                                                                  *)
Touched == flush + 1

CleanEnd(s) ==
  /\ stage[s] = "clean" /\ id[s] > Len(passfile)
  /\ flush' = Touched
  /\ ComesTo(s, "lock")
  /\ UNCHANGED <<shm, passfile, flocked, killuser, now, role, currentuser,
                 usernum, lookupuser, id, want, reload, history>>

(* Seeded fault: flock is not waited for.                                    *)
LockAnyway(s) ==
  /\ stage[s] = "lock"
  /\ flocked' = {s}
  /\ ComesTo(s, "search")
  /\ UNCHANGED <<shm, passfile, flush, killuser, now, role, currentuser, usernum,
                 lookupuser, id, want, reload, history>>

Lock(s) ==
  /\ stage[s] = "lock" /\ flocked = {}
  /\ flocked' = {s}
  /\ ComesTo(s, "search")
  /\ UNCHANGED <<shm, passfile, flush, killuser, now, role, currentuser, usernum,
                 lookupuser, id, want, reload, history>>

(* The first free record, if there is one, is written ...                    *)
NewRecord(s) ==
  LET i == SearchNewUser
  IN /\ stage[s] = "search" /\ Looked(s)
     /\ IF i = 0
        THEN /\ flocked' = {} /\ ComesTo(s, "gone")
             /\ UNCHANGED <<passfile, id>>
        ELSE /\ passfile' = SubstituteRecord(passfile,
                  [userid |-> Newcomer, level |-> 0, lastlogin |-> now], i, Zerorec)
             /\ id' = [id EXCEPT ![s] = i]
             /\ ComesTo(s, "took")
             /\ UNCHANGED flocked
     /\ torn' = (torn \/ \E q \in Process :
                   stage[q] \in {"deleted", "renamed"} /\ id[q] = i)
     /\ UNCHANGED <<shm, flush, killuser, now, role, currentuser, usernum,
                    lookupuser, want, late, lost, haunted, strayed, raced>>

(* ... and listed.                                                           *)
NewListed(s) ==
  /\ stage[s] = "took"
  /\ SetUserId(s, id[s], Newcomer)
  /\ flocked' = flocked \ {s}
  /\ ComesTo(s, "password")
  /\ UNCHANGED <<uptime, passfile, flush, killuser, now, role, currentuser,
                 usernum, lookupuser, id, want, late, lost, torn, strayed, raced>>

(* A password has been agreed on.                                            *)
Create(s) ==
  /\ stage[s] = "password"
  /\ Substitute(s, [userid |-> want[s], level |-> 0, lastlogin |-> now], id[s], "created")
  /\ UNCHANGED <<shm, flush, flocked, killuser, now, role, currentuser, usernum,
                 lookupuser, id, want, reload, lost, torn, raced>>

CreateListed(s) ==
  /\ stage[s] = "created"
  /\ SetUserId(s, id[s], want[s])
  /\ ComesTo(s, "recheck")
  /\ UNCHANGED <<uptime, file, role, currentuser, usernum, lookupuser, id, want,
                 late, lost, torn, strayed, raced>>

(* dosearchuser with the new name says who the session is from now on.       *)
Recheck(s) ==
  /\ stage[s] = "recheck" /\ Looked(s)
  /\ IF Known(want[s]) THEN Become(s, want[s])
     ELSE ComesTo(s, "gone") /\ UNCHANGED <<currentuser, usernum, late>>
  /\ UNCHANGED <<shm, file, role, lookupuser, id, want, lost, haunted, torn,
                 strayed, raced>>

(* Half an hour goes by while everybody waits for a key; so does the hour     *)
(* after which a purge is due.                                              *)
Waiting == {"out", "gone", "enter", "on", "password"} \cup Dialogue

Tick ==
  /\ now < role.until
  /\ \A s \in Process : stage[s] \in Waiting \ {"deleted", "renamed"} /\ Free(s)
  /\ now' = now + 1 /\ killuser' = TRUE
  /\ reload' = [s \in Process |-> NoReload]
  /\ UNCHANGED <<shm, passfile, flush, flocked, role, stage, currentuser, usernum,
                 lookupuser, id, want, history>>

ProcessStep(s) ==
  \/ ReloadStart(s) \/ ReloadRead(s) \/ ReloadFill(s) \/ ReloadEnd(s)
  \/ AbortBbs(s)
  \/ /\ Free(s)
     /\ \/ SetSafeRecord(s) \/ WriteBack(s) \/ Offline(s)
        \/ UserDefine(s) \/ ThesisMode(s) \/ Info(s) \/ InfoRenew(s) \/ EditRenew(s)
        \/ EndDialogue(s) \/ XLevel(s) \/ DUser(s) \/ DUserListed(s)
        \/ RenameListed(s) \/ RenameWrite(s)
        \/ CleanStart(s) \/ CleanRead(s) \/ CleanKill(s) \/ CleanEnd(s)
        \/ Lock(s) \/ NewRecord(s) \/ NewListed(s) \/ Create(s) \/ CreateListed(s)
        \/ Recheck(s)
        \/ \E n \in role.types[s] :
             \/ Login(s, n) \/ Check(s, n) \/ RenameCheck(s, n)
             \/ Consult(s, n, "level", "level") \/ Consult(s, n, "delete", "delete")
             \/ Consult(s, n, "edit", "edit") \/ Consult(s, n, "rename", "rename")
             \/ Consult(s, n, "accept", "dialogue")

AccountsNext == Tick \/ \E s \in Process : ProcessStep(s)

AccountsSpec == AccountsInit /\ [][AccountsNext]_accountVars

-----------------------------------------------------------------------------
(* Properties                                                               *)

(* What makes a record somebody else's: a reload of the list crossed a        *)
(* registration or a change of name, a write strayed to record 1, or a       *)
(* session whose account was taken away wrote to the record or its entry.    *)
Disturbed(i) == torn \/ strayed \/ i \in haunted

(* A level is undone only by a copy that was read before the level was given: *)
(* set_safe_record leaves no other copy but that of a dialogue in progress,  *)
(* of x_info, which copies what the session remembers, or of a session whose *)
(* account is gone.  x_level and offline change the level on purpose.       *)
ChangesLevel(i) ==
  /\ i \in DOMAIN passfile /\ passfile'[i].userid = passfile[i].userid
  /\ passfile'[i].level # passfile[i].level

MayChangeLevel(s) ==
  /\ stage'[s] # stage[s] \/ lookupuser'[s] # lookupuser[s]
  /\ \/ stage[s] = "level" \/ stage'[s] = "gone" \/ s \in lost
     \/ stage[s] = "safe" /\ late[s].currentuser
     \/ stage[s] \in Dialogue /\ late[s].lookupuser

LevelKept ==
  [][\A i \in Uid : (ChangesLevel(i) /\ ~Disturbed(i) /\ ~strayed') =>
        \E s \in Process : MayChangeLevel(s)]_accountVars

(* A session on line, or about to create its account, has its record to       *)
(* itself, unless an administrator or the purge took the account away, a     *)
(* session whose account was taken away wrote to the record, a reload of the *)
(* list crossed a registration, or a write strayed to record 1.             *)
OwnRecord ==
  \A s \in Process \ lost :
    /\ (stage[s] \in OnLine /\ ~Disturbed(usernum[s])) =>
         passfile[usernum[s]].userid = currentuser[s].userid
    /\ (stage[s] \in {"took", "password"} /\ ~Disturbed(id[s])) =>
         passfile[id[s]].userid = Newcomer

(* Two records have the same name only if two sessions were creating it at    *)
(* the same time, or one created it while the account that had it was still  *)
(* in the list and gone from the file.                                      *)
NameUnique ==
  \A i, j \in DOMAIN passfile :
    (passfile[i].userid = passfile[j].userid /\ i # j
       /\ ~Disturbed(i) /\ ~Disturbed(j)) =>
      passfile[i].userid \in raced \cup {Nobody, Newcomer}

(* When nobody is between the record and the list, they agree.               *)
Settled ==
  /\ uptime = flush
  /\ \A s \in Process :
       /\ stage[s] \notin {"clean", "kill", "took", "created", "deleted", "renamed"}
       /\ reload[s].step \in {"none", "done"}

ListAgrees ==
  (Settled /\ ~torn /\ ~strayed /\ haunted = {}) =>
    \A i \in DOMAIN passfile :
      passfile[i].userid = IF i <= number THEN userid[i] ELSE Nobody
=============================================================================
