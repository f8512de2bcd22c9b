---------------------------- MODULE LoginProofs -----------------------------
(***************************************************************************)
(* Who is on line, and whose record a session works with.                   *)
(*                                                                         *)
(* The list of users on line, for any number of sessions, slots and         *)
(* accounts: a session whose entry nobody wrote over has it, no process is   *)
(* listed twice, the entry of a live session ends only for the reasons      *)
(* EndedForAReason names, and the limit of logins is passed only by a login  *)
(* that could not count.                                                    *)
(*                                                                         *)
(* The user records, for any file at the start, any roles and any number of  *)
(* processes: a session has its record to itself, names are unique, the     *)
(* list agrees with the file, and a level that was given is kept, each with  *)
(* the exceptions that Accounts states.                                     *)
(*                                                                         *)
(* The two parts are apart: neither uses a definition of the other.          *)
(***************************************************************************)
EXTENDS Utmp, Accounts, RecordProofs

-----------------------------------------------------------------------------
(* The list of users on line.                                                *)

(* An entry with a process id is the one that process wrote, where it        *)
(* believes it to be, unless the process has died meanwhile.                 *)
EntryOfOwner ==
  \A i \in Slot : uinfo[i].pid # NoPid =>
    /\ uinfo[i] = OwnEntry(uinfo[i].pid)
    /\ pc[uinfo[i].pid] = "dead" \/ utmpent[uinfo[i].pid] = i

(* A session that is not in the list yet has no slot.                        *)
NoSlotYet ==
  \A p \in Session : pc[p] \in {"new"} \cup LoggingIn => utmpent[p] = 0

(* What a session has read and goes on to use.                               *)
ReadBefore ==
  /\ \A p \in Session : pc[p] \in {"ask", "probe", "wipe", "kick"} =>
       seen[p] \in Session /\ pc[seen[p]] # "new"
  /\ \A p \in Session : pc[p] \in {"scan", "probe", "wipe", "kick"} => at[p] # 0
  /\ \A p \in Session : pc[p] \in {"probe", "wipe", "kick"} => at[p] \in Slot
  /\ \A p \in Session : pc[p] = "wipe" => pc[seen[p]] = "dead"

IInv ==
  TypeOK /\ EntryOfOwner /\ NoSlotYet /\ ReadBefore /\ KeepsEntry /\ ListedOnce

USE DEF Slot

-----------------------------------------------------------------------------
(* The entries that are written are entries.                                 *)
LEMMA EntryTypes ==
  /\ Zero \in UserInfo
  /\ \A p \in Session : OwnEntry(p) \in UserInfo
  /\ \A u \in User : LeftEntry(u) \in UserInfo
BY UtmpAssumption DEF Zero, OwnEntry, LeftEntry, UserInfo

LEMMA Pids ==
  /\ Zero.pid = NoPid
  /\ \A p \in Session : OwnEntry(p).pid = p
  /\ \A u \in User : LeftEntry(u).pid = NoPid
BY DEF Zero, OwnEntry, LeftEntry

LEMMA InitIInv == Init => IInv
<1> SUFFICES ASSUME Init PROVE IInv
  OBVIOUS
<1>1. uinfo = [i \in Slot |-> Zero] \/
      \E i \in Slot, g \in Ghost : uinfo = [[j \in Slot |-> Zero] EXCEPT ![i] = OwnEntry(g)]
  BY DEF Init
<1>2. uinfo \in [Slot -> UserInfo]
  <2>1. CASE uinfo = [i \in Slot |-> Zero]
    BY <2>1, EntryTypes
  <2>2. ASSUME NEW k \in Slot, NEW g \in Ghost,
               uinfo = [[j \in Slot |-> Zero] EXCEPT ![k] = OwnEntry(g)]
        PROVE  uinfo \in [Slot -> UserInfo]
    <3>1. OwnEntry(g) \in UserInfo /\ Zero \in UserInfo
      BY EntryTypes, UtmpAssumption
    <3> QED
      BY <2>2, <3>1
  <2> QED
    BY <1>1, <2>1, <2>2
<1>3. TypeOK
  <2>1. 0 \in 0..(UshmSize + 1)
    BY UtmpAssumption
  <2>2. pc \in [Session -> {"new", "dead"} \cup Alive]
    BY DEF Init
  <2> QED
    BY <1>2, <2>1, <2>2 DEF Init, TypeOK
<1>4. EntryOfOwner /\ ListedOnce
  <2>1. CASE \A i \in Slot : uinfo[i] = Zero
    BY <2>1, Pids DEF EntryOfOwner, ListedOnce
  <2>2. ASSUME NEW k \in Slot, NEW g \in Ghost,
               uinfo = [[j \in Slot |-> Zero] EXCEPT ![k] = OwnEntry(g)]
        PROVE  EntryOfOwner /\ ListedOnce
    <3>1. uinfo[k] = OwnEntry(g) /\ \A i \in Slot \ {k} : uinfo[i] = Zero
      BY <2>2
    <3>2. pc[g] = "dead"
      BY UtmpAssumption DEF Init
    <3> QED
      BY <3>1, <3>2, Pids, UtmpAssumption DEF EntryOfOwner, ListedOnce
  <2> QED
    BY <1>1, <2>1, <2>2
<1>5. NoSlotYet /\ ReadBefore /\ KeepsEntry
  BY DEF Init, NoSlotYet, ReadBefore, KeepsEntry, HasSlot, InList
<1> QED
  BY <1>3, <1>4, <1>5 DEF IInv

-----------------------------------------------------------------------------
(* Steps that write nothing into the list.                                   *)
LEMMA QuietStep ==
  ASSUME IInv, NEW p \in Session,
         UNCHANGED <<uinfo, utmpent, evicted>>,
         NEW label \in {"dead"} \cup Alive, Goto(p, label),
         due' \in BOOLEAN, missed' \subseteq User,
         seen' \in [Session -> Session \cup {NoPid}],
         at' \in [Session -> 0..(UshmSize + 1)],
         \A q \in Session \ {p} : seen'[q] = seen[q] /\ at'[q] = at[q],
         label \in {"login", "ask", "enter"} => utmpent[p] = 0,
         label = "left" => pc[p] = "left",
         label \in {"entered", "stamp", "scan", "probe", "wipe", "in", "kick"} =>
            pc[p] \in InList \/ utmpent[p] = 0,
         label \in {"ask", "probe", "wipe", "kick"} =>
            seen'[p] \in Session /\ pc[seen'[p]] # "new",
         label \in {"scan", "probe", "wipe", "kick"} => at'[p] # 0,
         label \in {"probe", "wipe", "kick"} => at'[p] \in Slot,
         label = "wipe" => seen'[p] # p /\ pc[seen'[p]] = "dead",
         pc[p] # "dead"
  PROVE  IInv'
<1> USE DEF IInv
<1>1. TypeOK'
  BY DEF TypeOK, Goto, Alive
<1>2. EntryOfOwner'
  BY EntryTypes DEF EntryOfOwner, Goto, TypeOK, UserInfo
<1>3. NoSlotYet'
  BY DEF NoSlotYet, Goto, TypeOK, LoggingIn, InList, Alive
<1>4. ReadBefore'
  BY DEF ReadBefore, Goto, TypeOK, Alive, InList, LoggingIn
<1>5. KeepsEntry'
  BY DEF KeepsEntry, HasSlot, Goto, TypeOK, InList
<1>6. ListedOnce'
  BY DEF ListedOnce
<1> QED
  BY <1>1, <1>2, <1>3, <1>4, <1>5, <1>6

(* A purge or a kick that writes over whatever is in the slot.               *)
LEMMA ClearStep ==
  ASSUME IInv, NEW p \in Session, pc[p] \in {"wipe", "kick"},
         NEW entry \in UserInfo, entry.pid = NoPid, Write(at[p], entry),
         NEW label \in {"scan", "in"}, Goto(p, label),
         UNCHANGED <<due, utmpent, missed>>,
         seen' \in [Session -> Session \cup {NoPid}],
         at' \in [Session -> 0..(UshmSize + 1)],
         \A q \in Session \ {p} : seen'[q] = seen[q] /\ at'[q] = at[q],
         label = "scan" => at'[p] # 0
  PROVE  IInv'
<1> USE DEF IInv
<1>1. at[p] \in Slot /\ Robbed(at[p]) \subseteq Session
  BY DEF ReadBefore, Robbed
<1>2. TypeOK'
  BY <1>1 DEF TypeOK, Goto, Write, Alive, InList
<1>3. uinfo'[at[p]].pid = NoPid /\ \A i \in Slot \ {at[p]} : uinfo'[i] = uinfo[i]
  BY <1>1 DEF Write, TypeOK
<1>4. \A q \in Session : pc[q] = "dead" <=> pc'[q] = "dead"
  BY DEF Goto, TypeOK
<1>5. EntryOfOwner'
  <2> SUFFICES ASSUME NEW i \in Slot, uinfo'[i].pid # NoPid
               PROVE  /\ uinfo'[i] = OwnEntry(uinfo'[i].pid)
                      /\ \/ pc'[uinfo'[i].pid] = "dead"
                         \/ utmpent'[uinfo'[i].pid] = i
    BY DEF EntryOfOwner, OwnEntry
  <2>1. i # at[p] /\ uinfo'[i] = uinfo[i]
    BY <1>3
  <2>2. uinfo[i].pid \in Session
    BY <2>1 DEF TypeOK, UserInfo
  <2> QED
    BY <2>1, <2>2, <1>4 DEF EntryOfOwner
<1>6. NoSlotYet'
  BY DEF NoSlotYet, Goto, TypeOK, LoggingIn
<1>7. ReadBefore'
  BY DEF ReadBefore, Goto, TypeOK
<1>8. KeepsEntry'
  <2> SUFFICES ASSUME NEW q \in Session \ evicted', HasSlot(q)'
               PROVE  uinfo'[utmpent[q]] = OwnEntry(q)
    BY DEF KeepsEntry, OwnEntry
  <2>1. q \notin evicted /\ q \notin Robbed(at[p]) /\ HasSlot(q)
    BY <1>1 DEF Write, HasSlot, Goto, TypeOK, InList
  <2>2. uinfo[utmpent[q]] = OwnEntry(q) /\ IsAlive(q)
    BY <2>1 DEF KeepsEntry, HasSlot, IsAlive, Alive
  <2>3. utmpent[q] # at[p] /\ utmpent[q] \in Slot
    BY <2>1, <2>2 DEF Robbed, HasSlot, TypeOK
  <2> QED
    BY <1>3, <2>2, <2>3
<1>9. ListedOnce'
  BY <1>1, <1>3 DEF ListedOnce
<1> QED
  BY <1>2, <1>5, <1>6, <1>7, <1>8, <1>9

(* A session that ends without writing, or is killed: p kills q, or p = q.   *)
LEMMA GoneStep ==
  ASSUME IInv, NEW p \in Session, NEW q \in Session, Gone(q),
         UNCHANGED <<uinfo, due, missed>>,
         pc[q] # "new",
         seen' \in [Session -> Session \cup {NoPid}],
         at' \in [Session -> 0..(UshmSize + 1)],
         \A r \in Session \ {p} : seen'[r] = seen[r] /\ at'[r] = at[r],
         \/ p = q /\ Goto(p, "dead")
         \/ pc[p] = "ask" /\ pc' = [pc EXCEPT ![p] = "enter", ![q] = "dead"]
  PROVE  IInv'
<1> USE DEF IInv
<1>1. pc'[q] = "dead" /\ \A r \in Session \ {p, q} : pc'[r] = pc[r]
  BY DEF Goto, TypeOK
<1>2. p # q => pc[p] = "ask" /\ pc'[p] = "enter"
  BY DEF Goto, TypeOK
<1>3. TypeOK'
  BY DEF TypeOK, Goto, Gone, Alive, LoggingIn
<1>4. utmpent'[q] = 0 /\ \A r \in Session \ {q} : utmpent'[r] = utmpent[r]
  BY DEF Gone, TypeOK
<1>5. EntryOfOwner'
  <2> SUFFICES ASSUME NEW i \in Slot, uinfo[i].pid # NoPid
               PROVE  /\ uinfo[i] = OwnEntry(uinfo[i].pid)
                      /\ \/ pc'[uinfo[i].pid] = "dead"
                         \/ utmpent'[uinfo[i].pid] = i
    BY DEF EntryOfOwner, OwnEntry
  <2>1. uinfo[i].pid \in Session
    BY DEF TypeOK, UserInfo
  <2>2. CASE uinfo[i].pid = q
    BY <2>2, <1>1 DEF EntryOfOwner
  <2>3. CASE uinfo[i].pid # q /\ uinfo[i].pid # p
    BY <2>1, <2>3, <1>1, <1>4 DEF EntryOfOwner
  <2>4. CASE uinfo[i].pid # q /\ uinfo[i].pid = p
    BY <2>4, <1>2, <1>4 DEF EntryOfOwner
  <2> QED
    BY <2>2, <2>3, <2>4
<1>6. NoSlotYet'
  BY <1>1, <1>2, <1>4 DEF NoSlotYet, LoggingIn
<1>7. ReadBefore'
  <2>1. \A r \in Session : pc[r] # "new" => pc'[r] # "new"
    BY <1>1, <1>2
  <2>2. \A r \in Session : pc[r] = "dead" => pc'[r] = "dead"
    BY <1>1, <1>2
  <2>3. \A r \in Session : pc'[r] \in {"ask", "scan", "probe", "wipe", "kick"} =>
          pc'[r] = pc[r] /\ seen'[r] = seen[r] /\ at'[r] = at[r]
    BY <1>1, <1>2
  <2> QED
    BY <2>1, <2>2, <2>3 DEF ReadBefore
<1>8. KeepsEntry'
  BY <1>1, <1>2, <1>4 DEF KeepsEntry, HasSlot, InList, Gone
<1>9. ListedOnce'
  BY DEF ListedOnce
<1> QED
  BY <1>3, <1>5, <1>6, <1>7, <1>8, <1>9

(* What writing the own slot does to the list.                              *)
LEMMA WriteOwnEffect ==
  ASSUME TypeOK, NEW p \in Session, NEW entry, WriteOwn(p, entry)
  PROVE  /\ utmpent[p] = 0 => UNCHANGED <<uinfo, evicted>>
         /\ utmpent[p] # 0 =>
              /\ utmpent[p] \in Slot
              /\ uinfo'[utmpent[p]] = entry
              /\ evicted' = (evicted \cup Robbed(utmpent[p])) \ {p}
         /\ \A i \in Slot : i # utmpent[p] => uinfo'[i] = uinfo[i]
         /\ entry \in UserInfo => uinfo' \in [Slot -> UserInfo]
         /\ evicted' \subseteq Session
BY DEF WriteOwn, WriteAs, TypeOK, Robbed

(* Whom that leaves with an entry: nobody who had one in that slot.          *)
LEMMA OthersKeep ==
  ASSUME IInv, NEW p \in Session, NEW entry, WriteOwn(p, entry),
         NEW q \in Session \ evicted', q # p, HasSlot(q)
  PROVE  uinfo'[utmpent[q]] = OwnEntry(q)
<1> USE DEF IInv
<1>1. utmpent[q] \in Slot /\ IsAlive(q)
  BY DEF TypeOK, HasSlot, IsAlive, Alive
<1>2. q \notin evicted
  BY WriteOwnEffect
<1>3. uinfo[utmpent[q]] = OwnEntry(q)
  BY <1>2 DEF KeepsEntry
<1>4. utmpent[q] # utmpent[p]
  BY <1>1, <1>3, WriteOwnEffect DEF Robbed
<1> QED
  BY <1>1, <1>3, <1>4, WriteOwnEffect

LEMMA UpdateStep ==
  ASSUME IInv, NEW p \in Session, Update(p)
  PROVE  IInv'
<1> USE DEF IInv
<1> DEFINE i == utmpent[p]
<1>1. pc[p] \in {"in", "kick"} /\ WriteOwn(p, OwnEntry(p))
      /\ UNCHANGED <<due, pc, utmpent, seen, at, missed>>
  BY DEF Update
<1>2. TypeOK'
  BY <1>1, WriteOwnEffect, EntryTypes DEF TypeOK
<1>3. \A j \in Slot : uinfo'[j] = uinfo[j] \/ (j = i /\ uinfo'[j] = OwnEntry(p))
  <2>1. \A j \in Slot : j # i => uinfo'[j] = uinfo[j]
    BY <1>1, WriteOwnEffect
  <2>2. i \in Slot => uinfo'[i] = OwnEntry(p)
    BY <1>1, WriteOwnEffect
  <2> QED
    BY <2>1, <2>2
<1>4. EntryOfOwner'
  <2> SUFFICES ASSUME NEW j \in Slot, uinfo'[j].pid # NoPid
               PROVE  /\ uinfo'[j] = OwnEntry(uinfo'[j].pid)
                      /\ \/ pc'[uinfo'[j].pid] = "dead"
                         \/ utmpent'[uinfo'[j].pid] = j
    BY DEF EntryOfOwner, OwnEntry
  <2>1. CASE uinfo'[j] = uinfo[j]
    BY <1>1, <2>1 DEF EntryOfOwner
  <2>2. CASE j = i /\ uinfo'[j] = OwnEntry(p)
    BY <1>1, <2>2, Pids
  <2> QED
    BY <1>3, <2>1, <2>2
<1>5. \A j \in Slot : uinfo[j].pid = p => j = i
  BY <1>1, UtmpAssumption DEF EntryOfOwner
<1>6. ListedOnce'
  BY <1>3, <1>5, Pids DEF ListedOnce
<1>7. KeepsEntry'
  <2> SUFFICES ASSUME NEW q \in Session \ evicted', HasSlot(q)
               PROVE  uinfo'[utmpent[q]] = OwnEntry(q)
    BY <1>1 DEF KeepsEntry, HasSlot, OwnEntry
  <2>1. CASE q = p
    BY <2>1, <1>1, WriteOwnEffect DEF HasSlot
  <2>2. CASE q # p
    BY <2>2, <1>1, OthersKeep
  <2> QED
    BY <2>1, <2>2
<1>8. NoSlotYet' /\ ReadBefore'
  BY <1>1 DEF NoSlotYet, ReadBefore
<1> QED
  BY <1>2, <1>4, <1>6, <1>7, <1>8

(* u_exit: the session leaves, or ends.                                      *)
LEMMA ExitStep ==
  ASSUME IInv, NEW p \in Session, pc[p] \in {"in", "kick", "left"},
         WriteOwn(p, LeftEntry(Account[p])), UNCHANGED <<due, missed>>,
         seen' \in [Session -> Session \cup {NoPid}],
         at' \in [Session -> 0..(UshmSize + 1)],
         \A q \in Session \ {p} : seen'[q] = seen[q] /\ at'[q] = at[q],
         \/ Goto(p, "left") /\ utmpent' = utmpent
         \/ Goto(p, "dead") /\ utmpent' = [utmpent EXCEPT ![p] = 0]
  PROVE  IInv'
<1> USE DEF IInv
<1> DEFINE i == utmpent[p]
<1>1. pc'[p] \in {"left", "dead"} /\ \A q \in Session \ {p} : pc'[q] = pc[q]
  BY DEF Goto, TypeOK
<1>2. \A q \in Session \ {p} : utmpent'[q] = utmpent[q]
  BY DEF TypeOK
<1>3. LeftEntry(Account[p]) \in UserInfo /\ LeftEntry(Account[p]).pid = NoPid
  BY EntryTypes, Pids, UtmpAssumption
<1>4. TypeOK'
  BY <1>3, WriteOwnEffect DEF TypeOK, Goto, Alive
<1>5. \A j \in Slot : uinfo'[j] = uinfo[j] \/ (j = i /\ uinfo'[j].pid = NoPid)
  <2>1. \A j \in Slot : j # i => uinfo'[j] = uinfo[j]
    BY WriteOwnEffect
  <2>2. i \in Slot => uinfo'[i].pid = NoPid
    BY <1>3, WriteOwnEffect
  <2> QED
    BY <2>1, <2>2
<1>6. EntryOfOwner'
  <2> SUFFICES ASSUME NEW j \in Slot, uinfo'[j].pid # NoPid
               PROVE  /\ uinfo'[j] = OwnEntry(uinfo'[j].pid)
                      /\ \/ pc'[uinfo'[j].pid] = "dead"
                         \/ utmpent'[uinfo'[j].pid] = j
    BY DEF EntryOfOwner, OwnEntry
  <2>1. uinfo'[j] = uinfo[j] /\ uinfo[j].pid \in Session
    BY <1>5 DEF TypeOK, UserInfo
  <2>2. CASE uinfo[j].pid # p
    BY <2>1, <2>2, <1>1, <1>2 DEF EntryOfOwner
  <2>3. CASE uinfo[j].pid = p
    <3>1. j = i
      BY <2>1, <2>3 DEF EntryOfOwner
    <3>2. uinfo'[j].pid = NoPid
      BY <3>1, <1>3, WriteOwnEffect, UtmpAssumption
    <3> QED
      BY <3>2
  <2> QED
    BY <2>2, <2>3
<1>7. ListedOnce'
  BY <1>5 DEF ListedOnce
<1>8. KeepsEntry'
  <2> SUFFICES ASSUME NEW q \in Session \ evicted', HasSlot(q)'
               PROVE  uinfo'[utmpent'[q]] = OwnEntry(q)
    BY DEF KeepsEntry, HasSlot, OwnEntry
  <2>1. q # p /\ HasSlot(q)
    BY <1>1, <1>2 DEF HasSlot, InList
  <2> QED
    BY <2>1, <1>2, OthersKeep
<1>9. NoSlotYet' /\ ReadBefore'
  BY <1>1, <1>2 DEF NoSlotYet, ReadBefore, LoggingIn
<1> QED
  BY <1>4, <1>6, <1>7, <1>8, <1>9

(* getnewutmpent: the slot taken is free, so nobody has his entry there.     *)
LEMMA EnterStep ==
  ASSUME IInv, NEW p \in Session, pc[p] = "enter",
         NEW i \in FreeSlots,
         uinfo' = [uinfo EXCEPT ![i] = OwnEntry(p)],
         utmpent' = [utmpent EXCEPT ![p] = i], Goto(p, "entered"),
         UNCHANGED <<due, seen, at, evicted, missed>>
  PROVE  IInv'
<1> USE DEF IInv
<1>1. i \in Slot /\ ~Used(i) /\ utmpent[p] = 0
  BY DEF FreeSlots, NoSlotYet, LoggingIn
<1>2. TypeOK'
  BY <1>1, EntryTypes DEF TypeOK, Goto, Alive, InList
<1>3. /\ uinfo'[i] = OwnEntry(p) /\ utmpent'[p] = i /\ pc'[p] = "entered"
      /\ \A j \in Slot \ {i} : uinfo'[j] = uinfo[j]
      /\ \A q \in Session \ {p} : utmpent'[q] = utmpent[q] /\ pc'[q] = pc[q]
  BY <1>1 DEF TypeOK, Goto
<1>4. \A j \in Slot : uinfo[j].pid # p
  BY <1>1, UtmpAssumption DEF EntryOfOwner
<1>5. EntryOfOwner'
  <2> SUFFICES ASSUME NEW j \in Slot, uinfo'[j].pid # NoPid
               PROVE  /\ uinfo'[j] = OwnEntry(uinfo'[j].pid)
                      /\ \/ pc'[uinfo'[j].pid] = "dead"
                         \/ utmpent'[uinfo'[j].pid] = j
    BY DEF EntryOfOwner, OwnEntry
  <2>1. CASE j = i
    BY <2>1, <1>3, Pids
  <2>2. CASE j # i
    <3>0. uinfo'[j] = uinfo[j] /\ uinfo[j] \in UserInfo
      BY <2>2, <1>3 DEF TypeOK
    <3>1. uinfo[j].pid \in Session \ {p}
      BY <3>0, <1>4 DEF UserInfo
    <3> QED
      BY <3>0, <3>1, <1>3 DEF EntryOfOwner
  <2> QED
    BY <2>1, <2>2
<1>6. ListedOnce'
  BY <1>3, <1>4, Pids DEF ListedOnce
<1>7. KeepsEntry'
  <2> SUFFICES ASSUME NEW q \in Session \ evicted, HasSlot(q)'
               PROVE  uinfo'[utmpent'[q]] = OwnEntry(q)
    BY DEF KeepsEntry
  <2>1. CASE q = p
    BY <1>3, <2>1
  <2>2. CASE q # p
    <3>1. HasSlot(q) /\ utmpent'[q] = utmpent[q]
      BY <1>3, <2>2 DEF HasSlot
    <3>2. uinfo[utmpent[q]] = OwnEntry(q) /\ utmpent[q] \in Slot
      BY <3>1 DEF KeepsEntry, HasSlot, TypeOK
    <3>3. OwnEntry(q).active /\ OwnEntry(q).pid # NoPid
      BY UtmpAssumption DEF OwnEntry
    <3>4. utmpent[q] # i
      BY <1>1, <3>2, <3>3 DEF Used
    <3> QED
      BY <1>3, <3>1, <3>2, <3>4
  <2> QED
    BY <2>1, <2>2
<1>8. NoSlotYet' /\ ReadBefore'
  BY <1>3 DEF NoSlotYet, ReadBefore, LoggingIn
<1> QED
  BY <1>2, <1>5, <1>6, <1>7, <1>8

-----------------------------------------------------------------------------
(* A process id that is in the list is of a session that has been started.   *)
LEMMA ListedStarted ==
  ASSUME IInv, NEW i \in Slot, uinfo[i].pid # NoPid
  PROVE  uinfo[i].pid \in Session /\ pc[uinfo[i].pid] # "new"
<1>1. uinfo[i] \in UserInfo
  BY DEF IInv, TypeOK
<1>2. uinfo[i].pid \in Session
  BY <1>1 DEF UserInfo
<1>3. pc[uinfo[i].pid] = "dead" \/ utmpent[uinfo[i].pid] = i
  BY DEF IInv, EntryOfOwner
<1> QED
  BY <1>2, <1>3 DEF IInv, NoSlotYet

LEMMA LoginSteps ==
  ASSUME IInv, NEW p \in Session,
         Connect(p) \/ RefuseLogin(p) \/ AllowLogin(p) \/ Answer(p) \/ Enter(p)
  PROVE  IInv'
<1>0. TypeOK /\ NoSlotYet
  BY DEF IInv
<1>1. CASE Connect(p)
  <2> PICK label \in {"dead", "login"} : Goto(p, label)
    BY <1>1 DEF Connect
  <2>1. pc[p] = "new" /\ utmpent[p] = 0
    BY <1>0, <1>1 DEF Connect, NoSlotYet
  <2> QED
    BY <1>0, <1>1, <2>1, QuietStep DEF Connect, TypeOK, Alive, LoggingIn
<1>2. CASE RefuseLogin(p)
  BY <1>0, <1>2, QuietStep DEF RefuseLogin, TypeOK, Alive
<1>3. CASE AllowLogin(p)
  <2>1. pc[p] = "login" /\ utmpent[p] = 0 /\ missed' \subseteq User
        /\ UNCHANGED <<uinfo, due, utmpent, at, evicted>>
    BY <1>0, <1>3, UtmpAssumption DEF AllowLogin, NoSlotYet, LoggingIn, TypeOK
  <2>2. CASE Goto(p, "enter") /\ UNCHANGED seen
    BY <1>0, <2>1, <2>2, QuietStep DEF TypeOK, Alive, LoggingIn
  <2>3. ASSUME NEW i \in Slot, Used(i), Goto(p, "ask"),
               seen' = [seen EXCEPT ![p] = uinfo[i].pid]
        PROVE  IInv'
    <3>1. uinfo[i].pid \in Session /\ pc[uinfo[i].pid] # "new"
      BY <2>3, ListedStarted DEF Used
    <3>2. seen'[p] = uinfo[i].pid
      BY <1>0, <2>3 DEF TypeOK
    <3> QED
      BY <1>0, <2>1, <2>3, <3>1, <3>2, QuietStep DEF TypeOK, Alive, LoggingIn
  <2> QED
    BY <1>3, <2>2, <2>3 DEF AllowLogin, Entries
<1>4. CASE Answer(p)
  <2>1. pc[p] = "ask" /\ utmpent[p] = 0 /\ seen[p] \in Session /\ pc[seen[p]] # "new"
    BY <1>4 DEF IInv, Answer, NoSlotYet, LoggingIn, ReadBefore
  <2>2. /\ seen' \in [Session -> Session \cup {NoPid}]
        /\ at' \in [Session -> 0..(UshmSize + 1)]
        /\ \A q \in Session \ {p} : seen'[q] = seen[q] /\ at'[q] = at[q]
    BY <1>0, <1>4, UtmpAssumption DEF Answer, Forget, TypeOK
  <2>3. CASE Goto(p, "enter") /\ UNCHANGED <<utmpent, evicted>>
    BY <1>0, <1>4, <2>1, <2>2, <2>3, QuietStep DEF Answer, TypeOK, Alive, LoggingIn
  <2>4. CASE pc' = [pc EXCEPT ![p] = "enter", ![seen[p]] = "dead"] /\ Gone(seen[p])
    BY <1>4, <2>1, <2>2, <2>4, GoneStep DEF Answer
  <2> QED
    BY <1>4, <2>3, <2>4 DEF Answer
<1>5. CASE Enter(p)
  <2>1. CASE FreeSlots = {} /\ Goto(p, "in") /\ UNCHANGED <<uinfo, utmpent>>
    <3>1. pc[p] = "enter" /\ utmpent[p] = 0
      BY <1>0, <1>5 DEF Enter, NoSlotYet, LoggingIn
    <3> QED
      BY <1>0, <1>5, <2>1, <3>1, QuietStep DEF Enter, TypeOK, Alive, InList
  <2>2. CASE \E i \in FreeSlots :
               /\ uinfo' = [uinfo EXCEPT ![i] = OwnEntry(p)]
               /\ utmpent' = [utmpent EXCEPT ![p] = i]
               /\ Goto(p, "entered")
    BY <1>5, <2>2, EnterStep DEF Enter
  <2> QED
    BY <1>5, <2>1, <2>2 DEF Enter
<1> QED
  BY <1>1, <1>2, <1>3, <1>4, <1>5

LEMMA PurgeSteps ==
  ASSUME IInv, NEW p \in Session,
         ReadUptime(p) \/ StampUptime(p) \/ Scan(p) \/ Probe(p) \/ Wipe(p)
  PROVE  IInv'
<1>0. TypeOK /\ ReadBefore /\ UshmSize \in Nat \ {0}
  BY UtmpAssumption DEF IInv
<1>1. CASE ReadUptime(p)
  <2> PICK label \in {"stamp", "in"} : Goto(p, label)
    BY <1>1 DEF ReadUptime
  <2> QED
    BY <1>0, <1>1, QuietStep DEF ReadUptime, TypeOK, Alive, InList
<1>2. CASE StampUptime(p)
  <2>1. at' \in [Session -> 0..(UshmSize + 1)] /\ at'[p] = 1
        /\ \A q \in Session \ {p} : at'[q] = at[q]
    BY <1>0, <1>2 DEF StampUptime, TypeOK
  <2>2. /\ due' \in BOOLEAN /\ missed' \subseteq User
        /\ seen' \in [Session -> Session \cup {NoPid}] /\ seen' = seen
        /\ pc[p] \in InList /\ pc[p] # "dead" /\ "scan" \in Alive
    BY <1>0, <1>2 DEF StampUptime, TypeOK, Alive, InList
  <2> QED
    BY <1>2, <2>1, <2>2, QuietStep DEF StampUptime
<1>3. CASE Scan(p)
  <2>0. /\ due' \in BOOLEAN /\ missed' \subseteq User
        /\ UNCHANGED <<uinfo, utmpent, evicted>>
        /\ pc[p] \in InList /\ pc[p] # "dead" /\ InList \subseteq Alive
    BY <1>0, <1>3 DEF Scan, TypeOK, Alive, InList
  <2>1. pc[p] = "scan" /\ at[p] # 0 /\ at[p] \in 0..(UshmSize + 1)
    BY <1>0, <1>3 DEF Scan, ReadBefore, TypeOK
  <2>2. CASE Goto(p, "in") /\ Forget(p)
    <3>1. /\ seen' \in [Session -> Session \cup {NoPid}]
          /\ at' \in [Session -> 0..(UshmSize + 1)]
          /\ \A q \in Session \ {p} : seen'[q] = seen[q] /\ at'[q] = at[q]
      BY <1>0, <2>2 DEF Forget, TypeOK
    <3> QED
      BY <2>0, <2>2, <3>1, QuietStep DEF InList
  <2>3. CASE /\ at[p] <= UshmSize /\ Used(at[p]) /\ Goto(p, "probe")
             /\ seen' = [seen EXCEPT ![p] = uinfo[at[p]].pid] /\ UNCHANGED at
    <3>1. at[p] \in Slot
      BY <1>0, <2>1, <2>3
    <3>2. uinfo[at[p]].pid \in Session /\ pc[uinfo[at[p]].pid] # "new"
      BY <2>3, <3>1, ListedStarted DEF Used
    <3>3. /\ seen' \in [Session -> Session \cup {NoPid}]
          /\ seen'[p] = uinfo[at[p]].pid
          /\ \A q \in Session \ {p} : seen'[q] = seen[q]
      BY <1>0, <2>3, <3>2 DEF TypeOK
    <3>4. at' \in [Session -> 0..(UshmSize + 1)] /\ at'[p] \in Slot /\ at'[p] # 0
      BY <1>0, <2>3, <3>1 DEF TypeOK
    <3> QED
      BY <2>0, <2>3, <3>2, <3>3, <3>4, QuietStep DEF InList
  <2>4. CASE /\ at[p] <= UshmSize /\ at' = [at EXCEPT ![p] = @ + 1]
             /\ UNCHANGED <<pc, seen>>
    <3>1. /\ at' \in [Session -> 0..(UshmSize + 1)] /\ at'[p] # 0
          /\ \A q \in Session \ {p} : at'[q] = at[q]
      BY <1>0, <2>1, <2>4 DEF TypeOK
    <3>2. Goto(p, "scan")
      BY <1>0, <2>1, <2>4 DEF Goto, TypeOK
    <3>3. seen' \in [Session -> Session \cup {NoPid}] /\ seen' = seen
      BY <1>0, <2>4 DEF TypeOK
    <3> QED
      BY <2>0, <2>4, <3>1, <3>2, <3>3, QuietStep DEF InList
  <2> QED
    BY <1>3, <2>2, <2>3, <2>4 DEF Scan
<1>4. CASE Probe(p)
  <2>1. /\ due' \in BOOLEAN /\ missed' \subseteq User
        /\ seen' \in [Session -> Session \cup {NoPid}] /\ seen' = seen
        /\ UNCHANGED <<uinfo, utmpent, evicted>>
        /\ pc[p] \in InList /\ pc[p] # "dead" /\ InList \subseteq Alive
    BY <1>0, <1>4 DEF Probe, TypeOK, Alive, InList
  <2>2. /\ pc[p] = "probe" /\ at[p] \in Slot
        /\ seen[p] \in Session /\ pc[seen[p]] # "new"
    BY <1>0, <1>4 DEF Probe, ReadBefore
  <2>3. CASE ~IsAlive(seen[p]) /\ Goto(p, "wipe") /\ UNCHANGED at
    <3>1. pc[seen'[p]] = "dead" /\ seen'[p] # p /\ seen'[p] \in Session
      BY <1>0, <2>1, <2>2, <2>3 DEF IsAlive, TypeOK
    <3>2. at' \in [Session -> 0..(UshmSize + 1)] /\ at'[p] \in Slot /\ at'[p] # 0
      BY <1>0, <2>2, <2>3 DEF TypeOK
    <3> QED
      BY <2>1, <2>3, <3>1, <3>2, QuietStep DEF InList
  <2>4. CASE at' = [at EXCEPT ![p] = @ + 1] /\ Goto(p, "scan")
    <3>1. /\ at' \in [Session -> 0..(UshmSize + 1)] /\ at'[p] # 0
          /\ \A q \in Session \ {p} : at'[q] = at[q]
      BY <1>0, <2>2, <2>4 DEF TypeOK
    <3> QED
      BY <2>1, <2>4, <3>1, QuietStep DEF InList
  <2> QED
    BY <1>4, <2>3, <2>4 DEF Probe
<1>5. CASE Wipe(p)
  <2>1. pc[p] = "wipe" /\ at[p] \in Slot
    BY <1>0, <1>5 DEF Wipe, ReadBefore
  <2>2. /\ at' \in [Session -> 0..(UshmSize + 1)] /\ at'[p] # 0
        /\ \A q \in Session \ {p} : at'[q] = at[q]
    BY <1>0, <1>5, <2>1 DEF Wipe, TypeOK
  <2> QED
    BY <1>0, <1>5, <2>1, <2>2, EntryTypes, Pids, ClearStep DEF Wipe, TypeOK
<1> QED
  BY <1>1, <1>2, <1>3, <1>4, <1>5

LEMMA OnLineSteps ==
  ASSUME IInv, NEW p \in Session,
         \/ Leave(p) \/ Quit(p) \/ Abort(p) \/ Die(p) \/ KickWrite(p)
         \/ \E i \in Slot, byname \in BOOLEAN : Kick(p, i, byname)
  PROVE  IInv'
<1>0. TypeOK /\ ReadBefore /\ UshmSize \in Nat \ {0}
  BY UtmpAssumption DEF IInv
<1>1. ASSUME Forget(p)
      PROVE  /\ seen' \in [Session -> Session \cup {NoPid}]
             /\ at' \in [Session -> 0..(UshmSize + 1)]
             /\ \A q \in Session \ {p} : seen'[q] = seen[q] /\ at'[q] = at[q]
  BY <1>0, <1>1 DEF Forget, TypeOK
<1>2. CASE Leave(p)
  BY <1>0, <1>2, ExitStep DEF Leave, TypeOK
<1>3. CASE Quit(p)
  BY <1>0, <1>3, GoneStep DEF Quit, TypeOK
<1>4. CASE Abort(p)
  BY <1>1, <1>4, ExitStep DEF Abort
<1>5. CASE Die(p)
  <2>1. pc[p] # "new"
    BY <1>5 DEF Die, IsAlive, Alive, LoggingIn, InList
  <2> QED
    BY <1>1, <1>5, <2>1, GoneStep DEF Die
<1>6. ASSUME NEW i \in Slot, NEW byname \in BOOLEAN, Kick(p, i, byname)
      PROVE  IInv'
  <2>1. uinfo[i].pid \in Session /\ pc[uinfo[i].pid] # "new"
    BY <1>6, ListedStarted DEF Kick, Used
  <2>2. /\ seen' \in [Session -> Session \cup {NoPid}]
        /\ at' \in [Session -> 0..(UshmSize + 1)]
        /\ seen'[p] = uinfo[i].pid /\ at'[p] \in Slot
        /\ \A q \in Session \ {p} : seen'[q] = seen[q] /\ at'[q] = at[q]
    BY <1>0, <1>6, <2>1 DEF Kick, TypeOK
  <2>3. /\ due' \in BOOLEAN /\ missed' \subseteq User /\ at'[p] # 0
        /\ pc[p] \in InList /\ pc[p] # "dead" /\ "kick" \in Alive
    BY <1>0, <1>6, <2>2 DEF Kick, TypeOK, Alive, InList
  <2> QED
    BY <1>6, <2>1, <2>2, <2>3, QuietStep DEF Kick
<1>7. CASE KickWrite(p)
  <2>1. seen[p] \in Session /\ LeftEntry(Account[seen[p]]) \in UserInfo
        /\ LeftEntry(Account[seen[p]]).pid = NoPid
    BY <1>0, <1>7, EntryTypes, Pids, UtmpAssumption DEF KickWrite, ReadBefore
  <2> QED
    BY <1>1, <1>7, <2>1, ClearStep DEF KickWrite
<1> QED
  BY <1>2, <1>3, <1>4, <1>5, <1>6, <1>7

-----------------------------------------------------------------------------
(* Every step of every session keeps the invariant.                          *)
LEMMA StepKeeps ==
  ASSUME IInv, [Next]_vars
  PROVE  IInv'
<1>1. CASE UNCHANGED vars
  BY <1>1 DEF IInv, vars, TypeOK, EntryOfOwner, NoSlotYet, ReadBefore,
              KeepsEntry, HasSlot, ListedOnce, OwnEntry
<1>2. CASE Elapse
  BY <1>2 DEF IInv, Elapse, TypeOK, EntryOfOwner, NoSlotYet, ReadBefore,
              KeepsEntry, HasSlot, ListedOnce, OwnEntry
<1>3. ASSUME NEW p \in Session, Step(p)
      PROVE  IInv'
  BY <1>3, LoginSteps, PurgeSteps, UpdateStep, OnLineSteps DEF Step
<1> QED
  BY <1>1, <1>2, <1>3 DEF Next

(* The inductive invariant holds of every reachable list.                    *)
THEOREM UtmpInvariant == Spec => []IInv
<1>1. Init => IInv
  BY InitIInv
<1>2. IInv /\ [Next]_vars => IInv'
  BY StepKeeps
<1> QED
  BY <1>1, <1>2, PTL DEF Spec

(* Every variable has its type, for any number of sessions and slots.        *)
THEOREM UtmpTypeCorrect == Spec => []TypeOK
<1>1. IInv => TypeOK
  BY DEF IInv
<1> QED
  BY <1>1, UtmpInvariant, PTL

(* getnewutmpent and update_utmp: a session whose entry nobody wrote over    *)
(* has it in its slot, for any number of sessions, slots and kicks.          *)
THEOREM UtmpKeepsEntry == Spec => []KeepsEntry
<1>1. IInv => KeepsEntry
  BY DEF IInv
<1> QED
  BY <1>1, UtmpInvariant, PTL

(* No process is in the list twice.                                          *)
THEOREM UtmpListedOnce == Spec => []ListedOnce
<1>1. IInv => ListedOnce
  BY DEF IInv
<1> QED
  BY <1>1, UtmpInvariant, PTL

-----------------------------------------------------------------------------
(* A session on line that writes its slot over the entry of another one has  *)
(* lost its own, or has left.                                                *)
LEMMA Trespasser ==
  ASSUME IInv, NEW p \in Session, NEW q \in Session, NEW i \in Slot,
         NEW entry \in {OwnEntry(p), LeftEntry(Account[p])}, p # q,
         pc[p] \in {"in", "kick", "left"}, WriteOwn(p, entry), EndsEntry(q, i)
  PROVE  Reason(q, i)
<1>1. TypeOK /\ KeepsEntry
  BY DEF IInv
<1>2. utmpent[p] = i
  BY <1>1, WriteOwnEffect DEF EndsEntry
<1>3. uinfo'[i] = entry
  BY <1>1, <1>2, WriteOwnEffect
<1>4. CASE pc[p] = "left" \/ p \in evicted
  BY <1>2, <1>3, <1>4 DEF Reason
<1>5. CASE pc[p] \in {"in", "kick"} /\ p \notin evicted
  <2>1. uinfo[i] = OwnEntry(p)
    BY <1>1, <1>2, <1>5 DEF KeepsEntry, HasSlot, InList
  <2> QED
    BY <2>1, Pids DEF EndsEntry
<1> QED
  BY <1>4, <1>5

LEMMA StepHasReason ==
  ASSUME IInv, [Next]_vars, NEW q \in Session, NEW i \in Slot, EndsEntry(q, i)
  PROVE  Reason(q, i)
<1>1. TypeOK /\ ReadBefore /\ uinfo'[i] # uinfo[i]
  BY DEF IInv, EndsEntry
<1>2. PICK p \in Session : Step(p)
  BY <1>1 DEF Next, Elapse, vars
<1>3. CASE Enter(p)
  <2>1. Used(i)
    BY UtmpAssumption DEF EndsEntry, Used, OwnEntry
  <2> QED
    BY <1>1, <1>3, <2>1 DEF Enter, FreeSlots, TypeOK
<1>4. CASE Wipe(p)
  <2>1. at[p] = i /\ pc[p] = "wipe" /\ pc'[p] = "scan"
    BY <1>1, <1>4 DEF Wipe, Write, Goto, TypeOK
  <2>2. seen[p] # q
    BY <1>1, <2>1 DEF ReadBefore, EndsEntry, IsAlive, Alive, InList, LoggingIn
  <2> QED
    BY <2>1, <2>2 DEF Reason
<1>5. CASE Update(p)
  <2>1. CASE p = q
    BY <1>1, <1>5, <2>1, WriteOwnEffect DEF Update, EndsEntry
  <2>2. CASE p # q
    BY <1>5, <2>2, Trespasser DEF Update
  <2> QED
    BY <2>1, <2>2
<1>6. CASE Leave(p) \/ Abort(p)
  <2>1. /\ pc[p] \in {"in", "kick", "left"} /\ pc'[p] \in {"left", "dead"}
        /\ WriteOwn(p, LeftEntry(Account[p]))
    BY <1>1, <1>6 DEF Leave, Abort, Goto, TypeOK
  <2>2. CASE p = q
    BY <2>1, <2>2 DEF Reason
  <2>3. CASE p # q
    BY <2>1, <2>3, Trespasser
  <2> QED
    BY <2>2, <2>3
<1>7. CASE KickWrite(p)
  <2>1. at[p] = i /\ pc[p] = "kick" /\ pc'[p] = "in"
    BY <1>1, <1>7 DEF KickWrite, Write, Goto, TypeOK
  <2> QED
    BY <2>1 DEF Reason
<1>8. CASE UNCHANGED uinfo
  BY <1>1, <1>8
<1> QED
  BY <1>2, <1>3, <1>4, <1>5, <1>6, <1>7, <1>8
  DEF Step, Connect, RefuseLogin, AllowLogin, Answer, ReadUptime, StampUptime,
      Scan, Probe, Quit, Die, Kick

(* Whatever steps the sessions take, the entry of a live one is ended by     *)
(* itself, by a kick, by a purge that was overtaken, or by the owner of the  *)
(* slot before.                                                             *)
THEOREM UtmpEndedForAReason == Spec => EndedForAReason
<1>1. IInv /\ [Next]_vars =>
        [\A q \in Session, i \in Slot : EndsEntry(q, i) => Reason(q, i)]_vars
  BY StepHasReason
<1> QED
  BY <1>1, UtmpInvariant, PTL DEF Spec, EndedForAReason

-----------------------------------------------------------------------------
(* The limit of logins.  LimitKept is inductive as it stands once the sets   *)
(* it counts are known to be finite.                                         *)
Limited == User \ (missed \cup Exempt \cup Guest)

AdmittedFinite == \A u \in Limited : IsFiniteSet(Admitted(u))

(* When all sessions of an account that passed the check are in the list,    *)
(* count_user counts at least as many: each has an entry of its own.         *)
LEMMA CountedWhenListed ==
  ASSUME TypeOK, NEW u \in User, Unlisted(u) = {}
  PROVE  /\ IsFiniteSet(Admitted(u)) /\ IsFiniteSet(Logins(u))
         /\ Cardinality(Admitted(u)) <= Cardinality(Logins(u))
<1>1. IsFiniteSet(Slot)
  BY FS_Interval, UtmpAssumption
<1>2. IsFiniteSet(Logins(u))
  BY <1>1, FS_Subset DEF Logins, Active
<1> DEFINE slot == [q \in Admitted(u) |-> CHOOSE i \in Slot : uinfo[i] = OwnEntry(q)]
<1>3. \A q \in Admitted(u) : slot[q] \in Slot /\ uinfo[slot[q]] = OwnEntry(q)
  BY DEF Unlisted
<1>4. \A q \in Admitted(u) : q \in Session /\ Account[q] = u
  BY DEF Admitted
<1> HIDE DEF slot
<1>5. \A q \in Admitted(u) : slot[q] \in Logins(u)
  <2> SUFFICES ASSUME NEW q \in Admitted(u) PROVE slot[q] \in Logins(u)
    OBVIOUS
  <2>1. /\ uinfo[slot[q]].active /\ uinfo[slot[q]].uid = u
        /\ uinfo[slot[q]].pid # NoPid
    <3>1. q \in Session /\ Account[q] = u /\ uinfo[slot[q]] = OwnEntry(q)
      BY <1>3, <1>4
    <3>2. OwnEntry(q).active /\ OwnEntry(q).uid = u /\ OwnEntry(q).pid = q
      BY <3>1 DEF OwnEntry
    <3> QED
      BY <3>1, <3>2, UtmpAssumption
  <2> QED
    BY <1>3, <2>1 DEF Logins, Active, Used
<1>6. \A q, r \in Admitted(u) : slot[q] = slot[r] => q = r
  BY <1>3, <1>4, Pids
<1>7. slot \in Injection(Admitted(u), Logins(u))
  BY <1>5, <1>6 DEF slot, Injection, IsInjective
<1> QED
  BY <1>2, <1>7, FS_Injection

(* Only AllowLogin lets a session in, and only its own account is concerned. *)
LEMMA AdmittedGrows ==
  ASSUME TypeOK, [Next]_vars, NEW u \in User
  PROVE  \/ Admitted(u)' \subseteq Admitted(u)
         \/ \E p \in Session : /\ AllowLogin(p) /\ Account[p] = u
                              /\ Admitted(u)' \subseteq Admitted(u) \cup {p}
<1>1. CASE UNCHANGED pc
  BY <1>1 DEF Admitted
<1>2. ASSUME NEW p \in Session, AllowLogin(p)
      PROVE  \A q \in Session \ {p} : pc'[q] = pc[q]
  BY <1>2 DEF AllowLogin, Goto, TypeOK
<1>3. ASSUME NEW p \in Session, Step(p), ~AllowLogin(p)
      PROVE  Admitted(u)' \subseteq Admitted(u)
  <2> SUFFICES ASSUME NEW q \in Session, pc'[q] \in {"ask", "enter"} \cup InList
               PROVE  pc[q] \in {"ask", "enter"} \cup InList
    BY DEF Admitted
  <2>1. CASE Answer(p)
    BY <2>1 DEF Answer, Goto, TypeOK, InList
  <2>2. CASE ~Answer(p)
    <3>1. q # p => pc'[q] = pc[q]
      BY <1>3, <2>2 DEF Step, Connect, RefuseLogin, Enter, ReadUptime, StampUptime,
         Scan, Probe, Wipe, Update, Leave, Quit, Abort, Die, Kick, KickWrite,
         Goto, TypeOK
    <3>2. q = p => pc[p] \in {"enter"} \cup InList
      BY <1>3, <2>2 DEF Step, Connect, RefuseLogin, Enter, ReadUptime, StampUptime,
         Scan, Probe, Wipe, Update, Leave, Quit, Abort, Die, Kick, KickWrite,
         Goto, TypeOK, InList
    <3> QED
      BY <3>1, <3>2
  <2> QED
    BY <2>1, <2>2
<1>4. ASSUME NEW p \in Session, AllowLogin(p)
      PROVE  \/ Admitted(u)' \subseteq Admitted(u)
             \/ /\ Account[p] = u
                /\ Admitted(u)' \subseteq Admitted(u) \cup {p}
  BY <1>2, <1>4 DEF Admitted
<1> QED
  BY <1>1, <1>3, <1>4 DEF Next, Elapse, vars

LEMMA LimitStep ==
  ASSUME TypeOK, AdmittedFinite, LimitKept, [Next]_vars
  PROVE  AdmittedFinite' /\ LimitKept'
<1> SUFFICES ASSUME NEW u \in Limited'
             PROVE  /\ IsFiniteSet(Admitted(u)')
                    /\ Cardinality(Admitted(u)') <= MultiLogins
  BY DEF AdmittedFinite, LimitKept, Limited
<1>1. missed \subseteq missed'
  BY DEF Next, Step, vars, Elapse, Connect, RefuseLogin, AllowLogin, Answer, Enter,
     ReadUptime, StampUptime, Scan, Probe, Wipe, Update, Leave, Quit, Abort, Die,
     Kick, KickWrite
<1>2. u \in Limited /\ u \in User /\ u \notin missed' \cup Exempt \cup Guest
  BY <1>1 DEF Limited
<1>3. IsFiniteSet(Admitted(u)) /\ Cardinality(Admitted(u)) <= MultiLogins
  BY <1>2 DEF AdmittedFinite, LimitKept, Limited
<1>4. CASE Admitted(u)' \subseteq Admitted(u)
  <2>1. /\ IsFiniteSet(Admitted(u)')
        /\ Cardinality(Admitted(u)') <= Cardinality(Admitted(u))
    BY <1>3, <1>4, FS_Subset
  <2> QED
    BY <1>3, <2>1, FS_CardinalityType, UtmpAssumption
<1>5. ASSUME NEW p \in Session, AllowLogin(p), Account[p] = u,
             Admitted(u)' \subseteq Admitted(u) \cup {p}
      PROVE  /\ IsFiniteSet(Admitted(u)')
             /\ Cardinality(Admitted(u)') <= MultiLogins
  <2>1. Unlisted(u) = {} /\ ~TooMany(u)
    BY <1>2, <1>5 DEF AllowLogin
  <2>2. Cardinality(Logins(u)) < MultiLogins /\ Cardinality(Admitted(u)) < MultiLogins
    <3>1. /\ IsFiniteSet(Logins(u)) /\ IsFiniteSet(Admitted(u))
          /\ Cardinality(Admitted(u)) <= Cardinality(Logins(u))
      BY <1>2, <2>1, CountedWhenListed
    <3>2. Cardinality(Logins(u)) \in Nat /\ Cardinality(Admitted(u)) \in Nat
      BY <3>1, FS_CardinalityType
    <3>3. ~(Cardinality(Logins(u)) >= MultiLogins)
      BY <1>2, <2>1 DEF TooMany
    <3>4. MultiLogins \in Nat
      BY UtmpAssumption
    <3> QED
      BY <3>1, <3>2, <3>3, <3>4
  <2> DEFINE more == Admitted(u) \cup {p}
  <2>3. IsFiniteSet(more) /\ Cardinality(more) <= MultiLogins
    <3>1. /\ IsFiniteSet(more)
          /\ \/ Cardinality(more) = Cardinality(Admitted(u))
             \/ Cardinality(more) = Cardinality(Admitted(u)) + 1
      BY <1>3, FS_AddElement
    <3>2. Cardinality(Admitted(u)) \in Nat /\ MultiLogins \in Nat
      BY <1>3, FS_CardinalityType, UtmpAssumption
    <3> QED
      BY <2>2, <3>1, <3>2
  <2> HIDE DEF more
  <2>4. /\ IsFiniteSet(Admitted(u)') /\ Cardinality(Admitted(u)') <= Cardinality(more)
    BY <1>5, <2>3, FS_Subset DEF more
  <2> QED
    BY <2>3, <2>4, FS_CardinalityType, UtmpAssumption
<1> QED
  BY <1>2, <1>4, <1>5, AdmittedGrows

(* multi_user_check: whatever the number of sessions and slots, an account   *)
(* goes over MULTI_LOGINS only by a login that could not count all the       *)
(* sessions of the account that had passed the check.                        *)
THEOREM UtmpLimitKept == Spec => []LimitKept
<1>1. Init => AdmittedFinite /\ LimitKept
  <2> SUFFICES ASSUME Init, NEW u \in User
               PROVE  IsFiniteSet(Admitted(u)) /\ Cardinality(Admitted(u)) <= MultiLogins
    BY DEF AdmittedFinite, LimitKept, Limited
  <2>1. Admitted(u) = {}
    BY DEF Init, Admitted, InList
  <2> QED
    BY <2>1, FS_EmptySet, UtmpAssumption
<1>2. IInv /\ AdmittedFinite /\ LimitKept /\ [Next]_vars
        => AdmittedFinite' /\ LimitKept'
  BY LimitStep DEF IInv
<1> QED
  BY <1>1, <1>2, UtmpInvariant, PTL DEF Spec
-----------------------------------------------------------------------------
(* The user records.  From here on Slot stays what it is, a set.             *)
HIDE DEF Slot

(* Where a session is registering, or changing a name.                       *)
Naming == Registering \cup {"confirm", "renamed"}
Pending == Naming \ {"created", "recheck"}

(* Every claim about a record is about one that no lost session wrote to,     *)
(* while neither torn nor strayed.                                           *)
Calm == ~torn /\ ~strayed
Plain == DOMAIN passfile \ haunted
Sure == Process \ lost
Owner(i) == passfile[i].userid
Running == {"read", "fill", "end"}
Purging(s) == stage[s] \in {"clean", "kill"}

(* Somebody goes on to list, or to clear, a record that was empty.            *)
Taking(i) == \E x \in Process : stage[x] = "took" /\ id[x] = i

Vacant(i) == Owner(i) = Nobody \/ Taking(i)

(* Somebody has changed one of record and entry, and goes on to the other.    *)
Between(x, i) ==
  /\ id[x] = i
  /\ \/ stage[x] \in {"took", "deleted"}
     \/ stage[x] = "created" /\ want[x] = Owner(i)
     \/ stage[x] = "renamed" /\ lookupuser[x].userid = Owner(i)

Matched(i) == userid[i] = Owner(i) \/ \E x \in Process : Between(x, i)

-----------------------------------------------------------------------------
(* What holds of every state: the records that sessions go on to use exist,   *)
RecordsExist ==
  /\ \A s \in Process :
       /\ stage[s] \in OnLine => usernum[s] \in DOMAIN passfile
       /\ stage[s] \in Holding \cup {"kill"} => id[s] \in DOMAIN passfile
       /\ stage[s] = "clean" => id[s] \in 1..(Len(passfile) + 1)
       /\ reload[s].step \in Running => reload[s].at \in 1..(Len(passfile) + 1)
       /\ reload[s].step = "fill" => reload[s].at \in DOMAIN passfile
  /\ number <= Len(passfile)

(* the names that people have and ask for are theirs,                        *)
NamesOfPeople ==
  \A s \in Process :
    /\ stage[s] \in OnLine => currentuser[s].userid \in UserId
    /\ stage[s] \in Naming => want[s] \in UserId
    /\ stage[s] = "info" =>
         id[s] = usernum[s] /\ lookupuser[s].userid = currentuser[s].userid

(* who looks for a record, or has just written it, holds flock,               *)
FlockHeld == \A s \in Process : stage[s] \in {"search", "took"} => flocked = {s}

(* a purge is alone, with no reload before its end,                          *)
PurgeAlone ==
  /\ killuser => uptime = flush /\ \A s \in Process : reload[s].step = "none" /\ ~Purging(s)
  /\ \A s \in Process : Purging(s) =>
       /\ uptime = flush /\ ~killuser
       /\ \A q \in Process : reload[q].step = "none" /\ (Purging(q) => q = s)

(* and after it the list is as old as the purge until it is read again.       *)
ReloadTimes ==
  /\ uptime # flush => \E s \in Process : stage[s] \in {"lock", "search"}
  /\ \A s \in Process :
       /\ reload[s].step = "done" => uptime = flush
       /\ reload[s].step \in Running =>
            /\ reload[s].ftime = flush
            /\ stage[s] \in {"out", "on", "search", "recheck", "rename"}

(* A reload that nobody crossed has counted every record but one being taken. *)
CountedAll ==
  \A s \in Process : reload[s].step = "end" /\ ~reload[s].crossed =>
    \/ Len(passfile) < reload[s].at
    \/ Len(passfile) = reload[s].at /\ Taking(reload[s].at)

(* The basic invariant, which no event of the past excuses.                  *)
Base ==
  /\ AccountsTypeOK /\ RecordsExist /\ NamesOfPeople /\ FlockHeld
  /\ PurgeAlone /\ ReloadTimes /\ CountedAll

(* Copies carry the name of their record.                                    *)
OwnCopies ==
  \A s \in Sure :
    /\ stage[s] \in OnLine /\ usernum[s] \in Plain =>
         Owner(usernum[s]) = currentuser[s].userid
    /\ stage[s] \in Dialogue /\ id[s] \in Plain =>
         /\ Owner(id[s]) = lookupuser[s].userid
         /\ stage[s] # "deleted" => lookupuser[s].userid \in UserId

(* A registration has its record to itself.                                  *)
OwnRegistration ==
  \A s \in Process :
    (id[s] \in Plain) =>
      /\ stage[s] = "deleted" => Owner(id[s]) = Nobody
      /\ stage[s] = "took" => Owner(id[s]) \in {Newcomer, Nobody}
      /\ stage[s] \in {"took", "password"} /\ s \notin lost =>
           /\ Owner(id[s]) = Newcomer
           /\ \A x \in Process :
                /\ id[x] = id[s]
                /\ stage[x] = "took" \/ (stage[x] = "password" /\ x \notin lost)
                => x = s
      /\ stage[s] = "created" /\ s \notin lost => Owner(id[s]) = want[s]

(* An entry that is free, or will be, belongs to a record that is.            *)
FreeEntries ==
  \A i \in Plain :
    /\ userid[i] = Nobody \/ number < i => Vacant(i)
    /\ \A s \in Process : ~reload[s].crossed =>
         /\ reload[s].step = "fill" /\ reload[s].at = i /\ reload[s].got = Nobody => Vacant(i)
         /\ reload[s].step = "end" /\ reload[s].at <= i => Vacant(i)

(* Entries match their records, except where a purge emptied the record.      *)
EntriesMatch ==
  \A i \in Plain :
    /\ Matched(i) \/ Owner(i) = Nobody
    /\ Matched(i) \/ uptime # flush \/ \E s \in Process : Purging(s)
    /\ \A s \in Process :
         /\ reload[s].step \in Running /\ i < reload[s].at => Matched(i)
         /\ reload[s].step = "fill" /\ reload[s].at = i /\ ~reload[s].crossed =>
              reload[s].got = Owner(i) \/ \E x \in Process : Between(x, i)

(* A name that is asked for twice, or exists, is a race.                     *)
AskedTwice ==
  \A s, x \in Process :
    s # x /\ stage[s] \in Naming /\ stage[x] \in Naming /\ want[s] = want[x] =>
      want[s] \in raced

AskedAndThere ==
  \A s \in Process, j \in Plain :
    stage[s] \in Pending /\ Owner(j) = want[s] => want[s] \in raced

(* Copies that are not late have the level of their record.                  *)
LevelCopies ==
  \A s \in Sure :
    /\ stage[s] \in OnLine /\ usernum[s] \in Plain /\ ~late[s].currentuser =>
         currentuser[s].level = passfile[usernum[s]].level
    /\ stage[s] \in Dialogue /\ id[s] \in Plain /\ ~late[s].lookupuser =>
         lookupuser[s].level = passfile[id[s]].level

EmptyLevel == \A i \in Plain : Owner(i) = Nobody => passfile[i].level = 0

-----------------------------------------------------------------------------
(* Records of users, and the places of sessions in resolve_ucache.           *)
LEMMA UserRecords ==
  /\ Zerorec \in Userec
  /\ \A r \in Userec : r.userid \in Name /\ r.level \in {0, 1} /\ r.lastlogin \in 0..MaxTime
  /\ \A u \in Name, v \in {0, 1}, t \in 0..MaxTime :
       [userid |-> u, level |-> v, lastlogin |-> t] \in Userec
BY AccountsAssumption DEF Userec, Zerorec, Name

LEMMA ChangedRecords ==
  /\ \A r \in Userec, t \in 0..MaxTime :
       LET c == [r EXCEPT !.lastlogin = t]
       IN c \in Userec /\ c.userid = r.userid /\ c.level = r.level
  /\ \A r \in Userec, v \in {0, 1} :
       LET c == [r EXCEPT !.level = v]
       IN c \in Userec /\ c.userid = r.userid /\ c.level = v
  /\ \A r \in Userec, u \in Name :
       LET c == [r EXCEPT !.userid = u]
       IN c \in Userec /\ c.userid = u /\ c.level = r.level
  /\ \A r \in Userec :
       LET c == [r EXCEPT !.userid = Nobody, !.level = 0]
       IN c \in Userec /\ c.userid = Nobody /\ c.level = 0
  /\ \A r \in Userec :
       LET c == [r EXCEPT !.level = 1 - @]
       IN c \in Userec /\ c.userid = r.userid
  /\ \A r, f \in Userec :
       LET c == Renewed(r, f)
       IN c \in Userec /\ c.userid = r.userid /\ c.level = f.level
<1>1. ASSUME NEW r \in Userec, NEW t \in 0..MaxTime
      PROVE  LET c == [r EXCEPT !.lastlogin = t]
             IN c \in Userec /\ c.userid = r.userid /\ c.level = r.level
  BY DEF Userec
<1>2. ASSUME NEW r \in Userec, NEW v \in {0, 1}
      PROVE  LET c == [r EXCEPT !.level = v]
             IN c \in Userec /\ c.userid = r.userid /\ c.level = v
  BY DEF Userec
<1>3. ASSUME NEW r \in Userec, NEW u \in Name
      PROVE  LET c == [r EXCEPT !.userid = u]
             IN c \in Userec /\ c.userid = u /\ c.level = r.level
  BY DEF Userec
<1>4. ASSUME NEW r \in Userec
      PROVE  LET c == [r EXCEPT !.userid = Nobody, !.level = 0]
             IN c \in Userec /\ c.userid = Nobody /\ c.level = 0
  BY DEF Userec, Name
<1>5. ASSUME NEW r \in Userec
      PROVE  LET c == [r EXCEPT !.level = 1 - @]
             IN c \in Userec /\ c.userid = r.userid
  <2>1. 1 - r.level \in {0, 1}
    BY DEF Userec
  <2> QED
    BY <2>1 DEF Userec
<1>6. ASSUME NEW r \in Userec, NEW f \in Userec
      PROVE  LET c == Renewed(r, f)
             IN c \in Userec /\ c.userid = r.userid /\ c.level = f.level
  BY DEF Userec, Renewed
<1> QED
  BY <1>1, <1>2, <1>3, <1>4, <1>5, <1>6

(* searchuser finds the first entry with the name, or none.                  *)
LEMMA FirstFinds ==
  ASSUME NEW S \in SUBSET (Nat \ {0})
  PROVE  /\ S = {} => First(S) = 0
         /\ S # {} => First(S) \in S
<1>1. CASE S = {}
  BY <1>1 DEF First
<1>2. CASE S # {}
  <2>1. \E i \in S : \A j \in S : i <= j
    BY <1>2, FirstPositionExists
  <2> QED
    BY <1>2, <2>1 DEF First
<1> QED
  BY <1>1, <1>2

LEMMA SearchUserFinds ==
  ASSUME AccountsTypeOK, NEW n
  PROVE  /\ SearchUser(n) \in 0..number
         /\ SearchUser(n) # 0 => userid[SearchUser(n)] = n
         /\ SearchUser(n) = 0 => \A i \in 1..number : userid[i] # n
<1>1. number \in Nat
  BY AccountsAssumption DEF AccountsTypeOK
<1>2. EntriesOf(n) \in SUBSET (Nat \ {0}) /\ EntriesOf(n) \in SUBSET (1..number)
  BY <1>1 DEF EntriesOf
<1>3. CASE EntriesOf(n) = {}
  <2>1. SearchUser(n) = 0
    BY <1>2, <1>3, FirstFinds DEF SearchUser
  <2> QED
    BY <1>1, <1>3, <2>1 DEF EntriesOf
<1>4. CASE EntriesOf(n) # {}
  <2>1. SearchUser(n) \in EntriesOf(n)
    BY <1>2, <1>4, FirstFinds DEF SearchUser
  <2> QED
    BY <1>1, <2>1 DEF EntriesOf
<1> QED
  BY <1>3, <1>4

(* searchnewuser: a free entry, or the one after the last.                   *)
LEMMA SearchNewUserFinds ==
  ASSUME AccountsTypeOK
  PROVE  /\ SearchNewUser \in 0..MaxUsers /\ SearchNewUser <= number + 1
         /\ SearchNewUser # 0 =>
              userid[SearchNewUser] = Nobody \/ SearchNewUser = number + 1
<1>1. number \in Nat /\ MaxUsers \in Nat /\ number <= MaxUsers
  BY AccountsAssumption DEF AccountsTypeOK
<1>2. EntriesOf(Nobody) \in SUBSET (Nat \ {0}) /\ EntriesOf(Nobody) \in SUBSET (1..number)
  BY <1>1 DEF EntriesOf
<1>3. CASE EntriesOf(Nobody) = {}
  BY <1>1, <1>3 DEF SearchNewUser
<1>4. CASE EntriesOf(Nobody) # {}
  <2>1. First(EntriesOf(Nobody)) \in EntriesOf(Nobody)
    BY <1>2, <1>4, FirstFinds
  <2>2. SearchNewUser \in EntriesOf(Nobody)
    BY <1>4, <2>1 DEF SearchNewUser
  <2> QED
    BY <1>1, <2>2 DEF EntriesOf
<1> QED
  BY <1>3, <1>4

-----------------------------------------------------------------------------
(* Types, and what a step of one session leaves to the others.               *)
Stages == {"out", "gone"} \cup Registering \cup OnLine

LEMMA Reloads ==
  /\ NoReload \in Reloading /\ NoReload.step = "none" /\ NoReload.crossed = FALSE
  /\ \A r \in Reloading :
       /\ r.step \in {"none", "read", "fill", "end", "done"} /\ r.at \in 0..(MaxUsers + 1)
       /\ r.got \in Name /\ r.ftime \in Nat /\ r.crossed \in BOOLEAN
BY AccountsAssumption DEF NoReload, Reloading, Name

(* Between a record and its entry, or the other way round.                   *)
Mid == {"took", "created", "renamed", "deleted"}

OthersStay(s) ==
  \A q \in Process \ {s} :
    /\ stage'[q] = stage[q] /\ want'[q] = want[q]
    /\ currentuser'[q] = currentuser[q] /\ usernum'[q] = usernum[q]
    /\ lookupuser'[q] = lookupuser[q] /\ id'[q] = id[q]
    /\ reload'[q].step = reload[q].step /\ reload'[q].at = reload[q].at
    /\ reload'[q].got = reload[q].got /\ reload'[q].ftime = reload[q].ftime
    /\ reload[q].crossed => reload'[q].crossed

(* A step of s changes no record and no entry but number k.                  *)
Touches(s, k) ==
  /\ OthersStay(s)
  /\ stage[s] \in Mid => id[s] = k
  /\ DOMAIN passfile \subseteq DOMAIN passfile'
  /\ DOMAIN passfile' \subseteq DOMAIN passfile \cup {k}
  /\ \A i \in DOMAIN passfile \ {k} : passfile'[i] = passfile[i]
  /\ \A i \in Uid \ {k} : userid'[i] = userid[i]
  /\ lost \subseteq lost' /\ haunted \subseteq haunted' /\ raced \subseteq raced'
  /\ torn => torn'
  /\ strayed => strayed'

LEMMA ReloadPut ==
  ASSUME NEW r \in Reloading
  PROVE  /\ [r EXCEPT !.step = "end"] \in Reloading
         /\ \A g \in Name : [r EXCEPT !.step = "fill", !.got = g] \in Reloading
         /\ r.at + 1 \in 0..(MaxUsers + 1) =>
              [r EXCEPT !.step = "read", !.at = @ + 1, !.crossed = FALSE] \in Reloading
         /\ [r EXCEPT !.step = "done"] \in Reloading
         /\ \A f \in Nat : 1 \in 0..(MaxUsers + 1) =>
              [r EXCEPT !.step = "read", !.at = 1, !.ftime = f] \in Reloading
         /\ \A b \in BOOLEAN : [r EXCEPT !.crossed = b] \in Reloading
<1>1. [r EXCEPT !.step = "end"] \in Reloading /\ [r EXCEPT !.step = "done"] \in Reloading
  BY DEF Reloading
<1>2. ASSUME NEW g \in Name PROVE [r EXCEPT !.step = "fill", !.got = g] \in Reloading
  BY DEF Reloading
<1>3. ASSUME r.at + 1 \in 0..(MaxUsers + 1)
      PROVE  [r EXCEPT !.step = "read", !.at = @ + 1, !.crossed = FALSE] \in Reloading
  BY <1>3 DEF Reloading
<1>4. ASSUME NEW f \in Nat, 1 \in 0..(MaxUsers + 1)
      PROVE  [r EXCEPT !.step = "read", !.at = 1, !.ftime = f] \in Reloading
  BY <1>4 DEF Reloading
<1>5. ASSUME NEW b \in BOOLEAN PROVE [r EXCEPT !.crossed = b] \in Reloading
  BY DEF Reloading
<1> QED
  BY <1>1, <1>2, <1>3, <1>4, <1>5

LEMMA ReloadTypes ==
  ASSUME Base, NEW s \in Process,
         ReloadStart(s) \/ ReloadRead(s) \/ ReloadFill(s) \/ ReloadEnd(s)
  PROVE  AccountsTypeOK'
<1> USE DEF Base
<1>0. /\ MaxUsers \in Nat /\ Len(passfile) \in Nat /\ Len(passfile) <= MaxUsers
      /\ 1 \in 0..(MaxUsers + 1) /\ flush \in Nat
      /\ reload[s] \in Reloading /\ NoReload \in Reloading
      /\ DOMAIN passfile = 1..Len(passfile)
      /\ \A i \in DOMAIN passfile : passfile[i] \in Userec
  BY AccountsAssumption, LenProperties, ElementOfSeq, Reloads DEF AccountsTypeOK
<1>1. CASE ReloadStart(s)
  <2> DEFINE r == [NoReload EXCEPT !.step = "read", !.at = 1, !.ftime = flush]
  <2>1. r \in Reloading
    BY <1>0, ReloadPut
  <2> HIDE DEF r
  <2>2. reload' = [reload EXCEPT ![s] = r]
    BY <1>1 DEF ReloadStart, r
  <2> QED
    BY <1>1, <2>1, <2>2 DEF ReloadStart, AccountsTypeOK, shm, file, history
<1>2. CASE ReloadRead(s)
  <2>1. PICK r \in Reloading : reload' = [reload EXCEPT ![s] = r]
    <3>1. CASE reload[s].at > Len(passfile)
      BY <1>0, <1>2, <3>1, ReloadPut DEF ReloadRead
    <3>2. CASE ~(reload[s].at > Len(passfile))
      <4>1. reload[s].at \in DOMAIN passfile
        BY <1>0, <1>2, <3>2 DEF ReloadRead, RecordsExist, Running
      <4>2. passfile[reload[s].at].userid \in Name
        BY <1>0, <4>1, UserRecords
      <4> QED
        BY <1>0, <1>2, <3>2, <4>2, ReloadPut DEF ReloadRead
    <3> QED
      BY <3>1, <3>2
  <2> QED
    BY <1>2, <2>1 DEF ReloadRead, AccountsTypeOK, shm, file, history
<1>3. CASE ReloadFill(s)
  <2> DEFINE r == [reload[s] EXCEPT !.step = "read", !.at = @ + 1, !.crossed = FALSE]
  <2>0. reload[s].at \in 1..Len(passfile)
    BY <1>0, <1>3 DEF ReloadFill, RecordsExist
  <2>1. r \in Reloading
    <3>1. reload[s].at + 1 \in 0..(MaxUsers + 1)
      BY <1>0, <2>0
    <3> QED
      BY <1>0, <3>1, ReloadPut
  <2> HIDE DEF r
  <2>2. reload' = [reload EXCEPT ![s] = r]
    BY <1>3 DEF ReloadFill, r
  <2>3. userid' = [userid EXCEPT ![reload[s].at] = reload[s].got] /\ reload[s].got \in Name
    BY <1>0, <1>3, Reloads DEF ReloadFill
  <2>4. torn' \in BOOLEAN
    BY <1>0, <1>3, Reloads DEF ReloadFill, AccountsTypeOK
  <2>5. UNCHANGED <<number, uptime, passfile, flush, flocked, killuser, now, role, stage,
                    currentuser, usernum, lookupuser, id, want, late, lost, haunted, strayed, raced>>
    BY <1>3 DEF ReloadFill, file
  <2>6. userid' \in [Uid -> Name] /\ reload' \in [Process -> Reloading]
    BY <2>1, <2>2, <2>3 DEF AccountsTypeOK
  <2> HIDE <1>0
  <2> QED
    BY <2>4, <2>5, <2>6 DEF AccountsTypeOK
<1>4. CASE ReloadEnd(s)
  <2> DEFINE r == [NoReload EXCEPT !.step = "done"]
  <2>1. r \in Reloading
    BY <1>0, ReloadPut
  <2> HIDE DEF r
  <2>2. reload' = [reload EXCEPT ![s] = r]
    BY <1>4 DEF ReloadEnd, r
  <2>3. number' \in 0..MaxUsers
    BY <1>0, <1>4 DEF ReloadEnd, Counted, RecordsExist, Running
  <2>4. torn' \in BOOLEAN
    BY <1>0, <1>4, Reloads DEF ReloadEnd, AccountsTypeOK
  <2>5. uptime' \in Nat /\ uptime' <= flush'
    BY <1>0, <1>4, Reloads DEF ReloadEnd, file, ReloadTimes, Running, AccountsTypeOK
  <2> QED
    BY <1>4, <2>1, <2>2, <2>3, <2>4, <2>5 DEF ReloadEnd, AccountsTypeOK, file
<1> QED
  BY <1>1, <1>2, <1>3, <1>4

(* Steps that change neither records nor entries.                            *)
Looks(s) ==
  \/ ReloadStart(s) \/ ReloadRead(s) \/ ReloadEnd(s) \/ AbortBbs(s)
  \/ SetSafeRecord(s) \/ UserDefine(s) \/ Info(s) \/ InfoRenew(s) \/ EditRenew(s)
  \/ CleanStart(s) \/ CleanRead(s) \/ CleanEnd(s) \/ Lock(s) \/ Recheck(s)
  \/ \E n \in role.types[s] :
       \/ Login(s, n) \/ Check(s, n) \/ RenameCheck(s, n)
       \/ Consult(s, n, "level", "level") \/ Consult(s, n, "delete", "delete")
       \/ Consult(s, n, "edit", "edit") \/ Consult(s, n, "rename", "rename")
       \/ Consult(s, n, "accept", "dialogue")

LEMMA LooksTouch ==
  ASSUME Base, NEW s \in Process, Looks(s)
  PROVE  Touches(s, 0)
<1> USE DEF Base, AccountsTypeOK, Touches, OthersStay, Mid, shm, file, history
<1>0. CASE AbortBbs(s)
  BY <1>0 DEF AbortBbs, End, ComesTo, SetCopy, SetLookup
<1>1. CASE ReloadStart(s) \/ ReloadRead(s) \/ ReloadEnd(s)
  <2>0. stage[s] \notin Mid
    BY <1>1 DEF ReloadStart, ReloadRead, ReloadEnd, ReloadTimes, Running
  <2>1. \A q \in Process \ {s} : reload'[q] = reload[q]
    BY <1>1 DEF ReloadStart, ReloadRead, ReloadEnd
  <2>2. CASE ReloadStart(s)
    BY <2>1, <2>2 DEF ReloadStart
  <2>3. CASE ReloadRead(s)
    BY <2>0, <2>1, <2>3 DEF ReloadRead
  <2>4. CASE ReloadEnd(s)
    BY <2>0, <2>1, <2>4 DEF ReloadEnd
  <2> QED
    BY <1>1, <2>2, <2>3, <2>4
<1>2. CASE SetSafeRecord(s) \/ UserDefine(s) \/ Info(s) \/ InfoRenew(s) \/ EditRenew(s)
  <2>1. CASE SetSafeRecord(s)
    BY <2>1 DEF SetSafeRecord, SetCopy, ComesTo
  <2>2. CASE InfoRenew(s) \/ EditRenew(s)
    BY <2>2 DEF InfoRenew, EditRenew, SetCopy, ComesTo
  <2>3. CASE UserDefine(s)
    BY <2>3 DEF UserDefine, SetLookup, ComesTo, Looked
  <2>4. CASE Info(s)
    BY <2>4 DEF Info, SetLookup, ComesTo
  <2> QED
    BY <1>2, <2>1, <2>2, <2>3, <2>4
<1>3. CASE CleanStart(s) \/ CleanRead(s) \/ CleanEnd(s) \/ Lock(s) \/ Recheck(s)
  <2>1. CASE CleanStart(s) \/ CleanRead(s)
    BY <2>1 DEF CleanStart, CleanRead, ComesTo
  <2>2. CASE CleanEnd(s) \/ Lock(s)
    BY <2>2 DEF CleanEnd, Lock, ComesTo
  <2>3. CASE Recheck(s)
    BY <2>3 DEF Recheck, ComesTo, Looked, Become, SetCopy
  <2> QED
    BY <1>3, <2>1, <2>2, <2>3
<1>4. ASSUME NEW n \in role.types[s], Login(s, n) \/ Check(s, n) \/ RenameCheck(s, n)
      PROVE  Touches(s, 0)
  BY <1>4 DEF Login, Check, RenameCheck, ComesTo, Looked, Become, SetCopy, Races
<1>5. ASSUME NEW n \in role.types[s], NEW c, NEW l, Consult(s, n, c, l)
      PROVE  Touches(s, 0)
  BY <1>5 DEF Consult, ComesTo, Looked, SetLookup
<1> QED
  BY <1>0, <1>1, <1>2, <1>3, <1>4, <1>5 DEF Looks

LEMMA BaseFacts ==
  ASSUME Base
  PROVE  /\ MaxUsers \in Nat /\ Len(passfile) \in Nat /\ Len(passfile) <= MaxUsers
         /\ MaxTime \in Nat
         /\ DOMAIN passfile = 1..Len(passfile)
         /\ DOMAIN passfile \subseteq Uid
         /\ \A i \in DOMAIN passfile : passfile[i] \in Userec
         /\ number \in Nat /\ number <= Len(passfile)
         /\ NoReload \in Reloading
         /\ role \in Roles /\ \A s \in Process : role.types[s] \subseteq UserId
         /\ UserId \subseteq Name /\ Nobody \in Name /\ Newcomer \in Name
         /\ Nobody \notin UserId /\ Newcomer \notin UserId /\ Nobody # Newcomer
<1>1. MaxUsers \in Nat /\ MaxTime \in Nat /\ passfile \in Seq(Userec) /\ Len(passfile) <= MaxUsers
  BY AccountsAssumption DEF Base, AccountsTypeOK
<1>2. Len(passfile) \in Nat /\ DOMAIN passfile = 1..Len(passfile)
      /\ \A i \in DOMAIN passfile : passfile[i] \in Userec
  BY <1>1, LenProperties, ElementOfSeq
<1>3. number \in Nat /\ number <= Len(passfile) /\ DOMAIN passfile \subseteq Uid
  BY <1>1, <1>2 DEF Base, AccountsTypeOK, RecordsExist, Uid
<1>4. role \in Roles /\ \A s \in Process : role.types[s] \subseteq UserId
  BY RolesAssumption DEF Base, AccountsTypeOK
<1> QED
  BY <1>1, <1>2, <1>3, <1>4, AccountsAssumption, Reloads DEF Name

(* What searchuser finds is a record.                                        *)
LEMMA SearchUserRecord ==
  ASSUME Base, NEW n, SearchUser(n) # 0
  PROVE  /\ SearchUser(n) \in DOMAIN passfile /\ SearchUser(n) \in 0..MaxUsers
         /\ passfile[SearchUser(n)] \in Userec
         /\ userid[SearchUser(n)] = n /\ SearchUser(n) <= number
<1>1. AccountsTypeOK
  BY DEF Base
<1> QED
  BY <1>1, BaseFacts, SearchUserFinds

LEMMA LooksTypes ==
  ASSUME Base, NEW s \in Process, Looks(s)
  PROVE  AccountsTypeOK'
<1> USE BaseFacts
<1>0. currentuser[s] \in Userec /\ lookupuser[s] \in Userec
      /\ late[s] \in [currentuser : BOOLEAN, lookupuser : BOOLEAN]
      /\ usernum[s] \in 0..MaxUsers /\ id[s] \in 0..(MaxUsers + 1)
      /\ usernum[s] \in 0..(MaxUsers + 1)
  BY DEF Base, AccountsTypeOK
<1>1. CASE ReloadStart(s) \/ ReloadRead(s) \/ ReloadEnd(s)
  BY <1>1, ReloadTypes
<1>2. CASE AbortBbs(s)
  <2>1. 0 \in 0..MaxUsers /\ 0 \in 0..(MaxUsers + 1)
    OBVIOUS
  <2> QED
    BY <1>2, <2>1, UserRecords DEF Base, AbortBbs, End, ComesTo, SetCopy, SetLookup, NotLate,
     AccountsTypeOK, shm, file
<1>3. CASE SetSafeRecord(s) \/ InfoRenew(s) \/ EditRenew(s)
  <2>1. PICK r \in Userec, l \in {"safe", "dialogue"} :
          SetCopy(s, r, usernum[s]) /\ ComesTo(s, l)
    <3>1. stage[s] \in OnLine /\ usernum[s] \in DOMAIN passfile
      BY <1>3 DEF SetSafeRecord, InfoRenew, EditRenew, OnLine, Dialogue, Base, RecordsExist
    <3>2. now \in 0..MaxTime
      BY DEF Base, AccountsTypeOK
    <3>3. passfile[usernum[s]] \in Userec
      BY <3>1
    <3>4. CASE SetSafeRecord(s)
      <4> DEFINE c == IF stage[s] = "enter" THEN [currentuser[s] EXCEPT !.lastlogin = now]
                      ELSE currentuser[s]
      <4>1. c \in Userec
        BY <1>0, <3>2, ChangedRecords
      <4>2. SetCopy(s, Renewed(c, passfile[usernum[s]]), usernum[s]) /\ ComesTo(s, "safe")
        BY <3>4 DEF SetSafeRecord
      <4> HIDE DEF c
      <4> QED
        BY <3>3, <4>1, <4>2, ChangedRecords
    <3>5. CASE InfoRenew(s)
      BY <1>0, <3>3, <3>5, ChangedRecords DEF InfoRenew
    <3>6. CASE EditRenew(s)
      BY <1>0, <3>3, <3>6, ChangedRecords DEF EditRenew
    <3> QED
      BY <1>3, <3>4, <3>5, <3>6
  <2>2. l \in OnLine
    BY DEF OnLine, Dialogue
  <2>3. SetLate(s, "currentuser", FALSE)
    BY <1>3 DEF SetSafeRecord, InfoRenew, EditRenew
  <2>4. [late[s] EXCEPT !["currentuser"] = FALSE] \in [currentuser : BOOLEAN, lookupuser : BOOLEAN]
    BY <1>0
  <2>5. UNCHANGED <<shm, file, role, lookupuser, id, want, reload, lost, haunted, torn,
                    strayed, raced>>
    BY <1>3 DEF SetSafeRecord, InfoRenew, EditRenew
  <2> QED
    BY <1>0, <2>1, <2>2, <2>3, <2>4, <2>5 DEF Base, AccountsTypeOK, SetCopy, ComesTo,
       SetLate, shm, file
<1>4. CASE Info(s)
  <2>1. usernum[s] \in 0..(MaxUsers + 1) /\ late[s].currentuser \in BOOLEAN
    BY <1>0
  <2>2. [late[s] EXCEPT !["lookupuser"] = late[s].currentuser]
          \in [currentuser : BOOLEAN, lookupuser : BOOLEAN]
    BY <1>0, <2>1
  <2> QED
    BY <1>0, <1>4, <2>1, <2>2 DEF Base, AccountsTypeOK, Info, SetLookup, ComesTo, SetLate,
       shm, file, OnLine, Dialogue
<1>5. CASE CleanStart(s) \/ CleanRead(s) \/ CleanEnd(s) \/ Lock(s)
  <2>1. UNCHANGED <<userid, number, uptime, passfile, now, role, currentuser, usernum,
                    lookupuser, want, reload, history>>
    BY <1>5 DEF CleanStart, CleanRead, CleanEnd, Lock, shm, file
  <2>2. stage' \in [Process -> Stages]
    BY <1>5 DEF CleanStart, CleanRead, CleanEnd, Lock, ComesTo, Base, AccountsTypeOK, Stages,
       Registering
  <2>3. id' \in [Process -> 0..(MaxUsers + 1)]
    <3>1. id \in [Process -> 0..(MaxUsers + 1)] /\ 1 \in 0..(MaxUsers + 1)
      BY DEF Base, AccountsTypeOK
    <3>2. CleanRead(s) => id[s] + 1 \in 0..(MaxUsers + 1)
      BY <1>0 DEF CleanRead
    <3> QED
      BY <1>5, <3>1, <3>2 DEF CleanStart, CleanRead, CleanEnd, Lock
  <2>4. /\ killuser' \in BOOLEAN /\ flocked' \subseteq Process
        /\ flush' \in Nat /\ uptime <= flush'
    <3>1. killuser \in BOOLEAN /\ flocked \subseteq Process /\ flush \in Nat /\ uptime \in Nat
          /\ uptime <= flush
      BY DEF Base, AccountsTypeOK
    <3>2. ASSUME CleanStart(s)
          PROVE  killuser' \in BOOLEAN /\ flocked' \subseteq Process /\ flush' = flush
      BY <3>1, <3>2 DEF CleanStart
    <3>3. ASSUME CleanRead(s)
          PROVE  killuser' \in BOOLEAN /\ flocked' \subseteq Process /\ flush' = flush
      BY <3>1, <3>3 DEF CleanRead, file, shm
    <3>4. ASSUME CleanEnd(s)
          PROVE  /\ killuser' \in BOOLEAN /\ flocked' \subseteq Process
                 /\ flush' \in Nat /\ flush <= flush'
      BY <3>1, <3>4 DEF CleanEnd, Touched, file
    <3>5. ASSUME Lock(s)
          PROVE  killuser' \in BOOLEAN /\ flocked' \subseteq Process /\ flush' = flush
      BY <3>1, <3>5 DEF Lock, file
    <3>6. flush <= flush' /\ flush' \in Nat
      BY <1>5, <3>1, <3>2, <3>3, <3>4, <3>5
    <3> QED
      BY <1>5, <3>1, <3>2, <3>3, <3>4, <3>5, <3>6
  <2> HIDE BaseFacts
  <2>5. AccountsTypeOK
    BY DEF Base
  <2> QED
    BY <2>1, <2>2, <2>3, <2>4, <2>5 DEF AccountsTypeOK, Stages, history
<1>6. ASSUME NEW n \in role.types[s], Check(s, n) \/ RenameCheck(s, n)
      PROVE  AccountsTypeOK'
  <2>1. n \in UserId /\ n \in Name
    OBVIOUS
  <2>2. raced' \subseteq UserId
    BY <1>6, <2>1 DEF Check, RenameCheck, Races, Base, AccountsTypeOK
  <2>3. want' \in [Process -> Name] /\ reload' \in [Process -> Reloading]
    BY <1>6, <2>1 DEF Check, RenameCheck, Base, AccountsTypeOK, Looked
  <2>4. stage' \in [Process -> Stages]
    BY <1>6 DEF Check, RenameCheck, Base, AccountsTypeOK, ComesTo, Stages, Registering,
       OnLine, Dialogue
  <2>5. UNCHANGED <<shm, file, role, currentuser, usernum, lookupuser, id, late, lost, haunted,
                    torn, strayed>>
    BY <1>6 DEF Check, RenameCheck
  <2> HIDE BaseFacts
  <2>6. AccountsTypeOK
    BY DEF Base
  <2> QED
    BY <2>2, <2>3, <2>4, <2>5, <2>6 DEF AccountsTypeOK, shm, file, Stages
<1>7. ASSUME NEW n \in UserId, Known(n), Become(s, n)
      PROVE  /\ stage' \in [Process -> Stages]
             /\ currentuser' \in [Process -> Userec]
             /\ usernum' \in [Process -> 0..MaxUsers]
             /\ late' \in [Process -> [currentuser : BOOLEAN, lookupuser : BOOLEAN]]
  <2>1. passfile[SearchUser(n)] \in Userec /\ SearchUser(n) \in 0..MaxUsers
    BY <1>7, SearchUserRecord DEF Known
  <2>2. [late[s] EXCEPT !["currentuser"] = FALSE] \in [currentuser : BOOLEAN, lookupuser : BOOLEAN]
    BY <1>0
  <2> QED
    BY <1>7, <2>1, <2>2 DEF Base, AccountsTypeOK, Become, SetCopy, SetLate, ComesTo, Stages,
       OnLine
<1>8. ASSUME NEW n \in role.types[s], Login(s, n)
      PROVE  AccountsTypeOK'
  <2>1. n \in UserId /\ Known(n) /\ Become(s, n)
    BY <1>8 DEF Login
  <2> QED
    BY <1>7, <1>8, <2>1 DEF Base, AccountsTypeOK, Login, Looked, shm, file, Stages
<1>9. CASE Recheck(s)
  <2>1. want[s] \in UserId
    BY <1>9 DEF Recheck, Base, NamesOfPeople, Naming, Registering
  <2>2. CASE Known(want[s])
    <3>1. Become(s, want[s])
      BY <1>9, <2>2 DEF Recheck
    <3> QED
      BY <1>7, <1>9, <2>1, <2>2, <3>1 DEF Base, AccountsTypeOK, Recheck, Looked, shm, file,
         Stages
  <2>3. CASE ~Known(want[s])
    BY <1>9, <2>3 DEF Base, AccountsTypeOK, Recheck, Looked, ComesTo, shm, file
  <2> QED
    BY <2>2, <2>3
<1>10. ASSUME NEW i \in 1..MaxUsers, passfile[i] \in Userec, SetLookup(s, passfile[i], i),
              SetLate(s, "lookupuser", FALSE)
       PROVE  /\ lookupuser' \in [Process -> Userec] /\ id' \in [Process -> 0..(MaxUsers + 1)]
              /\ late' \in [Process -> [currentuser : BOOLEAN, lookupuser : BOOLEAN]]
  <2>1. i \in 0..(MaxUsers + 1)
    OBVIOUS
  <2>2. [late[s] EXCEPT !["lookupuser"] = FALSE] \in [currentuser : BOOLEAN, lookupuser : BOOLEAN]
    BY <1>0
  <2> QED
    BY <1>10, <2>1, <2>2 DEF Base, AccountsTypeOK, SetLookup, SetLate
<1>11. CASE UserDefine(s)
  <2> DEFINE i == SearchUser(currentuser[s].userid)
  <2>1. i # 0
    BY <1>11 DEF UserDefine
  <2>2. i \in 1..MaxUsers /\ passfile[i] \in Userec
    BY <2>1, SearchUserRecord
  <2>3. SetLookup(s, passfile[i], i) /\ SetLate(s, "lookupuser", FALSE)
    BY <1>11 DEF UserDefine
  <2>4. lost' \subseteq Process
    BY <1>11 DEF UserDefine, Base, AccountsTypeOK
  <2> HIDE DEF i
  <2> QED
    BY <1>10, <1>11, <2>2, <2>3, <2>4 DEF Base, AccountsTypeOK, UserDefine, Looked, ComesTo,
       shm, file, OnLine, Dialogue
<1>12. ASSUME NEW n \in role.types[s], NEW c, NEW l \in {"level", "delete", "edit", "rename",
              "dialogue"},
              Consult(s, n, c, l)
       PROVE  AccountsTypeOK'
  <2> DEFINE i == SearchUser(n)
  <2>1. i # 0
    BY <1>12 DEF Consult
  <2>2. i \in 1..MaxUsers /\ passfile[i] \in Userec
    BY <2>1, SearchUserRecord
  <2>3. SetLookup(s, passfile[i], i) /\ SetLate(s, "lookupuser", FALSE)
    BY <1>12 DEF Consult
  <2>4. lost' \subseteq Process
    BY <1>12 DEF Consult, Base, AccountsTypeOK
  <2> HIDE DEF i
  <2> QED
    BY <1>10, <1>12, <2>2, <2>3, <2>4 DEF Base, AccountsTypeOK, Consult, Looked, ComesTo,
       shm, file, OnLine, Dialogue
<1> QED
  BY <1>1, <1>2, <1>3, <1>4, <1>5, <1>6, <1>8, <1>9, <1>11, <1>12 DEF Looks

-----------------------------------------------------------------------------
(* What a write puts into the file.                                          *)
LEMMA WrittenFile ==
  ASSUME Base, NEW rec \in Userec, NEW i \in Nat \ {0}, i <= Len(passfile) + 1
  PROVE  LET f == SubstituteRecord(passfile, rec, i, Zerorec)
         IN /\ f \in Seq(Userec) /\ f[i] = rec
            /\ DOMAIN f = DOMAIN passfile \cup {i} /\ i \in DOMAIN f
            /\ Len(f) = IF i = Len(passfile) + 1 THEN i ELSE Len(passfile)
            /\ \A j \in DOMAIN passfile \ {i} : f[j] = passfile[j]
<1> USE BaseFacts
<1> DEFINE n == IF i > Len(passfile) THEN i ELSE Len(passfile)
           e(j) == IF j = i THEN rec ELSE IF j <= Len(passfile) THEN passfile[j] ELSE Zerorec
           f == SubstituteRecord(passfile, rec, i, Zerorec)
<1>1. n \in Nat /\ i \in 1..n /\ 1..n = DOMAIN passfile \cup {i}
      /\ n = IF i = Len(passfile) + 1 THEN i ELSE Len(passfile)
  OBVIOUS
<1>2. f = [j \in 1..n |-> e(j)]
  BY DEF SubstituteRecord
<1>3. passfile \in Seq(Userec)
  BY DEF Base, AccountsTypeOK
<1>4. f \in Seq(Userec)
  BY <1>3, UserRecords, SubstituteRecordProperties
<1>5. DOMAIN f = 1..n
  BY <1>2
<1>6. Len(f) \in Nat /\ DOMAIN f = 1..Len(f)
  BY <1>4, LenProperties
<1>7. Len(f) = n
  BY <1>1, <1>5, <1>6
<1>8. f[i] = rec
  BY <1>1, <1>2
<1>9. \A j \in DOMAIN passfile \ {i} : f[j] = passfile[j]
  BY <1>1, <1>2
<1> QED
  BY <1>1, <1>4, <1>5, <1>7, <1>8, <1>9

(* substitute_record(PASSFILE, &rec, k) by s.                                *)
Writes(s, rec, k) ==
  /\ rec \in Userec /\ k \in DOMAIN passfile
  /\ passfile' \in Seq(Userec) /\ DOMAIN passfile' = DOMAIN passfile
  /\ Len(passfile') = Len(passfile)
  /\ passfile'[k] = rec /\ \A j \in DOMAIN passfile \ {k} : passfile'[j] = passfile[j]
  /\ haunted' = IF s \in lost THEN haunted \cup {k} ELSE haunted
  /\ \A q \in Process :
       /\ late'[q].currentuser = (late[q].currentuser \/
             (stage[q] \in OnLine /\ usernum[q] = k /\ Outdated(currentuser[q], rec)))
       /\ late'[q].lookupuser = (stage'[q] \in Dialogue /\ (late[q].lookupuser \/
             (id[q] = k /\ Outdated(lookupuser[q], rec))))
  /\ flocked = {}
  /\ late' \in [Process -> [currentuser : BOOLEAN, lookupuser : BOOLEAN]]
  /\ haunted' \subseteq Uid /\ strayed' \in BOOLEAN /\ (strayed => strayed')
  /\ stage' \in [Process -> Stages] /\ \A q \in Process \ {s} : stage'[q] = stage[q]

(* What Substitute does, in the words above.                                 *)
LEMMA SubstituteWrites ==
  ASSUME Base, NEW s \in Process, NEW rec \in Userec, NEW n \in 0..(MaxUsers + 1),
         Position(n) \in DOMAIN passfile, NEW l \in Stages, Substitute(s, rec, n, l)
  PROVE  /\ Writes(s, rec, Position(n))
         /\ stage'[s] = l /\ strayed' = (strayed \/ n = 0)
<1> USE BaseFacts
<1> DEFINE i == Position(n)
<1>1. /\ i \in Nat \ {0} /\ i <= Len(passfile) + 1 /\ i <= Len(passfile) /\ i \in Uid
      /\ i \in DOMAIN passfile
  OBVIOUS
<1>2. passfile' = SubstituteRecord(passfile, rec, i, Zerorec) /\ flocked = {}
  BY DEF Substitute
<1>3. stage' \in [Process -> Stages] /\ stage'[s] = l
      /\ \A q \in Process \ {s} : stage'[q] = stage[q]
  BY DEF Substitute, ComesTo, Base, AccountsTypeOK, Stages
<1>4. haunted' = (IF s \in lost THEN haunted \cup {i} ELSE haunted)
  BY DEF Substitute
<1>5. haunted' \subseteq Uid /\ haunted \subseteq haunted'
  BY <1>1, <1>4 DEF Base, AccountsTypeOK
<1>6. strayed' \in BOOLEAN /\ strayed' = (strayed \/ n = 0)
  BY DEF Substitute, Base, AccountsTypeOK
<1>7. late' = [q \in Process |->
          [currentuser |-> late[q].currentuser \/
              (stage[q] \in OnLine /\ usernum[q] = i /\ Outdated(currentuser[q], rec)),
           lookupuser |-> stage'[q] \in Dialogue /\ (late[q].lookupuser \/
              (id[q] = i /\ Outdated(lookupuser[q], rec)))]]
  BY DEF Substitute
<1>8. \A q \in Process : late[q].currentuser \in BOOLEAN /\ late[q].lookupuser \in BOOLEAN
  BY DEF Base, AccountsTypeOK
<1> HIDE DEF i
<1>9. late' \in [Process -> [currentuser : BOOLEAN, lookupuser : BOOLEAN]]
  BY <1>7, <1>8 DEF Outdated
<1>10. /\ passfile' \in Seq(Userec) /\ passfile'[i] = rec
       /\ DOMAIN passfile' = DOMAIN passfile \cup {i}
       /\ Len(passfile') = Len(passfile) /\ i \in DOMAIN passfile
       /\ \A j \in DOMAIN passfile \ {i} : passfile'[j] = passfile[j]
  <2>1. /\ i \in Nat \ {0} /\ i <= Len(passfile) + 1 /\ i \in DOMAIN passfile
    BY <1>1 DEF i
  <2>2. Len(passfile) # i - 1 /\ i # Len(passfile) + 1 /\ DOMAIN passfile \cup {i} = DOMAIN passfile
    BY <1>1, <2>1
  <2> DEFINE f == SubstituteRecord(passfile, rec, i, Zerorec)
  <2>3. /\ f \in Seq(Userec) /\ f[i] = rec /\ DOMAIN f = DOMAIN passfile \cup {i}
        /\ Len(f) = IF i = Len(passfile) + 1 THEN i ELSE Len(passfile)
        /\ \A j \in DOMAIN passfile \ {i} : f[j] = passfile[j]
    BY <2>1, WrittenFile
  <2>4. passfile' = f
    BY <1>2
  <2> HIDE DEF f
  <2> QED
    BY <2>1, <2>2, <2>3, <2>4
<1>11. Writes(s, rec, i)
  BY <1>2, <1>3, <1>4, <1>5, <1>6, <1>7, <1>9, <1>10 DEF Writes
<1> QED
  BY <1>3, <1>6, <1>11 DEF i

LEMMA SubstituteAt ==
  ASSUME Base, NEW s \in Process, NEW rec \in Userec, NEW k \in DOMAIN passfile,
         NEW l \in Stages, Substitute(s, rec, k, l)
  PROVE  Writes(s, rec, k)
<1>1. Position(k) = k /\ k \in 0..(MaxUsers + 1)
  BY BaseFacts DEF Position
<1> QED
  BY <1>1, SubstituteWrites

(* The copies that are written.                                              *)
Rewrites(s) == WriteBack(s) \/ Offline(s) \/ EndDialogue(s) \/ XLevel(s) \/ ThesisMode(s)

LEMMA CopiesWritten ==
  ASSUME Base, NEW s \in Process
  PROVE  /\ WriteBack(s) => Writes(s, currentuser[s], usernum[s])
         /\ Offline(s) => Writes(s, [currentuser[s] EXCEPT !.level = 0], usernum[s])
         /\ EndDialogue(s) => Writes(s, lookupuser[s], id[s])
         /\ XLevel(s) => Writes(s, [lookupuser[s] EXCEPT !.level = 1 - @], id[s])
         /\ ThesisMode(s) =>
              LET i == SearchUser(currentuser[s].userid)
              IN IF i = 0 THEN Writes(s, lookupuser[s], 1) /\ strayed'
                 ELSE Writes(s, passfile[i], i)
         /\ DUser(s) => Writes(s, [lookupuser[s] EXCEPT !.userid = Nobody, !.level = 0], id[s])
         /\ RenameWrite(s) => Writes(s, [lookupuser[s] EXCEPT !.userid = want[s]], id[s])
         /\ Create(s) => Writes(s, [userid |-> want[s], level |-> 0, lastlogin |-> now], id[s])
<1> USE BaseFacts
<1>0. /\ currentuser[s] \in Userec /\ lookupuser[s] \in Userec /\ now \in 0..MaxTime
      /\ want[s] \in Name /\ stage[s] \in Stages
      /\ usernum[s] \in 0..(MaxUsers + 1) /\ id[s] \in 0..(MaxUsers + 1)
  BY DEF Base, AccountsTypeOK, Stages
<1>1. /\ \A n \in DOMAIN passfile : Position(n) = n
      /\ Position(0) = 1
  BY DEF Position
<1>2. /\ stage[s] \in OnLine => usernum[s] \in DOMAIN passfile
      /\ stage[s] \in Holding => id[s] \in DOMAIN passfile
  BY DEF Base, RecordsExist
<1>3. {"on", "gone", "deleted", "created"} \subseteq Stages
  BY DEF Stages, OnLine, Dialogue, Registering
<1>4. ASSUME WriteBack(s)
      PROVE  Writes(s, currentuser[s], usernum[s])
  <2>1. usernum[s] \in DOMAIN passfile /\ Substitute(s, currentuser[s], usernum[s], "on")
    BY <1>2, <1>4 DEF WriteBack, OnLine
  <2> QED
    BY <1>0, <1>3, <2>1, SubstituteAt
<1>5. ASSUME Offline(s)
      PROVE  Writes(s, [currentuser[s] EXCEPT !.level = 0], usernum[s])
  <2> DEFINE r == [currentuser[s] EXCEPT !.level = 0]
  <2>1. usernum[s] \in DOMAIN passfile /\ Substitute(s, r, usernum[s], "gone")
    BY <1>2, <1>5 DEF Offline, OnLine
  <2>2. r \in Userec
    BY <1>0, ChangedRecords
  <2> HIDE DEF r
  <2>3. Writes(s, r, usernum[s])
    BY <1>3, <2>1, <2>2, SubstituteAt
  <2> QED
    BY <2>3 DEF r
<1>6. ASSUME EndDialogue(s)
      PROVE  Writes(s, lookupuser[s], id[s])
  <2>1. id[s] \in DOMAIN passfile /\ Substitute(s, lookupuser[s], id[s], "on")
    BY <1>2, <1>6 DEF EndDialogue, Dialogue, Holding
  <2> QED
    BY <1>0, <1>3, <2>1, SubstituteAt
<1>7. ASSUME XLevel(s)
      PROVE  Writes(s, [lookupuser[s] EXCEPT !.level = 1 - @], id[s])
  <2> DEFINE r == [lookupuser[s] EXCEPT !.level = 1 - @]
  <2>1. id[s] \in DOMAIN passfile /\ Substitute(s, r, id[s], "on")
    BY <1>2, <1>7 DEF XLevel, Dialogue, Holding
  <2>2. r \in Userec
    BY <1>0, ChangedRecords
  <2> HIDE DEF r
  <2>3. Writes(s, r, id[s])
    BY <1>3, <2>1, <2>2, SubstituteAt
  <2> QED
    BY <2>3 DEF r
<1>8. ASSUME DUser(s)
      PROVE  Writes(s, [lookupuser[s] EXCEPT !.userid = Nobody, !.level = 0], id[s])
  <2> DEFINE r == [lookupuser[s] EXCEPT !.userid = Nobody, !.level = 0]
  <2>1. id[s] \in DOMAIN passfile /\ Substitute(s, r, id[s], "deleted")
    BY <1>2, <1>8 DEF DUser, Dialogue, Holding
  <2>2. r \in Userec
    BY <1>0, ChangedRecords
  <2> HIDE DEF r
  <2>3. Writes(s, r, id[s])
    BY <1>3, <2>1, <2>2, SubstituteAt
  <2> QED
    BY <2>3 DEF r
<1>9. ASSUME RenameWrite(s)
      PROVE  Writes(s, [lookupuser[s] EXCEPT !.userid = want[s]], id[s])
  <2> DEFINE r == [lookupuser[s] EXCEPT !.userid = want[s]]
  <2>1. id[s] \in DOMAIN passfile /\ Substitute(s, r, id[s], "on")
    BY <1>2, <1>9 DEF RenameWrite, Dialogue, Holding
  <2>2. r \in Userec
    BY <1>0, ChangedRecords
  <2> HIDE DEF r
  <2>3. Writes(s, r, id[s])
    BY <1>3, <2>1, <2>2, SubstituteAt
  <2> QED
    BY <2>3 DEF r
<1>10. ASSUME Create(s)
       PROVE  Writes(s, [userid |-> want[s], level |-> 0, lastlogin |-> now], id[s])
  <2> DEFINE r == [userid |-> want[s], level |-> 0, lastlogin |-> now]
  <2>1. id[s] \in DOMAIN passfile /\ Substitute(s, r, id[s], "created")
    BY <1>2, <1>10 DEF Create, Holding
  <2>2. r \in Userec
    BY <1>0, UserRecords
  <2> HIDE DEF r
  <2>3. Writes(s, r, id[s])
    BY <1>3, <2>1, <2>2, SubstituteAt
  <2> QED
    BY <2>3 DEF r
<1>11. ASSUME ThesisMode(s)
       PROVE  LET i == SearchUser(currentuser[s].userid)
              IN IF i = 0 THEN Writes(s, lookupuser[s], 1) /\ strayed'
                 ELSE Writes(s, passfile[i], i)
  <2> DEFINE i == SearchUser(currentuser[s].userid)
             r == IF i = 0 THEN lookupuser[s] ELSE passfile[i]
  <2>1. Substitute(s, r, i, stage[s])
    BY <1>11 DEF ThesisMode
  <2>2. CASE i = 0
    <3>1. 1 \in DOMAIN passfile
      BY <1>2, <1>11 DEF ThesisMode, OnLine
    <3>2. Substitute(s, lookupuser[s], 0, stage[s])
      BY <2>1, <2>2
    <3>3. Position(0) \in DOMAIN passfile /\ 0 \in 0..(MaxUsers + 1)
      BY <1>1, <3>1
    <3>4. Writes(s, lookupuser[s], Position(0)) /\ strayed'
      BY <1>0, <3>2, <3>3, SubstituteWrites
    <3> QED
      BY <1>1, <2>2, <3>4
  <2>3. CASE i # 0
    <3>1. i \in DOMAIN passfile /\ passfile[i] \in Userec /\ i \in 0..(MaxUsers + 1)
      BY <2>3, SearchUserRecord
    <3>2. Substitute(s, passfile[i], i, stage[s])
      BY <2>1, <2>3
    <3> HIDE DEF i
    <3>3. Writes(s, passfile[i], i)
      BY <1>0, <3>1, <3>2, SubstituteAt
    <3> QED
      BY <2>3, <3>3 DEF i
  <2> QED
    BY <2>2, <2>3
<1> QED
  BY <1>4, <1>5, <1>6, <1>7, <1>8, <1>9, <1>10, <1>11

LEMMA CopiesTypes ==
  ASSUME Base, NEW s \in Process
  PROVE  /\ Rewrites(s) => AccountsTypeOK' /\ \E k \in DOMAIN passfile : Touches(s, k)
         /\ DUser(s) \/ RenameWrite(s) \/ Create(s) =>
              AccountsTypeOK' /\ Touches(s, id[s])
<1>0. /\ currentuser[s] \in Userec /\ lookupuser[s] \in Userec
      /\ 0 \in 0..(MaxUsers + 1)
  BY BaseFacts DEF Base, AccountsTypeOK
<1>9. /\ reload \in [Process -> Reloading] /\ currentuser \in [Process -> Userec]
      /\ lookupuser \in [Process -> Userec] /\ id \in [Process -> 0..(MaxUsers + 1)]
      /\ lost \subseteq Process /\ torn \in BOOLEAN
  BY DEF Base, AccountsTypeOK
<1> DEFINE Rest(k) ==
      /\ userid' = userid /\ number' = number /\ uptime' = uptime /\ flush' = flush
      /\ flocked' = flocked /\ killuser' = killuser /\ now' = now /\ role' = role
      /\ want' = want /\ raced' = raced /\ usernum' = usernum
      /\ reload' \in [Process -> Reloading]
      /\ currentuser' \in [Process -> Userec] /\ lookupuser' \in [Process -> Userec]
      /\ id' \in [Process -> 0..(MaxUsers + 1)]
      /\ \A q \in Process \ {s} :
           /\ reload'[q] = reload[q] /\ currentuser'[q] = currentuser[q]
           /\ lookupuser'[q] = lookupuser[q] /\ id'[q] = id[q]
      /\ lost' \subseteq Process /\ lost \subseteq lost'
      /\ torn' \in BOOLEAN /\ (torn => torn')
      /\ stage[s] \in Mid => id[s] = k
<1>1. ASSUME NEW rec \in Userec, NEW k \in DOMAIN passfile, Writes(s, rec, k), Rest(k)
      PROVE  AccountsTypeOK' /\ Touches(s, k)
  <2>1. AccountsTypeOK'
    BY <1>1, BaseFacts DEF Base, AccountsTypeOK, Writes, Stages
  <2>2. OthersStay(s)
    BY <1>1 DEF OthersStay, Writes
  <2>3. haunted \subseteq haunted'
    BY <1>1 DEF Writes
  <2> QED
    BY <1>1, <2>1, <2>2, <2>3 DEF Touches, Writes
<1>2. ASSUME WriteBack(s) \/ EndDialogue(s)
      PROVE  AccountsTypeOK' /\ \E k \in DOMAIN passfile : Touches(s, k)
  <2>1. PICK rec, k : Writes(s, rec, k)
    BY <1>2, CopiesWritten
  <2>3. rec \in Userec /\ k \in DOMAIN passfile
    BY <2>1 DEF Writes
  <2>2. Rest(k)
    BY <1>2, <1>9 DEF WriteBack, EndDialogue, Mid, shm
  <2> HIDE DEF Rest
  <2> QED
    BY <1>1, <2>1, <2>2, <2>3
<1>3. ASSUME Offline(s)
      PROVE  AccountsTypeOK' /\ \E k \in DOMAIN passfile : Touches(s, k)
  <2> DEFINE r == [currentuser[s] EXCEPT !.level = 0]
  <2>1. Writes(s, r, usernum[s]) /\ r \in Userec /\ usernum[s] \in DOMAIN passfile
    BY <1>3, CopiesWritten DEF Writes
  <2>2. currentuser' = [currentuser EXCEPT ![s] = r] /\ stage[s] \notin Mid
    BY <1>3 DEF Offline, Mid
  <2> HIDE DEF r
  <2>3. Rest(usernum[s])
    BY <1>3, <1>9, <2>1, <2>2 DEF Offline, shm
  <2> HIDE DEF Rest
  <2> QED
    BY <1>1, <2>1, <2>3
<1>4. ASSUME XLevel(s)
      PROVE  AccountsTypeOK' /\ \E k \in DOMAIN passfile : Touches(s, k)
  <2> DEFINE r == [lookupuser[s] EXCEPT !.level = 1 - @]
  <2>1. Writes(s, r, id[s]) /\ r \in Userec /\ id[s] \in DOMAIN passfile
    BY <1>4, CopiesWritten DEF Writes
  <2>2. lookupuser' = [lookupuser EXCEPT ![s] = r]
    BY <1>4 DEF XLevel
  <2> HIDE DEF r
  <2>3. Rest(id[s])
    BY <1>4, <1>9, <2>1, <2>2 DEF XLevel, shm
  <2> HIDE DEF Rest
  <2> QED
    BY <1>1, <2>1, <2>3
<1>5. ASSUME DUser(s)
      PROVE  AccountsTypeOK' /\ Touches(s, id[s])
  <2> DEFINE r == [lookupuser[s] EXCEPT !.userid = Nobody, !.level = 0]
  <2>1. Writes(s, r, id[s]) /\ r \in Userec /\ id[s] \in DOMAIN passfile
    BY <1>5, CopiesWritten DEF Writes
  <2>2. lookupuser' = [lookupuser EXCEPT ![s] = r]
    BY <1>5 DEF DUser
  <2>3. lost' \subseteq Process /\ lost \subseteq lost'
    BY <1>5 DEF DUser, Bereft, Base, AccountsTypeOK
  <2> HIDE DEF r
  <2>4. Rest(id[s])
    BY <1>5, <1>9, <2>1, <2>2, <2>3 DEF DUser, shm
  <2> HIDE DEF Rest
  <2> QED
    BY <1>1, <2>1, <2>4
<1>6. ASSUME RenameWrite(s)
      PROVE  AccountsTypeOK' /\ Touches(s, id[s])
  <2>1. PICK rec \in Userec : Writes(s, rec, id[s])
    BY <1>6, CopiesWritten DEF Writes
  <2>2. lost' \subseteq Process /\ lost \subseteq lost'
    BY <1>6 DEF RenameWrite, Bereft, Base, AccountsTypeOK
  <2>3. torn' \in BOOLEAN /\ (torn => torn') /\ id[s] \in DOMAIN passfile
    BY <1>6, <2>1 DEF RenameWrite, Base, AccountsTypeOK, Writes
  <2>4. Rest(id[s])
    BY <1>6, <1>9, <2>2, <2>3 DEF RenameWrite, shm
  <2> HIDE DEF Rest
  <2> QED
    BY <1>1, <2>1, <2>3, <2>4
<1>7. ASSUME Create(s)
      PROVE  AccountsTypeOK' /\ Touches(s, id[s])
  <2>1. PICK rec \in Userec : Writes(s, rec, id[s])
    BY <1>7, CopiesWritten DEF Writes
  <2>2. id[s] \in DOMAIN passfile
    BY <2>1 DEF Writes
  <2>3. Rest(id[s])
    BY <1>7, <1>9, <2>2 DEF Create, shm
  <2> HIDE DEF Rest
  <2> QED
    BY <1>1, <2>1, <2>2, <2>3
<1>8. ASSUME ThesisMode(s)
      PROVE  AccountsTypeOK' /\ \E k \in DOMAIN passfile : Touches(s, k)
  <2>1. PICK rec, k : Writes(s, rec, k)
    BY <1>8, CopiesWritten
  <2>7. rec \in Userec /\ k \in DOMAIN passfile
    BY <2>1 DEF Writes
  <2>2. stage[s] \notin Mid
    BY <1>8 DEF ThesisMode, Mid
  <2>3. reload' = [reload EXCEPT ![s] = NoReload]
    BY <1>8 DEF ThesisMode, Looked
  <2> DEFINE r == IF SearchUser(currentuser[s].userid) = 0 THEN lookupuser[s]
                  ELSE passfile[SearchUser(currentuser[s].userid)]
  <2>4. lookupuser' = [lookupuser EXCEPT ![s] = r] /\ id' = [id EXCEPT ![s] = 0]
    BY <1>8 DEF ThesisMode, SetLookup
  <2>5. r \in Userec
    BY <1>0, SearchUserRecord
  <2> HIDE DEF r
  <2>6. Rest(k)
    BY <1>0, <1>8, <2>2, <2>3, <2>4, <2>5, Reloads DEF ThesisMode, Base, AccountsTypeOK, shm
  <2> HIDE DEF Rest
  <2> QED
    BY <1>1, <2>1, <2>6, <2>7
<1> QED
  BY <1>2, <1>3, <1>4, <1>5, <1>6, <1>7, <1>8 DEF Rewrites

(* setuserid(i, n) by s.                                                     *)
Lists(s, i, n) ==
  /\ i \in DOMAIN passfile /\ n \in Name /\ passfile' = passfile
  /\ userid' \in [Uid -> Name] /\ userid'[i] = n
  /\ \A j \in Uid \ {i} : userid'[j] = userid[j]
  /\ number' = IF i > number THEN i ELSE number
  /\ haunted' = IF s \in lost THEN haunted \cup {i} ELSE haunted
  /\ haunted' \subseteq Uid
  /\ reload' \in [Process -> Reloading]
  /\ \A q \in Process :
       /\ reload'[q].step = reload[q].step /\ reload'[q].at = reload[q].at
       /\ reload'[q].got = reload[q].got /\ reload'[q].ftime = reload[q].ftime
       /\ reload'[q].crossed = (reload[q].crossed \/ Crosses(q, i))

LEMMA SetUserIdLists ==
  ASSUME Base, NEW s \in Process, NEW i \in DOMAIN passfile, NEW n \in Name,
         SetUserId(s, i, n), passfile' = passfile
  PROVE  Lists(s, i, n)
<1>1. i \in Uid /\ userid \in [Uid -> Name] /\ haunted \subseteq Uid
  BY BaseFacts DEF Base, AccountsTypeOK
<1>2. userid' = [userid EXCEPT ![i] = n] /\ number' = (IF i > number THEN i ELSE number)
      /\ haunted' = (IF s \in lost THEN haunted \cup {i} ELSE haunted)
  BY DEF SetUserId
<1>3. \A q \in Process : reload[q] \in Reloading
  BY DEF Base, AccountsTypeOK
<1>4. reload' = [q \in Process |-> [reload[q] EXCEPT !.crossed = @ \/ Crosses(q, i)]]
  BY DEF SetUserId
<1>5. ASSUME NEW q \in Process
      PROVE  /\ reload'[q] \in Reloading
             /\ reload'[q].step = reload[q].step /\ reload'[q].at = reload[q].at
             /\ reload'[q].got = reload[q].got /\ reload'[q].ftime = reload[q].ftime
             /\ reload'[q].crossed = (reload[q].crossed \/ Crosses(q, i))
  <2> DEFINE b == reload[q].crossed \/ Crosses(q, i)
  <2>1. reload'[q] = [reload[q] EXCEPT !.crossed = b]
    BY <1>4
  <2>2. b \in BOOLEAN
    BY <1>3, Reloads DEF Crosses
  <2> HIDE DEF b
  <2>3. reload'[q].crossed = b /\ reload'[q] \in Reloading
        /\ reload'[q].step = reload[q].step /\ reload'[q].at = reload[q].at
        /\ reload'[q].got = reload[q].got /\ reload'[q].ftime = reload[q].ftime
    BY <1>3, <2>1, <2>2 DEF Reloading
  <2> QED
    BY <2>3 DEF b
<1>6. reload' \in [Process -> Reloading]
  BY <1>4, <1>5
<1> QED
  BY <1>1, <1>2, <1>5, <1>6 DEF Lists

ListSteps(s) == DUserListed(s) \/ RenameListed(s) \/ NewListed(s) \/ CreateListed(s)

LEMMA NamesListed ==
  ASSUME Base, NEW s \in Process
  PROVE  /\ DUserListed(s) => Lists(s, id[s], Nobody)
         /\ RenameListed(s) => Lists(s, id[s], want[s])
         /\ NewListed(s) => Lists(s, id[s], Newcomer)
         /\ CreateListed(s) => Lists(s, id[s], want[s])
<1>1. want[s] \in Name /\ Nobody \in Name /\ Newcomer \in Name
  BY BaseFacts DEF Base, AccountsTypeOK
<1>2. stage[s] \in Holding => id[s] \in DOMAIN passfile
  BY DEF Base, RecordsExist
<1>3. {"deleted", "confirm", "took", "created"} \subseteq Holding
  BY DEF Holding, Dialogue
<1>4. DUserListed(s) => Lists(s, id[s], Nobody)
  BY <1>1, <1>2, <1>3, SetUserIdLists DEF DUserListed, file
<1>5. RenameListed(s) => Lists(s, id[s], want[s])
  BY <1>1, <1>2, <1>3, SetUserIdLists DEF RenameListed, file
<1>6. NewListed(s) => Lists(s, id[s], Newcomer)
  BY <1>1, <1>2, <1>3, SetUserIdLists DEF NewListed
<1>7. CreateListed(s) => Lists(s, id[s], want[s])
  BY <1>1, <1>2, <1>3, SetUserIdLists DEF CreateListed, file
<1> QED
  BY <1>4, <1>5, <1>6, <1>7

LEMMA ListTypes ==
  ASSUME Base, NEW s \in Process, ListSteps(s)
  PROVE  AccountsTypeOK' /\ Touches(s, id[s])
<1> USE BaseFacts
<1>0. /\ currentuser[s] \in Userec /\ usernum[s] \in 0..MaxUsers
      /\ late[s] \in [currentuser : BOOLEAN, lookupuser : BOOLEAN]
  BY DEF Base, AccountsTypeOK
<1>1. PICK n : Lists(s, id[s], n)
  BY NamesListed DEF ListSteps
<1>2. id[s] \in Nat /\ id[s] <= MaxUsers /\ id[s] \in DOMAIN passfile
  BY <1>1 DEF Lists
<1>3. number' \in 0..MaxUsers
  BY <1>1, <1>2 DEF Lists
<1>4. PICK l \in Stages : stage' = [stage EXCEPT ![s] = l]
  BY DEF ListSteps, DUserListed, RenameListed, NewListed, CreateListed, ComesTo, Stages,
     OnLine, Dialogue, Registering
<1>5. /\ currentuser' \in [Process -> Userec] /\ usernum' \in [Process -> 0..MaxUsers]
      /\ late' \in [Process -> [currentuser : BOOLEAN, lookupuser : BOOLEAN]]
      /\ \A q \in Process \ {s} : currentuser'[q] = currentuser[q] /\ usernum'[q] = usernum[q]
  <2>1. CASE DUserListed(s) \/ NewListed(s) \/ CreateListed(s)
    BY <2>1 DEF DUserListed, NewListed, CreateListed, Base, AccountsTypeOK
  <2>2. CASE RenameListed(s)
    <3> DEFINE r == Renewed(currentuser[s], passfile[usernum[s]])
    <3>1. usernum[s] \in DOMAIN passfile
      BY <2>2 DEF RenameListed, OnLine, Dialogue, Base, RecordsExist
    <3>2. r \in Userec
      BY <1>0, <3>1, ChangedRecords
    <3>3. SetCopy(s, r, usernum[s]) /\ SetLate(s, "currentuser", FALSE)
      BY <2>2 DEF RenameListed
    <3>4. [late[s] EXCEPT !["currentuser"] = FALSE]
            \in [currentuser : BOOLEAN, lookupuser : BOOLEAN]
      BY <1>0
    <3> HIDE DEF r
    <3> QED
      BY <1>0, <3>2, <3>3, <3>4 DEF SetCopy, SetLate, Base, AccountsTypeOK
  <2> QED
    BY <2>1, <2>2 DEF ListSteps
<1>6. flocked' \subseteq Process /\ UNCHANGED <<uptime, passfile, flush, killuser, now, role,
        lookupuser, id, want, lost, torn, strayed, raced>>
  BY DEF ListSteps, DUserListed, RenameListed, NewListed, CreateListed, file, Base,
     AccountsTypeOK
<1>7. AccountsTypeOK'
  <2>1. userid' \in [Uid -> Name] /\ haunted' \subseteq Uid /\ reload' \in [Process -> Reloading]
    BY <1>1 DEF Lists
  <2>2. stage' \in [Process -> {"out", "gone"} \cup Registering \cup OnLine]
    BY <1>4 DEF Base, AccountsTypeOK, Stages
  <2>3. AccountsTypeOK
    BY DEF Base
  <2>4. /\ passfile' \in Seq(Userec) /\ Len(passfile') <= MaxUsers
        /\ uptime' \in Nat /\ flush' \in Nat /\ uptime' <= flush'
        /\ killuser' \in BOOLEAN /\ now' \in 1..MaxTime /\ role' \in Roles
        /\ lookupuser' \in [Process -> Userec] /\ id' \in [Process -> 0..(MaxUsers + 1)]
        /\ want' \in [Process -> Name] /\ lost' \subseteq Process
        /\ torn' \in BOOLEAN /\ strayed' \in BOOLEAN /\ raced' \subseteq UserId
    BY <1>6, <2>3 DEF AccountsTypeOK
  <2> QED
    BY <1>3, <1>5, <1>6, <2>1, <2>2, <2>4 DEF AccountsTypeOK
<1>8. OthersStay(s)
  <2>1. ASSUME NEW q \in Process \ {s}
        PROVE  stage'[q] = stage[q] /\ want'[q] = want[q]
               /\ currentuser'[q] = currentuser[q] /\ usernum'[q] = usernum[q]
               /\ lookupuser'[q] = lookupuser[q] /\ id'[q] = id[q]
    BY <1>4, <1>5, <1>6 DEF Base, AccountsTypeOK
  <2>2. ASSUME NEW q \in Process
        PROVE  reload'[q].step = reload[q].step /\ reload'[q].at = reload[q].at
               /\ reload'[q].got = reload[q].got /\ reload'[q].ftime = reload[q].ftime
               /\ (reload[q].crossed => reload'[q].crossed)
    BY <1>1, Zenon DEF Lists
  <2> QED
    BY <2>1, <2>2 DEF OthersStay
<1>9. haunted \subseteq haunted'
  BY <1>1 DEF Lists
<1> QED
  BY <1>1, <1>6, <1>7, <1>8, <1>9 DEF Touches, Lists

LEMMA ClearTypes ==
  ASSUME Base, NEW s \in Process, CleanKill(s)
  PROVE  /\ AccountsTypeOK' /\ Touches(s, id[s])
         /\ id[s] \in DOMAIN passfile /\ passfile'[id[s]] = Zerorec
         /\ Len(passfile') = Len(passfile) /\ DOMAIN passfile' = DOMAIN passfile
<1> USE BaseFacts
<1>1. id[s] \in DOMAIN passfile /\ id[s] \in Nat /\ id[s] + 1 \in 0..(MaxUsers + 1)
  <2>1. id[s] \in DOMAIN passfile
    BY DEF CleanKill, Base, RecordsExist
  <2> QED
    BY <2>1
<1>2. passfile' = [passfile EXCEPT ![id[s]] = Zerorec] /\ passfile \in Seq(Userec)
  BY DEF CleanKill, Base, AccountsTypeOK
<1>3. passfile' \in Seq(Userec) /\ Len(passfile') = Len(passfile)
      /\ DOMAIN passfile' = DOMAIN passfile
      /\ passfile'[id[s]] = Zerorec
      /\ \A j \in DOMAIN passfile \ {id[s]} : passfile'[j] = passfile[j]
  BY <1>1, <1>2, UserRecords
<1>4. lost' \subseteq Process /\ lost \subseteq lost'
  BY DEF CleanKill, Bereft, Base, AccountsTypeOK
<1>5. id' \in [Process -> 0..(MaxUsers + 1)] /\ \A q \in Process \ {s} : id'[q] = id[q]
  BY <1>1 DEF CleanKill, Base, AccountsTypeOK
<1>6. stage' \in [Process -> Stages] /\ \A q \in Process \ {s} : stage'[q] = stage[q]
  BY DEF CleanKill, ComesTo, Base, AccountsTypeOK, Stages, Registering
<1>7. AccountsTypeOK'
  BY <1>3, <1>4, <1>5, <1>6 DEF CleanKill, Base, AccountsTypeOK, Stages, shm
<1>8. OthersStay(s)
  BY <1>5, <1>6 DEF CleanKill, OthersStay
<1>9. stage[s] \notin Mid
  BY DEF CleanKill, Mid
<1> QED
  BY <1>1, <1>3, <1>4, <1>7, <1>8, <1>9 DEF CleanKill, Touches, shm

(* The record of a registration is free, and written, or there is none.      *)
NewStarted(s) ==
  LET k == SearchNewUser
  IN /\ k \in Uid /\ k <= number + 1 /\ (userid[k] = Nobody \/ k = number + 1)
     /\ passfile' \in Seq(Userec) /\ DOMAIN passfile' = DOMAIN passfile \cup {k}
     /\ Len(passfile') = IF k = Len(passfile) + 1 THEN k ELSE Len(passfile)
     /\ passfile'[k] = [userid |-> Newcomer, level |-> 0, lastlogin |-> now]
     /\ id'[s] = k /\ stage'[s] = "took" /\ flocked' = flocked

NoneStarted(s) ==
  passfile' = passfile /\ id' = id /\ stage'[s] = "gone" /\ flocked' = {}

LEMMA NewTypes ==
  ASSUME Base, NEW s \in Process, NewRecord(s)
  PROVE  /\ AccountsTypeOK'
         /\ \/ NewStarted(s) /\ Touches(s, SearchNewUser)
            \/ NoneStarted(s) /\ Touches(s, 0)
<1> USE BaseFacts
<1> DEFINE k == SearchNewUser
           r == [userid |-> Newcomer, level |-> 0, lastlogin |-> now]
<1>1. AccountsTypeOK /\ r \in Userec
  BY UserRecords DEF Base, AccountsTypeOK
<1>2. k \in 0..MaxUsers /\ k <= number + 1 /\ (k # 0 => userid[k] = Nobody \/ k = number + 1)
  BY <1>1, SearchNewUserFinds
<1>3. /\ reload' \in [Process -> Reloading]
      /\ \A q \in Process \ {s} : reload'[q] = reload[q]
  BY DEF NewRecord, Looked, Base, AccountsTypeOK
<1>4. torn' \in BOOLEAN /\ (torn => torn') /\ stage[s] \notin Mid
  BY <1>1 DEF NewRecord, AccountsTypeOK, Mid
<1>5. UNCHANGED <<shm, flush, killuser, now, role, currentuser, usernum, lookupuser, want,
                  late, lost, haunted, strayed, raced>>
  BY DEF NewRecord
<1>6. stage' \in [Process -> Stages] /\ \A q \in Process \ {s} : stage'[q] = stage[q]
  BY DEF NewRecord, ComesTo, Base, AccountsTypeOK, Stages, Registering
<1>7. CASE k = 0
  <2>1. NoneStarted(s)
    BY <1>1, <1>7 DEF NewRecord, NoneStarted, ComesTo, AccountsTypeOK
  <2>2. AccountsTypeOK'
    BY <1>1, <1>3, <1>4, <1>5, <1>6, <2>1 DEF AccountsTypeOK, NoneStarted, shm, Stages
  <2>3. Touches(s, 0)
    BY <1>3, <1>4, <1>5, <1>6, <2>1 DEF Touches, OthersStay, NoneStarted, shm
  <2> QED
    BY <2>1, <2>2, <2>3
<1>8. CASE k # 0
  <2>1. k \in Nat \ {0} /\ k <= Len(passfile) + 1 /\ k \in Uid /\ k \in 0..(MaxUsers + 1)
    BY <1>2, <1>8 DEF Uid
  <2>2. /\ passfile' = SubstituteRecord(passfile, r, k, Zerorec)
        /\ id' = [id EXCEPT ![s] = k] /\ flocked' = flocked /\ ComesTo(s, "took")
    BY <1>8 DEF NewRecord
  <2> DEFINE f == SubstituteRecord(passfile, r, k, Zerorec)
  <2>3. /\ f \in Seq(Userec) /\ f[k] = r
        /\ DOMAIN f = DOMAIN passfile \cup {k}
        /\ Len(f) = IF k = Len(passfile) + 1 THEN k ELSE Len(passfile)
        /\ \A j \in DOMAIN passfile \ {k} : f[j] = passfile[j]
    <3> HIDE DEF k, r
    <3> QED
      BY <1>1, <2>1, WrittenFile
  <2>4. passfile' = f
    BY <2>2
  <2>5. id'[s] = k /\ stage'[s] = "took" /\ id' \in [Process -> 0..(MaxUsers + 1)]
        /\ \A q \in Process \ {s} : id'[q] = id[q]
    BY <1>1, <2>1, <2>2 DEF ComesTo, AccountsTypeOK
  <2> HIDE DEF f
  <2>6. NewStarted(s)
    BY <1>2, <2>1, <2>2, <2>3, <2>4, <2>5 DEF NewStarted
  <2> HIDE DEF k
  <2>7. Len(passfile') <= MaxUsers
    BY <2>1, <2>3, <2>4 DEF Uid
  <2>8. AccountsTypeOK'
    BY <1>1, <1>3, <1>4, <1>5, <1>6, <2>2, <2>3, <2>4, <2>5, <2>7 DEF AccountsTypeOK, shm,
       Stages
  <2>9. OthersStay(s)
    BY <1>3, <1>5, <1>6, <2>5 DEF OthersStay
  <2>10. Touches(s, k)
    BY <1>4, <1>5, <2>3, <2>4, <2>9 DEF Touches, shm
  <2> QED
    BY <2>6, <2>8, <2>10 DEF k
<1> QED
  BY <1>7, <1>8

LEMMA FillTypes ==
  ASSUME Base, NEW s \in Process, ReloadFill(s)
  PROVE  /\ AccountsTypeOK' /\ Touches(s, reload[s].at)
         /\ reload[s].at \in DOMAIN passfile /\ userid'[reload[s].at] = reload[s].got
<1>1. AccountsTypeOK'
  BY ReloadTypes
<1>2. reload[s].at \in DOMAIN passfile /\ userid'[reload[s].at] = reload[s].got
  BY BaseFacts DEF ReloadFill, Base, AccountsTypeOK, RecordsExist
<1>3. \A q \in Process \ {s} : reload'[q] = reload[q]
  BY DEF ReloadFill
<1>4. stage[s] \notin Mid
  BY DEF ReloadFill, Base, ReloadTimes, Running, Mid
<1>5. OthersStay(s)
  BY <1>3 DEF OthersStay, ReloadFill
<1> QED
  BY <1>1, <1>2, <1>4, <1>5 DEF Touches, ReloadFill, file, Base, AccountsTypeOK

(* What a session does, by what it touches.                                  *)
LEMMA StepKinds ==
  ASSUME Base, NEW s \in Process, ProcessStep(s)
  PROVE  \/ Looks(s) \/ ReloadFill(s) \/ Rewrites(s) \/ DUser(s) \/ RenameWrite(s)
         \/ Create(s) \/ CleanKill(s) \/ NewRecord(s) \/ ListSteps(s)
BY DEF ProcessStep, Looks, Rewrites, ListSteps

(* Every step keeps the types, and touches one record at most.               *)
LEMMA StepTypes ==
  ASSUME Base, NEW s \in Process, ProcessStep(s)
  PROVE  /\ AccountsTypeOK'
         /\ \E k \in 0..MaxUsers :
              /\ Touches(s, k)
              /\ k \in DOMAIN passfile \/ Looks(s) \/ NewRecord(s)
<1> USE BaseFacts
<1>0. \A k \in DOMAIN passfile : k \in 0..MaxUsers
  OBVIOUS
<1>1. CASE Looks(s)
  BY <1>1, LooksTypes, LooksTouch
<1>2. CASE ReloadFill(s)
  BY <1>0, <1>2, FillTypes
<1>3. CASE Rewrites(s)
  BY <1>0, <1>3, CopiesTypes
<1>4. CASE DUser(s) \/ RenameWrite(s) \/ Create(s)
  <2>1. id[s] \in DOMAIN passfile
    BY <1>4, CopiesWritten DEF Writes
  <2> QED
    BY <1>0, <1>4, <2>1, CopiesTypes
<1>5. CASE CleanKill(s)
  BY <1>0, <1>5, ClearTypes
<1>6. CASE NewRecord(s)
  <2>1. \A k \in Uid : k \in 0..MaxUsers
    BY DEF Uid
  <2>2. CASE NewStarted(s) /\ Touches(s, SearchNewUser)
    BY <1>6, <2>1, <2>2, NewTypes DEF NewStarted
  <2>3. CASE Touches(s, 0)
    BY <1>6, <2>3, NewTypes
  <2> QED
    BY <1>6, <2>2, <2>3, NewTypes
<1>7. CASE ListSteps(s)
  <2>1. id[s] \in DOMAIN passfile
    BY <1>7, NamesListed DEF ListSteps, Lists
  <2> QED
    BY <1>0, <1>7, <2>1, ListTypes
<1> QED
  BY <1>1, <1>2, <1>3, <1>4, <1>5, <1>6, <1>7, StepKinds

(* The file grows by a new record, and never shrinks.                        *)
LEMMA FileGrows ==
  ASSUME Base, AccountsTypeOK', NEW s \in Process, NEW k, Touches(s, k)
  PROVE  /\ DOMAIN passfile' = 1..Len(passfile') /\ Len(passfile') \in Nat
         /\ Len(passfile) <= Len(passfile')
<1>1. passfile' \in Seq(Userec)
  BY DEF AccountsTypeOK
<1>2. DOMAIN passfile' = 1..Len(passfile') /\ Len(passfile') \in Nat
  BY <1>1, LenProperties
<1>3. DOMAIN passfile = 1..Len(passfile) /\ Len(passfile) \in Nat
  BY BaseFacts
<1>4. 1..Len(passfile) \subseteq 1..Len(passfile')
  BY <1>2, <1>3 DEF Touches
<1>5. CASE Len(passfile) = 0
  BY <1>2, <1>5
<1>6. CASE Len(passfile) # 0
  <2>1. Len(passfile) \in 1..Len(passfile)
    BY <1>3, <1>6
  <2> QED
    BY <1>2, <1>3, <1>4, <2>1
<1> QED
  BY <1>2, <1>5, <1>6

UsesRecords(s) ==
  /\ stage[s] \in OnLine => usernum[s] \in DOMAIN passfile
  /\ stage[s] \in Holding \cup {"kill"} => id[s] \in DOMAIN passfile
  /\ stage[s] = "clean" => id[s] \in 1..(Len(passfile) + 1)
  /\ reload[s].step \in Running => reload[s].at \in 1..(Len(passfile) + 1)
  /\ reload[s].step = "fill" => reload[s].at \in DOMAIN passfile

LEMMA UsesKept ==
  ASSUME Base, NEW s \in Process, NEW k, Touches(s, k), AccountsTypeOK',
         UsesRecords(s)', number' <= Len(passfile')
  PROVE  RecordsExist'
<1>1. /\ Len(passfile) \in Nat /\ Len(passfile') \in Nat /\ Len(passfile) <= Len(passfile')
      /\ DOMAIN passfile \subseteq DOMAIN passfile'
  BY BaseFacts, FileGrows DEF Touches
<1>2. ASSUME NEW q \in Process \ {s} PROVE UsesRecords(q)'
  <2>1. UsesRecords(q)
    BY DEF Base, RecordsExist, UsesRecords
  <2>2. /\ stage'[q] = stage[q] /\ usernum'[q] = usernum[q] /\ id'[q] = id[q]
        /\ reload'[q].step = reload[q].step /\ reload'[q].at = reload[q].at
    BY DEF Touches, OthersStay
  <2> QED
    BY <1>1, <2>1, <2>2 DEF UsesRecords
<1> QED
  BY <1>2 DEF RecordsExist, UsesRecords

-----------------------------------------------------------------------------
(* Where a step takes a session, and what it leaves in its variables.        *)
StaysSame(s) ==
  /\ id'[s] = id[s] /\ usernum'[s] = usernum[s] /\ want'[s] = want[s]
  /\ currentuser'[s].userid = currentuser[s].userid
  /\ lookupuser'[s].userid = lookupuser[s].userid

Moves(s, from, to) == stage[s] = from /\ stage'[s] = to

(* The steps that change the stage of a session and none of its names.        *)
LEMMA PlainMoves ==
  ASSUME Base, NEW s \in Process, AccountsTypeOK'
  PROVE  /\ ReloadStart(s) \/ ReloadRead(s) \/ ReloadFill(s) \/ ReloadEnd(s) =>
              StaysSame(s) /\ stage'[s] = stage[s]
         /\ SetSafeRecord(s) => stage[s] \in {"enter", "on"} /\ stage'[s] = "safe" /\ StaysSame(s)
         /\ WriteBack(s) => Moves(s, "safe", "on") /\ StaysSame(s)
         /\ InfoRenew(s) => Moves(s, "info", "dialogue") /\ StaysSame(s)
         /\ EndDialogue(s) => Moves(s, "dialogue", "on") /\ StaysSame(s)
         /\ XLevel(s) => Moves(s, "level", "on") /\ StaysSame(s)
         /\ EditRenew(s) => Moves(s, "edit", "dialogue") /\ StaysSame(s)
         /\ RenameListed(s) => Moves(s, "confirm", "renamed") /\ StaysSame(s)
         /\ RenameWrite(s) => Moves(s, "renamed", "on") /\ StaysSame(s)
         /\ DUserListed(s) => Moves(s, "deleted", "on") /\ StaysSame(s)
         /\ CleanEnd(s) => Moves(s, "clean", "lock") /\ StaysSame(s)
         /\ Lock(s) => Moves(s, "lock", "search") /\ StaysSame(s)
         /\ NewListed(s) => Moves(s, "took", "password") /\ StaysSame(s)
         /\ Create(s) => Moves(s, "password", "created") /\ StaysSame(s)
         /\ CreateListed(s) => Moves(s, "created", "recheck") /\ StaysSame(s)
<1> USE BaseFacts
<1>0. AccountsTypeOK /\ currentuser[s] \in Userec /\ lookupuser[s] \in Userec
  BY DEF Base, AccountsTypeOK
<1>1. stage \in [Process -> Stages] /\ currentuser \in [Process -> Userec]
      /\ lookupuser \in [Process -> Userec] /\ usernum \in [Process -> 0..MaxUsers]
  BY <1>0 DEF AccountsTypeOK, Stages
<1>2. ASSUME NEW l, ComesTo(s, l) PROVE stage'[s] = l
  BY <1>1, <1>2 DEF ComesTo
<1>3. ASSUME NEW r, NEW n, SetCopy(s, r, n) PROVE currentuser'[s] = r /\ usernum'[s] = n
  BY <1>1, <1>3 DEF SetCopy
<1>4. ASSUME NEW r, NEW n, NEW l, Substitute(s, r, n, l) PROVE stage'[s] = l
  BY <1>2, <1>4 DEF Substitute
<1>5. stage[s] \in OnLine => passfile[usernum[s]] \in Userec
  BY DEF Base, RecordsExist
<1>6. \A r \in Userec : stage[s] \in OnLine => Renewed(r, passfile[usernum[s]]).userid = r.userid
  BY <1>5, ChangedRecords
<1>7. {"enter", "on", "info", "edit", "confirm"} \subseteq OnLine
  BY DEF OnLine, Dialogue
<1>11. ReloadStart(s) \/ ReloadRead(s) \/ ReloadFill(s) \/ ReloadEnd(s) =>
         StaysSame(s) /\ stage'[s] = stage[s]
  BY DEF ReloadStart, ReloadRead, ReloadFill, ReloadEnd, StaysSame
<1>12. ASSUME SetSafeRecord(s)
       PROVE  stage[s] \in {"enter", "on"} /\ stage'[s] = "safe" /\ StaysSame(s)
  <2> DEFINE c == IF stage[s] = "enter" THEN [currentuser[s] EXCEPT !.lastlogin = now]
                  ELSE currentuser[s]
  <2>1. c \in Userec /\ c.userid = currentuser[s].userid
    <3>1. now \in 0..MaxTime
      BY <1>0 DEF AccountsTypeOK
    <3> QED
      BY <1>0, <3>1, ChangedRecords
  <2>2. SetCopy(s, Renewed(c, passfile[usernum[s]]), usernum[s]) /\ ComesTo(s, "safe")
        /\ stage[s] \in {"enter", "on"}
    BY <1>12 DEF SetSafeRecord
  <2>3. UNCHANGED <<lookupuser, id, want>>
    BY <1>12 DEF SetSafeRecord
  <2> HIDE DEF c
  <2> QED
    BY <1>2, <1>3, <1>6, <1>7, <2>1, <2>2, <2>3 DEF StaysSame
<1>13. WriteBack(s) => Moves(s, "safe", "on") /\ StaysSame(s)
  BY <1>4 DEF WriteBack, Moves, StaysSame
<1>14. InfoRenew(s) => Moves(s, "info", "dialogue") /\ StaysSame(s)
  <2>1. stage[s] = "info" => lookupuser[s].userid = currentuser[s].userid
    BY DEF Base, NamesOfPeople
  <2> QED
    BY <1>0, <1>2, <1>3, <1>6, <1>7, <2>1 DEF InfoRenew, Moves, StaysSame
<1>15. EndDialogue(s) => Moves(s, "dialogue", "on") /\ StaysSame(s)
  BY <1>4 DEF EndDialogue, Moves, StaysSame
<1>16. XLevel(s) => Moves(s, "level", "on") /\ StaysSame(s)
  <2> DEFINE r == [lookupuser[s] EXCEPT !.level = 1 - @]
  <2>1. r.userid = lookupuser[s].userid
    BY <1>0, ChangedRecords
  <2>2. XLevel(s) => Substitute(s, r, id[s], "on") /\ lookupuser' = [lookupuser EXCEPT ![s] = r]
                     /\ stage[s] = "level"
    BY DEF XLevel
  <2> HIDE DEF r
  <2> QED
    BY <1>1, <1>4, <2>1, <2>2 DEF XLevel, Moves, StaysSame
<1>17. EditRenew(s) => Moves(s, "edit", "dialogue") /\ StaysSame(s)
  BY <1>0, <1>2, <1>3, <1>6, <1>7 DEF EditRenew, Moves, StaysSame
<1>18. RenameListed(s) => Moves(s, "confirm", "renamed") /\ StaysSame(s)
  BY <1>0, <1>2, <1>3, <1>6, <1>7 DEF RenameListed, Moves, StaysSame
<1>19. RenameWrite(s) => Moves(s, "renamed", "on") /\ StaysSame(s)
  BY <1>4 DEF RenameWrite, Moves, StaysSame
<1>20. DUserListed(s) => Moves(s, "deleted", "on") /\ StaysSame(s)
  BY <1>2 DEF DUserListed, Moves, StaysSame
<1>21. CleanEnd(s) => Moves(s, "clean", "lock") /\ StaysSame(s)
  BY <1>2 DEF CleanEnd, Moves, StaysSame
<1>22. Lock(s) => Moves(s, "lock", "search") /\ StaysSame(s)
  BY <1>2 DEF Lock, Moves, StaysSame
<1>23. NewListed(s) => Moves(s, "took", "password") /\ StaysSame(s)
  BY <1>2 DEF NewListed, Moves, StaysSame
<1>24. Create(s) => Moves(s, "password", "created") /\ StaysSame(s)
  BY <1>4 DEF Create, Moves, StaysSame
<1>25. CreateListed(s) => Moves(s, "created", "recheck") /\ StaysSame(s)
  BY <1>2 DEF CreateListed, Moves, StaysSame
<1> QED
  BY <1>11, <1>12, <1>13, <1>14, <1>15, <1>16, <1>17, <1>18, <1>19, <1>20, <1>21, <1>22, <1>23,
     <1>24, <1>25

KeepsName(s) == usernum'[s] = usernum[s] /\ currentuser'[s] = currentuser[s]
KeepsCopy(s) == id'[s] = id[s] /\ lookupuser'[s] = lookupuser[s]

(* The steps that give a session a copy, a name to ask for, or another record. *)
LEMMA OtherMoves ==
  ASSUME Base, NEW s \in Process, AccountsTypeOK'
  PROVE  /\ AbortBbs(s) => stage'[s] = "gone"
         /\ Offline(s) => Moves(s, "on", "gone")
         /\ UserDefine(s) =>
              LET i == SearchUser(currentuser[s].userid)
              IN /\ Moves(s, "on", "dialogue") /\ KeepsName(s) /\ i \in DOMAIN passfile
                 /\ id'[s] = i /\ lookupuser'[s] = passfile[i]
         /\ ThesisMode(s) => Moves(s, "on", "on") /\ KeepsName(s)
         /\ Info(s) => /\ Moves(s, "on", "info") /\ KeepsName(s)
                       /\ id'[s] = usernum[s] /\ lookupuser'[s] = currentuser[s]
         /\ DUser(s) => /\ Moves(s, "delete", "deleted") /\ KeepsName(s) /\ id'[s] = id[s]
                        /\ lookupuser'[s].userid = Nobody
         /\ CleanStart(s) => /\ stage[s] = "checked" /\ id'[s] = 1 /\ want'[s] = want[s]
                             /\ stage'[s] = IF killuser THEN "clean" ELSE "lock"
         /\ CleanRead(s) =>
              /\ stage[s] = "clean" /\ id[s] \in DOMAIN passfile /\ want'[s] = want[s]
              /\ \/ stage'[s] = "kill" /\ id'[s] = id[s]
                 \/ stage'[s] = "clean" /\ id'[s] = id[s] + 1
         /\ CleanKill(s) => Moves(s, "kill", "clean") /\ id'[s] = id[s] + 1 /\ want'[s] = want[s]
         /\ NewRecord(s) => stage[s] = "search" /\ stage'[s] \in {"took", "gone"}
                              /\ want'[s] = want[s]
         /\ Recheck(s) =>
              /\ stage[s] = "recheck"
              /\ \/ stage'[s] = "gone"
                 \/ LET i == SearchUser(want[s])
                    IN /\ stage'[s] = "enter" /\ i \in DOMAIN passfile
                       /\ usernum'[s] = i /\ currentuser'[s] = passfile[i]
                       /\ passfile[i].userid = want[s] /\ want[s] \in UserId
<1> USE BaseFacts
<1>0. AccountsTypeOK /\ currentuser[s] \in Userec /\ lookupuser[s] \in Userec
  BY DEF Base, AccountsTypeOK
<1>1. stage \in [Process -> Stages] /\ currentuser \in [Process -> Userec]
      /\ lookupuser \in [Process -> Userec] /\ usernum \in [Process -> 0..MaxUsers]
      /\ id \in [Process -> 0..(MaxUsers + 1)]
  BY <1>0 DEF AccountsTypeOK, Stages
<1>2. ASSUME NEW l, ComesTo(s, l) PROVE stage'[s] = l
  BY <1>1, <1>2 DEF ComesTo
<1>3. ASSUME NEW r, NEW n, SetCopy(s, r, n) PROVE currentuser'[s] = r /\ usernum'[s] = n
  BY <1>1, <1>3 DEF SetCopy
<1>4. ASSUME NEW r, NEW n, NEW l, Substitute(s, r, n, l) PROVE stage'[s] = l
  BY <1>2, <1>4 DEF Substitute
<1>5. ASSUME NEW r, NEW n, SetLookup(s, r, n) PROVE lookupuser'[s] = r /\ id'[s] = n
  BY <1>1, <1>5 DEF SetLookup
<1>11. AbortBbs(s) => stage'[s] = "gone"
  BY <1>2 DEF AbortBbs, End
<1>12. Offline(s) => Moves(s, "on", "gone")
  BY <1>4 DEF Offline, Moves
<1>13. UserDefine(s) =>
         LET i == SearchUser(currentuser[s].userid)
         IN /\ Moves(s, "on", "dialogue") /\ KeepsName(s) /\ i \in DOMAIN passfile
            /\ id'[s] = i /\ lookupuser'[s] = passfile[i]
  <2> DEFINE i == SearchUser(currentuser[s].userid)
  <2>1. UserDefine(s) => i \in DOMAIN passfile
    BY SearchUserRecord DEF UserDefine
  <2>2. UserDefine(s) => SetLookup(s, passfile[i], i) /\ ComesTo(s, "dialogue") /\ stage[s] = "on"
          /\ UNCHANGED <<currentuser, usernum>>
    BY DEF UserDefine
  <2> HIDE DEF i
  <2>3. UserDefine(s) => /\ Moves(s, "on", "dialogue") /\ KeepsName(s) /\ i \in DOMAIN passfile
                         /\ id'[s] = i /\ lookupuser'[s] = passfile[i]
    BY <1>2, <1>5, <2>1, <2>2 DEF Moves, KeepsName
  <2> QED
    BY <2>3 DEF i
<1>14. ThesisMode(s) => Moves(s, "on", "on") /\ KeepsName(s)
  BY <1>4 DEF ThesisMode, Moves, KeepsName
<1>15. Info(s) => /\ Moves(s, "on", "info") /\ KeepsName(s)
                  /\ id'[s] = usernum[s] /\ lookupuser'[s] = currentuser[s]
  BY <1>2, <1>5 DEF Info, Moves, KeepsName
<1>16. DUser(s) => /\ Moves(s, "delete", "deleted") /\ KeepsName(s) /\ id'[s] = id[s]
                   /\ lookupuser'[s].userid = Nobody
  <2> DEFINE r == [lookupuser[s] EXCEPT !.userid = Nobody, !.level = 0]
  <2>1. r.userid = Nobody
    BY <1>0, ChangedRecords
  <2>2. DUser(s) => /\ Substitute(s, r, id[s], "deleted") /\ stage[s] = "delete"
                    /\ lookupuser' = [lookupuser EXCEPT ![s] = r]
                    /\ UNCHANGED <<currentuser, usernum, id>>
    BY DEF DUser
  <2> HIDE DEF r
  <2> QED
    BY <1>1, <1>4, <2>1, <2>2 DEF Moves, KeepsName
<1>17. CleanStart(s) => /\ stage[s] = "checked" /\ id'[s] = 1 /\ want'[s] = want[s]
                        /\ stage'[s] = IF killuser THEN "clean" ELSE "lock"
  BY <1>1, <1>2 DEF CleanStart
<1>18. CleanRead(s) =>
         /\ stage[s] = "clean" /\ id[s] \in DOMAIN passfile /\ want'[s] = want[s]
         /\ \/ stage'[s] = "kill" /\ id'[s] = id[s]
            \/ stage'[s] = "clean" /\ id'[s] = id[s] + 1
  <2>1. CleanRead(s) => stage[s] = "clean" /\ id[s] \in DOMAIN passfile
    BY DEF CleanRead, Base, RecordsExist
  <2> QED
    BY <1>1, <1>2, <2>1 DEF CleanRead
<1>19. CleanKill(s) => Moves(s, "kill", "clean") /\ id'[s] = id[s] + 1 /\ want'[s] = want[s]
  BY <1>1, <1>2 DEF CleanKill, Moves
<1>20. NewRecord(s) => stage[s] = "search" /\ stage'[s] \in {"took", "gone"} /\ want'[s] = want[s]
  BY NewTypes DEF NewRecord, NewStarted, NoneStarted
<1>21. Recheck(s) =>
         /\ stage[s] = "recheck"
         /\ \/ stage'[s] = "gone"
            \/ LET i == SearchUser(want[s])
               IN /\ stage'[s] = "enter" /\ i \in DOMAIN passfile
                  /\ usernum'[s] = i /\ currentuser'[s] = passfile[i]
                  /\ passfile[i].userid = want[s] /\ want[s] \in UserId
  <2> DEFINE i == SearchUser(want[s])
  <2>1. Known(want[s]) => i \in DOMAIN passfile /\ passfile[i].userid = want[s]
    BY SearchUserRecord DEF Known
  <2>2. Recheck(s) => want[s] \in UserId /\ stage[s] = "recheck"
    BY DEF Recheck, Base, NamesOfPeople, Naming, Registering
  <2>3. Recheck(s) /\ ~Known(want[s]) => stage'[s] = "gone"
    BY <1>2 DEF Recheck
  <2>4. Recheck(s) /\ Known(want[s]) => SetCopy(s, passfile[i], i) /\ ComesTo(s, "enter")
    BY DEF Recheck, Become
  <2> HIDE DEF i
  <2>5. Recheck(s) => \/ stage'[s] = "gone"
                      \/ /\ stage'[s] = "enter" /\ i \in DOMAIN passfile
                         /\ usernum'[s] = i /\ currentuser'[s] = passfile[i]
                         /\ passfile[i].userid = want[s] /\ want[s] \in UserId
    BY <1>2, <1>3, <2>1, <2>2, <2>3, <2>4
  <2> QED
    BY <2>2, <2>5 DEF i
<1> QED
  BY <1>11, <1>12, <1>13, <1>14, <1>15, <1>16, <1>17, <1>18, <1>19, <1>20, <1>21

LEMMA NameMoves ==
  ASSUME Base, NEW s \in Process, AccountsTypeOK', NEW n \in role.types[s]
  PROVE  /\ n \in UserId
         /\ Login(s, n) =>
              LET i == SearchUser(n)
              IN /\ Moves(s, "out", "enter") /\ i \in DOMAIN passfile
                 /\ usernum'[s] = i /\ currentuser'[s] = passfile[i]
                 /\ passfile[i].userid = n
         /\ Check(s, n) => Moves(s, "out", "checked") /\ want'[s] = n
         /\ RenameCheck(s, n) => /\ Moves(s, "rename", "confirm") /\ KeepsName(s) /\ KeepsCopy(s)
                                 /\ want'[s] = n
         /\ \A c, l : Consult(s, n, c, l) =>
              LET i == SearchUser(n)
              IN /\ Moves(s, "on", l) /\ KeepsName(s) /\ i \in DOMAIN passfile
                 /\ id'[s] = i /\ lookupuser'[s] = passfile[i]
<1> USE BaseFacts
<1>0. AccountsTypeOK
  BY DEF Base
<1>1. stage \in [Process -> Stages] /\ currentuser \in [Process -> Userec]
      /\ lookupuser \in [Process -> Userec] /\ usernum \in [Process -> 0..MaxUsers]
      /\ id \in [Process -> 0..(MaxUsers + 1)] /\ want \in [Process -> Name]
  BY <1>0 DEF AccountsTypeOK, Stages
<1>2. ASSUME NEW l, ComesTo(s, l) PROVE stage'[s] = l
  BY <1>1, <1>2 DEF ComesTo
<1>3. ASSUME NEW r, NEW m, SetCopy(s, r, m) PROVE currentuser'[s] = r /\ usernum'[s] = m
  BY <1>1, <1>3 DEF SetCopy
<1>5. ASSUME NEW r, NEW m, SetLookup(s, r, m) PROVE lookupuser'[s] = r /\ id'[s] = m
  BY <1>1, <1>5 DEF SetLookup
<1> DEFINE i == SearchUser(n)
<1>6. i # 0 => i \in DOMAIN passfile
  BY SearchUserRecord
<1>7. Login(s, n) => /\ SetCopy(s, passfile[i], i) /\ ComesTo(s, "enter") /\ stage[s] = "out"
                     /\ i # 0 /\ passfile[i].userid = n
  BY DEF Login, Become, Known
<1>8. \A c, l : Consult(s, n, c, l) =>
        /\ stage[s] = "on" /\ i # 0 /\ SetLookup(s, passfile[i], i) /\ ComesTo(s, l)
        /\ UNCHANGED <<currentuser, usernum>>
  BY DEF Consult
<1> HIDE DEF i
<1>9. Login(s, n) => /\ Moves(s, "out", "enter") /\ i \in DOMAIN passfile
                     /\ usernum'[s] = i /\ currentuser'[s] = passfile[i]
                     /\ passfile[i].userid = n
  BY <1>2, <1>3, <1>6, <1>7 DEF Moves
<1>10. Check(s, n) => Moves(s, "out", "checked") /\ want'[s] = n
  BY <1>1, <1>2 DEF Check, Moves
<1>11. RenameCheck(s, n) => /\ Moves(s, "rename", "confirm") /\ KeepsName(s) /\ KeepsCopy(s)
                            /\ want'[s] = n
  BY <1>1, <1>2 DEF RenameCheck, Moves, KeepsName, KeepsCopy
<1>12. \A c, l : Consult(s, n, c, l) =>
          /\ Moves(s, "on", l) /\ KeepsName(s) /\ i \in DOMAIN passfile
          /\ id'[s] = i /\ lookupuser'[s] = passfile[i]
  BY <1>2, <1>5, <1>6, <1>8 DEF Moves, KeepsName
<1> QED
  BY <1>9, <1>10, <1>11, <1>12 DEF i

ReloadSteps(s) == ReloadStart(s) \/ ReloadRead(s) \/ ReloadFill(s) \/ ReloadEnd(s)

(* What the steps of a reload do to the place of the session in it.           *)
LEMMA ReloadMoves ==
  ASSUME Base, NEW s \in Process, ProcessStep(s)
  PROVE  /\ ReloadStart(s) =>
              /\ reload[s].step = "none" /\ uptime # flush
              /\ stage[s] \in {"out", "on", "search", "recheck", "rename"}
              /\ reload'[s].step = "read" /\ reload'[s].at = 1 /\ reload'[s].ftime = flush
         /\ ReloadRead(s) =>
              /\ reload[s].step = "read" /\ reload'[s].at = reload[s].at
              /\ reload'[s].ftime = reload[s].ftime /\ reload'[s].crossed = reload[s].crossed
              /\ \/ reload[s].at > Len(passfile) /\ reload'[s].step = "end"
                 \/ /\ reload[s].at \in DOMAIN passfile /\ reload'[s].step = "fill"
                    /\ reload'[s].got = Owner(reload[s].at)
         /\ ReloadFill(s) =>
              /\ reload[s].step = "fill" /\ reload'[s].step = "read"
              /\ reload'[s].at = reload[s].at + 1 /\ reload'[s].ftime = reload[s].ftime
         /\ ReloadEnd(s) =>
              /\ reload[s].step = "end" /\ reload'[s].step = "done"
              /\ number' = reload[s].at - 1 /\ uptime' = flush
         /\ ~ReloadSteps(s) =>
              reload'[s].step = "none" \/ (reload[s].step = "done" /\ reload'[s].step = "done")
<1> USE BaseFacts
<1>0. reload \in [Process -> Reloading] /\ reload[s] \in Reloading
      /\ flush \in Nat /\ uptime \in Nat
  BY DEF Base, AccountsTypeOK
<1>1. ReloadStart(s) =>
        /\ reload[s].step = "none" /\ uptime # flush
        /\ stage[s] \in {"out", "on", "search", "recheck", "rename"}
        /\ reload'[s].step = "read" /\ reload'[s].at = 1 /\ reload'[s].ftime = flush
  BY <1>0 DEF ReloadStart, Resolved, NoReload
<1>2. ReloadRead(s) =>
        /\ reload[s].step = "read" /\ reload'[s].at = reload[s].at
        /\ reload'[s].ftime = reload[s].ftime /\ reload'[s].crossed = reload[s].crossed
        /\ \/ reload[s].at > Len(passfile) /\ reload'[s].step = "end"
           \/ /\ reload[s].at \in DOMAIN passfile /\ reload'[s].step = "fill"
              /\ reload'[s].got = Owner(reload[s].at)
  <2> SUFFICES ASSUME ReloadRead(s)
               PROVE  /\ reload[s].step = "read" /\ reload'[s].at = reload[s].at
                      /\ reload'[s].ftime = reload[s].ftime
                      /\ reload'[s].crossed = reload[s].crossed
                      /\ \/ reload[s].at > Len(passfile) /\ reload'[s].step = "end"
                         \/ /\ reload[s].at \in DOMAIN passfile /\ reload'[s].step = "fill"
                            /\ reload'[s].got = Owner(reload[s].at)
    OBVIOUS
  <2>1. CASE reload[s].at > Len(passfile)
    <3>1. reload'[s] = [reload[s] EXCEPT !.step = "end"]
      BY <1>0, <2>1 DEF ReloadRead
    <3> QED
      BY <1>0, <2>1, <3>1 DEF ReloadRead, Reloading
  <2>2. CASE ~(reload[s].at > Len(passfile))
    <3>1. reload'[s] = [reload[s] EXCEPT !.step = "fill", !.got = passfile[reload[s].at].userid]
      BY <1>0, <2>2 DEF ReloadRead
    <3>2. reload[s].at \in 1..(Len(passfile) + 1)
      BY DEF ReloadRead, Base, RecordsExist, Running
    <3>3. reload[s].at \in DOMAIN passfile
      BY <2>2, <3>2
    <3> QED
      BY <1>0, <3>1, <3>3 DEF ReloadRead, Reloading, Owner
  <2> QED
    BY <2>1, <2>2
<1>3. ReloadFill(s) =>
        /\ reload[s].step = "fill" /\ reload'[s].step = "read"
        /\ reload'[s].at = reload[s].at + 1 /\ reload'[s].ftime = reload[s].ftime
  <2>1. ReloadFill(s) => reload'[s] = [reload[s] EXCEPT !.step = "read", !.at = @ + 1,
                                                        !.crossed = FALSE]
    BY <1>0 DEF ReloadFill
  <2> QED
    BY <1>0, <2>1 DEF ReloadFill, Reloading
<1>4. ReloadEnd(s) =>
        /\ reload[s].step = "end" /\ reload'[s].step = "done"
        /\ number' = reload[s].at - 1 /\ uptime' = flush
  <2>1. reload[s].step = "end" => reload[s].ftime = flush
    BY DEF Base, ReloadTimes, Running
  <2> QED
    BY <1>0, <2>1 DEF ReloadEnd, Counted, NoReload
<1>5. ASSUME ~ReloadSteps(s)
      PROVE  reload'[s].step = "none" \/ (reload[s].step = "done" /\ reload'[s].step = "done")
  <2>1. CASE reload' = [reload EXCEPT ![s] = NoReload]
    BY <1>0, <2>1, Reloads
  <2>2. CASE Free(s) /\ reload' = reload
    BY <1>0, <2>2 DEF Free
  <2>3. CASE Free(s) /\ ListSteps(s)
    <3>1. reload'[s].step = reload[s].step
      BY <2>3, NamesListed DEF ListSteps, Lists
    <3> QED
      BY <2>3, <3>1 DEF Free
  <2>4. CASE AbortBbs(s)
    BY <2>1, <2>4 DEF AbortBbs
  <2>5. CASE Free(s) /\ ~AbortBbs(s)
    <3>1. CASE SetSafeRecord(s) \/ WriteBack(s) \/ Offline(s) \/ Info(s) \/ InfoRenew(s)
            \/ EditRenew(s) \/ EndDialogue(s) \/ XLevel(s) \/ DUser(s) \/ RenameWrite(s)
      <4>1. reload' = reload
        BY <3>1 DEF SetSafeRecord, WriteBack, Offline, Info, InfoRenew, EditRenew, EndDialogue,
           XLevel, DUser, RenameWrite
      <4> QED
        BY <2>2, <2>5, <4>1
    <3>2. CASE CleanStart(s) \/ CleanRead(s) \/ CleanKill(s) \/ CleanEnd(s) \/ Lock(s) \/ Create(s)
      <4>1. reload' = reload
        BY <3>2 DEF CleanStart, CleanRead, CleanKill, CleanEnd, Lock, Create
      <4> QED
        BY <2>2, <2>5, <4>1
    <3>3. CASE UserDefine(s) \/ ThesisMode(s) \/ NewRecord(s) \/ Recheck(s)
               \/ \E n \in role.types[s] :
                    \/ Login(s, n) \/ Check(s, n) \/ RenameCheck(s, n)
                    \/ \E c, l : Consult(s, n, c, l)
      <4>1. reload' = [reload EXCEPT ![s] = NoReload]
        BY <3>3 DEF UserDefine, ThesisMode, NewRecord, Recheck, Login, Check, RenameCheck,
           Consult, Looked
      <4> QED
        BY <2>1, <4>1
    <3> QED
      BY <1>5, <2>3, <2>5, <3>1, <3>2, <3>3 DEF ProcessStep, ReloadSteps, ListSteps
  <2> QED
    BY <1>5, <2>4, <2>5 DEF ProcessStep, ReloadSteps
<1> QED
  BY <1>1, <1>2, <1>3, <1>4, <1>5

-----------------------------------------------------------------------------
(* The basic invariant is kept.                                              *)
NamedLooks(s) ==
  \E n \in role.types[s] :
    Login(s, n) \/ Check(s, n) \/ RenameCheck(s, n) \/ \E c, l : Consult(s, n, c, l)

LEMMA NumberStep ==
  ASSUME Base, NEW s \in Process, ProcessStep(s), AccountsTypeOK', NEW k, Touches(s, k)
  PROVE  number' <= Len(passfile') /\ (~ReloadEnd(s) /\ ~ListSteps(s) => number' = number)
<1>0. number \in Nat /\ number <= Len(passfile) /\ Len(passfile) \in Nat
  BY BaseFacts
<1>1. Len(passfile') \in Nat /\ Len(passfile) <= Len(passfile')
  BY FileGrows
<1>2. CASE ListSteps(s)
  <2>1. PICK n : Lists(s, id[s], n)
    BY <1>2, NamesListed DEF ListSteps
  <2>2. id[s] \in 1..Len(passfile) /\ number' = IF id[s] > number THEN id[s] ELSE number
    BY <2>1, BaseFacts DEF Lists
  <2> QED
    BY <1>0, <1>1, <1>2, <2>2
<1>3. CASE ReloadEnd(s)
  <2>1. reload[s].at \in 1..(Len(passfile) + 1) /\ number' = reload[s].at - 1
    BY <1>3 DEF ReloadEnd, Counted, Base, RecordsExist, Running
  <2> QED
    BY <1>0, <1>1, <1>3, <2>1
<1>4. CASE ~ReloadEnd(s) /\ ~ListSteps(s)
  <2>1. number' = number
    <3>1. CASE Rewrites(s) \/ DUser(s) \/ RenameWrite(s) \/ Create(s) \/ CleanKill(s)
               \/ NewRecord(s) \/ ReloadFill(s)
      BY <3>1 DEF Rewrites, WriteBack, Offline, EndDialogue, XLevel, ThesisMode, DUser,
         RenameWrite, Create, CleanKill, NewRecord, ReloadFill, shm
    <3>2. CASE Looks(s)
      BY <1>4, <3>2 DEF Looks, ReloadStart, ReloadRead, AbortBbs, SetSafeRecord, UserDefine,
         Info, InfoRenew, EditRenew, CleanStart, CleanRead, CleanEnd, Lock, Recheck, Login, Check,
         RenameCheck, Consult, shm
    <3> QED
      BY <1>4, <3>1, <3>2, StepKinds
  <2> QED
    BY <1>0, <1>1, <2>1
<1> QED
  BY <1>2, <1>3, <1>4

LEMMA UsesStep ==
  ASSUME Base, NEW s \in Process, ProcessStep(s), AccountsTypeOK', NEW k, Touches(s, k)
  PROVE  UsesRecords(s)'
<1>0. UsesRecords(s)
  BY DEF Base, RecordsExist, UsesRecords
<1>1. /\ Len(passfile) \in Nat /\ Len(passfile') \in Nat /\ Len(passfile) <= Len(passfile')
      /\ DOMAIN passfile \subseteq DOMAIN passfile'
      /\ DOMAIN passfile = 1..Len(passfile) /\ DOMAIN passfile' = 1..Len(passfile')
  BY BaseFacts, FileGrows DEF Touches
<1>2. /\ reload'[s].step \in Running => reload'[s].at \in 1..(Len(passfile') + 1)
      /\ reload'[s].step = "fill" => reload'[s].at \in DOMAIN passfile'
  <2>1. CASE ReloadStart(s)
    BY <1>0, <1>1, <2>1, ReloadMoves DEF UsesRecords
  <2>2. CASE ReloadRead(s)
    BY <1>0, <1>1, <2>2, ReloadMoves DEF UsesRecords, Running
  <2>3. CASE ReloadFill(s)
    BY <1>0, <1>1, <2>3, ReloadMoves DEF UsesRecords, Running
  <2>4. CASE ReloadEnd(s)
    BY <1>0, <1>1, <2>4, ReloadMoves DEF UsesRecords, Running
  <2>5. CASE ~ReloadSteps(s)
    BY <2>5, ReloadMoves DEF Running
  <2> QED
    BY <2>1, <2>2, <2>3, <2>4, <2>5 DEF ReloadSteps
<1> DEFINE Same == /\ id'[s] = id[s] /\ usernum'[s] = usernum[s]
                   /\ stage'[s] \in OnLine => stage[s] \in OnLine
                   /\ stage'[s] \in Holding \cup {"kill"} => stage[s] \in Holding \cup {"kill"}
                   /\ stage'[s] = "clean" => stage[s] = "clean"
           Good == /\ stage'[s] \in OnLine => usernum'[s] \in DOMAIN passfile'
                   /\ stage'[s] \in Holding \cup {"kill"} => id'[s] \in DOMAIN passfile'
                   /\ stage'[s] = "clean" => id'[s] \in 1..(Len(passfile') + 1)
<1>3. Same => Good
  BY <1>0, <1>1 DEF UsesRecords
<1> USE DEF OnLine, Holding, Dialogue
<1>4. ASSUME ReloadSteps(s)
      PROVE  Good
  BY <1>3, <1>4, PlainMoves DEF ReloadSteps, StaysSame
<1>5. ASSUME SetSafeRecord(s) \/ WriteBack(s) \/ InfoRenew(s) \/ EndDialogue(s) \/ XLevel(s)
        \/ EditRenew(s) \/ RenameListed(s) \/ RenameWrite(s)
      PROVE  Good
  BY <1>3, <1>5, PlainMoves DEF StaysSame, Moves
<1>6. ASSUME DUserListed(s) \/ CleanEnd(s) \/ Lock(s) \/ NewListed(s)
             \/ Create(s) \/ CreateListed(s)
      PROVE  Good
  BY <1>3, <1>6, PlainMoves DEF StaysSame, Moves
<1>7. ASSUME AbortBbs(s) \/ Offline(s)
      PROVE  Good
  BY <1>7, OtherMoves DEF Moves
<1>8. ASSUME UserDefine(s) \/ Info(s) \/ DUser(s) \/ ThesisMode(s)
      PROVE  Good
  BY <1>0, <1>1, <1>8, OtherMoves DEF Moves, KeepsName, UsesRecords
<1>9. ASSUME CleanStart(s) \/ CleanRead(s) \/ CleanKill(s)
      PROVE  Good
  <2>1. 1 \in 1..(Len(passfile') + 1)
    BY <1>1
  <2> QED
    BY <1>0, <1>1, <1>9, <2>1, OtherMoves DEF Moves, UsesRecords
<1>10. ASSUME NewRecord(s)
      PROVE  Good
  BY <1>10, NewTypes, OtherMoves DEF NewStarted, NoneStarted
<1>11. ASSUME Recheck(s)
      PROVE  Good
  BY <1>1, <1>11, OtherMoves
<1>12. ASSUME NEW n \in role.types[s],
              Login(s, n) \/ Check(s, n) \/ RenameCheck(s, n)
       PROVE  Good
  BY <1>0, <1>1, <1>12, NameMoves DEF Moves, KeepsName, KeepsCopy, UsesRecords
<1>13. ASSUME NEW n \in role.types[s], NEW c, NEW l \in {"level", "delete", "edit", "rename",
              "dialogue"},
              Consult(s, n, c, l)
       PROVE  Good
  <2> DEFINE i == SearchUser(n)
  <2>1. Moves(s, "on", l) /\ KeepsName(s) /\ i \in DOMAIN passfile /\ id'[s] = i
    BY <1>13, NameMoves
  <2> HIDE DEF i
  <2> QED
    BY <1>0, <1>1, <1>13, <2>1 DEF Moves, KeepsName, UsesRecords
<1>14. Good
  BY <1>4, <1>5, <1>6, <1>7, <1>8, <1>9, <1>10, <1>11, <1>12, <1>13
     DEF ProcessStep, ReloadSteps
<1> QED
  BY <1>2, <1>14 DEF UsesRecords

LEMMA FilesStep ==
  ASSUME Base, NEW s \in Process, ProcessStep(s)
  PROVE  /\ role' = role /\ now' = now
         /\ ~ReloadEnd(s) => uptime' = uptime
         /\ ~CleanEnd(s) => flush' = flush
         /\ CleanEnd(s) => flush' = flush + 1
         /\ ~CleanStart(s) => killuser' = killuser
         /\ CleanStart(s) => ~killuser'
         /\ ~Lock(s) /\ ~NewRecord(s) /\ ~NewListed(s) => flocked' = flocked
         /\ Lock(s) => flocked = {} /\ flocked' = {s}
         /\ NewListed(s) => flocked' = flocked \ {s}
         /\ ~ListSteps(s) => \A q \in Process \ {s} : reload'[q] = reload[q]
<1>0. reload \in [Process -> Reloading]
  BY DEF Base, AccountsTypeOK
<1> DEFINE Same == /\ role' = role /\ now' = now /\ flush' = flush /\ uptime' = uptime
                   /\ killuser' = killuser /\ flocked' = flocked
           Rest == \A q \in Process \ {s} : reload'[q] = reload[q]
<1> USE DEF shm, file
<1>1. Rewrites(s) => Same /\ Rest
  BY <1>0 DEF Rewrites, WriteBack, Offline, EndDialogue, XLevel, ThesisMode, Looked
<1>2. DUser(s) \/ RenameWrite(s) \/ Create(s) \/ CleanKill(s) \/ ReloadFill(s) => Same /\ Rest
  BY <1>0 DEF DUser, RenameWrite, Create, CleanKill, ReloadFill
<1>3. DUserListed(s) \/ RenameListed(s) \/ CreateListed(s) => Same
  BY DEF DUserListed, RenameListed, CreateListed
<1>4. ReloadStart(s) \/ ReloadRead(s) => Same /\ Rest
  BY <1>0 DEF ReloadStart, ReloadRead
<1>5. AbortBbs(s) \/ SetSafeRecord(s) \/ UserDefine(s) \/ Info(s) \/ InfoRenew(s) \/ EditRenew(s)
        => Same /\ Rest
  BY <1>0 DEF AbortBbs, SetSafeRecord, UserDefine, Info, InfoRenew, EditRenew, Looked
<1>6. CleanRead(s) \/ Recheck(s) => Same /\ Rest
  BY <1>0 DEF CleanRead, Recheck, Looked
<1>7. ASSUME NEW n, NEW c, NEW l, Login(s, n) \/ Check(s, n) \/ RenameCheck(s,
             n) \/ Consult(s, n, c, l)
      PROVE Same /\ Rest
  BY <1>0, <1>7 DEF Login, Check, RenameCheck, Consult, Looked
<1>8. ReloadEnd(s) => /\ role' = role /\ now' = now /\ flush' = flush
                      /\ killuser' = killuser /\ flocked' = flocked /\ Rest
  BY <1>0 DEF ReloadEnd
<1>9. CleanEnd(s) => /\ role' = role /\ now' = now /\ flush' = flush + 1 /\ uptime' = uptime
                     /\ killuser' = killuser /\ flocked' = flocked /\ Rest
  BY <1>0 DEF CleanEnd, Touched
<1>10. CleanStart(s) => /\ role' = role /\ now' = now /\ flush' = flush /\ uptime' = uptime
                        /\ ~killuser' /\ flocked' = flocked /\ Rest
  BY <1>0 DEF CleanStart
<1>11. Lock(s) => /\ role' = role /\ now' = now /\ flush' = flush /\ uptime' = uptime
                  /\ killuser' = killuser /\ flocked = {} /\ flocked' = {s} /\ Rest
  BY <1>0 DEF Lock
<1>12. NewListed(s) => /\ role' = role /\ now' = now /\ flush' = flush /\ uptime' = uptime
                       /\ killuser' = killuser /\ flocked' = flocked \ {s}
  BY DEF NewListed
<1>13. NewRecord(s) => /\ role' = role /\ now' = now /\ flush' = flush /\ uptime' = uptime
                       /\ killuser' = killuser /\ Rest
  BY <1>0 DEF NewRecord, Looked
<1>14. \/ ReloadEnd(s) \/ CleanEnd(s) \/ CleanStart(s) \/ Lock(s) \/ NewListed(s) \/ NewRecord(s)
       \/ DUserListed(s) \/ RenameListed(s) \/ CreateListed(s) \/ (Same /\ Rest)
  <2> HIDE DEF Same, Rest
  <2> QED
    BY <1>1, <1>2, <1>4, <1>5, <1>6, <1>7, StepKinds DEF Looks, ListSteps
<1> QED
  BY <1>3, <1>8, <1>9, <1>10, <1>11, <1>12, <1>13, <1>14 DEF ListSteps

LEMMA NamesStep ==
  ASSUME Base, NEW s \in Process, ProcessStep(s), AccountsTypeOK', NEW k, Touches(s, k)
  PROVE  NamesOfPeople'
<1> DEFINE Good(q) ==
      /\ stage[q] \in OnLine => currentuser[q].userid \in UserId
      /\ stage[q] \in Naming => want[q] \in UserId
      /\ stage[q] = "info" =>
           id[q] = usernum[q] /\ lookupuser[q].userid = currentuser[q].userid
<1>0. Good(s)
  BY DEF Base, NamesOfPeople
<1>1. ASSUME NEW q \in Process \ {s}
      PROVE  Good(q)'
  <2>1. Good(q)
    BY DEF Base, NamesOfPeople
  <2> QED
    BY <1>1, <2>1 DEF Touches, OthersStay
<1>2. ASSUME StaysSame(s), stage'[s] \in OnLine => stage[s] \in OnLine,
             stage'[s] \in Naming => stage[s] \in Naming,
             stage'[s] = "info" => stage[s] = "info"
      PROVE  Good(s)'
  BY <1>0, <1>2 DEF StaysSame
<1> USE DEF OnLine, Naming, Dialogue, Registering
<1>4. ASSUME ReloadSteps(s)
      PROVE  Good(s)'
  BY <1>2, <1>4, PlainMoves DEF ReloadSteps
<1>5. ASSUME SetSafeRecord(s) \/ WriteBack(s) \/ InfoRenew(s) \/ EndDialogue(s) \/ XLevel(s)
        \/ EditRenew(s) \/ RenameListed(s) \/ RenameWrite(s)
      PROVE  Good(s)'
  BY <1>2, <1>5, PlainMoves DEF Moves
<1>6. ASSUME DUserListed(s) \/ CleanEnd(s) \/ Lock(s) \/ NewListed(s)
             \/ Create(s) \/ CreateListed(s)
      PROVE  Good(s)'
  BY <1>2, <1>6, PlainMoves DEF Moves
<1>7. ASSUME AbortBbs(s) \/ Offline(s)
      PROVE  Good(s)'
  BY <1>7, OtherMoves DEF Moves
<1>8. ASSUME UserDefine(s) \/ Info(s) \/ DUser(s) \/ ThesisMode(s)
      PROVE  Good(s)'
  BY <1>0, <1>8, OtherMoves DEF Moves, KeepsName
<1>9. ASSUME CleanStart(s) \/ CleanRead(s) \/ CleanKill(s) \/ NewRecord(s)
      PROVE  Good(s)'
  BY <1>0, <1>9, OtherMoves DEF Moves
<1>11. ASSUME Recheck(s)
       PROVE  Good(s)'
  BY <1>0, <1>11, OtherMoves
<1>12. ASSUME NEW n \in role.types[s],
              Login(s, n) \/ Check(s, n) \/ RenameCheck(s, n)
       PROVE  Good(s)'
  BY <1>0, <1>12, NameMoves DEF Moves, KeepsName, KeepsCopy
<1>13. ASSUME NEW n \in role.types[s], NEW c, NEW l \in {"level", "delete", "edit", "rename",
              "dialogue"},
              Consult(s, n, c, l)
       PROVE  Good(s)'
  <2>1. Moves(s, "on", l) /\ KeepsName(s)
    BY <1>13, NameMoves
  <2> QED
    BY <1>0, <1>13, <2>1 DEF Moves, KeepsName
<1>14. Good(s)'
  <2> HIDE DEF Good
  <2> QED
    BY <1>4, <1>5, <1>6, <1>7, <1>8, <1>9, <1>11, <1>12, <1>13
       DEF ProcessStep, ReloadSteps
<1> QED
  BY <1>1, <1>14 DEF NamesOfPeople

(* Which steps reach, and which leave, the stages that others look at.       *)
LEMMA StageMoves ==
  ASSUME Base, NEW s \in Process, ProcessStep(s), AccountsTypeOK'
  PROVE  /\ stage'[s] = "search" => Lock(s) \/ (ReloadSteps(s) /\ stage[s] = "search")
         /\ stage'[s] = "took" => NewRecord(s) \/ (ReloadSteps(s) /\ stage[s] = "took")
         /\ stage[s] = "took" => NewListed(s) \/ ReloadSteps(s)
         /\ stage[s] = "search" => NewRecord(s) \/ ReloadSteps(s)
         /\ stage[s] = "lock" => Lock(s) \/ ReloadSteps(s)
         /\ Purging(s)' => CleanStart(s) \/ Purging(s)
         /\ Purging(s) => CleanRead(s) \/ CleanKill(s) \/ CleanEnd(s) \/ ReloadSteps(s)
<1>4. ReloadSteps(s) => stage'[s] = stage[s]
  BY PlainMoves DEF ReloadSteps
<1>5. SetSafeRecord(s) \/ WriteBack(s) \/ InfoRenew(s) \/ EndDialogue(s) \/ XLevel(s)
        \/ EditRenew(s) \/ RenameListed(s) \/ RenameWrite(s) \/ DUserListed(s) =>
        /\ stage[s] \notin {"took", "search", "lock", "clean", "kill"}
        /\ stage'[s] \notin {"took", "search", "lock", "clean", "kill"}
  BY PlainMoves DEF Moves
<1>6. /\ CleanEnd(s) => Moves(s, "clean", "lock")
      /\ Lock(s) => Moves(s, "lock", "search")
      /\ NewListed(s) => Moves(s, "took", "password")
      /\ Create(s) => Moves(s, "password", "created")
      /\ CreateListed(s) => Moves(s, "created", "recheck")
  BY PlainMoves
<1>7. AbortBbs(s) \/ Offline(s) \/ UserDefine(s) \/ Info(s) \/ DUser(s)
      \/ ThesisMode(s) \/ Recheck(s) =>
        /\ stage[s] \notin {"took", "search", "lock", "clean", "kill"}
        /\ stage'[s] \notin {"took", "search", "lock", "clean", "kill"}
  <2>1. AbortBbs(s) => stage[s] \in {"on", "safe", "dialogue", "password"}
    BY DEF AbortBbs
  <2> QED
    BY <2>1, OtherMoves DEF Moves
<1>9. /\ CleanStart(s) => stage[s] = "checked" /\ stage'[s] \in {"clean", "lock"}
      /\ CleanRead(s) => stage[s] = "clean" /\ stage'[s] \in {"clean", "kill"}
      /\ CleanKill(s) => stage[s] = "kill" /\ stage'[s] = "clean"
      /\ NewRecord(s) => stage[s] = "search" /\ stage'[s] \in {"took", "gone"}
  BY OtherMoves DEF Moves
<1>12. ASSUME NEW n \in role.types[s],
              Login(s, n) \/ Check(s, n) \/ RenameCheck(s, n)
       PROVE  /\ stage[s] \notin {"took", "search", "lock", "clean", "kill"}
              /\ stage'[s] \notin {"took", "search", "lock", "clean", "kill"}
  BY <1>12, NameMoves DEF Moves
<1>13. ASSUME NEW n \in role.types[s], NEW c, NEW l \in {"level", "delete", "edit", "rename",
              "dialogue"},
              Consult(s, n, c, l)
       PROVE  /\ stage[s] \notin {"took", "search", "lock", "clean", "kill"}
              /\ stage'[s] \notin {"took", "search", "lock", "clean", "kill"}
  <2>1. Moves(s, "on", l)
    BY <1>13, NameMoves
  <2> QED
    BY <1>13, <2>1 DEF Moves
<1>14. \/ ReloadSteps(s) /\ stage'[s] = stage[s]
       \/ CleanEnd(s) \/ Lock(s) \/ NewListed(s) \/ Create(s) \/ CreateListed(s)
       \/ CleanStart(s) \/ CleanRead(s) \/ CleanKill(s) \/ NewRecord(s)
       \/ /\ stage[s] \notin {"took", "search", "lock", "clean", "kill"}
          /\ stage'[s] \notin {"took", "search", "lock", "clean", "kill"}
  BY <1>4, <1>5, <1>7, <1>12, <1>13 DEF ProcessStep, ReloadSteps
<1> QED
  BY <1>6, <1>9, <1>14 DEF Moves, Purging

LEMMA FlockStep ==
  ASSUME Base, NEW s \in Process, ProcessStep(s), AccountsTypeOK', NEW k, Touches(s, k)
  PROVE  FlockHeld'
<1>0. FlockHeld
  BY DEF Base
<1>1. \A q \in Process \ {s} : stage'[q] = stage[q]
  BY DEF Touches, OthersStay
<1>2. CASE Lock(s)
  BY <1>0, <1>1, <1>2, FilesStep DEF FlockHeld
<1>3. CASE NewRecord(s)
  BY <1>0, <1>1, <1>3, NewTypes, OtherMoves DEF FlockHeld, NewStarted, NoneStarted
<1>4. CASE NewListed(s)
  <2>1. stage[s] = "took" /\ stage'[s] = "password"
    BY <1>4, PlainMoves DEF Moves
  <2> QED
    BY <1>0, <1>1, <1>4, <2>1, FilesStep DEF FlockHeld
<1>5. CASE ~Lock(s) /\ ~NewRecord(s) /\ ~NewListed(s)
  <2>1. flocked' = flocked
    BY <1>5, FilesStep
  <2>2. stage'[s] \in {"search", "took"} => stage[s] \in {"search", "took"}
    BY <1>5, StageMoves
  <2> QED
    BY <1>0, <1>1, <2>1, <2>2 DEF FlockHeld
<1> QED
  BY <1>2, <1>3, <1>4, <1>5

LEMMA PurgeStep ==
  ASSUME Base, NEW s \in Process, ProcessStep(s), AccountsTypeOK', NEW k, Touches(s, k)
  PROVE  PurgeAlone'
<1>0. PurgeAlone
  BY DEF Base
<1>1. \A q \in Process \ {s} : stage'[q] = stage[q] /\ reload'[q].step = reload[q].step
  BY DEF Touches, OthersStay
<1>2. CASE killuser
  <2>1. uptime = flush /\ \A q \in Process : reload[q].step = "none" /\ ~Purging(q)
    BY <1>0, <1>2 DEF PurgeAlone
  <2>2. ~ReloadSteps(s) /\ ~CleanEnd(s)
    BY <2>1, ReloadMoves, StageMoves, PlainMoves DEF ReloadSteps, Purging, Moves
  <2>3. uptime' = uptime /\ flush' = flush
    BY <2>2, FilesStep DEF ReloadSteps
  <2>4. \A q \in Process : reload'[q].step = "none"
    BY <1>1, <2>1, <2>2, ReloadMoves
  <2>5. \A q \in Process \ {s} : ~Purging(q)'
    BY <1>1, <2>1 DEF Purging
  <2>6. CASE CleanStart(s)
    BY <2>1, <2>3, <2>4, <2>5, <2>6, FilesStep DEF PurgeAlone
  <2>7. CASE ~CleanStart(s)
    <3>1. ~Purging(s)'
      BY <2>1, <2>7, StageMoves
    <3> QED
      BY <2>1, <2>3, <2>4, <2>5, <3>1 DEF PurgeAlone
  <2> QED
    BY <2>6, <2>7
<1>3. CASE ~killuser /\ \E p \in Process : Purging(p)
  <2>1. PICK p \in Process : Purging(p)
    BY <1>3
  <2>2. uptime = flush /\ \A q \in Process : reload[q].step = "none" /\ (Purging(q) => q = p)
    BY <1>0, <2>1 DEF PurgeAlone
  <2>3. ~ReloadSteps(s)
    BY <2>2, ReloadMoves DEF ReloadSteps
  <2>4. \A q \in Process : reload'[q].step = "none"
    BY <1>1, <2>2, <2>3, ReloadMoves
  <2>5. ~killuser' /\ uptime' = uptime
    BY <1>3, <2>3, FilesStep DEF ReloadSteps
  <2>6. CASE CleanEnd(s)
    <3>1. Purging(s) /\ ~Purging(s)'
      BY <2>6, PlainMoves DEF Moves, Purging
    <3>2. \A q \in Process : ~Purging(q)'
      BY <1>1, <2>2, <3>1 DEF Purging
    <3> QED
      BY <2>5, <3>2 DEF PurgeAlone
  <2>7. CASE ~CleanEnd(s)
    <3>1. flush' = flush
      BY <2>7, FilesStep
    <3>2. CASE CleanStart(s)
      <4>1. ~Purging(s)' /\ ~Purging(s)
        BY <1>3, <3>2, OtherMoves DEF Purging
      <4>2. \A q \in Process : Purging(q)' => q = p
        BY <1>1, <2>2, <4>1 DEF Purging
      <4> QED
        BY <2>2, <2>4, <2>5, <3>1, <4>2 DEF PurgeAlone
    <3>3. CASE ~CleanStart(s)
      <4>1. Purging(s)' => Purging(s)
        BY <3>3, StageMoves
      <4>2. \A q \in Process : Purging(q)' => q = p
        BY <1>1, <2>2, <4>1 DEF Purging
      <4> QED
        BY <2>2, <2>4, <2>5, <3>1, <4>2 DEF PurgeAlone
    <3> QED
      BY <3>2, <3>3
  <2> QED
    BY <2>6, <2>7
<1>4. CASE ~killuser /\ \A p \in Process : ~Purging(p)
  <2>1. ~killuser'
    BY <1>4, FilesStep
  <2>2. ~Purging(s)'
    <3>1. CleanStart(s) => stage'[s] = "lock"
      BY <1>4, OtherMoves
    <3> QED
      BY <1>4, <3>1, StageMoves DEF Purging
  <2>3. \A p \in Process : ~Purging(p)'
    BY <1>1, <1>4, <2>2 DEF Purging
  <2> QED
    BY <2>1, <2>3 DEF PurgeAlone
<1> QED
  BY <1>2, <1>3, <1>4

LEMMA TimesStep ==
  ASSUME Base, NEW s \in Process, ProcessStep(s), AccountsTypeOK', NEW k, Touches(s, k)
  PROVE  ReloadTimes'
<1>0. ReloadTimes /\ PurgeAlone
  BY DEF Base
<1>1. \A q \in Process \ {s} : /\ stage'[q] = stage[q] /\ reload'[q].step = reload[q].step
                               /\ reload'[q].ftime = reload[q].ftime
  BY DEF Touches, OthersStay
<1>2. CASE CleanEnd(s)
  <2>1. Purging(s) /\ stage'[s] = "lock"
    BY <1>2, PlainMoves DEF Moves, Purging
  <2>2. \A q \in Process : reload[q].step = "none"
    BY <1>0, <2>1 DEF PurgeAlone
  <2>3. ~ReloadSteps(s)
    BY <2>1, <2>2, ReloadMoves, PlainMoves DEF ReloadSteps, Purging
  <2>4. \A q \in Process : reload'[q].step = "none"
    BY <1>1, <2>2, <2>3, ReloadMoves
  <2> QED
    BY <2>1, <2>4 DEF ReloadTimes, Running
<1>3. CASE ReloadEnd(s)
  <2>1. uptime' = flush /\ flush' = flush /\ reload'[s].step = "done"
    <3>1. ~CleanEnd(s)
      BY <1>3, ReloadMoves, PlainMoves DEF Moves, ReloadEnd, Base, ReloadTimes, Running
    <3> QED
      BY <1>3, <3>1, FilesStep, ReloadMoves
  <2> QED
    BY <1>0, <1>1, <2>1 DEF ReloadTimes, Running
<1>4. CASE ~CleanEnd(s) /\ ~ReloadEnd(s)
  <2>1. uptime' = uptime /\ flush' = flush
    BY <1>4, FilesStep
  <2>2. uptime # flush => \E x \in Process : stage'[x] \in {"lock", "search"}
    <3>1. SUFFICES ASSUME uptime # flush
                   PROVE  \E x \in Process : stage'[x] \in {"lock", "search"}
      OBVIOUS
    <3>2. PICK x \in Process : stage[x] \in {"lock", "search"}
      BY <1>0, <3>1 DEF ReloadTimes
    <3>3. CASE x # s
      BY <1>1, <3>2, <3>3
    <3>4. CASE x = s
      <4>1. ~NewRecord(s)
        <5>1. uptime \in Nat /\ flush \in Nat /\ uptime <= flush
          BY DEF Base, AccountsTypeOK
        <5> QED
          BY <1>0, <3>1, <5>1 DEF NewRecord, Looked, Resolved, ReloadTimes
      <4>2. stage'[s] \in {"lock", "search"}
        BY <3>2, <3>4, <4>1, StageMoves, PlainMoves DEF Moves, ReloadSteps
      <4> QED
        BY <4>2
    <3> QED
      BY <3>3, <3>4
  <2>3. /\ reload'[s].step = "done" => uptime = flush
        /\ reload'[s].step \in Running =>
             /\ reload'[s].ftime = flush
             /\ stage'[s] \in {"out", "on", "search", "recheck", "rename"}
    BY <1>0, <1>4, ReloadMoves, PlainMoves DEF ReloadSteps, ReloadTimes, Running
  <2> QED
    BY <1>0, <1>1, <2>1, <2>2, <2>3 DEF ReloadTimes
<1> QED
  BY <1>2, <1>3, <1>4

LEMMA CountedStep ==
  ASSUME Base, NEW s \in Process, ProcessStep(s), AccountsTypeOK', NEW k, Touches(s, k)
  PROVE  CountedAll'
<1> SUFFICES ASSUME NEW q \in Process, reload'[q].step = "end", ~reload'[q].crossed
             PROVE  \/ Len(passfile') < reload'[q].at
                    \/ Len(passfile') = reload'[q].at /\ Taking(reload[q].at)'
  BY DEF CountedAll
<1>0. /\ CountedAll /\ FlockHeld
      /\ \A x \in Process \ {s} : /\ stage'[x] = stage[x] /\ id'[x] = id[x]
                                  /\ reload'[x].step = reload[x].step
                                  /\ reload'[x].at = reload[x].at
                                  /\ (reload[x].crossed => reload'[x].crossed)
  BY DEF Base, Touches, OthersStay
<1>1. Len(passfile) \in Nat /\ Len(passfile') \in Nat
  BY BaseFacts, FileGrows
<1>2. CASE q = s
  <2>1. ReloadRead(s)
    BY <1>2, ReloadMoves DEF ReloadSteps
  <2>2. reload'[s].at = reload[s].at /\ reload[s].at > Len(passfile)
    BY <1>2, <2>1, ReloadMoves
  <2>3. passfile' = passfile
    BY <2>1 DEF ReloadRead, file
  <2> QED
    BY <1>1, <1>2, <2>2, <2>3
<1>3. CASE q # s
  <2>0. reload[q].at \in Nat
    BY Reloads DEF Base, AccountsTypeOK
  <2>5. PICK n \in Nat : n = reload[q].at
    BY <2>0
  <2>1. reload'[q].at = n /\ reload[q].step = "end" /\ ~reload[q].crossed /\ n \in Nat
    BY <1>0, <1>3, <2>5, Reloads
  <2>2. Len(passfile) < n \/ (Len(passfile) = n /\ Taking(n))
    BY <1>0, <2>1, <2>5 DEF CountedAll
  <2>3. CASE NewRecord(s) /\ NewStarted(s)
    <3>1. stage[s] = "search" /\ flocked = {s}
      BY <2>3, <1>0 DEF NewRecord, FlockHeld
    <3>2. ~Taking(n)
      BY <1>0, <3>1 DEF Taking, FlockHeld
    <3>3. Len(passfile) < n
      BY <2>2, <3>2
    <3>4. CASE SearchNewUser = Len(passfile) + 1
      <4>1. Len(passfile') = Len(passfile) + 1 /\ id'[s] = Len(passfile) + 1 /\ stage'[s] = "took"
        BY <2>3, <3>4 DEF NewStarted
      <4>2. CASE Len(passfile) + 1 < n
        BY <1>1, <2>1, <4>1, <4>2
      <4>3. CASE Len(passfile) + 1 = n
        BY <1>1, <2>1, <4>1, <4>3 DEF Taking
      <4> QED
        BY <1>1, <2>1, <3>3, <4>2, <4>3
    <3>5. CASE SearchNewUser # Len(passfile) + 1
      BY <2>1, <2>3, <3>3, <3>5 DEF NewStarted
    <3> QED
      BY <3>4, <3>5
  <2>4. CASE ~(NewRecord(s) /\ NewStarted(s))
    <3>1. Len(passfile') = Len(passfile)
      <4>1. CASE Looks(s)
        BY <4>1 DEF Looks, ReloadStart, ReloadRead, ReloadEnd, AbortBbs, SetSafeRecord,
           UserDefine,
           Info, InfoRenew, EditRenew, CleanStart, CleanRead, CleanEnd, Lock, Recheck, Login,
           Check, RenameCheck, Consult, file
      <4>2. CASE ReloadFill(s)
        BY <4>2 DEF ReloadFill, file
      <4>3. CASE Rewrites(s) \/ DUser(s) \/ RenameWrite(s) \/ Create(s)
        <5>1. PICK rec, j : Writes(s, rec, j)
          BY <4>3, CopiesWritten DEF Rewrites
        <5> QED
          BY <5>1 DEF Writes
      <4>4. CASE CleanKill(s)
        BY <4>4, ClearTypes
      <4>5. CASE NewRecord(s)
        BY <2>4, <4>5, NewTypes DEF NoneStarted
      <4>6. CASE ListSteps(s)
        BY <4>6, NamesListed DEF ListSteps, Lists
      <4> QED
        BY <4>1, <4>2, <4>3, <4>4, <4>5, <4>6, StepKinds
    <3>2. Taking(n) => Taking(n)'
      <4>1. SUFFICES ASSUME NEW x \in Process, stage[x] = "took", id[x] = n
                     PROVE  Taking(n)'
        BY DEF Taking
      <4>2. CASE x # s
        BY <1>0, <4>1, <4>2 DEF Taking
      <4>3. CASE x = s
        <5>1. ~NewListed(s)
          <6>1. SUFFICES ASSUME NewListed(s) PROVE FALSE
            OBVIOUS
          <6>2. Lists(s, n, Newcomer)
            BY <4>1, <4>3, <6>1, NamesListed
          <6>3. Crosses(q, n)
            BY <2>1, <2>5 DEF Crosses
          <6> QED
            BY <6>2, <6>3 DEF Lists
        <5>2. stage'[s] = "took" /\ id'[s] = n
          BY <4>1, <4>3, <5>1, StageMoves, PlainMoves DEF ReloadSteps, StaysSame
        <5> QED
          BY <5>2 DEF Taking
      <4> QED
        BY <4>2, <4>3
    <3> QED
      BY <2>1, <2>2, <3>1, <3>2 DEF Taking
  <2> QED
    BY <2>3, <2>4
<1> QED
  BY <1>2, <1>3

LEMMA TickStep ==
  ASSUME Base, Tick
  PROVE  /\ Base' /\ UNCHANGED <<shm, passfile, flush, flocked, role, stage, currentuser, usernum,
                                 lookupuser, id, want, history>>
         /\ uptime = flush
         /\ \A s \in Process : reload'[s] = NoReload /\ stage[s] \notin Mid
         /\ \A s \in Process : stage[s] \in Waiting
<1> USE DEF Base
<1>1. /\ UNCHANGED <<shm, passfile, flush, flocked, role, stage, currentuser, usernum,
                     lookupuser, id, want, history>>
      /\ reload' = [s \in Process |-> NoReload]
      /\ \A s \in Process : stage[s] \in Waiting /\ Free(s)
  BY DEF Tick
<1>2. \A s \in Process : stage[s] \notin {"lock", "search", "clean", "kill", "took", "created",
                                          "deleted", "renamed"}
  BY DEF Tick, Waiting, Dialogue
<1>3. uptime = flush
  BY <1>2 DEF ReloadTimes
<1>4. \A s \in Process : reload'[s] = NoReload
  BY <1>1
<1>5. now' \in 1..MaxTime /\ killuser' = TRUE
  <2>1. role.until \in 1..MaxTime /\ MaxTime \in Nat
    BY AccountsAssumption, RolesAssumption DEF AccountsTypeOK
  <2> QED
    BY <2>1 DEF Tick, AccountsTypeOK
<1>6. AccountsTypeOK'
  <2>1. reload' \in [Process -> Reloading]
    BY <1>1, Reloads
  <2> QED
    BY <1>1, <1>5, <2>1 DEF AccountsTypeOK, shm, history
<1>7. RecordsExist'
  BY <1>1, <1>4, Reloads DEF RecordsExist, shm, Running
<1>8. NamesOfPeople' /\ FlockHeld'
  BY <1>1 DEF NamesOfPeople, FlockHeld
<1>9. PurgeAlone'
  BY <1>1, <1>2, <1>3, <1>4, Reloads DEF PurgeAlone, Purging, shm
<1>10. ReloadTimes'
  BY <1>1, <1>3, <1>4, Reloads DEF ReloadTimes, Running, shm
<1>11. CountedAll'
  BY <1>4, Reloads DEF CountedAll
<1> QED
  BY <1>1, <1>2, <1>3, <1>4, <1>6, <1>7, <1>8, <1>9, <1>10, <1>11 DEF Mid

LEMMA BaseInit == AccountsInit => Base
<1> SUFFICES ASSUME AccountsInit PROVE Base
  OBVIOUS
<1>0. MaxUsers \in Nat \ {0} /\ MaxTime \in Nat \ {0} /\ InitFile \in Seq(Userec)
      /\ Len(InitFile) <= MaxUsers /\ Len(InitFile) \in Nat /\ Nobody \in Name
      /\ \A i \in 1..Len(InitFile) : InitFile[i].userid \in UserId
      /\ DOMAIN InitFile = 1..Len(InitFile)
  BY AccountsAssumption, FileAssumption, LenProperties DEF Name
<1>1. \A s \in Process : reload[s] = NoReload /\ stage[s] = "out"
  BY DEF AccountsInit
<1>2. AccountsTypeOK
  <2>1. userid \in [Uid -> Name]
    BY <1>0 DEF AccountsInit, Name, Uid
  <2>2. number \in 0..MaxUsers /\ now \in 1..MaxTime /\ 0 \in 0..MaxUsers /\ 0 \in 0..(MaxUsers + 1)
        /\ killuser \in BOOLEAN /\ uptime \in Nat /\ flush \in Nat /\ uptime <= flush
    BY <1>0 DEF AccountsInit
  <2>3. reload \in [Process -> Reloading]
    BY Reloads DEF AccountsInit
  <2> QED
    BY <1>0, <2>1, <2>2, <2>3, UserRecords DEF AccountsInit, AccountsTypeOK
<1>3. RecordsExist
  BY <1>0, <1>1, Reloads DEF AccountsInit, RecordsExist, OnLine, Dialogue, Holding, Running
<1>4. NamesOfPeople
  BY <1>1 DEF NamesOfPeople, OnLine, Dialogue, Naming, Registering
<1>5. FlockHeld
  BY <1>1 DEF FlockHeld
<1>6. PurgeAlone
  BY <1>1, Reloads DEF AccountsInit, PurgeAlone, Purging
<1>7. ReloadTimes
  BY <1>1, Reloads DEF AccountsInit, ReloadTimes, Running
<1>8. CountedAll
  BY <1>1, Reloads DEF CountedAll
<1> QED
  BY <1>2, <1>3, <1>4, <1>5, <1>6, <1>7, <1>8 DEF Base

LEMMA BaseStep ==
  ASSUME Base, NEW s \in Process, ProcessStep(s)
  PROVE  Base'
<1>1. AccountsTypeOK'
  BY StepTypes
<1>2. PICK k \in 0..MaxUsers : Touches(s, k)
  BY StepTypes
<1> QED
  BY <1>1, <1>2, UsesStep, NumberStep, UsesKept, NamesStep, FlockStep, PurgeStep, TimesStep,
     CountedStep DEF Base

(* Every state is of the right type, whatever the accounts and the roles.     *)
THEOREM AccountsTypeCorrect == AccountsSpec => []AccountsTypeOK
<1>1. Base /\ [AccountsNext]_accountVars => Base'
  <2>1. Base /\ UNCHANGED accountVars => Base'
    BY DEF Base, AccountsTypeOK, RecordsExist, NamesOfPeople, FlockHeld, PurgeAlone,
       ReloadTimes, CountedAll, Purging, Taking, accountVars, shm, file, history
  <2> QED
    BY <2>1, TickStep, BaseStep DEF AccountsNext
<1>2. Base => AccountsTypeOK
  BY DEF Base
<1> QED
  BY <1>1, <1>2, BaseInit, PTL DEF AccountsSpec

-----------------------------------------------------------------------------
(* Who owns the records.                                                     *)
(* Copies, registrations and free entries agree with the records.             *)
Owners == OwnCopies /\ OwnRegistration /\ FreeEntries

(* s takes record i away, gives it a name, or starts a registration in it.    *)
Remakes(s, i) ==
  \/ (DUser(s) \/ RenameWrite(s) \/ Create(s) \/ CleanKill(s)) /\ id[s] = i
  \/ NewRecord(s) /\ NewStarted(s) /\ SearchNewUser = i

(* Whoever used the record before knows nothing of it any more.              *)
Fresh(s, i) ==
  /\ \A q \in Process \ lost' : stage'[q] \in OnLine => usernum'[q] # i
  /\ \A q \in Process \ {s} : stage'[q] \in Holding /\ id'[q] = i =>
       /\ q \in lost'
       /\ stage'[q] \in {"took", "deleted"} => passfile'[i].userid = Nobody
  /\ id'[s] = i =>
       /\ stage'[s] \in Dialogue =>
            /\ stage'[s] = "deleted" /\ lookupuser'[s].userid = Nobody
            /\ passfile'[i].userid = Nobody
       /\ stage'[s] = "took" => passfile'[i].userid = Newcomer
       /\ stage'[s] # "password"
       /\ stage'[s] = "created" => passfile'[i].userid = want'[s]
  /\ \/ Vacant(i)'
     \/ ~Vacant(i) /\ userid' = userid /\ number' = number /\ reload' = reload

(* Who is not lost writes a record of its own, under the name it has.         *)
LEMMA WrittenByOwner ==
  ASSUME Base, Owners, NEW s \in Process, NEW i \in DOMAIN passfile \ haunted', ~strayed',
         Rewrites(s)
  PROVE  Owner(i)' = Owner(i)
<1>0. currentuser[s] \in Userec /\ lookupuser[s] \in Userec
  BY DEF Base, AccountsTypeOK
<1>1. ASSUME NEW rec, NEW k, Writes(s, rec, k),
             s \notin lost /\ k \in Plain => rec.userid = Owner(k)
      PROVE  Owner(i)' = Owner(i)
  <2>1. CASE i # k
    BY <1>1, <2>1 DEF Writes, Owner
  <2>2. CASE i = k
    <3>1. s \notin lost /\ k \in Plain
      BY <1>1, <2>2 DEF Writes, Plain
    <3> QED
      BY <1>1, <2>2, <3>1 DEF Writes, Owner
  <2> QED
    BY <2>1, <2>2
<1>2. CASE WriteBack(s)
  <2>1. stage[s] \in OnLine
    BY <1>2 DEF WriteBack, OnLine
  <2> QED
    BY <1>1, <1>2, <2>1, CopiesWritten DEF Owners, OwnCopies, Sure
<1>3. CASE Offline(s)
  <2> DEFINE r == [currentuser[s] EXCEPT !.level = 0]
  <2>1. stage[s] \in OnLine
    BY <1>3 DEF Offline, OnLine
  <2>2. Writes(s, r, usernum[s])
    BY <1>3, CopiesWritten
  <2>3. r.userid = currentuser[s].userid
    BY <1>0, ChangedRecords
  <2> HIDE DEF r
  <2> QED
    BY <1>1, <2>1, <2>2, <2>3 DEF Owners, OwnCopies, Sure
<1>4. CASE EndDialogue(s)
  <2>1. stage[s] \in Dialogue
    BY <1>4 DEF EndDialogue, Dialogue
  <2> QED
    BY <1>1, <1>4, <2>1, CopiesWritten DEF Owners, OwnCopies, Sure
<1>5. CASE XLevel(s)
  <2> DEFINE r == [lookupuser[s] EXCEPT !.level = 1 - @]
  <2>1. stage[s] \in Dialogue
    BY <1>5 DEF XLevel, Dialogue
  <2>2. Writes(s, r, id[s])
    BY <1>5, CopiesWritten
  <2>3. r.userid = lookupuser[s].userid
    BY <1>0, ChangedRecords
  <2> HIDE DEF r
  <2> QED
    BY <1>1, <2>1, <2>2, <2>3 DEF Owners, OwnCopies, Sure
<1>6. CASE ThesisMode(s)
  <2> DEFINE n == SearchUser(currentuser[s].userid)
  <2>1. n # 0 /\ Writes(s, passfile[n], n)
    BY <1>6, CopiesWritten
  <2> HIDE DEF n
  <2> QED
    BY <1>1, <2>1 DEF Owner
<1> QED
  BY <1>2, <1>3, <1>4, <1>5, <1>6 DEF Rewrites

(* A step that remakes no record keeps every name that nobody lost touches.   *)
LEMMA KeptElse ==
  ASSUME Base, Owners, NEW s \in Process, ProcessStep(s), ~strayed',
         NEW i \in DOMAIN passfile' \ haunted', ~Remakes(s, i)
  PROVE  i \in DOMAIN passfile /\ Owner(i)' = Owner(i)
<1>1. CASE Looks(s)
  BY <1>1 DEF Looks, ReloadStart, ReloadRead, ReloadEnd, AbortBbs, SetSafeRecord, UserDefine,
     Info, InfoRenew, EditRenew, CleanStart, CleanRead, CleanEnd, Lock, Recheck, Login,
     Check, RenameCheck, Consult, file, Owner
<1>2. CASE ReloadFill(s) \/ ListSteps(s)
  <2>1. passfile' = passfile
    BY <1>2, NamesListed DEF ReloadFill, file, ListSteps, Lists
  <2> QED
    BY <2>1 DEF Owner
<1>3. CASE Rewrites(s)
  <2>1. DOMAIN passfile' = DOMAIN passfile
    <3>1. PICK rec, k : Writes(s, rec, k)
      BY <1>3, CopiesWritten DEF Rewrites
    <3> QED
      BY <3>1 DEF Writes
  <2> QED
    BY <1>3, <2>1, WrittenByOwner
<1>4. CASE DUser(s) \/ RenameWrite(s) \/ Create(s)
  <2>1. id[s] # i /\ \E rec : Writes(s, rec, id[s])
    BY <1>4, CopiesWritten DEF Remakes
  <2> QED
    BY <2>1 DEF Writes, Owner
<1>5. CASE CleanKill(s)
  <2>1. id[s] # i /\ Touches(s, id[s]) /\ DOMAIN passfile' = DOMAIN passfile
    BY <1>5, ClearTypes DEF Remakes
  <2> QED
    BY <2>1 DEF Touches, Owner
<1>6. CASE NewRecord(s)
  <2>1. CASE NewStarted(s) /\ Touches(s, SearchNewUser)
    <3>1. SearchNewUser # i
      BY <1>6, <2>1 DEF Remakes
    <3> QED
      BY <2>1, <3>1 DEF Touches, Owner
  <2>2. CASE NoneStarted(s)
    BY <2>2 DEF NoneStarted, Owner
  <2> QED
    BY <1>6, <2>1, <2>2, NewTypes
<1> QED
  BY <1>1, <1>2, <1>3, <1>4, <1>5, <1>6, StepKinds

LEMMA RemovedFresh ==
  ASSUME Base, Owners, NEW s \in Process, DUser(s) \/ CleanKill(s), AccountsTypeOK',
         NEW i \in DOMAIN passfile', id[s] = i
  PROVE  Fresh(s, i) /\ i \in DOMAIN passfile /\ passfile'[i].userid = Nobody
<1>0. \A q \in Process \ {s} : /\ stage'[q] = stage[q] /\ usernum'[q] = usernum[q]
                               /\ id'[q] = id[q]
                               /\ lookupuser'[q] = lookupuser[q]
  BY CopiesTypes, ClearTypes DEF Touches, OthersStay
<1>1. lost' = lost \cup Bereft(s, i)
  BY DEF DUser, CleanKill
<1>2. \A q \in Process \ {s} :
        /\ q \notin lost' /\ stage'[q] \in OnLine => usernum'[q] # i
        /\ stage'[q] \in Holding /\ id'[q] = i => q \in lost'
  BY <1>0, <1>1 DEF Bereft
<1>3. CASE DUser(s)
  <2> DEFINE r == [lookupuser[s] EXCEPT !.userid = Nobody, !.level = 0]
  <2>1. r.userid = Nobody
    BY ChangedRecords DEF Base, AccountsTypeOK
  <2>2. Writes(s, r, i)
    BY <1>3, CopiesWritten
  <2> HIDE DEF r
  <2>3. passfile'[i].userid = Nobody /\ i \in DOMAIN passfile
    BY <2>1, <2>2 DEF Writes
  <2>4. stage[s] = "delete" /\ stage'[s] = "deleted" /\ usernum'[s] = usernum[s]
        /\ lookupuser'[s].userid = Nobody
    BY <1>3, OtherMoves DEF Moves, KeepsName
  <2>5. s \notin lost' => usernum'[s] # i
    BY <1>1, <2>4 DEF Bereft, OnLine, Dialogue
  <2>6. Vacant(i)'
    BY <2>3 DEF Vacant, Owner
  <2> QED
    BY <1>2, <2>3, <2>4, <2>5, <2>6 DEF Fresh
<1>4. CASE CleanKill(s)
  <2>1. passfile'[i].userid = Nobody /\ i \in DOMAIN passfile
    BY <1>4, ClearTypes DEF Zerorec
  <2>2. stage'[s] = "clean" /\ id'[s] = i + 1 /\ i \in Nat
    BY <1>4, <2>1, OtherMoves, BaseFacts DEF Moves
  <2>3. stage'[s] \notin OnLine /\ id'[s] # i
    BY <2>2 DEF OnLine, Dialogue
  <2>4. Vacant(i)'
    BY <2>1 DEF Vacant, Owner
  <2> QED
    BY <1>2, <2>1, <2>3, <2>4 DEF Fresh
<1> QED
  BY <1>3, <1>4

(* What the invariants say of a change of name, ...                          *)
LEMMA RenameFresh ==
  ASSUME Base, Owners, NEW s \in Process, RenameWrite(s), AccountsTypeOK',
         NEW i \in DOMAIN passfile' \ haunted', id[s] = i
  PROVE  /\ Fresh(s, i) /\ i \in DOMAIN passfile /\ passfile'[i].userid = want[s]
         /\ Owner(i) = lookupuser[s].userid /\ Owner(i) \in UserId /\ want[s] \in UserId
         /\ s \notin lost /\ ~Vacant(i)
<1>0. /\ \A q \in Process \ {s} : /\ stage'[q] = stage[q] /\ usernum'[q] = usernum[q]
                                  /\ id'[q] = id[q]
                                  /\ lookupuser'[q] = lookupuser[q]
      /\ haunted \subseteq haunted'
  BY CopiesTypes DEF Touches, OthersStay
<1>1. lost' = lost \cup Bereft(s, i) /\ UNCHANGED <<userid, number, reload>>
  BY DEF RenameWrite, shm
<1>2. \A q \in Process \ {s} :
        /\ q \notin lost' /\ stage'[q] \in OnLine => usernum'[q] # i
        /\ stage'[q] \in Holding /\ id'[q] = i => q \in lost'
  BY <1>0, <1>1 DEF Bereft
<1> DEFINE r == [lookupuser[s] EXCEPT !.userid = want[s]]
<1>3. r.userid = want[s]
  <2>1. lookupuser[s] \in Userec /\ want[s] \in Name
    BY DEF Base, AccountsTypeOK
  <2> QED
    BY <2>1, ChangedRecords
<1>4. Writes(s, r, i)
  BY CopiesWritten
<1> HIDE DEF r
<1>5. passfile'[i].userid = want[s] /\ i \in DOMAIN passfile /\ s \notin lost
  BY <1>3, <1>4 DEF Writes
<1>6. stage[s] = "renamed" /\ stage'[s] = "on" /\ usernum'[s] = usernum[s]
  BY PlainMoves DEF Moves, StaysSame
<1>7. s \notin lost' => usernum'[s] # i
  BY <1>1, <1>6 DEF Bereft, OnLine, Dialogue
<1>8. Owner(i) = lookupuser[s].userid /\ Owner(i) \in UserId
  BY <1>0, <1>5, <1>6 DEF Owners, OwnCopies, Sure, Plain, Dialogue
<1>9. want[s] \in UserId
  BY <1>6 DEF Base, NamesOfPeople, Naming
<1>10. \A q \in Process : stage[q] \in {"took", "deleted"} => id[q] # i
  BY <1>0, <1>5, <1>8, BaseFacts DEF Owners, OwnRegistration, Plain
<1>11. ~Vacant(i)
  BY <1>8, <1>10, BaseFacts DEF Vacant, Taking
<1>12. stage'[s] \notin Dialogue
  BY <1>6 DEF Dialogue
<1> QED
  BY <1>0, <1>1, <1>2, <1>5, <1>6, <1>7, <1>8, <1>9, <1>10, <1>11, <1>12 DEF Fresh

(* ... of the end of a registration,                                         *)
LEMMA CreateFresh ==
  ASSUME Base, Owners, NEW s \in Process, Create(s), AccountsTypeOK',
         NEW i \in DOMAIN passfile' \ haunted', id[s] = i
  PROVE  /\ Fresh(s, i) /\ i \in DOMAIN passfile /\ passfile'[i].userid = want[s]
         /\ Owner(i) = Newcomer /\ s \notin lost /\ want[s] \in UserId /\ ~Vacant(i)
<1>0. /\ \A q \in Process \ {s} : /\ stage'[q] = stage[q] /\ usernum'[q] = usernum[q]
                                  /\ id'[q] = id[q]
                                  /\ lookupuser'[q] = lookupuser[q]
      /\ haunted \subseteq haunted' /\ lost' = lost /\ UNCHANGED <<userid, number, reload>>
  BY CopiesTypes DEF Touches, OthersStay, Create, shm
<1> DEFINE r == [userid |-> want[s], level |-> 0, lastlogin |-> now]
<1>3. r.userid = want[s]
  OBVIOUS
<1>4. Writes(s, r, i)
  BY CopiesWritten
<1> HIDE DEF r
<1>5. passfile'[i].userid = want[s] /\ i \in DOMAIN passfile /\ s \notin lost /\ i \in Plain
  BY <1>0, <1>3, <1>4 DEF Writes, Plain
<1>6. stage[s] = "password" /\ stage'[s] = "created" /\ want'[s] = want[s]
  BY PlainMoves DEF Moves, StaysSame
<1>7. stage'[s] \notin OnLine /\ stage'[s] \notin Dialogue
  BY <1>6 DEF OnLine, Dialogue
<1>8. /\ Owner(i) = Newcomer
      /\ \A x \in Process : /\ id[x] = i
                            /\ stage[x] = "took" \/ (stage[x] = "password" /\ x \notin lost)
                            => x = s
  BY <1>5, <1>6 DEF Owners, OwnRegistration
<1>9. want[s] \in UserId
  BY <1>6 DEF Base, NamesOfPeople, Naming, Registering
<1>10. ASSUME NEW q \in Process \ lost, stage[q] \in OnLine, usernum[q] = i PROVE FALSE
  <2>1. Owner(i) = currentuser[q].userid
    BY <1>5, <1>10 DEF Owners, OwnCopies, Sure
  <2>2. currentuser[q].userid \in UserId
    BY <1>10 DEF Base, NamesOfPeople
  <2> QED
    BY <1>8, <2>1, <2>2, BaseFacts
<1>11. ASSUME NEW q \in Process \ {s}, stage[q] \in Holding, id[q] = i
       PROVE  q \in lost /\ stage[q] \notin {"took", "deleted"}
  <2>1. stage[q] # "took"
    BY <1>8, <1>11
  <2>2. stage[q] # "deleted"
    BY <1>5, <1>8, <1>11, BaseFacts DEF Owners, OwnRegistration
  <2>3. CASE q \notin lost
    <3>1. stage[q] # "password"
      BY <1>8, <1>11, <2>3
    <3>2. stage[q] = "created" => want[q] = Newcomer /\ want[q] \in UserId
      BY <1>5, <1>8, <1>11, <2>3 DEF Owners, OwnRegistration, Base, NamesOfPeople, Naming,
         Registering
    <3>3. stage[q] \in Dialogue => Newcomer \in UserId
      BY <1>5, <1>8, <1>11, <2>2, <2>3 DEF Owners, OwnCopies, Sure
    <3> QED
      BY <1>11, <2>1, <3>1, <3>2, <3>3, BaseFacts DEF Holding
  <2> QED
    BY <2>1, <2>2, <2>3
<1>12. ~Vacant(i)
  BY <1>6, <1>8, BaseFacts DEF Vacant, Taking
<1>13. \A q \in Process \ lost' : stage'[q] \in OnLine => usernum'[q] # i
  BY <1>0, <1>7, <1>10
<1>14. \A q \in Process \ {s} : stage'[q] \in Holding /\ id'[q] = i =>
        q \in lost' /\ stage'[q] \notin {"took", "deleted"}
  BY <1>0, <1>11
<1> QED
  BY <1>0, <1>5, <1>6, <1>7, <1>8, <1>9, <1>12, <1>13, <1>14 DEF Fresh

(* ... and of its beginning.                                                 *)
LEMMA NewFresh ==
  ASSUME Base, Owners, NEW s \in Process, NewRecord(s), NewStarted(s), AccountsTypeOK', ~torn',
         NEW i \in DOMAIN passfile' \ haunted', SearchNewUser = i
  PROVE  /\ Fresh(s, i) /\ passfile'[i].userid = Newcomer
         /\ i \in DOMAIN passfile => Owner(i) = Nobody /\ ~Taking(i)
         /\ \A q \in Process \ {s} : q \notin lost => stage[q] \notin Holding \/ id[q] # i
         /\ \A q \in Process : stage[q] \in Mid => id[q] # i \/ (stage[q] = "created" /\ q \in lost)
<1>0. /\ Touches(s, i)
      /\ \A q \in Process \ {s} : /\ stage'[q] = stage[q] /\ usernum'[q] = usernum[q]
                                  /\ id'[q] = id[q]
                                  /\ lookupuser'[q] = lookupuser[q]
      /\ lost' = lost /\ haunted' = haunted /\ stage[s] = "search"
  <2>1. Touches(s, i) \/ NoneStarted(s)
    BY NewTypes
  <2>2. ~NoneStarted(s)
    BY DEF NoneStarted, NewStarted
  <2> QED
    BY <2>1, <2>2 DEF Touches, OthersStay, NewRecord
<1>1. /\ passfile'[i].userid = Newcomer /\ id'[s] = i /\ stage'[s] = "took"
      /\ userid[i] = Nobody \/ i = number + 1
      /\ i \in Nat
  BY BaseFacts DEF NewStarted, Uid
<1>2. \A q \in Process : stage[q] \in {"deleted", "renamed"} => id[q] # i
  BY DEF NewRecord
<1>3. \A q \in Process : stage[q] # "took"
  BY <1>0 DEF Base, FlockHeld
<1>4. i \in DOMAIN passfile => Owner(i) = Nobody /\ ~Taking(i)
  <2>1. ~Taking(i)
    BY <1>3 DEF Taking
  <2>2. i \in DOMAIN passfile => i \in Plain
    BY <1>0 DEF Plain
  <2>3. userid[i] = Nobody \/ number < i
    BY <1>1, BaseFacts
  <2> QED
    BY <2>1, <2>2, <2>3 DEF Owners, FreeEntries, Vacant
<1>5. stage'[s] \notin OnLine /\ stage'[s] \notin Dialogue
  BY <1>1 DEF OnLine, Dialogue
<1>6. ASSUME NEW q \in Process \ lost, stage[q] \in OnLine, usernum[q] = i PROVE FALSE
  <2>1. i \in DOMAIN passfile
    BY <1>6 DEF Base, RecordsExist
  <2>2. Owner(i) = currentuser[q].userid
    BY <1>0, <1>6, <2>1 DEF Owners, OwnCopies, Sure, Plain
  <2>3. currentuser[q].userid \in UserId
    BY <1>6 DEF Base, NamesOfPeople
  <2> QED
    BY <1>4, <2>1, <2>2, <2>3, BaseFacts
<1>7. ASSUME NEW q \in Process, stage[q] \in Holding, id[q] = i
      PROVE  q \in lost
  <2>1. i \in DOMAIN passfile
    BY <1>7 DEF Base, RecordsExist
  <2>2. i \in Plain /\ Owner(i) = Nobody
    BY <1>0, <1>4, <2>1 DEF Plain
  <2>3. SUFFICES ASSUME q \notin lost PROVE FALSE
    OBVIOUS
  <2>4. stage[q] # "password"
    BY <1>7, <2>2, <2>3, BaseFacts DEF Owners, OwnRegistration
  <2>5. stage[q] = "created" => want[q] = Nobody /\ want[q] \in UserId
    BY <1>7, <2>2, <2>3 DEF Owners, OwnRegistration, Base, NamesOfPeople, Naming, Registering
  <2>6. stage[q] \in Dialogue => Nobody \in UserId
    BY <1>2, <1>7, <2>2, <2>3 DEF Owners, OwnCopies, Sure
  <2> QED
    BY <1>3, <1>7, <2>4, <2>5, <2>6, BaseFacts DEF Holding
<1>8. stage[s] \notin Holding
  BY <1>0 DEF Holding, Dialogue
<1>9. Vacant(i)'
  BY <1>1 DEF Vacant, Taking
<1>10. \A q \in Process \ lost' : stage'[q] \in OnLine => usernum'[q] # i
  BY <1>0, <1>5, <1>6
<1>11. \A q \in Process \ {s} : stage'[q] \in Holding /\ id'[q] = i =>
        q \in lost' /\ stage'[q] \notin {"took", "deleted"}
  BY <1>0, <1>2, <1>3, <1>7
<1>12. \A q \in Process : stage[q] \in Mid => id[q] # i \/ (stage[q] = "created" /\ q \in lost)
  BY <1>2, <1>3, <1>7 DEF Mid, Holding
<1>13. Fresh(s, i)
  BY <1>1, <1>5, <1>9, <1>10, <1>11 DEF Fresh
<1> QED
  BY <1>1, <1>4, <1>7, <1>12, <1>13

LEMMA RemakesFresh ==
  ASSUME Base, Owners, NEW s \in Process, AccountsTypeOK', ~torn',
         NEW i \in DOMAIN passfile' \ haunted', Remakes(s, i)
  PROVE  Fresh(s, i)
BY RemovedFresh, RenameFresh, CreateFresh, NewFresh DEF Remakes

(* The copies that a step leaves in the session that takes it.               *)
LEMMA CopiesOwn ==
  ASSUME Base, Owners, NEW s \in Process, ProcessStep(s), AccountsTypeOK', s \notin lost',
         s \notin lost,
         NEW i \in Plain, i \notin haunted', ~Remakes(s, i), Owner(i)' = Owner(i)
  PROVE  /\ stage'[s] \in OnLine /\ usernum'[s] = i => Owner(i) = currentuser'[s].userid
         /\ stage'[s] \in Dialogue /\ id'[s] = i =>
              /\ Owner(i) = lookupuser'[s].userid
              /\ stage'[s] # "deleted" => lookupuser'[s].userid \in UserId
<1> DEFINE Good == /\ stage'[s] \in OnLine /\ usernum'[s] = i => Owner(i) = currentuser'[s].userid
                   /\ stage'[s] \in Dialogue /\ id'[s] = i =>
                        /\ Owner(i) = lookupuser'[s].userid
                        /\ stage'[s] # "deleted" => lookupuser'[s].userid \in UserId
<1>0. /\ stage[s] \in OnLine /\ usernum[s] = i => Owner(i) = currentuser[s].userid
      /\ stage[s] \in Dialogue /\ id[s] = i =>
           /\ Owner(i) = lookupuser[s].userid
           /\ stage[s] # "deleted" => lookupuser[s].userid \in UserId
  BY DEF Owners, OwnCopies, Sure
<1>3. ASSUME StaysSame(s), stage'[s] \in OnLine => stage[s] \in OnLine,
             stage'[s] \in Dialogue => stage[s] \in Dialogue,
             stage[s] = "deleted" => stage'[s] = "deleted" \/ stage'[s] \notin Dialogue
      PROVE  Good
  BY <1>0, <1>3 DEF StaysSame
<1> USE DEF OnLine, Dialogue
<1>4. ASSUME ReloadSteps(s)
      PROVE  Good
  BY <1>3, <1>4, PlainMoves DEF ReloadSteps
<1>5. ASSUME SetSafeRecord(s) \/ WriteBack(s) \/ InfoRenew(s) \/ EndDialogue(s) \/ XLevel(s)
        \/ EditRenew(s) \/ RenameListed(s) \/ RenameWrite(s)
      PROVE  Good
  BY <1>3, <1>5, PlainMoves DEF Moves
<1>6. ASSUME DUserListed(s) \/ CleanEnd(s) \/ Lock(s) \/ NewListed(s)
             \/ Create(s) \/ CreateListed(s)
      PROVE  Good
  BY <1>3, <1>6, PlainMoves DEF Moves
<1>7. ASSUME AbortBbs(s) \/ Offline(s)
      PROVE  Good
  BY <1>7, OtherMoves DEF Moves
<1>8. ASSUME ThesisMode(s) \/ DUser(s)
      PROVE  Good
  BY <1>0, <1>8, OtherMoves DEF Moves, KeepsName, Remakes
<1>9. ASSUME CleanStart(s) \/ CleanRead(s) \/ CleanKill(s) \/ NewRecord(s)
      PROVE  Good
  BY <1>9, OtherMoves DEF Moves
<1>10. ASSUME Info(s)
       PROVE  Good
  BY <1>0, <1>10, OtherMoves DEF Moves, KeepsName, Base, NamesOfPeople
<1>11. ASSUME Recheck(s)
       PROVE  Good
  BY <1>11, OtherMoves DEF Owner
<1>12. ASSUME UserDefine(s)
       PROVE  Good
  <2> DEFINE n == SearchUser(currentuser[s].userid)
  <2>1. /\ Moves(s, "on", "dialogue") /\ KeepsName(s) /\ n \in DOMAIN passfile
        /\ id'[s] = n /\ lookupuser'[s] = passfile[n]
    BY <1>12, OtherMoves
  <2>2. passfile[n].userid = currentuser[s].userid
    BY <1>12 DEF UserDefine, Known
  <2>3. currentuser[s].userid \in UserId
    BY <2>1 DEF Moves, Base, NamesOfPeople
  <2> HIDE DEF n
  <2> QED
    BY <1>0, <2>1, <2>2, <2>3 DEF Moves, KeepsName, Owner
<1>13. ASSUME NEW n \in role.types[s],
              Login(s, n) \/ Check(s, n) \/ RenameCheck(s, n)
       PROVE  Good
  BY <1>0, <1>13, NameMoves DEF Moves, KeepsName, KeepsCopy, Owner
<1>14. ASSUME NEW n \in role.types[s], NEW c, NEW l \in {"level", "delete", "edit", "rename",
              "dialogue"},
              Consult(s, n, c, l)
       PROVE  Good
  <2> DEFINE j == SearchUser(n)
  <2>1. /\ Moves(s, "on", l) /\ KeepsName(s) /\ j \in DOMAIN passfile
        /\ id'[s] = j /\ lookupuser'[s] = passfile[j] /\ n \in UserId
    BY <1>14, NameMoves
  <2>2. passfile[j].userid = n
    BY <1>14 DEF Consult, Known
  <2> HIDE DEF j
  <2> QED
    BY <1>0, <1>14, <2>1, <2>2 DEF Moves, KeepsName, Owner
<1>15. Good
  <2> HIDE DEF Good
  <2> QED
    BY <1>4, <1>5, <1>6, <1>7, <1>8, <1>9, <1>10, <1>11, <1>12, <1>13, <1>14
       DEF ProcessStep, ReloadSteps
<1> QED
  BY <1>15

LEMMA OwnCopiesStep ==
  ASSUME Base, Owners, NEW s \in Process, ProcessStep(s), AccountsTypeOK', NEW k, Touches(s, k),
         ~torn', ~strayed'
  PROVE  OwnCopies'
<1> DEFINE Good(q, i) ==
      /\ stage'[q] \in OnLine /\ usernum'[q] = i => passfile'[i].userid = currentuser'[q].userid
      /\ stage'[q] \in Dialogue /\ id'[q] = i =>
           /\ passfile'[i].userid = lookupuser'[q].userid
           /\ stage'[q] # "deleted" => lookupuser'[q].userid \in UserId
<1>1. ASSUME NEW q \in Process \ lost', NEW i \in DOMAIN passfile' \ haunted'
      PROVE  Good(q, i)
  <2>0. q \notin lost /\ haunted \subseteq haunted'
    BY DEF Touches
  <2>1. CASE Remakes(s, i)
    <3>1. Fresh(s, i)
      BY <2>1, RemakesFresh
    <3>2. Dialogue \subseteq Holding /\ Dialogue \subseteq OnLine
      BY DEF Holding, OnLine
    <3> QED
      BY <3>1, <3>2 DEF Fresh
  <2>2. CASE ~Remakes(s, i)
    <3>1. i \in DOMAIN passfile /\ passfile'[i].userid = Owner(i) /\ Owner(i)' = Owner(i)
      BY <2>2, KeptElse DEF Owner
    <3>2. i \in Plain
      BY <2>0, <3>1 DEF Plain
    <3>3. CASE q = s
      BY <2>0, <2>2, <3>1, <3>2, <3>3, CopiesOwn
    <3>4. CASE q # s
      <4>1. /\ stage[q] \in OnLine /\ usernum[q] = i => Owner(i) = currentuser[q].userid
            /\ stage[q] \in Dialogue /\ id[q] = i =>
                 /\ Owner(i) = lookupuser[q].userid
                 /\ stage[q] # "deleted" => lookupuser[q].userid \in UserId
        BY <2>0, <3>2 DEF Owners, OwnCopies, Sure
      <4>2. /\ stage'[q] = stage[q] /\ usernum'[q] = usernum[q] /\ id'[q] = id[q]
            /\ currentuser'[q] = currentuser[q] /\ lookupuser'[q] = lookupuser[q]
        BY <3>4 DEF Touches, OthersStay
      <4> QED
        BY <3>1, <4>1, <4>2
    <3> QED
      BY <3>3, <3>4
  <2> QED
    BY <2>1, <2>2
<1> QED
  BY <1>1 DEF OwnCopies, Sure, Plain, Owner

(* Which steps reach, and which leave, the stages between record and list.    *)
LEMMA MidMoves ==
  ASSUME Base, NEW s \in Process, ProcessStep(s), AccountsTypeOK'
  PROVE  /\ stage'[s] = "deleted" => DUser(s) \/ (stage[s] = "deleted" /\ StaysSame(s))
         /\ stage'[s] = "took" =>
              (NewRecord(s) /\ NewStarted(s)) \/ (stage[s] = "took" /\ StaysSame(s))
         /\ stage'[s] = "password" =>
              ((NewListed(s) /\ stage[s] = "took") \/ stage[s] = "password") /\ StaysSame(s)
         /\ stage'[s] = "created" =>
              (Create(s) /\ StaysSame(s)) \/ (stage[s] = "created" /\ StaysSame(s))
         /\ stage'[s] = "renamed" =>
              ((RenameListed(s) /\ stage[s] = "confirm") \/ stage[s] = "renamed") /\ StaysSame(s)
         /\ stage[s] = "deleted" => DUserListed(s) \/ (stage'[s] = "deleted" /\ StaysSame(s))
         /\ stage[s] = "took" => NewListed(s) \/ (stage'[s] = "took" /\ StaysSame(s))
         /\ stage[s] = "created" => CreateListed(s) \/ (stage'[s] = "created" /\ StaysSame(s))
         /\ stage[s] = "renamed" => RenameWrite(s) \/ (stage'[s] = "renamed" /\ StaysSame(s))
<1> DEFINE Off == /\ stage'[s] \notin {"deleted", "took", "password", "created", "renamed"}
                  /\ stage[s] \notin {"deleted", "took", "created", "renamed"}
<1>4. ReloadSteps(s) => stage'[s] = stage[s] /\ StaysSame(s)
  BY PlainMoves DEF ReloadSteps
<1>5. SetSafeRecord(s) \/ WriteBack(s) \/ InfoRenew(s) \/ EndDialogue(s) \/ XLevel(s)
        \/ EditRenew(s) \/ CleanEnd(s) \/ Lock(s) => Off
  BY PlainMoves DEF Moves
<1>6. /\ RenameListed(s) => Moves(s, "confirm", "renamed") /\ StaysSame(s)
      /\ RenameWrite(s) => Moves(s, "renamed", "on")
      /\ DUserListed(s) => Moves(s, "deleted", "on")
      /\ NewListed(s) => Moves(s, "took", "password") /\ StaysSame(s)
      /\ Create(s) => Moves(s, "password", "created") /\ StaysSame(s)
      /\ CreateListed(s) => Moves(s, "created", "recheck")
      /\ DUser(s) => Moves(s, "delete", "deleted")
  BY PlainMoves, OtherMoves
<1>7. AbortBbs(s) \/ Offline(s) \/ UserDefine(s) \/ Info(s) \/ ThesisMode(s) \/ Recheck(s)
        \/ CleanStart(s) \/ CleanRead(s) \/ CleanKill(s) => Off
  <2>1. AbortBbs(s) => stage[s] \in {"on", "safe", "dialogue", "password"}
    BY DEF AbortBbs
  <2> QED
    BY <2>1, OtherMoves DEF Moves
<1>8. NewRecord(s) => \/ NewStarted(s) /\ stage[s] = "search" /\ stage'[s] = "took"
                      \/ Off
  BY NewTypes, OtherMoves DEF NewStarted, NoneStarted
<1>12. ASSUME NEW n \in role.types[s],
              Login(s, n) \/ Check(s, n) \/ RenameCheck(s, n)
       PROVE  Off
  BY <1>12, NameMoves DEF Moves
<1>13. ASSUME NEW n \in role.types[s], NEW c, NEW l \in {"level", "delete", "edit", "rename",
              "dialogue"},
              Consult(s, n, c, l)
       PROVE  Off
  <2>1. Moves(s, "on", l)
    BY <1>13, NameMoves
  <2> QED
    BY <1>13, <2>1 DEF Moves
<1>14. \/ ReloadSteps(s)
       \/ RenameListed(s) \/ RenameWrite(s) \/ DUserListed(s) \/ NewListed(s) \/ Create(s)
       \/ CreateListed(s) \/ DUser(s) \/ NewRecord(s) \/ Off
  <2> HIDE DEF Off
  <2> QED
    BY <1>5, <1>7, <1>12, <1>13 DEF ProcessStep, ReloadSteps
<1>15. CASE Off
  BY <1>15
<1>16. CASE ReloadSteps(s)
  BY <1>4, <1>16
<1>17. CASE RenameListed(s) \/ RenameWrite(s) \/ DUserListed(s) \/ NewListed(s)
  BY <1>6, <1>17 DEF Moves
<1>18. CASE Create(s) \/ CreateListed(s) \/ DUser(s)
  BY <1>6, <1>18 DEF Moves
<1>19. CASE NewRecord(s) /\ ~Off
  BY <1>8, <1>19
<1> QED
  BY <1>14, <1>15, <1>16, <1>17, <1>18, <1>19

LEMMA OwnRegistrationStep ==
  ASSUME Base, Owners, NEW s \in Process, ProcessStep(s), AccountsTypeOK', NEW k, Touches(s, k),
         ~torn', ~strayed'
  PROVE  OwnRegistration'
<1> DEFINE Good(q, i) ==
      /\ stage'[q] = "deleted" => passfile'[i].userid = Nobody
      /\ stage'[q] = "took" => passfile'[i].userid \in {Newcomer, Nobody}
      /\ stage'[q] \in {"took", "password"} /\ q \notin lost' =>
           /\ passfile'[i].userid = Newcomer
           /\ \A x \in Process :
                /\ id'[x] = i
                /\ stage'[x] = "took" \/ (stage'[x] = "password" /\ x \notin lost')
                => x = q
      /\ stage'[q] = "created" /\ q \notin lost' => passfile'[i].userid = want'[q]
<1>1. ASSUME NEW q \in Process, NEW i \in DOMAIN passfile' \ haunted', id'[q] = i
      PROVE  Good(q, i)
  <2>0. haunted \subseteq haunted' /\ lost \subseteq lost'
    BY DEF Touches
  <2>1. CASE Remakes(s, i)
    <3>1. Fresh(s, i)
      BY <2>1, RemakesFresh
    <3>2. Dialogue \subseteq Holding /\ {"took", "password", "created"} \subseteq Holding
          /\ "deleted" \in Dialogue
      BY DEF Holding, Dialogue
    <3>3. Nobody # Newcomer
      BY BaseFacts
    <3>4. CASE q # s
      BY <1>1, <3>1, <3>2, <3>4 DEF Fresh
    <3>5. CASE q = s
      <4>1. stage'[s] = "took" => \A x \in Process \ {s} : id'[x] = i =>
              stage'[x] # "took" /\ (stage'[x] = "password" => x \in lost')
        BY <1>1, <3>1, <3>2, <3>3, <3>5 DEF Fresh
      <4>2. /\ stage'[s] = "deleted" => passfile'[i].userid = Nobody
            /\ stage'[s] = "took" => passfile'[i].userid = Newcomer
            /\ stage'[s] # "password"
            /\ stage'[s] = "created" => passfile'[i].userid = want'[s]
        BY <1>1, <3>1, <3>2, <3>5 DEF Fresh
      <4> QED
        BY <3>5, <4>1, <4>2
    <3> QED
      BY <3>4, <3>5
  <2>2. CASE ~Remakes(s, i)
    <3>1. i \in DOMAIN passfile /\ passfile'[i].userid = Owner(i)
      BY <2>2, KeptElse DEF Owner
    <3>2. i \in Plain
      BY <2>0, <3>1 DEF Plain
    <3>3. ASSUME NEW x \in Process, id'[x] = i
          PROVE  /\ stage'[x] = "deleted" => stage[x] = "deleted" /\ id[x] = i
                 /\ stage'[x] = "took" => stage[x] = "took" /\ id[x] = i
                 /\ stage'[x] = "password" => stage[x] \in {"took", "password"} /\ id[x] = i
                 /\ stage'[x] = "created" => stage[x] = "created" /\ id[x] = i /\ want'[x] = want[x]
      <4>1. CASE x # s
        BY <3>3, <4>1 DEF Touches, OthersStay
      <4>2. CASE x = s
        <5>1. /\ stage'[s] = "deleted" => DUser(s) \/ (stage[s] = "deleted" /\ StaysSame(s))
              /\ stage'[s] = "took" =>
                   (NewRecord(s) /\ NewStarted(s)) \/ (stage[s] = "took" /\ StaysSame(s))
              /\ stage'[s] = "password" =>
                   (stage[s] \in {"took", "password"}) /\ StaysSame(s)
              /\ stage'[s] = "created" =>
                   (Create(s) /\ StaysSame(s)) \/ (stage[s] = "created" /\ StaysSame(s))
          BY MidMoves
        <5>2. ~DUser(s)
          BY <2>2, <3>3, <4>2, OtherMoves DEF Remakes
        <5>3. ~(NewRecord(s) /\ NewStarted(s))
          BY <2>2, <3>3, <4>2 DEF Remakes, NewStarted
        <5>4. ~(Create(s) /\ StaysSame(s))
          BY <2>2, <3>3, <4>2 DEF Remakes, StaysSame
        <5> QED
          BY <3>3, <4>2, <5>1, <5>2, <5>3, <5>4 DEF StaysSame
      <4> QED
        BY <4>1, <4>2
    <3>4. /\ stage[q] = "deleted" /\ id[q] = i => Owner(i) = Nobody
          /\ stage[q] = "took" /\ id[q] = i => Owner(i) \in {Newcomer, Nobody}
          /\ stage[q] = "created" /\ id[q] = i /\ q \notin lost => Owner(i) = want[q]
          /\ stage[q] \in {"took", "password"} /\ id[q] = i /\ q \notin lost =>
               /\ Owner(i) = Newcomer
               /\ \A x \in Process :
                    /\ id[x] = i
                    /\ stage[x] = "took" \/ (stage[x] = "password" /\ x \notin lost)
                    => x = q
      BY <3>2 DEF Owners, OwnRegistration
    <3>5. stage'[q] \in {"took", "password"} /\ q \notin lost' =>
            \A x \in Process :
                /\ id'[x] = i
                /\ stage'[x] = "took" \/ (stage'[x] = "password" /\ x \notin lost')
                => x = q
      BY <1>1, <2>0, <3>3, <3>4
    <3> QED
      BY <1>1, <2>0, <3>1, <3>3, <3>4, <3>5
  <2> QED
    BY <2>1, <2>2
<1>2. \A q \in Process : id'[q] \in DOMAIN passfile' \ haunted' => Good(q, id'[q])
  BY <1>1
<1> QED
  BY <1>2 DEF OwnRegistration, Plain, Owner

LEMMA EntriesStep ==
  ASSUME NEW s \in Process, ProcessStep(s), Base
  PROVE  userid' = userid \/ ReloadFill(s) \/ ListSteps(s)
<1>1. Rewrites(s) \/ DUser(s) \/ RenameWrite(s) \/ Create(s) \/ CleanKill(s) \/ NewRecord(s) =>
        userid' = userid
  BY DEF Rewrites, WriteBack, Offline, EndDialogue, XLevel, ThesisMode, DUser,
     RenameWrite, Create, CleanKill, NewRecord, shm
<1>2. Looks(s) => userid' = userid
  BY DEF Looks, ReloadStart, ReloadRead, ReloadEnd, AbortBbs, SetSafeRecord, UserDefine, Info,
     InfoRenew, EditRenew, CleanStart, CleanRead, CleanEnd, Lock, Recheck, Login, Check,
     RenameCheck, Consult, shm
<1> QED
  BY <1>1, <1>2, StepKinds

VacantKnown(i) ==
  /\ userid[i] = Nobody \/ number < i => Vacant(i)
  /\ \A q \in Process : ~reload[q].crossed =>
       /\ reload[q].step = "fill" /\ reload[q].at = i /\ reload[q].got = Nobody => Vacant(i)
       /\ reload[q].step = "end" /\ reload[q].at <= i => Vacant(i)

LEMMA VacantStays ==
  ASSUME Base, NEW s \in Process, ProcessStep(s), AccountsTypeOK', NEW k, Touches(s, k),
         NEW i \in DOMAIN passfile, Owner(i)' = Owner(i), Vacant(i),
         ~(NewListed(s) /\ id[s] = i)
  PROVE  Vacant(i)'
<1>1. CASE Owner(i) = Nobody
  BY <1>1 DEF Vacant
<1>2. CASE Taking(i)
  <2>1. PICK x \in Process : stage[x] = "took" /\ id[x] = i
    BY <1>2 DEF Taking
  <2>2. stage'[x] = "took" /\ id'[x] = i
    BY <2>1, MidMoves DEF Touches, OthersStay, StaysSame
  <2> QED
    BY <2>2 DEF Vacant, Taking
<1> QED
  BY <1>1, <1>2 DEF Vacant

LEMMA FreeEntriesStep ==
  ASSUME Base, Owners, NEW s \in Process, ProcessStep(s), AccountsTypeOK', NEW k, Touches(s, k),
         ~torn', ~strayed'
  PROVE  FreeEntries'
<1>0. /\ \A q \in Process \ {s} :
           /\ reload'[q].step = reload[q].step /\ reload'[q].at = reload[q].at
           /\ reload'[q].got = reload[q].got /\ (reload[q].crossed => reload'[q].crossed)
      /\ haunted \subseteq haunted'
  BY DEF Touches, OthersStay
<1>1. ASSUME NEW i \in DOMAIN passfile' \ haunted'
      PROVE  VacantKnown(i)'
  <2>1. CASE Remakes(s, i)
    <3>1. Fresh(s, i)
      BY <2>1, RemakesFresh
    <3>2. CASE Vacant(i)'
      BY <3>2 DEF VacantKnown
    <3>4. CASE NewStarted(s) /\ SearchNewUser = i
      <4>1. Vacant(i)'
        BY <3>4 DEF NewStarted, Vacant, Taking
      <4> QED
        BY <4>1 DEF VacantKnown
    <3>3. CASE /\ ~Vacant(i) /\ userid' = userid /\ number' = number /\ reload' = reload
               /\ ~(NewStarted(s) /\ SearchNewUser = i)
      <4>1. i \in Plain
        BY <1>0, <2>1, <3>3, RemovedFresh, RenameFresh, CreateFresh DEF Remakes, Plain
      <4>2. VacantKnown(i)
        BY <4>1 DEF Owners, FreeEntries, VacantKnown
      <4> QED
        BY <3>3, <4>2 DEF VacantKnown
    <3> QED
      BY <3>1, <3>2, <3>3, <3>4 DEF Fresh
  <2>2. CASE ~Remakes(s, i)
    <3>1. i \in DOMAIN passfile /\ Owner(i)' = Owner(i)
      BY <2>2, KeptElse
    <3>2. i \in Plain /\ i \in Nat /\ i \in Uid /\ number \in Nat
      BY <1>0, <3>1, BaseFacts DEF Plain
    <3>3. VacantKnown(i)
      BY <3>2 DEF Owners, FreeEntries, VacantKnown
    <3>4. CASE NewListed(s) /\ id[s] = i
      <4>1. Lists(s, i, Newcomer)
        BY <3>4, NamesListed
      <4>2. userid'[i] = Newcomer /\ number' >= i /\ Nobody # Newcomer
        BY <3>2, <4>1, BaseFacts DEF Lists
      <4>3. ASSUME NEW q \in Process, ~reload'[q].crossed
            PROVE  /\ ~(reload'[q].step = "fill" /\ reload'[q].at = i)
                   /\ ~(reload'[q].step = "end" /\ reload'[q].at <= i)
        <5>1. ~Crosses(q, i) /\ reload'[q].step = reload[q].step /\ reload'[q].at = reload[q].at
          BY <4>1, <4>3, Zenon DEF Lists
        <5> QED
          BY <5>1 DEF Crosses
      <4>4. number' \in Nat
        BY <4>2, <3>2, <4>1 DEF Lists
      <4>5. ~(userid'[i] = Nobody \/ number' < i)
        BY <3>2, <4>2, <4>4
      <4> QED
        BY <4>3, <4>5 DEF VacantKnown
    <3>5. CASE ~(NewListed(s) /\ id[s] = i)
      <4>1. Vacant(i) => Vacant(i)'
        BY <3>1, <3>5, VacantStays
      <4>2. userid'[i] = Nobody \/ number' < i => Vacant(i)
        <5>1. CASE ReloadFill(s)
          <6>1. ~reload[s].crossed /\ number' = number /\ reload[s].step = "fill"
                /\ userid' = [userid EXCEPT ![reload[s].at] = reload[s].got]
            BY <5>1 DEF ReloadFill
          <6>2. CASE reload[s].at = i /\ userid'[i] = Nobody
            <7>1. reload[s].got = Nobody
              BY <3>2, <6>1, <6>2 DEF Base, AccountsTypeOK
            <7> QED
              BY <3>3, <6>1, <6>2, <7>1 DEF VacantKnown
          <6>3. CASE reload[s].at # i
            <7>1. userid'[i] = userid[i]
              BY <3>2, <6>1, <6>3
            <7> QED
              BY <3>3, <6>1, <7>1 DEF VacantKnown
          <6> QED
            BY <3>3, <6>1, <6>2, <6>3 DEF VacantKnown
        <5>2. CASE ReloadEnd(s)
          <6>1. /\ ~reload[s].crossed /\ userid' = userid /\ reload[s].step = "end"
                /\ number' = reload[s].at - 1 /\ reload[s].at \in Nat
            BY <5>2, Reloads DEF ReloadEnd, Counted, Base, AccountsTypeOK
          <6>2. number' < i => reload[s].at <= i
            BY <3>2, <6>1
          <6> QED
            BY <3>3, <6>1, <6>2 DEF VacantKnown
        <5>3. CASE ListSteps(s)
          <6>1. PICK n : /\ Lists(s, id[s], n)
                         /\ n # Nobody \/ DUserListed(s)
            <7>1. RenameListed(s) => want[s] \in UserId
              BY DEF RenameListed, Base, NamesOfPeople, Naming
            <7>2. CreateListed(s) => want[s] \in UserId
              BY DEF CreateListed, Base, NamesOfPeople, Naming, Registering
            <7> QED
              BY <5>3, <7>1, <7>2, NamesListed, BaseFacts DEF ListSteps
          <6>2. id[s] \in Nat /\ id[s] \in DOMAIN passfile
            BY <6>1, BaseFacts DEF Lists
          <6>3. CASE id[s] # i
            <7>1. userid'[i] = userid[i] /\ (number' < i => number < i)
              BY <3>2, <6>1, <6>2, <6>3 DEF Lists
            <7> QED
              BY <3>3, <7>1 DEF VacantKnown
          <6>4. CASE id[s] = i
            <7>1. ~(number' < i) /\ userid'[i] = n
              BY <3>2, <6>1, <6>2, <6>4 DEF Lists
            <7>2. CASE DUserListed(s)
              <8>1. Owner(i) = Nobody
                BY <3>2, <6>4, <7>2 DEF DUserListed, Owners, OwnRegistration
              <8> QED
                BY <8>1 DEF Vacant
            <7> QED
              BY <6>1, <7>1, <7>2
          <6> QED
            BY <6>3, <6>4
        <5>4. CASE ~ReloadFill(s) /\ ~ReloadEnd(s) /\ ~ListSteps(s)
          <6>1. userid' = userid /\ number' = number
            BY <5>4, EntriesStep, NumberStep
          <6> QED
            BY <3>3, <6>1 DEF VacantKnown
        <5> QED
          BY <5>1, <5>2, <5>3, <5>4
      <4>3. ASSUME NEW q \in Process, ~reload'[q].crossed
            PROVE  /\ reload'[q].step = "fill" /\ reload'[q].at = i /\ reload'[q].got = Nobody
                        => Vacant(i)
                   /\ reload'[q].step = "end" /\ reload'[q].at <= i => Vacant(i)
        <5>1. CASE q # s
          BY <1>0, <3>3, <4>3, <5>1 DEF VacantKnown
        <5>2. CASE q = s
          <6>1. CASE ReloadRead(s)
            <7>0. i <= Len(passfile) /\ Len(passfile) \in Nat
              BY <3>1, BaseFacts
            <7>1. i <= Len(passfile) /\ Len(passfile) \in Nat /\ reload[s].at \in Nat
              BY <7>0, Reloads DEF Base, AccountsTypeOK
            <7>2. /\ reload'[s].at = reload[s].at
                  /\ \/ reload[s].at > Len(passfile) /\ reload'[s].step = "end"
                     \/ reload'[s].step = "fill" /\ reload'[s].got = Owner(reload[s].at)
              BY <6>1, ReloadMoves
            <7> QED
              BY <3>2, <5>2, <7>1, <7>2 DEF Vacant
          <6>2. CASE ~ReloadRead(s)
            BY <5>2, <6>2, ReloadMoves DEF ReloadSteps
          <6> QED
            BY <6>1, <6>2
        <5> QED
          BY <5>1, <5>2
      <4> QED
        BY <4>1, <4>2, <4>3 DEF VacantKnown
    <3> QED
      BY <3>4, <3>5
  <2> QED
    BY <2>1, <2>2
<1> QED
  BY <1>1 DEF FreeEntries, VacantKnown, Plain

-----------------------------------------------------------------------------
(* OwnRecord, made inductive: in a calm state records have one owner each.   *)
Owning == Base /\ (Calm => Owners)

LEMMA InitEmpty ==
  ASSUME AccountsInit
  PROVE  /\ \A s \in Process : stage[s] = "out" /\ reload[s] = NoReload
         /\ passfile = InitFile /\ number = Len(InitFile)
         /\ \A i \in DOMAIN passfile :
              /\ userid[i] = Owner(i) /\ Owner(i) \in UserId /\ i <= number
              /\ \A j \in DOMAIN passfile : Owner(i) = Owner(j) => i = j
<1>1. \A s \in Process : stage[s] = "out" /\ reload[s] = NoReload
  BY DEF AccountsInit
<1>2. passfile = InitFile /\ number = Len(InitFile)
  BY DEF AccountsInit
<1>3. DOMAIN InitFile = 1..Len(InitFile) /\ DOMAIN InitFile \subseteq Uid
  BY BaseInit, BaseFacts, <1>2
<1>4. ASSUME NEW i \in DOMAIN passfile
      PROVE  userid[i] = Owner(i) /\ Owner(i) \in UserId /\ i <= number
  BY <1>2, <1>3, <1>4, FileAssumption DEF AccountsInit, Owner
<1> QED
  BY <1>1, <1>2, <1>4, FileAssumption DEF Owner

LEMMA OwningInit == AccountsInit => Owning
<1> SUFFICES ASSUME AccountsInit PROVE Owning
  OBVIOUS
<1>1. \A s \in Process : stage[s] = "out" /\ reload[s].step = "none"
  BY InitEmpty, Reloads
<1>2. Base
  BY BaseInit
<1>3. OwnCopies /\ OwnRegistration
  BY <1>1 DEF OwnCopies, OwnRegistration, OnLine, Dialogue, Sure
<1>4. \A i \in DOMAIN passfile : userid[i] # Nobody /\ ~(number < i)
  BY <1>2, InitEmpty, BaseFacts
<1>5. FreeEntries
  BY <1>1, <1>4 DEF FreeEntries, Plain
<1> QED
  BY <1>2, <1>3, <1>5 DEF Owning, Owners

LEMMA OwningStep ==
  ASSUME Owning, NEW s \in Process, ProcessStep(s)
  PROVE  Owning'
<1>1. Base /\ Base' /\ AccountsTypeOK'
  <2>1. Base
    BY DEF Owning
  <2>2. AccountsTypeOK'
    BY <2>1, StepTypes
  <2> QED
    BY <2>1, <2>2, BaseStep
<1>2. PICK k \in 0..MaxUsers : Touches(s, k)
  BY <1>1, StepTypes
<1>3. ASSUME ~torn', ~strayed'
      PROVE  Owners'
  <2>1. Owners
    BY <1>2, <1>3 DEF Owning, Calm, Touches
  <2> QED
    BY <1>1, <1>2, <1>3, <2>1, OwnCopiesStep, OwnRegistrationStep, FreeEntriesStep DEF Owners
<1> QED
  BY <1>1, <1>3 DEF Owning, Calm

LEMMA OwningIdle ==
  ASSUME Owning, Tick \/ UNCHANGED accountVars
  PROVE  Owning'
<1>1. CASE Tick
  <2>1. Base /\ Base'
        /\ UNCHANGED <<shm, passfile, flush, flocked, role, stage, currentuser, usernum,
                                 lookupuser, id, want, history>>
        /\ \A s \in Process : reload'[s].step = "none"
    BY <1>1, TickStep, Reloads DEF Owning
  <2>2. Owners => Owners'
    BY <2>1 DEF Owners, OwnCopies, OwnRegistration, FreeEntries, Vacant, Taking, Owner,
       Plain, Sure, shm, history
  <2> QED
    BY <2>1, <2>2 DEF Owning, Calm, history
<1>2. CASE UNCHANGED accountVars
  <2>1. Owners => Owners'
    BY <1>2 DEF Owners, OwnCopies, OwnRegistration, FreeEntries, Vacant, Taking, Owner,
       Plain, Sure, accountVars, shm, file, history
  <2>2. Base => Base'
    BY <1>2 DEF Base, AccountsTypeOK, RecordsExist, NamesOfPeople, FlockHeld, PurgeAlone,
       ReloadTimes, CountedAll, Purging, Taking, accountVars, shm, file, history
  <2> QED
    BY <1>2, <2>1, <2>2 DEF Owning, Calm, accountVars, history
<1> QED
  BY <1>1, <1>2

LEMMA AccountsOwning == AccountsSpec => []Owning
<1>1. Owning /\ [AccountsNext]_accountVars => Owning'
  BY OwningStep, OwningIdle DEF AccountsNext
<1> QED
  BY <1>1, OwningInit, PTL DEF AccountsSpec

(* A session on line, or about to create its account, has its record to      *)
(* itself, whatever the file at the start and whatever sessions do.          *)
THEOREM AccountsOwnRecord == AccountsSpec => []OwnRecord
<1>1. Owning => OwnRecord
  <2>1. SUFFICES ASSUME Owning, NEW s \in Process \ lost
                 PROVE  /\ (stage[s] \in OnLine /\ ~Disturbed(usernum[s])) =>
                             passfile[usernum[s]].userid = currentuser[s].userid
                        /\ (stage[s] \in {"took", "password"} /\ ~Disturbed(id[s])) =>
                             passfile[id[s]].userid = Newcomer
    BY DEF OwnRecord
  <2>2. ASSUME stage[s] \in OnLine, ~Disturbed(usernum[s])
        PROVE  passfile[usernum[s]].userid = currentuser[s].userid
    <3>1. usernum[s] \in Plain /\ Owners
      BY <2>1, <2>2 DEF Disturbed, Owning, Calm, Base, RecordsExist, Plain
    <3> QED
      BY <2>1, <2>2, <3>1 DEF Owners, OwnCopies, Owner, Sure
  <2>3. ASSUME stage[s] \in {"took", "password"}, ~Disturbed(id[s])
        PROVE  passfile[id[s]].userid = Newcomer
    <3>1. id[s] \in Plain /\ Owners
      BY <2>1, <2>3 DEF Disturbed, Owning, Calm, Base, RecordsExist, Plain, Holding
    <3> QED
      BY <2>1, <2>3, <3>1 DEF Owners, OwnRegistration, Owner
  <2> QED
    BY <2>2, <2>3
<1> QED
  BY <1>1, AccountsOwning, PTL

-----------------------------------------------------------------------------
(* Entries of the list and records.                                          *)
(* EntriesMatch for one record.                                              *)
EntryMatches(i) ==
  /\ Matched(i) \/ Owner(i) = Nobody
  /\ Matched(i) \/ uptime # flush \/ \E s \in Process : Purging(s)
  /\ \A s \in Process :
       /\ reload[s].step \in Running /\ i < reload[s].at => Matched(i)
       /\ reload[s].step = "fill" /\ reload[s].at = i /\ ~reload[s].crossed =>
            reload[s].got = Owner(i) \/ \E x \in Process : Between(x, i)

LEMMA RemadeMatches ==
  ASSUME Base, Base', Owners, NEW s \in Process, ProcessStep(s), NEW k, Touches(s, k),
         ~torn', ~strayed', NEW i \in DOMAIN passfile' \ haunted', Remakes(s, i)
  PROVE  EntryMatches(i)'
<1>0. AccountsTypeOK'
  BY DEF Base
<1>1. ASSUME Between(s, i)'
      PROVE  EntryMatches(i)'
  BY <1>1 DEF EntryMatches, Matched
<1>2. CASE DUser(s) /\ id[s] = i
  <2>1. stage'[s] = "deleted" /\ id'[s] = i
    BY <1>0, <1>2, OtherMoves DEF Moves
  <2> QED
    BY <1>1, <2>1 DEF Between
<1>3. CASE Create(s) /\ id[s] = i
  <2>1. stage'[s] = "created" /\ id'[s] = i /\ want'[s] = want[s]
    BY <1>0, <1>3, PlainMoves DEF Moves, StaysSame
  <2>2. passfile'[i].userid = want[s]
    BY <1>0, <1>3, CreateFresh
  <2> QED
    BY <1>1, <2>1, <2>2 DEF Between, Owner
<1>4. CASE NewRecord(s) /\ NewStarted(s) /\ SearchNewUser = i
  <2>1. stage'[s] = "took" /\ id'[s] = i
    BY <1>4 DEF NewStarted
  <2> QED
    BY <1>1, <2>1 DEF Between
<1>5. CASE CleanKill(s) /\ id[s] = i
  <2>1. passfile'[i].userid = Nobody
    BY <1>0, <1>5, RemovedFresh
  <2>2. Purging(s)'
    BY <1>0, <1>5, OtherMoves DEF Moves, Purging
  <2>3. \A q \in Process : reload'[q].step = "none"
    BY <2>2 DEF Base, PurgeAlone
  <2> QED
    BY <2>1, <2>2, <2>3 DEF EntryMatches, Owner, Running
<1>6. CASE RenameWrite(s) /\ id[s] = i
  <2>1. passfile'[i].userid = want[s]
    BY <1>0, <1>6, RenameFresh
  <2>2. userid[i] = want[s] /\ userid' = userid /\ reload' = reload
        /\ \A q \in Process : ~Crosses(q, i)
    BY <1>6 DEF RenameWrite, shm
  <2>3. Matched(i)'
    BY <2>1, <2>2 DEF Matched, Owner
  <2>4. \A q \in Process : ~(reload'[q].step = "fill" /\ reload'[q].at = i)
    BY <2>2 DEF Crosses
  <2> QED
    BY <2>3, <2>4 DEF EntryMatches
<1> QED
  BY <1>2, <1>3, <1>4, <1>5, <1>6 DEF Remakes

LEMMA BetweenStays ==
  ASSUME Base, NEW s \in Process, ProcessStep(s), AccountsTypeOK', NEW k, Touches(s, k),
         NEW i \in DOMAIN passfile, Owner(i)' = Owner(i), ~Remakes(s, i),
         ~(ListSteps(s) /\ id[s] = i), NEW x \in Process, Between(x, i)
  PROVE  Between(x, i)'
<1>1. CASE x # s
  BY <1>1 DEF Between, Touches, OthersStay
<1>2. CASE x = s
  <2>1. id[s] = i
    BY <1>2 DEF Between
  <2>2. ~DUserListed(s) /\ ~NewListed(s) /\ ~CreateListed(s) /\ ~RenameWrite(s)
    BY <2>1 DEF ListSteps, Remakes
  <2>3. stage'[s] = stage[s] /\ StaysSame(s)
    BY <1>2, <2>2, MidMoves DEF Between
  <2> QED
    BY <1>2, <2>3 DEF Between, StaysSame
<1> QED
  BY <1>1, <1>2

LEMMA ListedMatches ==
  ASSUME Base, Owners, NEW s \in Process, ListSteps(s), AccountsTypeOK',
         NEW i \in Plain, i \notin haunted', Owner(i)' = Owner(i), id[s] = i
  PROVE  Matched(i)'
<1>0. \A n : Lists(s, i, n) => s \notin lost /\ userid'[i] = n
  BY DEF Lists
<1>1. CASE DUserListed(s)
  <2>1. stage[s] = "deleted" /\ userid'[i] = Nobody
    BY <1>0, <1>1, NamesListed DEF DUserListed
  <2> QED
    BY <2>1 DEF Owners, OwnRegistration, Matched, Owner
<1>2. CASE NewListed(s)
  <2>1. stage[s] = "took" /\ userid'[i] = Newcomer /\ s \notin lost
    BY <1>0, <1>2, NamesListed DEF NewListed
  <2> QED
    BY <2>1 DEF Owners, OwnRegistration, Matched, Owner
<1>3. CASE CreateListed(s)
  <2>1. stage[s] = "created" /\ userid'[i] = want[s] /\ s \notin lost
    BY <1>0, <1>3, NamesListed DEF CreateListed
  <2> QED
    BY <2>1 DEF Owners, OwnRegistration, Matched, Owner
<1>4. CASE RenameListed(s)
  <2>1. stage[s] = "confirm" /\ stage'[s] = "renamed" /\ StaysSame(s) /\ s \notin lost
    BY <1>0, <1>4, NamesListed, PlainMoves DEF Moves
  <2>2. lookupuser[s].userid = Owner(i)
    BY <2>1 DEF Owners, OwnCopies, Sure, Dialogue
  <2>3. Between(s, i)'
    BY <2>1, <2>2 DEF Between, StaysSame, Owner
  <2> QED
    BY <2>3 DEF Matched
<1> QED
  BY <1>1, <1>2, <1>3, <1>4 DEF ListSteps

(* An entry that matches goes on matching when its record stays as it is.     *)
LEMMA KeptMatches ==
  ASSUME Base, Base', Owners, NEW s \in Process, ProcessStep(s), NEW k, Touches(s, k),
         ~torn', ~strayed', NEW i \in Plain, i \notin haunted', Owner(i)' = Owner(i),
         ~Remakes(s, i), EntryMatches(i)
  PROVE  EntryMatches(i)'
<1>0. AccountsTypeOK' /\ i \in DOMAIN passfile /\ i \in Uid /\ i \in Nat
  BY BaseFacts DEF Base, Plain
<1>1. /\ \A q \in Process \ {s} :
           /\ reload'[q].step = reload[q].step /\ reload'[q].at = reload[q].at
           /\ reload'[q].got = reload[q].got /\ (reload[q].crossed => reload'[q].crossed)
      /\ \A q \in Process \ {s} : stage'[q] = stage[q]
      /\ \A q \in Process : reload[q].at \in Nat
      /\ uptime \in Nat /\ flush \in Nat /\ uptime <= flush
      /\ ~torn
  BY Reloads DEF Touches, OthersStay, Base, AccountsTypeOK
<1>2. ReloadFill(s) /\ reload[s].at = i => Matched(i)'
  <2>1. SUFFICES ASSUME ReloadFill(s), reload[s].at = i PROVE Matched(i)'
    OBVIOUS
  <2>2. userid'[i] = reload[s].got /\ ~reload[s].crossed /\ reload[s].step = "fill"
    BY <2>1, FillTypes DEF ReloadFill
  <2>3. CASE reload[s].got = Owner(i)
    BY <2>2, <2>3 DEF Matched, Owner
  <2>4. CASE \E x \in Process : Between(x, i)
    <3>1. ~ListSteps(s)
      <4>1. reload'[s].step = "read" /\ reload[s].step = "fill"
        BY <2>1, ReloadMoves
      <4> QED
        BY <4>1, NamesListed DEF ListSteps, Lists
    <3> QED
      BY <1>0, <2>4, <3>1, BetweenStays DEF Matched
  <2> QED
    BY <2>1, <2>2, <2>3, <2>4 DEF EntryMatches
<1>3. Matched(i) => Matched(i)'
  <2>1. CASE ListSteps(s) /\ id[s] = i
    BY <1>0, <2>1, ListedMatches
  <2>2. CASE ReloadFill(s) /\ reload[s].at = i
    BY <1>2, <2>2
  <2>3. CASE ~(ListSteps(s) /\ id[s] = i) /\ ~(ReloadFill(s) /\ reload[s].at = i)
    <3>1. userid'[i] = userid[i]
      <4>1. CASE ReloadFill(s)
        BY <1>0, <2>3, <4>1, FillTypes DEF Touches
      <4>2. CASE ListSteps(s)
        BY <1>0, <2>3, <4>2, NamesListed DEF ListSteps, Lists
      <4> QED
        BY <4>1, <4>2, EntriesStep
    <3>2. \A x \in Process : Between(x, i) => Between(x, i)'
      BY <1>0, <2>3, BetweenStays
    <3> QED
      BY <3>1, <3>2 DEF Matched, Owner
  <2> QED
    BY <2>1, <2>2, <2>3
<1>4. Matched(i)' \/ Owner(i)' = Nobody
  BY <1>3 DEF EntryMatches
<1>5. Matched(i)' \/ uptime' # flush' \/ \E q \in Process : Purging(q)'
  <2>1. CASE Matched(i)
    BY <1>3, <2>1
  <2>2. CASE CleanEnd(s)
    <3>1. flush' = flush + 1 /\ ~ReloadEnd(s)
      <4>1. Purging(s)
        BY <1>0, <2>2, PlainMoves DEF Moves, Purging
      <4>2. reload[s].step = "none"
        BY <4>1 DEF Base, PurgeAlone
      <4> QED
        BY <2>2, <4>2, FilesStep, ReloadMoves
    <3>2. uptime' = uptime
      BY <3>1, FilesStep
    <3> QED
      BY <1>1, <3>1, <3>2
  <2>3. CASE ReloadEnd(s)
    <3>1. reload[s].step = "end" /\ ~reload[s].crossed
      BY <2>3 DEF ReloadEnd
    <3>2. i < reload[s].at => Matched(i)
      BY <3>1 DEF EntryMatches, Running
    <3>3. ~(i < reload[s].at) => Taking(i)
      <4>1. \/ Len(passfile) < reload[s].at
            \/ Len(passfile) = reload[s].at /\ Taking(reload[s].at)
        BY <3>1 DEF Base, CountedAll
      <4>2. i <= Len(passfile) /\ Len(passfile) \in Nat
        BY <1>0, BaseFacts
      <4>3. ~(i < reload[s].at) => i = reload[s].at /\ Taking(reload[s].at)
        BY <1>0, <1>1, <4>1, <4>2
      <4> QED
        BY <4>3
    <3>4. Taking(i) => Matched(i)
      BY DEF Taking, Matched, Between
    <3> QED
      BY <1>3, <3>2, <3>3, <3>4
  <2>4. CASE ~CleanEnd(s) /\ ~ReloadEnd(s) /\ uptime # flush
    BY <2>4, FilesStep
  <2>5. CASE ~CleanEnd(s) /\ ~ReloadEnd(s) /\ \E q \in Process : Purging(q)
    <3>1. PICK q \in Process : Purging(q)
      BY <2>5
    <3>2. CASE q # s
      BY <1>1, <3>1, <3>2 DEF Purging
    <3>3. CASE q = s
      <4>1. CleanRead(s) \/ CleanKill(s) \/ ReloadSteps(s)
        BY <1>0, <2>5, <3>1, <3>3, StageMoves
      <4>2. Purging(s)'
        BY <1>0, <3>1, <3>3, <4>1, OtherMoves, PlainMoves DEF Moves, Purging, ReloadSteps
      <4> QED
        BY <4>2
    <3> QED
      BY <3>2, <3>3
  <2> QED
    BY <2>1, <2>2, <2>3, <2>4, <2>5 DEF EntryMatches
<1>6. ASSUME NEW q \in Process, reload'[q].step \in Running, i < reload'[q].at
      PROVE  Matched(i)'
  <2>1. CASE q # s
    BY <1>1, <1>3, <1>6, <2>1 DEF EntryMatches
  <2>2. CASE q = s
    <3>1. CASE ReloadRead(s)
      BY <1>3, <1>6, <2>2, <3>1, ReloadMoves DEF EntryMatches, Running
    <3>2. CASE ReloadFill(s)
      <4>1. reload[s].step = "fill" /\ i < reload[s].at + 1
        BY <1>6, <2>2, <3>2, ReloadMoves
      <4>2. i < reload[s].at \/ i = reload[s].at
        BY <1>0, <1>1, <4>1
      <4> QED
        BY <1>2, <1>3, <3>2, <4>1, <4>2 DEF EntryMatches, Running
    <3>3. CASE ReloadStart(s)
      <4>1. i < 1
        BY <1>6, <2>2, <3>3, ReloadMoves
      <4>2. i \in 1..Len(passfile) /\ Len(passfile) \in Nat
        BY <1>0, BaseFacts
      <4> QED
        BY <4>1, <4>2
    <3>4. CASE ~ReloadRead(s) /\ ~ReloadFill(s) /\ ~ReloadStart(s)
      BY <1>6, <2>2, <3>4, ReloadMoves DEF ReloadSteps, Running
    <3> QED
      BY <3>1, <3>2, <3>3, <3>4
  <2> QED
    BY <2>1, <2>2
<1>7. ASSUME NEW q \in Process, reload'[q].step = "fill", reload'[q].at = i, ~reload'[q].crossed
      PROVE  reload'[q].got = Owner(i)' \/ \E x \in Process : Between(x, i)'
  <2>1. CASE q # s
    <3>1. reload[q].got = Owner(i) \/ \E x \in Process : Between(x, i)
      BY <1>1, <1>7, <2>1 DEF EntryMatches
    <3>2. ~(ListSteps(s) /\ id[s] = i)
      <4>1. SUFFICES ASSUME ListSteps(s), id[s] = i PROVE FALSE
        OBVIOUS
      <4>2. PICK n : Lists(s, i, n)
        BY <4>1, NamesListed DEF ListSteps
      <4>3. Crosses(q, i)
        BY <1>1, <1>7, <2>1 DEF Crosses
      <4> QED
        BY <1>7, <4>2, <4>3, Zenon DEF Lists
    <3>3. \A x \in Process : Between(x, i) => Between(x, i)'
      BY <1>0, <3>2, BetweenStays
    <3> QED
      BY <1>1, <2>1, <3>1, <3>3
  <2>2. CASE q = s
    <3>1. ReloadRead(s)
      BY <1>7, <2>2, ReloadMoves DEF ReloadSteps
    <3> QED
      BY <1>7, <2>2, <3>1, ReloadMoves
  <2> QED
    BY <2>1, <2>2
<1> QED
  BY <1>4, <1>5, <1>6, <1>7 DEF EntryMatches

-----------------------------------------------------------------------------
(* ListAgrees, made inductive.                                               *)
Listing == Owning /\ (Calm => EntriesMatch)

LEMMA ListingInit == AccountsInit => Listing
<1> SUFFICES ASSUME AccountsInit PROVE Listing
  OBVIOUS
<1>1. \A q \in Process : reload[q].step = "none"
  BY InitEmpty, Reloads
<1>2. \A i \in DOMAIN passfile : userid[i] = Owner(i)
  BY InitEmpty
<1>3. EntriesMatch
  BY <1>1, <1>2 DEF EntriesMatch, Plain, Matched, Running
<1> QED
  BY <1>3, OwningInit DEF Listing

LEMMA ListingStep ==
  ASSUME Listing, NEW s \in Process, ProcessStep(s)
  PROVE  Listing'
<1>1. Owning /\ Owning' /\ Base /\ Base'
  BY OwningStep DEF Listing, Owning
<1>2. PICK k \in 0..MaxUsers : Touches(s, k)
  BY <1>1, StepTypes
<1>3. ASSUME ~torn', ~strayed', NEW i \in DOMAIN passfile' \ haunted'
      PROVE  EntryMatches(i)'
  <2>1. Owners /\ EntriesMatch /\ haunted \subseteq haunted'
    BY <1>1, <1>2, <1>3 DEF Owning, Listing, Calm, Touches
  <2>2. CASE Remakes(s, i)
    BY <1>1, <1>2, <1>3, <2>1, <2>2, RemadeMatches
  <2>3. CASE ~Remakes(s, i)
    <3>1. i \in DOMAIN passfile /\ Owner(i)' = Owner(i)
      BY <1>1, <1>3, <2>1, <2>3, KeptElse
    <3>2. i \in Plain
      BY <1>3, <2>1, <3>1 DEF Plain
    <3>3. EntryMatches(i)
      BY <2>1, <3>2 DEF EntriesMatch, EntryMatches
    <3> QED
      BY <1>1, <1>2, <1>3, <2>1, <2>3, <3>1, <3>2, <3>3, KeptMatches
  <2> QED
    BY <2>2, <2>3
<1> QED
  BY <1>1, <1>3 DEF Listing, Calm, EntriesMatch, EntryMatches, Plain

LEMMA ListingIdle ==
  ASSUME Listing, Tick \/ UNCHANGED accountVars
  PROVE  Listing'
<1>1. Owning'
  BY OwningIdle DEF Listing
<1>2. EntriesMatch => EntriesMatch'
  <2>1. CASE Tick
    <3>1. UNCHANGED <<shm, passfile, flush, stage, lookupuser, id, want, history>>
          /\ \A q \in Process : reload'[q].step = "none"
      BY <2>1, Reloads DEF Tick
    <3>2. \A i : Matched(i) => Matched(i)'
      BY <3>1 DEF Matched, Between, Owner, shm
    <3> QED
      BY <3>1, <3>2 DEF EntriesMatch, Plain, Owner, Purging, Running, shm, history
  <2>2. CASE UNCHANGED accountVars
    BY <2>2 DEF EntriesMatch, Plain, Matched, Between, Owner, Purging, Running, accountVars,
       shm, file, history
  <2> QED
    BY <2>1, <2>2
<1>3. Calm' => Calm
  BY DEF Tick, Calm, history, accountVars
<1> QED
  BY <1>1, <1>2, <1>3 DEF Listing

LEMMA AccountsListing == AccountsSpec => []Listing
<1>1. Listing /\ [AccountsNext]_accountVars => Listing'
  BY ListingStep, ListingIdle DEF AccountsNext
<1> QED
  BY <1>1, ListingInit, PTL DEF AccountsSpec

(* When nobody is between a record and its entry, they agree, however many    *)
(* reloads, purges and registrations went by before.                         *)
THEOREM AccountsListAgrees == AccountsSpec => []ListAgrees
<1>1. Listing => ListAgrees
  <2>1. SUFFICES ASSUME Listing, Settled, ~torn, ~strayed, haunted = {}, NEW i \in DOMAIN passfile
                 PROVE  passfile[i].userid = IF i <= number THEN userid[i] ELSE Nobody
    BY DEF ListAgrees
  <2>2. Base /\ FreeEntries /\ EntriesMatch /\ i \in Plain
    BY <2>1 DEF Listing, Owning, Owners, Calm, Plain
  <2>3. \A x \in Process : ~Between(x, i) /\ ~Purging(x) /\ stage[x] # "took"
    BY <2>1 DEF Settled, Between, Purging
  <2>4. userid[i] = Owner(i)
    BY <2>1, <2>2, <2>3 DEF EntriesMatch, Matched, Settled
  <2>5. number < i => Owner(i) = Nobody
    BY <2>2, <2>3 DEF FreeEntries, Vacant, Taking
  <2>6. i \in Nat /\ number \in Nat
    BY <2>1, <2>2, BaseFacts
  <2>7. i <= number \/ number < i
    BY <2>6
  <2> QED
    BY <2>4, <2>5, <2>6, <2>7 DEF Owner
<1> QED
  BY <1>1, AccountsListing, PTL

-----------------------------------------------------------------------------
(* A name that is created twice is a race.                                   *)

(* The only names that a record is given are empty, new, or asked for.       *)
LEMMA NameGiven ==
  ASSUME Base, Owners, NEW s \in Process, AccountsTypeOK', ~torn',
         NEW i \in DOMAIN passfile' \ haunted', Remakes(s, i)
  PROVE  \/ Owner(i)' \in {Nobody, Newcomer}
         \/ /\ stage[s] \in Pending /\ stage'[s] \notin Pending
            /\ Owner(i)' = want[s] /\ want[s] \in UserId
            /\ \A j : Remakes(s, j) => j = i
<1> USE DEF Naming, Pending, Registering
<1>1. CASE (DUser(s) \/ CleanKill(s)) /\ id[s] = i
  BY <1>1, RemovedFresh DEF Owner
<1>2. CASE NewRecord(s) /\ NewStarted(s) /\ SearchNewUser = i
  BY <1>2, NewFresh DEF Owner
<1>3. CASE RenameWrite(s) /\ id[s] = i
  <2>1. stage[s] = "renamed" /\ stage'[s] = "on"
    BY <1>3, PlainMoves DEF Moves
  <2>2. ~NewRecord(s)
    BY <2>1 DEF NewRecord
  <2> QED
    BY <1>3, <2>1, <2>2, RenameFresh DEF Owner, Remakes
<1>4. CASE Create(s) /\ id[s] = i
  <2>1. stage[s] = "password" /\ stage'[s] = "created"
    BY <1>4, PlainMoves DEF Moves
  <2>2. ~NewRecord(s)
    BY <2>1 DEF NewRecord
  <2> QED
    BY <1>4, <2>1, <2>2, CreateFresh DEF Owner, Remakes
<1> QED
  BY <1>1, <1>2, <1>3, <1>4 DEF Remakes

(* Who asks for a name now, asked for it before or has just looked.          *)
Asks(s) == \E n \in role.types[s] : Check(s, n) \/ RenameCheck(s, n)

LEMMA NamingMoves ==
  ASSUME Base, NEW s \in Process, ProcessStep(s), AccountsTypeOK', ~Asks(s)
  PROVE  /\ stage'[s] \in Naming => stage[s] \in Naming /\ want'[s] = want[s]
         /\ stage'[s] \in Pending => stage[s] \in Pending
<1> DEFINE Good == /\ stage'[s] \in Naming => stage[s] \in Naming /\ want'[s] = want[s]
                   /\ stage'[s] \in Pending => stage[s] \in Pending
<1> USE DEF Naming, Pending, Registering
<1>1. ASSUME ReloadSteps(s) PROVE Good
  BY <1>1, PlainMoves DEF ReloadSteps, StaysSame
<1>2. ASSUME SetSafeRecord(s) \/ WriteBack(s) \/ InfoRenew(s) \/ EndDialogue(s) \/ XLevel(s)
        \/ EditRenew(s) \/ RenameWrite(s) \/ DUserListed(s)
      PROVE  Good
  BY <1>2, PlainMoves DEF Moves
<1>3. ASSUME RenameListed(s) \/ CleanEnd(s) \/ Lock(s) \/ NewListed(s)
             \/ Create(s) \/ CreateListed(s)
      PROVE  Good
  BY <1>3, PlainMoves DEF Moves, StaysSame
<1>4. ASSUME AbortBbs(s) \/ Offline(s) \/ UserDefine(s) \/ Info(s) \/ DUser(s) \/ ThesisMode(s)
        \/ Recheck(s)
      PROVE  Good
  BY <1>4, OtherMoves DEF Moves
<1>5. ASSUME CleanStart(s) \/ CleanRead(s) \/ CleanKill(s) \/ NewRecord(s)
      PROVE  Good
  BY <1>5, OtherMoves DEF Moves
<1>6. ASSUME NEW n \in role.types[s], Login(s, n)
      PROVE  Good
  BY <1>6, NameMoves DEF Moves
<1>7. ASSUME NEW n \in role.types[s], NEW c, NEW l \in {"level", "delete", "edit", "rename",
             "dialogue"},
             Consult(s, n, c, l)
      PROVE  Good
  <2>1. Moves(s, "on", l)
    BY <1>7, NameMoves
  <2> QED
    BY <1>7, <2>1 DEF Moves
<1>8. Good
  <2> HIDE DEF Good
  <2> QED
    BY <1>1, <1>2, <1>3, <1>4, <1>5, <1>6, <1>7 DEF ProcessStep, ReloadSteps, Asks
<1> QED
  BY <1>8

(* What a session that looks for the name finds, or races with.              *)
LEMMA NameLooked ==
  ASSUME Base, Owners, EntriesMatch, NEW s \in Process, NEW n \in UserId, Races(s, n),
         NEW j \in Plain, Owner(j) = n, stage[s] \in {"out", "rename"}
  PROVE  n \in raced'
<1>0. j \in DOMAIN passfile /\ j \in Nat /\ j \in 1..Len(passfile) /\ number \in Nat
  BY BaseFacts DEF Plain
<1>1. \A x \in Process : id[x] = j => stage[x] \notin {"took", "deleted"}
  BY BaseFacts DEF Owners, OwnRegistration
<1>2. CASE userid[j] = n
  <2>1. ~Vacant(j)
    BY <1>1, BaseFacts DEF Vacant, Taking
  <2>2. ~(number < j)
    BY <2>1 DEF Owners, FreeEntries
  <2>3. j \in 1..number
    BY <1>0, <2>2
  <2>4. SearchUser(n) # 0
    BY <1>2, <2>3, SearchUserFinds DEF Base
  <2> QED
    BY <2>4 DEF Races
<1>3. CASE \E x \in Process : Between(x, j)
  <2>1. PICK x \in Process : Between(x, j)
    BY <1>3
  <2>2. \/ stage[x] = "created" /\ want[x] = n
        \/ stage[x] = "renamed" /\ lookupuser[x].userid = n
    BY <1>1, <2>1 DEF Between
  <2>3. x # s
    BY <2>2
  <2> QED
    BY <2>2, <2>3 DEF Races, Registering
<1>4. userid[j] = n \/ \E x \in Process : Between(x, j)
  BY BaseFacts DEF EntriesMatch, Matched
<1> QED
  BY <1>2, <1>3, <1>4

LEMMA AskedNow ==
  ASSUME Base, NEW s \in Process, AccountsTypeOK', Asks(s)
  PROVE  \E n \in UserId : /\ want'[s] = n /\ Races(s, n) /\ stage[s] \in {"out", "rename"}
                           /\ passfile' = passfile /\ haunted' = haunted
                           /\ UNCHANGED <<torn, strayed>>
<1>1. PICK n \in role.types[s] : Check(s, n) \/ RenameCheck(s, n)
  BY DEF Asks
<1>2. n \in UserId /\ want'[s] = n
  BY <1>1, NameMoves
<1>3. /\ Races(s, n) /\ stage[s] \in {"out", "rename"} /\ passfile' = passfile
      /\ haunted' = haunted /\ UNCHANGED <<torn, strayed>>
  BY <1>1 DEF Check, RenameCheck, file
<1> QED
  BY <1>2, <1>3

LEMMA AskedTwiceStep ==
  ASSUME Base, AskedTwice, NEW s \in Process, ProcessStep(s), AccountsTypeOK', NEW k,
         Touches(s, k)
  PROVE  AskedTwice'
<1>1. ASSUME NEW q \in Process, NEW x \in Process, q # x, stage'[q] \in Naming,
             stage'[x] \in Naming,
             want'[q] = want'[x]
      PROVE  want'[q] \in raced'
  <2>0. /\ raced \subseteq raced'
        /\ \A y \in Process \ {s} : stage'[y] = stage[y] /\ want'[y] = want[y]
    BY DEF Touches, OthersStay
  <2>1. CASE Asks(s)
    <3>1. PICK n \in UserId : want'[s] = n /\ Races(s, n)
      BY <2>1, AskedNow
    <3>2. ASSUME NEW y \in Process \ {s}, stage[y] \in Naming, want[y] = n PROVE n \in raced'
      BY <3>1, <3>2 DEF Races, Naming
    <3>3. CASE q = s
      BY <1>1, <2>0, <3>1, <3>2, <3>3
    <3>4. CASE x = s
      BY <1>1, <2>0, <3>1, <3>2, <3>4
    <3>5. CASE q # s /\ x # s
      BY <1>1, <2>0, <3>5 DEF AskedTwice
    <3> QED
      BY <3>3, <3>4, <3>5
  <2>2. CASE ~Asks(s)
    <3>1. \A y \in Process : stage'[y] \in Naming => stage[y] \in Naming /\ want'[y] = want[y]
      BY <2>0, <2>2, NamingMoves
    <3> QED
      BY <1>1, <2>0, <3>1 DEF AskedTwice
  <2> QED
    BY <2>1, <2>2
<1> QED
  BY <1>1 DEF AskedTwice

LEMMA AskedAndThereStep ==
  ASSUME Base, Owners, EntriesMatch, AskedTwice, AskedAndThere, NEW s \in Process,
         ProcessStep(s),
         AccountsTypeOK', NEW k, Touches(s, k), ~torn', ~strayed'
  PROVE  AskedAndThere'
<1>0. /\ raced \subseteq raced' /\ haunted \subseteq haunted'
      /\ \A y \in Process \ {s} : stage'[y] = stage[y] /\ want'[y] = want[y]
  BY DEF Touches, OthersStay
<1>1. ASSUME NEW q \in Process, NEW j \in DOMAIN passfile' \ haunted', stage'[q] \in Pending,
             passfile'[j].userid = want'[q]
      PROVE  want'[q] \in raced'
  <2>1. CASE Asks(s) /\ q = s
    <3>1. PICK n \in UserId : /\ want'[s] = n /\ Races(s, n) /\ stage[s] \in {"out", "rename"}
                              /\ passfile' = passfile /\ haunted' = haunted
      BY <2>1, AskedNow
    <3> QED
      BY <1>1, <2>1, <3>1, NameLooked DEF Plain, Owner
  <2>2. CASE ~(Asks(s) /\ q = s)
    <3>1. stage[q] \in Pending /\ stage[q] \in Naming /\ want'[q] = want[q]
      <4>1. CASE q = s
        BY <1>1, <2>2, <4>1, NamingMoves DEF Pending
      <4>2. CASE q # s
        BY <1>0, <1>1, <4>2 DEF Pending
      <4> QED
        BY <4>1, <4>2
    <3>2. want[q] \in UserId
      BY <3>1 DEF Base, NamesOfPeople
    <3>3. CASE Remakes(s, j)
      <4>1. stage[s] \in Pending /\ stage'[s] \notin Pending /\ passfile'[j].userid = want[s]
        BY <1>1, <3>1, <3>2, <3>3, NameGiven, BaseFacts DEF Owner
      <4>2. q # s /\ stage[s] \in Naming
        BY <1>1, <4>1 DEF Pending
      <4>3. want[q] \in raced
        BY <1>1, <3>1, <4>1, <4>2 DEF AskedTwice
      <4> QED
        BY <1>0, <3>1, <4>3
    <3>4. CASE ~Remakes(s, j)
      <4>1. j \in DOMAIN passfile /\ Owner(j)' = Owner(j)
        BY <3>4, KeptElse
      <4>2. j \in Plain /\ Owner(j) = want[q]
        BY <1>0, <1>1, <3>1, <4>1 DEF Plain, Owner
      <4> QED
        BY <1>0, <3>1, <4>2 DEF AskedAndThere
    <3> QED
      BY <3>3, <3>4
  <2> QED
    BY <2>1, <2>2
<1> QED
  BY <1>1 DEF AskedAndThere, Plain, Owner

(* Two records that nobody disturbed have one name only after a race for it.  *)
UniqueNames ==
  \A i, j \in Plain : Owner(i) = Owner(j) /\ i # j => Owner(i) \in raced \cup {Nobody, Newcomer}

LEMMA UniqueNamesStep ==
  ASSUME Base, Owners, AskedAndThere, UniqueNames, NEW s \in Process, ProcessStep(s),
         AccountsTypeOK', NEW k, Touches(s, k), ~torn', ~strayed'
  PROVE  UniqueNames'
<1>0. raced \subseteq raced' /\ haunted \subseteq haunted'
  BY DEF Touches
<1> DEFINE Common(n) == n \in raced' \cup {Nobody, Newcomer}
<1>1. ASSUME NEW i \in DOMAIN passfile' \ haunted', Remakes(s, i),
             NEW j \in DOMAIN passfile' \ haunted', i # j, passfile'[i].userid = passfile'[j].userid
      PROVE  Common(passfile'[i].userid)
  <2>1. SUFFICES ASSUME passfile'[i].userid \notin {Nobody, Newcomer}
                 PROVE  Common(passfile'[i].userid)
    OBVIOUS
  <2>2. /\ stage[s] \in Pending /\ passfile'[i].userid = want[s] /\ ~Remakes(s, j)
    BY <1>1, <2>1, NameGiven DEF Owner
  <2>3. j \in DOMAIN passfile /\ Owner(j)' = Owner(j)
    BY <2>2, KeptElse
  <2>4. j \in Plain /\ Owner(j) = want[s]
    BY <1>0, <1>1, <2>2, <2>3 DEF Plain, Owner
  <2>5. want[s] \in raced
    BY <2>2, <2>4 DEF AskedAndThere
  <2> QED
    BY <1>0, <2>2, <2>5
<1>2. ASSUME NEW i \in DOMAIN passfile' \ haunted', ~Remakes(s, i),
             NEW j \in DOMAIN passfile' \ haunted', ~Remakes(s, j),
             i # j, passfile'[i].userid = passfile'[j].userid
      PROVE  Common(passfile'[i].userid)
  <2>1. i \in DOMAIN passfile /\ Owner(i)' = Owner(i)
        /\ j \in DOMAIN passfile /\ Owner(j)' = Owner(j)
    BY <1>2, KeptElse
  <2>2. i \in Plain /\ j \in Plain /\ Owner(i) = Owner(j)
    BY <1>0, <1>2, <2>1 DEF Plain, Owner
  <2>3. Owner(i) \in raced \cup {Nobody, Newcomer}
    BY <1>2, <2>2 DEF UniqueNames
  <2> QED
    BY <1>0, <2>1, <2>3 DEF Owner
<1> HIDE DEF Common
<1>3. \A i, j \in DOMAIN passfile' \ haunted' :
        passfile'[i].userid = passfile'[j].userid /\ i # j => Common(passfile'[i].userid)
  BY <1>1, <1>2
<1> QED
  BY <1>3 DEF UniqueNames, Plain, Owner, Common

(* NameUnique, made inductive.                                               *)
Asking == Listing /\ AskedTwice /\ (Calm => AskedAndThere /\ UniqueNames)

LEMMA AskingInit == AccountsInit => Asking
<1> SUFFICES ASSUME AccountsInit PROVE Asking
  OBVIOUS
<1>1. \A s \in Process : stage[s] \notin Naming
  BY InitEmpty DEF Naming, Registering
<1>2. AskedTwice /\ AskedAndThere
  BY <1>1 DEF AskedTwice, AskedAndThere, Pending
<1>3. UniqueNames
  BY InitEmpty DEF UniqueNames, Plain
<1> QED
  BY <1>2, <1>3, ListingInit DEF Asking

LEMMA AskingStep ==
  ASSUME Asking, NEW s \in Process, ProcessStep(s)
  PROVE  Asking'
<1>1. Listing /\ Listing' /\ Base /\ AccountsTypeOK'
  BY ListingStep DEF Asking, Listing, Owning, Base
<1>2. PICK k \in 0..MaxUsers : Touches(s, k)
  BY <1>1, StepTypes
<1>3. AskedTwice'
  BY <1>1, <1>2, AskedTwiceStep DEF Asking
<1>4. ASSUME ~torn', ~strayed'
      PROVE  AskedAndThere' /\ UniqueNames'
  <2>1. Owners /\ EntriesMatch /\ AskedTwice /\ AskedAndThere /\ UniqueNames
    BY <1>2, <1>4 DEF Asking, Listing, Owning, Calm, Touches
  <2> QED
    BY <1>1, <1>2, <1>4, <2>1, AskedAndThereStep, UniqueNamesStep
<1> QED
  BY <1>1, <1>3, <1>4 DEF Asking, Calm

LEMMA AskingIdle ==
  ASSUME Asking, Tick \/ UNCHANGED accountVars
  PROVE  Asking'
<1>1. Listing'
  BY ListingIdle DEF Asking
<1>2. UNCHANGED <<passfile, stage, want, history>>
  BY DEF Tick, accountVars, file
<1> QED
  BY <1>1, <1>2 DEF Asking, AskedTwice, AskedAndThere, UniqueNames, Calm, Plain, Owner, history

LEMMA AccountsAsking == AccountsSpec => []Asking
<1>1. Asking /\ [AccountsNext]_accountVars => Asking'
  BY AskingStep, AskingIdle DEF AccountsNext
<1> QED
  BY <1>1, AskingInit, PTL DEF AccountsSpec

(* A name that two records have was asked for by two sessions at once, or by  *)
(* one while the account was still in the list.                              *)
THEOREM AccountsNameUnique == AccountsSpec => []NameUnique
<1>1. Asking => NameUnique
  BY DEF Asking, UniqueNames, NameUnique, Calm, Disturbed, Plain, Owner
<1> QED
  BY <1>1, AccountsAsking, PTL

-----------------------------------------------------------------------------
(* Levels.  A copy whose level is out of date is marked as late, or its       *)
(* session is lost.                                                          *)
LevelsOf(q, i) ==
  /\ stage[q] \in OnLine /\ usernum[q] = i /\ ~late[q].currentuser =>
       currentuser[q].level = passfile[i].level
  /\ stage[q] \in Dialogue /\ id[q] = i /\ ~late[q].lookupuser =>
       lookupuser[q].level = passfile[i].level

(* q has no copy of record i that it did not have before the step.           *)
Carries(q, i) ==
  /\ stage'[q] \in OnLine /\ usernum'[q] = i =>
       stage[q] \in OnLine /\ usernum[q] = i /\ currentuser'[q] = currentuser[q]
  /\ stage'[q] \in Dialogue /\ id'[q] = i =>
       stage[q] \in Dialogue /\ id[q] = i /\ lookupuser'[q] = lookupuser[q]

LEMMA LateSet ==
  ASSUME Base, NEW s \in Process, NEW b \in BOOLEAN
  PROVE  /\ SetLate(s, "currentuser", b) =>
              late'[s].currentuser = b /\ late'[s].lookupuser = late[s].lookupuser
         /\ SetLate(s, "lookupuser", b) =>
              late'[s].lookupuser = b /\ late'[s].currentuser = late[s].currentuser
<1>1. /\ late \in [Process -> [currentuser : BOOLEAN, lookupuser : BOOLEAN]]
      /\ late[s] \in [currentuser : BOOLEAN, lookupuser : BOOLEAN]
  BY DEF Base, AccountsTypeOK
<1>2. ASSUME SetLate(s, "currentuser", b)
      PROVE  late'[s].currentuser = b /\ late'[s].lookupuser = late[s].lookupuser
  <2>1. late'[s] = [late[s] EXCEPT !["currentuser"] = b]
    BY <1>1, <1>2 DEF SetLate
  <2> QED
    BY <1>1, <2>1
<1>3. ASSUME SetLate(s, "lookupuser", b)
      PROVE  late'[s].lookupuser = b /\ late'[s].currentuser = late[s].currentuser
  <2>1. late'[s] = [late[s] EXCEPT !["lookupuser"] = b]
    BY <1>1, <1>3 DEF SetLate
  <2> QED
    BY <1>1, <2>1
<1> QED
  BY <1>2, <1>3

LEMMA LateElse ==
  ASSUME Base, NEW s \in Process, ProcessStep(s), NEW q \in Process \ {s},
         ~Rewrites(s), ~DUser(s), ~RenameWrite(s), ~Create(s)
  PROVE  late'[q] = late[q]
<1>0. late \in [Process -> [currentuser : BOOLEAN, lookupuser : BOOLEAN]]
  BY DEF Base, AccountsTypeOK
<1>1. \A c, b : SetLate(s, c, b) => late'[q] = late[q]
  BY <1>0 DEF SetLate
<1>2. CASE ReloadFill(s) \/ CleanKill(s) \/ NewRecord(s) \/ ListSteps(s)
  BY <1>1, <1>2 DEF ReloadFill, CleanKill, NewRecord, ListSteps, DUserListed, RenameListed,
     NewListed, CreateListed
<1>3. CASE ReloadStart(s) \/ ReloadRead(s) \/ ReloadEnd(s) \/ AbortBbs(s)
  BY <1>0, <1>3 DEF ReloadStart, ReloadRead, ReloadEnd, AbortBbs, End, history
<1>4. CASE SetSafeRecord(s) \/ UserDefine(s) \/ Info(s) \/ InfoRenew(s) \/ EditRenew(s)
  BY <1>1, <1>4 DEF SetSafeRecord, UserDefine, Info, InfoRenew, EditRenew
<1>5. CASE CleanStart(s) \/ CleanRead(s) \/ CleanEnd(s) \/ Lock(s)
  BY <1>5 DEF CleanStart, CleanRead, CleanEnd, Lock, history
<1>6. CASE Recheck(s)
  BY <1>1, <1>6 DEF Recheck, Become
<1>7. ASSUME NEW n \in role.types[s], Login(s, n) \/ Check(s, n) \/ RenameCheck(s, n)
      PROVE  late'[q] = late[q]
  BY <1>1, <1>7 DEF Login, Become, Check, RenameCheck
<1>8. ASSUME NEW n \in role.types[s], NEW c, NEW l, Consult(s, n, c, l)
      PROVE  late'[q] = late[q]
  BY <1>1, <1>8 DEF Consult
<1> QED
  BY <1>2, <1>3, <1>4, <1>5, <1>6, <1>7, <1>8 DEF ProcessStep, Rewrites, ListSteps

(* Who copied the record before it was written is late, or has its level.     *)
LEMMA WrittenLevels ==
  ASSUME Base, Owners, NEW s \in Process, NEW rec, NEW k, Writes(s, rec, k),
         NEW q \in Process \ lost, NEW i \in Plain, Owner(i)' = Owner(i),
         Carries(q, i), LevelsOf(q, i)
  PROVE  LevelsOf(q, i)'
<1>0. late'[q].currentuser \in BOOLEAN /\ late[q].currentuser \in BOOLEAN
      /\ late'[q].lookupuser \in BOOLEAN /\ late[q].lookupuser \in BOOLEAN
  BY DEF Writes, Base, AccountsTypeOK
<1>1. ASSUME stage'[q] \in OnLine, usernum'[q] = i, ~late'[q].currentuser
      PROVE  currentuser'[q].level = passfile'[i].level
  <2>1. stage[q] \in OnLine /\ usernum[q] = i /\ currentuser'[q] = currentuser[q]
    BY <1>1 DEF Carries
  <2>2. ~(late[q].currentuser
          \/ (stage[q] \in OnLine /\ usernum[q] = k /\ Outdated(currentuser[q], rec)))
    BY <1>1, Zenon DEF Writes
  <2>3. ~late[q].currentuser
    BY <2>2
  <2>4. currentuser[q].level = passfile[i].level
    BY <2>1, <2>3 DEF LevelsOf
  <2>5. CASE i = k
    <3>1. rec.userid = Owner(i) /\ passfile'[i] = rec
      BY <2>5 DEF Writes, Owner
    <3>2. currentuser[q].userid = Owner(i)
      BY <2>1 DEF Owners, OwnCopies, Sure
    <3>3. ~Outdated(currentuser[q], rec)
      BY <2>1, <2>2, <2>5
    <3> QED
      BY <2>1, <3>1, <3>2, <3>3 DEF Outdated
  <2>6. CASE i # k
    BY <2>1, <2>4, <2>6 DEF Writes, Plain
  <2> QED
    BY <2>5, <2>6
<1>2. ASSUME stage'[q] \in Dialogue, id'[q] = i, ~late'[q].lookupuser
      PROVE  lookupuser'[q].level = passfile'[i].level
  <2>1. stage[q] \in Dialogue /\ id[q] = i /\ lookupuser'[q] = lookupuser[q]
    BY <1>2 DEF Carries
  <2>2. ~(stage'[q] \in Dialogue
          /\ (late[q].lookupuser \/ (id[q] = k /\ Outdated(lookupuser[q], rec))))
    BY <1>2, Zenon DEF Writes
  <2>3. ~late[q].lookupuser
    BY <1>2, <2>2
  <2>4. lookupuser[q].level = passfile[i].level
    BY <2>1, <2>3 DEF LevelsOf
  <2>5. CASE i = k
    <3>1. rec.userid = Owner(i) /\ passfile'[i] = rec
      BY <2>5 DEF Writes, Owner
    <3>2. lookupuser[q].userid = Owner(i)
      BY <2>1 DEF Owners, OwnCopies, Sure
    <3>3. ~Outdated(lookupuser[q], rec)
      BY <1>2, <2>1, <2>2, <2>5
    <3> QED
      BY <2>1, <3>1, <3>2, <3>3 DEF Outdated
  <2>6. CASE i # k
    BY <2>1, <2>4, <2>6 DEF Writes, Plain
  <2> QED
    BY <2>5, <2>6
<1> QED
  BY <1>1, <1>2 DEF LevelsOf

LEMMA WritersCarry ==
  ASSUME Base, NEW s \in Process, AccountsTypeOK', NEW i, ~Remakes(s, i),
         Rewrites(s) \/ DUser(s) \/ RenameWrite(s) \/ Create(s)
  PROVE  Carries(s, i)
<1> USE DEF OnLine, Dialogue
<1>1. CASE WriteBack(s) \/ EndDialogue(s)
  <2>1. stage[s] \in OnLine /\ stage'[s] = "on" /\ StaysSame(s)
    BY <1>1, PlainMoves DEF Moves
  <2>2. currentuser' = currentuser
    BY <1>1 DEF WriteBack, EndDialogue
  <2> QED
    BY <2>1, <2>2 DEF Carries, StaysSame
<1>2. CASE XLevel(s) \/ RenameWrite(s)
  <2>1. stage[s] \in OnLine /\ stage'[s] = "on" /\ StaysSame(s)
    BY <1>2, PlainMoves DEF Moves
  <2>2. currentuser' = currentuser
    BY <1>2 DEF XLevel, RenameWrite
  <2> QED
    BY <2>1, <2>2 DEF Carries, StaysSame
<1>3. CASE ThesisMode(s) \/ Offline(s)
  BY <1>3, OtherMoves DEF Moves, KeepsName, Carries
<1>4. CASE DUser(s)
  BY <1>4, OtherMoves DEF Moves, KeepsName, Carries, Remakes
<1>5. CASE Create(s)
  BY <1>5, PlainMoves DEF Moves, Carries
<1> QED
  BY <1>1, <1>2, <1>3, <1>4, <1>5 DEF Rewrites

(* set_safe_record renews the copy that the session remembers.               *)
LEMMA CopyRenewed ==
  ASSUME Base, NEW s \in Process, AccountsTypeOK',
         SetSafeRecord(s) \/ InfoRenew(s) \/ EditRenew(s) \/ RenameListed(s)
  PROVE  /\ usernum'[s] = usernum[s] /\ currentuser'[s].level = passfile[usernum[s]].level
         /\ KeepsCopy(s) /\ late'[s].lookupuser = late[s].lookupuser
         /\ stage'[s] \in Dialogue => stage[s] \in Dialogue
         /\ stage[s] \in OnLine
<1> USE DEF OnLine, Dialogue
<1>0. /\ currentuser \in [Process -> Userec] /\ usernum \in [Process -> 0..MaxUsers]
      /\ lookupuser \in [Process -> Userec] /\ now \in 0..MaxTime
  BY DEF Base, AccountsTypeOK
<1>1. stage[s] \in {"enter", "on", "info", "edit", "confirm"}
  BY DEF SetSafeRecord, InfoRenew, EditRenew, RenameListed
<1>2. passfile[usernum[s]] \in Userec
  BY <1>1, BaseFacts DEF Base, RecordsExist
<1>3. \E c \in Userec : SetCopy(s, Renewed(c, passfile[usernum[s]]), usernum[s])
  <2>1. CASE SetSafeRecord(s)
    <3> DEFINE c == IF stage[s] = "enter" THEN [currentuser[s] EXCEPT !.lastlogin = now]
                    ELSE currentuser[s]
    <3>1. c \in Userec
      BY <1>0, ChangedRecords
    <3>2. SetCopy(s, Renewed(c, passfile[usernum[s]]), usernum[s])
      BY <2>1 DEF SetSafeRecord
    <3> HIDE DEF c
    <3> QED
      BY <3>1, <3>2
  <2>2. CASE InfoRenew(s)
    BY <1>0, <2>2 DEF InfoRenew
  <2>3. CASE EditRenew(s) \/ RenameListed(s)
    BY <1>0, <2>3 DEF EditRenew, RenameListed
  <2> QED
    BY <2>1, <2>2, <2>3
<1>4. PICK c \in Userec : SetCopy(s, Renewed(c, passfile[usernum[s]]), usernum[s])
  BY <1>3
<1>5. usernum'[s] = usernum[s] /\ currentuser'[s] = Renewed(c, passfile[usernum[s]])
  BY <1>0, <1>4 DEF SetCopy
<1>6. currentuser'[s].level = passfile[usernum[s]].level
  BY <1>2, <1>5 DEF Renewed, Userec
<1>7. SetLate(s, "currentuser", FALSE) /\ UNCHANGED <<lookupuser, id>>
  BY DEF SetSafeRecord, InfoRenew, EditRenew, RenameListed
<1>8. stage'[s] = "safe" \/ stage[s] \in {"info", "edit", "confirm"}
  <2>1. SetSafeRecord(s) => stage'[s] = "safe"
    BY PlainMoves
  <2> QED
    BY <2>1 DEF InfoRenew, EditRenew, RenameListed
<1>9. stage'[s] \in Dialogue => stage[s] \in Dialogue
  BY <1>8
<1> QED
  BY <1>1, <1>5, <1>6, <1>7, <1>9, LateSet DEF KeepsCopy

LEMMA LookedLevels ==
  ASSUME Base, NEW s \in Process, ProcessStep(s), AccountsTypeOK', NEW i \in DOMAIN passfile,
         ~Rewrites(s), ~DUser(s), ~RenameWrite(s), ~Create(s),
         passfile'[i].level = passfile[i].level, LevelsOf(s, i)
  PROVE  LevelsOf(s, i)'
<1> USE DEF OnLine, Dialogue
<1>0. /\ late[s].currentuser \in BOOLEAN /\ late[s].lookupuser \in BOOLEAN
      /\ late'[s].currentuser \in BOOLEAN /\ late'[s].lookupuser \in BOOLEAN
  BY DEF Base, AccountsTypeOK
<1>1. ASSUME stage'[s] \notin OnLine
      PROVE  LevelsOf(s, i)'
  BY <1>1 DEF LevelsOf
<1>2. ASSUME CleanStart(s) \/ CleanRead(s) \/ CleanKill(s) \/ NewRecord(s) \/ AbortBbs(s)
      PROVE  LevelsOf(s, i)'
  <2>1. stage'[s] \notin OnLine
    BY <1>2, OtherMoves DEF Moves
  <2> QED
    BY <1>1, <2>1
<1>3. ASSUME CleanEnd(s) \/ Lock(s) \/ NewListed(s) \/ CreateListed(s)
      PROVE  LevelsOf(s, i)'
  <2>1. stage'[s] \notin OnLine
    BY <1>3, PlainMoves DEF Moves
  <2> QED
    BY <1>1, <2>1
<1>4. ASSUME KeepsName(s), KeepsCopy(s), late' = late,
             stage'[s] \in OnLine => stage[s] \in OnLine,
             stage'[s] \in Dialogue => stage[s] \in Dialogue
      PROVE  LevelsOf(s, i)'
  BY <1>4 DEF LevelsOf, KeepsName, KeepsCopy
<1>5. ASSUME ReloadSteps(s)
      PROVE  LevelsOf(s, i)'
  <2>1. KeepsName(s) /\ KeepsCopy(s) /\ late' = late
    BY <1>5 DEF ReloadSteps, ReloadStart, ReloadRead, ReloadFill, ReloadEnd, KeepsName,
       KeepsCopy, history
  <2>2. stage'[s] = stage[s]
    BY <1>5, PlainMoves DEF ReloadSteps
  <2> QED
    BY <1>4, <2>1, <2>2
<1>6. ASSUME DUserListed(s)
      PROVE  LevelsOf(s, i)'
  <2>1. KeepsName(s) /\ KeepsCopy(s) /\ late' = late
    BY <1>6 DEF DUserListed, KeepsName, KeepsCopy
  <2>2. stage[s] = "deleted" /\ stage'[s] = "on"
    BY <1>6, PlainMoves DEF Moves
  <2> QED
    BY <1>4, <2>1, <2>2
<1>7. ASSUME SetSafeRecord(s) \/ InfoRenew(s) \/ EditRenew(s) \/ RenameListed(s)
      PROVE  LevelsOf(s, i)'
  BY <1>7, CopyRenewed DEF LevelsOf, KeepsCopy
<1>8. ASSUME Recheck(s)
      PROVE  LevelsOf(s, i)'
  BY <1>8, OtherMoves DEF LevelsOf
<1>9. ASSUME UserDefine(s)
      PROVE  LevelsOf(s, i)'
  <2> DEFINE n == SearchUser(currentuser[s].userid)
  <2>1. /\ Moves(s, "on", "dialogue") /\ KeepsName(s)
        /\ id'[s] = n /\ lookupuser'[s] = passfile[n]
    BY <1>9, OtherMoves
  <2>2. late'[s].currentuser = late[s].currentuser
    BY <1>9, LateSet DEF UserDefine
  <2> HIDE DEF n
  <2> QED
    BY <2>1, <2>2 DEF LevelsOf, Moves, KeepsName
<1>10. ASSUME Info(s)
       PROVE  LevelsOf(s, i)'
  <2>1. /\ Moves(s, "on", "info") /\ KeepsName(s)
        /\ id'[s] = usernum[s] /\ lookupuser'[s] = currentuser[s]
    BY <1>10, OtherMoves
  <2>2. late'[s].currentuser = late[s].currentuser /\ late'[s].lookupuser = late[s].currentuser
    BY <1>0, <1>10, LateSet DEF Info
  <2> QED
    BY <2>1, <2>2 DEF LevelsOf, Moves, KeepsName
<1>11. ASSUME NEW n \in role.types[s], Login(s, n) \/ Check(s, n)
       PROVE  LevelsOf(s, i)'
  BY <1>11, NameMoves DEF LevelsOf, Moves
<1>12. ASSUME NEW n \in role.types[s], RenameCheck(s, n)
       PROVE  LevelsOf(s, i)'
  <2>1. late' = late
    BY <1>12 DEF RenameCheck
  <2>2. stage[s] = "rename" /\ KeepsName(s) /\ KeepsCopy(s)
    BY <1>12, NameMoves DEF Moves
  <2> QED
    BY <1>4, <2>1, <2>2
<1>13. ASSUME NEW n \in role.types[s], NEW c,
              NEW l \in {"level", "delete", "edit", "rename", "dialogue"}, Consult(s, n, c, l)
       PROVE  LevelsOf(s, i)'
  <2> DEFINE j == SearchUser(n)
  <2>1. /\ Moves(s, "on", l) /\ KeepsName(s)
        /\ id'[s] = j /\ lookupuser'[s] = passfile[j]
    BY <1>13, NameMoves
  <2>2. late'[s].currentuser = late[s].currentuser
    BY <1>13, LateSet DEF Consult
  <2> HIDE DEF j
  <2> QED
    BY <2>1, <2>2 DEF LevelsOf, Moves, KeepsName
<1> QED
  BY <1>2, <1>3, <1>5, <1>6, <1>7, <1>8, <1>9, <1>10, <1>11, <1>12, <1>13
     DEF ProcessStep, ReloadSteps, Rewrites

LEMMA UnwrittenStays ==
  ASSUME Base, NEW s \in Process, ProcessStep(s), NEW i \in DOMAIN passfile, ~Remakes(s, i),
         ~Rewrites(s), ~DUser(s), ~RenameWrite(s), ~Create(s)
  PROVE  passfile'[i] = passfile[i]
<1>1. CASE Looks(s) \/ ReloadFill(s) \/ ListSteps(s)
  <2>1. passfile' = passfile
    <3>1. CASE ReloadFill(s) \/ ListSteps(s)
      BY <3>1, NamesListed DEF ReloadFill, file, ListSteps, Lists
    <3>2. CASE Looks(s)
      BY <3>2 DEF Looks, ReloadStart, ReloadRead, ReloadEnd, AbortBbs, SetSafeRecord,
         UserDefine,
         Info, InfoRenew, EditRenew, CleanStart, CleanRead, CleanEnd, Lock, Recheck, Login, Check,
         RenameCheck, Consult, file
    <3> QED
      BY <1>1, <3>1, <3>2
  <2> QED
    BY <2>1
<1>2. CASE CleanKill(s)
  <2>1. id[s] # i /\ Touches(s, id[s])
    BY <1>2, ClearTypes DEF Remakes
  <2> QED
    BY <2>1 DEF Touches
<1>3. CASE NewRecord(s)
  <2>1. CASE NewStarted(s) /\ Touches(s, SearchNewUser)
    <3>1. SearchNewUser # i
      BY <1>3, <2>1 DEF Remakes
    <3> QED
      BY <2>1, <3>1 DEF Touches
  <2>2. CASE NoneStarted(s)
    BY <2>2 DEF NoneStarted
  <2> QED
    BY <1>3, <2>1, <2>2, NewTypes
<1> QED
  BY <1>1, <1>2, <1>3, StepKinds

LEMMA LevelCopiesStep ==
  ASSUME Base, Owners, LevelCopies, NEW s \in Process, ProcessStep(s), AccountsTypeOK',
         NEW k, Touches(s, k), ~torn', ~strayed'
  PROVE  LevelCopies'
<1>1. ASSUME NEW q \in Process \ lost', NEW i \in DOMAIN passfile' \ haunted'
      PROVE  LevelsOf(q, i)'
  <2>0. q \notin lost /\ haunted \subseteq haunted'
    BY DEF Touches
  <2>1. CASE Remakes(s, i)
    <3>1. Fresh(s, i)
      BY <2>1, RemakesFresh
    <3>2. Dialogue \subseteq Holding /\ Dialogue \subseteq OnLine
      BY DEF Holding, OnLine
    <3>3. /\ stage'[q] \in OnLine => usernum'[q] # i
          /\ stage'[q] \in Dialogue /\ id'[q] = i => q = s /\ stage'[s] = "deleted"
      BY <3>1, <3>2 DEF Fresh
    <3>4. CASE stage'[s] = "deleted" /\ id'[s] = i
      <4>1. DUser(s)
        <5>1. ~DUser(s) => stage[s] = "deleted"
          BY <3>4, MidMoves
        <5>2. stage[s] = "deleted" => ~Remakes(s, i)
          BY DEF Remakes, RenameWrite, Create, CleanKill, NewRecord, DUser
        <5> QED
          BY <2>1, <5>1, <5>2
      <4> DEFINE r == [lookupuser[s] EXCEPT !.userid = Nobody, !.level = 0]
      <4>2. Writes(s, r, id[s]) /\ id'[s] = id[s]
        BY <4>1, CopiesWritten, OtherMoves
      <4>3. lookupuser' = [lookupuser EXCEPT ![s] = r]
        BY <4>1 DEF DUser
      <4> HIDE DEF r
      <4>4. lookupuser'[s] = r /\ passfile'[i] = r
        BY <3>4, <4>2, <4>3 DEF Writes, Base, AccountsTypeOK
      <4> QED
        BY <3>3, <4>4 DEF LevelsOf
    <3> QED
      BY <3>3, <3>4 DEF LevelsOf
  <2>2. CASE ~Remakes(s, i)
    <3>1. i \in DOMAIN passfile /\ Owner(i)' = Owner(i)
      BY <2>2, KeptElse
    <3>2. i \in Plain
      BY <2>0, <3>1 DEF Plain
    <3>3. LevelsOf(q, i)
      BY <2>0, <3>2 DEF LevelCopies, LevelsOf, Sure
    <3>4. q # s => Carries(q, i)
      BY DEF Touches, OthersStay, Carries
    <3>5. CASE Rewrites(s) \/ DUser(s) \/ RenameWrite(s) \/ Create(s)
      <4>1. Carries(q, i)
        BY <2>2, <3>4, <3>5, WritersCarry
      <4>2. \E r, n : Writes(s, r, n)
        BY <3>5, CopiesWritten DEF Rewrites
      <4> QED
        BY <2>0, <3>1, <3>2, <3>3, <4>1, <4>2, WrittenLevels
    <3>6. CASE ~(Rewrites(s) \/ DUser(s) \/ RenameWrite(s) \/ Create(s))
      <4>1. passfile'[i] = passfile[i]
        BY <2>2, <3>1, <3>6, UnwrittenStays
      <4>2. CASE q = s
        BY <3>1, <3>3, <3>6, <4>1, <4>2, LookedLevels
      <4>3. CASE q # s
        <5>1. late'[q] = late[q]
          BY <3>6, <4>3, LateElse
        <5> QED
          BY <3>3, <3>4, <4>1, <4>3, <5>1 DEF Carries, LevelsOf
      <4> QED
        BY <4>2, <4>3
    <3> QED
      BY <3>5, <3>6
  <2> QED
    BY <2>1, <2>2
<1> QED
  BY <1>1 DEF LevelCopies, LevelsOf, Sure, Plain

LEMMA EmptyLevelStep ==
  ASSUME Base, Owners, EmptyLevel, NEW s \in Process, ProcessStep(s), AccountsTypeOK',
         NEW k, Touches(s, k), ~torn', ~strayed'
  PROVE  EmptyLevel'
<1>1. ASSUME NEW i \in DOMAIN passfile' \ haunted', passfile'[i].userid = Nobody
      PROVE  passfile'[i].level = 0
  <2>0. haunted \subseteq haunted'
    BY DEF Touches
  <2>1. CASE Remakes(s, i)
    <3>1. DUser(s) \/ CleanKill(s)
      <4>1. RenameWrite(s) /\ id[s] = i => FALSE
        BY <1>1, RenameFresh, BaseFacts
      <4>2. Create(s) /\ id[s] = i => FALSE
        BY <1>1, CreateFresh, BaseFacts
      <4>3. NewRecord(s) /\ NewStarted(s) /\ SearchNewUser = i => FALSE
        BY <1>1, NewFresh, BaseFacts
      <4> QED
        BY <2>1, <4>1, <4>2, <4>3 DEF Remakes
    <3>2. CASE DUser(s)
      <4> DEFINE r == [lookupuser[s] EXCEPT !.userid = Nobody, !.level = 0]
      <4>1. r.level = 0
        BY ChangedRecords DEF Base, AccountsTypeOK
      <4>2. Writes(s, r, id[s])
        BY <3>2, CopiesWritten
      <4> HIDE DEF r
      <4>3. id[s] = i
        BY <2>1, <3>2 DEF Remakes, DUser, NewRecord
      <4> QED
        BY <4>1, <4>2, <4>3 DEF Writes
    <3>3. CASE CleanKill(s)
      <4>1. id[s] = i
        BY <2>1, <3>3 DEF Remakes, CleanKill, NewRecord
      <4> QED
        BY <3>3, <4>1, ClearTypes DEF Zerorec
    <3> QED
      BY <3>1, <3>2, <3>3
  <2>2. CASE ~Remakes(s, i)
    <3>1. i \in DOMAIN passfile /\ Owner(i)' = Owner(i)
      BY <2>2, KeptElse
    <3>2. i \in Plain /\ Owner(i) = Nobody /\ passfile[i].level = 0
      BY <1>1, <2>0, <3>1 DEF Plain, Owner, EmptyLevel
    <3>3. CASE Rewrites(s) \/ DUser(s) \/ RenameWrite(s) \/ Create(s)
      <4>1. ASSUME NEW r, NEW n, Writes(s, r, n),
                   s \in lost \/ r.userid \in UserId \/ n # i \/ r = passfile[i]
            PROVE  passfile'[i] = passfile[i]
        BY <1>1, <3>1, <3>2, <4>1, BaseFacts DEF Writes
      <4>2. ASSUME NEW r, NEW n, Writes(s, r, n), s \notin lost /\ n = i => r.userid \in UserId
            PROVE  passfile'[i] = passfile[i]
        BY <4>1, <4>2
      <4>3. CASE WriteBack(s)
        <5>1. stage[s] \in OnLine
          BY <4>3 DEF WriteBack, OnLine
        <5>2. currentuser[s].userid \in UserId
          BY <5>1 DEF Base, NamesOfPeople
        <5> QED
          BY <3>2, <4>2, <4>3, <5>2, CopiesWritten
      <4>4. CASE Offline(s)
        <5> DEFINE r == [currentuser[s] EXCEPT !.level = 0]
        <5>1. stage[s] \in OnLine
          BY <4>4 DEF Offline, OnLine
        <5>2. currentuser[s].userid \in UserId
          BY <5>1 DEF Base, NamesOfPeople
        <5>3. r.userid = currentuser[s].userid /\ Writes(s, r, usernum[s])
          BY <4>4, ChangedRecords, CopiesWritten DEF Base, AccountsTypeOK
        <5> HIDE DEF r
        <5> QED
          BY <3>2, <4>2, <5>2, <5>3
      <4>5. CASE EndDialogue(s)
        <5>1. stage[s] \in Dialogue /\ stage[s] # "deleted"
          BY <4>5 DEF EndDialogue, Dialogue
        <5>2. s \notin lost /\ id[s] = i => lookupuser[s].userid \in UserId
          BY <3>2, <5>1 DEF Owners, OwnCopies, Sure
        <5> QED
          BY <3>2, <4>2, <4>5, <5>2, CopiesWritten
      <4>6. CASE XLevel(s)
        <5> DEFINE r == [lookupuser[s] EXCEPT !.level = 1 - @]
        <5>1. stage[s] \in Dialogue /\ stage[s] # "deleted"
          BY <4>6 DEF XLevel, Dialogue
        <5>2. s \notin lost /\ id[s] = i => lookupuser[s].userid \in UserId
          BY <3>2, <5>1 DEF Owners, OwnCopies, Sure
        <5>3. r.userid = lookupuser[s].userid
          BY ChangedRecords DEF Base, AccountsTypeOK
        <5>4. Writes(s, r, id[s])
          BY <4>6, CopiesWritten
        <5> HIDE DEF r
        <5> QED
          BY <3>2, <4>2, <5>2, <5>3, <5>4
      <4>7. CASE ThesisMode(s)
        <5> DEFINE n == SearchUser(currentuser[s].userid)
        <5>1. Writes(s, passfile[n], n)
          BY <4>7, CopiesWritten
        <5> HIDE DEF n
        <5>2. n # i \/ passfile[n] = passfile[i]
          OBVIOUS
        <5> QED
          BY <3>2, <4>1, <5>1, <5>2
      <4>8. CASE DUser(s) \/ RenameWrite(s) \/ Create(s)
        <5>1. id[s] # i /\ \E r : Writes(s, r, id[s])
          BY <2>2, <4>8, CopiesWritten DEF Remakes
        <5> QED
          BY <3>2, <4>1, <5>1
      <4> QED
        BY <3>3, <4>3, <4>4, <4>5, <4>6, <4>7, <4>8 DEF Rewrites
    <3>4. CASE ~(Rewrites(s) \/ DUser(s) \/ RenameWrite(s) \/ Create(s))
      <4>1. passfile'[i] = passfile[i]
        BY <2>2, <3>1, <3>4, UnwrittenStays
      <4> QED
        BY <3>2, <4>1
    <3> QED
      BY <3>3, <3>4
  <2> QED
    BY <2>1, <2>2
<1> QED
  BY <1>1 DEF EmptyLevel, Plain, Owner

(* What LevelKept needs of each state.                                       *)
Leveling == Owning /\ (Calm => LevelCopies /\ EmptyLevel)

LEMMA LevelingInit == AccountsInit => Leveling
<1> SUFFICES ASSUME AccountsInit PROVE Leveling
  OBVIOUS
<1>1. \A s \in Process : stage[s] = "out"
  BY InitEmpty
<1>2. LevelCopies
  BY <1>1 DEF LevelCopies, OnLine, Dialogue, Sure
<1>3. Base
  BY BaseInit
<1>4. EmptyLevel
  BY <1>3, InitEmpty, BaseFacts DEF EmptyLevel, Plain
<1> QED
  BY <1>2, <1>4, OwningInit DEF Leveling

LEMMA LevelingStep ==
  ASSUME Leveling, NEW s \in Process, ProcessStep(s)
  PROVE  Leveling'
<1>1. Owning /\ Owning' /\ Base /\ AccountsTypeOK'
  BY OwningStep DEF Leveling, Owning, Base
<1>2. PICK k \in 0..MaxUsers : Touches(s, k)
  BY <1>1, StepTypes
<1>3. ASSUME ~torn', ~strayed'
      PROVE  LevelCopies' /\ EmptyLevel'
  <2>1. Owners /\ LevelCopies /\ EmptyLevel
    BY <1>2, <1>3 DEF Leveling, Owning, Calm, Touches
  <2> QED
    BY <1>1, <1>2, <1>3, <2>1, LevelCopiesStep, EmptyLevelStep
<1> QED
  BY <1>1, <1>3 DEF Leveling, Calm

LEMMA LevelingIdle ==
  ASSUME Leveling, Tick \/ UNCHANGED accountVars
  PROVE  Leveling' /\ passfile' = passfile
<1>1. Owning'
  BY OwningIdle DEF Leveling
<1>2. UNCHANGED <<passfile, stage, currentuser, usernum, lookupuser, id, history>>
  BY DEF Tick, accountVars, file
<1> QED
  BY <1>1, <1>2 DEF Leveling, LevelCopies, EmptyLevel, Calm, Plain, Sure, Owner, history

(* Who may undo a level, of those who write to a record.                     *)
LEMMA LevelChanged ==
  ASSUME Base, Owners, LevelCopies, EmptyLevel, NEW s \in Process, ProcessStep(s),
         AccountsTypeOK',
         ~strayed', NEW i \in Plain, passfile'[i].userid = Owner(i),
         passfile'[i].level # passfile[i].level
  PROVE  MayChangeLevel(s)
<1>0. i \in DOMAIN passfile /\ i \in Uid /\ i \in Nat
  BY BaseFacts DEF Plain
<1>1. ASSUME NEW r, NEW n, Writes(s, r, n)
      PROVE  n = i /\ passfile'[i] = r
  BY <1>0, <1>1 DEF Writes
<1>2. CASE WriteBack(s)
  <2>1. stage[s] = "safe" /\ stage'[s] = "on"
    BY <1>2, PlainMoves DEF Moves
  <2>2. usernum[s] = i /\ passfile'[i] = currentuser[s]
    BY <1>1, <1>2, CopiesWritten
  <2>3. s \in lost \/ late[s].currentuser
    BY <2>1, <2>2 DEF LevelCopies, Sure, OnLine
  <2> QED
    BY <2>1, <2>3 DEF MayChangeLevel
<1>3. CASE Offline(s)
  BY <1>3, OtherMoves DEF Moves, MayChangeLevel
<1>4. CASE EndDialogue(s) \/ RenameWrite(s)
  <2>1. stage[s] \in Dialogue /\ stage'[s] = "on" /\ stage[s] # "on"
    BY <1>4, PlainMoves DEF Moves, Dialogue
  <2>2. id[s] = i /\ passfile'[i].level = lookupuser[s].level
    <3>1. CASE EndDialogue(s)
      BY <1>1, <3>1, CopiesWritten
    <3>2. CASE RenameWrite(s)
      <4> DEFINE r == [lookupuser[s] EXCEPT !.userid = want[s]]
      <4>1. Writes(s, r, id[s])
        BY <3>2, CopiesWritten
      <4>2. r.level = lookupuser[s].level
        BY DEF Base, AccountsTypeOK, Userec
      <4> HIDE DEF r
      <4> QED
        BY <1>1, <4>1, <4>2
    <3> QED
      BY <1>4, <3>1, <3>2
  <2>3. s \in lost \/ late[s].lookupuser
    BY <2>1, <2>2 DEF LevelCopies, Sure
  <2> QED
    BY <2>1, <2>3 DEF MayChangeLevel
<1>5. CASE XLevel(s)
  BY <1>5, PlainMoves DEF Moves, MayChangeLevel
<1>6. CASE ThesisMode(s)
  <2> DEFINE n == SearchUser(currentuser[s].userid)
  <2>1. Writes(s, passfile[n], n)
    BY <1>6, CopiesWritten
  <2> HIDE DEF n
  <2> QED
    BY <1>1, <2>1
<1>7. CASE DUser(s)
  <2> DEFINE r == [lookupuser[s] EXCEPT !.userid = Nobody, !.level = 0]
  <2>1. Writes(s, r, id[s])
    BY <1>7, CopiesWritten
  <2>2. r.userid = Nobody
    BY ChangedRecords DEF Base, AccountsTypeOK
  <2> HIDE DEF r
  <2>3. id[s] = i /\ Owner(i) = Nobody
    BY <1>1, <2>1, <2>2
  <2>4. stage[s] = "delete" /\ stage'[s] = "deleted"
    BY <1>7, OtherMoves DEF Moves
  <2>5. s \in lost
    BY <2>3, <2>4, BaseFacts DEF Owners, OwnCopies, Sure, Dialogue
  <2> QED
    BY <2>4, <2>5 DEF MayChangeLevel
<1>8. CASE Create(s)
  <2> DEFINE r == [userid |-> want[s], level |-> 0, lastlogin |-> now]
  <2>1. Writes(s, r, id[s]) /\ r.userid = want[s]
    BY <1>8, CopiesWritten
  <2> HIDE DEF r
  <2>2. id[s] = i /\ Owner(i) = want[s]
    BY <1>1, <2>1
  <2>3. stage[s] = "password" /\ stage'[s] = "created"
    BY <1>8, PlainMoves DEF Moves
  <2>4. want[s] \in UserId
    BY <2>3 DEF Base, NamesOfPeople, Naming, Registering
  <2>5. s \in lost
    BY <2>2, <2>3, <2>4, BaseFacts DEF Owners, OwnRegistration
  <2> QED
    BY <2>3, <2>5 DEF MayChangeLevel
<1>9. CASE ~Rewrites(s) /\ ~DUser(s) /\ ~RenameWrite(s) /\ ~Create(s)
  <2>1. Remakes(s, i)
    BY <1>0, <1>9, UnwrittenStays
  <2>2. CASE CleanKill(s) /\ id[s] = i
    BY <2>2, ClearTypes DEF EmptyLevel, Zerorec
  <2>3. CASE NewRecord(s) /\ NewStarted(s) /\ SearchNewUser = i
    <3>1. passfile'[i].userid = Newcomer /\ (userid[i] = Nobody \/ i = number + 1)
      BY <2>3 DEF NewStarted
    <3>2. Vacant(i)
      BY <1>0, <3>1, BaseFacts DEF Owners, FreeEntries
    <3>3. stage[s] = "search"
      BY <2>3 DEF NewRecord
    <3>4. ~Taking(i)
      BY <3>3 DEF Taking, Base, FlockHeld
    <3> QED
      BY <3>1, <3>2, <3>4, BaseFacts DEF Vacant
  <2> QED
    BY <1>9, <2>1, <2>2, <2>3 DEF Remakes
<1> QED
  BY <1>2, <1>3, <1>4, <1>5, <1>6, <1>7, <1>8, <1>9 DEF Rewrites

(* A level that is given is taken away only by an administrator, by the user, *)
(* or by a copy that was read before.                                        *)
THEOREM AccountsLevelKept == AccountsSpec => LevelKept
<1> DEFINE Kept == \A i \in Uid : (ChangesLevel(i) /\ ~Disturbed(i) /\ ~strayed') =>
                     \E s \in Process : MayChangeLevel(s)
<1>1. Leveling /\ [AccountsNext]_accountVars => Leveling'
  BY LevelingStep, LevelingIdle DEF AccountsNext
<1>2. Leveling /\ [AccountsNext]_accountVars => [Kept]_accountVars
  <2>1. SUFFICES ASSUME Leveling, [AccountsNext]_accountVars, NEW i \in Uid, ChangesLevel(i),
                        ~Disturbed(i), ~strayed'
                 PROVE  \E s \in Process : MayChangeLevel(s)
    OBVIOUS
  <2>2. PICK s \in Process : ProcessStep(s)
    BY <2>1, LevelingIdle DEF AccountsNext, ChangesLevel
  <2>3. Base /\ Owners /\ LevelCopies /\ EmptyLevel
    BY <2>1 DEF Disturbed, Calm, Leveling, Owning
  <2>4. AccountsTypeOK'
    BY <2>2, <2>3, StepTypes
  <2>5. i \in Plain /\ passfile'[i].userid = Owner(i) /\ passfile'[i].level # passfile[i].level
    BY <2>1 DEF ChangesLevel, Disturbed, Plain, Owner
  <2> QED
    BY <2>1, <2>2, <2>3, <2>4, <2>5, LevelChanged
<1>3. [][Kept]_accountVars => LevelKept
  BY DEF LevelKept
<1> QED
  BY <1>1, <1>2, <1>3, LevelingInit, PTL DEF AccountsSpec
=============================================================================
