---------------------------- MODULE ChatdProofs ------------------------------
(***************************************************************************)
(* The chat server, for any number of slots, rooms, accounts and names.      *)
(*                                                                         *)
(* Whatever a line of input does to the tables, it moves one user at most:   *)
(* Affects says what becomes of connections, accounts and counts, Orderly    *)
(* what becomes of names, ranks, ids and locks.  Each action is shown to be   *)
(* of that form (the lemmas ending in Sound); the invariants and the action  *)
(* properties are then proved once, from the form.                           *)
(***************************************************************************)
EXTENDS Chatd, FiniteSetTheorems, TLAPS

(* TypeOK but for the count of occupants, which is at first only an integer. *)
Table == [name : RoomName, occupants : Int, flags : SUBSET RoomFlag,
          invites : SUBSET Slot]

ShapeOK ==
  /\ users \in [Slot -> ChatUser]
  /\ rooms \in [Room -> Table]
  /\ num_conns \in Int
  /\ busy \in Slot \cup {None}

(* A slot without connection carries no account, no id and no rank; the       *)
(* server goes on with a chunk of it only where the next line hangs up.      *)
Vacant ==
  /\ \A u \in Slot : ~users[u].conn =>
       users[u].utent = NoClient /\ users[u].chatid = NoId /\ ~users[u].op
  /\ busy # None => users[busy].conn \/ users[busy].room = None

IInv == ShapeOK /\ Vacant /\ OccupantsExact /\ AccountOnce /\ NoInviteForFreeSlot

-----------------------------------------------------------------------------
(* The helpers of exit_room, enter_room and logout_user                      *)

LEMMA VacatedEffect ==
  ASSUME NEW rs \in [Room -> Table], NEW d \in Room \cup {None}
  PROVE  /\ Vacated(rs, d) \in [Room -> Table]
         /\ \A r \in Room :
              /\ Vacated(rs, d)[r].occupants =
                   rs[r].occupants - (IF r = d THEN 1 ELSE 0)
              /\ Vacated(rs, d)[r].invites = rs[r].invites
              /\ Vacated(rs, d)[r].flags = rs[r].flags
              /\ Vacated(rs, d)[r].name = rs[r].name
<1>1. None \notin Room
  BY ChatdAssumption DEF None, Room
<1> QED
  BY <1>1 DEF Vacated, Table

LEMMA UninvitedEffect ==
  ASSUME NEW rs \in [Room -> Table], NEW u \in Slot
  PROVE  /\ Uninvited(rs, u) \in [Room -> Table]
         /\ \A r \in Room :
              /\ Uninvited(rs, u)[r].occupants = rs[r].occupants
              /\ Uninvited(rs, u)[r].invites = rs[r].invites \ {u}
              /\ Uninvited(rs, u)[r].flags = rs[r].flags
              /\ Uninvited(rs, u)[r].name = rs[r].name
BY DEF Uninvited, Table

LEMMA ExitedEffect ==
  ASSUME NEW us \in [Slot -> ChatUser], NEW u \in Slot
  PROVE  /\ Exited(us, u) \in [Slot -> ChatUser]
         /\ \A v \in Slot \ {u} : Exited(us, u)[v] = us[v]
         /\ Exited(us, u)[u].room = None /\ Exited(us, u)[u].op = FALSE
         /\ Exited(us, u)[u].conn = us[u].conn
         /\ Exited(us, u)[u].utent = us[u].utent
         /\ Exited(us, u)[u].chatid = us[u].chatid
BY DEF Exited, ChatUser

(* Table ts is rs after u has come into room r.                              *)
ComeIn(ts, us, rs, u, r) ==
  \A s \in Room :
    /\ ts[s].occupants = rs[s].occupants - (IF s = us[u].room THEN 1 ELSE 0)
                                        + (IF s = r THEN 1 ELSE 0)
    /\ ts[s].invites = IF s = r THEN rs[s].invites \ {u} ELSE rs[s].invites
    /\ ts[s].flags = rs[s].flags
    /\ ts[s].name = rs[s].name

LEMMA EnteredEffect ==
  ASSUME NEW us \in [Slot -> ChatUser], NEW rs \in [Room -> Table],
         NEW u \in Slot, NEW r \in Room
  PROVE  /\ Entered(us, rs, u, r) \in [Room -> Table]
         /\ ComeIn(Entered(us, rs, u, r), us, rs, u, r)
<1> DEFINE vs == Vacated(rs, us[u].room)
<1>1. /\ vs \in [Room -> Table]
      /\ \A s \in Room :
           /\ vs[s].occupants = rs[s].occupants - (IF s = us[u].room THEN 1 ELSE 0)
           /\ vs[s].invites = rs[s].invites
           /\ vs[s].flags = rs[s].flags
           /\ vs[s].name = rs[s].name
  BY VacatedEffect DEF ChatUser
<1>2. Entered(us, rs, u, r) = [vs EXCEPT ![r] = Joined(vs[r], u)]
  BY <1>1 DEF Entered
<1> HIDE DEF vs
<1>3. /\ Joined(vs[r], u) \in Table
      /\ Joined(vs[r], u).occupants = vs[r].occupants + 1
      /\ Joined(vs[r], u).invites = vs[r].invites \ {u}
      /\ Joined(vs[r], u).flags = vs[r].flags
      /\ Joined(vs[r], u).name = vs[r].name
  <2>1. vs[r] \in Table
    BY <1>1
  <2>2. vs[r].occupants + 1 \in Int /\ vs[r].invites \ {u} \in SUBSET Slot
    BY <2>1 DEF Table
  <2> QED
    BY <2>1, <2>2 DEF Table, Joined
<1>4. /\ Entered(us, rs, u, r)[r] = Joined(vs[r], u)
      /\ \A s \in Room \ {r} : Entered(us, rs, u, r)[s] = vs[s]
      /\ Entered(us, rs, u, r) \in [Room -> Table]
  BY <1>1, <1>2, <1>3
<1>5. \A s \in Room : rs[s].occupants \in Int
  BY DEF Table
<1>6. ASSUME NEW s \in Room
      PROVE  /\ Entered(us, rs, u, r)[s].occupants =
                  rs[s].occupants - (IF s = us[u].room THEN 1 ELSE 0)
                                  + (IF s = r THEN 1 ELSE 0)
             /\ Entered(us, rs, u, r)[s].invites =
                  IF s = r THEN rs[s].invites \ {u} ELSE rs[s].invites
             /\ Entered(us, rs, u, r)[s].flags = rs[s].flags
             /\ Entered(us, rs, u, r)[s].name = rs[s].name
  <2>1. CASE s = r
    BY <1>1, <1>3, <1>4, <1>5, <2>1
  <2>2. CASE s # r
    BY <1>1, <1>4, <1>5, <2>2
  <2> QED
    BY <2>1, <2>2
<1> QED
  BY <1>4, <1>6 DEF ComeIn

(* enter_room either changes nothing of us and rs or moves u to room r.      *)
Moved(us, rs, u, r, op) ==
  /\ \A v \in Slot \ {u} : users'[v] = us[v]
  /\ users'[u].room = r /\ users'[u].op = op
  /\ users'[u].conn = us[u].conn /\ users'[u].utent = us[u].utent
  /\ users'[u].chatid = us[u].chatid
  /\ rooms' = Entered(us, rs, u, r)

LEMMA EnterRoomEffect ==
  ASSUME NEW us \in [Slot -> ChatUser], NEW rs \in [Room -> Table],
         NEW u \in Slot, NEW r \in Room, NEW op \in BOOLEAN,
         EnterRoom(us, rs, u, r, op)
  PROVE  /\ users' \in [Slot -> ChatUser] /\ rooms' \in [Room -> Table]
         /\ MayEnter(us, rs, u, r) => Moved(us, rs, u, r, op)
         /\ ~MayEnter(us, rs, u, r) => users' = us /\ rooms' = rs
<1>1. CASE MayEnter(us, rs, u, r)
  <2> DEFINE xs == Exited(us, u)
  <2>1. xs \in [Slot -> ChatUser] /\ xs[u].op = FALSE
        /\ xs[u].conn = us[u].conn /\ xs[u].utent = us[u].utent
        /\ xs[u].chatid = us[u].chatid
        /\ \A v \in Slot \ {u} : xs[v] = us[v]
    BY ExitedEffect
  <2>2. users' = [xs EXCEPT ![u] = Seated(xs[u], r, op)]
        /\ rooms' = Entered(us, rs, u, r)
    BY <1>1, <2>1 DEF EnterRoom
  <2> HIDE DEF xs
  <2> DEFINE user == Seated(xs[u], r, op)
  <2>3. /\ user \in ChatUser
        /\ user.room = r /\ user.op = op
        /\ user.conn = xs[u].conn /\ user.utent = xs[u].utent
        /\ user.chatid = xs[u].chatid
    <3>1. xs[u] \in ChatUser
      BY <2>1
    <3> QED
      BY <2>1, <3>1 DEF ChatUser, Seated
  <2> HIDE DEF user
  <2>5. users'[u] = user /\ (\A v \in Slot \ {u} : users'[v] = xs[v])
        /\ users' \in [Slot -> ChatUser]
    BY <2>1, <2>2, <2>3 DEF user
  <2> QED
    BY <1>1, <2>1, <2>2, <2>3, <2>5, EnteredEffect DEF Moved
<1>2. CASE ~MayEnter(us, rs, u, r)
  BY <1>2 DEF EnterRoom
<1> QED
  BY <1>1, <1>2

LEMMA ConstantFacts ==
  /\ None \notin Room /\ None \notin Slot /\ 0 \in Room /\ 0 \in Slot
  /\ IsFiniteSet(Slot)
  /\ FreeSlot \in ChatUser
<1>1. IsFiniteSet(0..(MaxActive - 1))
  BY FS_Interval, ChatdAssumption
<1> QED
  BY <1>1, ChatdAssumption DEF None, Room, Slot, FreeSlot, ChatUser

-----------------------------------------------------------------------------
(* What a step does to the tables: it moves one user w at most.             *)

Where(v) == IF users[v].conn THEN users[v].room ELSE None

(* Slots besides w keep connection, account and room; w has the account it   *)
(* had or one that nobody in the hall has; a slot w given up is cleared and   *)
(* uninvited; occupants follow w; rank and invitations are for the connected. *)
Affects(w) ==
  /\ \A v \in Slot \ {w} :
       /\ users'[v].conn = users[v].conn /\ users'[v].utent = users[v].utent
       /\ users'[v].room = users[v].room /\ users'[v].chatid = users[v].chatid
  /\ \A v \in Slot \ {w} : users'[v].op => users[v].op \/ users[v].conn
  /\ users'[w].conn =>
       users'[w].utent = users[w].utent \/ ~InHall(users'[w].utent)
  /\ ~users'[w].conn =>
       users'[w].utent = NoClient /\ users'[w].chatid = NoId /\ ~users'[w].op
  /\ \A r \in Room :
       /\ rooms'[r].occupants = rooms[r].occupants
            - (IF r = Where(w) THEN 1 ELSE 0) + (IF r = Where(w)' THEN 1 ELSE 0)
       /\ \A v \in rooms'[r].invites : v \in rooms[r].invites \/ users[v].conn
       /\ ~users'[w].conn => w \notin rooms'[r].invites

(* What a step does to names, ranks, ids and locks, w being the one who moves. *)

InUse(r) == r = 0 \/ rooms[r].occupants > 0

(* w has taken the free room r into use, under a name no other room has.     *)
Opened(w, r) ==
  /\ ~InUse(r)
  /\ users'[w].conn /\ users'[w].room = r /\ users'[w].op
  /\ rooms'[r].flags = {} /\ rooms'[r].invites = {}
  /\ \A s \in Room : InUse(s) => rooms[s].name # rooms'[r].name

Admitted(w, r) ==
  \/ users'[w].utent \in Sysop
  \/ "locked" \notin rooms'[r].flags
  \/ w \in rooms[r].invites /\ w \notin rooms'[r].invites

(* Nobody but w becomes an operator, and w by opening a room only.           *)
RankKept(w) ==
  /\ \A v \in Slot \ {w} : users'[v].op => users[v].op
  /\ users'[w].op => \/ users[w].op /\ users'[w].room = users[w].room
                     \/ users'[w].room = None
                     \/ \E r \in Room : Opened(w, r)

(* w hands the rank on to x in the same room.                                *)
RankPassed(w, x) ==
  /\ x # w /\ MayRule(w) /\ users[x].room = users[w].room
  /\ ~users'[w].op
  /\ \A v \in Slot \ {w, x} : users'[v].op => users[v].op
  /\ \A v \in Slot : users'[v].room = users[v].room

(* If nobody can cloak and ids are unique, the new id of w is w's alone.     *)
NewId(w) ==
  (Cloaker = {} /\ ChatIdsUnique) =>
    \A v \in Slot \ {w} : users[v].conn => users[v].chatid # users'[w].chatid

Orderly(w) ==
  /\ \A r \in Room : (Where(w)' = r /\ Where(w) # r) =>
       (InUse(r) \/ Opened(w, r)) /\ Admitted(w, r)
  /\ \A r \in Room : rooms'[r].name = rooms[r].name \/ Opened(w, r)
  /\ RankKept(w) \/ \E x \in Slot : RankPassed(w, x)
  /\ users'[w].chatid \in {users[w].chatid, NoId} \/ NewId(w)

(* A step in which nobody comes into a room and no rank is handed on.        *)
LEMMA QuietOrderly ==
  ASSUME NEW w \in Slot, Where(w)' \in {Where(w), None}, RankKept(w),
         \A r \in Room : rooms'[r].name = rooms[r].name,
         users'[w].chatid \in {users[w].chatid, NoId}
  PROVE  Orderly(w)
BY ConstantFacts DEF Orderly

(* When one user moves and the counts follow it, they stay exact.            *)
LEMMA Recount ==
  ASSUME ShapeOK, ShapeOK', OccupantsExact, NEW w \in Slot, Affects(w)
  PROVE  OccupantsExact'
<1> SUFFICES ASSUME NEW r \in Room
             PROVE  rooms'[r].occupants = Cardinality(Inside(r)')
  BY DEF OccupantsExact
<1> DEFINE others == {v \in Slot \ {w} : Where(v) = r}
<1>1. IsFiniteSet(others) /\ w \notin others
  BY ConstantFacts, FS_Subset
<1>2. Inside(r) = IF Where(w) = r THEN others \cup {w} ELSE others
  BY ConstantFacts DEF Inside, Where
<1>3. Inside(r)' = IF Where(w)' = r THEN others \cup {w} ELSE others
  BY ConstantFacts DEF Inside, Where, Affects
<1>4. Cardinality(others) \in Nat /\ Cardinality(others \cup {w}) = Cardinality(others) + 1
  BY <1>1, FS_AddElement, FS_CardinalityType
<1>5. rooms[r].occupants = Cardinality(Inside(r))
  BY DEF OccupantsExact
<1>6. rooms'[r].occupants = rooms[r].occupants
        - (IF r = Where(w) THEN 1 ELSE 0) + (IF r = Where(w)' THEN 1 ELSE 0)
  BY DEF Affects
<1> HIDE DEF others
<1> QED
  BY <1>2, <1>3, <1>4, <1>5, <1>6

LEMMA AffectsKeeps ==
  ASSUME IInv, ShapeOK', NEW w \in Slot, Affects(w)
  PROVE  /\ OccupantsExact' /\ AccountOnce' /\ NoInviteForFreeSlot'
         /\ \A u \in Slot : ~users'[u].conn =>
              users'[u].utent = NoClient /\ users'[u].chatid = NoId /\ ~users'[u].op
<1>1. OccupantsExact'
  BY Recount DEF IInv
<1>2. \A u \in Slot : ~users'[u].conn =>
        users'[u].utent = NoClient /\ users'[u].chatid = NoId /\ ~users'[u].op
  BY DEF Affects, IInv, Vacant
<1>3. NoInviteForFreeSlot'
  BY DEF Affects, IInv, NoInviteForFreeSlot
<1>4. AccountOnce'
  BY DEF Affects, IInv, Vacant, AccountOnce, InHall
<1> QED
  BY <1>1, <1>2, <1>3, <1>4

-----------------------------------------------------------------------------
(* One lemma for each way a command changes the tables                       *)

(* The slot a chunk belongs to is connected or about to be hung up on.       *)
ChunkOK == busy # None => users[busy].conn \/ users[busy].room = None

Sound == ShapeOK' /\ ChunkOK' /\ \E w \in Slot : Affects(w) /\ Orderly(w)

LEMMA Commanding ==
  ASSUME IInv, NEW u \in Slot, Commands(u)
  PROVE  /\ users[u].conn /\ users[u].room \in Room /\ Where(u) = users[u].room
         /\ busy' \in {None, u}
BY ConstantFacts DEF IInv, ShapeOK, Vacant, ChatUser, Commands, Turn, LineDone, Where

(* logout_user, after exit_room where the user was in a room.                *)
LEMMA LoggedOut ==
  ASSUME IInv, NEW w \in Slot,
         \A v \in Slot \ {w} : users'[v] = users[v],
         users' = [v \in Slot |-> users'[v]], users'[w] = FreeSlot,
         rooms' = Uninvited(Vacated(rooms, Where(w)), w)
  PROVE  /\ users' \in [Slot -> ChatUser] /\ rooms' \in [Room -> Table]
         /\ Affects(w) /\ Orderly(w)
<1>1. users \in [Slot -> ChatUser] /\ rooms \in [Room -> Table] /\ Where(w) \in Room \cup {None}
  BY DEF IInv, ShapeOK, Where, ChatUser
<1>2. users' \in [Slot -> ChatUser]
  BY <1>1, ConstantFacts
<1>3. users'[w].conn = FALSE /\ users'[w].utent = NoClient /\ users'[w].op = FALSE
      /\ users'[w].chatid = NoId
  BY DEF FreeSlot
<1>4. Where(w)' = None
  BY <1>3 DEF Where
<1> DEFINE left == Vacated(rooms, Where(w))
<1>5. /\ left \in [Room -> Table]
      /\ \A r \in Room :
           /\ left[r].occupants = rooms[r].occupants - (IF r = Where(w) THEN 1 ELSE 0)
           /\ left[r].invites = rooms[r].invites /\ left[r].name = rooms[r].name
  BY <1>1, VacatedEffect
<1> HIDE DEF left
<1>6. /\ rooms' \in [Room -> Table]
      /\ \A r \in Room :
           /\ rooms'[r].occupants = left[r].occupants
           /\ rooms'[r].invites = left[r].invites \ {w}
           /\ rooms'[r].name = left[r].name
  BY <1>5, UninvitedEffect DEF left
<1>7. \A r \in Room : left[r].occupants \in Int
  BY <1>5 DEF Table
<1>8. \A r \in Room : r # None
  BY ConstantFacts
<1>9. ASSUME NEW r \in Room
      PROVE  rooms'[r].occupants = rooms[r].occupants
               - (IF r = Where(w) THEN 1 ELSE 0) + (IF r = Where(w)' THEN 1 ELSE 0)
  BY <1>4, <1>5, <1>6, <1>7, <1>8
<1>10. Affects(w)
  BY <1>2, <1>3, <1>5, <1>6, <1>9 DEF Affects
<1>11. RankKept(w)
  BY <1>3 DEF RankKept
<1>12. \A r \in Room : rooms'[r].name = rooms[r].name
  BY <1>5, <1>6
<1> QED
  BY <1>2, <1>3, <1>4, <1>6, <1>10, <1>11, <1>12, QuietOrderly

(* Table rs counts w where us has it, and nobody is invited anew.            *)
Displaced(us, rs, w) ==
  \A s \in Room :
    /\ rs[s].occupants = rooms[s].occupants
         - (IF s = Where(w) THEN 1 ELSE 0) + (IF s = us[w].room THEN 1 ELSE 0)
    /\ rs[s].invites \subseteq rooms[s].invites

(* enter_room, for a user whose place in the tables us and rs may have been   *)
(* changed already.                                                         *)
LEMMA EnterRoomAffects ==
  ASSUME IInv, NEW w \in Slot, NEW r \in Room, NEW op \in BOOLEAN,
         NEW us \in [Slot -> ChatUser], NEW rs \in [Room -> Table],
         \A v \in Slot \ {w} : us[v] = users[v],
         users[w].conn, us[w].conn,
         us[w].utent = users[w].utent \/ ~InHall(us[w].utent),
         Displaced(us, rs, w),
         EnterRoom(us, rs, w, r, op)
  PROVE  users' \in [Slot -> ChatUser] /\ rooms' \in [Room -> Table] /\ Affects(w)
<1>1. users' \in [Slot -> ChatUser] /\ rooms' \in [Room -> Table]
  BY EnterRoomEffect
<1>2. CASE users' = us /\ rooms' = rs
  <2>1. Where(w)' = us[w].room
    BY <1>2 DEF Where
  <2> QED
    BY <1>1, <1>2, <2>1 DEF Affects, Displaced
<1>3. CASE Moved(us, rs, w, r, op)
  <2>1. Where(w)' = r /\ users'[w].conn /\ users'[w].utent = us[w].utent
    BY <1>3 DEF Where, Moved
  <2>2. \A v \in Slot \ {w} : users'[v] = users[v]
    BY <1>3 DEF Moved
  <2>3. ASSUME NEW s \in Room
        PROVE  /\ rooms'[s].occupants =
                    rs[s].occupants - (IF s = us[w].room THEN 1 ELSE 0)
                                    + (IF s = r THEN 1 ELSE 0)
               /\ rooms'[s].invites \subseteq rs[s].invites
    <3>1. rooms' = Entered(us, rs, w, r)
      BY <1>3 DEF Moved
    <3>2. ComeIn(rooms', us, rs, w, r)
      BY <3>1, EnteredEffect
    <3> QED
      BY <3>2 DEF ComeIn
  <2>4. \A s \in Room : rooms[s].occupants \in Int /\ rs[s].occupants \in Int
    BY DEF IInv, ShapeOK, Table
  <2>5. ASSUME NEW s \in Room
        PROVE  rooms'[s].occupants = rooms[s].occupants
                 - (IF s = Where(w) THEN 1 ELSE 0) + (IF s = r THEN 1 ELSE 0)
    BY <2>3, <2>4 DEF Displaced
  <2>6. \A s \in Room : rooms'[s].invites \subseteq rooms[s].invites
    BY <2>3 DEF Displaced
  <2>7. \A s \in Room : rooms'[s].occupants = rooms[s].occupants
          - (IF s = Where(w) THEN 1 ELSE 0) + (IF s = Where(w)' THEN 1 ELSE 0)
    BY <2>1, <2>5
  <2>8. \A v \in Slot \ {w} :
          /\ users'[v].conn = users[v].conn /\ users'[v].utent = users[v].utent
          /\ users'[v].room = users[v].room /\ users'[v].op = users[v].op
          /\ users'[v].chatid = users[v].chatid
    BY <2>2
  <2>9. users'[w].utent = users[w].utent \/ ~InHall(users'[w].utent)
    BY <2>1
  <2> QED
    BY <1>1, <2>1, <2>6, <2>7, <2>8, <2>9 DEF Affects
<1> QED
  BY <1>1, <1>2, <1>3, EnterRoomEffect

(* ... into a room in use, without becoming its operator.                    *)
LEMMA EnterRoomOrderly ==
  ASSUME IInv, NEW w \in Slot, NEW r \in Room, InUse(r),
         NEW us \in [Slot -> ChatUser], NEW rs \in [Room -> Table],
         \A v \in Slot \ {w} : us[v] = users[v],
         us[w].room \in {Where(w), None}, us[w].conn,
         us[w].op => \/ us[w].room = None
                     \/ users[w].op /\ us[w].room = users[w].room,
         us[w].chatid = users[w].chatid \/
           (Cloaker = {} => \A v \in Slot : users[v].conn => users[v].chatid # us[w].chatid),
         \A s \in Room : rs[s].name = rooms[s].name /\ rs[s].invites \subseteq rooms[s].invites,
         EnterRoom(us, rs, w, r, FALSE)
  PROVE  Orderly(w)
<1>1. CASE users' = us /\ rooms' = rs
  <2>1. Where(w)' = us[w].room
    BY <1>1 DEF Where
  <2>2. RankKept(w)
    BY <1>1 DEF RankKept
  <2> QED
    BY <1>1, <2>1, <2>2, ConstantFacts DEF Orderly, NewId
<1>2. CASE MayEnter(us, rs, w, r) /\ Moved(us, rs, w, r, FALSE)
  <2>1. /\ \A v \in Slot \ {w} : users'[v] = users[v]
        /\ users'[w].room = r /\ ~users'[w].op /\ users'[w].utent = us[w].utent
        /\ users'[w].chatid = us[w].chatid /\ Where(w)' = r
    BY <1>2 DEF Moved, Where
  <2>2. rooms' = Entered(us, rs, w, r)
    BY <1>2 DEF Moved
  <2>3. ComeIn(rooms', us, rs, w, r)
    BY <2>2, EnteredEffect
  <2>4. /\ \A s \in Room : rooms'[s].name = rooms[s].name
        /\ rooms'[r].invites = rs[r].invites \ {w} /\ rooms'[r].flags = rs[r].flags
    BY <2>3 DEF ComeIn
  <2>5. Admitted(w, r)
    BY <1>2, <2>1, <2>4 DEF Admitted, MayEnter
  <2>6. RankKept(w)
    BY <2>1 DEF RankKept
  <2> QED
    BY <2>1, <2>4, <2>5, <2>6 DEF Orderly, NewId
<1> QED
  BY <1>1, <1>2, EnterRoomEffect

-----------------------------------------------------------------------------
(* Every step keeps the invariant                                           *)

LEMMA AcceptSound ==
  ASSUME IInv, NEW u \in Slot, Accept(u)
  PROVE  Sound
<1>1. /\ users \in [Slot -> ChatUser] /\ ~users[u].conn /\ users[u].utent = NoClient
      /\ ~users[u].op /\ u \notin UNION {rooms[r].invites : r \in Room}
  BY DEF IInv, ShapeOK, Vacant, NoInviteForFreeSlot, Accept
<1>2. /\ users' \in [Slot -> ChatUser]
      /\ \A v \in Slot \ {u} : users'[v] = users[v]
      /\ users'[u].conn /\ users'[u].room = None /\ users'[u].utent = users[u].utent
      /\ users'[u].chatid = users[u].chatid
  <2> DEFINE user == [users[u] EXCEPT !.conn = TRUE, !.room = None]
  <2>1. user \in ChatUser /\ user.conn /\ user.room = None /\ user.utent = users[u].utent
        /\ user.chatid = users[u].chatid
    <3>1. users[u] \in ChatUser
      BY <1>1
    <3> QED
      BY <3>1 DEF ChatUser
  <2>2. users' = [users EXCEPT ![u] = user]
    BY DEF Accept
  <2> HIDE DEF user
  <2> QED
    BY <1>1, <2>1, <2>2
<1>3. rooms' = rooms /\ num_conns' = num_conns + 1 /\ busy' = busy /\ busy = None
  BY DEF Accept
<1>4. Where(u) = None /\ Where(u)' = None
  BY <1>1, <1>2 DEF Where
<1>5. Affects(u)
  BY <1>1, <1>2, <1>3, <1>4, ConstantFacts DEF Affects, IInv, ShapeOK, Table
<1>6. RankKept(u)
  BY <1>2 DEF RankKept
<1>7. Orderly(u)
  BY <1>2, <1>3, <1>4, <1>6, QuietOrderly
<1> QED
  BY <1>2, <1>3, <1>5, <1>7 DEF Sound, ShapeOK, ChunkOK, IInv

LEMMA LoseConnectionSound ==
  ASSUME IInv, NEW u \in Slot, LoseConnection(u)
  PROVE  Sound
<1>1. users' = [users EXCEPT ![u] = FreeSlot] /\ Where(u) = users[u].room
      /\ rooms' = Uninvited(Vacated(rooms, users[u].room), u)
      /\ num_conns' = num_conns - 1 /\ busy' = busy /\ busy = None
  BY DEF LoseConnection, Where
<1>2. /\ users' \in [Slot -> ChatUser] /\ rooms' \in [Room -> Table]
      /\ Affects(u) /\ Orderly(u)
  BY <1>1, LoggedOut DEF IInv, ShapeOK
<1> QED
  BY <1>1, <1>2 DEF Sound, ShapeOK, ChunkOK, IInv

LEMMA HungUpSound ==
  ASSUME IInv, NEW u \in Slot, StrayLine(u) \/ \E c \in Client : LoginTwice(u, c)
  PROVE  Sound
<1>1. users' = [users EXCEPT ![u] = FreeSlot] /\ Where(u) = None
      /\ rooms' = Uninvited(rooms, u)
      /\ num_conns' = num_conns - 1 /\ (busy' = None \/ (busy' = busy /\ busy = None))
  <2>1. CASE StrayLine(u)
    <3>1. users[u].room = None
      BY <2>1 DEF StrayLine
    <3>2. Where(u) = None
      BY <3>1 DEF Where
    <3> QED
      BY <2>1, <3>2 DEF StrayLine
  <2>2. ASSUME NEW c \in Client, LoginTwice(u, c)
        PROVE  /\ busy = None /\ users[u].room = None /\ busy' = busy
               /\ users' = [users EXCEPT ![u] = FreeSlot]
               /\ rooms' = Uninvited(rooms, u) /\ num_conns' = num_conns - 1
    BY <2>2 DEF LoginTwice, AsksLogin
  <2> QED
    BY <2>1, <2>2 DEF Where
<1>2. rooms' = Uninvited(Vacated(rooms, Where(u)), u)
  BY <1>1 DEF Vacated
<1>3. /\ users' \in [Slot -> ChatUser] /\ rooms' \in [Room -> Table]
      /\ Affects(u) /\ Orderly(u)
  BY <1>1, <1>2, LoggedOut DEF IInv, ShapeOK
<1> QED
  BY <1>1, <1>3 DEF Sound, ShapeOK, ChunkOK, IInv

LEMMA LoginSound ==
  ASSUME IInv, NEW u \in Slot, NEW c \in Client, NEW id \in ChatId, NEW cloak \in BOOLEAN,
         Login(u, c, id, cloak)
  PROVE  Sound
<1> DEFINE user == [users[u] EXCEPT !.utent = c, !.chatid = id, !.cloak = cloak,
                                    !.op = LevelHasChat(c)]
           us == [users EXCEPT ![u] = user]
<1>1. /\ users[u].conn /\ users[u].room = None /\ Where(u) = None /\ ~InHall(c)
      /\ Matches(0, id) = {}
      /\ EnterRoom(us, rooms, u, 0, FALSE)
      /\ num_conns' = num_conns /\ busy' = busy /\ busy = None
  BY DEF Login, AsksLogin, Where
<1>2. LevelHasChat(c) \in BOOLEAN
  BY DEF LevelHasChat
<1>3. /\ us \in [Slot -> ChatUser]
      /\ \A v \in Slot \ {u} : us[v] = users[v]
      /\ us[u].conn = users[u].conn /\ us[u].room = users[u].room /\ us[u].utent = c
      /\ us[u].chatid = id
  <2>1. users \in [Slot -> ChatUser] /\ users[u] \in ChatUser
    BY DEF IInv, ShapeOK
  <2>2. user \in ChatUser /\ user.utent = c /\ user.chatid = id
        /\ user.conn = users[u].conn /\ user.room = users[u].room
    BY <1>2, <2>1 DEF ChatUser
  <2> HIDE DEF user
  <2> QED
    BY <2>1, <2>2
<1>4. Displaced(us, rooms, u)
  BY <1>1, <1>3, ConstantFacts DEF Displaced, IInv, ShapeOK, Table
<1> HIDE DEF us
<1>5. users' \in [Slot -> ChatUser] /\ rooms' \in [Room -> Table] /\ Affects(u)
  BY <1>1, <1>3, <1>4, EnterRoomAffects, ConstantFacts DEF IInv, ShapeOK
<1>6. Cloaker = {} => \A v \in Slot : users[v].conn => users[v].chatid # id
  BY <1>1 DEF Matches, CanCloak
<1>7. Orderly(u)
  BY <1>1, <1>3, <1>6, EnterRoomOrderly, ConstantFacts DEF IInv, ShapeOK, InUse
<1> QED
  BY <1>1, <1>5, <1>7 DEF Sound, ShapeOK, ChunkOK, IInv

(* After a command, the slot it came from is connected or in no room.        *)
LEMMA CommandChunk ==
  ASSUME IInv, NEW u \in Slot, Commands(u), ShapeOK',
         users'[u].conn \/ users'[u].room = None, NEW w \in Slot, Affects(w), Orderly(w)
  PROVE  Sound
BY Commanding DEF Sound, ChunkOK

LEMMA GoodbyeSound ==
  ASSUME IInv, NEW u \in Slot, Goodbye(u)
  PROVE  Sound
<1>1. /\ Commands(u) /\ users' = Exited(users, u)
      /\ rooms' = Vacated(rooms, users[u].room) /\ num_conns' = num_conns
  BY DEF Goodbye
<1>2. users[u].conn /\ users[u].room \in Room /\ Where(u) = users[u].room /\ busy' \in {None, u}
  BY <1>1, Commanding
<1>3. /\ users' \in [Slot -> ChatUser] /\ \A v \in Slot \ {u} : users'[v] = users[v]
      /\ users'[u].room = None /\ users'[u].conn /\ users'[u].utent = users[u].utent
      /\ users'[u].chatid = users[u].chatid
  BY <1>1, <1>2, ExitedEffect DEF IInv, ShapeOK
<1>4. /\ rooms' \in [Room -> Table]
      /\ \A r \in Room :
           /\ rooms'[r].occupants = rooms[r].occupants - (IF r = Where(u) THEN 1 ELSE 0)
           /\ rooms'[r].invites = rooms[r].invites /\ rooms'[r].name = rooms[r].name
  BY <1>1, <1>2, VacatedEffect DEF IInv, ShapeOK
<1>5. Where(u)' = None
  BY <1>3 DEF Where
<1>6. \A r \in Room : r # None /\ rooms[r].occupants \in Int
  BY ConstantFacts DEF IInv, ShapeOK, Table
<1>7. \A r \in Room : rooms'[r].occupants = rooms[r].occupants
        - (IF r = Where(u) THEN 1 ELSE 0) + (IF r = Where(u)' THEN 1 ELSE 0)
  BY <1>4, <1>5, <1>6
<1>8. Affects(u)
  BY <1>2, <1>3, <1>4, <1>7 DEF Affects
<1>9. RankKept(u)
  BY <1>3 DEF RankKept
<1>10. Orderly(u)
  BY <1>3, <1>4, <1>5, <1>9, QuietOrderly
<1> QED
  BY <1>1, <1>2, <1>3, <1>4, <1>8, <1>10, CommandChunk DEF ShapeOK, IInv

LEMMA JoinRoomSound ==
  ASSUME IInv, NEW u \in Slot, NEW n \in RoomName, NEW r \in Room, JoinRoom(u, n, r)
  PROVE  Sound
<1>1. Commands(u) /\ EnterRoom(users, rooms, u, r, FALSE) /\ num_conns' = num_conns
      /\ InUse(r)
  BY DEF JoinRoom, Named, InUse
<1>2. users[u].conn /\ Where(u) = users[u].room /\ busy' \in {None, u}
  BY <1>1, Commanding
<1>3. users \in [Slot -> ChatUser] /\ rooms \in [Room -> Table]
  BY DEF IInv, ShapeOK
<1>4. Displaced(users, rooms, u)
  BY <1>2, <1>3 DEF Displaced, Table
<1>5. users' \in [Slot -> ChatUser] /\ rooms' \in [Room -> Table] /\ Affects(u)
  BY <1>1, <1>2, <1>3, <1>4, EnterRoomAffects
<1>6. users'[u].conn
  <2>1. users' = users \/ Moved(users, rooms, u, r, FALSE)
    BY <1>1, <1>3, EnterRoomEffect
  <2> QED
    BY <1>2, <2>1 DEF Moved
<1>7. Orderly(u)
  BY <1>1, <1>2, <1>3, EnterRoomOrderly
<1> QED
  BY <1>1, <1>2, <1>5, <1>6, <1>7, CommandChunk DEF ShapeOK, IInv

(* The table in which a free room is opened differs from rooms only in the   *)
(* name, the flags and the invitations of that room.                         *)
LEMMA OpenedEffect ==
  ASSUME rooms \in [Room -> Table], NEW r \in Room, NEW n \in RoomName,
         rooms[r].occupants = 0
  PROVE  LET rs == [rooms EXCEPT ![r] = RoomOpened(n, r)]
         IN /\ rs \in [Room -> Table]
            /\ \A s \in Room \ {r} : rs[s] = rooms[s]
            /\ rs[r].name = n /\ rs[r].flags = {} /\ rs[r].invites = {}
            /\ rs[r].occupants = rooms[r].occupants
<1>1. RoomOpened(n, r) \in Table
  BY DEF RoomOpened, EmptyRoom, Table
<1> QED
  BY <1>1 DEF RoomOpened, EmptyRoom

LEMMA OpenRoomSound ==
  ASSUME IInv, NEW u \in Slot, NEW n \in RoomName, NEW r \in Room, OpenRoom(u, n, r)
  PROVE  Sound
<1> DEFINE rs == [rooms EXCEPT ![r] = RoomOpened(n, r)]
<1>1. /\ Commands(u) /\ EnterRoom(users, rs, u, r, TRUE) /\ num_conns' = num_conns
      /\ rooms[r].occupants = 0 /\ r > 0
      /\ \A s \in Room : InUse(s) => rooms[s].name # n
  BY DEF OpenRoom, FreeRooms, Named, InUse
<1>2. users[u].conn /\ Where(u) = users[u].room /\ busy' \in {None, u}
  BY <1>1, Commanding
<1>3. users \in [Slot -> ChatUser] /\ rooms \in [Room -> Table]
  BY DEF IInv, ShapeOK
<1>4. /\ rs \in [Room -> Table]
      /\ \A s \in Room : /\ rs[s].occupants = rooms[s].occupants
                         /\ rs[s].invites \subseteq rooms[s].invites
  BY <1>1, <1>3, OpenedEffect
<1>8. /\ \A s \in Room \ {r} : rs[s].name = rooms[s].name
      /\ rs[r].name = n /\ rs[r].flags = {} /\ rs[r].invites = {}
  BY <1>1, <1>3, OpenedEffect
<1> HIDE DEF rs
<1>5. Displaced(users, rs, u)
  BY <1>2, <1>3, <1>4 DEF Displaced, Table
<1>6. users' \in [Slot -> ChatUser] /\ rooms' \in [Room -> Table] /\ Affects(u)
  BY <1>1, <1>2, <1>3, <1>4, <1>5, EnterRoomAffects
<1>7. MayEnter(users, rs, u, r)
  BY <1>8 DEF MayEnter
<1>9. /\ \A v \in Slot \ {u} : users'[v] = users[v]
      /\ users'[u].conn /\ users'[u].room = r /\ users'[u].op = TRUE
      /\ users'[u].chatid = users[u].chatid /\ Where(u)' = r
      /\ rooms' = Entered(users, rs, u, r)
  <2>1. Moved(users, rs, u, r, TRUE)
    BY <1>1, <1>3, <1>4, <1>7, EnterRoomEffect
  <2> QED
    BY <1>2, <2>1 DEF Moved, Where
<1>10. /\ \A s \in Room \ {r} : rooms'[s].name = rooms[s].name
       /\ rooms'[r].name = n /\ rooms'[r].flags = {} /\ rooms'[r].invites = {}
  <2>1. ComeIn(rooms', users, rs, u, r)
    BY <1>3, <1>4, <1>9, EnteredEffect
  <2> QED
    BY <1>8, <2>1 DEF ComeIn
<1>11. Opened(u, r)
  BY <1>1, <1>9, <1>10 DEF Opened, InUse
<1>12. Orderly(u)
  BY <1>9, <1>10, <1>11 DEF Orderly, RankKept, Admitted
<1> QED
  BY <1>1, <1>2, <1>6, <1>9, <1>12, CommandChunk DEF ShapeOK, IInv

LEMMA KickSound ==
  ASSUME IInv, NEW u \in Slot, NEW v \in Slot, NEW id \in ChatId \cup {NoId}, Kick(u, id, v)
  PROVE  Sound
<1> DEFINE us == Exited(users, v)
           rs == Vacated(rooms, users[v].room)
<1>1. /\ Commands(u) /\ users[v].conn /\ users[v].room = users[u].room
      /\ IF users[u].room = 0
         THEN /\ users' = [us EXCEPT ![v] = FreeSlot]
              /\ rooms' = Uninvited(rs, v)
              /\ num_conns' = num_conns - 1
         ELSE EnterRoom(us, rs, v, 0, FALSE) /\ num_conns' = num_conns
  BY DEF Kick, Finds, Matches
<1>2. users[u].conn /\ users[u].room \in Room /\ busy' \in {None, u}
  BY <1>1, Commanding
<1>3. Where(v) = users[v].room /\ users[v].room \in Room
  BY <1>1, <1>2 DEF Where
<1>4. users \in [Slot -> ChatUser] /\ rooms \in [Room -> Table] /\ num_conns \in Int
  BY DEF IInv, ShapeOK
<1>5. /\ us \in [Slot -> ChatUser]
      /\ \A w \in Slot \ {v} : us[w] = users[w]
      /\ us[v].room = None /\ us[v].conn /\ us[v].utent = users[v].utent
      /\ us[v].chatid = users[v].chatid
  BY <1>1, <1>4, ExitedEffect
<1>6. /\ rs \in [Room -> Table]
      /\ \A s \in Room :
           /\ rs[s].occupants = rooms[s].occupants - (IF s = Where(v) THEN 1 ELSE 0)
           /\ rs[s].invites = rooms[s].invites /\ rs[s].name = rooms[s].name
  BY <1>3, <1>4, VacatedEffect
<1>7. rs = Vacated(rooms, Where(v))
  BY <1>3
<1> HIDE DEF us, rs
<1>8. CASE users[u].room = 0
  <2>1. /\ users' = [us EXCEPT ![v] = FreeSlot] /\ rooms' = Uninvited(rs, v)
        /\ num_conns' = num_conns - 1
    BY <1>1, <1>8
  <2>2. /\ \A w \in Slot \ {v} : users'[w] = users[w]
        /\ users' = [w \in Slot |-> users'[w]] /\ users'[v] = FreeSlot
    BY <1>5, <2>1
  <2>3. /\ users' \in [Slot -> ChatUser] /\ rooms' \in [Room -> Table]
        /\ Affects(v) /\ Orderly(v)
    BY <1>7, <2>1, <2>2, LoggedOut
  <2>4. users'[u].conn \/ users'[u].room = None
    BY <1>2, <2>2 DEF FreeSlot
  <2> QED
    BY <1>1, <1>2, <1>4, <2>1, <2>3, <2>4, CommandChunk DEF ShapeOK, IInv
<1>9. CASE users[u].room # 0
  <2>1. EnterRoom(us, rs, v, 0, FALSE) /\ num_conns' = num_conns
    BY <1>1, <1>9
  <2>2. \A s \in Room : s # None /\ rs[s].occupants \in Int
    BY <1>6, ConstantFacts DEF Table
  <2>3. Displaced(us, rs, v)
    BY <1>5, <1>6, <2>2 DEF Displaced
  <2>4. users' \in [Slot -> ChatUser] /\ rooms' \in [Room -> Table] /\ Affects(v)
    BY <1>1, <1>5, <1>6, <2>1, <2>3, EnterRoomAffects, ConstantFacts
  <2>5. users'[v].conn /\ \A w \in Slot \ {v} : users'[w] = users[w]
    <3>1. (users' = us /\ rooms' = rs) \/ Moved(us, rs, v, 0, FALSE)
      BY <1>5, <1>6, <2>1, EnterRoomEffect, ConstantFacts
    <3>2. CASE users' = us
      BY <1>5, <3>2
    <3>3. CASE Moved(us, rs, v, 0, FALSE)
      BY <1>5, <3>3 DEF Moved
    <3> QED
      BY <3>1, <3>2, <3>3
  <2>6. users'[u].conn
    BY <1>2, <2>5
  <2>7. Orderly(v)
    BY <1>5, <1>6, <2>1, EnterRoomOrderly, ConstantFacts DEF InUse
  <2> QED
    BY <1>1, <1>2, <1>4, <2>1, <2>4, <2>6, <2>7, CommandChunk DEF ShapeOK, IInv
<1> QED
  BY <1>8, <1>9

(* Commands that move nobody.                                               *)
LEMMA StayingSound ==
  ASSUME IInv, NEW u \in Slot, Commands(u), num_conns' = num_conns,
         users' \in [Slot -> ChatUser], rooms' \in [Room -> Table],
         \A v \in Slot : /\ users'[v].conn = users[v].conn
                         /\ users'[v].utent = users[v].utent
                         /\ users'[v].room = users[v].room
                         /\ users'[v].op => users[v].op \/ users[v].conn,
         \A v \in Slot \ {u} : users'[v].chatid = users[v].chatid,
         users'[u].chatid = users[u].chatid \/ NewId(u),
         RankKept(u) \/ \E x \in Slot : RankPassed(u, x),
         \A r \in Room :
           /\ rooms'[r].name = rooms[r].name
           /\ rooms'[r].occupants = rooms[r].occupants
           /\ \A v \in rooms'[r].invites : v \in rooms[r].invites \/ users[v].conn
  PROVE  Sound
<1>1. users[u].conn
  BY Commanding
<1>2. Where(u)' = Where(u)
  BY DEF Where
<1>3. \A r \in Room : rooms[r].occupants \in Int
  BY DEF IInv, ShapeOK, Table
<1>4. \A r \in Room : rooms'[r].occupants = rooms[r].occupants
        - (IF r = Where(u) THEN 1 ELSE 0) + (IF r = Where(u)' THEN 1 ELSE 0)
  BY <1>2, <1>3
<1>5. Affects(u)
  BY <1>1, <1>4 DEF Affects
<1>6. Orderly(u)
  BY <1>2 DEF Orderly
<1>7. users'[u].conn
  BY <1>1
<1> QED
  BY <1>5, <1>6, <1>7, CommandChunk, Commanding DEF ShapeOK, IInv

LEMMA OtherCommandsSound ==
  ASSUME IInv, NEW u \in Slot, NEW v \in Slot, NEW id \in ChatId \cup {NoId},
         \/ Cloak(u) \/ MakeOp(u, id, v) \/ Invite(u, id, v)
         \/ \E named \in SUBSET RoomFlag, sign \in BOOLEAN : SetRoom(u, named, sign)
         \/ \E n \in ChatId : Nick(u, n)
  PROVE  Sound
<1>1. users \in [Slot -> ChatUser] /\ rooms \in [Room -> Table]
  BY DEF IInv, ShapeOK
<1>2. CASE Cloak(u)
  <2>1. Commands(u) /\ num_conns' = num_conns /\ rooms' = rooms
        /\ users' = [users EXCEPT ![u].cloak = ~@]
    BY <1>2 DEF Cloak
  <2>2. /\ users' \in [Slot -> ChatUser]
        /\ \A w \in Slot : /\ users'[w].conn = users[w].conn
                           /\ users'[w].utent = users[w].utent
                           /\ users'[w].room = users[w].room
                           /\ users'[w].op = users[w].op
                           /\ users'[w].chatid = users[w].chatid
    BY <1>1, <2>1 DEF ChatUser
  <2>3. RankKept(u)
    BY <2>2 DEF RankKept
  <2> QED
    BY <1>1, <2>1, <2>2, <2>3, StayingSound
<1>3. CASE MakeOp(u, id, v)
  <2>1. Commands(u) /\ num_conns' = num_conns /\ rooms' = rooms
        /\ users' = OpPassed(u, v) /\ users[v].conn /\ u # v
        /\ MayRule(u) /\ users[v].room = users[u].room
    BY <1>3 DEF MakeOp, Finds, Matches
  <2>2. /\ users' \in [Slot -> ChatUser]
        /\ \A w \in Slot : /\ users'[w].conn = users[w].conn
                           /\ users'[w].utent = users[w].utent
                           /\ users'[w].room = users[w].room
                           /\ users'[w].chatid = users[w].chatid
        /\ \A w \in Slot \ {v} : users'[w].op => users[w].op
        /\ ~users'[u].op
    <3> DEFINE mid == [users EXCEPT ![u].op = FALSE]
    <3>1. users' = [mid EXCEPT ![v].op = TRUE]
      BY <2>1 DEF OpPassed
    <3>2. /\ mid \in [Slot -> ChatUser]
          /\ \A w \in Slot : /\ mid[w].conn = users[w].conn
                             /\ mid[w].utent = users[w].utent
                             /\ mid[w].room = users[w].room
                             /\ mid[w].chatid = users[w].chatid
                             /\ mid[w].op => users[w].op
          /\ ~mid[u].op
      BY <1>1 DEF ChatUser
    <3> HIDE DEF mid
    <3>3. /\ \A w \in Slot \ {v} : users'[w] = mid[w]
          /\ users'[v] = [mid[v] EXCEPT !.op = TRUE]
          /\ users' = [w \in Slot |-> users'[w]]
      BY <3>1, <3>2
    <3>4. /\ mid[v] \in ChatUser /\ users'[v] \in ChatUser
          /\ users'[v].conn = mid[v].conn /\ users'[v].utent = mid[v].utent
          /\ users'[v].room = mid[v].room /\ users'[v].chatid = mid[v].chatid
      <4>1. mid[v] \in ChatUser
        BY <3>2
      <4>2. users'[v] = [mid[v] EXCEPT !.op = TRUE]
        BY <3>3
      <4> QED
        BY <4>1, <4>2 DEF ChatUser
    <3>5. users' \in [Slot -> ChatUser]
      <4>1. mid \in [Slot -> ChatUser] /\ users'[v] \in ChatUser
        BY <3>2, <3>4
      <4> QED
        BY <3>3, <4>1
    <3>6. \A w \in Slot : /\ users'[w].conn = mid[w].conn
                          /\ users'[w].utent = mid[w].utent
                          /\ users'[w].room = mid[w].room
                          /\ users'[w].chatid = mid[w].chatid
      BY <3>3, <3>4
    <3>7. \A w \in Slot : /\ users'[w].conn = users[w].conn
                          /\ users'[w].utent = users[w].utent
                          /\ users'[w].room = users[w].room
                          /\ users'[w].chatid = users[w].chatid
      BY <3>2, <3>6
    <3>8. (\A w \in Slot \ {v} : users'[w].op => users[w].op) /\ ~users'[u].op
      BY <2>1, <3>2, <3>3
    <3> QED
      BY <3>5, <3>7, <3>8
  <2>3. RankPassed(u, v)
    BY <2>1, <2>2 DEF RankPassed
  <2>4. \A w \in Slot : users'[w].op => users[w].op \/ users[w].conn
    BY <2>1, <2>2
  <2> QED
    BY <1>1, <2>1, <2>2, <2>3, <2>4, StayingSound
<1>4. CASE Invite(u, id, v)
  <2>1. Commands(u) /\ num_conns' = num_conns /\ users' = users
        /\ rooms' = [rooms EXCEPT ![users[u].room].invites = @ \cup {v}] /\ users[v].conn
    BY <1>4 DEF Invite, Finds, Matches
  <2>2. users[u].room \in Room
    BY <2>1, Commanding
  <2>3. /\ rooms' \in [Room -> Table]
        /\ \A r \in Room : /\ rooms'[r].occupants = rooms[r].occupants
                           /\ rooms'[r].invites \subseteq rooms[r].invites \cup {v}
                           /\ rooms'[r].name = rooms[r].name
    BY <1>1, <2>1, <2>2 DEF Table
  <2>4. RankKept(u)
    BY <2>1 DEF RankKept
  <2> QED
    BY <1>1, <2>1, <2>3, <2>4, StayingSound
<1>5. CASE \E named \in SUBSET RoomFlag, sign \in BOOLEAN : SetRoom(u, named, sign)
  <2> PICK named \in SUBSET RoomFlag, sign \in BOOLEAN : SetRoom(u, named, sign)
    BY <1>5
  <2> DEFINE flags == IF sign THEN rooms[users[u].room].flags \cup named
                      ELSE rooms[users[u].room].flags \ named
  <2>1. Commands(u) /\ num_conns' = num_conns /\ users' = users
        /\ rooms' = [rooms EXCEPT ![users[u].room].flags = flags]
    BY DEF SetRoom
  <2>2. users[u].room \in Room
    BY <2>1, Commanding
  <2>3. flags \in SUBSET RoomFlag
    BY <1>1, <2>2 DEF Table
  <2> HIDE DEF flags
  <2>4. /\ rooms' \in [Room -> Table]
        /\ \A r \in Room : /\ rooms'[r].occupants = rooms[r].occupants
                           /\ rooms'[r].invites = rooms[r].invites
                           /\ rooms'[r].name = rooms[r].name
    BY <1>1, <2>1, <2>2, <2>3 DEF Table
  <2>5. RankKept(u)
    BY <2>1 DEF RankKept
  <2> QED
    BY <1>1, <2>1, <2>4, <2>5, StayingSound
<1>6. CASE \E n \in ChatId : Nick(u, n)
  <2> PICK n \in ChatId : Nick(u, n)
    BY <1>6
  <2>1. Commands(u) /\ num_conns' = num_conns /\ rooms' = rooms
        /\ users' = [users EXCEPT ![u].chatid = n] /\ IdAvailable(u, n)
    BY DEF Nick
  <2>2. /\ users' \in [Slot -> ChatUser]
        /\ \A w \in Slot : /\ users'[w].conn = users[w].conn
                           /\ users'[w].utent = users[w].utent
                           /\ users'[w].room = users[w].room
                           /\ users'[w].op = users[w].op
        /\ users'[u].chatid = n
        /\ \A w \in Slot \ {u} : users'[w].chatid = users[w].chatid
    BY <1>1, <2>1 DEF ChatUser
  <2>3. RankKept(u)
    BY <2>2 DEF RankKept
  <2>4. NewId(u)
    <3> SUFFICES ASSUME Cloaker = {}, ChatIdsUnique,
                        NEW w \in Slot \ {u}, users[w].conn, users[w].chatid = n
                 PROVE  FALSE
      BY <2>2 DEF NewId
    <3>1. w \in Matches(0, n) /\ \A x \in Matches(0, n) : x = w
      BY ChatdAssumption DEF Matches, CanCloak, ChatIdsUnique
    <3>2. Finds(0, n, w)
      BY <3>1 DEF Finds, Slot
    <3> QED
      BY <2>1, <3>2 DEF IdAvailable
  <2> QED
    BY <1>1, <2>1, <2>2, <2>3, <2>4, StayingSound
<1> QED
  BY <1>2, <1>3, <1>4, <1>5, <1>6

LEMMA InitIInv == Init => IInv
<1> SUFFICES ASSUME Init PROVE IInv
  OBVIOUS
<1>1. /\ users \in [Slot -> ChatUser] /\ rooms \in [Room -> Table]
      /\ \A u \in Slot : /\ ~users[u].conn /\ users[u].utent = NoClient /\ ~users[u].op
                         /\ users[u].chatid = NoId
      /\ \A r \in Room : rooms[r].occupants = 0 /\ rooms[r].invites = {}
  <2>1. [FreeSlot EXCEPT !.room = 0] \in ChatUser
    BY ConstantFacts DEF FreeSlot, ChatUser
  <2>2. EmptyRoom(MainRoom) \in Table
    BY ChatdAssumption DEF EmptyRoom, Table
  <2> QED
    BY <2>1, <2>2 DEF Init, FreeSlot, EmptyRoom
<1>2. \A r \in Room : Inside(r) = {}
  BY <1>1 DEF Inside
<1>3. OccupantsExact
  BY <1>1, <1>2, FS_EmptySet DEF OccupantsExact
<1>4. ShapeOK /\ Vacant /\ AccountOnce /\ NoInviteForFreeSlot
  BY <1>1 DEF Init, ShapeOK, Vacant, AccountOnce, NoInviteForFreeSlot
<1> QED
  BY <1>3, <1>4 DEF IInv

LEMMA StepSound ==
  ASSUME IInv, NEW u \in Slot, Step(u)
  PROVE  Sound
<1>1. CASE \E c \in Client, id \in ChatId, cloak \in BOOLEAN : Login(u, c, id, cloak)
  BY <1>1, LoginSound
<1>2. CASE \E n \in RoomName, r \in Room : JoinRoom(u, n, r) \/ OpenRoom(u, n, r)
  BY <1>2, JoinRoomSound, OpenRoomSound
<1>3. CASE \E id \in ChatId \cup {NoId}, v \in Slot :
             Kick(u, id, v) \/ MakeOp(u, id, v) \/ Invite(u, id, v)
  BY <1>3, KickSound, OtherCommandsSound
<1>4. CASE \/ Cloak(u) \/ \E n \in ChatId : Nick(u, n)
           \/ \E named \in SUBSET RoomFlag, sign \in BOOLEAN : SetRoom(u, named, sign)
  BY <1>4, OtherCommandsSound
<1> QED
  BY <1>1, <1>2, <1>3, <1>4, AcceptSound, LoseConnectionSound, HungUpSound, GoodbyeSound
     DEF Step

LEMMA NextIInv == IInv /\ [Next]_vars => IInv'
<1> SUFFICES ASSUME IInv, [Next]_vars PROVE IInv'
  OBVIOUS
<1>1. CASE Next
  <2> PICK u \in Slot : Step(u)
    BY <1>1 DEF Next
  <2>1. Sound
    BY StepSound
  <2>2. PICK w \in Slot : Affects(w)
    BY <2>1 DEF Sound
  <2>3. /\ OccupantsExact' /\ AccountOnce' /\ NoInviteForFreeSlot'
        /\ \A v \in Slot : ~users'[v].conn =>
             users'[v].utent = NoClient /\ users'[v].chatid = NoId /\ ~users'[v].op
    BY <2>1, <2>2, AffectsKeeps DEF Sound
  <2> QED
    BY <2>1, <2>3 DEF Sound, IInv, Vacant, ChunkOK
<1>2. CASE UNCHANGED vars
  BY <1>2 DEF vars, IInv, ShapeOK, Vacant, OccupantsExact, Inside, AccountOnce,
              NoInviteForFreeSlot
<1> QED
  BY <1>1, <1>2

(* The inductive invariant holds always.                                     *)
THEOREM ChatInvariant == Spec => []IInv
<1> QED
  BY InitIInv, NextIInv, PTL DEF Spec

(* The tables keep their types; counts of occupants are never negative.      *)
THEOREM ChatTypeCorrect == Spec => []TypeOK
<1>1. IInv => TypeOK
  <2> SUFFICES ASSUME IInv PROVE TypeOK
    OBVIOUS
  <2>1. \A r \in Room : IsFiniteSet(Inside(r))
    BY ConstantFacts, FS_Subset DEF Inside
  <2>2. \A r \in Room : rooms[r].occupants \in Nat
    BY <2>1, FS_CardinalityType DEF IInv, OccupantsExact
  <2>3. \A r \in Room : rooms[r] \in ChatRoom
    BY <2>2 DEF IInv, ShapeOK, Table, ChatRoom
  <2> QED
    BY <2>3 DEF IInv, ShapeOK, TypeOK
<1> QED
  BY <1>1, ChatInvariant, PTL

(* The count by which a room is found free is the number of users in it,     *)
(* whichever way they came and went.                                         *)
THEOREM ChatOccupantsExact == Spec => []OccupantsExact
<1>1. IInv => OccupantsExact
  BY DEF IInv
<1> QED
  BY <1>1, ChatInvariant, PTL

(* No account is in the hall twice.                                          *)
THEOREM ChatAccountOnce == Spec => []AccountOnce
<1>1. IInv => AccountOnce
  BY DEF IInv
<1> QED
  BY <1>1, ChatInvariant, PTL

(* No invitation outlives the connection it was given to.                    *)
THEOREM ChatInvitesEnd == Spec => []NoInviteForFreeSlot
<1>1. IInv => NoInviteForFreeSlot
  BY DEF IInv
<1> QED
  BY <1>1, ChatInvariant, PTL

-----------------------------------------------------------------------------
(* Names, ranks, ids and locks                                              *)

LEMMA StepEffect ==
  ASSUME IInv, Next
  PROVE  IInv' /\ \E w \in Slot : Affects(w) /\ Orderly(w)
<1>1. PICK u \in Slot : Step(u)
  BY DEF Next
<1> QED
  BY <1>1, StepSound, NextIInv DEF Sound

(* Rooms that count nobody are empty.                                        *)
LEMMA CountedRooms ==
  ASSUME IInv, NEW r \in Room
  PROVE  /\ rooms[r].occupants \in Nat
         /\ rooms[r].occupants = 0 <=> Inside(r) = {}
<1>1. IsFiniteSet(Inside(r))
  BY ConstantFacts, FS_Subset DEF Inside
<1>2. rooms[r].occupants = Cardinality(Inside(r))
  BY DEF IInv, OccupantsExact
<1> QED
  BY <1>1, <1>2, FS_CardinalityType, FS_EmptySet

(* A room gets its first user by being entered.                              *)
LEMMA FirstUser ==
  ASSUME IInv, NEW w \in Slot, Affects(w), NEW r \in Room,
         rooms[r].occupants = 0, rooms'[r].occupants > 0
  PROVE  Where(w)' = r /\ Where(w) # r
<1>1. rooms'[r].occupants = rooms[r].occupants
        - (IF r = Where(w) THEN 1 ELSE 0) + (IF r = Where(w)' THEN 1 ELSE 0)
  BY DEF Affects
<1> QED
  BY <1>1

(* A room that is opened had nobody in it.                                   *)
LEMMA OpenedEmpty ==
  ASSUME IInv, NEW w \in Slot, NEW r \in Room, Opened(w, r), NEW v \in Slot, users[v].conn
  PROVE  users[v].room # r
<1>1. rooms[r].occupants = 0
  BY CountedRooms DEF Opened, InUse
<1> QED
  BY <1>1, CountedRooms DEF Inside

NamesApart ==
  \A r, s \in Room : (InUse(r) /\ InUse(s) /\ rooms[r].name = rooms[s].name) => r = s

LEMMA NextNamesApart == IInv /\ NamesApart /\ [Next]_vars => NamesApart'
<1> SUFFICES ASSUME IInv, NamesApart, [Next]_vars PROVE NamesApart'
  OBVIOUS
<1>1. CASE UNCHANGED vars
  BY <1>1 DEF vars, NamesApart, InUse
<1>2. CASE Next
  <2>1. PICK w \in Slot : Affects(w) /\ Orderly(w)
    BY <1>2, StepEffect
  <2>2. ASSUME NEW r \in Room, InUse(r)', ~InUse(r)
        PROVE  Opened(w, r)
    <3>1. r # 0 /\ rooms[r].occupants = 0 /\ rooms'[r].occupants > 0
      BY <2>2, CountedRooms DEF InUse
    <3>2. Where(w)' = r /\ Where(w) # r
      BY <2>1, <3>1, FirstUser
    <3> QED
      BY <2>1, <2>2, <3>2 DEF Orderly
  <2>3. ASSUME NEW r \in Room, NEW s \in Room, Opened(w, r), InUse(s)', s # r
        PROVE  rooms'[s].name # rooms'[r].name
    <3>1. ~Opened(w, s)
      BY <2>3 DEF Opened
    <3>2. InUse(s) /\ rooms'[s].name = rooms[s].name
      BY <2>1, <2>2, <2>3, <3>1 DEF Orderly
    <3> QED
      BY <2>3, <3>2 DEF Opened
  <2> SUFFICES ASSUME NEW r \in Room, NEW s \in Room, InUse(r)', InUse(s)',
                      rooms'[r].name = rooms'[s].name, r # s
               PROVE  FALSE
    BY DEF NamesApart
  <2>4. ~Opened(w, r) /\ ~Opened(w, s)
    BY <2>3
  <2>5. /\ InUse(r) /\ InUse(s)
        /\ rooms'[r].name = rooms[r].name /\ rooms'[s].name = rooms[s].name
    BY <2>1, <2>2, <2>4 DEF Orderly
  <2> QED
    BY <2>5 DEF NamesApart
<1> QED
  BY <1>1, <1>2

(* Rooms in use have different names, and none but room 0 is called main.    *)
THEOREM ChatNamesUnique == Spec => []RoomNamesUnique
<1>1. Init => NamesApart
  <2> SUFFICES ASSUME Init PROVE NamesApart
    OBVIOUS
  <2>1. \A r \in Room : rooms[r].occupants = 0
    BY DEF Init, EmptyRoom
  <2> QED
    BY <2>1 DEF NamesApart, InUse
<1>2. IInv /\ NamesApart => RoomNamesUnique
  <2> SUFFICES ASSUME IInv, NamesApart PROVE RoomNamesUnique
    OBVIOUS
  <2>1. \A r \in Room : Inside(r) # {} => InUse(r)
    BY CountedRooms DEF InUse
  <2>2. \A s \in Room : s = 0 => InUse(s)
    BY DEF InUse
  <2> QED
    BY <2>1, <2>2 DEF NamesApart, RoomNamesUnique
<1>3. Spec => []IInv
  BY ChatInvariant
<1> QED
  BY <1>1, <1>2, <1>3, NextNamesApart, PTL DEF Spec

LEMMA NextSoleOperator ==
  ASSUME Sysop = {}
  PROVE  IInv /\ SoleOperator /\ [Next]_vars => SoleOperator'
<1> SUFFICES ASSUME IInv, SoleOperator, [Next]_vars PROVE SoleOperator'
  OBVIOUS
<1>1. CASE UNCHANGED vars
  BY <1>1 DEF vars, SoleOperator
<1>2. CASE Next
  <2>1. PICK w \in Slot : Affects(w) /\ Orderly(w)
    BY <1>2, StepEffect
  <2>2. \A v \in Slot \ {w} : users'[v].room = users[v].room
    BY <2>1 DEF Affects
  <2>3. \A v \in Slot : users[v].op => users[v].conn
    BY DEF IInv, Vacant
  <2>4. ASSUME RankKept(w), NEW v \in Slot \ {w}, users'[v].op, users'[w].op,
               users'[v].room = users'[w].room, users'[w].room # None
        PROVE  FALSE
    <3>1. users[v].op /\ users[v].conn /\ users[v].room = users'[w].room
      BY <2>2, <2>3, <2>4 DEF RankKept
    <3>2. CASE users[w].op /\ users'[w].room = users[w].room
      BY <2>4, <3>1, <3>2 DEF SoleOperator
    <3>3. CASE \E r \in Room : Opened(w, r)
      BY <3>1, <3>3, OpenedEmpty DEF Opened
    <3> QED
      BY <2>4, <3>2, <3>3 DEF RankKept
  <2>5. CASE RankKept(w)
    <3> SUFFICES ASSUME NEW u \in Slot, NEW v \in Slot, users'[u].op, users'[v].op,
                        users'[u].room = users'[v].room, users'[u].room # None, u # v
                 PROVE  FALSE
      BY DEF SoleOperator
    <3>1. u # w /\ v # w
      BY <2>4, <2>5
    <3>2. users[u].op /\ users[v].op /\ users[u].room = users[v].room /\ users[u].room # None
      BY <2>2, <2>5, <3>1 DEF RankKept
    <3> QED
      BY <3>2 DEF SoleOperator
  <2>6. CASE \E x \in Slot : RankPassed(w, x)
    <3>1. PICK x \in Slot : RankPassed(w, x)
      BY <2>6
    <3>2. /\ users[w].op /\ ~users'[w].op /\ users[x].room = users[w].room
          /\ \A v \in Slot \ {w, x} : users'[v].op => users[v].op
          /\ \A v \in Slot : users'[v].room = users[v].room
      BY <3>1 DEF RankPassed, MayRule, IsSysop
    <3>3. ASSUME NEW u \in Slot, NEW v \in Slot, users'[u].op, users'[v].op,
                 users'[u].room = users'[v].room, users'[u].room # None, u # x
          PROVE  u = v
      <4>1. users[u].op /\ u # w /\ v # w /\ users[u].room = users[v].room /\ users[u].room # None
        BY <3>2, <3>3
      <4>2. CASE v = x
        BY <3>2, <4>1, <4>2 DEF SoleOperator
      <4>3. CASE v # x
        BY <3>2, <3>3, <4>1, <4>3 DEF SoleOperator
      <4> QED
        BY <4>2, <4>3
    <3> QED
      BY <3>3 DEF SoleOperator
  <2> QED
    BY <2>1, <2>5, <2>6 DEF Orderly
<1> QED
  BY <1>1, <1>2

(* Where there are no sysops a room has one operator at most.                *)
THEOREM ChatSoleOperator == Sysop = {} => (Spec => []SoleOperator)
<1> SUFFICES ASSUME Sysop = {} PROVE Spec => []SoleOperator
  OBVIOUS
<1>1. Init => SoleOperator
  BY DEF Init, FreeSlot, SoleOperator
<1>2. IInv /\ SoleOperator /\ [Next]_vars => SoleOperator'
  BY NextSoleOperator
<1>3. Spec => []IInv
  BY ChatInvariant
<1> QED
  BY <1>1, <1>2, <1>3, PTL DEF Spec

LEMMA NextIdsUnique ==
  ASSUME Cloaker = {}
  PROVE  IInv /\ ChatIdsUnique /\ [Next]_vars => ChatIdsUnique'
<1> SUFFICES ASSUME IInv, ChatIdsUnique, [Next]_vars PROVE ChatIdsUnique'
  OBVIOUS
<1>1. CASE UNCHANGED vars
  BY <1>1 DEF vars, ChatIdsUnique
<1>2. CASE Next
  <2>1. PICK w \in Slot : Affects(w) /\ Orderly(w)
    BY <1>2, StepEffect
  <2>2. \A v \in Slot \ {w} : users'[v].conn = users[v].conn /\ users'[v].chatid = users[v].chatid
    BY <2>1 DEF Affects
  <2>3. ASSUME NEW v \in Slot \ {w}, users'[v].conn,
               users'[w].chatid = users'[v].chatid, users'[w].chatid # NoId
        PROVE  FALSE
    <3>1. users[v].conn /\ users[v].chatid = users'[w].chatid
      BY <2>2, <2>3
    <3>2. CASE users'[w].chatid = users[w].chatid
      <4>1. users[w].conn
        BY <2>3, <3>2 DEF IInv, Vacant
      <4> QED
        BY <2>3, <3>1, <3>2, <4>1 DEF ChatIdsUnique
    <3>3. CASE NewId(w)
      BY <3>1, <3>3 DEF NewId
    <3> QED
      BY <2>1, <2>3, <3>2, <3>3 DEF Orderly
  <2> SUFFICES ASSUME NEW u \in Slot, NEW v \in Slot, users'[u].conn, users'[v].conn,
                      users'[u].chatid = users'[v].chatid, users'[u].chatid # NoId, u # v
               PROVE  FALSE
    BY DEF ChatIdsUnique
  <2>4. u # w /\ v # w
    BY <2>3
  <2> QED
    BY <2>2, <2>4 DEF ChatIdsUnique
<1> QED
  BY <1>1, <1>2

(* Where nobody may cloak, an id belongs to one user.                        *)
THEOREM ChatIdsKeptApart == Cloaker = {} => (Spec => []ChatIdsUnique)
<1> SUFFICES ASSUME Cloaker = {} PROVE Spec => []ChatIdsUnique
  OBVIOUS
<1>1. Init => ChatIdsUnique
  BY DEF Init, FreeSlot, ChatIdsUnique
<1>2. IInv /\ ChatIdsUnique /\ [Next]_vars => ChatIdsUnique'
  BY NextIdsUnique
<1>3. Spec => []IInv
  BY ChatInvariant
<1> QED
  BY <1>1, <1>2, <1>3, PTL DEF Spec

(* Into a locked room come sysops and those whose invitation this uses up.   *)
THEOREM ChatLockHolds == Spec => LockHolds
<1> DEFINE Guarded ==
      \A u \in Slot, r \in Room :
        (users[u].room # r /\ users'[u].conn /\ users'[u].room = r
           /\ "locked" \in rooms'[r].flags) =>
          \/ users'[u].utent \in Sysop
          \/ u \in rooms[r].invites /\ u \notin rooms'[r].invites
<1>1. IInv /\ [Next]_vars => [Guarded]_vars
  <2> SUFFICES ASSUME IInv, Next, NEW u \in Slot, NEW r \in Room,
                      users[u].room # r, users'[u].conn, users'[u].room = r,
                      "locked" \in rooms'[r].flags
               PROVE  \/ users'[u].utent \in Sysop
                      \/ u \in rooms[r].invites /\ u \notin rooms'[r].invites
    OBVIOUS
  <2>1. PICK w \in Slot : Affects(w) /\ Orderly(w)
    BY StepEffect
  <2>2. u = w
    BY <2>1 DEF Affects
  <2>3. Where(w)' = r /\ Where(w) # r
    BY <2>2, ConstantFacts DEF Where
  <2> QED
    BY <2>1, <2>2, <2>3 DEF Orderly, Admitted
<1>2. Spec => []IInv
  BY ChatInvariant
<1>3. Spec => [][Next]_vars
  BY PTL DEF Spec
<1>4. []IInv /\ [][Next]_vars => [][Guarded]_vars
  BY <1>1, PTL
<1> QED
  BY <1>2, <1>3, <1>4, PTL DEF LockHolds

(* A room used again starts unlocked and without invitations, and whoever    *)
(* opened it is its operator.                                               *)
THEOREM ChatFreshRoom == Spec => FreshRoom
<1> DEFINE Afresh ==
      \A r \in Room \ {0} :
        (rooms[r].occupants = 0 /\ rooms'[r].occupants > 0) =>
          /\ rooms'[r].flags = {} /\ rooms'[r].invites = {}
          /\ \E u \in Slot : users'[u].op /\ users'[u].room = r
<1>1. IInv /\ [Next]_vars => [Afresh]_vars
  <2> SUFFICES ASSUME IInv, Next, NEW r \in Room \ {0},
                      rooms[r].occupants = 0, rooms'[r].occupants > 0
               PROVE  /\ rooms'[r].flags = {} /\ rooms'[r].invites = {}
                      /\ \E u \in Slot : users'[u].op /\ users'[u].room = r
    OBVIOUS
  <2>1. PICK w \in Slot : Affects(w) /\ Orderly(w)
    BY StepEffect
  <2>2. Where(w)' = r /\ Where(w) # r /\ ~InUse(r)
    BY <2>1, FirstUser DEF InUse
  <2>3. Opened(w, r)
    BY <2>1, <2>2 DEF Orderly
  <2> QED
    BY <2>3 DEF Opened
<1>2. Spec => []IInv
  BY ChatInvariant
<1>3. Spec => [][Next]_vars
  BY PTL DEF Spec
<1>4. []IInv /\ [][Next]_vars => [][Afresh]_vars
  BY <1>1, PTL
<1> QED
  BY <1>2, <1>3, <1>4, PTL DEF FreshRoom

(* Nobody comes as an operator into a room that others are in.               *)
THEOREM ChatNoOpOnArrival == Spec => NoOpOnArrival
<1> DEFINE Unranked ==
      \A u \in Slot :
        (users'[u].room \notin {users[u].room, None} /\ users'[u].op) =>
          \A v \in Slot \ {u} : users[v].conn => users[v].room # users'[u].room
<1>1. IInv /\ [Next]_vars => [Unranked]_vars
  <2> SUFFICES ASSUME IInv, Next, NEW u \in Slot, NEW v \in Slot \ {u},
                      users'[u].room \notin {users[u].room, None}, users'[u].op, users[v].conn
               PROVE  users[v].room # users'[u].room
    OBVIOUS
  <2>1. PICK w \in Slot : Affects(w) /\ Orderly(w)
    BY StepEffect
  <2>2. u = w
    BY <2>1 DEF Affects
  <2>3. \A x \in Slot : ~RankPassed(w, x)
    BY <2>2 DEF RankPassed
  <2>4. PICK r \in Room : Opened(w, r)
    BY <2>1, <2>2, <2>3 DEF Orderly, RankKept
  <2>5. users'[u].room = r
    BY <2>2, <2>4 DEF Opened
  <2> QED
    BY <2>4, <2>5, OpenedEmpty
<1>2. Spec => []IInv
  BY ChatInvariant
<1>3. Spec => [][Next]_vars
  BY PTL DEF Spec
<1>4. []IInv /\ [][Next]_vars => [][Unranked]_vars
  BY <1>1, PTL
<1> QED
  BY <1>2, <1>3, <1>4, PTL DEF NoOpOnArrival
=============================================================================
