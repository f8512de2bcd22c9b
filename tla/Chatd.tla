------------------------------- MODULE Chatd --------------------------------
(***************************************************************************)
(* chatd (station.c): the conference hall of the BBS, one process that      *)
(* serves up to MAXACTIVE connections from a select loop.  users[] and      *)
(* rooms[] are the tables of the code; what a user may do is kept in the    *)
(* flags of its slot, copied at login from the level the BBS sends.         *)
(*                                                                         *)
(* A step is one line of input.  One recv may bring several lines of the    *)
(* same connection, and the server handles them all before it looks at any  *)
(* other; "busy" is the slot in the middle of such a chunk.                 *)
(***************************************************************************)
EXTENDS Integers, FiniteSets

CONSTANTS
  MaxActive,     \* MAXACTIVE
  MaxRoom,       \* MAXROOM
  Client,        \* BBS accounts (uinfo.uid) whose sessions connect
  Sysop,         \* accounts with PERM_SYSOP
  Cloaker,       \* accounts with PERM_CHATCLOAK
  Outsider,      \* accounts on remote hosts, given PERM_DENYPOST
  Guest,         \* accounts without any permission
  ChatId,        \* valid chat ids
  RoomName,      \* names of rooms, shorter than IDLEN
  RoomFlag,      \* the flags of rooms: "locked", "secret"
  MainRoom,      \* "main"
  NoClient,      \* utent -1
  NoId,          \* the empty chat id
  MinConns       \* bound: how far below 0 num_conns is followed

Slot == 0..(MaxActive - 1)
Room == 0..(MaxRoom - 1)
None == -1                 \* room -1, and no slot

ASSUME ChatdAssumption ==
  /\ MaxActive \in Nat \ {0} /\ MaxRoom \in Nat \ {0} /\ MinConns \in Nat
  /\ Sysop \subseteq Client /\ Cloaker \subseteq Client
  /\ Outsider \subseteq Client \ (Sysop \cup Cloaker)
  /\ Guest \subseteq Client \ (Sysop \cup Cloaker \cup Outsider)
  /\ "locked" \in RoomFlag
  /\ MainRoom \in RoomName /\ NoClient \notin Client /\ NoId \notin ChatId

VARIABLES
  users,       \* struct chatuser users[MAXACTIVE]
  rooms,       \* struct chatroom rooms[MAXROOM]
  num_conns,   \* "current number of connections"
  busy         \* the slot with more lines in the chunk just received, or None

vars == <<users, rooms, num_conns, busy>>

(* struct chatuser; conn is sockfd # -1, op is PERM_CHATROOM in flags; the  *)
(* other flags follow from the account.                                     *)
ChatUser == [conn : BOOLEAN, utent : Client \cup {NoClient},
             room : Room \cup {None}, op : BOOLEAN, cloak : BOOLEAN,
             chatid : ChatId \cup {NoId}]

ChatRoom == [name : RoomName, occupants : Nat,
             flags : SUBSET RoomFlag, invites : SUBSET Slot]

TypeOK ==
  /\ users \in [Slot -> ChatUser]
  /\ rooms \in [Room -> ChatRoom]
  /\ num_conns \in Int
  /\ busy \in Slot \cup {None}

(* What memset and the assignments of logout_user leave in a slot.          *)
FreeSlot == [conn |-> FALSE, utent |-> NoClient, room |-> None, op |-> FALSE,
             cloak |-> FALSE, chatid |-> NoId]

EmptyRoom(n) == [name |-> n, occupants |-> 0, flags |-> {}, invites |-> {}]

(* users[] starts zeroed except for sockfd and utent, so room is 0 there.   *)
Init ==
  /\ users = [u \in Slot |-> [FreeSlot EXCEPT !.room = 0]]
  /\ rooms = [r \in Room |-> EmptyRoom(MainRoom)]
  /\ num_conns = 0
  /\ busy = None

-----------------------------------------------------------------------------
(* Permissions and lookups                                                  *)

IsSysop(u) == users[u].utent \in Sysop
CanCloak(u) == users[u].utent \in Cloaker
Restricted(u) == users[u].utent \in Guest /\ ~users[u].op

(* chatid_to_indx: the first connected slot with this chat id; a cloaked    *)
(* one is passed over for an asker who has the permission to cloak.         *)
Matches(asker, id) ==
  {i \in Slot : /\ users[i].conn /\ users[i].chatid = id
                /\ ~users[i].cloak \/ ~CanCloak(asker)}

Finds(asker, id, v) == v \in Matches(asker, id) /\ \A w \in Matches(asker, id) : v <= w

(* Seeded fault: the main room is passed over when nobody is in it.         *)
OccupiedNamed(n) == {r \in Room : rooms[r].occupants > 0 /\ rooms[r].name = n}

(* roomid_to_indx: the first room in use with this name.                    *)
Named(n) == {r \in Room : (r = 0 \/ rooms[r].occupants > 0) /\ rooms[r].name = n}

FreeRooms == {r \in Room : r > 0 /\ rooms[r].occupants = 0}

(* The users that send_to_room reaches: its loop over slots ends at MAXROOM. *)
Reached(r) == {u \in Slot : u < MaxRoom /\ users[u].conn /\ users[u].room = r}

-----------------------------------------------------------------------------
(* exit_room, enter_room and logout_user as changes of the two tables       *)

(* exit_room takes a user off the count of its room.                        *)
Vacated(rs, r) == IF r = None THEN rs ELSE [rs EXCEPT ![r].occupants = @ - 1]

(* ... and the rank of operator off the user.                               *)
Exited(us, u) == [us EXCEPT ![u].op = FALSE, ![u].room = None]

(* Seeded fault: logout_user leaves the invitations.                        *)
StillInvited(rs, u) == rs

(* logout_user clears the slot's invitations to every room.                 *)
Uninvited(rs, u) == [r \in Room |-> [rs[r] EXCEPT !.invites = @ \ {u}]]

(* Seeded fault: a lock keeps nobody out.                                   *)
AnyoneMayEnter(us, rs, u, r) == TRUE

MayEnter(us, rs, u, r) ==
  \/ us[u].utent \in Sysop
  \/ "locked" \notin rs[r].flags
  \/ u \in rs[r].invites

(* Seeded fault: who comes in is not counted.                               *)
EnteredUncounted(us, rs, u, r) ==
  [Vacated(rs, us[u].room) EXCEPT ![r].invites = @ \ {u}]

(* One more user in the room, whose invitation is used up.                  *)
Joined(room, u) == [room EXCEPT !.occupants = @ + 1, !.invites = @ \ {u}]

(* A user who is in another room, in this one or in none comes in.          *)
Entered(us, rs, u, r) ==
  [Vacated(rs, us[u].room) EXCEPT ![r] = Joined(@, u)]

Seated(user, r, op) == [user EXCEPT !.room = r, !.op = op \/ @]

(* The end of enter_room for room r of table rs; op when u has opened it.   *)
EnterRoom(us, rs, u, r, op) ==
  IF MayEnter(us, rs, u, r)
  THEN /\ users' = [Exited(us, u) EXCEPT ![u] = Seated(@, r, op)]
       /\ rooms' = Entered(us, rs, u, r)
  ELSE users' = us /\ rooms' = rs

-----------------------------------------------------------------------------
(* The select loop                                                          *)

Turn(u) == IF busy = None THEN users[u].conn ELSE busy = u

(* A line is done; the chunk may hold more (not followed below the bound).  *)
LineDone(u) ==
  \/ busy' = None
  \/ busy' = u /\ num_conns > 0 - MinConns

(* A user who is in a room gives a command.                                 *)
Commands(u) == Turn(u) /\ users[u].room # None /\ LineDone(u)

MayRule(u) == users[u].op \/ IsSysop(u)

(* accept: the first free slot; with none the connection is closed at once. *)
Accept(u) ==
  /\ busy = None /\ ~users[u].conn
  /\ \A v \in Slot : v < u => users[v].conn
  /\ users' = [users EXCEPT ![u] = [users[u] EXCEPT !.conn = TRUE, !.room = None]]
  /\ num_conns' = num_conns + 1
  /\ UNCHANGED <<rooms, busy>>

(* recv <= 0                                                                *)
LoseConnection(u) ==
  /\ busy = None /\ users[u].conn
  /\ users' = [users EXCEPT ![u] = FreeSlot]
  /\ rooms' = Uninvited(Vacated(rooms, users[u].room), u)
  /\ num_conns' = num_conns - 1
  /\ UNCHANGED busy

(* A line from a connection that is in no room and does not log in: the     *)
(* server hangs up, whether or not the slot is still connected.             *)
StrayLine(u) ==
  /\ Turn(u) /\ users[u].room = None
  /\ users' = [users EXCEPT ![u] = FreeSlot]
  /\ rooms' = Uninvited(rooms, u)
  /\ num_conns' = num_conns - 1
  /\ busy' = None

-----------------------------------------------------------------------------
(* login_user; chat.c sends the line alone and waits for the answer         *)

InHall(c) == \E v \in Slot : users[v].conn /\ users[v].utent = c

AsksLogin(u) ==
  /\ busy = None /\ users[u].conn
  /\ users[u].room = None /\ users[u].utent = NoClient
  /\ UNCHANGED busy

(* CHAT_LOGIN_BOGUS                                                         *)
LoginTwice(u, c) ==
  /\ AsksLogin(u) /\ InHall(c)
  /\ users' = [users EXCEPT ![u] = FreeSlot]
  /\ rooms' = Uninvited(rooms, u)
  /\ num_conns' = num_conns - 1

(* PERM_CHAT of the level, which every member has, is the bit of            *)
(* PERM_CHATROOM; entering a room takes it off again.                       *)
LevelHasChat(c) == c \notin Guest \cup Outsider

Login(u, c, id, cloak) ==
  /\ AsksLogin(u) /\ ~InHall(c)
  /\ Matches(0, id) = {}
  /\ cloak => c \in Cloaker
  /\ LET user == [users[u] EXCEPT !.utent = c, !.chatid = id, !.cloak = cloak,
                                  !.op = LevelHasChat(c)]
     IN EnterRoom([users EXCEPT ![u] = user], rooms, u, 0, FALSE)
  /\ UNCHANGED num_conns

-----------------------------------------------------------------------------
(* Commands                                                                 *)

(* chat_goodbye: out of the room; the connection stays until it is closed.  *)
Goodbye(u) ==
  /\ Commands(u)
  /\ users' = Exited(users, u)
  /\ rooms' = Vacated(rooms, users[u].room)
  /\ UNCHANGED num_conns

JoinRoom(u, n, r) ==
  /\ Commands(u) /\ ~Restricted(u)
  /\ r \in Named(n) /\ \A s \in Named(n) : r <= s
  /\ EnterRoom(users, rooms, u, r, FALSE)
  /\ UNCHANGED num_conns

RoomOpened(n, r) == EmptyRoom(n)

(* enter_room with a name that no room in use has.                          *)
OpenRoom(u, n, r) ==
  /\ Commands(u) /\ ~Restricted(u) /\ users[u].utent \notin Outsider
  /\ Named(n) = {}
  /\ r \in FreeRooms /\ \A s \in FreeRooms : r <= s
  /\ EnterRoom(users, [rooms EXCEPT ![r] = RoomOpened(n, r)], u, r, TRUE)
  /\ UNCHANGED num_conns

(* chat_kick out of the main room ends the connection, out of another one   *)
(* leads to the main room (or to none, when that is locked).                *)
Kick(u, id, v) ==
  /\ Commands(u) /\ MayRule(u)
  /\ Finds(u, id, v) /\ users[v].room = users[u].room
  /\ LET us == Exited(users, v)
         rs == Vacated(rooms, users[v].room)
     IN IF users[u].room = 0
        THEN /\ users' = [us EXCEPT ![v] = FreeSlot]
             /\ rooms' = Uninvited(rs, v)
             /\ num_conns' = num_conns - 1
        ELSE EnterRoom(us, rs, v, 0, FALSE) /\ UNCHANGED num_conns

(* Seeded fault: the new operator is added and the old one stays.           *)
OpShared(u, v) == [users EXCEPT ![v].op = TRUE]

OpPassed(u, v) == [users EXCEPT ![u].op = FALSE, ![v].op = TRUE]

MakeOp(u, id, v) ==
  /\ Commands(u) /\ MayRule(u)
  /\ Finds(u, id, v) /\ v # u /\ users[v].room = users[u].room
  /\ users' = OpPassed(u, v)
  /\ UNCHANGED <<rooms, num_conns>>

Invite(u, id, v) ==
  /\ Commands(u) /\ MayRule(u)
  /\ Finds(u, id, v)
  /\ rooms' = [rooms EXCEPT ![users[u].room].invites = @ \cup {v}]
  /\ UNCHANGED <<users, num_conns>>

(* chat_setroom: set or clear the flags its argument names.                 *)
SetRoom(u, named, sign) ==
  /\ Commands(u) /\ MayRule(u)
  /\ rooms' = [rooms EXCEPT ![users[u].room].flags =
                 IF sign THEN @ \cup named ELSE @ \ named]
  /\ UNCHANGED <<users, num_conns>>

(* Seeded fault: only the first slot is asked.                              *)
IdNotOfFirst(u, id) == Finds(0, id, 0) => u = 0

(* The new id must be the user's own or nobody's, for the asker 0.          *)
IdAvailable(u, id) == \A v \in Slot : Finds(0, id, v) => v = u

Nick(u, id) ==
  /\ Commands(u)
  /\ IdAvailable(u, id)
  /\ users' = [users EXCEPT ![u].chatid = id]
  /\ UNCHANGED <<rooms, num_conns>>

Cloak(u) ==
  /\ Commands(u) /\ CanCloak(u)
  /\ users' = [users EXCEPT ![u].cloak = ~@]
  /\ UNCHANGED <<rooms, num_conns>>

Step(u) ==
  \/ Accept(u) \/ LoseConnection(u) \/ StrayLine(u)
  \/ \E c \in Client : \/ LoginTwice(u, c)
                       \/ \E id \in ChatId, cloak \in BOOLEAN : Login(u, c, id, cloak)
  \/ Goodbye(u) \/ Cloak(u)
  \/ \E n \in RoomName, r \in Room : JoinRoom(u, n, r) \/ OpenRoom(u, n, r)
  \/ \E id \in ChatId \cup {NoId}, v \in Slot :
       Kick(u, id, v) \/ MakeOp(u, id, v) \/ Invite(u, id, v)
  \/ \E named \in SUBSET RoomFlag, sign \in BOOLEAN : SetRoom(u, named, sign)
  \/ \E id \in ChatId : Nick(u, id)

Next == \E u \in Slot : Step(u)

Spec == Init /\ [][Next]_vars

-----------------------------------------------------------------------------
(* Properties                                                               *)

Inside(r) == {u \in Slot : users[u].conn /\ users[u].room = r}

(* station.c:97: occupants is the number of users in the room.  A room is   *)
(* free for a new name exactly when it is 0, so a leak or a lost user would *)
(* lock a room for ever or throw two parties together.                      *)
OccupantsExact == \A r \in Room : rooms[r].occupants = Cardinality(Inside(r))

(* An account is in the hall at most once.                                  *)
AccountOnce ==
  \A u, v \in Slot :
    (users[u].conn /\ users[v].conn /\ users[u].utent = users[v].utent
       /\ users[u].utent # NoClient) => u = v

(* Rooms in use have different names, and none but room 0 is called main.   *)
RoomNamesUnique ==
  \A r, s \in Room :
    (Inside(r) # {} /\ (s = 0 \/ Inside(s) # {}) /\ rooms[r].name = rooms[s].name) => r = s

(* Without sysops a room has at most one operator: the rank is handed on,   *)
(* never shared, and nobody takes it along to another room.                 *)
SoleOperator ==
  \A u, v \in Slot :
    (users[u].op /\ users[v].op /\ users[u].room = users[v].room
       /\ users[u].room # None) => u = v

(* Invitations are kept by slot number: none outlives the connection it was *)
(* given to, or the next user of the slot could enter a locked room.        *)
NoInviteForFreeSlot ==
  \A u \in Slot : ~users[u].conn => \A r \in Room : u \notin rooms[r].invites

(* A room taken into use again starts unlocked, with its opener as its      *)
(* operator, and without the invitations of the party that had it before.   *)
FreshRoom ==
  [][\A r \in Room \ {0} :
       (rooms[r].occupants = 0 /\ rooms'[r].occupants > 0) =>
         /\ rooms'[r].flags = {} /\ rooms'[r].invites = {}
         /\ \E u \in Slot : users'[u].op /\ users'[u].room = r]_vars

(* Who comes into a room that is locked is a sysop or was invited, and the  *)
(* invitation is used up.                                                   *)
LockHolds ==
  [][\A u \in Slot, r \in Room :
       (users[u].room # r /\ users'[u].conn /\ users'[u].room = r
          /\ "locked" \in rooms'[r].flags) =>
         \/ users'[u].utent \in Sysop
         \/ u \in rooms[r].invites /\ u \notin rooms'[r].invites]_vars

(* Being operator ends with leaving the room: in a room that others were in *)
(* already a newcomer is not its operator.                                  *)
NoOpOnArrival ==
  [][\A u \in Slot :
       (users'[u].room \notin {users[u].room, None} /\ users'[u].op) =>
         \A v \in Slot \ {u} : users[v].conn => users[v].room # users'[u].room]_vars

(* chat.c:328: an id somebody else uses is refused.                         *)
ChatIdsUnique ==
  \A u, v \in Slot :
    (users[u].conn /\ users[v].conn /\ users[u].chatid = users[v].chatid
       /\ users[u].chatid # NoId) => u = v

(* station.c:1270: what is not a command goes to the room, so to all in it. *)
RoomHears == \A r \in Room : Reached(r) = Inside(r)
=============================================================================
