# Verification of the Firebird BBS

TLA+ models of the parts of Firebird BBS 2.66M where several processes meet: the
article index of a board, the list of users on line, the chat server, messages
and talks between users, the user records, the mailbox that the BBS and the POP3
server share, and votes. TLC checks small instances; TLAPS proves the main
results about the board, the list of users, the user records, the chat server,
messages, talks, mailboxes and votes for every number of sessions, articles,
slots, records, rooms, messages, mails and polls.

## The system

One UNIX process per logged-in user (`bbsd` forks them), a chat daemon, a POP3
server, a news gateway and programs run from cron share files and three
shared-memory tables. There is no server in the middle and hardly any locking: a
session reads a record, waits for a key, and writes it back. `flock` covers single
calls; signals carry the news that a message or a call has come.

| Component | State | Operations | Meets the others through | Hard part |
|---|---|---|---|---|
| Record files (`record.c`) | fixed-size records in a file | append, substitute by number, update or delete by number with a check and a scan, delete one or a range by copying | every index is such a file | record numbers shift; copy and rename instead of a lock |
| Discussion board (`bbs.c`, `read.c`) | `.DIR`, `.DIGEST`, `M.*.A`, `G.*.A`, per session a page of headers | post, crosspost, delete, delete range, mark, retitle, digest, switch to the digest | record files; `numposts` in `.PASSWDS`; boards `junk`, `deleted` | every command acts on a page read some time ago |
| Chat server (`station.c`) | `users[]`, `rooms[]`, `num_conns` | accept, login, join, open, kick, hand on the rank, invite, lock, rename, cloak, leave, lose | sockets of `chat.c` | slots and rooms are reused; many ways out of a room |
| Logins (`main.c`, `bcache.c`) | `utmpshm` (list of users) | take a slot, update it, leave, purge the dead, limit logins | shared memory, signals | count-then-act, dead pids, a lock that covers a part |
| Messages (`sendmsg.c`) | `msgfile`, `msg_num`, where `r_msg` is | write the line, two signals, show, answer, wall | files and signals | signals coalesce; handlers nest; a slot changes owner |
| Talk (`talk.c`) | page request in `utmpshm`, sockets, letters | call, ring again, accept, ask, answer, refuse, hang up | sockets, `SIGUSR1`, the list of users | late answers, two calls at once, entries that go on naming somebody |
| Accounts (`register.c`, `bbs.c`, `bcache.c`, ...) | `.PASSWDS`, `uidshm` | register, purge, login, write a copy back, levels, rename, delete, reload the list | every session | read-modify-write of whole records; a reload without a lock |
| Mail and POP3 (`mail.c`, `bbspop3d.c`) | mailbox `.DIR`, texts, `pop3.DIR`, `.tmpfile` | deliver, read, mark, delete, delete range, new mail, DELE, RSET, QUIT | record files | deliveries while an index is replaced; numbers of an old copy |
| Votes (`vote.c`) | list of polls, ballots, `results`, `VOTE_FLAG` | open, vote, close early, drop, close what has expired at a login | record files, `brdshm` | whoever logs in closes; search, then append; numbers that shift |
| Boards and read marks (`boards.c`, `bcache.c`) | `.BOARDS`, `brdshm`, `.boardrc` | reload, mark as read, write back | sessions of one account | no lock on `.boardrc` |
| Announcements, expiry, gateways, editor, screens | see `PROJECT.json` | | | |

What makes each correct is stated as properties below for the modelled ones.
`PROJECT.json` lists every component with its sources and the places where the
code is exposed ("hazards"), each with the properties that look at it.

## Modules

* `RecordFile` - the operations of `record.c` on sequences. An operation that
  holds `flock` on the file is one operator; `delete_range` and `delete_record`,
  which copy the file and rename twice, are not: only their copying is an operator
  here (`Only` picks the records that stay), and their steps are actions of the
  modules that use them. `DroppedEntry`
  keeps the mixture of numbers from 1 and seeks from 0 of the fallback scan in
  `delete_file`.
* `Board` - one board, shared by sessions. `page[s]` is the array `pnt` of
  `i_read`; `view[s]` is `digestmode`; `pc[s]` and `work[s]` are where a session
  is in a command of several steps and that command's locals. `KeepHeader` is
  the site's `KEEP_DELETED_HEADER`. A step is what a session does between two
  points where it waits for a key or where another session's file operation
  makes a difference: posting is `OpenDraft`, then `PublishDraft` or
  `AbandonDraft`; deleting is `StartDelete` (the digest entry), `RemoveEntry`
  (the header) and `CancelArticle` (copy, unlink, credit); deleting a range is
  `RangeCopy`, `RangeMoveAway`, `RangeMoveIn`. Marking, retitling and digesting
  are one step: their writes are only harmful against a page read earlier, and
  the wait for the key lies between reading and the step. `Hangup` ends a session
  in the middle of a command. A board fits one screen, so a page is the index as
  it was last read.
* `AbstractBoard` - what a board promises while nobody rewrites headers: articles
  are numbered for ever and withdrawn at most once, by whoever has the right.
  `Board` maps to it by `Authors` and `Withdrawn`.
* `Chatd` - the chat server. It is one process, so there is no interleaving
  inside a command; what is hard is the long sequence of legal commands of
  several clients, and the chunk of several lines from one connection, which the
  server works off before it looks at others (`busy`). A step is one line of
  input. Flags of a slot other than the operator's rank follow from the account.
* `Utmp` - the list of users on line, `utmpshm->uinfo`, and the life of a session
  as far as the list goes. `pc[p]` is where process `p` is: `login`, `ask` (the
  question of `multi_user_check`), `enter` (before `getnewutmpent`), `entered`,
  `stamp`, `scan`, `probe`, `wipe` (the purge that follows, one step for each read
  or write of shared memory or call of `kill`), `in`, `kick` (between the two
  halves of `kick_user`), `left` (after `u_exit`, waiting for a key in
  `Q_Goodbye`), `dead`. `utmpent[p]` is its slot, `seen[p]` and `at[p]` the
  process id and slot number it is working with. Finding and taking a slot is
  one step, since it happens under `flock`; nothing else does, so every write
  through `update_ulist` is a step that looks at nothing. Reading the whole list
  to count it, and copying one entry, are single steps, too. Process ids are not
  used twice. `Ghost` are processes killed before the model begins: the table is
  in shared memory and outlives them. `evicted` and `missed` are history
  variables: they record which live sessions do not have the entry they wrote,
  and which accounts logged in while a session of theirs could not be counted.
* `Message` - messages. `msgfile[u]` is the file of account `u`, `msg_num[p]` the
  counter of `count_msg`, `ttou` and `usr2` the pending signals (one bit each:
  that is how they coalesce), and `hnd[p]` where `r_msg` is. A message is written
  by a *job*: typing, the line (`WriteLine`), `SIGTTOU` (`KillTtou`), `SIGUSR2`
  (`KillUsr2`). A session has two levels of jobs, its own and the answer it gives
  from inside the handler. The handler is one step per place where `count_msg` may
  interrupt it: count the lines, read one, print it, wait for a key. Finding the
  receiver leaves either a number of a slot in the list of users, which is followed
  when the signals are sent, or a copy of the entry (`wall`). `drift` and
  `overtaken` are history: they say why a count and a file may disagree.
* `Talk` - a call. `uinfo[s]` has what the code publishes of a session (whom it
  calls, the port it listens at), `conn`, `backlog` and `leaked` are sockets, `ui`
  the copy of an entry that `servicepage` and `talkreply` work with, `pc[s]` where
  a session is, from `Choose` in the list to the end of `do_talk`. A key pressed
  anywhere republishes the own entry, as `igetch` does. A session may leave, or,
  if it is in `Mortal`, be killed at any step; its entry stays until `Purge`.
* `Accounts` - `.PASSWDS` and the list of names in shared memory. `currentuser` and
  `lookupuser` are the two copies of a record a session has; `SetSafeRecord` and
  `WriteBack` are the two halves of every update, `Dialogue` are the forms that
  write `lookupuser` as it was read. Registration is `Check`, the purge
  (`CleanStart` ... `CleanEnd`), `Lock`, `NewRecord`, `NewListed`, `Create`,
  `CreateListed`, `Recheck`; a reload of the list goes name by name. Any session
  may be made to reload by any other that touched `FLUSH`; while it is at it, it does
  nothing else (`Free`). `stage[s]` is where process `s` is, `AbortBbs` its end.
* `Mailbox` - the index of one account, the texts it names, and the two ways of
  putting a new index in place: `.tmpfile` under `.dellock` in the BBS, `pop3.DIR`
  without a lock in the POP3 server. `page`, `noted` and `fd` are the numbers that a
  session has read: the page of `i_read` (or `fcache` of the POP3 server), the
  numbers `m_new` will delete, and the open file it reads from, which after a
  rename is an index that is no longer in place.
* `Vote` - the polls of one board. A session is in the list, at a ballot, between
  searching and casting it, in one of the questions of O and D, or in the loop of
  `b_closepolls` at a login. Counting, writing `results`, posting it on two boards,
  unlinking the ballots and the steps of `delete_record` are single actions, since
  two sessions may close the same poll. The clock is `PollTime` (`pollvote` has
  come) and `Expire`.
* `MCBoard`, `MCChatd`, `MCUtmp`, `MCMessage`, `MCTalk`, `MCAccounts`, `MCMailbox`,
  `MCVote` - instances for TLC.
* `RecordProofs`, `BoardProofs`, `MailboxProofs`, `LoginProofs` (for `Utmp` and
  `Accounts`), `ChatdProofs`, `MessageProofs`, `TalkProofs`, `VoteProofs` - theorems
  and proofs.

`Accounts`, `Mailbox` and `Vote` have a constant `Roles`: which session may do what.
The role is chosen in the initial state, so one run covers several casts without
their product. The components meet in what they share: `Board`, `Mailbox`,
`Accounts` and `Vote` are built on `RecordFile`; `Message` and `Talk` each have their own
view of the list of users, as much of an entry as they read, with the ways in
which `Utmp` shows that an entry can change hands.

Definitions commented "Seeded fault" are plausible bugs. No specification uses
them: each serves to see that a property notices when the definition below it is
replaced by the fault.

## Runs

The numbers are distinct states of the complete state space.

| Run | States | Instance | What it shows |
|---|---|---|---|
| `board_keep` | 825 197 | reader (post, retitle, may lose the line) and manager (delete, mark, digest, switch view); two posts, headers kept | `ListedExists`, `ListedOnce`, `PageAligned`, `NumbersStable`: with headers kept, stale pages are harmless for *where* a header is written; `DigestExists` |
| `board_delete` | 38 884 | three sessions post and delete, two may end at any step; headers kept | `NothingVanishes`, `CutByRightHolder`, `CutStays`, `ImplementsAbstractBoard` |
| `board_remove` | 3 677 007 | headers removed; one manager posts, marks, deletes articles and ranges and may end in the middle, a reader posts | `PostsCounted`, `MarkedCopied` with a single deleting session |
| `board_wrong_victim` | | two deleting sessions, headers removed | violated: the fallback scan of `delete_file` removes the successor |
| `chat_hall` | 1 314 413 | a member, a sysop who may cloak, a guest; two slots, two rooms, both flags | `OccupantsExact`, `NoInviteForFreeSlot`, `LockHolds` |
| `chat_rooms` | 68 835 | two members and a remote user; three slots, three rooms, three ids | `RoomNamesUnique`, `SoleOperator`, `ChatIdsUnique` |
| `utmp_list` | 1 005 501 | three sessions of one account that may kick; three slots, one of which may hold the entry of a dead process; two logins allowed | `KeepsEntry`, `LimitKept`, `EndedForAReason`: who can lose an entry, and to whom |
| `message` | 280 143 | three users, two slots, two messages; one has to press a key after a message, one leaves | `PrintsWhatItRead`, `MissedOnlyWhenOvertaken`, `AnswerToAsker`, `NewestShown` (liveness) |
| `talk` | 270 178 | three sessions of three users, or of two; two calls; one session may leave or be killed | `RightPartner`, `CallIsAsked` (liveness), `DroppedWithReason` |
| `accounts` | 3 068 867 | seven casts: registrations with a purge, levels, deletions, changes of name, also during a purge; a deletion against a change of name, and against two registrations | `OwnRecord`, `NameUnique`, `ListAgrees`, `LevelKept` |
| `mailbox` | 906 062 | nine casts of senders, sessions of the BBS, `m_new` and POP3; three mails and a delivery | `NumbersMean`, `DeliveredStays`, `TextStays`, `DeletionComplete` |
| `vote` | 1 280 450 | nine casts of two sessions of one account and one of another; one or two polls | `BallotsPerAccount`, `BallotCounted`, `ResultsPosted`, `MarkTells`, `ExpiredCloses` (liveness) |

### Bounds

Boards: `MaxTime` and `MaxPosts` limit the articles. With `MaxPosts` 2 there are
two articles per author and so every order of two records, the successor of a
deleted record and the last record; `board_wrong_victim` needs three. In
`board_remove` a second author's article may come now or a second later, that is,
before, inside or behind the range that is being copied. `MaxDigest` 0 makes the
limit bind with one entry. `MaxPostRetry` 0 lets two sessions of the same second
collide on a name.

Chat: three rooms let a second room be opened while the first is in use and main
is empty; a slot is reused after every kind of leaving; `MinConns` is how far below
zero `num_conns` is followed. Members and chat ids are interchangeable in
`chat_rooms`, which uses that as symmetry.

`utmp_list`: three sessions are enough for a purge that is overtaken (one that
purges, one that leaves, one that takes the slot) and for a second `u_exit` on a
slot that has a new owner; with the dead process the list can be full and the
limit of two can be reached and refused. A minute may go by at any time, so
purges may overlap.

`message`: two messages are what coalescing, overtaking and an answer need; two
slots for three sessions make a slot change hands while somebody types.

`talk`: two calls let two users call each other, one call a second time after
hanging up, or both call the same; the cast in which one account has two sessions
lets the first entry that names an account be the wrong one. `Backlog` is what
`listen(sock, 1)` accepts.

`accounts`: an account of the site's manager, one that was in use yesterday and one
unused for months (the purge takes it); one more record may be registered. A cast
has `until` half hours; each needs one step of the clock at most.

`mailbox`: three mails, so that a deletion in the middle moves one; the fourth is
delivered in the middle of whatever goes on. Casts are `Alone`, `Cutting` and
`NewMail` (one session of the owner, which may be cut off), `PopAlone`, and
`ListAndPop`, `NewAndPop`, `TwoLists`, `ListAndNew`, `TwoPops` (two at once).

`vote`: two polls give a number that can move. Casts are two voters of one account;
a voter with one sweep, or with two; two sweeps; closing early while another
drops; opening while another drops; dropping and sweeping with a session that may be
killed; and voters of two accounts with one who closes early and may be killed, where
somebody may have found his place in a file that is unlinked under him
(`VotersCutShort`). In all but the last somebody only logs in and out, which is the
premise of `ExpiredCloses`.

Deadlock is checked for the chat server, which always has a next step. Elsewhere
clocks, posts, messages, calls or polls are bounded and sessions may all be idle, or
all have ended.

### Fairness

Boards, chat, the list of users, accounts and mailboxes are checked for safety
only: nothing there waits for another session but `flock`.

* `Message`: weak fairness of the kernel's delivery of a pending signal
  (`CountMsg`, `StartRMsg`), of each step of the handler between two keys, and of a
  message being sent once its text is typed. No fairness of keys, of typing, or of
  leaving.
* `Talk`: weak fairness of what a session does by itself (accepting, reading the
  letter, `talkreply` up to its question, `servicepage`), of the timer that rings
  again, and, as an assumption about people, that who is asked answers and
  every talk ends. Nobody has to hang up or to call.
* `Vote`: weak fairness of the clock (`PollTime`), of a session that does not wait for
  its user, and, since `b_closepolls` runs at logins only, that sessions log in and out.

### Excuses

The code keeps few promises without a condition. A property here states the
condition, and where that is an event of the past, a history variable records
it. That none of them is idle was seen by dropping it: TLC then finds the case.

* `Message`: `overtaken` - the next message to the account was written before
  this one was shown, so its signals told the session about a later line; `drift`
  - a signal for somebody else's message came because a slot had changed hands, the
  file was removed at logout by another session, or `count_msg` ran between the
  counting of lines and their reading.
* `Talk`: `Shadowed` - `talkreply` never takes the caller out of `uinfo.destuid`
  (`talk.c:886`), so the entry of somebody who was called once goes on naming an
  account and hides later callers of it; two users who call each other at once
  wait for each other (`talk.c:679`); a callee who is gone rings no more.
* `Accounts`: `late` - a level was given after a copy was read; `lost` - the
  session's account was deleted, purged or renamed, or the record that a dialogue
  read by its number in the list was not that of the name asked for (`getuser` does
  not compare them); `haunted` - such a session wrote back its copy over whoever
  has the record by then, or to its entry in the list; `torn` - a reload of the list
  crossed a registration or put the old name back during a change of name;
  `strayed` - a write to record number 0, whose seek fails, went to record 1; `raced` -
  two sessions were about to create the same name, or the name was looked for while the
  entry of a deleted account hid the one created since (`dosearchuser` compares the
  first entry's record only).
* `Mailbox`: `overtaken` - delivered, or deleted, while a copy of the index was on
  its way in; `halfway` - a deletion was refused or broke off; `moved` - another
  session of the owner moved the numbers; `astray` - after which a number was used.
* `Vote`: `late` - a ballot cast while the poll was being closed, which recreates
  the file that `dele_vote` unlinked, or after that in a poll that is `torn`: somebody
  had found his place in the file, and writes there when it holds a ballot that
  another cast since (the poll stays open if the one who closed it was killed, or a
  `.tmpfile` stops `delete_record`); `mixed` - two sessions wrote `results` at once;
  `stale`, `astray` - a number kept across a question or after `get_record` failed
  (then `currvote` is still the poll before) took another poll away; `unmarked` -
  the mark was taken off by somebody who had found the list empty while a poll was
  on its way into it; `Stray` - a session died inside `delete_record`, and its
  `.tmpfile` ends all removing.

## What is proved

Every theorem holds for all values of the constants that satisfy the named
assumption of the module.

`RecordProofs` proves about `record.c`, for every sequence of records, that
`delete_file` takes exactly one record off a file that has the name
(`DeleteFileTakesOne`), and that it is the right one when the number given still
means the name (`DeleteFileHitsWhenAligned`); `board_wrong_victim` shows that the
condition is needed. They rest on `SearchRecordFinds` and `LocateFinds`.
`DeleteRangeKeepsRest` says of `delete_range` that what is left are exactly the
records outside the range and the marked ones, each once and in their order. It rests
on `OnlyProperties`: picking the records with numbers in a finite set is a bijection
from the new numbers to the old ones that keeps the order.

`BoardProofs` proves that `TypeOK` is an invariant of every instance, and, under
`KeepsNumbers` (headers are kept and nobody deletes a range), for every set of
sessions, users and bounds, that `PageAligned`, `ListedOnce`, `ListedExists` are
invariants and that `NumbersStable` holds of every step. The argument is the inductive invariant
`IInv`: besides these it needs `DraftsApart` (drafts being edited have names
that differ from each other's and from every listed one, and their files exist;
otherwise publishing could list a name twice) and `NoRangeRuns` (no session is
inside a range deletion, so the index never shrinks). The chain is: the index
never shrinks and no record changes its name; so a page read earlier is a prefix,
by names, of the index; so writing a line of it back at its number changes no
name. The proof has one step per action.

It goes on from there. `BoardNothingVanishes`: under
`KeepsNumbers` whatever was published stays listed, which with `IInv` is inductive.
Under `OnlyDeletes` (besides, nobody marks, retitles or digests: these write a
whole header of the page back and could undo a cancellation made meanwhile) it
proves `CutByRightHolder`, `CutStays` and `BoardImplementsAbstract`: `Board`
implements `AbstractBoard`. The second invariant, `JInv`, says that a line of a page
has the author of the article of that number, that a draft is its writer's and that
who is about to delete has the right to; with it every step leaves the index alone,
is an `Adds` (mapped to `Post`) or a `Cuts` (mapped to `Withdraw`).

The last three theorems are about boards where one session, a manager's, does the
work; each names whom it leaves to the others, and `board_keep` and `board_remove`
are instances of them.
* `BoardMarkedCopied`, under `OneHand`: one session marks, retitles, digests and
  deletes ranges, the others post and, where no header is left behind, delete.
  `RInv` adds to `MarkedCopied` that drafts are not marked and a session is only in
  a command it may give. Between the copy of `delete_range` and its renames the
  others add unmarked records to the index or take records out of it, so each marked
  record of the index is one of the copy (`MarkedFrom`). With a second session that
  marks it fails.
* `BoardDigestExists`, under `DigestOfOne`: headers are kept, and while a session
  may read the digest nobody else digests or deletes. `DInv` adds to `DigestExists`
  that no name is twice in `.DIGEST` (so taking one entry out and unlinking its file
  leaves no other entry of that name), and that the page of whoever reads the digest
  is aligned with it and has no line that counts as digested. A step leaves the
  names in the digest, adds one or drops one (`DigestKeeps`, `DigestAdds`,
  `DigestDrops`).
* `BoardPostsCounted`, under `SoleDeleter`: one session deletes, also ranges, where
  headers are kept or not; the others post. `CInv` says that every line of its page
  is the record of that number (`PageHolds`), that the header it is about to take
  out is still that of the article it confirmed (`Target`), that the count covers
  the articles and the debt of the deletion under way (`CountHolds`), and those in
  the copy of a range deletion (`CopyHolds`: the renames may lose a post made
  meanwhile, never bring one back). The inequalities of cardinalities rest on
  injections between the records credited to an account before and after.

`LoginProofs` has two parts. The first proves, under `UtmpAssumption` (constants have their types and there
is at least one slot), all properties of `utmp_list` and that no process is listed
twice. Its `IInv` adds to `TypeOK`, `KeepsEntry` and `ListedOnce`: `EntryOfOwner` (an
entry with a process id is the one that process wrote, in the slot it believes
to be its own, or the process is dead), `NoSlotYet` and `ReadBefore` (a process id
once read is of a process that was started; one that was found dead stays dead).
`KeepsEntry` needs `EntryOfOwner` so that a newcomer, who takes a slot only if it
is not in use, takes nobody's; and `EntryOfOwner` is what makes `ListedOnce`
inductive. `EndedForAReason` follows from `IInv` step by step: a session that
writes over the entry of another one has, by `KeepsEntry`, lost its own or left.
`LimitKept` is proved apart: when every admitted session of the account is in
the list, mapping each to its slot is an injection into what `count_user` counts.

The second part of `LoginProofs` proves type correctness and all four properties of
`accounts`, under `AccountsAssumption`, `RolesAssumption` and `FileAssumption` (names
are names, a cast has its clock, and the file at the start has each account once): for
every set of processes and accounts, every cast, any file and any `MaxUsers`. None of
the four is inductive, and each is the visible part of a layer.
* `Base` holds of every state, whatever went wrong before: types; the record a session
  goes on to write exists (`RecordsExist`); names that people have or ask for are
  accounts (`NamesOfPeople`); who looks for a free record or has just written it holds
  `flock` (`FlockHeld`); one process at a time is in a purge and nobody reloads meanwhile
  (`PurgeAlone`: a purge takes less than the hour until the next one is due), and after
  it the list is older than `FLUSH` until somebody looks at it, at the latest whoever
  purged (`ReloadTimes`); a reload that nobody crossed has counted
  every record but the one being taken (`CountedAll`).
* `Owning` carries `OwnRecord`. It speaks of *plain* records (no lost session wrote to
  them) in a *calm* state (neither `torn` nor `strayed`), as the property does.
  `OwnCopies`: both copies of a session carry the name of their record.
  `OwnRegistration`: a registration has its record to itself up to `CreateListed`.
  `FreeEntries` is what makes that inductive: an entry that is free, or beyond the
  number, or about to be filled by a reload as free, belongs to a record that is free
  (or being taken under `flock`), so `searchnewuser`, which looks at the list only,
  never gives away a record in use. It depends on `CountedAll`.
* `Listing` carries `ListAgrees`: `EntriesMatch` says that an entry is that of its record,
  or some session is between the two writes (`Between`), or a purge emptied the record
  and the list is older than `FLUSH`; and a reload leaves entries behind that match.
* `Asking` carries `NameUnique`: two sessions that ask for one name, or one that asks for
  a name a record has, have put it among `raced` (`AskedTwice`, `AskedAndThere`), and
  two records have a name only if it is there (`UniqueNames`).
* `Leveling` is what `LevelKept` needs of each state: a copy that is not `late` has the
  level of its record (`LevelCopies`), and an empty record has none (`EmptyLevel`).

A step touches one record and its entry at most (`Touches`), and either *remakes* the
record, that is, gives it another owner (`Remakes`; then nobody who is not lost knows
of it any more, `RemakesFresh`), or leaves its owner alone (`KeptElse`). The proofs of
the layers are by these two cases and not by thirty actions.

Looking for these invariants corrected the model. Three histories missed a case, which
TLC then found on a cast not tried before: a change of name that a reload overtakes, a
change of name of an account whose deletion is half done, and two registrations of the
name of such an account (the casts `RenamesAtPurge`, `TwoAdmins` and `NameAnew`). A
session in the middle of a reload could do something else, also let half an hour go by,
which the code cannot. And `x_userdefine`, like the administrator's dialogues, may read
the record of somebody else by the number of a stale entry.

`ChatdProofs` proves all properties of `chat_hall` and `chat_rooms`, and three more
(`AccountOnce`; `FreshRoom`: a room taken into use again has nothing of its last
use; `NoOpOnArrival`), under `ChatdAssumption` only, but for two: `SoleOperator` where
there are no sysops (a sysop can make somebody operator of a room that has one) and
`ChatIdsUnique` where nobody may cloak. `IInv` is `TypeOK` (with an integer in place
of the count of occupants), `OccupantsExact`, `AccountOnce`, `NoInviteForFreeSlot` and
`Vacant`: a slot without connection has no account, id or rank, and a chunk goes on
only for a slot that is connected or in no room. Without `Vacant` a newcomer could
start with the rank of the last user of the slot. Whatever a line of input does
to the tables, it moves one user at most; `Affects` and `Orderly` say what becomes
of counts, accounts, names, ranks, ids and locks in such a step, each action is
shown to be of that form, and every property follows from the form alone. That
the counts stay exact is `Recount`, the one lemma that speaks of cardinality.

`MessageProofs` proves, under `MessageAssumption`, type correctness,
`AnswerToAsker`, `PrintsWhatItRead` and `MissedOnlyWhenOvertaken`. It goes in three
layers. `IInv0` says what is written where: every line of a file, every message
shown, answered or signalled is in the book (`FilesWritten`, `AnsweredWritten`,
`JobsWritten`), a session that is counting has counted something, and an answer
under way is addressed to the one who asked (`AnswerJob`); `AnswerToAsker` is part
of it. `IInv1` is about counting: a message is sent by one job at a time
(`SendersDiffer`), what is still being sent is in its file (`SentInFile`), and
`Accounted`: for a session outside `drift`, its counter with the pending `SIGTTOU`
is at most the number of lines of its account's file that are no longer being sent.
So between counting and reading a session never counts back beyond the first line,
and `r_msg` prints a line it has read. `IInv2`, which needs no account, is about the
newest message: of the lines of a file only the last is neither shown nor overtaken
(`OnlyLastMissed`); whoever a message is sent to is found again for both signals as
long as he has not left (`AllFind`); and after `SIGTTOU` that line still comes
(`Comes`): the signal is pending, or the counter is above zero and, if the lines are
counted already, the count reaches the last line or will be taken again.

`TalkProofs` proves, under `TalkAssumption`, type correctness, `RightPartner` and
`DroppedWithReason`. `IInv` is `TypeOK` with `PortsDiffer` (no two entries have the
same port, and every port noted was opened), `EntryOfCaller` (who waits has his port
and the account he calls in his entry), `NotedCall` (the port a called session has
noted is, if somebody waits there, of a call to its account) and `Connections` and
`ConnectedTo` (who is connected to a caller is of the account that was called). That
an answer that comes late finds a port nobody else has taken is what keeps a letter
from reaching a later call.

`VoteProofs` proves, under `VoteAssumption`, type correctness, `MarkTells`,
`ResultsPosted` and `BallotCounted` and, for a finite set of sessions,
`BallotsPerAccount`. `Typed` is `TypeOK` in parts with `Ranges`: who removes a poll
took its number, 1 or more, from the list or from the loop of the sweep, and who
writes a poll has that poll's number. `Marked` carries `MarkTells`: while a poll is
listed, is in a copy of the list that is being made, or is about to be appended by
somebody past the step that marks, the mark is there, and nobody stands where he has
found the list empty. `Bounded` carries `BallotsPerAccount`: each place of the
ballot file that holds a ballot of the account, or where a session found one and is
about to write (`Claimed`), has a session of its own that is not one of those about
to append (`Fresh`). Without the claimed places it is not inductive: a ballot
written by number into a file that was emptied meanwhile would come from nowhere.
Unlinking the file takes ballots away only, and a ballot of another account over one
of this account takes its place out of the account's. `Reported` carries
`ResultsPosted`: a number that is not out of date is right in the list
(`RightNumber`), one session at a time writes and posts results unless they are
`mixed` (`OnePrints`), what it has written and posted by now is of its poll
(`Printed`), a copy leaves out the poll of its session only (`Left`), and a
`.tmpfile` that does not exist lists nothing (`TmpEmpty`). `CountKept` carries
`BallotCounted`: past the count the ballots are in the tally, the results or the
post of the session that closes (`Carried`), the place where somebody is about to
write over his ballot is still his, unless the poll is torn (`PlaceKept`), and the
ballots of a poll that is torn are in the post (`TornPosted`). The property was
first stated without `torn`, for ballots that were cast when nobody was closing the
poll. `PlaceKept` then is not inductive, and TLC, given the step the proof stopped
at, found the history behind it: the cast `VotersCutShort`.

`MailboxProofs` proves, under `MailboxAssumption`, type correctness and all four
properties of `mailbox`. It is done in five layers, each an inductive invariant on top
of the ones before.
* `Typed` is `TypeOK` in parts, with what the types rest on: DELE takes numbers of the
  copy that the server has, a number read is 1 or more.
* `Known` carries `TextStays`. Every name in an index, a copy or a page is of a mail that
  was delivered, what is about to be removed was asked for, and a draft has a name
  nobody else has (`Draft`), so its text is nobody's to remove.
* `Means` carries `NumbersMean`. `Keeps` is what most steps do to the index: names stay at
  their numbers and new ones come at the end. `PageMeans`, `NotedMeans` and `WorkMeans` say
  of each number kept that it is right in the index in place, `CopyMeans` that it is right
  in the copy about to be put there. A deletion by `m_new` moves every number behind it,
  so `Ordered` is needed: it works its numbers off from the last one, and the ones left
  are below the one that goes. `OwnIndex`: an index that was replaced under `m_new` was
  replaced by another session.
* `Stays` carries `DeliveredStays`. One session at a time is in a swap (`OneSwaps`), and what is
  delivered and not asked for is in the index (`DirWhole`), in `.tmpfile` (`TmpWhole`) or in
  `pop3.DIR` (`PopWhole`) between any two steps of the renames; and `pop3.DIR` is as
  long as what this QUIT wrote (`PopThere`).
* `Unique` says that no index and no copy lists a mail twice, so that a record that is taken
  out takes its name along.
* `Gone` carries `DeletionComplete`. A text that was asked for and is still there has a session
  about to unlink it (`TextGone`); a header that is still in an index or a copy is on the
  list of `m_new` (`Pending`) or in an index about to be replaced (`DirGone`, `TmpGone`, `PopGone`).

Only model-checked: liveness (`NewestShown`, `CallIsAsked`, `ExpiredCloses`), which is out
of the prover's reach. Every safety property of a passing run is proved, for all values
of the constants or under the condition on the cast named above.

## What is left out

In the modelled parts: the text of articles, titles, mails, letters and ballots,
reading and quoting, thread mode (works on a private copy of the index), the user's
search commands, topics and lists in chat, action verbs, partial lines of a socket,
who may page or write to whom (friends, pagers, rejected users), passwords, mail
quotas and lists of receivers, what is counted of a ballot, two polls opened in the
same second (they share their files).

Read from the code and in the model, but not the object of a property:

* `digest_post` compares the limit with `>` after making the link, so `.DIGEST`
  grows to `MAX_DIGEST + 1` (`bbs.c:940`);
* an author who deletes from a page read before the article was digested leaves
  its entry in `.DIGEST` (`bbs.c:1744`), which is why `DigestExists` is checked with
  one deleting session and proved under `DigestOfOne`;
* with two managers, `delete_range` loses an article that was marked after its header
  was copied, `edit_title` (`bbs.c:1628`) writes back a header as it was before a
  deletion, and a range deletion that broke off leaves headers without files, which
  can still be digested;
* a `.tmpfile` left by a session that ended makes every later range deletion of the
  board do nothing (`record.c:365`);
* `send_to_room` goes over `MAXROOM` slots instead of all (`station.c:288`): who sits in
  a later slot hears nothing;
* a sysop who kicks himself out of the main room in the middle of a chunk is logged
  out twice and `num_conns` decremented twice (`station.c:896`);
* `chatid_to_indx` passes over cloaked users when slot 0 may cloak (`station.c:211`),
  so `ChatIdsUnique` is checked where nobody cloaks;
* after `Q_Goodbye` has run `u_exit`, losing the line at "press a key" runs it
  again (`bbs.c:2240`), on a slot that may be somebody else's by then, and a kick
  from the list of users writes into slot 1 (`admintool.c:965`): two disjuncts of
  `Reason` in `Utmp`;
* a caller whose callee has left goes back without closing his socket
  (`talk.c:745`), so a late answer reaches a port nobody reads (`AnswerNobody`);
* a letter that cannot be read leaves the byte it should hold uninitialised
  (`talk.c:777`): `ReadLetter` then takes any.

Seen while reading and not modelled: a process id that was read before a question is
killed after it (`main.c:322`); `resolve_boards` fills the shared table in place
(`bcache.c:109`); `brc_update` merges read marks without a lock (`boards.c:610`);
`fuzzy_chatid_to_indx` reads `users[-1]` when nobody matches (`station.c:241`); the list
of polls indexes `vote_type[-1]` for a poll of type 0 (`vote.c:316`); with `HAVE_CHKLOAD`
parent and child of `bbsd` both go on accepting (`bbsd.c:635`).

Not modelled at all: see the components with status `not_modelled`, each with its
reason: announcements and thread lists have one writer or none; the editor, pager,
screen, libraries and games keep their state in one process; the gateways, the
other servers and the programs of cron append to or read the files modelled here.

## Plan

1. `ReadMarks`: `brc_*` as algorithms against a reference definition, and two
   sessions of one account; `resolve_boards` with its readers.
2. `expire.c` as a further actor of the board.
