------------------------------ MODULE Mailbox -------------------------------
(***************************************************************************)
(* The mailbox of one account: its index .DIR and the texts it names.       *)
(* Anybody delivers into it; its owner reads and deletes in sessions of the *)
(* BBS (the page of i_read, and m_new, which walks through the index itself) *)
(* and through the POP3 server, which works on a copy of the index made at  *)
(* the login and puts a new index in place at QUIT.                         *)
(*                                                                         *)
(* Every command names a mail by its number.  A session of the BBS replaces *)
(* the index under flock on .dellock by way of .tmpfile; the POP3 server    *)
(* does it without a lock by way of pop3.DIR, which it does not truncate.   *)
(* Names of texts are not used twice: M.<time>.A with O_EXCL.               *)
(***************************************************************************)
EXTENDS FiniteSets, RecordFile

CONSTANTS
  Session,      \* processes: senders, sessions of the owner, POP3 connections
  Roles,        \* what each may do
  InitBox,      \* .DIR at the start
  MaxMail       \* bound: mails that exist in the end

Mail == 1..MaxMail

ASSUME MailboxAssumption ==
  /\ MaxMail \in Nat
  /\ InitBox \in Seq([file : Mail, read : BOOLEAN, marked : BOOLEAN])
  /\ \A i \in 1..Len(InitBox) : InitBox[i].file = i

(* struct fileheader, with FILE_READ and FILE_MARKED; 0 is an empty name.    *)
Header == [file : {0} \cup Mail, read : BOOLEAN, marked : BOOLEAN]
ZeroHeader == [file |-> 0, read |-> FALSE, marked |-> FALSE]
NewHeader(n) == [file |-> n, read |-> FALSE, marked |-> FALSE]

VARIABLES
  exists, dir,  \* .DIR: whether it is there, and its records
  files,        \* texts
  tmpfile,      \* .tmpfile
  popdir,       \* pop3.DIR
  dellock,      \* who holds flock on .dellock
  last,         \* the last name given to a text
  role,         \* chosen at the start
  pc,           \* where a process is
  page,         \* pnt of i_read, fcache of bbspop3d
  dele,         \* numbers that DELE marked
  work,         \* a header being composed or asked about, and its number
  noted,        \* delmsgs: the numbers m_new has to delete, and their mails
  fd,           \* the index m_new has open: the one in place, or an older one
  delivered,    \* history: mails that were put in .DIR
  asked,        \* history: mails the owner asked to delete
  overtaken,    \* history: mails delivered or deleted while a copy of the
                \* index was on its way in
  halfway,      \* history: a deletion was refused or broke off
  moved,        \* history: sessions that read numbers which changed since
  astray        \* history: a number meant another mail, or two copies met

index == <<exists, dir>>
side == <<tmpfile, popdir, dellock>>
local == <<page, dele, work, noted, fd>>
history == <<delivered, asked, overtaken, halfway, moved, astray>>
vars == <<index, files, side, last, role, pc, local, history>>

NoTmp == [exists |-> FALSE, recs |-> <<>>]
NoWork == [hdr |-> ZeroHeader, ent |-> 0]
Live == [live |-> TRUE, recs |-> <<>>]

InNew == {"new", "ask", "shown"}
InSwap == {"swap", "rename", "newswap", "newrename", "popswap", "poprename"}

TypeOK ==
  /\ exists \in BOOLEAN /\ dir \in Seq(Header) /\ (~exists => dir = <<>>)
  /\ files \subseteq Mail /\ last \in 0..MaxMail
  /\ tmpfile \in [exists : BOOLEAN, recs : Seq(Header)]
  /\ popdir \in [exists : BOOLEAN, recs : Seq(Header)]
  /\ dellock \subseteq Session /\ Cardinality(dellock) <= 1
  /\ role \in Roles
  /\ pc \in [Session -> {"idle", "edit", "unlink", "newdel", "pop"} \cup InNew \cup InSwap]
  /\ page \in [Session -> Seq(Header)] /\ dele \in [Session -> SUBSET Nat]
  /\ work \in [Session -> [hdr : Header, ent : Nat]]
  /\ noted \in [Session -> Seq([ent : Nat, file : {0} \cup Mail])]
  /\ fd \in [Session -> [live : BOOLEAN, recs : Seq(Header)]]
  /\ delivered \subseteq Mail /\ asked \subseteq {0} \cup Mail
  /\ overtaken \subseteq {0} \cup Mail /\ halfway \subseteq {"deletion", "index"}
  /\ moved \subseteq Session /\ astray \in BOOLEAN

Init ==
  /\ exists = TRUE /\ dir = InitBox
  /\ files = 1..Len(InitBox) /\ last = Len(InitBox)
  /\ tmpfile = NoTmp /\ popdir = NoTmp /\ dellock = {}
  /\ role \in Roles
  /\ pc = [s \in Session |-> "idle"]
  /\ page = [s \in Session |-> <<>>] /\ dele = [s \in Session |-> {}]
  /\ work = [s \in Session |-> NoWork] /\ noted = [s \in Session |-> <<>>]
  /\ fd = [s \in Session |-> Live]
  /\ delivered = 1..Len(InitBox) /\ asked = {} /\ overtaken = {}
  /\ halfway = {} /\ moved = {} /\ astray = FALSE

-----------------------------------------------------------------------------
May(s, c) == c \in role[s]

Goto(s, label) == pc' = [pc EXCEPT ![s] = label]

Listed(f) == {f[i].file : i \in 1..Len(f)}

Swapping == {s \in Session : pc[s] \in InSwap}

(* The record with number i is not the one that is meant.                    *)
Missed(i, n) == i > Len(dir) \/ dir[i].file # n

(* substitute_record(currmaildir, h, i)                                      *)
Substitute(h, i) ==
  /\ exists' = TRUE
  /\ dir' = SubstituteRecord(dir, h, i, ZeroHeader)
  /\ astray' = (astray \/ Missed(i, h.file))

(* The numbers that others than s read have changed.                         *)
MovedBy(s) == Session \ {s}

(* Redraw on PARTUPDATE or FULLUPDATE: another number of records, and the     *)
(* page is read again; where nothing is left i_read ends.                   *)
Redraw(s, p, d) ==
  /\ page' = [page EXCEPT ![s] = IF Len(d) = Len(p) THEN p ELSE d]
  /\ moved' = IF Len(d) = Len(p) THEN moved ELSE moved \ {s}

(* Seeded fault: the page that was read before is kept.                      *)
KeepPage(s, d) ==
  /\ page' = [page EXCEPT ![s] = IF Len(@) = 0 THEN d ELSE @]
  /\ moved' = moved \ {s}

(* Redraw on DIRCHANGED                                                      *)
Reread(s, d) ==
  /\ page' = [page EXCEPT ![s] = d]
  /\ moved' = moved \ {s}

(* Everybody who has the index open keeps it, whatever its name means then.  *)
Frozen ==
  [q \in Session |-> IF pc[q] \in InNew /\ fd[q].live
                     THEN [live |-> FALSE, recs |-> dir] ELSE fd[q]]

-----------------------------------------------------------------------------
(* Delivery: do_send, and mail_file without the time for editing             *)

SendOpen(s) ==
  /\ May(s, "send") /\ pc[s] = "idle" /\ last < MaxMail
  /\ last' = last + 1 /\ files' = files \cup {last + 1}
  /\ work' = [work EXCEPT ![s] = [hdr |-> NewHeader(last + 1), ent |-> 0]]
  /\ Goto(s, "edit")
  /\ UNCHANGED <<index, side, role, page, dele, noted, fd, history>>

SendAbort(s) ==
  /\ pc[s] = "edit"
  /\ files' = files \ {work[s].hdr.file}
  /\ work' = [work EXCEPT ![s] = NoWork]
  /\ Goto(s, "idle")
  /\ UNCHANGED <<index, side, last, role, page, dele, noted, fd, history>>

SendDeliver(s) ==
  /\ pc[s] = "edit"
  /\ exists' = TRUE /\ dir' = AppendRecord(dir, work[s].hdr)
  /\ delivered' = delivered \cup {work[s].hdr.file}
  /\ overtaken' = IF Swapping = {} THEN overtaken
                  ELSE overtaken \cup {work[s].hdr.file}
  /\ work' = [work EXCEPT ![s] = NoWork]
  /\ Goto(s, "idle")
  /\ UNCHANGED <<files, side, last, role, page, dele, noted, fd, asked, halfway,
                 moved, astray>>

-----------------------------------------------------------------------------
(* The page of i_read: m_read, mail_read, mail_mark, mail_del, mail_del_range *)

OpenBox(s) ==
  /\ May(s, "list") /\ pc[s] = "idle" /\ page[s] = <<>>
  /\ Reread(s, dir)
  /\ UNCHANGED <<index, files, side, last, role, pc, dele, work, noted, fd,
                 delivered, asked, overtaken, halfway, astray>>

LeaveBox(s) ==
  /\ pc[s] = "idle" /\ page[s] # <<>>
  /\ page' = [page EXCEPT ![s] = <<>>]
  /\ UNCHANGED <<index, files, side, last, role, pc, dele, work, noted, fd,
                 history>>

Chooses(s, c, i) == May(s, c) /\ pc[s] = "idle" /\ i \in 1..Len(page[s])

(* The line of the page is changed and written back.                         *)
WriteLine(s, i, h) ==
  /\ Substitute(h, i)
  /\ UNCHANGED <<files, side, last, role, pc, dele, work, noted, fd, delivered,
                 asked, overtaken, halfway>>

(* READ_NEXT goes on with the next line and does not redraw.                 *)
MailRead(s, i) ==
  LET h == [page[s][i] EXCEPT !.read = TRUE]
      p == [page[s] EXCEPT ![i] = h]
  IN /\ Chooses(s, "read", i)
     /\ WriteLine(s, i, h)
     /\ \/ Redraw(s, p, dir')
        \/ page' = [page EXCEPT ![s] = p] /\ UNCHANGED moved

MailMark(s, i) ==
  LET h == [page[s][i] EXCEPT !.marked = ~@]
  IN /\ Chooses(s, "mark", i)
     /\ WriteLine(s, i, h)
     /\ Redraw(s, [page[s] EXCEPT ![i] = h], dir')

(* delete_file, and on success the text.                                     *)
MailDel(s, i) ==
  LET n == page[s][i].file
  IN /\ Chooses(s, "delete", i) /\ n \in Listed(dir)
     /\ dir' = DeleteFile(dir, i, n)
     /\ astray' = (astray \/ n \in Listed(dir'))
     /\ asked' = asked \cup {n}
     /\ overtaken' = IF Swapping = {} THEN overtaken ELSE overtaken \cup {n}
     /\ moved' = moved \cup MovedBy(s)
     /\ work' = [work EXCEPT ![s] = [hdr |-> page[s][i], ent |-> i]]
     /\ Goto(s, "unlink")
     /\ UNCHANGED <<exists, files, side, last, role, page, dele, noted, fd,
                    delivered, halfway>>

MailDelFails(s, i) ==
  /\ Chooses(s, "delete", i) /\ page[s][i].file \notin Listed(dir)
  /\ Redraw(s, page[s], dir)
  /\ UNCHANGED <<index, files, side, last, role, pc, dele, work, noted, fd,
                 delivered, asked, overtaken, halfway, astray>>

MailUnlink(s) ==
  /\ pc[s] = "unlink"
  /\ files' = files \ {work[s].hdr.file}
  /\ work' = [work EXCEPT ![s] = NoWork]
  /\ Reread(s, dir)
  /\ Goto(s, "idle")
  /\ UNCHANGED <<index, side, last, role, dele, noted, fd, delivered, asked,
                 overtaken, halfway, astray>>

-----------------------------------------------------------------------------
(* A new index by way of .tmpfile: delete_range, and delete_record for m_new *)

MayCopy == dellock = {} /\ exists /\ ~tmpfile.exists

CopyRefused == dellock = {} /\ (tmpfile.exists \/ ~exists)

Cut(i1, i2) == {i \in 1..Len(dir) : i1 <= i /\ i <= i2 /\ ~dir[i].marked}

(* Seeded fault: the loop unlinks before it looks at FILE_MARKED.             *)
CutTextsAll(i1, i2) == {dir[i].file : i \in {j \in 1..Len(dir) : i1 <= j /\ j <= i2}}

CutTexts(i1, i2) == {dir[i].file : i \in Cut(i1, i2)}

RangeCopy(s, i1, i2) ==
  /\ May(s, "range") /\ pc[s] = "idle" /\ page[s] # <<>> /\ i2 - i1 > 1
  /\ MayCopy
  /\ dellock' = dellock \cup {s}
  /\ tmpfile' = [exists |-> TRUE, recs |-> DeleteRange(dir, i1, i2)]
  /\ files' = files \ CutTexts(i1, i2)
  /\ asked' = asked \cup {dir[i].file : i \in Cut(i1, i2)}
  /\ astray' = (astray \/ Swapping # {} \/
        \E i \in Cut(i1, i2) : i <= Len(page[s]) /\ page[s][i].file # dir[i].file)
  /\ Goto(s, "swap")
  /\ UNCHANGED <<index, popdir, last, role, local, delivered, overtaken, halfway,
                 moved>>

RangeRefused(s) ==
  /\ May(s, "range") /\ pc[s] = "idle" /\ page[s] # <<>>
  /\ CopyRefused
  /\ Reread(s, dir)
  /\ UNCHANGED <<index, files, side, last, role, pc, dele, work, noted, fd,
                 delivered, asked, overtaken, halfway, astray>>

(* rename(filename, deleted)                                                 *)
SwapAway(s) ==
  /\ pc[s] \in {"swap", "newswap"} /\ exists
  /\ exists' = FALSE /\ dir' = <<>>
  /\ fd' = Frozen /\ moved' = moved \cup MovedBy(s)
  /\ Goto(s, IF pc[s] = "swap" THEN "rename" ELSE "newrename")
  /\ UNCHANGED <<files, side, last, role, page, dele, work, noted, delivered,
                 asked, overtaken, halfway, astray>>

(* Seeded fault: the next entry of delmsgs is number k of n, from its start. *)
FromTheStart(q) == 1

(* delmsgs is worked off from its end: the entry that is next.               *)
NextNoted(q) == Len(q)

Rest(q) == SubSeq(q, 1, NextNoted(q) - 1) \o SubSeq(q, NextNoted(q) + 1, Len(q))

(* After the last rename, or the one that failed: del_range reads the page    *)
(* again, m_new goes on with the next number.                               *)
SwapDone(s) ==
  /\ dellock' = dellock \ {s}
  /\ IF pc[s] \in {"swap", "rename"}
     THEN Goto(s, "idle") /\ page' = [page EXCEPT ![s] = dir'] /\ UNCHANGED noted
     ELSE /\ Goto(s, "newdel") /\ noted' = [noted EXCEPT ![s] = Rest(@)]
          /\ UNCHANGED page

SwapFails(s) ==
  /\ pc[s] \in {"swap", "newswap"} /\ ~exists
  /\ SwapDone(s)
  /\ halfway' = halfway \cup {"deletion"}
  /\ UNCHANGED <<index, files, tmpfile, popdir, last, role, dele, work, fd,
                 delivered, asked, overtaken, moved, astray>>

(* rename(tmpfile, filename)                                                 *)
SwapIn(s) ==
  /\ pc[s] \in {"rename", "newrename"}
  /\ exists' = TRUE /\ dir' = tmpfile.recs /\ tmpfile' = NoTmp
  /\ fd' = Frozen /\ moved' = moved \cup MovedBy(s)
  /\ SwapDone(s)
  /\ UNCHANGED <<files, popdir, last, role, dele, work, delivered, asked,
                 overtaken, halfway, astray>>

-----------------------------------------------------------------------------
(* m_new: apply_record with read_new_mail, then the deletions                *)

NewStart(s) ==
  /\ May(s, "new") /\ pc[s] = "idle" /\ page[s] = <<>> /\ exists
  /\ fd' = [fd EXCEPT ![s] = Live] /\ moved' = moved \ {s}
  /\ Goto(s, "new")
  /\ UNCHANGED <<index, files, side, last, role, page, dele, work, noted,
                 delivered, asked, overtaken, halfway, astray>>

(* What the open index has.                                                  *)
Reads(s) == IF fd[s].live THEN dir ELSE fd[s].recs

(* A mail that is neither read nor marked is asked about.                    *)
NewNext(s) ==
  LET i == work[s].ent + 1
  IN /\ pc[s] = "new" /\ i <= Len(Reads(s))
     /\ work' = [work EXCEPT ![s] = [hdr |-> Reads(s)[i], ent |-> i]]
     /\ Goto(s, IF Reads(s)[i].read \/ Reads(s)[i].marked THEN "new" ELSE "ask")
     /\ UNCHANGED <<index, files, side, last, role, page, dele, noted, fd, history>>

NewLast(s) ==
  /\ \/ pc[s] = "new" /\ work[s].ent + 1 > Len(Reads(s))
     \/ pc[s] = "ask"
  /\ work' = [work EXCEPT ![s] = NoWork]
  /\ fd' = [fd EXCEPT ![s] = Live]
  /\ Goto(s, "newdel")
  /\ UNCHANGED <<index, files, side, last, role, page, dele, noted, history>>

NewRead(s) ==
  LET h == [work[s].hdr EXCEPT !.read = TRUE]
  IN /\ pc[s] = "ask"
     /\ Substitute(h, work[s].ent)
     /\ work' = [work EXCEPT ![s] = [hdr |-> h, ent |-> work[s].ent]]
     /\ Goto(s, "shown")
     /\ UNCHANGED <<files, side, last, role, page, dele, noted, fd, delivered,
                    asked, overtaken, halfway, moved>>

NewKeep(s) ==
  /\ pc[s] \in {"ask", "shown"}
  /\ Goto(s, "new")
  /\ UNCHANGED <<index, files, side, last, role, local, history>>

(* The text goes at once, the number is noted.                               *)
NewUnlink(s) ==
  LET n == work[s].hdr.file
  IN /\ pc[s] = "shown"
     /\ files' = files \ {n} /\ asked' = asked \cup {n}
     /\ noted' = [noted EXCEPT ![s] = Append(@, [ent |-> work[s].ent, file |-> n])]
     /\ Goto(s, "new")
     /\ UNCHANGED <<index, side, last, role, page, dele, work, fd, delivered,
                    overtaken, halfway, moved, astray>>

NewCopy(s) ==
  LET e == noted[s][NextNoted(noted[s])]
  IN /\ pc[s] = "newdel" /\ noted[s] # <<>>
     /\ MayCopy
     /\ dellock' = dellock \cup {s}
     /\ tmpfile' = [exists |-> TRUE, recs |-> DeleteRecord(dir, e.ent)]
     /\ astray' = (astray \/ Swapping # {} \/ Missed(e.ent, e.file))
     /\ Goto(s, "newswap")
     /\ UNCHANGED <<index, files, popdir, last, role, local, delivered, asked,
                    overtaken, halfway, moved>>

NewRefused(s) ==
  /\ pc[s] = "newdel" /\ noted[s] # <<>>
  /\ CopyRefused
  /\ noted' = [noted EXCEPT ![s] = Rest(@)]
  /\ halfway' = halfway \cup {"deletion"}
  /\ UNCHANGED <<index, files, side, last, role, pc, page, dele, work, fd,
                 delivered, asked, overtaken, moved, astray>>

NewDone(s) ==
  /\ pc[s] = "newdel" /\ noted[s] = <<>>
  /\ Goto(s, "idle")
  /\ UNCHANGED <<index, files, side, last, role, local, history>>

-----------------------------------------------------------------------------
(* The POP3 server: Login_init, Dele, Rset, Quit and do_delete               *)

PopLogin(s) ==
  /\ May(s, "pop") /\ pc[s] = "idle"
  /\ Reread(s, dir)
  /\ Goto(s, "pop")
  /\ UNCHANGED <<index, files, side, last, role, dele, work, noted, fd, delivered,
                 asked, overtaken, halfway, astray>>

Dele(s, i) ==
  /\ pc[s] = "pop" /\ i \in 1..Len(page[s]) \ dele[s]
  /\ dele' = [dele EXCEPT ![s] = @ \cup {i}]
  /\ UNCHANGED <<index, files, side, last, role, pc, page, work, noted, fd, history>>

Rset(s) ==
  /\ pc[s] = "pop" /\ dele[s] # {}
  /\ dele' = [dele EXCEPT ![s] = {}]
  /\ UNCHANGED <<index, files, side, last, role, pc, page, work, noted, fd, history>>

PopForgets(s) ==
  /\ page' = [page EXCEPT ![s] = <<>>] /\ dele' = [dele EXCEPT ![s] = {}]
  /\ work' = [work EXCEPT ![s] = NoWork]
  /\ Goto(s, "idle")

(* QUIT with nothing marked or no index, or a connection that broke before.  *)
PopLeave(s) ==
  /\ pc[s] = "pop"
  /\ PopForgets(s)
  /\ UNCHANGED <<index, files, side, last, role, noted, fd, history>>

(* The records whose numbers are not in S, in order.                         *)
Without(d, S) == Only(d, {i \in 1..Len(d) : i \notin S})

(* Written from the start of a file that is not truncated.                   *)
Overwrite(old, new) == new \o SubSeq(old, Len(new) + 1, Len(old))

(* Seeded fault: the list of marks read one place too early.                 *)
PopTextsEarly(s) == {dir[i].file : i \in {j \in 1..Len(dir) : j + 1 \in dele[s]}}

PopTexts(s) == {dir[i].file : i \in dele[s] \cap (1..Len(dir))}

(* do_delete: the copy, and the texts of what DELE marked.                   *)
PopCopy(s) ==
  LET keep == Without(dir, dele[s])
  IN /\ pc[s] = "pop" /\ dele[s] # {} /\ exists
     /\ popdir' = [exists |-> TRUE, recs |-> Overwrite(popdir.recs, keep)]
     /\ files' = files \ PopTexts(s)
     /\ work' = [work EXCEPT ![s] = [hdr |-> ZeroHeader, ent |-> Len(keep)]]
     /\ asked' = asked \cup {page[s][i].file : i \in dele[s]}
     /\ astray' = (astray \/ Swapping # {} \/ Len(popdir.recs) > Len(keep)
                     \/ \E i \in dele[s] : Missed(i, page[s][i].file))
     /\ Goto(s, "popswap")
     /\ UNCHANGED <<index, tmpfile, dellock, last, role, page, dele, noted, fd,
                    delivered, overtaken, halfway, moved>>

PopUnlink(s) ==
  /\ pc[s] = "popswap"
  /\ exists' = FALSE /\ dir' = <<>>
  /\ fd' = Frozen /\ moved' = moved \cup MovedBy(s)
  /\ Goto(s, "poprename")
  /\ UNCHANGED <<files, side, last, role, page, dele, work, noted, delivered,
                 asked, overtaken, halfway, astray>>

(* The copy is put in place if it has records, else it is removed.           *)
PopRename(s) ==
  /\ pc[s] = "poprename"
  /\ IF work[s].ent > 0 /\ popdir.exists
     THEN exists' = TRUE /\ dir' = popdir.recs /\ fd' = Frozen
     ELSE UNCHANGED <<index, fd>>
  /\ popdir' = NoTmp
  /\ moved' = moved \cup MovedBy(s)
  /\ PopForgets(s)
  /\ UNCHANGED <<files, tmpfile, dellock, last, role, noted, delivered, asked,
                 overtaken, halfway, astray>>

-----------------------------------------------------------------------------
(* A process ends where it is: abort_bbs when the line is lost, or a signal   *)
(* (a SIGTERM to the POP3 server kills all of its process group).            *)
Hangup(s) ==
  /\ May(s, "hangup") /\ pc[s] # "idle"
  /\ Goto(s, "idle")
  /\ page' = [page EXCEPT ![s] = <<>>] /\ dele' = [dele EXCEPT ![s] = {}]
  /\ work' = [work EXCEPT ![s] = NoWork] /\ noted' = [noted EXCEPT ![s] = <<>>]
  /\ fd' = [fd EXCEPT ![s] = Live]
  /\ dellock' = dellock \ {s}
  /\ halfway' = halfway
       \cup (IF pc[s] \in InSwap \cup {"unlink"} \/ noted[s] # <<>>
             THEN {"deletion"} ELSE {})
       \cup (IF pc[s] \in {"rename", "newrename", "poprename"}
             THEN {"index"} ELSE {})
  /\ UNCHANGED <<index, files, tmpfile, popdir, last, role, delivered, asked,
                 overtaken, moved, astray>>

Step(s) ==
  \/ SendOpen(s) \/ SendAbort(s) \/ SendDeliver(s)
  \/ OpenBox(s) \/ LeaveBox(s)
  \/ \E i \in 1..Len(page[s]) :
       \/ MailRead(s, i) \/ MailMark(s, i) \/ MailDel(s, i) \/ MailDelFails(s, i)
       \/ Dele(s, i)
  \/ MailUnlink(s)
  \/ \E i1, i2 \in 1..(Len(page[s]) + 1) : RangeCopy(s, i1, i2)
  \/ RangeRefused(s) \/ SwapAway(s) \/ SwapFails(s) \/ SwapIn(s)
  \/ NewStart(s) \/ NewNext(s) \/ NewLast(s) \/ NewRead(s) \/ NewKeep(s)
  \/ NewUnlink(s) \/ NewCopy(s) \/ NewRefused(s) \/ NewDone(s)
  \/ PopLogin(s) \/ Rset(s) \/ PopLeave(s) \/ PopCopy(s) \/ PopUnlink(s)
  \/ PopRename(s)
  \/ Hangup(s)

Next == \E s \in Session : Step(s)

Spec == Init /\ [][Next]_vars

-----------------------------------------------------------------------------
(* Properties                                                               *)

(* Whatever a session does, its numbers go on meaning the mails it showed or  *)
(* listed: the lines of a page, the messages of a POP3 session, what m_new   *)
(* has still to delete.  Only another session of the owner can move them.    *)
Busy(s) == pc[s] \in InSwap \cup {"unlink"}

NumbersMean ==
  \A s \in Session \ moved : (~Busy(s) /\ ~astray) =>
    /\ \A i \in 1..Len(page[s]) : ~Missed(i, page[s][i].file)
    /\ \A k \in 1..Len(noted[s]) : ~Missed(noted[s][k].ent, noted[s][k].file)
    /\ pc[s] \in {"ask", "shown"} => ~Missed(work[s].ent, work[s].hdr.file)

(* A mail that was delivered is listed, or in the copy that is about to be   *)
(* the index, until the owner asks to delete it; but a mail delivered while  *)
(* a session copies the index may be lost with the old index.               *)
Away == \E s \in Session : pc[s] \in {"rename", "newrename", "poprename"}

DeliveredStays ==
  (~astray /\ "index" \notin halfway) =>
    delivered \subseteq Listed(dir) \cup asked \cup overtaken \cup
      (IF Away THEN Listed(tmpfile.recs) \cup Listed(popdir.recs) ELSE {})

(* The text of a mail is never removed unless its deletion was asked for;    *)
(* a POP3 session asks for it with QUIT, not with DELE.                      *)
TextStays == ~astray => delivered \ asked \subseteq files

(* A deletion that was neither refused nor broken off takes the header and    *)
(* the text, and neither comes back.                                        *)
Quiet == \A s \in Session : pc[s] \in {"idle", "edit", "pop"}

DeletionComplete ==
  (Quiet /\ ~astray /\ halfway = {}) =>
    (asked \ overtaken) \cap (Listed(dir) \cup files) = {}
=============================================================================
