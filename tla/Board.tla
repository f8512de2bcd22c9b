------------------------------- MODULE Board --------------------------------
(***************************************************************************)
(* One discussion board shared by several logged-in sessions: the article   *)
(* index .DIR, the digest index .DIGEST, the article files they name, and   *)
(* the page of headers every reader holds in memory (pnt of read.c).  All   *)
(* commands of bbs.c act on the header in that page and its number, not on  *)
(* the index as it is when the command runs; what the other sessions did    *)
(* since the page was read is the difficulty of this component.             *)
(*                                                                         *)
(* A step is what a session does between two points where it waits for a    *)
(* key or where another session's file operation matters.  The board fits   *)
(* one screen, so a page is the whole index as it was when last read.       *)
(***************************************************************************)
EXTENDS FiniteSets, RecordFile

CONSTANTS
  Session,        \* logged-in processes
  User,           \* accounts
  Login,          \* Login[s]: the account session s belongs to
  Manager,        \* accounts that chk_currBM accepts on this board
  Uses,           \* Uses[s]: the commands session s may give in this instance
  KeepHeader,     \* sysconf KEEP_DELETED_HEADER > 0
  MaxDigest,      \* MAX_DIGEST
  MaxPostRetry,   \* MAX_POSTRETRY
  MaxTime,        \* bound: the last value of time(0)
  MaxPosts,       \* bound: posts credited to one account
  NoUser          \* the empty owner of a zero-filled record

Command == {"post", "cross", "delete", "mark", "title", "digest", "view",
            "range", "hangup"}

ASSUME BoardAssumption ==
  /\ Login \in [Session -> User]
  /\ Manager \subseteq User
  /\ Uses \in [Session -> SUBSET Command]
  /\ KeepHeader \in BOOLEAN
  /\ MaxDigest \in Nat /\ MaxPostRetry \in Nat
  /\ MaxTime \in Nat /\ MaxPosts \in Nat
  /\ NoUser \notin User

(* Article files are called M.<time>.A, their digest links G.<time>.A; both *)
(* are named by the time here, and the empty name is 0.                     *)
FileName == 0..(MaxTime + MaxPostRetry + 1)

(* struct fileheader, with the owner's leading '-' of a cancelled article   *)
(* as the field "cut".                                                      *)
Header == [file : FileName, owner : User \cup {NoUser},
           marked : BOOLEAN, digest : BOOLEAN, cut : BOOLEAN]

ZeroHeader == [file |-> 0, owner |-> NoUser,
               marked |-> FALSE, digest |-> FALSE, cut |-> FALSE]

View == {"dir", "digest"}        \* digestmode: NA, YEA

VARIABLES
  clock,      \* time(0)
  index,      \* index["dir"], index["digest"]: .DIR and .DIGEST
  files,      \* files["dir"], files["digest"]: M.*.A and G.*.A that exist
  blank,      \* articles whose text was overwritten by "Article canceled"
  trash,      \* articles copied to the boards "junk" and "deleted"
  numposts,   \* numposts of every account in .PASSWDS
  view,       \* the index a session reads
  page,       \* its copy of the headers, empty when it reads no board
  pc,         \* where a session is in a command of several steps
  work,       \* that command's locals: record number, header, names agree
  dellock,    \* sessions holding flock on .dellock
  tmpfile,    \* .tmpfile when it exists
  published   \* history: names of the articles ever put in .DIR

vars == <<clock, index, files, blank, trash, numposts, view, page, pc, work,
          dellock, tmpfile, published>>

NoWork == [ent |-> 0, hdr |-> ZeroHeader, named |-> FALSE]
NoTmp  == [exists |-> FALSE, recs |-> <<>>]

TypeOK ==
  /\ clock \in 1..(MaxTime + 1)
  /\ index \in [View -> Seq(Header)]
  /\ files \in [View -> SUBSET FileName]
  /\ blank \subseteq FileName
  /\ trash \subseteq FileName
  /\ numposts \in [User -> Nat]
  /\ view \in [Session -> View]
  /\ page \in [Session -> Seq(Header)]
  /\ pc \in [Session -> {"idle", "edit", "delete", "cancel", "swap", "rename"}]
  /\ work \in [Session -> [ent : Nat, hdr : Header, named : BOOLEAN]]
  /\ dellock \subseteq Session
  /\ tmpfile \in [exists : BOOLEAN, recs : Seq(Header)]
  /\ published \subseteq FileName

Init ==
  /\ clock = 1
  /\ index = [v \in View |-> <<>>]
  /\ files = [v \in View |-> {}]
  /\ blank = {} /\ trash = {}
  /\ numposts = [u \in User |-> 0]
  /\ view = [s \in Session |-> "dir"]
  /\ page = [s \in Session |-> <<>>]
  /\ pc = [s \in Session |-> "idle"]
  /\ work = [s \in Session |-> NoWork]
  /\ dellock = {}
  /\ tmpfile = NoTmp
  /\ published = {}

-----------------------------------------------------------------------------
(* Permissions and the page cache                                           *)

IsBM(s) == Login[s] \in Manager

Owns(s, h) == ~h.cut /\ h.owner = Login[s]

(* The session reads the board, waits for a key, and gives command c on the *)
(* header in line i of its page.                                            *)
Chooses(s, c, i) ==
  /\ c \in Uses[s] /\ pc[s] = "idle"
  /\ i \in 1..Len(page[s])

(* Redraw on PARTUPDATE or FULLUPDATE: the page is read again only when the *)
(* number of records differs from the one it was read with.                 *)
Redraw(s, p, idx) ==
  page' = [page EXCEPT ![s] = IF Len(idx[view[s]]) = Len(p) THEN p
                              ELSE idx[view[s]]]

(* The same when the command may also be given outside the board.           *)
RedrawIfReading(s, idx) ==
  IF page[s] = <<>> THEN UNCHANGED page ELSE Redraw(s, page[s], idx)

ViewAfter(s, idx) == IF idx[view[s]] = <<>> THEN "dir" ELSE view[s]

(* Redraw on DIRCHANGED: read again; an empty digest switches to the board. *)

Reread(s, idx) ==
  /\ view' = [view EXCEPT ![s] = ViewAfter(s, idx)]
  /\ page' = [page EXCEPT ![s] = idx[ViewAfter(s, idx)]]

Goto(s, label) == pc' = [pc EXCEPT ![s] = label]

(* Seeded fault: open without O_EXCL.                                       *)
AllNames == clock..(clock + MaxPostRetry + 1)

(* The O_EXCL loop creates the first name from the clock on that is free;   *)
(* after MAX_POSTRETRY it gives up and nothing is posted.                   *)
FreeNames == {n \in clock..(clock + MaxPostRetry + 1) : n \notin files["dir"]}
IsNewName(n) == n \in FreeNames /\ \A other \in FreeNames : n <= other

NewHeader(s, n) == [file |-> n, owner |-> Login[s],
                    marked |-> FALSE, digest |-> FALSE, cut |-> FALSE]

-----------------------------------------------------------------------------
(* Reading                                                                  *)

Tick ==
  /\ clock < MaxTime
  /\ clock' = clock + 1
  /\ UNCHANGED <<index, files, blank, trash, numposts, view, page, pc, work,
                 dellock, tmpfile, published>>

(* i_read: an empty index is not entered.                                   *)
OpenBoard(s) ==
  /\ pc[s] = "idle" /\ page[s] = <<>> /\ index[view[s]] # <<>>
  /\ page' = [page EXCEPT ![s] = index[view[s]]]
  /\ UNCHANGED <<clock, index, files, blank, trash, numposts, view, pc, work,
                 dellock, tmpfile, published>>

LeaveBoard(s) ==
  /\ pc[s] = "idle" /\ page[s] # <<>> /\ view[s] = "dir"
  /\ page' = [page EXCEPT ![s] = <<>>]
  /\ UNCHANGED <<clock, index, files, blank, trash, numposts, view, pc, work,
                 dellock, tmpfile, published>>

(* digest_mode: toggle between the board and a digest that has entries.     *)
SwitchView(s) ==
  /\ "view" \in Uses[s] /\ pc[s] = "idle" /\ page[s] # <<>>
  /\ view[s] = "dir" => index["digest"] # <<>>
  /\ LET v == IF view[s] = "dir" THEN "digest" ELSE "dir"
     IN /\ view' = [view EXCEPT ![s] = v]
        /\ page' = [page EXCEPT ![s] = index[v]]
  /\ UNCHANGED <<clock, index, files, blank, trash, numposts, pc, work,
                 dellock, tmpfile, published>>

-----------------------------------------------------------------------------
(* Posting: post_article creates the article file, lets the user edit it,   *)
(* and only then appends the header; post_cross does both at once.          *)

OpenDraft(s, n) ==
  /\ "post" \in Uses[s] /\ pc[s] = "idle" /\ view[s] = "dir"
  /\ numposts[Login[s]] < MaxPosts
  /\ IsNewName(n)
  /\ files' = [files EXCEPT !["dir"] = @ \cup {n}]
  /\ work' = [work EXCEPT ![s] = [NoWork EXCEPT !.hdr = NewHeader(s, n)]]
  /\ Goto(s, "edit")
  /\ UNCHANGED <<clock, index, blank, trash, numposts, view, page, dellock,
                 tmpfile, published>>

AbandonDraft(s) ==
  /\ pc[s] = "edit"
  /\ files' = [files EXCEPT !["dir"] = @ \ {work[s].hdr.file}]
  /\ work' = [work EXCEPT ![s] = NoWork]
  /\ Goto(s, "idle")
  /\ RedrawIfReading(s, index)
  /\ UNCHANGED <<clock, index, blank, trash, numposts, view, dellock,
                 tmpfile, published>>

PublishDraft(s) ==
  /\ pc[s] = "edit"
  /\ numposts[Login[s]] < MaxPosts
  /\ index' = [index EXCEPT !["dir"] = AppendRecord(@, work[s].hdr)]
  /\ published' = published \cup {work[s].hdr.file}
  /\ numposts' = [numposts EXCEPT ![Login[s]] = @ + 1]
  /\ work' = [work EXCEPT ![s] = NoWork]
  /\ Goto(s, "idle")
  /\ RedrawIfReading(s, index')
  /\ UNCHANGED <<clock, files, blank, trash, view, dellock, tmpfile>>

CrossPost(s, n) ==
  /\ "cross" \in Uses[s] /\ pc[s] = "idle" /\ view[s] = "dir"
  /\ IsNewName(n)
  /\ files' = [files EXCEPT !["dir"] = @ \cup {n}]
  /\ index' = [index EXCEPT !["dir"] = AppendRecord(@, NewHeader(s, n))]
  /\ published' = published \cup {n}
  /\ RedrawIfReading(s, index')
  /\ UNCHANGED <<clock, blank, trash, numposts, view, pc, work, dellock,
                 tmpfile>>

-----------------------------------------------------------------------------
(* Commands that write the header of the page back at its line number       *)

(* substitute_record(direct, fileinfo, ent), fileinfo pointing into the page *)
WriteBack(s, i, h, idx) ==
  [idx EXCEPT ![view[s]] = SubstituteRecord(@, h, i, ZeroHeader)]

WithLine(s, i, h) == [page[s] EXCEPT ![i] = h]

MarkPost(s, i) ==
  /\ Chooses(s, "mark", i) /\ IsBM(s)
  /\ LET h == [page[s][i] EXCEPT !.marked = ~@]
     IN /\ index' = WriteBack(s, i, h, index)
        /\ Redraw(s, WithLine(s, i, h), index')
  /\ UNCHANGED <<clock, files, blank, trash, numposts, view, pc, work,
                 dellock, tmpfile, published>>

(* edit_title; the title itself is not kept in the model.                   *)
EditTitle(s, i) ==
  /\ Chooses(s, "title", i)
  /\ IsBM(s) \/ Owns(s, page[s][i])
  /\ index' = WriteBack(s, i, page[s][i], index)
  /\ Redraw(s, page[s], index')
  /\ UNCHANGED <<clock, files, blank, trash, numposts, view, pc, work,
                 dellock, tmpfile, published>>

(* dele_digest: take the entry out of .DIGEST and unlink G.*.A.  When there *)
(* is no such entry it returns at once, leaving currfile naming G.*.A.      *)
InDigest(n) == SearchRecord(index["digest"], n) # 0

(* Seeded fault: the file is unlinked but the entry stays.                  *)
DigestIndexKept(n) == index["digest"]

DigestIndexWithout(n) ==
  DeleteFile(index["digest"], SearchRecord(index["digest"], n), n)

DigestFilesWithout(n) ==
  IF InDigest(n) THEN files["digest"] \ {n} ELSE files["digest"]

(* digest_post on an article shown as a digest article.                     *)
UndigestPost(s, i) ==
  /\ Chooses(s, "digest", i) /\ IsBM(s) /\ view[s] = "dir"
  /\ page[s][i].digest
  /\ LET h == [page[s][i] EXCEPT !.digest = FALSE]
     IN /\ index' = WriteBack(s, i, h,
                      [index EXCEPT !["digest"] = DigestIndexWithout(h.file)])
        /\ files' = [files EXCEPT !["digest"] = DigestFilesWithout(h.file)]
        /\ Redraw(s, WithLine(s, i, h), index')
  /\ UNCHANGED <<clock, blank, trash, numposts, view, pc, work,
                 dellock, tmpfile, published>>

(* digest_post when G.*.A is already there: only the flag is set.           *)
RedigestPost(s, i) ==
  /\ Chooses(s, "digest", i) /\ IsBM(s) /\ view[s] = "dir"
  /\ ~page[s][i].digest /\ page[s][i].file \in files["digest"]
  /\ LET h == [page[s][i] EXCEPT !.digest = TRUE]
     IN /\ index' = WriteBack(s, i, h, index)
        /\ Redraw(s, WithLine(s, i, h), index')
  /\ UNCHANGED <<clock, files, blank, trash, numposts, view, pc, work,
                 dellock, tmpfile, published>>

(* digest_post: link M.*.A to G.*.A (which fails unnoticed when the article *)
(* is gone), then append the entry unless the digest is over its limit.     *)
DigestPost(s, i) ==
  /\ Chooses(s, "digest", i) /\ IsBM(s) /\ view[s] = "dir"
  /\ ~page[s][i].digest /\ page[s][i].file \notin files["digest"]
  /\ files' = [files EXCEPT !["digest"] = @ \cup ({page[s][i].file} \cap files["dir"])]
  /\ \/ /\ Len(index["digest"]) > MaxDigest
        /\ UNCHANGED index
        /\ Redraw(s, page[s], index)
     \/ /\ Len(index["digest"]) <= MaxDigest
        /\ LET h == [page[s][i] EXCEPT !.digest = TRUE]
               e == [page[s][i] EXCEPT !.marked = FALSE]
           IN /\ index' = WriteBack(s, i, h,
                            [index EXCEPT !["digest"] = AppendRecord(@, e)])
              /\ Redraw(s, WithLine(s, i, h), index')
  /\ UNCHANGED <<clock, blank, trash, numposts, view, pc, work,
                 dellock, tmpfile, published>>

-----------------------------------------------------------------------------
(* del_post: the digest entry, then the header, then the article and the    *)
(* author's count of posts                                                  *)

StartDelete(s, i) ==
  /\ Chooses(s, "delete", i)
  /\ LET h == page[s][i]
         plain == [h EXCEPT !.digest = FALSE]
     IN /\ ~h.cut
        /\ IsBM(s) \/ Owns(s, h)
        /\ IF h.digest
           THEN /\ index' = [index EXCEPT !["digest"] = DigestIndexWithout(h.file)]
                /\ files' = [files EXCEPT !["digest"] = DigestFilesWithout(h.file)]
           ELSE UNCHANGED <<index, files>>
        /\ work' = [work EXCEPT ![s] =
                      [ent |-> i, hdr |-> plain,
                       named |-> h.digest => InDigest(h.file)]]
        /\ page' = [page EXCEPT ![s] = WithLine(s, i, plain)]
  /\ Goto(s, "delete")
  /\ UNCHANGED <<clock, blank, trash, numposts, view, dellock, tmpfile,
                 published>>

(* Seeded fault: the mark of a cancelled header is toggled.                 *)
ToggleCut(h) == [h EXCEPT !.cut = ~@]

(* cpyfilename                                                              *)
CutHeader(h) == [h EXCEPT !.cut = TRUE]

(* Seeded fault: KEEP_DELETED_HEADER is not looked at.                      *)
AlwaysRemoved(f, ent, n) == DeleteFile(f, ent, n)

(* update_file with cpyfilename                                             *)
CutInPlace(f, ent, n) ==
  UpdateFile(f, ent, n, CutHeader(f[Locate(f, ent, n)]))

(* delete_file or update_file, as KEEP_DELETED_HEADER says                  *)
EntryRemoved(f, ent, n) ==
  IF KeepHeader THEN CutInPlace(f, ent, n) ELSE DeleteFile(f, ent, n)

RemoveEntry(s) ==
  LET f == index[view[s]]
      n == work[s].hdr.file
  IN /\ pc[s] = "delete"
     /\ work[s].named /\ Positions(f, n) # {}
     /\ index' = [index EXCEPT ![view[s]] = EntryRemoved(f, work[s].ent, n)]
     /\ Goto(s, "cancel")
     /\ UNCHANGED <<clock, files, blank, trash, numposts, view, page, work,
                    dellock, tmpfile, published>>

DeleteFails(s) ==
  /\ pc[s] = "delete"
  /\ ~work[s].named \/ Positions(index[view[s]], work[s].hdr.file) = {}
  /\ work' = [work EXCEPT ![s] = NoWork]
  /\ Goto(s, "idle")
  /\ Redraw(s, page[s], index)
  /\ UNCHANGED <<clock, index, files, blank, trash, numposts, view, dellock,
                 tmpfile, published>>

(* Seeded fault: the article is unlinked although its header is kept.       *)
AlwaysUnlinked(v, n) == files[v] \ {n}

(* Where the header is kept, fopen "w" empties the article.                 *)
FilesAfterCancel(v, n) ==
  IF KeepHeader THEN files[v] \cup ({n} \ {0}) ELSE files[v] \ {n}

OnePostLess(posts) == IF posts > 0 THEN posts - 1 ELSE posts

(* cancelpost copies the article away; then it is unlinked, or emptied      *)
(* where its header stays; one post less is credited to the author.         *)
CancelArticle(s) ==
  LET n == work[s].hdr.file
      u == IF Owns(s, work[s].hdr) THEN Login[s] ELSE work[s].hdr.owner
  IN /\ pc[s] = "cancel"
     /\ trash' = trash \cup ({n} \cap files[view[s]])
     /\ files' = [files EXCEPT ![view[s]] = FilesAfterCancel(view[s], n)]
     /\ blank' = IF KeepHeader THEN blank \cup {n} ELSE blank
     /\ numposts' = [numposts EXCEPT ![u] = OnePostLess(@)]
     /\ work' = [work EXCEPT ![s] = NoWork]
     /\ Goto(s, "idle")
     /\ Reread(s, index)
     /\ UNCHANGED <<clock, index, dellock, tmpfile, published>>

-----------------------------------------------------------------------------
(* del_range: under flock on .dellock the index is copied to .tmpfile       *)
(* without the range, whose articles are unlinked; two renames then put the *)
(* copy in place.  Nothing keeps the appends and in-place updates of other  *)
(* sessions out between these steps.                                        *)

TmpfileOpens == ~tmpfile.exists

RangeCopy(s, id1, id2) ==
  LET f == index[view[s]]
      gone == {i \in 1..Len(f) : id1 <= i /\ i <= id2 /\ ~f[i].marked}
  IN /\ Chooses(s, "range", 1) /\ IsBM(s)
     /\ id2 - id1 > 1
     /\ dellock = {} /\ TmpfileOpens
     /\ dellock' = {s}
     /\ tmpfile' = [exists |-> TRUE, recs |-> DeleteRange(f, id1, id2)]
     /\ files' = [files EXCEPT ![view[s]] = @ \ {f[i].file : i \in gone}]
     /\ Goto(s, "swap")
     /\ UNCHANGED <<clock, index, blank, trash, numposts, view, page, work,
                    published>>

(* A .tmpfile left behind makes the O_EXCL open fail: nothing is deleted.   *)
RangeRefused(s) ==
  /\ Chooses(s, "range", 1) /\ IsBM(s)
  /\ dellock = {} /\ ~TmpfileOpens
  /\ Reread(s, index)
  /\ UNCHANGED <<clock, index, files, blank, trash, numposts, pc, work,
                 dellock, tmpfile, published>>

(* rename(filename, deleted): the index is gone; to readers that is empty.  *)
RangeMoveAway(s) ==
  /\ pc[s] = "swap"
  /\ index' = [index EXCEPT ![view[s]] = <<>>]
  /\ Goto(s, "rename")
  /\ UNCHANGED <<clock, files, blank, trash, numposts, view, page, work,
                 dellock, tmpfile, published>>

(* Seeded fault: the copy is linked in place and its own name left behind.  *)
RangeLinkIn(s) ==
  /\ pc[s] = "rename"
  /\ index' = [index EXCEPT ![view[s]] = tmpfile.recs]
  /\ dellock' = {}
  /\ Goto(s, "idle")
  /\ Reread(s, index')
  /\ UNCHANGED <<clock, files, blank, trash, numposts, work, tmpfile, published>>

(* rename(tmpfile, filename)                                                *)
RangeMoveIn(s) ==
  /\ pc[s] = "rename"
  /\ index' = [index EXCEPT ![view[s]] = tmpfile.recs]
  /\ tmpfile' = NoTmp
  /\ dellock' = {}
  /\ Goto(s, "idle")
  /\ Reread(s, index')
  /\ UNCHANGED <<clock, files, blank, trash, numposts, work, published>>

-----------------------------------------------------------------------------
(* The process ends in the middle of a command: abort_bbs on a lost line,   *)
(* or a signal.  The kernel drops its locks; its files stay as they are.    *)
Hangup(s) ==
  /\ "hangup" \in Uses[s] /\ pc[s] # "idle"
  /\ Goto(s, "idle")
  /\ work' = [work EXCEPT ![s] = NoWork]
  /\ view' = [view EXCEPT ![s] = "dir"]
  /\ page' = [page EXCEPT ![s] = <<>>]
  /\ dellock' = dellock \ {s}
  /\ UNCHANGED <<clock, index, files, blank, trash, numposts, tmpfile,
                 published>>

Step(s) ==
  \/ OpenBoard(s) \/ LeaveBoard(s) \/ SwitchView(s)
  \/ \E n \in FileName : OpenDraft(s, n) \/ CrossPost(s, n)
  \/ AbandonDraft(s) \/ PublishDraft(s)
  \/ \E i \in 1..Len(page[s]) :
       \/ MarkPost(s, i) \/ EditTitle(s, i) \/ UndigestPost(s, i)
       \/ RedigestPost(s, i) \/ DigestPost(s, i) \/ StartDelete(s, i)
  \/ RemoveEntry(s) \/ DeleteFails(s) \/ CancelArticle(s)
  \/ \E id1, id2 \in 1..(Len(page[s]) + 2) : RangeCopy(s, id1, id2)
  \/ RangeRefused(s) \/ RangeMoveAway(s) \/ RangeMoveIn(s)
  \/ Hangup(s)

Next == Tick \/ \E s \in Session : Step(s)

Spec == Init /\ [][Next]_vars

-----------------------------------------------------------------------------
(* Properties                                                               *)

Listed(v) == {index[v][i].file : i \in 1..Len(index[v])}

(* Every line of the page of a session that gives commands on lines is the  *)
(* record at that number of the index: only then do substitute_record and   *)
(* delete_file, which are given the line of a page read some time ago,      *)
(* touch the article the user pointed at.                                   *)
ActsOnLines(s) == Uses[s] \cap {"delete", "mark", "title", "digest"} # {}

PageAligned ==
  \A s \in Session : (ActsOnLines(s) /\ view[s] = "dir" /\ pc[s] \notin {"cancel", "rename"}) =>
    /\ Len(page[s]) <= Len(index["dir"])
    /\ \A i \in 1..Len(page[s]) : page[s][i].file = index["dir"][i].file

(* A header in .DIR names an article file that exists, so no reader opens   *)
(* an article that is not there: del_post takes the header away first.  The *)
(* exception is delete_range, which unlinks while it copies the index.      *)
ListedExists == dellock = {} => Listed("dir") \subseteq files["dir"]

(* While one manager works on the digest, every entry of .DIGEST names a    *)
(* G.*.A that exists: an entry goes before its file.                        *)
DigestExists == Listed("digest") \subseteq files["digest"]

(* Two headers never name the same article.                                 *)
ListedOnce ==
  \A i, j \in 1..Len(index["dir"]) :
    index["dir"][i].file = index["dir"][j].file => i = j

(* An article that was put on the board is listed, or is being cancelled,   *)
(* or a copy of it went to "junk" or "deleted": none just disappears.       *)
NothingVanishes ==
  \A n \in published :
    \/ n \in Listed("dir") \cup trash
    \/ \E s \in Session : pc[s] = "cancel" /\ work[s].hdr.file = n

(* When delete_range is about to put its copy in place of the index, the    *)
(* copy has every header that the index marks as kept: D spares them.       *)
MarkedCopied ==
  \A s \in Session : pc[s] = "swap" =>
    \A i \in 1..Len(index[view[s]]) : index[view[s]][i].marked =>
      \E j \in 1..Len(tmpfile.recs) : tmpfile.recs[j] = index[view[s]][i]

(* With KEEP_DELETED_HEADER an article keeps its number for ever: whatever  *)
(* the sessions do, a record of .DIR never changes the article it names.    *)
NumbersStable ==
  [][\A i \in 1..Len(index["dir"]) :
       /\ i <= Len(index'["dir"])
       /\ index'["dir"][i].file = index["dir"][i].file]_vars

(* A header becomes a cancelled one only by a deletion that its author, or  *)
(* a manager of the board, confirmed for that very article.                 *)
CutByRightHolder ==
  [][\A i \in 1..Len(index["dir"]) :
       (~index["dir"][i].cut /\ index'["dir"][i].cut) =>
         \E s \in Session :
           /\ pc[s] = "delete" /\ work[s].hdr.file = index["dir"][i].file
           /\ IsBM(s) \/ Login[s] = index["dir"][i].owner]_vars

(* A cancelled header stays cancelled.                                      *)
CutStays ==
  [][\A i \in 1..Len(index["dir"]) :
       index["dir"][i].cut => index'["dir"][i].cut]_vars

(* While one session deletes, the numposts of an account is never below its *)
(* articles on the board and the one whose header is gone already but not   *)
(* yet subtracted: who deletes takes the credit of the author whose header  *)
(* went.  It may be above: delete_range, and a session that ends, take none. *)
Credited(u) ==
  {i \in 1..Len(index["dir"]) : index["dir"][i].owner = u /\ ~index["dir"][i].cut}

Uncredited(u) == {s \in Session : pc[s] = "cancel" /\ work[s].hdr.owner = u}

PostsCounted ==
  \A u \in User :
    numposts[u] >= Cardinality(Credited(u)) + Cardinality(Uncredited(u))

(* Admin_Manual:155: the command d deletes the article it is given for.     *)
DeleteHitsTarget ==
  [][\A s \in Session : (pc[s] = "delete" /\ pc'[s] = "cancel") =>
        \A i \in 1..Len(index'[view[s]]) :
          index'[view[s]][i].file = work[s].hdr.file => index'[view[s]][i].cut]_vars

(* What the board promises while nobody rewrites headers: the abstract      *)
(* board whose articles are numbered for ever and withdrawn at most once.   *)
Authors == [i \in 1..Len(index["dir"]) |-> index["dir"][i].owner]
Withdrawn == {i \in 1..Len(index["dir"]) : index["dir"][i].cut}

Abstract == INSTANCE AbstractBoard WITH authors <- Authors, withdrawn <- Withdrawn

ImplementsAbstractBoard == Abstract!Spec
=============================================================================
