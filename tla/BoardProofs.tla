---------------------------- MODULE BoardProofs ------------------------------
(***************************************************************************)
(* Discussion boards, for any number of sessions, accounts, managers and     *)
(* commands, and any interleaving and hangup.                                *)
(*                                                                           *)
(* Every board: its state keeps its type.                                    *)
(*                                                                           *)
(* A board that keeps the headers of deleted articles (KEEP_DELETED_HEADER)  *)
(* and on which no range is deleted: articles keep their numbers, the page   *)
(* of every session stays aligned with the index, and the index names every  *)
(* article once and none that has no file.  No published article             *)
(* disappears.  Where headers are rewritten by deletions only, every step of *)
(* Board is a step of AbstractBoard or leaves it unchanged: the articles in  *)
(* .DIR and their authors only grow, and a header is cancelled only by the   *)
(* author of the article it stands for, or by a manager.                     *)
(*                                                                           *)
(* A board where one session alone deletes or marks: the range deletion      *)
(* never loses a marked article, the digest names only articles that are     *)
(* there, and the counts of posts do not fall short of the articles.         *)
(***************************************************************************)
EXTENDS Board, RecordProofs

(* The instances the theorems are about.                                    *)
KeepsNumbers == KeepHeader /\ \A s \in Session : "range" \notin Uses[s]

(* Index g is index f with records perhaps rewritten, but under their       *)
(* names, and perhaps new ones at the end.                                  *)
Extended(f, g) ==
  /\ Len(f) <= Len(g)
  /\ \A i \in 1..Len(f) : g[i].file = f[i].file

NoRangeRuns == \A s \in Session : pc[s] \notin {"swap", "rename"}

Aligned == \A s \in Session : view[s] = "dir" => Extended(page[s], index["dir"])

(* A draft has its own file, which is not listed yet.                       *)
DraftsApart ==
  \A s \in Session : pc[s] = "edit" =>
    /\ work[s].hdr.file \in files["dir"] \ Listed("dir")
    /\ \A t \in Session \ {s} :
         pc[t] = "edit" => work[t].hdr.file # work[s].hdr.file

IInv == /\ TypeOK /\ NoRangeRuns /\ Aligned
        /\ DraftsApart /\ Listed("dir") \subseteq files["dir"] /\ ListedOnce

-----------------------------------------------------------------------------
(* Extended is a preorder.                                                  *)
LEMMA ExtendedTransitive ==
  ASSUME NEW f \in Seq(Header), NEW g \in Seq(Header), NEW h \in Seq(Header),
         Extended(f, g), Extended(g, h)
  PROVE  Extended(f, h)
<1>1. Len(f) \in Nat /\ Len(g) \in Nat /\ Len(h) \in Nat
  BY LenProperties
<1> QED
  BY <1>1 DEF Extended

LEMMA ExtendedReflexive == \A f \in Seq(Header) : Extended(f, f)
BY LenProperties DEF Extended

(* A record of FileName 0 and no owner is a header.                         *)
LEMMA ZeroHeaderType == ZeroHeader \in Header
<1>1. 0 \in FileName
  BY BoardAssumption DEF FileName
<1> QED
  BY <1>1 DEF ZeroHeader, Header

(* append_record extends the index by one name.                             *)
LEMMA AppendExtends ==
  ASSUME NEW f \in Seq(Header), NEW h \in Header
  PROVE  /\ AppendRecord(f, h) \in Seq(Header)
         /\ Extended(f, AppendRecord(f, h))
         /\ Len(AppendRecord(f, h)) = Len(f) + 1
         /\ AppendRecord(f, h)[Len(f) + 1] = h
BY AppendProperties, LenProperties DEF AppendRecord, Extended

(* Writing a line of an aligned page back keeps every name and the length.  *)
LEMMA SubstituteExtends ==
  ASSUME NEW f \in Seq(Header), NEW h \in Header, NEW i \in 1..Len(f),
         h.file = f[i].file
  PROVE  /\ SubstituteRecord(f, h, i, ZeroHeader) \in Seq(Header)
         /\ Extended(f, SubstituteRecord(f, h, i, ZeroHeader))
         /\ Len(SubstituteRecord(f, h, i, ZeroHeader)) = Len(f)
<1>1. Len(f) \in Nat /\ i \in Nat \ {0} /\ i <= Len(f)
  BY LenProperties
<1>2. /\ SubstituteRecord(f, h, i, ZeroHeader) \in Seq(Header)
      /\ i <= Len(f) => Len(SubstituteRecord(f, h, i, ZeroHeader)) = Len(f)
      /\ \A j \in 1..Len(f) :
           SubstituteRecord(f, h, i, ZeroHeader)[j] = IF j = i THEN h ELSE f[j]
  BY <1>1, ZeroHeaderType, SubstituteRecordProperties
<1> QED
  BY <1>1, <1>2 DEF Extended

(* Cancelling a header in place keeps every name and the length.            *)
LEMMA CutExtends ==
  ASSUME NEW f \in Seq(Header), NEW ent \in Nat, NEW n
  PROVE  /\ CutInPlace(f, ent, n) \in Seq(Header)
         /\ Extended(f, CutInPlace(f, ent, n))
         /\ Len(CutInPlace(f, ent, n)) = Len(f)
<1> DEFINE e(i) == IF i = Locate(f, ent, n) THEN [f[i] EXCEPT !.cut = TRUE] ELSE f[i]
           g == [i \in 1..Len(f) |-> e(i)]
<1>1. Len(f) \in Nat /\ \A i \in 1..Len(f) : f[i] \in Header
  BY LenProperties, ElementOfSeq
<1>2. CutInPlace(f, ent, n) = g
  BY DEF CutInPlace, UpdateFile, CutHeader
<1>3. \A i \in 1..Len(f) : e(i) \in Header /\ e(i).file = f[i].file
  BY <1>1 DEF Header
<1>4. g \in [1..Len(f) -> Header]
  BY <1>3
<1>5. g \in Seq(Header)
  BY <1>1, <1>4, SeqDef
<1>6. Len(g) = Len(f)
  <2>1. DOMAIN g = 1..Len(f)
    OBVIOUS
  <2>2. DOMAIN g = 1..Len(g) /\ Len(g) \in Nat
    BY <1>5, LenProperties
  <2> QED
    BY <1>1, <2>1, <2>2
<1>7. Extended(f, g)
  BY <1>1, <1>3, <1>6 DEF Extended
<1> QED
  BY <1>2, <1>5, <1>6, <1>7

(* dele_digest leaves a digest index.                                       *)
LEMMA DigestIndexType ==
  ASSUME TypeOK, NEW n
  PROVE  DigestIndexWithout(n) \in Seq(Header)
<1>1. index["digest"] \in Seq(Header)
  BY DEF TypeOK, View
<1>2. SearchRecord(index["digest"], n) \in Nat
  BY <1>1, SearchRecordFinds, LenProperties
<1> QED
  BY <1>1, <1>2, DeleteFileTakesOne DEF DigestIndexWithout

(* What a step may do to the index of the board, when it adds no article.   *)
SameArticles ==
  /\ index' \in [View -> Seq(Header)]
  /\ Extended(index["dir"], index'["dir"])
  /\ Len(index'["dir"]) = Len(index["dir"])

(* What it may do to the pages: leave one, take lines with the names it had, *)
(* read the index again, or drop it.                                        *)
PagesFollow ==
  \A s \in Session : view'[s] = "dir" =>
    \/ page'[s] = index'["dir"]
    \/ page'[s] = <<>>
    \/ view[s] = "dir" /\ Extended(page'[s], page[s])

(* What it may do to the drafts: end some.                                  *)
DraftsKept ==
  /\ \A s \in Session : pc'[s] \notin {"swap", "rename"}
  /\ \A s \in Session : pc'[s] = "edit" => pc[s] = "edit" /\ work'[s] = work[s]

(* A page that follows an index that is extended stays aligned with it.     *)
LEMMA AlignmentKept ==
  ASSUME TypeOK, TypeOK', Aligned, Extended(index["dir"], index'["dir"]), PagesFollow
  PROVE  Aligned'
<1> SUFFICES ASSUME NEW s \in Session, view'[s] = "dir"
             PROVE  Extended(page'[s], index'["dir"])
  BY DEF Aligned
<1>1. /\ page[s] \in Seq(Header) /\ page'[s] \in Seq(Header)
      /\ index["dir"] \in Seq(Header) /\ index'["dir"] \in Seq(Header)
  BY DEF TypeOK, View
<1>2. CASE page'[s] = index'["dir"]
  BY <1>1, <1>2, ExtendedReflexive
<1>3. CASE page'[s] = <<>>
  BY <1>1, <1>3, LenProperties DEF Extended
<1>4. CASE view[s] = "dir" /\ Extended(page'[s], page[s])
  <2>1. Extended(page[s], index["dir"])
    BY <1>4 DEF Aligned
  <2>2. Extended(page'[s], index["dir"])
    BY <1>1, <1>4, <2>1, ExtendedTransitive
  <2> QED
    BY <1>1, <2>2, ExtendedTransitive
<1> QED
  BY <1>2, <1>3, <1>4 DEF PagesFollow

(* A step that adds no article, no draft and removes no file.               *)
LEMMA QuietStep ==
  ASSUME IInv, TypeOK', SameArticles, PagesFollow, DraftsKept,
         files["dir"] \subseteq files'["dir"]
  PROVE  IInv'
<1>1. index["dir"] \in Seq(Header) /\ index'["dir"] \in Seq(Header)
  BY DEF IInv, TypeOK, View, SameArticles
<1>2. Len(index["dir"]) \in Nat /\ Len(index'["dir"]) = Len(index["dir"])
  BY <1>1, LenProperties DEF SameArticles
<1>3. \A i \in 1..Len(index["dir"]) : index'["dir"][i].file = index["dir"][i].file
  BY DEF SameArticles, Extended
<1>4. Listed("dir")' = Listed("dir")
  BY <1>2, <1>3 DEF Listed
<1>5. Aligned'
  BY AlignmentKept DEF IInv, SameArticles
<1>6. NoRangeRuns'
  BY DEF DraftsKept, NoRangeRuns
<1>7. DraftsApart'
  BY <1>4 DEF DraftsKept, DraftsApart, IInv
<1>8. (Listed("dir") \subseteq files["dir"])'
  BY <1>4 DEF IInv
<1>9. ListedOnce'
  BY <1>2, <1>3 DEF ListedOnce, IInv
<1> QED
  BY <1>5, <1>6, <1>7, <1>8, <1>9 DEF IInv

(* A redraw, from lines p that have the names of the page.                  *)
LEMMA RedrawFollows ==
  ASSUME TypeOK, NEW s \in Session, NEW p \in Seq(Header), Extended(p, page[s]),
         index' \in [View -> Seq(Header)], Redraw(s, p, index'), view' = view
  PROVE  page' \in [Session -> Seq(Header)] /\ PagesFollow
<1>1. /\ page \in [Session -> Seq(Header)] /\ view \in [Session -> View]
      /\ page' = [page EXCEPT ![s] = IF Len(index'[view[s]]) = Len(p) THEN p
                                     ELSE index'[view[s]]]
  BY DEF TypeOK, Redraw
<1>2. page' \in [Session -> Seq(Header)]
  BY <1>1
<1>3. ASSUME NEW t \in Session, view'[t] = "dir"
      PROVE  \/ page'[t] = index'["dir"]
             \/ view[t] = "dir" /\ Extended(page'[t], page[t])
  <2>1. CASE t = s
    BY <1>1, <1>3, <2>1
  <2>2. CASE t # s
    BY <1>1, <1>3, <2>2, ExtendedReflexive
  <2> QED
    BY <2>1, <2>2
<1> QED
  BY <1>2, <1>3 DEF PagesFollow

(* The header in line i of a page, changed but for its name, written back.  *)
LEMMA WriteBackKeeps ==
  ASSUME TypeOK, Aligned, NEW s \in Session, NEW i \in 1..Len(page[s]),
         NEW h \in Header, h.file = page[s][i].file,
         NEW idx \in [View -> Seq(Header)], idx["dir"] = index["dir"],
         index' = WriteBack(s, i, h, idx)
  PROVE  SameArticles
<1>1. /\ page[s] \in Seq(Header) /\ view[s] \in View
      /\ Len(page[s]) \in Nat /\ i \in Nat \ {0}
      /\ "dir" \in View /\ idx[view[s]] \in Seq(Header) /\ index["dir"] \in Seq(Header)
  BY LenProperties DEF TypeOK, View
<1>2. index' = [idx EXCEPT ![view[s]] = SubstituteRecord(idx[view[s]], h, i, ZeroHeader)]
  BY DEF WriteBack
<1>3. SubstituteRecord(idx[view[s]], h, i, ZeroHeader) \in Seq(Header)
  BY <1>1, ZeroHeaderType, SubstituteRecordProperties
<1>4. index' \in [View -> Seq(Header)]
  BY <1>2, <1>3
<1>5. CASE view[s] = "dir"
  <2>1. Extended(page[s], index["dir"])
    BY <1>5 DEF Aligned
  <2>2. i \in 1..Len(index["dir"]) /\ h.file = index["dir"][i].file
    BY <1>1, <2>1, LenProperties DEF Extended
  <2>3. index'["dir"] = SubstituteRecord(index["dir"], h, i, ZeroHeader)
    BY <1>1, <1>2, <1>5
  <2> QED
    BY <1>1, <1>4, <2>2, <2>3, SubstituteExtends DEF SameArticles
<1>6. CASE view[s] # "dir"
  <2>1. index'["dir"] = index["dir"]
    BY <1>1, <1>2, <1>6
  <2> QED
    BY <1>1, <1>4, <2>1, ExtendedReflexive DEF SameArticles
<1> QED
  BY <1>5, <1>6

(* A line of a page, changed but for its name.                              *)
LEMMA WithLineFollows ==
  ASSUME TypeOK, NEW s \in Session, NEW i \in 1..Len(page[s]),
         NEW h \in Header, h.file = page[s][i].file
  PROVE  WithLine(s, i, h) \in Seq(Header) /\ Extended(WithLine(s, i, h), page[s])
<1>1. page[s] \in Seq(Header)
  BY DEF TypeOK
<1>2. /\ WithLine(s, i, h) \in Seq(Header)
      /\ Len(WithLine(s, i, h)) = Len(page[s])
      /\ \A j \in 1..Len(page[s]) :
           WithLine(s, i, h)[j] = IF j = i THEN h ELSE page[s][j]
  BY <1>1, ExceptSeq DEF WithLine
<1> QED
  BY <1>1, <1>2, LenProperties DEF Extended

-----------------------------------------------------------------------------
(* One lemma per kind of step: it keeps the invariant, and the articles keep *)
(* their numbers.                                                           *)

Numbered == Extended(index["dir"], index'["dir"])

(* Commands that write the header of a line back and redraw.                *)
LEMMA HeaderCommand ==
  ASSUME IInv, NEW s \in Session, NEW i \in 1..Len(page[s]),
         NEW h \in Header, h.file = page[s][i].file,
         NEW idx \in [View -> Seq(Header)], idx["dir"] = index["dir"],
         index' = WriteBack(s, i, h, idx),
         NEW p \in Seq(Header), Extended(p, page[s]), Redraw(s, p, index'),
         files' \in [View -> SUBSET FileName], files'["dir"] = files["dir"],
         UNCHANGED <<clock, blank, trash, numposts, view, pc, work, dellock,
                     tmpfile, published>>
  PROVE  IInv' /\ Numbered
<1>1. TypeOK /\ Aligned
  BY DEF IInv
<1>2. SameArticles
  BY <1>1, WriteBackKeeps
<1>3. page' \in [Session -> Seq(Header)] /\ PagesFollow
  BY <1>1, <1>2, RedrawFollows DEF SameArticles
<1>4. TypeOK'
  BY <1>1, <1>2, <1>3 DEF TypeOK, SameArticles
<1>5. DraftsKept
  BY DEF DraftsKept, IInv, NoRangeRuns
<1> QED
  BY <1>2, <1>3, <1>4, <1>5, QuietStep DEF SameArticles, Numbered

LEMMA LineType ==
  ASSUME TypeOK, NEW s \in Session, NEW i \in 1..Len(page[s])
  PROVE  page[s] \in Seq(Header) /\ page[s][i] \in Header
BY ElementOfSeq DEF TypeOK

LEMMA IndexType ==
  ASSUME TypeOK
  PROVE  /\ index \in [View -> Seq(Header)] /\ files \in [View -> SUBSET FileName]
         /\ "dir" \in View /\ "digest" \in View
         /\ index["dir"] \in Seq(Header) /\ index["digest"] \in Seq(Header)
         /\ files["dir"] \subseteq FileName /\ files["digest"] \subseteq FileName
BY DEF TypeOK, View

LEMMA MarkStep ==
  ASSUME IInv, NEW s \in Session, NEW i \in 1..Len(page[s]), MarkPost(s, i)
  PROVE  IInv' /\ Numbered
<1> DEFINE h == [page[s][i] EXCEPT !.marked = ~@]
<1>1. TypeOK
  BY DEF IInv
<1>2. page[s][i] \in Header
  BY <1>1, LineType
<1>3. h \in Header /\ h.file = page[s][i].file
  BY <1>2 DEF Header
<1>4. WithLine(s, i, h) \in Seq(Header) /\ Extended(WithLine(s, i, h), page[s])
  BY <1>1, <1>3, WithLineFollows
<1>5. /\ index' = WriteBack(s, i, h, index)
      /\ Redraw(s, WithLine(s, i, h), index')
      /\ UNCHANGED <<clock, files, blank, trash, numposts, view, pc, work, dellock,
                     tmpfile, published>>
  BY DEF MarkPost
<1> HIDE DEF h
<1> QED
  BY <1>1, <1>3, <1>4, <1>5, IndexType, HeaderCommand

LEMMA TitleStep ==
  ASSUME IInv, NEW s \in Session, NEW i \in 1..Len(page[s]), EditTitle(s, i)
  PROVE  IInv' /\ Numbered
<1>1. TypeOK
  BY DEF IInv
<1>2. page[s] \in Seq(Header) /\ page[s][i] \in Header
  BY <1>1, LineType
<1>3. Extended(page[s], page[s])
  BY <1>2, ExtendedReflexive
<1>4. /\ index' = WriteBack(s, i, page[s][i], index)
      /\ Redraw(s, page[s], index')
      /\ UNCHANGED <<clock, files, blank, trash, numposts, view, pc, work, dellock,
                     tmpfile, published>>
  BY DEF EditTitle
<1> QED
  BY <1>1, <1>2, <1>3, <1>4, IndexType, HeaderCommand

LEMMA UndigestStep ==
  ASSUME IInv, NEW s \in Session, NEW i \in 1..Len(page[s]), UndigestPost(s, i)
  PROVE  IInv' /\ Numbered
<1> DEFINE h == [page[s][i] EXCEPT !.digest = FALSE]
           idx == [index EXCEPT !["digest"] = DigestIndexWithout(h.file)]
<1>1. TypeOK
  BY DEF IInv
<1>2. page[s][i] \in Header
  BY <1>1, LineType
<1>3. h \in Header /\ h.file = page[s][i].file
  BY <1>2 DEF Header
<1>4. WithLine(s, i, h) \in Seq(Header) /\ Extended(WithLine(s, i, h), page[s])
  BY <1>1, <1>3, WithLineFollows
<1>5. idx \in [View -> Seq(Header)] /\ idx["dir"] = index["dir"]
  BY <1>1, IndexType, DigestIndexType
<1>6. files' \in [View -> SUBSET FileName] /\ files'["dir"] = files["dir"]
  <2>1. files' = [files EXCEPT !["digest"] = DigestFilesWithout(h.file)]
    BY DEF UndigestPost
  <2>2. DigestFilesWithout(h.file) \subseteq FileName
    BY <1>1, IndexType DEF DigestFilesWithout
  <2> QED
    BY <1>1, <2>1, <2>2, IndexType
<1>7. /\ index' = WriteBack(s, i, h, idx)
      /\ Redraw(s, WithLine(s, i, h), index')
      /\ UNCHANGED <<clock, blank, trash, numposts, view, pc, work, dellock,
                     tmpfile, published>>
  BY DEF UndigestPost
<1> HIDE DEF h, idx
<1> QED
  BY <1>1, <1>3, <1>4, <1>5, <1>6, <1>7, HeaderCommand

LEMMA RedigestStep ==
  ASSUME IInv, NEW s \in Session, NEW i \in 1..Len(page[s]), RedigestPost(s, i)
  PROVE  IInv' /\ Numbered
<1> DEFINE h == [page[s][i] EXCEPT !.digest = TRUE]
<1>1. TypeOK
  BY DEF IInv
<1>2. page[s][i] \in Header
  BY <1>1, LineType
<1>3. h \in Header /\ h.file = page[s][i].file
  BY <1>2 DEF Header
<1>4. WithLine(s, i, h) \in Seq(Header) /\ Extended(WithLine(s, i, h), page[s])
  BY <1>1, <1>3, WithLineFollows
<1>5. /\ index' = WriteBack(s, i, h, index)
      /\ Redraw(s, WithLine(s, i, h), index')
      /\ UNCHANGED <<clock, files, blank, trash, numposts, view, pc, work, dellock,
                     tmpfile, published>>
  BY DEF RedigestPost
<1> HIDE DEF h
<1> QED
  BY <1>1, <1>3, <1>4, <1>5, IndexType, HeaderCommand

LEMMA DigestStep ==
  ASSUME IInv, NEW s \in Session, NEW i \in 1..Len(page[s]), DigestPost(s, i)
  PROVE  IInv' /\ Numbered
<1> DEFINE h == [page[s][i] EXCEPT !.digest = TRUE]
           e == [page[s][i] EXCEPT !.marked = FALSE]
           idx == [index EXCEPT !["digest"] = AppendRecord(index["digest"], e)]
<1>1. TypeOK
  BY DEF IInv
<1>2. page[s] \in Seq(Header) /\ page[s][i] \in Header
  BY <1>1, LineType
<1>3. h \in Header /\ h.file = page[s][i].file /\ e \in Header
  BY <1>2 DEF Header
<1>4. files' \in [View -> SUBSET FileName] /\ files'["dir"] = files["dir"]
  <2>1. files' = [files EXCEPT !["digest"] =
                    files["digest"] \cup ({page[s][i].file} \cap files["dir"])]
    BY DEF DigestPost
  <2> QED
    BY <1>1, <2>1, IndexType
<1>5. UNCHANGED <<clock, blank, trash, numposts, view, pc, work, dellock,
                  tmpfile, published>>
  BY DEF DigestPost
<1>6. CASE UNCHANGED index /\ Redraw(s, page[s], index)
  <2>1. Extended(page[s], page[s]) /\ Redraw(s, page[s], index')
    BY <1>2, <1>6, ExtendedReflexive
  <2>2. page' \in [Session -> Seq(Header)] /\ PagesFollow
    BY <1>1, <1>2, <1>5, <1>6, <2>1, IndexType, RedrawFollows
  <2>3. SameArticles
    BY <1>1, <1>6, IndexType, ExtendedReflexive DEF SameArticles
  <2>4. TypeOK'
    BY <1>1, <1>4, <1>5, <1>6, <2>2 DEF TypeOK
  <2>5. DraftsKept
    BY <1>5 DEF DraftsKept, IInv, NoRangeRuns
  <2> QED
    BY <1>4, <2>2, <2>3, <2>4, <2>5, QuietStep DEF SameArticles, Numbered
<1>7. CASE /\ index' = WriteBack(s, i, h, idx)
           /\ Redraw(s, WithLine(s, i, h), index')
  <2>1. idx \in [View -> Seq(Header)] /\ idx["dir"] = index["dir"]
    <3>1. AppendRecord(index["digest"], e) \in Seq(Header)
      BY <1>1, <1>3, IndexType, AppendExtends
    <3> HIDE DEF e
    <3> QED
      BY <1>1, <3>1, IndexType
  <2>2. WithLine(s, i, h) \in Seq(Header) /\ Extended(WithLine(s, i, h), page[s])
    BY <1>1, <1>3, WithLineFollows
  <2> HIDE DEF h, idx
  <2> QED
    BY <1>1, <1>3, <1>4, <1>5, <1>7, <2>1, <2>2, HeaderCommand
<1> QED
  BY <1>6, <1>7 DEF DigestPost

(* Steps that leave the board and its files alone: reading, moving between  *)
(* the board and its digest, the clock, and a hangup.                       *)
LEMMA ReadingStep ==
  ASSUME IInv, UNCHANGED <<index, files, blank, trash, numposts, tmpfile, published>>,
         clock' \in 1..(MaxTime + 1), view' \in [Session -> View],
         page' \in [Session -> Seq(Header)], PagesFollow,
         pc' \in [Session -> {"idle", "edit", "delete", "cancel", "swap", "rename"}],
         work' \in [Session -> [ent : Nat, hdr : Header, named : BOOLEAN]],
         dellock' \subseteq Session, DraftsKept
  PROVE  IInv' /\ Numbered
<1>1. TypeOK
  BY DEF IInv
<1>2. TypeOK'
  BY <1>1 DEF TypeOK
<1>3. SameArticles
  BY <1>1, IndexType, ExtendedReflexive DEF SameArticles
<1> QED
  BY <1>2, <1>3, QuietStep DEF SameArticles, Numbered

LEMMA EmptyPage == <<>> \in Seq(Header)
OBVIOUS

LEMMA NoWorkType == NoWork \in [ent : Nat, hdr : Header, named : BOOLEAN]
BY ZeroHeaderType DEF NoWork

LEMMA OpenStep ==
  ASSUME IInv, NEW s \in Session, OpenBoard(s)
  PROVE  IInv' /\ Numbered
<1>1. TypeOK /\ NoRangeRuns
  BY DEF IInv
<1>2. page' \in [Session -> Seq(Header)] /\ PagesFollow
  <2>1. \A t \in Session : Extended(page[t], page[t])
    BY <1>1, ExtendedReflexive DEF TypeOK
  <2>2. page' = [page EXCEPT ![s] = index[view[s]]] /\ index' = index /\ view' = view
    BY DEF OpenBoard
  <2> QED
    BY <1>1, <2>1, <2>2 DEF TypeOK, PagesFollow
<1> QED
  BY <1>1, <1>2, ReadingStep DEF OpenBoard, TypeOK, DraftsKept, NoRangeRuns

LEMMA LeaveStep ==
  ASSUME IInv, NEW s \in Session, LeaveBoard(s)
  PROVE  IInv' /\ Numbered
<1>1. TypeOK /\ NoRangeRuns
  BY DEF IInv
<1>2. page' \in [Session -> Seq(Header)] /\ PagesFollow
  <2>1. \A t \in Session : Extended(page[t], page[t])
    BY <1>1, ExtendedReflexive DEF TypeOK
  <2>2. page' = [page EXCEPT ![s] = <<>>] /\ view' = view
    BY DEF LeaveBoard
  <2> QED
    BY <1>1, <2>1, <2>2, EmptyPage DEF TypeOK, PagesFollow
<1> QED
  BY <1>1, <1>2, ReadingStep DEF LeaveBoard, TypeOK, DraftsKept, NoRangeRuns

LEMMA SwitchStep ==
  ASSUME IInv, NEW s \in Session, SwitchView(s)
  PROVE  IInv' /\ Numbered
<1> DEFINE v == IF view[s] = "dir" THEN "digest" ELSE "dir"
<1>1. TypeOK /\ NoRangeRuns /\ v \in View
  BY DEF IInv, View
<1>2. /\ page' = [page EXCEPT ![s] = index[v]] /\ view' = [view EXCEPT ![s] = v]
      /\ index' = index
  BY DEF SwitchView
<1> HIDE DEF v
<1>3. page' \in [Session -> Seq(Header)] /\ view' \in [Session -> View] /\ PagesFollow
  <2>1. \A t \in Session : Extended(page[t], page[t])
    BY <1>1, ExtendedReflexive DEF TypeOK
  <2> QED
    BY <1>1, <1>2, <2>1 DEF TypeOK, PagesFollow
<1> QED
  BY <1>1, <1>3, ReadingStep DEF SwitchView, TypeOK, DraftsKept, NoRangeRuns

LEMMA HangupStep ==
  ASSUME IInv, NEW s \in Session, Hangup(s)
  PROVE  IInv' /\ Numbered
<1>1. TypeOK /\ NoRangeRuns
  BY DEF IInv
<1>2. /\ page' = [page EXCEPT ![s] = <<>>] /\ view' = [view EXCEPT ![s] = "dir"]
      /\ pc' = [pc EXCEPT ![s] = "idle"] /\ work' = [work EXCEPT ![s] = NoWork]
      /\ dellock' = dellock \ {s}
      /\ UNCHANGED <<clock, index, files, blank, trash, numposts, tmpfile, published>>
  BY DEF Hangup, Goto
<1>3. page' \in [Session -> Seq(Header)] /\ view' \in [Session -> View] /\ PagesFollow
  <2>1. \A t \in Session : Extended(page[t], page[t])
    BY <1>1, ExtendedReflexive DEF TypeOK
  <2> QED
    BY <1>1, <1>2, <2>1, EmptyPage DEF TypeOK, PagesFollow, View
<1>4. /\ pc' \in [Session -> {"idle", "edit", "delete", "cancel", "swap", "rename"}]
      /\ work' \in [Session -> [ent : Nat, hdr : Header, named : BOOLEAN]]
      /\ dellock' \subseteq Session
  BY <1>1, <1>2, NoWorkType DEF TypeOK
<1>5. DraftsKept
  BY <1>1, <1>2 DEF TypeOK, DraftsKept, NoRangeRuns
<1> QED
  BY <1>1, <1>2, <1>3, <1>4, <1>5, ReadingStep DEF TypeOK

LEMMA TickStep ==
  ASSUME IInv, Tick \/ UNCHANGED vars
  PROVE  IInv' /\ Numbered
<1>1. TypeOK /\ NoRangeRuns
  BY DEF IInv
<1>2. UNCHANGED <<index, files, blank, trash, numposts, view, page, pc, work,
                  dellock, tmpfile, published>>
  BY DEF Tick, vars
<1>3. clock' \in 1..(MaxTime + 1)
  BY <1>1, BoardAssumption DEF Tick, vars, TypeOK
<1>4. PagesFollow
  <2>1. \A t \in Session : Extended(page[t], page[t])
    BY <1>1, ExtendedReflexive DEF TypeOK
  <2> QED
    BY <1>2, <2>1 DEF PagesFollow
<1>5. DraftsKept
  BY <1>1, <1>2 DEF DraftsKept, NoRangeRuns
<1> QED
  BY <1>1, <1>2, <1>3, <1>4, <1>5, ReadingStep DEF TypeOK

(* A step that puts article h on the board, which has a file and no header. *)
LEMMA AddArticle ==
  ASSUME IInv, TypeOK', NEW h \in Header,
         index' = [index EXCEPT !["dir"] = AppendRecord(index["dir"], h)],
         h.file \in files'["dir"] \ Listed("dir"), files["dir"] \subseteq files'["dir"],
         \A t \in Session : pc'[t] = "edit" => work[t].hdr.file # h.file,
         PagesFollow, DraftsKept
  PROVE  IInv' /\ Numbered
<1> DEFINE f == index["dir"]
           g == AppendRecord(f, h)
<1>1. TypeOK /\ f \in Seq(Header) /\ Len(f) \in Nat
  BY IndexType, LenProperties DEF IInv
<1>2. /\ g \in Seq(Header) /\ Extended(f, g)
      /\ Len(g) = Len(f) + 1 /\ g[Len(f) + 1] = h
  BY <1>1, AppendExtends
<1>3. index'["dir"] = g
  BY <1>1, IndexType
<1>4. \A i \in 1..Len(f) : g[i].file = f[i].file
  BY <1>2 DEF Extended
<1> HIDE DEF g
<1>5. \A i \in 1..Len(g) : i \in 1..Len(f) \/ i = Len(f) + 1
  BY <1>1, <1>2
<1>6. \A i \in 1..Len(f) : i \in 1..Len(g)
  BY <1>1, <1>2
<1>7. Listed("dir")' = {g[i].file : i \in 1..Len(g)}
  BY <1>3 DEF Listed
<1>8. Listed("dir")' \subseteq Listed("dir") \cup {h.file}
  BY <1>2, <1>4, <1>5, <1>7 DEF Listed
<1>9. (Listed("dir") \subseteq files["dir"])'
  BY <1>8 DEF IInv
<1>10. DraftsApart'
  BY <1>8 DEF DraftsKept, DraftsApart, IInv
<1>11. NoRangeRuns'
  BY DEF DraftsKept, NoRangeRuns
<1>12. Aligned'
  BY <1>1, <1>2, <1>3, AlignmentKept DEF IInv
<1>13. ListedOnce'
  <2> SUFFICES ASSUME NEW i \in 1..Len(g), NEW j \in 1..Len(g), g[i].file = g[j].file
               PROVE  i = j
    BY <1>3 DEF ListedOnce
  <2>1. \A k \in 1..Len(f) : f[k].file # h.file
    BY DEF Listed
  <2>2. CASE i \in 1..Len(f) /\ j \in 1..Len(f)
    BY <1>4, <2>2 DEF ListedOnce, IInv
  <2>3. CASE i = Len(f) + 1 /\ j \in 1..Len(f)
    BY <1>2, <1>4, <2>1, <2>3
  <2>4. CASE i \in 1..Len(f) /\ j = Len(f) + 1
    BY <1>2, <1>4, <2>1, <2>4
  <2> QED
    BY <1>5, <2>2, <2>3, <2>4
<1>14. Numbered
  BY <1>2, <1>3 DEF Numbered
<1> QED
  BY <1>9, <1>10, <1>11, <1>12, <1>13, <1>14 DEF IInv

LEMMA NewHeaderType ==
  ASSUME NEW s \in Session, NEW n \in FileName
  PROVE  NewHeader(s, n) \in Header /\ NewHeader(s, n).file = n
BY BoardAssumption DEF NewHeader, Header

LEMMA RedrawIfReadingFollows ==
  ASSUME TypeOK, NEW s \in Session, index' \in [View -> Seq(Header)],
         RedrawIfReading(s, index'), view' = view
  PROVE  page' \in [Session -> Seq(Header)] /\ PagesFollow
<1>1. \A t \in Session : page[t] \in Seq(Header) /\ Extended(page[t], page[t])
  BY ExtendedReflexive DEF TypeOK
<1>2. CASE UNCHANGED page
  BY <1>1, <1>2 DEF TypeOK, PagesFollow
<1>3. CASE Redraw(s, page[s], index')
  BY <1>1, <1>3, RedrawFollows
<1> QED
  BY <1>2, <1>3 DEF RedrawIfReading

LEMMA OpenDraftStep ==
  ASSUME IInv, NEW s \in Session, NEW n \in FileName, OpenDraft(s, n)
  PROVE  IInv' /\ Numbered
<1>1. TypeOK /\ NoRangeRuns /\ index["dir"] \in Seq(Header)
  BY IndexType DEF IInv
<1>2. n \notin files["dir"] /\ n \notin Listed("dir")
  BY DEF OpenDraft, IsNewName, FreeNames, IInv
<1>3. NewHeader(s, n) \in Header /\ NewHeader(s, n).file = n
  BY NewHeaderType
<1> DEFINE w == [NoWork EXCEPT !.hdr = NewHeader(s, n)]
<1>4. w \in [ent : Nat, hdr : Header, named : BOOLEAN] /\ w.hdr.file = n
  BY <1>3 DEF NoWork
<1>5. /\ files' = [files EXCEPT !["dir"] = files["dir"] \cup {n}]
      /\ work' = [work EXCEPT ![s] = w] /\ pc' = [pc EXCEPT ![s] = "edit"]
      /\ UNCHANGED <<clock, index, blank, trash, numposts, view, page, dellock,
                     tmpfile, published>>
  BY DEF OpenDraft, Goto
<1> HIDE DEF w
<1>6. files' \in [View -> SUBSET FileName] /\ files'["dir"] = files["dir"] \cup {n}
  BY <1>1, <1>5, IndexType
<1>7. TypeOK'
  BY <1>1, <1>4, <1>5, <1>6 DEF TypeOK
<1>8. Listed("dir")' = Listed("dir")
  BY <1>5 DEF Listed
<1>9. /\ work'[s].hdr.file = n
      /\ \A t \in Session \ {s} : pc'[t] = pc[t] /\ work'[t] = work[t]
  BY <1>1, <1>4, <1>5 DEF TypeOK
<1>10. \A t \in Session \ {s} : pc[t] = "edit" => work[t].hdr.file # n
  BY <1>2 DEF DraftsApart, IInv
<1>11. DraftsApart'
  BY <1>2, <1>6, <1>8, <1>9, <1>10 DEF DraftsApart, IInv
<1>12. NoRangeRuns'
  BY <1>1, <1>5 DEF NoRangeRuns, TypeOK
<1>13. Aligned' /\ ListedOnce'
  BY <1>5 DEF Aligned, ListedOnce, IInv
<1>14. (Listed("dir") \subseteq files["dir"])'
  BY <1>6, <1>8 DEF IInv
<1>15. Numbered
  BY <1>1, <1>5, ExtendedReflexive DEF Numbered
<1> QED
  BY <1>7, <1>11, <1>12, <1>13, <1>14, <1>15 DEF IInv

LEMMA AbandonStep ==
  ASSUME IInv, NEW s \in Session, AbandonDraft(s)
  PROVE  IInv' /\ Numbered
<1> DEFINE n == work[s].hdr.file
<1>1. TypeOK /\ NoRangeRuns /\ index["dir"] \in Seq(Header)
  BY IndexType DEF IInv
<1>2. /\ pc[s] = "edit"
      /\ files' = [files EXCEPT !["dir"] = files["dir"] \ {n}]
      /\ work' = [work EXCEPT ![s] = NoWork] /\ pc' = [pc EXCEPT ![s] = "idle"]
      /\ index' = index /\ RedrawIfReading(s, index')
      /\ UNCHANGED <<clock, blank, trash, numposts, view, dellock, tmpfile, published>>
  BY DEF AbandonDraft, Goto
<1>3. n \notin Listed("dir")
  BY <1>2 DEF DraftsApart, IInv
<1>4. \A t \in Session \ {s} : pc[t] = "edit" => work[t].hdr.file # n
  BY <1>2 DEF DraftsApart, IInv
<1> HIDE DEF n
<1>5. page' \in [Session -> Seq(Header)] /\ PagesFollow
  BY <1>1, <1>2, IndexType, RedrawIfReadingFollows
<1>6. files' \in [View -> SUBSET FileName] /\ files'["dir"] = files["dir"] \ {n}
  BY <1>1, <1>2, IndexType
<1>7. TypeOK'
  BY <1>1, <1>2, <1>5, <1>6, NoWorkType DEF TypeOK
<1>8. Listed("dir")' = Listed("dir") /\ ListedOnce'
  BY <1>2 DEF Listed, ListedOnce, IInv
<1>9. /\ pc'[s] = "idle"
      /\ \A t \in Session \ {s} : pc'[t] = pc[t] /\ work'[t] = work[t]
  BY <1>1, <1>2 DEF TypeOK
<1>10. DraftsApart'
  BY <1>4, <1>6, <1>8, <1>9 DEF DraftsApart, IInv
<1>11. NoRangeRuns'
  BY <1>1, <1>9 DEF NoRangeRuns
<1>12. Numbered
  BY <1>1, <1>2, ExtendedReflexive DEF Numbered
<1>13. Aligned'
  BY <1>5, <1>7, <1>12, AlignmentKept DEF IInv, Numbered
<1>14. (Listed("dir") \subseteq files["dir"])'
  BY <1>3, <1>6, <1>8 DEF IInv
<1> QED
  BY <1>7, <1>8, <1>10, <1>11, <1>12, <1>13, <1>14 DEF IInv

LEMMA PublishStep ==
  ASSUME IInv, NEW s \in Session, PublishDraft(s)
  PROVE  IInv' /\ Numbered
<1> DEFINE h == work[s].hdr
<1>1. TypeOK /\ NoRangeRuns /\ h \in Header
  BY DEF IInv, TypeOK
<1>2. /\ pc[s] = "edit"
      /\ index' = [index EXCEPT !["dir"] = AppendRecord(index["dir"], h)]
      /\ published' = published \cup {h.file}
      /\ numposts' = [numposts EXCEPT ![Login[s]] = numposts[Login[s]] + 1]
      /\ work' = [work EXCEPT ![s] = NoWork] /\ pc' = [pc EXCEPT ![s] = "idle"]
      /\ RedrawIfReading(s, index')
      /\ UNCHANGED <<clock, files, blank, trash, view, dellock, tmpfile>>
  BY DEF PublishDraft, Goto
<1>3. h.file \in files["dir"] \ Listed("dir") /\ h.file \in FileName
  BY <1>1, <1>2 DEF DraftsApart, IInv, Header
<1>4. \A t \in Session \ {s} : pc[t] = "edit" => work[t].hdr.file # h.file
  BY <1>2 DEF DraftsApart, IInv
<1> HIDE DEF h
<1>5. index' \in [View -> Seq(Header)]
  BY <1>1, <1>2, IndexType, AppendExtends
<1>6. page' \in [Session -> Seq(Header)] /\ PagesFollow
  BY <1>1, <1>2, <1>5, RedrawIfReadingFollows
<1>7. numposts' \in [User -> Nat]
  <2>1. Login[s] \in User /\ numposts \in [User -> Nat]
    BY <1>1, BoardAssumption DEF TypeOK
  <2>2. numposts[Login[s]] + 1 \in Nat
    BY <2>1
  <2> QED
    BY <1>2, <2>1, <2>2
<1>8. TypeOK'
  BY <1>1, <1>2, <1>3, <1>5, <1>6, <1>7, NoWorkType DEF TypeOK
<1>9. /\ pc'[s] = "idle"
      /\ \A t \in Session \ {s} : pc'[t] = pc[t] /\ work'[t] = work[t]
  BY <1>1, <1>2 DEF TypeOK
<1>10. DraftsKept /\ \A t \in Session : pc'[t] = "edit" => work[t].hdr.file # h.file
  BY <1>1, <1>4, <1>9 DEF DraftsKept, NoRangeRuns
<1>11. h.file \in files'["dir"] \ Listed("dir") /\ files["dir"] \subseteq files'["dir"]
  BY <1>2, <1>3
<1> QED
  BY <1>1, <1>2, <1>6, <1>8, <1>10, <1>11, AddArticle

LEMMA CrossStep ==
  ASSUME IInv, NEW s \in Session, NEW n \in FileName, CrossPost(s, n)
  PROVE  IInv' /\ Numbered
<1> DEFINE h == NewHeader(s, n)
<1>1. TypeOK /\ NoRangeRuns
  BY DEF IInv
<1>2. h \in Header /\ h.file = n
  BY NewHeaderType
<1>3. n \notin files["dir"] /\ n \notin Listed("dir")
  BY DEF CrossPost, IsNewName, FreeNames, IInv
<1>4. /\ files' = [files EXCEPT !["dir"] = files["dir"] \cup {n}]
      /\ index' = [index EXCEPT !["dir"] = AppendRecord(index["dir"], h)]
      /\ published' = published \cup {n}
      /\ RedrawIfReading(s, index')
      /\ UNCHANGED <<clock, blank, trash, numposts, view, pc, work, dellock, tmpfile>>
  BY DEF CrossPost
<1> HIDE DEF h
<1>5. index' \in [View -> Seq(Header)]
  BY <1>1, <1>2, <1>4, IndexType, AppendExtends
<1>6. page' \in [Session -> Seq(Header)] /\ PagesFollow
  BY <1>1, <1>4, <1>5, RedrawIfReadingFollows
<1>7. files' \in [View -> SUBSET FileName] /\ files'["dir"] = files["dir"] \cup {n}
  BY <1>1, <1>4, IndexType
<1>8. TypeOK'
  BY <1>1, <1>4, <1>5, <1>6, <1>7 DEF TypeOK
<1>9. DraftsKept
  BY <1>1, <1>4 DEF DraftsKept, NoRangeRuns
<1>10. \A t \in Session : pc'[t] = "edit" => work[t].hdr.file # h.file
  BY <1>2, <1>3, <1>4 DEF DraftsApart, IInv
<1> QED
  BY <1>2, <1>3, <1>4, <1>6, <1>7, <1>8, <1>9, <1>10, AddArticle

LEMMA StartDeleteStep ==
  ASSUME IInv, NEW s \in Session, NEW i \in 1..Len(page[s]), StartDelete(s, i)
  PROVE  IInv' /\ Numbered
<1> DEFINE h == page[s][i]
           plain == [h EXCEPT !.digest = FALSE]
           named == h.digest => InDigest(h.file)
           w == [ent |-> i, hdr |-> plain, named |-> named]
<1>1. TypeOK /\ NoRangeRuns /\ page[s] \in Seq(Header) /\ h \in Header
  BY LineType DEF IInv
<1>2. plain \in Header /\ plain.file = page[s][i].file
  BY <1>1 DEF Header
<1>3. /\ \/ /\ index' = [index EXCEPT !["digest"] = DigestIndexWithout(h.file)]
            /\ files' = [files EXCEPT !["digest"] = DigestFilesWithout(h.file)]
         \/ UNCHANGED <<index, files>>
      /\ work' = [work EXCEPT ![s] = w]
      /\ page' = [page EXCEPT ![s] = WithLine(s, i, plain)]
      /\ pc' = [pc EXCEPT ![s] = "delete"]
      /\ UNCHANGED <<clock, blank, trash, numposts, view, dellock, tmpfile, published>>
  BY DEF StartDelete, Goto
<1>4. w \in [ent : Nat, hdr : Header, named : BOOLEAN]
  <2>1. i \in Nat
    BY <1>1, LenProperties
  <2>2. named \in BOOLEAN
    OBVIOUS
  <2> HIDE DEF plain, named
  <2> QED
    BY <1>2, <2>1, <2>2
<1>5. WithLine(s, i, plain) \in Seq(Header) /\ Extended(WithLine(s, i, plain), page[s])
  BY <1>1, <1>2, WithLineFollows
<1> HIDE DEF w, plain
<1>6. /\ index' \in [View -> Seq(Header)] /\ index'["dir"] = index["dir"]
      /\ files' \in [View -> SUBSET FileName] /\ files'["dir"] = files["dir"]
  <2>1. /\ DigestFilesWithout(h.file) \subseteq FileName
        /\ DigestIndexWithout(h.file) \in Seq(Header)
    BY <1>1, IndexType, DigestIndexType DEF DigestFilesWithout
  <2>2. CASE /\ index' = [index EXCEPT !["digest"] = DigestIndexWithout(h.file)]
             /\ files' = [files EXCEPT !["digest"] = DigestFilesWithout(h.file)]
    BY <1>1, <2>1, <2>2, IndexType
  <2>3. CASE UNCHANGED <<index, files>>
    BY <1>1, <2>3, IndexType
  <2> QED
    BY <1>3, <2>2, <2>3
<1>7. page' \in [Session -> Seq(Header)] /\ PagesFollow
  <2>1. \A t \in Session : page[t] \in Seq(Header) /\ Extended(page[t], page[t])
    BY <1>1, ExtendedReflexive DEF TypeOK
  <2> QED
    BY <1>1, <1>3, <1>5, <2>1 DEF TypeOK, PagesFollow
<1>8. TypeOK'
  BY <1>1, <1>3, <1>4, <1>6, <1>7 DEF TypeOK
<1>9. SameArticles
  BY <1>1, <1>6, IndexType, ExtendedReflexive DEF SameArticles
<1>10. DraftsKept
  BY <1>1, <1>3 DEF TypeOK, DraftsKept, NoRangeRuns
<1> QED
  BY <1>6, <1>7, <1>8, <1>9, <1>10, QuietStep DEF SameArticles, Numbered

(* The only step that needs KEEP_DELETED_HEADER: it rewrites where          *)
(* delete_file would move the later articles.                               *)
LEMMA RemoveStep ==
  ASSUME KeepHeader, IInv, NEW s \in Session, RemoveEntry(s)
  PROVE  IInv' /\ Numbered
<1> DEFINE f == index[view[s]]
           g == CutInPlace(f, work[s].ent, work[s].hdr.file)
<1>1. /\ TypeOK /\ NoRangeRuns /\ view[s] \in View /\ f \in Seq(Header)
      /\ work[s].ent \in Nat
  BY DEF IInv, TypeOK
<1>2. /\ index' = [index EXCEPT ![view[s]] = g]
      /\ pc' = [pc EXCEPT ![s] = "cancel"]
      /\ UNCHANGED <<clock, files, blank, trash, numposts, view, page, work, dellock,
                     tmpfile, published>>
  BY DEF RemoveEntry, EntryRemoved, Goto
<1>3. g \in Seq(Header) /\ Extended(f, g) /\ Len(g) = Len(f)
  BY <1>1, CutExtends
<1> HIDE DEF g
<1>4. SameArticles
  BY <1>1, <1>2, <1>3, IndexType, ExtendedReflexive DEF SameArticles
<1>5. PagesFollow
  <2>1. \A t \in Session : Extended(page[t], page[t])
    BY <1>1, ExtendedReflexive DEF TypeOK
  <2> QED
    BY <1>2, <2>1 DEF PagesFollow
<1>6. TypeOK'
  BY <1>1, <1>2, <1>4 DEF TypeOK, SameArticles
<1>7. DraftsKept
  BY <1>1, <1>2 DEF TypeOK, DraftsKept, NoRangeRuns
<1> QED
  BY <1>2, <1>4, <1>5, <1>6, <1>7, QuietStep DEF SameArticles, Numbered

LEMMA DeleteFailsStep ==
  ASSUME IInv, NEW s \in Session, DeleteFails(s)
  PROVE  IInv' /\ Numbered
<1>1. TypeOK /\ NoRangeRuns /\ page[s] \in Seq(Header)
  BY DEF IInv, TypeOK
<1>2. /\ work' = [work EXCEPT ![s] = NoWork] /\ pc' = [pc EXCEPT ![s] = "idle"]
      /\ index' = index /\ Redraw(s, page[s], index')
      /\ UNCHANGED <<clock, files, blank, trash, numposts, view, dellock, tmpfile,
                     published>>
  BY DEF DeleteFails, Goto
<1>3. page' \in [Session -> Seq(Header)] /\ PagesFollow
  BY <1>1, <1>2, IndexType, ExtendedReflexive, RedrawFollows
<1>4. /\ work' \in [Session -> [ent : Nat, hdr : Header, named : BOOLEAN]]
      /\ pc' \in [Session -> {"idle", "edit", "delete", "cancel", "swap", "rename"}]
  BY <1>1, <1>2, NoWorkType DEF TypeOK
<1>5. DraftsKept
  BY <1>1, <1>2 DEF TypeOK, DraftsKept, NoRangeRuns
<1> QED
  BY <1>1, <1>2, <1>3, <1>4, <1>5, ReadingStep DEF TypeOK

LEMMA CancelStep ==
  ASSUME KeepHeader, IInv, NEW s \in Session, CancelArticle(s)
  PROVE  IInv' /\ Numbered
<1> DEFINE n == work[s].hdr.file
           u == IF Owns(s, work[s].hdr) THEN Login[s] ELSE work[s].hdr.owner
           v == ViewAfter(s, index)
<1>1. /\ TypeOK /\ NoRangeRuns /\ n \in FileName /\ view[s] \in View /\ v \in View
      /\ \A t \in Session : page[t] \in Seq(Header) /\ Extended(page[t], page[t])
  BY ExtendedReflexive DEF IInv, TypeOK, Header, ViewAfter, View
<1>2. /\ trash' = trash \cup ({n} \cap files[view[s]])
      /\ files' = [files EXCEPT ![view[s]] = files[view[s]] \cup ({n} \ {0})]
      /\ blank' = blank \cup {n}
      /\ numposts' = [numposts EXCEPT ![u] = OnePostLess(numposts[u])]
      /\ work' = [work EXCEPT ![s] = NoWork] /\ pc' = [pc EXCEPT ![s] = "idle"]
      /\ view' = [view EXCEPT ![s] = v] /\ page' = [page EXCEPT ![s] = index[v]]
      /\ UNCHANGED <<clock, index, dellock, tmpfile, published>>
  BY DEF CancelArticle, FilesAfterCancel, Reread, Goto
<1> HIDE DEF n, u, v
<1>3. numposts' \in [User -> Nat]
  <2>1. \A k \in Nat : OnePostLess(k) \in Nat
    BY DEF OnePostLess
  <2>2. numposts \in [User -> Nat]
    BY <1>1 DEF TypeOK
  <2>3. CASE u \in User
    BY <1>2, <2>1, <2>2, <2>3
  <2>4. CASE u \notin User
    BY <1>2, <2>2, <2>4
  <2> QED
    BY <2>3, <2>4
<1>4. files' \in [View -> SUBSET FileName] /\ files["dir"] \subseteq files'["dir"]
  BY <1>1, <1>2, IndexType
<1>5. trash' \subseteq FileName /\ blank' \subseteq FileName
  BY <1>1, <1>2 DEF TypeOK
<1>6. /\ view' \in [Session -> View] /\ page' \in [Session -> Seq(Header)]
      /\ PagesFollow
  BY <1>1, <1>2, IndexType DEF TypeOK, PagesFollow
<1>7. TypeOK'
  BY <1>1, <1>2, <1>3, <1>4, <1>5, <1>6, NoWorkType DEF TypeOK
<1>8. SameArticles
  BY <1>1, <1>2, IndexType, ExtendedReflexive DEF SameArticles
<1>9. DraftsKept
  BY <1>1, <1>2 DEF TypeOK, DraftsKept, NoRangeRuns
<1> QED
  BY <1>4, <1>6, <1>7, <1>8, <1>9, QuietStep DEF SameArticles, Numbered

-----------------------------------------------------------------------------
(* The invariant                                                            *)

LEMMA InitIInv == Init => IInv
<1> SUFFICES ASSUME Init PROVE IInv
  OBVIOUS
<1> USE DEF Init
<1>1. TypeOK
  BY EmptyPage, NoWorkType, BoardAssumption DEF TypeOK, View, NoTmp
<1>2. Len(index["dir"]) = 0 /\ \A s \in Session : page[s] = <<>> /\ pc[s] = "idle"
  BY DEF View
<1>3. Aligned
  BY <1>2 DEF Aligned, Extended
<1>4. Listed("dir") \subseteq files["dir"] /\ ListedOnce
  BY <1>2 DEF Listed, ListedOnce
<1>5. NoRangeRuns /\ DraftsApart
  BY <1>2 DEF NoRangeRuns, DraftsApart
<1> QED
  BY <1>1, <1>3, <1>4, <1>5 DEF IInv

LEMMA StepKeeps ==
  ASSUME KeepsNumbers, IInv, [Next]_vars
  PROVE  IInv' /\ Numbered
<1>1. CASE Tick \/ UNCHANGED vars
  BY <1>1, TickStep
<1>2. ASSUME NEW s \in Session, Step(s)
      PROVE  IInv' /\ Numbered
  <2>1. CASE OpenBoard(s) \/ LeaveBoard(s) \/ SwitchView(s) \/ Hangup(s)
    BY <2>1, OpenStep, LeaveStep, SwitchStep, HangupStep
  <2>2. CASE \E n \in FileName : OpenDraft(s, n) \/ CrossPost(s, n)
    BY <2>2, OpenDraftStep, CrossStep
  <2>3. CASE AbandonDraft(s) \/ PublishDraft(s)
    BY <2>3, AbandonStep, PublishStep
  <2>4. CASE \E i \in 1..Len(page[s]) :
               \/ MarkPost(s, i) \/ EditTitle(s, i) \/ UndigestPost(s, i)
               \/ RedigestPost(s, i) \/ DigestPost(s, i) \/ StartDelete(s, i)
    BY <2>4, MarkStep, TitleStep, UndigestStep, RedigestStep, DigestStep,
       StartDeleteStep
  <2>5. CASE RemoveEntry(s) \/ DeleteFails(s) \/ CancelArticle(s)
    BY <2>5, RemoveStep, DeleteFailsStep, CancelStep DEF KeepsNumbers
  <2>6. CASE \/ \E id1, id2 \in 1..(Len(page[s]) + 2) : RangeCopy(s, id1, id2)
             \/ RangeRefused(s)
    BY <2>6 DEF RangeCopy, RangeRefused, Chooses, KeepsNumbers
  <2>7. CASE RangeMoveAway(s) \/ RangeMoveIn(s)
    BY <2>7 DEF RangeMoveAway, RangeMoveIn, IInv, NoRangeRuns
  <2> QED
    BY <1>2, <2>1, <2>2, <2>3, <2>4, <2>5, <2>6, <2>7 DEF Step
<1> QED
  BY <1>1, <1>2 DEF Next

(* On every board that keeps its headers the invariant holds for ever.      *)
THEOREM BoardInvariant == KeepsNumbers => (Spec => []IInv)
<1> SUFFICES ASSUME KeepsNumbers PROVE Spec => []IInv
  OBVIOUS
<1>1. Init => IInv
  BY InitIInv
<1>2. IInv /\ [Next]_vars => IInv'
  BY StepKeeps
<1> QED
  BY <1>1, <1>2, PTL DEF Spec

(* A line of the page on the screen is the article at that number of .DIR,  *)
(* whatever the others did since the page was read: mark_post, edit_title   *)
(* and del_post reach the article they were given.                          *)
THEOREM BoardPageAligned == KeepsNumbers => (Spec => []PageAligned)
<1>1. IInv => PageAligned
  <2> SUFFICES ASSUME IInv, NEW s \in Session, view[s] = "dir"
               PROVE  /\ Len(page[s]) <= Len(index["dir"])
                      /\ \A i \in 1..Len(page[s]) :
                           page[s][i].file = index["dir"][i].file
    BY DEF PageAligned
  <2> QED
    BY DEF IInv, Aligned, Extended
<1> QED
  BY <1>1, BoardInvariant, PTL

(* No article is listed under two numbers.                                  *)
THEOREM BoardListedOnce == KeepsNumbers => (Spec => []ListedOnce)
<1>1. IInv => ListedOnce
  BY DEF IInv
<1> QED
  BY <1>1, BoardInvariant, PTL

(* No header is without its article file.                                   *)
THEOREM BoardListedExists == KeepsNumbers => (Spec => []ListedExists)
<1>1. IInv => ListedExists
  BY DEF IInv, ListedExists
<1> QED
  BY <1>1, BoardInvariant, PTL

(* An article keeps its number for ever.                                    *)
THEOREM BoardNumbersStable == KeepsNumbers => (Spec => NumbersStable)
<1> SUFFICES ASSUME KeepsNumbers PROVE Spec => NumbersStable
  OBVIOUS
<1> DEFINE Stays == \A i \in 1..Len(index["dir"]) :
                      /\ i <= Len(index'["dir"])
                      /\ index'["dir"][i].file = index["dir"][i].file
<1>1. IInv /\ [Next]_vars => [Stays]_vars
  <2> SUFFICES ASSUME IInv, [Next]_vars PROVE Stays
    OBVIOUS
  <2>1. IInv' /\ Numbered
    BY StepKeeps
  <2>2. index["dir"] \in Seq(Header) /\ index'["dir"] \in Seq(Header)
    BY <2>1 DEF IInv, TypeOK, View
  <2> QED
    BY <2>1, <2>2, LenProperties DEF Numbered, Extended
<1>2. Spec => []IInv
  BY BoardInvariant
<1>3. Spec => [][Next]_vars
  BY PTL DEF Spec
<1>4. []IInv /\ [][Next]_vars => [][Stays]_vars
  BY <1>1, PTL
<1> QED
  BY <1>2, <1>3, <1>4, PTL DEF NumbersStable

-----------------------------------------------------------------------------
(* What was put on the board stays listed                                    *)

PublishedListed == published \subseteq Listed("dir")

LEMMA ListedGrows ==
  ASSUME IInv, IInv', Numbered
  PROVE  Listed("dir") \subseteq Listed("dir")'
<1>1. index["dir"] \in Seq(Header) /\ index'["dir"] \in Seq(Header)
  BY DEF IInv, TypeOK, View
<1>2. Len(index["dir"]) \in Nat /\ Len(index'["dir"]) \in Nat
  BY <1>1, LenProperties
<1>3. \A i \in 1..Len(index["dir"]) :
        i \in 1..Len(index'["dir"]) /\ index'["dir"][i].file = index["dir"][i].file
  BY <1>2 DEF Numbered, Extended
<1> QED
  BY <1>3 DEF Listed

(* Only a step that lists an article adds to what was published.             *)
LEMMA PublishedSteps ==
  ASSUME Next \/ UNCHANGED vars
  PROVE  \/ published' = published
         \/ \E s \in Session : PublishDraft(s) \/ \E n \in FileName : CrossPost(s, n)
<1>1. CASE Tick \/ UNCHANGED vars
  BY <1>1 DEF Tick, vars
<1>2. ASSUME NEW s \in Session, Step(s)
      PROVE  published' = published \/ PublishDraft(s) \/ \E n \in FileName : CrossPost(s, n)
  <2>1. CASE OpenBoard(s) \/ LeaveBoard(s) \/ SwitchView(s) \/ Hangup(s) \/ AbandonDraft(s)
    BY <2>1 DEF OpenBoard, LeaveBoard, SwitchView, Hangup, AbandonDraft
  <2>2. CASE \E n \in FileName : OpenDraft(s, n)
    BY <2>2 DEF OpenDraft
  <2>3. CASE \E i \in 1..Len(page[s]) :
               \/ MarkPost(s, i) \/ EditTitle(s, i) \/ UndigestPost(s, i)
               \/ RedigestPost(s, i) \/ DigestPost(s, i) \/ StartDelete(s, i)
    BY <2>3 DEF MarkPost, EditTitle, UndigestPost, RedigestPost, DigestPost, StartDelete
  <2>4. CASE \/ RemoveEntry(s) \/ DeleteFails(s) \/ CancelArticle(s)
             \/ \E id1, id2 \in 1..(Len(page[s]) + 2) : RangeCopy(s, id1, id2)
             \/ RangeRefused(s) \/ RangeMoveAway(s) \/ RangeMoveIn(s)
    BY <2>4 DEF RemoveEntry, DeleteFails, CancelArticle, RangeCopy, RangeRefused,
       RangeMoveAway, RangeMoveIn
  <2> QED
    BY <1>2, <2>1, <2>2, <2>3, <2>4 DEF Step
<1> QED
  BY <1>1, <1>2 DEF Next

LEMMA AppendedIsListed ==
  ASSUME IInv, NEW h \in Header,
         index' = [index EXCEPT !["dir"] = AppendRecord(index["dir"], h)]
  PROVE  h.file \in Listed("dir")'
<1>1. index \in [View -> Seq(Header)] /\ "dir" \in View /\ index["dir"] \in Seq(Header)
  BY IndexType DEF IInv
<1>2. index'["dir"] = AppendRecord(index["dir"], h)
  BY <1>1
<1>3. /\ Len(index'["dir"]) = Len(index["dir"]) + 1
      /\ index'["dir"][Len(index["dir"]) + 1] = h
  BY <1>1, <1>2, AppendExtends
<1>4. Len(index["dir"]) \in Nat
  BY <1>1, LenProperties
<1> QED
  BY <1>3, <1>4 DEF Listed

LEMMA PublishedStep ==
  ASSUME KeepsNumbers, IInv, PublishedListed, [Next]_vars
  PROVE  PublishedListed'
<1>1. IInv' /\ Numbered
  BY StepKeeps
<1>2. Listed("dir") \subseteq Listed("dir")'
  BY <1>1, ListedGrows
<1>3. CASE published' = published
  BY <1>2, <1>3 DEF PublishedListed
<1>4. ASSUME NEW s \in Session, PublishDraft(s)
      PROVE  PublishedListed'
  <2>1. work[s].hdr \in Header
    BY DEF IInv, TypeOK
  <2>2. /\ index' = [index EXCEPT !["dir"] = AppendRecord(index["dir"], work[s].hdr)]
        /\ published' = published \cup {work[s].hdr.file}
    BY <1>4 DEF PublishDraft
  <2>3. work[s].hdr.file \in Listed("dir")'
    BY <2>1, <2>2, AppendedIsListed
  <2> QED
    BY <1>2, <2>2, <2>3 DEF PublishedListed
<1>5. ASSUME NEW s \in Session, NEW n \in FileName, CrossPost(s, n)
      PROVE  PublishedListed'
  <2>1. NewHeader(s, n) \in Header /\ NewHeader(s, n).file = n
    BY NewHeaderType
  <2>2. /\ index' = [index EXCEPT !["dir"] = AppendRecord(index["dir"], NewHeader(s, n))]
        /\ published' = published \cup {n}
    BY <1>5 DEF CrossPost
  <2>3. n \in Listed("dir")'
    BY <2>1, <2>2, AppendedIsListed
  <2> QED
    BY <1>2, <2>2, <2>3 DEF PublishedListed
<1> QED
  BY <1>3, <1>4, <1>5, PublishedSteps

(* Where headers are kept, an article that was put on the board is listed    *)
(* for ever, so none disappears without a copy: del_post and cancelpost      *)
(* never take a header of .DIR away.                                        *)
THEOREM BoardNothingVanishes == KeepsNumbers => (Spec => []NothingVanishes)
<1> SUFFICES ASSUME KeepsNumbers PROVE Spec => []NothingVanishes
  OBVIOUS
<1>1. Init => PublishedListed
  BY DEF Init, PublishedListed
<1>2. IInv /\ PublishedListed /\ [Next]_vars => PublishedListed'
  BY PublishedStep
<1>3. PublishedListed => NothingVanishes
  BY DEF PublishedListed, NothingVanishes
<1>4. Spec => []IInv
  BY BoardInvariant
<1> QED
  BY <1>1, <1>2, <1>3, <1>4, PTL DEF Spec

-----------------------------------------------------------------------------
(* Boards on which nobody rewrites a header but to delete its article        *)

OnlyDeletes ==
  /\ KeepsNumbers
  /\ \A s \in Session : Uses[s] \cap {"mark", "title", "digest"} = {}

(* There is no digest then, so nobody reads it; a line of a page has the     *)
(* author of the article of that number, a draft is its writer's, and who    *)
(* is about to delete has the right to delete that article.                  *)
NoDigest == index["digest"] = <<>> /\ \A s \in Session : view[s] = "dir"

PagesHaveAuthors ==
  \A s \in Session : \A i \in 1..Len(page[s]) : page[s][i].owner = index["dir"][i].owner

DraftsOwn ==
  \A s \in Session : pc[s] = "edit" => work[s].hdr.owner = Login[s] /\ ~work[s].hdr.cut

DeletesByRight ==
  \A s \in Session : pc[s] = "delete" =>
    /\ IsBM(s) \/ work[s].hdr.owner = Login[s]
    /\ \E j \in 1..Len(index["dir"]) :
         /\ index["dir"][j].file = work[s].hdr.file
         /\ index["dir"][j].owner = work[s].hdr.owner

JInv == NoDigest /\ PagesHaveAuthors /\ DraftsOwn /\ DeletesByRight

(* A step leaves the index alone, puts an article of its writer at the end,  *)
(* or cancels the header of a deletion that is under way.                    *)
Adds(s) ==
  \E h \in Header :
    /\ ~h.cut /\ h.owner = Login[s]
    /\ index' = [index EXCEPT !["dir"] = AppendRecord(index["dir"], h)]

Cuts(s) ==
  /\ pc[s] = "delete" /\ Positions(index["dir"], work[s].hdr.file) # {}
  /\ index' = [index EXCEPT !["dir"] =
                 CutInPlace(index["dir"], work[s].ent, work[s].hdr.file)]

LEMMA NoDigestKept ==
  ASSUME IInv, NoDigest, NEW n
  PROVE  [index EXCEPT !["digest"] = DigestIndexWithout(n)] = index
<1>1. index \in [View -> Seq(Header)] /\ "digest" \in View
  BY IndexType DEF IInv
<1>2. index["digest"] = <<>>
  BY DEF NoDigest
<1>3. Positions(index["digest"], n) = {}
  BY <1>2 DEF Positions
<1>4. DigestIndexWithout(n) = index["digest"]
  BY <1>3 DEF DigestIndexWithout, DeleteFile
<1> QED
  BY <1>1, <1>4

LEMMA IndexSteps ==
  ASSUME OnlyDeletes, IInv, JInv, [Next]_vars
  PROVE  index' = index \/ \E s \in Session : Adds(s) \/ Cuts(s)
<1>1. CASE Tick \/ UNCHANGED vars
  BY <1>1 DEF Tick, vars
<1>2. ASSUME NEW s \in Session, Step(s)
      PROVE  index' = index \/ Adds(s) \/ Cuts(s)
  <2>0. KeepHeader /\ Uses[s] \cap {"mark", "title", "digest", "range"} = {}
    BY DEF OnlyDeletes, KeepsNumbers
  <2>1. CASE OpenBoard(s) \/ LeaveBoard(s) \/ SwitchView(s) \/ Hangup(s)
             \/ AbandonDraft(s) \/ DeleteFails(s) \/ CancelArticle(s)
             \/ RangeRefused(s)
    BY <2>1 DEF OpenBoard, LeaveBoard, SwitchView, Hangup, AbandonDraft, DeleteFails,
       CancelArticle, RangeRefused
  <2>2. CASE \E n \in FileName : OpenDraft(s, n)
    BY <2>2 DEF OpenDraft
  <2>3. CASE PublishDraft(s)
    BY <2>3 DEF PublishDraft, IInv, TypeOK, JInv, DraftsOwn, Adds
  <2>4. ASSUME NEW n \in FileName, CrossPost(s, n)
        PROVE  Adds(s)
    <3>1. NewHeader(s, n) \in Header
      BY NewHeaderType
    <3> QED
      BY <2>4, <3>1 DEF CrossPost, NewHeader, Adds
  <2>5. CASE \E i \in 1..Len(page[s]) : StartDelete(s, i)
    BY <2>5, NoDigestKept DEF StartDelete, JInv
  <2>6. CASE RemoveEntry(s)
    <3>1. view[s] = "dir"
      BY DEF JInv, NoDigest
    <3> QED
      BY <2>0, <2>6, <3>1 DEF RemoveEntry, EntryRemoved, Cuts
  <2>7. CASE \E i \in 1..Len(page[s]) :
               \/ MarkPost(s, i) \/ EditTitle(s, i) \/ UndigestPost(s, i)
               \/ RedigestPost(s, i) \/ DigestPost(s, i)
    BY <2>0, <2>7 DEF MarkPost, EditTitle, UndigestPost, RedigestPost, DigestPost, Chooses
  <2>8. CASE \E id1, id2 \in 1..(Len(page[s]) + 2) : RangeCopy(s, id1, id2)
    BY <2>8 DEF RangeCopy
  <2>9. CASE RangeMoveAway(s) \/ RangeMoveIn(s)
    BY <2>9 DEF RangeMoveAway, RangeMoveIn, IInv, NoRangeRuns
  <2> QED
    BY <1>2, <2>1, <2>2, <2>3, <2>4, <2>5, <2>6, <2>7, <2>8, <2>9 DEF Step
<1> QED
  BY <1>1, <1>2 DEF Next

(* The record that a deletion hits is the one that is meant.                 *)
LEMMA CutHits ==
  ASSUME IInv, JInv, NEW s \in Session, Cuts(s)
  PROVE  \E k \in 1..Len(index["dir"]) :
           /\ index["dir"][k].file = work[s].hdr.file
           /\ index["dir"][k].owner = work[s].hdr.owner
           /\ index'["digest"] = index["digest"]
           /\ index'["dir"] \in Seq(Header)
           /\ Len(index'["dir"]) = Len(index["dir"])
           /\ \A i \in 1..Len(index["dir"]) :
                index'["dir"][i] = IF i = k THEN [index["dir"][i] EXCEPT !.cut = TRUE]
                                   ELSE index["dir"][i]
<1> DEFINE f == index["dir"]
           n == work[s].hdr.file
           ent == work[s].ent
           k == Locate(f, ent, n)
           g == CutInPlace(f, ent, n)
<1>1. /\ index \in [View -> Seq(Header)] /\ "dir" \in View /\ f \in Seq(Header)
      /\ "digest" \in View
  BY IndexType DEF IInv
<1>2. ent \in Nat
  BY DEF IInv, TypeOK
<1>3. Positions(f, n) # {}
  BY DEF Cuts
<1>4. k \in Positions(f, n)
  BY <1>1, <1>3, LocateFinds
<1>5. index'["dir"] = g /\ index'["digest"] = index["digest"]
  BY <1>1 DEF Cuts
<1>6. g \in Seq(Header) /\ Len(g) = Len(f)
  BY <1>1, <1>2, CutExtends
<1>7. k \in 1..Len(f) /\ f[k].file = n
  BY <1>4 DEF Positions
<1>8. \A i \in 1..Len(f) : g[i] = IF i = k THEN [f[i] EXCEPT !.cut = TRUE] ELSE f[i]
  BY DEF CutInPlace, UpdateFile, CutHeader
<1>9. PICK j \in 1..Len(f) : f[j].file = n /\ f[j].owner = work[s].hdr.owner
  BY DEF Cuts, JInv, DeletesByRight
<1>10. j = k
  BY <1>7, <1>9 DEF IInv, ListedOnce
<1> HIDE DEF k, g
<1> QED
  BY <1>5, <1>6, <1>7, <1>8, <1>9, <1>10

(* What all these steps keep: numbers, names and authors.                    *)
Kept ==
  /\ index'["digest"] = index["digest"]
  /\ Len(index["dir"]) <= Len(index'["dir"])
  /\ \A i \in 1..Len(index["dir"]) :
       /\ i \in 1..Len(index'["dir"])
       /\ index'["dir"][i].file = index["dir"][i].file
       /\ index'["dir"][i].owner = index["dir"][i].owner

LEMMA AddsAtEnd ==
  ASSUME IInv, NEW s \in Session, Adds(s)
  PROVE  /\ index'["digest"] = index["digest"]
         /\ index'["dir"] \in Seq(Header)
         /\ Len(index'["dir"]) = Len(index["dir"]) + 1
         /\ index'["dir"][Len(index["dir"]) + 1].owner = Login[s]
         /\ ~index'["dir"][Len(index["dir"]) + 1].cut
         /\ \A i \in 1..Len(index["dir"]) : index'["dir"][i] = index["dir"][i]
<1>1. /\ index \in [View -> Seq(Header)] /\ "dir" \in View /\ index["dir"] \in Seq(Header)
      /\ "digest" \in View
  BY IndexType DEF IInv
<1>2. PICK h \in Header :
        /\ ~h.cut /\ h.owner = Login[s]
        /\ index' = [index EXCEPT !["dir"] = AppendRecord(index["dir"], h)]
  BY DEF Adds
<1>3. index'["dir"] = Append(index["dir"], h) /\ index'["digest"] = index["digest"]
  BY <1>1, <1>2 DEF AppendRecord
<1> DEFINE f == index["dir"]
<1>4. f \in Seq(Header) /\ h \in Header /\ ~h.cut /\ h.owner = Login[s]
  BY <1>1, <1>2
<1> HIDE DEF f
<1>5. /\ Append(f, h) \in Seq(Header) /\ Len(Append(f, h)) = Len(f) + 1
      /\ Append(f, h)[Len(f) + 1] = h
      /\ \A i \in 1..Len(f) : Append(f, h)[i] = f[i]
  BY <1>4, AppendProperties
<1> QED
  BY <1>3, <1>4, <1>5 DEF f

LEMMA StepKept ==
  ASSUME OnlyDeletes, IInv, JInv, [Next]_vars
  PROVE  Kept
<1>1. index["dir"] \in Seq(Header) /\ Len(index["dir"]) \in Nat
  BY IndexType, LenProperties DEF IInv
<1>2. CASE index' = index
  BY <1>1, <1>2 DEF Kept
<1>3. ASSUME NEW s \in Session, Adds(s)
      PROVE  Kept
  BY <1>1, <1>3, AddsAtEnd DEF Kept
<1>4. ASSUME NEW s \in Session, Cuts(s)
      PROVE  Kept
  <2>1. PICK k \in 1..Len(index["dir"]) :
           /\ index'["digest"] = index["digest"]
           /\ Len(index'["dir"]) = Len(index["dir"])
           /\ \A i \in 1..Len(index["dir"]) :
                index'["dir"][i] = IF i = k THEN [index["dir"][i] EXCEPT !.cut = TRUE]
                                   ELSE index["dir"][i]
    BY <1>4, CutHits
  <2>2. \A i \in 1..Len(index["dir"]) : index["dir"][i] \in Header
    BY <1>1, ElementOfSeq
  <2>3. \A i \in 1..Len(index["dir"]) :
          /\ index'["dir"][i].file = index["dir"][i].file
          /\ index'["dir"][i].owner = index["dir"][i].owner
    BY <2>1, <2>2 DEF Header
  <2> QED
    BY <1>1, <2>1, <2>3 DEF Kept
<1> QED
  BY <1>2, <1>3, <1>4, IndexSteps

(* What becomes of a page: nothing, the index, no page, or the mark of a     *)
(* digest article taken off the line that is deleted.                        *)
PageAfter(t) ==
  \/ page'[t] = page[t] \/ page'[t] = index'["dir"] \/ page'[t] = <<>>
  \/ \E i \in 1..Len(page[t]) :
       page'[t] = WithLine(t, i, [page[t][i] EXCEPT !.digest = FALSE])

LEMMA StepViews ==
  ASSUME OnlyDeletes, IInv, JInv, [Next]_vars
  PROVE  \A t \in Session : view'[t] = "dir" /\ PageAfter(t)
<1>1. /\ page \in [Session -> Seq(Header)] /\ view \in [Session -> View]
      /\ \A t \in Session : view[t] = "dir"
  BY DEF IInv, TypeOK, JInv, NoDigest
<1>2. CASE Tick \/ UNCHANGED vars
  BY <1>1, <1>2 DEF Tick, vars, PageAfter
<1>3. ASSUME NEW s \in Session, Step(s)
      PROVE  \A t \in Session : view'[t] = "dir" /\ PageAfter(t)
  <2>0. Uses[s] \cap {"mark", "title", "digest", "range"} = {}
    BY DEF OnlyDeletes, KeepsNumbers
  <2>1. CASE OpenBoard(s) \/ LeaveBoard(s) \/ Hangup(s)
    BY <1>1, <2>1 DEF OpenBoard, LeaveBoard, Hangup, PageAfter
  <2>2. CASE SwitchView(s)
    BY <1>1, <2>2 DEF SwitchView, JInv, NoDigest
  <2>3. CASE \E n \in FileName : OpenDraft(s, n)
    BY <1>1, <2>3 DEF OpenDraft, PageAfter
  <2>4. CASE AbandonDraft(s)
    BY <1>1, <2>4 DEF AbandonDraft, RedrawIfReading, Redraw, PageAfter
  <2>5. CASE PublishDraft(s)
    BY <1>1, <2>5 DEF PublishDraft, RedrawIfReading, Redraw, PageAfter
  <2>6. CASE \E n \in FileName : CrossPost(s, n)
    BY <1>1, <2>6 DEF CrossPost, RedrawIfReading, Redraw, PageAfter
  <2>7. ASSUME NEW i \in 1..Len(page[s]), StartDelete(s, i)
        PROVE  \A t \in Session : view'[t] = "dir" /\ PageAfter(t)
    <3> DEFINE p == WithLine(s, i, [page[s][i] EXCEPT !.digest = FALSE])
    <3>1. view' = view /\ page' = [page EXCEPT ![s] = p]
      BY <2>7 DEF StartDelete
    <3>2. \A t \in Session : page'[t] = IF t = s THEN p ELSE page[t]
      <4> HIDE DEF p
      <4> QED
        BY <1>1, <3>1
    <3> QED
      BY <1>1, <3>1, <3>2 DEF PageAfter
  <2>8. CASE RemoveEntry(s)
    BY <1>1, <2>8 DEF RemoveEntry, PageAfter
  <2>9. CASE DeleteFails(s)
    BY <1>1, <2>9 DEF DeleteFails, Redraw, PageAfter
  <2>10. CASE CancelArticle(s)
    BY <1>1, <2>10 DEF CancelArticle, Reread, ViewAfter, PageAfter
  <2>11. CASE \E i \in 1..Len(page[s]) :
               \/ MarkPost(s, i) \/ EditTitle(s, i) \/ UndigestPost(s, i)
               \/ RedigestPost(s, i) \/ DigestPost(s, i)
    BY <2>0, <2>11 DEF MarkPost, EditTitle, UndigestPost, RedigestPost, DigestPost, Chooses
  <2>12. CASE \/ \E id1, id2 \in 1..(Len(page[s]) + 2) : RangeCopy(s, id1, id2)
              \/ RangeRefused(s)
    BY <2>0, <2>12 DEF RangeCopy, RangeRefused, Chooses
  <2>13. CASE RangeMoveAway(s) \/ RangeMoveIn(s)
    BY <2>13 DEF RangeMoveAway, RangeMoveIn, IInv, NoRangeRuns
  <2> QED
    BY <1>3, <2>1, <2>2, <2>3, <2>4, <2>5, <2>6, <2>7, <2>8, <2>9, <2>10, <2>11,
       <2>12, <2>13 DEF Step
<1> QED
  BY <1>2, <1>3 DEF Next

(* The lines of a page keep the authors of their articles.                   *)
LEMMA StepAuthors ==
  ASSUME OnlyDeletes, IInv, JInv, [Next]_vars
  PROVE  PagesHaveAuthors'
<1>1. Kept
  BY StepKept
<1> SUFFICES ASSUME NEW t \in Session, NEW j \in 1..Len(page'[t])
             PROVE  page'[t][j].owner = index'["dir"][j].owner
  BY DEF PagesHaveAuthors
<1>2. PageAfter(t) /\ view[t] = "dir"
  BY StepViews DEF JInv, NoDigest
<1>3. /\ page[t] \in Seq(Header) /\ Len(page[t]) <= Len(index["dir"])
      /\ Len(page[t]) \in Nat /\ Len(index["dir"]) \in Nat
  BY <1>2, IndexType, LenProperties DEF IInv, TypeOK, Aligned, Extended
<1>4. ASSUME NEW i \in 1..Len(page[t])
      PROVE  page[t][i].owner = index'["dir"][i].owner
  <2>1. i \in 1..Len(index["dir"])
    BY <1>3
  <2> QED
    BY <1>1, <2>1 DEF Kept, JInv, PagesHaveAuthors
<1>5. CASE page'[t] = page[t]
  BY <1>4, <1>5
<1>6. CASE page'[t] = index'["dir"]
  BY <1>6
<1>7. CASE page'[t] = <<>>
  BY <1>7
<1>8. ASSUME NEW i \in 1..Len(page[t]),
             page'[t] = WithLine(t, i, [page[t][i] EXCEPT !.digest = FALSE])
      PROVE  page'[t][j].owner = index'["dir"][j].owner
  <2> DEFINE h == [page[t][i] EXCEPT !.digest = FALSE]
  <2>0. page[t][i] \in Header
    BY LineType DEF IInv
  <2>1. h \in Header /\ h.owner = page[t][i].owner
    BY <2>0 DEF Header
  <2> HIDE DEF h
  <2>2. page'[t] = [page[t] EXCEPT ![i] = h]
    BY <1>8 DEF WithLine, h
  <2>3. /\ Len(page'[t]) = Len(page[t])
        /\ \A m \in 1..Len(page[t]) : page'[t][m] = IF m = i THEN h ELSE page[t][m]
    BY <1>3, <2>1, <2>2, ExceptSeq
  <2>4. j \in 1..Len(page[t])
    BY <2>3
  <2>5. page'[t][j].owner = page[t][j].owner
    BY <2>1, <2>3, <2>4
  <2> QED
    BY <1>4, <2>4, <2>5
<1> QED
  BY <1>2, <1>5, <1>6, <1>7, <1>8 DEF PageAfter

(* What a session in the middle of a command has in hand after a step: what  *)
(* it had, a draft of its own, or a line of its page that it may delete.     *)
HandAfter(t) ==
  \/ pc'[t] \notin {"edit", "delete"}
  \/ pc'[t] = pc[t] /\ work'[t] = work[t]
  \/ pc'[t] = "edit" /\ work'[t].hdr.owner = Login[t] /\ ~work'[t].hdr.cut
  \/ /\ pc'[t] = "delete"
     /\ IsBM(t) \/ work'[t].hdr.owner = Login[t]
     /\ \E i \in 1..Len(page[t]) :
          page[t][i].file = work'[t].hdr.file /\ page[t][i].owner = work'[t].hdr.owner

LEMMA StepHands ==
  ASSUME OnlyDeletes, IInv, JInv, [Next]_vars
  PROVE  \A t \in Session : HandAfter(t)
<1>1. pc \in [Session -> {"idle", "edit", "delete", "cancel", "swap", "rename"}]
  BY DEF IInv, TypeOK
<1>0. work \in [Session -> [ent : Nat, hdr : Header, named : BOOLEAN]]
  BY DEF IInv, TypeOK
<1>2. CASE Tick \/ UNCHANGED vars
  BY <1>2 DEF Tick, vars, HandAfter
<1>3. ASSUME NEW s \in Session, Step(s)
      PROVE  \A t \in Session : HandAfter(t)
  <2>0. Uses[s] \cap {"mark", "title", "digest", "range"} = {}
    BY DEF OnlyDeletes, KeepsNumbers
  <2>a. ASSUME NEW l, l \notin {"edit", "delete"}, pc' = [pc EXCEPT ![s] = l],
               \A t \in Session \ {s} : work'[t] = work[t]
        PROVE  \A t \in Session : HandAfter(t)
    BY <1>1, <2>a DEF HandAfter
  <2>1. CASE OpenBoard(s) \/ LeaveBoard(s) \/ SwitchView(s)
    BY <2>1 DEF OpenBoard, LeaveBoard, SwitchView, HandAfter
  <2>2. CASE Hangup(s) \/ AbandonDraft(s) \/ PublishDraft(s) \/ RemoveEntry(s)
             \/ DeleteFails(s) \/ CancelArticle(s)
    <3>1. \A t \in Session \ {s} : work'[t] = work[t]
      BY <1>0, <2>2 DEF Hangup, AbandonDraft, PublishDraft, RemoveEntry, DeleteFails,
         CancelArticle
    <3>2. \E l \in {"idle", "cancel"} : pc' = [pc EXCEPT ![s] = l]
      BY <2>2 DEF Hangup, AbandonDraft, PublishDraft, RemoveEntry, DeleteFails,
         CancelArticle, Goto
    <3> QED
      BY <2>a, <3>1, <3>2
  <2>3. ASSUME NEW n \in FileName, OpenDraft(s, n)
        PROVE  \A t \in Session : HandAfter(t)
    <3> DEFINE w == [NoWork EXCEPT !.hdr = NewHeader(s, n)]
    <3>1. w.hdr.owner = Login[s] /\ ~w.hdr.cut
      BY DEF NoWork, NewHeader
    <3>2. work' = [work EXCEPT ![s] = w] /\ pc' = [pc EXCEPT ![s] = "edit"]
      BY <2>3 DEF OpenDraft, Goto
    <3> HIDE DEF w
    <3> QED
      BY <1>0, <1>1, <3>1, <3>2 DEF HandAfter
  <2>4. CASE \E n \in FileName : CrossPost(s, n)
    BY <2>4 DEF CrossPost, HandAfter
  <2>5. ASSUME NEW i \in 1..Len(page[s]), StartDelete(s, i)
        PROVE  \A t \in Session : HandAfter(t)
    <3> DEFINE h == page[s][i]
               plain == [h EXCEPT !.digest = FALSE]
               named == h.digest => InDigest(h.file)
               w == [ent |-> i, hdr |-> plain, named |-> named]
    <3>1. h \in Header
      BY LineType DEF IInv
    <3>2. plain.file = h.file /\ plain.owner = h.owner
      BY <3>1 DEF Header
    <3>3. IsBM(s) \/ h.owner = Login[s]
      BY <2>5 DEF StartDelete, Owns
    <3>4. work' = [work EXCEPT ![s] = w] /\ pc' = [pc EXCEPT ![s] = "delete"]
      BY <2>5 DEF StartDelete, Goto
    <3>5. w.hdr = plain
      OBVIOUS
    <3> HIDE DEF w, plain
    <3>6. \A t \in Session : /\ work'[t] = IF t = s THEN w ELSE work[t]
                            /\ pc'[t] = IF t = s THEN "delete" ELSE pc[t]
      BY <1>0, <1>1, <3>4
    <3> QED
      BY <3>2, <3>3, <3>5, <3>6 DEF HandAfter
  <2>6. CASE \E i \in 1..Len(page[s]) :
               \/ MarkPost(s, i) \/ EditTitle(s, i) \/ UndigestPost(s, i)
               \/ RedigestPost(s, i) \/ DigestPost(s, i)
    BY <2>0, <2>6 DEF MarkPost, EditTitle, UndigestPost, RedigestPost, DigestPost, Chooses
  <2>7. CASE \/ \E id1, id2 \in 1..(Len(page[s]) + 2) : RangeCopy(s, id1, id2)
             \/ RangeRefused(s)
    BY <2>0, <2>7 DEF RangeCopy, RangeRefused, Chooses
  <2>8. CASE RangeMoveAway(s) \/ RangeMoveIn(s)
    BY <2>8 DEF RangeMoveAway, RangeMoveIn, IInv, NoRangeRuns
  <2> QED
    BY <1>3, <2>1, <2>2, <2>3, <2>4, <2>5, <2>6, <2>7, <2>8 DEF Step
<1> QED
  BY <1>2, <1>3 DEF Next

LEMMA StepRights ==
  ASSUME OnlyDeletes, IInv, JInv, [Next]_vars
  PROVE  JInv'
<1>1. Kept /\ \A t \in Session : HandAfter(t)
  BY StepKept, StepHands
<1>2. NoDigest'
  BY <1>1, StepViews DEF Kept, JInv, NoDigest
<1>3. PagesHaveAuthors'
  BY StepAuthors
<1>4. DraftsOwn'
  BY <1>1 DEF DraftsOwn, HandAfter, JInv
<1>5. ASSUME NEW t \in Session, pc'[t] = "delete"
      PROVE  /\ IsBM(t) \/ work'[t].hdr.owner = Login[t]
             /\ \E j \in 1..Len(index'["dir"]) :
                  /\ index'["dir"][j].file = work'[t].hdr.file
                  /\ index'["dir"][j].owner = work'[t].hdr.owner
  <2>1. CASE pc'[t] = pc[t] /\ work'[t] = work[t]
    BY <1>1, <1>5, <2>1 DEF JInv, DeletesByRight, Kept
  <2>2. ASSUME IsBM(t) \/ work'[t].hdr.owner = Login[t],
               NEW i \in 1..Len(page[t]), page[t][i].file = work'[t].hdr.file,
               page[t][i].owner = work'[t].hdr.owner
        PROVE  \E j \in 1..Len(index'["dir"]) :
                 /\ index'["dir"][j].file = work'[t].hdr.file
                 /\ index'["dir"][j].owner = work'[t].hdr.owner
    <3>1. /\ Len(page[t]) <= Len(index["dir"]) /\ page[t][i].file = index["dir"][i].file
          /\ page[t][i].owner = index["dir"][i].owner
      BY DEF JInv, NoDigest, IInv, Aligned, Extended, PagesHaveAuthors
    <3>2. Len(page[t]) \in Nat /\ Len(index["dir"]) \in Nat
      BY IndexType, LenProperties DEF IInv, TypeOK
    <3>3. i \in 1..Len(index["dir"])
      BY <3>1, <3>2
    <3> QED
      BY <1>1, <2>2, <3>1, <3>3 DEF Kept
  <2> QED
    BY <1>1, <1>5, <2>1, <2>2 DEF HandAfter
<1>6. DeletesByRight'
  BY <1>5 DEF DeletesByRight, IsBM
<1> QED
  BY <1>2, <1>3, <1>4, <1>6 DEF JInv

LEMMA InitJInv == Init => JInv
<1> SUFFICES ASSUME Init PROVE JInv
  OBVIOUS
<1>1. /\ index["digest"] = <<>>
      /\ \A s \in Session : page[s] = <<>> /\ pc[s] = "idle" /\ view[s] = "dir"
  BY DEF Init, View
<1> QED
  BY <1>1 DEF JInv, NoDigest, PagesHaveAuthors, DraftsOwn, DeletesByRight

LEMMA RightsInvariant == OnlyDeletes => (Spec => []JInv)
<1> SUFFICES ASSUME OnlyDeletes PROVE Spec => []JInv
  OBVIOUS
<1>1. Init => JInv
  BY InitJInv
<1>2. IInv /\ JInv /\ [Next]_vars => JInv'
  BY StepRights
<1>3. Spec => []IInv
  BY BoardInvariant DEF OnlyDeletes
<1> QED
  BY <1>1, <1>2, <1>3, PTL DEF Spec

-----------------------------------------------------------------------------
(* The board implements the abstract board                                   *)

(* A header becomes a cancelled one only in the deletion of that article by  *)
(* its author or a manager: cpyfilename never reaches another header.        *)
THEOREM BoardCutByRightHolder == OnlyDeletes => (Spec => CutByRightHolder)
<1> SUFFICES ASSUME OnlyDeletes PROVE Spec => CutByRightHolder
  OBVIOUS
<1> DEFINE ByRight == \A i \in 1..Len(index["dir"]) :
                        (~index["dir"][i].cut /\ index'["dir"][i].cut) =>
                          \E s \in Session :
                            /\ pc[s] = "delete" /\ work[s].hdr.file = index["dir"][i].file
                            /\ IsBM(s) \/ Login[s] = index["dir"][i].owner
<1>1. IInv /\ JInv /\ [Next]_vars => [ByRight]_vars
  <2> SUFFICES ASSUME IInv, JInv, [Next]_vars PROVE ByRight
    OBVIOUS
  <2>1. CASE index' = index
    BY <2>1
  <2>2. ASSUME NEW s \in Session, Adds(s)
        PROVE  ByRight
    BY <2>2, AddsAtEnd
  <2>3. ASSUME NEW s \in Session, Cuts(s)
        PROVE  ByRight
    <3>1. PICK k \in 1..Len(index["dir"]) :
             /\ index["dir"][k].file = work[s].hdr.file
             /\ index["dir"][k].owner = work[s].hdr.owner
             /\ \A i \in 1..Len(index["dir"]) :
                  index'["dir"][i] = IF i = k THEN [index["dir"][i] EXCEPT !.cut = TRUE]
                                     ELSE index["dir"][i]
      BY <2>3, CutHits
    <3>2. pc[s] = "delete" /\ (IsBM(s) \/ work[s].hdr.owner = Login[s])
      BY <2>3 DEF Cuts, JInv, DeletesByRight
    <3> QED
      BY <3>1, <3>2
  <2> QED
    BY <2>1, <2>2, <2>3, IndexSteps
<1>2. Spec => []IInv /\ []JInv
  BY BoardInvariant, RightsInvariant, PTL DEF OnlyDeletes
<1>3. Spec => [][Next]_vars
  BY PTL DEF Spec
<1>4. []IInv /\ []JInv /\ [][Next]_vars => [][ByRight]_vars
  BY <1>1, PTL
<1> QED
  BY <1>2, <1>3, <1>4, PTL DEF CutByRightHolder

(* A cancelled header stays cancelled: nobody writes an old copy of it back. *)
THEOREM BoardCutStays == OnlyDeletes => (Spec => CutStays)
<1> SUFFICES ASSUME OnlyDeletes PROVE Spec => CutStays
  OBVIOUS
<1> DEFINE Stays == \A i \in 1..Len(index["dir"]) :
                      index["dir"][i].cut => index'["dir"][i].cut
<1>1. IInv /\ JInv /\ [Next]_vars => [Stays]_vars
  <2> SUFFICES ASSUME IInv, JInv, [Next]_vars PROVE Stays
    OBVIOUS
  <2>1. CASE index' = index
    BY <2>1
  <2>2. ASSUME NEW s \in Session, Adds(s)
        PROVE  Stays
    BY <2>2, AddsAtEnd
  <2>3. ASSUME NEW s \in Session, Cuts(s)
        PROVE  Stays
    <3>1. PICK k \in 1..Len(index["dir"]) :
             \A i \in 1..Len(index["dir"]) :
                  index'["dir"][i] = IF i = k THEN [index["dir"][i] EXCEPT !.cut = TRUE]
                                     ELSE index["dir"][i]
      BY <2>3, CutHits
    <3>2. \A i \in 1..Len(index["dir"]) : index["dir"][i] \in Header
      BY IndexType, ElementOfSeq DEF IInv
    <3> QED
      BY <3>1, <3>2 DEF Header
  <2> QED
    BY <2>1, <2>2, <2>3, IndexSteps
<1>2. Spec => []IInv /\ []JInv
  BY BoardInvariant, RightsInvariant, PTL DEF OnlyDeletes
<1>3. Spec => [][Next]_vars
  BY PTL DEF Spec
<1>4. []IInv /\ []JInv /\ [][Next]_vars => [][Stays]_vars
  BY <1>1, PTL
<1> QED
  BY <1>2, <1>3, <1>4, PTL DEF CutStays

LEMMA OwnersSeq ==
  ASSUME NEW n \in Nat, NEW f, NEW S, \A i \in 1..n : f[i].owner \in S
  PROVE  /\ [i \in 1..n |-> f[i].owner] \in Seq(S)
         /\ Len([i \in 1..n |-> f[i].owner]) = n
<1> DEFINE a == [i \in 1..n |-> f[i].owner]
<1>1. a \in [1..n -> S]
  OBVIOUS
<1> HIDE DEF a
<1>2. a \in Seq(S)
  BY <1>1, SeqDef
<1>3. DOMAIN a = 1..n /\ DOMAIN a = 1..Len(a) /\ Len(a) \in Nat
  BY <1>1, <1>2, LenProperties
<1>4. Len(a) = n
  BY <1>3
<1> QED
  BY <1>2, <1>4 DEF a

(* What an appended record is to the abstract board: an article posted.      *)
LEMMA AddIsPost ==
  ASSUME IInv, NEW s \in Session, Adds(s)
  PROVE  Abstract!Next
<1> DEFINE f == index["dir"]
           g == index'["dir"]
           n == Len(f)
<1>1. f \in Seq(Header) /\ n \in Nat
  BY IndexType, LenProperties DEF IInv
<1>2. /\ Len(g) = n + 1 /\ g[n + 1].owner = Login[s] /\ ~g[n + 1].cut
      /\ \A i \in 1..n : g[i] = f[i]
  BY AddsAtEnd
<1>3. Authors = [i \in 1..n |-> f[i].owner] /\ Authors' = [i \in 1..(n + 1) |-> g[i].owner]
  BY <1>2 DEF Authors
<1>4. Withdrawn = {i \in 1..n : f[i].cut} /\ Withdrawn' = {i \in 1..(n + 1) : g[i].cut}
  BY <1>2 DEF Withdrawn
<1>a. \A i \in 1..n : f[i].owner \in User \cup {NoUser}
  <2>1. \A i \in 1..n : f[i] \in Header
    BY <1>1, ElementOfSeq
  <2> QED
    BY <2>1 DEF Header
<1> HIDE DEF f, g, n
<1>b. Login[s] \in User \cup {NoUser} /\ Login[s] \in User
  BY BoardAssumption
<1>5. Authors \in Seq(User \cup {NoUser}) /\ Len(Authors) = n
  BY <1>1, <1>3, <1>a, OwnersSeq
<1>c. Authors' \in Seq(User \cup {NoUser}) /\ Len(Authors') = n + 1
  <2>1. \A i \in 1..(n + 1) : g[i].owner \in User \cup {NoUser}
    BY <1>1, <1>2, <1>a, <1>b
  <2> QED
    BY <1>1, <1>3, <2>1, OwnersSeq
<1>6. Authors' = Append(Authors, Login[s])
  <2>1. /\ Append(Authors, Login[s]) \in Seq(User \cup {NoUser})
        /\ Len(Append(Authors, Login[s])) = n + 1
        /\ Append(Authors, Login[s])[n + 1] = Login[s]
        /\ \A i \in 1..n : Append(Authors, Login[s])[i] = Authors[i]
    BY <1>5, <1>b, AppendProperties
  <2>2. \A i \in 1..(n + 1) : Append(Authors, Login[s])[i] = Authors'[i]
    BY <1>1, <1>2, <1>3, <2>1
  <2> QED
    BY <1>c, <2>1, <2>2, SeqEqual
<1>7. Withdrawn' = Withdrawn
  BY <1>1, <1>2, <1>4
<1> QED
  BY <1>6, <1>7, <1>b DEF Abstract!Next, Abstract!Post

(* What a cancelled header is to it: an article withdrawn.                   *)
LEMMA CutIsWithdraw ==
  ASSUME IInv, JInv, NEW s \in Session, Cuts(s)
  PROVE  Abstract!Next
<1> DEFINE f == index["dir"]
           g == index'["dir"]
           n == Len(f)
<1>1. f \in Seq(Header) /\ n \in Nat /\ \A i \in 1..n : f[i] \in Header
  BY IndexType, LenProperties, ElementOfSeq DEF IInv
<1>2. PICK k \in 1..n :
        /\ f[k].owner = work[s].hdr.owner
        /\ Len(g) = n
        /\ \A i \in 1..n : g[i] = IF i = k THEN [f[i] EXCEPT !.cut = TRUE] ELSE f[i]
  BY CutHits
<1>3. Authors = [i \in 1..n |-> f[i].owner] /\ Authors' = [i \in 1..n |-> g[i].owner]
  BY <1>2 DEF Authors
<1>4. Withdrawn = {i \in 1..n : f[i].cut} /\ Withdrawn' = {i \in 1..n : g[i].cut}
  BY <1>2 DEF Withdrawn
<1>5. IsBM(s) \/ f[k].owner = Login[s]
  BY <1>2 DEF Cuts, JInv, DeletesByRight
<1> HIDE DEF f, g, n
<1>6. \A i \in 1..n : g[i].owner = f[i].owner /\ (g[i].cut <=> f[i].cut \/ i = k)
  BY <1>1, <1>2 DEF Header
<1>7. Authors' = Authors /\ Withdrawn' = Withdrawn \cup {k}
  BY <1>3, <1>4, <1>6
<1>8. Authors[k] = f[k].owner /\ k \in 1..Len(Authors)
  <2>1. \A i \in 1..n : f[i].owner \in User \cup {NoUser}
    BY <1>1 DEF Header
  <2>2. Len(Authors) = n
    BY <1>1, <1>3, <2>1, OwnersSeq
  <2> QED
    BY <1>3, <2>2
<1>9. Login[s] \in User /\ (Login[s] = Authors[k] \/ Login[s] \in Manager)
  BY <1>5, <1>8, BoardAssumption DEF IsBM
<1>10. Abstract!Withdraw(Login[s], k)
  BY <1>7, <1>9 DEF Abstract!Withdraw
<1> QED
  BY <1>8, <1>9, <1>10 DEF Abstract!Next

(* Seen from outside, where only deletions rewrite headers, the board is a   *)
(* list of articles that grows at its end, each withdrawn at most once and   *)
(* by one who may: whatever stale page or number a command was given.        *)
THEOREM BoardImplementsAbstract == OnlyDeletes => (Spec => ImplementsAbstractBoard)
<1> SUFFICES ASSUME OnlyDeletes PROVE Spec => ImplementsAbstractBoard
  OBVIOUS
<1>1. Init => Abstract!Init
  <2> SUFFICES ASSUME Init PROVE Authors = <<>> /\ Withdrawn = {}
    BY DEF Abstract!Init
  <2>1. Len(index["dir"]) = 0
    BY DEF Init, View
  <2>2. Authors = [i \in 1..0 |-> index["dir"][i].owner] /\ Withdrawn = {}
    BY <2>1 DEF Authors, Withdrawn
  <2> QED
    BY <2>2
<1>2. IInv /\ JInv /\ [Next]_vars => [Abstract!Next]_<<Authors, Withdrawn>>
  <2> SUFFICES ASSUME IInv, JInv, [Next]_vars
               PROVE  [Abstract!Next]_<<Authors, Withdrawn>>
    OBVIOUS
  <2>1. CASE index' = index
    BY <2>1 DEF Authors, Withdrawn
  <2> QED
    BY <2>1, IndexSteps, AddIsPost, CutIsWithdraw
<1>3. Spec => []IInv /\ []JInv
  BY BoardInvariant, RightsInvariant, PTL DEF OnlyDeletes
<1> QED
  BY <1>1, <1>2, <1>3, PTL DEF Spec, ImplementsAbstractBoard, Abstract!Spec

-----------------------------------------------------------------------------
(* Every board: with or without KEEP_DELETED_HEADER, ranges, and whatever    *)
(* commands the sessions give                                               *)

(* What is written at a line of the page leaves indices of headers.         *)
LEMMA WriteBackType ==
  ASSUME TypeOK, NEW s \in Session, NEW i \in 1..Len(page[s]), NEW h \in Header,
         NEW idx \in [View -> Seq(Header)]
  PROVE  /\ WriteBack(s, i, h, idx) \in [View -> Seq(Header)]
         /\ WithLine(s, i, h) \in Seq(Header)
<1>1. page[s] \in Seq(Header) /\ view[s] \in View /\ i \in Nat \ {0}
  BY LenProperties DEF TypeOK
<1>2. SubstituteRecord(idx[view[s]], h, i, ZeroHeader) \in Seq(Header)
  BY <1>1, ZeroHeaderType, SubstituteRecordProperties
<1>3. WriteBack(s, i, h, idx) =
        [idx EXCEPT ![view[s]] = SubstituteRecord(idx[view[s]], h, i, ZeroHeader)]
  BY DEF WriteBack
<1>4. WithLine(s, i, h) \in Seq(Header)
  BY <1>1, ExceptSeq DEF WithLine
<1> QED
  BY <1>1, <1>2, <1>3, <1>4

(* A page is read from an index, or keeps its lines.                        *)
LEMMA RedrawType ==
  ASSUME TypeOK, NEW s \in Session, NEW p \in Seq(Header),
         NEW idx \in [View -> Seq(Header)], Redraw(s, p, idx)
  PROVE  page' \in [Session -> Seq(Header)]
<1>1. page' = [page EXCEPT ![s] = IF Len(idx[view[s]]) = Len(p) THEN p ELSE idx[view[s]]]
  BY DEF Redraw
<1>2. view[s] \in View /\ page \in [Session -> Seq(Header)]
  BY DEF TypeOK
<1> QED
  BY <1>1, <1>2

LEMMA RereadType ==
  ASSUME TypeOK, NEW s \in Session, NEW idx \in [View -> Seq(Header)], Reread(s, idx)
  PROVE  page' \in [Session -> Seq(Header)] /\ view' \in [Session -> View]
<1> DEFINE v == ViewAfter(s, idx)
<1>1. v \in View
  BY DEF ViewAfter, TypeOK, View
<1>2. view' = [view EXCEPT ![s] = v] /\ page' = [page EXCEPT ![s] = idx[v]]
  BY DEF Reread
<1> HIDE DEF v
<1> QED
  BY <1>1, <1>2 DEF TypeOK

(* A command leaves the session at a label, with its locals dropped.        *)
LEMMA HeaderCommandType ==
  ASSUME TypeOK, NEW s \in Session, NEW i \in 1..Len(page[s]), NEW h \in Header,
         NEW idx \in [View -> Seq(Header)], index' = WriteBack(s, i, h, idx),
         NEW p \in Seq(Header), Redraw(s, p, index'),
         files' \in [View -> SUBSET FileName],
         UNCHANGED <<clock, blank, trash, numposts, view, pc, work, dellock,
                     tmpfile, published>>
  PROVE  TypeOK'
<1>1. index' \in [View -> Seq(Header)]
  BY WriteBackType
<1>2. page' \in [Session -> Seq(Header)]
  BY <1>1, RedrawType
<1> QED
  BY <1>1, <1>2 DEF TypeOK

LEMMA ReadingTypes ==
  ASSUME TypeOK, NEW s \in Session,
         OpenBoard(s) \/ LeaveBoard(s) \/ SwitchView(s) \/ Hangup(s)
  PROVE  TypeOK'
<1>1. CASE OpenBoard(s)
  BY <1>1 DEF OpenBoard, TypeOK
<1>2. CASE LeaveBoard(s)
  BY <1>2, EmptyPage DEF LeaveBoard, TypeOK
<1>3. CASE SwitchView(s)
  <2> DEFINE v == IF view[s] = "dir" THEN "digest" ELSE "dir"
  <2>1. v \in View
    BY DEF View
  <2>2. /\ view' = [view EXCEPT ![s] = v] /\ page' = [page EXCEPT ![s] = index[v]]
        /\ UNCHANGED <<clock, index, files, blank, trash, numposts, pc, work,
                       dellock, tmpfile, published>>
    BY <1>3 DEF SwitchView
  <2> HIDE DEF v
  <2> QED
    BY <2>1, <2>2 DEF TypeOK
<1>4. CASE Hangup(s)
  <2>1. "dir" \in View
    BY DEF View
  <2> QED
    BY <1>4, <2>1, EmptyPage, NoWorkType DEF Hangup, Goto, TypeOK
<1> QED
  BY <1>1, <1>2, <1>3, <1>4

LEMMA RedrawIfReadingType ==
  ASSUME TypeOK, NEW s \in Session, NEW idx \in [View -> Seq(Header)],
         RedrawIfReading(s, idx)
  PROVE  page' \in [Session -> Seq(Header)]
<1>1. page[s] \in Seq(Header) /\ page \in [Session -> Seq(Header)]
  BY DEF TypeOK
<1> QED
  BY <1>1, RedrawType DEF RedrawIfReading

LEMMA PostingTypes ==
  ASSUME TypeOK, NEW s \in Session, NEW n \in FileName,
         OpenDraft(s, n) \/ CrossPost(s, n) \/ AbandonDraft(s) \/ PublishDraft(s)
  PROVE  TypeOK'
<1>1. /\ NewHeader(s, n) \in Header /\ NewHeader(s, n).file = n
      /\ work[s].hdr \in Header /\ work[s].hdr.file \in FileName
  BY NewHeaderType DEF TypeOK, Header
<1>2. CASE OpenDraft(s, n)
  <2> DEFINE w == [NoWork EXCEPT !.hdr = NewHeader(s, n)]
  <2>1. w \in [ent : Nat, hdr : Header, named : BOOLEAN]
    BY <1>1 DEF NoWork
  <2>2. /\ files' = [files EXCEPT !["dir"] = files["dir"] \cup {n}]
        /\ work' = [work EXCEPT ![s] = w] /\ pc' = [pc EXCEPT ![s] = "edit"]
        /\ UNCHANGED <<clock, index, blank, trash, numposts, view, page, dellock,
                       tmpfile, published>>
    BY <1>2 DEF OpenDraft, Goto
  <2> HIDE DEF w
  <2>3. files' \in [View -> SUBSET FileName]
    BY <2>2, IndexType
  <2> QED
    BY <2>1, <2>2, <2>3 DEF TypeOK
<1>3. CASE CrossPost(s, n)
  <2> DEFINE h == NewHeader(s, n)
  <2>1. /\ files' = [files EXCEPT !["dir"] = files["dir"] \cup {n}]
        /\ index' = [index EXCEPT !["dir"] = AppendRecord(index["dir"], h)]
        /\ published' = published \cup {n}
        /\ RedrawIfReading(s, index')
        /\ UNCHANGED <<clock, blank, trash, numposts, view, pc, work, dellock, tmpfile>>
    BY <1>3 DEF CrossPost
  <2> HIDE DEF h
  <2>2. index' \in [View -> Seq(Header)] /\ files' \in [View -> SUBSET FileName]
    <3>1. h \in Header
      BY <1>1 DEF h
    <3> QED
      BY <2>1, <3>1, IndexType, AppendExtends
  <2>3. page' \in [Session -> Seq(Header)]
    BY <2>1, <2>2, RedrawIfReadingType
  <2> QED
    BY <2>1, <2>2, <2>3 DEF TypeOK
<1>4. CASE AbandonDraft(s)
  <2>1. /\ files' = [files EXCEPT !["dir"] = files["dir"] \ {work[s].hdr.file}]
        /\ work' = [work EXCEPT ![s] = NoWork] /\ pc' = [pc EXCEPT ![s] = "idle"]
        /\ RedrawIfReading(s, index)
        /\ UNCHANGED <<clock, index, blank, trash, numposts, view, dellock, tmpfile,
                       published>>
    BY <1>4 DEF AbandonDraft, Goto
  <2>2. files' \in [View -> SUBSET FileName] /\ page' \in [Session -> Seq(Header)]
    BY <2>1, IndexType, RedrawIfReadingType
  <2> QED
    BY <2>1, <2>2, NoWorkType DEF TypeOK
<1>5. CASE PublishDraft(s)
  <2> DEFINE h == work[s].hdr
  <2>1. /\ index' = [index EXCEPT !["dir"] = AppendRecord(index["dir"], h)]
        /\ published' = published \cup {h.file}
        /\ numposts' = [numposts EXCEPT ![Login[s]] = numposts[Login[s]] + 1]
        /\ work' = [work EXCEPT ![s] = NoWork] /\ pc' = [pc EXCEPT ![s] = "idle"]
        /\ RedrawIfReading(s, index')
        /\ UNCHANGED <<clock, files, blank, trash, view, dellock, tmpfile>>
    BY <1>5 DEF PublishDraft, Goto
  <2>2. h \in Header /\ h.file \in FileName
    BY <1>1
  <2> HIDE DEF h
  <2>3. index' \in [View -> Seq(Header)]
    BY <2>1, <2>2, IndexType, AppendExtends
  <2>4. page' \in [Session -> Seq(Header)]
    BY <2>1, <2>3, RedrawIfReadingType
  <2>5. numposts' \in [User -> Nat]
    <3>1. Login[s] \in User /\ numposts \in [User -> Nat]
      BY BoardAssumption DEF TypeOK
    <3>2. numposts[Login[s]] + 1 \in Nat
      BY <3>1
    <3> QED
      BY <2>1, <3>1, <3>2
  <2> QED
    BY <2>1, <2>2, <2>3, <2>4, <2>5, NoWorkType DEF TypeOK
<1> QED
  BY <1>2, <1>3, <1>4, <1>5

LEMMA LineCommandTypes ==
  ASSUME TypeOK, NEW s \in Session, NEW i \in 1..Len(page[s]),
         \/ MarkPost(s, i) \/ EditTitle(s, i) \/ UndigestPost(s, i)
         \/ RedigestPost(s, i) \/ DigestPost(s, i)
  PROVE  TypeOK'
<1>1. page[s] \in Seq(Header) /\ page[s][i] \in Header
  BY LineType
<1>2. /\ index \in [View -> Seq(Header)] /\ files \in [View -> SUBSET FileName]
      /\ "digest" \in View
  BY IndexType
<1>3. CASE MarkPost(s, i)
  <2> DEFINE h == [page[s][i] EXCEPT !.marked = ~@]
  <2>1. h \in Header
    BY <1>1 DEF Header
  <2>2. /\ index' = WriteBack(s, i, h, index) /\ Redraw(s, WithLine(s, i, h), index')
        /\ UNCHANGED <<clock, files, blank, trash, numposts, view, pc, work, dellock,
                       tmpfile, published>>
    BY <1>3 DEF MarkPost
  <2> HIDE DEF h
  <2> QED
    BY <1>2, <2>1, <2>2, WriteBackType, HeaderCommandType
<1>4. CASE EditTitle(s, i)
  <2>1. /\ index' = WriteBack(s, i, page[s][i], index) /\ Redraw(s, page[s], index')
        /\ UNCHANGED <<clock, files, blank, trash, numposts, view, pc, work, dellock,
                       tmpfile, published>>
    BY <1>4 DEF EditTitle
  <2> QED
    BY <1>1, <1>2, <2>1, HeaderCommandType
<1>5. CASE UndigestPost(s, i)
  <2> DEFINE h == [page[s][i] EXCEPT !.digest = FALSE]
             idx == [index EXCEPT !["digest"] = DigestIndexWithout(h.file)]
  <2>1. h \in Header /\ idx \in [View -> Seq(Header)]
    BY <1>1, <1>2, DigestIndexType DEF Header
  <2>2. /\ index' = WriteBack(s, i, h, idx) /\ Redraw(s, WithLine(s, i, h), index')
        /\ files' = [files EXCEPT !["digest"] = DigestFilesWithout(h.file)]
        /\ UNCHANGED <<clock, blank, trash, numposts, view, pc, work, dellock,
                       tmpfile, published>>
    BY <1>5 DEF UndigestPost
  <2>3. DigestFilesWithout(h.file) \subseteq FileName
    BY IndexType DEF DigestFilesWithout
  <2> HIDE DEF h, idx
  <2>4. files' \in [View -> SUBSET FileName]
    BY <1>2, <2>2, <2>3
  <2> QED
    BY <2>1, <2>2, <2>4, WriteBackType, HeaderCommandType
<1>6. CASE RedigestPost(s, i)
  <2> DEFINE h == [page[s][i] EXCEPT !.digest = TRUE]
  <2>1. h \in Header
    BY <1>1 DEF Header
  <2>2. /\ index' = WriteBack(s, i, h, index) /\ Redraw(s, WithLine(s, i, h), index')
        /\ UNCHANGED <<clock, files, blank, trash, numposts, view, pc, work, dellock,
                       tmpfile, published>>
    BY <1>6 DEF RedigestPost
  <2> HIDE DEF h
  <2> QED
    BY <1>2, <2>1, <2>2, WriteBackType, HeaderCommandType
<1>7. CASE DigestPost(s, i)
  <2> DEFINE h == [page[s][i] EXCEPT !.digest = TRUE]
             e == [page[s][i] EXCEPT !.marked = FALSE]
             idx == [index EXCEPT !["digest"] = AppendRecord(index["digest"], e)]
  <2>1. h \in Header /\ e \in Header
    BY <1>1 DEF Header
  <2>2. files' \in [View -> SUBSET FileName]
    <3>1. files' = [files EXCEPT !["digest"] =
                      files["digest"] \cup ({page[s][i].file} \cap files["dir"])]
      BY <1>7 DEF DigestPost
    <3> QED
      BY <3>1, IndexType
  <2>3. UNCHANGED <<clock, blank, trash, numposts, view, pc, work, dellock, tmpfile,
                    published>>
    BY <1>7 DEF DigestPost
  <2>4. CASE UNCHANGED index /\ Redraw(s, page[s], index)
    BY <1>1, <1>2, <2>2, <2>3, <2>4, RedrawType DEF TypeOK
  <2>5. CASE index' = WriteBack(s, i, h, idx) /\ Redraw(s, WithLine(s, i, h), index')
    <3>1. idx \in [View -> Seq(Header)]
      <4>1. AppendRecord(index["digest"], e) \in Seq(Header)
        BY <2>1, IndexType, AppendExtends
      <4> HIDE DEF e
      <4> QED
        BY <1>2, <4>1
    <3> HIDE DEF h, e, idx
    <3> QED
      BY <2>1, <2>2, <2>3, <2>5, <3>1, WriteBackType, HeaderCommandType
  <2> QED
    BY <1>7, <2>4, <2>5 DEF DigestPost
<1> QED
  BY <1>3, <1>4, <1>5, <1>6, <1>7

LEMMA EntryRemovedType ==
  ASSUME NEW f \in Seq(Header), NEW ent \in Nat, NEW n
  PROVE  EntryRemoved(f, ent, n) \in Seq(Header)
BY CutExtends, DeleteFileTakesOne DEF EntryRemoved

LEMMA DeletingTypes ==
  ASSUME TypeOK, NEW s \in Session,
         \/ \E i \in 1..Len(page[s]) : StartDelete(s, i)
         \/ RemoveEntry(s) \/ DeleteFails(s) \/ CancelArticle(s)
  PROVE  TypeOK'
<1>1. /\ index \in [View -> Seq(Header)] /\ files \in [View -> SUBSET FileName]
      /\ "digest" \in View /\ view[s] \in View
  BY IndexType DEF TypeOK
<1>2. ASSUME NEW i \in 1..Len(page[s]), StartDelete(s, i)
      PROVE  TypeOK'
  <2> DEFINE n == page[s][i].file
             plain == [page[s][i] EXCEPT !.digest = FALSE]
             named == page[s][i].digest => InDigest(n)
             w == [ent |-> i, hdr |-> plain, named |-> named]
  <2>1. page[s] \in Seq(Header) /\ page[s][i] \in Header /\ i \in Nat
    BY LineType
  <2>2. plain \in Header /\ n \in FileName
    BY <2>1 DEF Header
  <2>3. w \in [ent : Nat, hdr : Header, named : BOOLEAN]
    BY <2>1, <2>2
  <2>4. WithLine(s, i, plain) \in Seq(Header)
    BY <1>1, <2>2, WriteBackType
  <2>5. DigestIndexWithout(n) \in Seq(Header) /\ DigestFilesWithout(n) \subseteq FileName
    BY DigestIndexType, IndexType DEF DigestFilesWithout
  <2>6. /\ work' = [work EXCEPT ![s] = w] /\ page' = [page EXCEPT ![s] = WithLine(s, i, plain)]
        /\ pc' = [pc EXCEPT ![s] = "delete"]
        /\ UNCHANGED <<clock, blank, trash, numposts, view, dellock, tmpfile, published>>
    BY <1>2 DEF StartDelete, Goto
  <2>7. \/ UNCHANGED <<index, files>>
        \/ /\ index' = [index EXCEPT !["digest"] = DigestIndexWithout(n)]
           /\ files' = [files EXCEPT !["digest"] = DigestFilesWithout(n)]
    BY <1>2 DEF StartDelete
  <2> HIDE DEF n, plain, named, w
  <2>8. index' \in [View -> Seq(Header)] /\ files' \in [View -> SUBSET FileName]
    BY <1>1, <2>5, <2>7
  <2> QED
    BY <2>3, <2>4, <2>6, <2>8 DEF TypeOK
<1>3. CASE RemoveEntry(s)
  <2> DEFINE g == EntryRemoved(index[view[s]], work[s].ent, work[s].hdr.file)
  <2>1. g \in Seq(Header)
    BY <1>1, EntryRemovedType DEF TypeOK
  <2>2. /\ index' = [index EXCEPT ![view[s]] = g] /\ pc' = [pc EXCEPT ![s] = "cancel"]
        /\ UNCHANGED <<clock, files, blank, trash, numposts, view, page, work, dellock,
                       tmpfile, published>>
    BY <1>3 DEF RemoveEntry, Goto
  <2> HIDE DEF g
  <2> QED
    BY <2>1, <2>2 DEF TypeOK
<1>4. CASE DeleteFails(s)
  <2>1. page' \in [Session -> Seq(Header)]
    BY <1>1, <1>4, RedrawType DEF DeleteFails, TypeOK
  <2>2. /\ work' = [work EXCEPT ![s] = NoWork] /\ pc' = [pc EXCEPT ![s] = "idle"]
        /\ UNCHANGED <<clock, index, files, blank, trash, numposts, view, dellock,
                       tmpfile, published>>
    BY <1>4 DEF DeleteFails, Goto
  <2> QED
    BY <2>1, <2>2, NoWorkType DEF TypeOK
<1>5. CASE CancelArticle(s)
  <2> DEFINE n == work[s].hdr.file
             u == IF Owns(s, work[s].hdr) THEN Login[s] ELSE work[s].hdr.owner
  <2>1. n \in FileName /\ numposts \in [User -> Nat]
    BY DEF TypeOK, Header
  <2>2. /\ trash' = trash \cup ({n} \cap files[view[s]])
        /\ files' = [files EXCEPT ![view[s]] = FilesAfterCancel(view[s], n)]
        /\ blank' = IF KeepHeader THEN blank \cup {n} ELSE blank
        /\ numposts' = [numposts EXCEPT ![u] = OnePostLess(numposts[u])]
        /\ work' = [work EXCEPT ![s] = NoWork] /\ pc' = [pc EXCEPT ![s] = "idle"]
        /\ Reread(s, index)
        /\ UNCHANGED <<clock, index, dellock, tmpfile, published>>
    BY <1>5 DEF CancelArticle, Goto
  <2> HIDE DEF n, u
  <2>3. FilesAfterCancel(view[s], n) \subseteq FileName
    BY <1>1, <2>1 DEF FilesAfterCancel
  <2>4. files' \in [View -> SUBSET FileName]
    BY <1>1, <2>2, <2>3
  <2>5. page' \in [Session -> Seq(Header)] /\ view' \in [Session -> View]
    BY <1>1, <2>2, RereadType
  <2>6. numposts' \in [User -> Nat]
    <3>1. u \in User => OnePostLess(numposts[u]) \in Nat
      BY <2>1 DEF OnePostLess
    <3> QED
      BY <2>1, <2>2, <3>1
  <2>7. trash' \subseteq FileName /\ blank' \subseteq FileName
    BY <2>1, <2>2 DEF TypeOK
  <2> QED
    BY <2>2, <2>4, <2>5, <2>6, <2>7, NoWorkType DEF TypeOK
<1> QED
  BY <1>2, <1>3, <1>4, <1>5

LEMMA RangeTypes ==
  ASSUME TypeOK, NEW s \in Session,
         \/ \E id1, id2 \in 1..(Len(page[s]) + 2) : RangeCopy(s, id1, id2)
         \/ RangeRefused(s) \/ RangeMoveAway(s) \/ RangeMoveIn(s)
  PROVE  TypeOK'
<1>1. /\ index \in [View -> Seq(Header)] /\ files \in [View -> SUBSET FileName]
      /\ view[s] \in View
  BY IndexType DEF TypeOK
<1>2. ASSUME NEW id1, NEW id2, RangeCopy(s, id1, id2)
      PROVE  TypeOK'
  <2> DEFINE f == index[view[s]]
             copy == [exists |-> TRUE, recs |-> DeleteRange(f, id1, id2)]
             gone == {i \in 1..Len(f) : id1 <= i /\ i <= id2 /\ ~f[i].marked}
             left == files[view[s]] \ {f[i].file : i \in gone}
  <2>1. DeleteRange(f, id1, id2) \in Seq(Header)
    BY <1>1, DeleteRangeKeepsRest
  <2>2. copy \in [exists : BOOLEAN, recs : Seq(Header)] /\ left \subseteq FileName
    BY <1>1, <2>1
  <2>3. /\ dellock' = {s} /\ tmpfile' = copy /\ files' = [files EXCEPT ![view[s]] = left]
        /\ pc' = [pc EXCEPT ![s] = "swap"]
        /\ UNCHANGED <<clock, index, blank, trash, numposts, view, page, work, published>>
    BY <1>2 DEF RangeCopy, Goto
  <2> HIDE DEF copy, left
  <2>4. files' \in [View -> SUBSET FileName]
    BY <1>1, <2>2, <2>3
  <2> QED
    BY <2>2, <2>3, <2>4 DEF TypeOK
<1>3. CASE RangeRefused(s)
  BY <1>1, <1>3, RereadType DEF RangeRefused, TypeOK
<1>4. CASE RangeMoveAway(s)
  BY <1>4, EmptyPage DEF RangeMoveAway, Goto, TypeOK
<1>5. CASE RangeMoveIn(s)
  <2>1. index' \in [View -> Seq(Header)]
    BY <1>1, <1>5 DEF RangeMoveIn, TypeOK
  <2>2. page' \in [Session -> Seq(Header)] /\ view' \in [Session -> View]
    BY <1>5, <2>1, RereadType DEF RangeMoveIn
  <2>3. NoTmp \in [exists : BOOLEAN, recs : Seq(Header)]
    BY EmptyPage DEF NoTmp
  <2> QED
    BY <1>5, <2>1, <2>2, <2>3 DEF RangeMoveIn, Goto, TypeOK
<1> QED
  BY <1>2, <1>3, <1>4, <1>5

LEMMA TypeKept ==
  ASSUME TypeOK, [Next]_vars
  PROVE  TypeOK'
<1>1. CASE Tick
  BY <1>1, BoardAssumption DEF Tick, TypeOK
<1>2. CASE UNCHANGED vars
  BY <1>2 DEF vars, TypeOK
<1>3. ASSUME NEW s \in Session, Step(s)
      PROVE  TypeOK'
  <2>1. 0 \in FileName
    BY BoardAssumption DEF FileName
  <2> QED
    BY <1>3, <2>1, ReadingTypes, PostingTypes, LineCommandTypes, DeletingTypes, RangeTypes
       DEF Step
<1> QED
  BY <1>1, <1>2, <1>3 DEF Next

(* Every variable keeps its type: the indices are sequences of headers, the *)
(* locals of a command in progress are a record number and a header.        *)
THEOREM BoardTypeCorrect == Spec => []TypeOK
<1>1. Init => TypeOK
  BY InitIInv DEF IInv
<1>2. TypeOK /\ [Next]_vars => TypeOK'
  BY TypeKept
<1> QED
  BY <1>1, <1>2, PTL DEF Spec

-----------------------------------------------------------------------------
(* A range is deleted while others post                                     *)

(* One session, of a manager, marks, edits and deletes ranges.  The others   *)
(* may post, and delete articles where that leaves no header behind: a       *)
(* header cancelled in place is not the record that was copied.              *)
OneHand(m) ==
  \A t \in Session \ {m} :
    /\ Uses[t] \cap {"mark", "title", "digest", "range"} = {}
    /\ KeepHeader => "delete" \notin Uses[t]

(* A session is in a command that it may give, and drafts are not marked.   *)
InUse(s) ==
  /\ pc[s] \in {"swap", "rename"} => "range" \in Uses[s]
  /\ pc[s] = "delete" => "delete" \in Uses[s]
  /\ pc[s] = "edit" => ~work[s].hdr.marked

RInv == (\A s \in Session : InUse(s)) /\ MarkedCopied

(* Every marked record of g is one of f.                                    *)
MarkedFrom(f, g) ==
  \A i \in 1..Len(g) : g[i].marked => \E k \in 1..Len(f) : f[k] = g[i]

LEMMA MarkedFromItself == \A f \in Seq(Header) : MarkedFrom(f, f)
BY DEF MarkedFrom

LEMMA MarkedFromAppended ==
  ASSUME NEW f \in Seq(Header), NEW h \in Header, ~h.marked
  PROVE  MarkedFrom(f, AppendRecord(f, h))
<1> DEFINE g == AppendRecord(f, h)
<1>1. Len(f) \in Nat /\ Len(g) = Len(f) + 1 /\ \A i \in 1..Len(f) : g[i] = f[i]
  BY LenProperties, AppendProperties DEF AppendRecord
<1>2. g[Len(f) + 1] = h
  BY AppendExtends
<1> HIDE DEF g
<1>3. ASSUME NEW i \in 1..Len(g), g[i].marked
      PROVE  \E k \in 1..Len(f) : f[k] = g[i]
  <2>1. i # Len(f) + 1
    BY <1>2, <1>3
  <2>2. i \in 1..Len(f)
    BY <1>1, <2>1
  <2> QED
    BY <1>1, <2>2
<1> QED
  BY <1>3 DEF MarkedFrom, g

LEMMA MarkedFromDeleted ==
  ASSUME NEW f \in Seq(Header), NEW ent \in Nat, NEW n
  PROVE  MarkedFrom(f, DeleteFile(f, ent, n))
<1>1. \A i \in 1..Len(DeleteFile(f, ent, n)) :
        \E k \in 1..Len(f) : DeleteFile(f, ent, n)[i] = f[k]
  BY DeleteFileFrom
<1> QED
  BY <1>1 DEF MarkedFrom

(* What the others do to the index while m deletes a range.                 *)
LEMMA OthersKeepMarked ==
  ASSUME TypeOK, NEW m \in Session, OneHand(m), NEW t \in Session \ {m}, InUse(t), Step(t)
  PROVE  /\ tmpfile' = tmpfile
         /\ \A v \in View : MarkedFrom(index[v], index'[v])
<1>1. /\ index \in [View -> Seq(Header)] /\ view[t] \in View
      /\ work[t] \in [ent : Nat, hdr : Header, named : BOOLEAN] /\ t \in Session
      /\ "dir" \in View /\ "digest" \in View
  BY DEF TypeOK, View
<1>2. /\ {"mark", "title", "digest", "range"} \cap Uses[t] = {}
      /\ KeepHeader => "delete" \notin Uses[t]
  BY DEF OneHand
<1>3. CASE index' = index /\ tmpfile' = tmpfile
  BY <1>1, <1>3, MarkedFromItself
<1>4. CASE OpenBoard(t) \/ LeaveBoard(t) \/ SwitchView(t) \/ Hangup(t)
  BY <1>3, <1>4 DEF OpenBoard, LeaveBoard, SwitchView, Hangup
<1>5. CASE \/ AbandonDraft(t) \/ DeleteFails(t) \/ CancelArticle(t)
           \/ \E n \in FileName : OpenDraft(t, n)
  BY <1>3, <1>5 DEF AbandonDraft, DeleteFails, CancelArticle, OpenDraft
<1>6. ASSUME NEW n \in FileName, CrossPost(t, n)
      PROVE  tmpfile' = tmpfile /\ \A v \in View : MarkedFrom(index[v], index'[v])
  <2>1. NewHeader(t, n) \in Header /\ ~NewHeader(t, n).marked
    BY <1>1, NewHeaderType DEF NewHeader
  <2>2. MarkedFrom(index["dir"], AppendRecord(index["dir"], NewHeader(t, n)))
    BY <1>1, <2>1, MarkedFromAppended
  <2>3. /\ index' = [index EXCEPT !["dir"] = AppendRecord(index["dir"], NewHeader(t, n))]
        /\ tmpfile' = tmpfile
    BY <1>6 DEF CrossPost
  <2> QED
    BY <1>1, <2>2, <2>3, MarkedFromItself
<1>7. CASE PublishDraft(t)
  <2>1. work[t].hdr \in Header /\ ~work[t].hdr.marked
    BY <1>1, <1>7 DEF PublishDraft, InUse
  <2>2. MarkedFrom(index["dir"], AppendRecord(index["dir"], work[t].hdr))
    BY <1>1, <2>1, MarkedFromAppended
  <2>3. /\ index' = [index EXCEPT !["dir"] = AppendRecord(index["dir"], work[t].hdr)]
        /\ tmpfile' = tmpfile
    BY <1>7 DEF PublishDraft
  <2> QED
    BY <1>1, <2>2, <2>3, MarkedFromItself
<1>8. ASSUME NEW i \in 1..Len(page[t]), StartDelete(t, i)
      PROVE  tmpfile' = tmpfile /\ \A v \in View : MarkedFrom(index[v], index'[v])
  <2> DEFINE n == page[t][i].file
  <2>1. SearchRecord(index["digest"], n) \in Nat
    BY <1>1, SearchRecordFinds, LenProperties
  <2>2. MarkedFrom(index["digest"], DigestIndexWithout(n))
    BY <1>1, <2>1, MarkedFromDeleted DEF DigestIndexWithout
  <2>3. /\ tmpfile' = tmpfile
        /\ \/ index' = index
           \/ index' = [index EXCEPT !["digest"] = DigestIndexWithout(n)]
    BY <1>8 DEF StartDelete
  <2> HIDE DEF n
  <2> QED
    BY <1>1, <1>3, <2>2, <2>3, MarkedFromItself
<1>9. CASE RemoveEntry(t)
  <2> DEFINE f == index[view[t]]
             g == DeleteFile(f, work[t].ent, work[t].hdr.file)
  <2>1. ~KeepHeader
    BY <1>2, <1>9 DEF RemoveEntry, InUse
  <2>2. index' = [index EXCEPT ![view[t]] = g] /\ tmpfile' = tmpfile
    BY <1>9, <2>1 DEF RemoveEntry, EntryRemoved
  <2>3. MarkedFrom(f, g)
    BY <1>1, MarkedFromDeleted
  <2> HIDE DEF g
  <2> QED
    BY <1>1, <2>2, <2>3, MarkedFromItself
<1>10. ASSUME NEW i \in 1..Len(page[t])
       PROVE  ~(\/ MarkPost(t, i) \/ EditTitle(t, i) \/ UndigestPost(t, i)
                \/ RedigestPost(t, i) \/ DigestPost(t, i))
  BY <1>2 DEF MarkPost, EditTitle, UndigestPost, RedigestPost, DigestPost, Chooses
<1>11. /\ \A id1, id2 : ~RangeCopy(t, id1, id2)
       /\ ~RangeRefused(t) /\ ~RangeMoveAway(t) /\ ~RangeMoveIn(t)
  BY <1>2 DEF RangeCopy, RangeRefused, RangeMoveAway, RangeMoveIn, Chooses, InUse
<1> QED
  BY <1>4, <1>5, <1>6, <1>7, <1>8, <1>9, <1>10, <1>11 DEF Step

(* Where a step leaves its session.                                         *)
Leaves(s) ==
  /\ \A t \in Session \ {s} : pc'[t] = pc[t] /\ view'[t] = view[t] /\ work'[t] = work[t]
  /\ InUse(s)'
  /\ pc'[s] = "swap" => \E id1, id2 \in 1..(Len(page[s]) + 2) : RangeCopy(s, id1, id2)

LEMMA StepLeaves ==
  ASSUME TypeOK, NEW s \in Session, Step(s), InUse(s)
  PROVE  Leaves(s)
<1>1. /\ pc \in [Session -> {"idle", "edit", "delete", "cancel", "swap", "rename"}]
      /\ view \in [Session -> View]
      /\ work \in [Session -> [ent : Nat, hdr : Header, named : BOOLEAN]]
  BY DEF TypeOK
<1>2. ASSUME UNCHANGED <<pc, work>>, pc[s] # "swap",
             \A t \in Session \ {s} : view'[t] = view[t]
      PROVE  Leaves(s)
  BY <1>1, <1>2 DEF Leaves, InUse
<1>3. ASSUME \A t \in Session \ {s} : view'[t] = view[t] /\ work'[t] = work[t],
             pc' = [pc EXCEPT ![s] = "idle"] \/ pc' = [pc EXCEPT ![s] = "cancel"]
      PROVE  Leaves(s)
  BY <1>1, <1>3 DEF Leaves, InUse
<1>4. CASE OpenBoard(s) \/ LeaveBoard(s)
  BY <1>1, <1>2, <1>4 DEF OpenBoard, LeaveBoard
<1>5. CASE SwitchView(s)
  <2>1. pc[s] = "idle" /\ UNCHANGED <<pc, work>>
    BY <1>5 DEF SwitchView
  <2>2. \A t \in Session \ {s} : view'[t] = view[t]
    BY <1>1, <1>5 DEF SwitchView
  <2> QED
    BY <1>2, <2>1, <2>2
<1>6. ASSUME NEW n \in FileName, OpenDraft(s, n)
      PROVE  Leaves(s)
  <2> DEFINE w == [NoWork EXCEPT !.hdr = NewHeader(s, n)]
  <2>1. ~w.hdr.marked
    BY DEF NoWork, NewHeader
  <2>2. /\ work' = [work EXCEPT ![s] = w] /\ pc' = [pc EXCEPT ![s] = "edit"]
        /\ view' = view
    BY <1>6 DEF OpenDraft, Goto
  <2> HIDE DEF w
  <2> QED
    BY <1>1, <2>1, <2>2 DEF Leaves, InUse
<1>7. ASSUME NEW n \in FileName, CrossPost(s, n)
      PROVE  Leaves(s)
  BY <1>1, <1>2, <1>7 DEF CrossPost
<1>8. CASE AbandonDraft(s) \/ PublishDraft(s)
  BY <1>1, <1>3, <1>8 DEF AbandonDraft, PublishDraft, Goto
<1>9. ASSUME NEW i \in 1..Len(page[s]),
             \/ MarkPost(s, i) \/ EditTitle(s, i) \/ UndigestPost(s, i)
             \/ RedigestPost(s, i) \/ DigestPost(s, i)
      PROVE  Leaves(s)
  <2>1. pc[s] = "idle" /\ UNCHANGED <<pc, work, view>>
    BY <1>9 DEF MarkPost, EditTitle, UndigestPost, RedigestPost, DigestPost, Chooses
  <2> QED
    BY <1>2, <2>1
<1>10. ASSUME NEW i \in 1..Len(page[s]), StartDelete(s, i)
       PROVE  Leaves(s)
  <2>1. "delete" \in Uses[s] /\ pc' = [pc EXCEPT ![s] = "delete"] /\ view' = view
    BY <1>10 DEF StartDelete, Chooses, Goto
  <2>2. \A t \in Session \ {s} : work'[t] = work[t]
    BY <1>1, <1>10 DEF StartDelete
  <2> QED
    BY <1>1, <2>1, <2>2 DEF Leaves, InUse
<1>11. CASE RemoveEntry(s) \/ DeleteFails(s)
  BY <1>1, <1>3, <1>11 DEF RemoveEntry, DeleteFails, Goto
<1>12. CASE CancelArticle(s)
  BY <1>1, <1>3, <1>12 DEF CancelArticle, Reread, Goto
<1>13. ASSUME NEW id1 \in 1..(Len(page[s]) + 2), NEW id2 \in 1..(Len(page[s]) + 2),
              RangeCopy(s, id1, id2)
       PROVE  Leaves(s)
  <2>1. "range" \in Uses[s] /\ pc' = [pc EXCEPT ![s] = "swap"] /\ UNCHANGED <<view, work>>
    BY <1>13 DEF RangeCopy, Chooses, Goto
  <2> QED
    BY <1>1, <1>13, <2>1 DEF Leaves, InUse
<1>14. CASE RangeRefused(s)
  <2>1. pc[s] = "idle" /\ UNCHANGED <<pc, work>>
    BY <1>14 DEF RangeRefused, Chooses
  <2>2. \A t \in Session \ {s} : view'[t] = view[t]
    BY <1>1, <1>14 DEF RangeRefused, Reread
  <2> QED
    BY <1>2, <2>1, <2>2
<1>15. CASE RangeMoveAway(s)
  <2>1. pc[s] = "swap" /\ pc' = [pc EXCEPT ![s] = "rename"] /\ UNCHANGED <<view, work>>
    BY <1>15 DEF RangeMoveAway, Goto
  <2> QED
    BY <1>1, <2>1 DEF Leaves, InUse
<1>16. CASE RangeMoveIn(s)
  BY <1>1, <1>3, <1>16 DEF RangeMoveIn, Reread, Goto
<1>17. CASE Hangup(s)
  BY <1>1, <1>3, <1>17 DEF Hangup, Goto
<1>18. CASE \E n \in FileName : OpenDraft(s, n) \/ CrossPost(s, n)
  BY <1>6, <1>7, <1>18
<1>19. CASE \E i \in 1..Len(page[s]) :
              \/ MarkPost(s, i) \/ EditTitle(s, i) \/ UndigestPost(s, i)
              \/ RedigestPost(s, i) \/ DigestPost(s, i) \/ StartDelete(s, i)
  BY <1>9, <1>10, <1>19
<1>20. CASE \E id1, id2 \in 1..(Len(page[s]) + 2) : RangeCopy(s, id1, id2)
  BY <1>13, <1>20
<1> QED
  BY <1>4, <1>5, <1>8, <1>11, <1>12, <1>14, <1>15, <1>16, <1>17, <1>18, <1>19, <1>20
     DEF Step

(* The copy has the marked records when it is made ...                      *)
LEMMA CopyHasMarked ==
  ASSUME TypeOK, NEW s \in Session, NEW id1, NEW id2, RangeCopy(s, id1, id2)
  PROVE  \A i \in 1..Len(index'[view'[s]]) : index'[view'[s]][i].marked =>
           \E j \in 1..Len(tmpfile'.recs) : tmpfile'.recs[j] = index'[view'[s]][i]
<1> DEFINE f == index[view[s]]
           g == DeleteRange(f, id1, id2)
<1>1. f \in Seq(Header)
  BY DEF TypeOK
<1>2. index' = index /\ view' = view /\ tmpfile' = [exists |-> TRUE, recs |-> g]
  BY DEF RangeCopy
<1> HIDE DEF f
<1>3. \A i \in 1..Len(f) : f[i].marked => \E k \in 1..Len(g) : g[k] = f[i]
  BY <1>1, DeleteRangeKeepsMarked
<1>4. tmpfile'.recs = g
  BY <1>2
<1> HIDE DEF g
<1> QED
  BY <1>2, <1>3, <1>4 DEF f

(* ... and as long as it waits to be put in place.                          *)
LEMMA RInvKept ==
  ASSUME NEW m \in Session, OneHand(m), TypeOK, RInv, [Next]_vars
  PROVE  RInv'
<1>1. CASE Tick \/ UNCHANGED vars
  <2>1. index' = index /\ view' = view /\ pc' = pc /\ work' = work /\ tmpfile' = tmpfile
    BY <1>1 DEF Tick, vars
  <2>2. (\A s \in Session : InUse(s))'
    BY <2>1 DEF RInv, InUse
  <2>3. MarkedCopied'
    BY <2>1 DEF RInv, MarkedCopied
  <2> QED
    BY <2>2, <2>3 DEF RInv
<1>2. ASSUME NEW s \in Session, Step(s)
      PROVE  RInv'
  <2>1. /\ \A t \in Session \ {s} : pc'[t] = pc[t] /\ view'[t] = view[t] /\ work'[t] = work[t]
        /\ InUse(s)'
        /\ pc'[s] = "swap" => \E id1, id2 \in 1..(Len(page[s]) + 2) : RangeCopy(s, id1, id2)
    BY <1>2, StepLeaves DEF RInv, Leaves
  <2>2. \A t \in Session : InUse(t)'
    <3> SUFFICES ASSUME NEW t \in Session, t # s PROVE InUse(t)'
      BY <2>1
    <3>1. InUse(t) /\ pc'[t] = pc[t] /\ work'[t] = work[t]
      BY <2>1 DEF RInv
    <3> QED
      BY <3>1 DEF InUse
  <2>3. MarkedCopied'
    <3> SUFFICES ASSUME NEW t \in Session, pc'[t] = "swap",
                        NEW i \in 1..Len(index'[view'[t]]), index'[view'[t]][i].marked
                 PROVE  \E j \in 1..Len(tmpfile'.recs) : tmpfile'.recs[j] = index'[view'[t]][i]
      BY DEF MarkedCopied
    <3>1. CASE t = s
      BY <1>2, <2>1, <3>1, CopyHasMarked
    <3>2. CASE t # s
      <4>1. pc[t] = "swap" /\ view'[t] = view[t] /\ view[t] \in View
        BY <2>1, <3>2 DEF TypeOK
      <4>2. t = m
        BY <4>1 DEF RInv, InUse, OneHand
      <4>3. tmpfile' = tmpfile /\ MarkedFrom(index[view[t]], index'[view[t]])
        BY <1>2, <3>2, <4>1, <4>2, OthersKeepMarked DEF RInv
      <4>4. PICK k \in 1..Len(index[view[t]]) : index[view[t]][k] = index'[view[t]][i]
        BY <4>1, <4>3 DEF MarkedFrom
      <4>5. \E j \in 1..Len(tmpfile.recs) : tmpfile.recs[j] = index[view[t]][k]
        BY <4>1, <4>4 DEF RInv, MarkedCopied
      <4> QED
        BY <4>1, <4>3, <4>4, <4>5
    <3> QED
      BY <3>1, <3>2
  <2> QED
    BY <2>2, <2>3 DEF RInv
<1> QED
  BY <1>1, <1>2 DEF Next

(* delete_range spares what a manager marked: whoever posts, or deletes      *)
(* articles, between the copy and the renames, the copy that is put in place *)
(* of the index has every record that is marked then.                       *)
THEOREM BoardMarkedCopied == (\E m \in Session : OneHand(m)) => (Spec => []MarkedCopied)
<1> SUFFICES ASSUME NEW m \in Session, OneHand(m)
             PROVE  Spec => []MarkedCopied
  OBVIOUS
<1>1. Init => RInv
  BY DEF Init, RInv, InUse, MarkedCopied
<1>2. TypeOK /\ RInv /\ [Next]_vars => RInv'
  BY RInvKept
<1>3. RInv => MarkedCopied
  BY DEF RInv
<1> QED
  BY <1>1, <1>2, <1>3, BoardTypeCorrect, PTL DEF Spec

-----------------------------------------------------------------------------
(* The digest                                                               *)

(* While a session may read the digest, nobody else changes what is in it.  *)
DigestOfOne ==
  /\ KeepsNumbers
  /\ \A s, t \in Session :
       (s # t /\ "view" \in Uses[s]) => Uses[t] \cap {"digest", "delete"} = {}

Plain(f) == \A i \in 1..Len(f) : ~f[i].digest

DigestOnce ==
  \A i, j \in 1..Len(index["digest"]) :
    index["digest"][i].file = index["digest"][j].file => i = j

(* Who reads the digest has a page of it that is aligned with .DIGEST.      *)
DigestPages ==
  \A s \in Session : view[s] = "digest" =>
    "view" \in Uses[s] /\ Extended(page[s], index["digest"]) /\ Plain(page[s])

DInv == DigestExists /\ DigestOnce /\ Plain(index["digest"]) /\ DigestPages

(* A step leaves the names in the digest, adds one or takes one out.        *)
DigestKeeps ==
  /\ Extended(index["digest"], index'["digest"])
  /\ Len(index'["digest"]) = Len(index["digest"])
  /\ Plain(index'["digest"])
  /\ files["digest"] \subseteq files'["digest"]

DigestAdds(e) ==
  /\ e \in Header /\ ~e.digest /\ e.file \notin files["digest"]
  /\ index'["digest"] = AppendRecord(index["digest"], e)
  /\ files'["digest"] = files["digest"] \cup {e.file}

DigestDrops(n) ==
  /\ index'["digest"] = DigestIndexWithout(n)
  /\ files'["digest"] = DigestFilesWithout(n)
  /\ \A t \in Session : view'[t] # "digest"

DigestPagesFollow ==
  \A t \in Session : view'[t] = "digest" =>
    /\ "view" \in Uses[t]
    /\ \/ page'[t] = index'["digest"]
       \/ view[t] = "digest" /\ Extended(page'[t], page[t]) /\ Plain(page'[t])

LEMMA DigestPagesKept ==
  ASSUME TypeOK, TypeOK', DigestPages, DigestPagesFollow,
         Extended(index["digest"], index'["digest"]), Plain(index'["digest"])
  PROVE  DigestPages'
<1> SUFFICES ASSUME NEW t \in Session, view'[t] = "digest"
             PROVE  /\ "view" \in Uses[t] /\ Extended(page'[t], index'["digest"])
                    /\ Plain(page'[t])
  BY DEF DigestPages
<1>1. /\ page[t] \in Seq(Header) /\ page'[t] \in Seq(Header)
      /\ index["digest"] \in Seq(Header) /\ index'["digest"] \in Seq(Header)
  BY DEF TypeOK, View
<1>2. CASE page'[t] = index'["digest"]
  BY <1>1, <1>2, ExtendedReflexive DEF DigestPagesFollow
<1>3. CASE view[t] = "digest" /\ Extended(page'[t], page[t]) /\ Plain(page'[t])
  <2>1. Extended(page[t], index["digest"])
    BY <1>3 DEF DigestPages
  <2>2. Extended(page'[t], index["digest"])
    BY <1>1, <1>3, <2>1, ExtendedTransitive
  <2>3. Extended(page'[t], index'["digest"])
    BY <1>1, <2>2, ExtendedTransitive
  <2> QED
    BY <1>3, <2>3 DEF DigestPagesFollow
<1> QED
  BY <1>2, <1>3 DEF DigestPagesFollow

LEMMA DigestKept ==
  ASSUME TypeOK, TypeOK', DInv, DigestKeeps, DigestPagesFollow
  PROVE  DInv'
<1> DEFINE f == index["digest"]
           g == index'["digest"]
<1>1. Len(f) \in Nat /\ Len(g) = Len(f) /\ \A i \in 1..Len(f) : g[i].file = f[i].file
  BY LenProperties DEF DigestKeeps, Extended, TypeOK, View
<1>2. DigestPages'
  BY DigestPagesKept DEF DInv, DigestKeeps
<1>3. DigestExists'
  BY <1>1 DEF DInv, DigestExists, Listed, DigestKeeps
<1>4. DigestOnce'
  BY <1>1 DEF DInv, DigestOnce
<1> QED
  BY <1>2, <1>3, <1>4 DEF DInv, DigestKeeps

LEMMA DigestAdded ==
  ASSUME TypeOK, TypeOK', DInv, NEW e, DigestAdds(e), DigestPagesFollow
  PROVE  DInv'
<1> DEFINE f == index["digest"]
           g == AppendRecord(f, e)
<1>1. f \in Seq(Header) /\ Len(f) \in Nat /\ e \in Header
  BY LenProperties, IndexType DEF DigestAdds
<1>2. /\ g \in Seq(Header) /\ Extended(f, g) /\ Len(g) = Len(f) + 1 /\ g[Len(f) + 1] = e
      /\ \A i \in 1..Len(f) : g[i] = f[i]
  BY <1>1, AppendExtends, AppendProperties DEF AppendRecord
<1>3. index'["digest"] = g
  BY DEF DigestAdds
<1>4. \A i \in 1..Len(f) : f[i].file # e.file
  BY DEF DInv, DigestExists, Listed, DigestAdds
<1> HIDE DEF g
<1>5. \A i \in 1..Len(g) : i \in 1..Len(f) \/ i = Len(f) + 1
  BY <1>1, <1>2
<1>6. Plain(g)
  BY <1>2, <1>5 DEF Plain, DInv, DigestAdds
<1>7. DigestPages'
  BY <1>2, <1>3, <1>6, DigestPagesKept DEF DInv
<1>8. DigestExists'
  BY <1>2, <1>3, <1>5 DEF DInv, DigestExists, Listed, DigestAdds
<1>9. DigestOnce'
  <2> SUFFICES ASSUME NEW i \in 1..Len(g), NEW j \in 1..Len(g), g[i].file = g[j].file
               PROVE  i = j
    BY <1>3 DEF DigestOnce
  <2> QED
    BY <1>2, <1>4, <1>5 DEF DInv, DigestOnce
<1> QED
  BY <1>3, <1>6, <1>7, <1>8, <1>9 DEF DInv

(* The entry found by search_record is the one that delete_file takes out.  *)
LEMMA DigestDropped ==
  ASSUME TypeOK, DInv, NEW n, DigestDrops(n)
  PROVE  DInv'
<1> DEFINE f == index["digest"]
           g == DigestIndexWithout(n)
           k == SearchRecord(f, n)
<1>1. f \in Seq(Header) /\ Len(f) \in Nat /\ k \in Nat
  BY LenProperties, IndexType, SearchRecordFinds
<1>2. index'["digest"] = g /\ files'["digest"] = DigestFilesWithout(n)
  BY DEF DigestDrops
<1>3. DigestPages'
  BY DEF DigestPages, DigestDrops
<1>4. CASE Positions(f, n) = {}
  <2>1. g = f
    BY <1>4 DEF DigestIndexWithout, DeleteFile
  <2>2. files'["digest"] = files["digest"]
    BY <1>2, <1>4 DEF DigestFilesWithout, InDigest, SearchRecord
  <2> QED
    BY <1>2, <1>3, <2>1, <2>2 DEF DInv, DigestExists, DigestOnce, Listed
<1>5. CASE Positions(f, n) # {}
  <2>1. k \in Positions(f, n) /\ k \in 1..Len(f) /\ f[k].file = n
    BY <1>1, <1>5, SearchRecordFinds DEF Positions
  <2>2. /\ Len(g) = Len(f) - 1
        /\ \A i \in 1..(Len(f) - 1) : g[i] = IF i < k THEN f[i] ELSE f[i + 1]
    BY <1>1, <2>1, DeleteFileHitsWhenAligned DEF DigestIndexWithout
  <2>3. files'["digest"] = files["digest"] \ {n}
    BY <1>1, <1>2, <2>1 DEF DigestFilesWithout, InDigest
  <2> HIDE DEF g, k
  <2> DEFINE at(i) == IF i < k THEN i ELSE i + 1
  <2>4. \A i \in 1..Len(g) : at(i) \in 1..Len(f) /\ at(i) # k /\ g[i] = f[at(i)]
    BY <1>1, <2>1, <2>2
  <2>5. \A i, j \in 1..Len(g) : at(i) = at(j) => i = j
    BY <1>1, <2>1, <2>2
  <2> HIDE DEF at
  <2>6. \A i \in 1..Len(g) : g[i].file # n
    BY <2>1, <2>4 DEF DInv, DigestOnce
  <2>7. DigestExists'
    BY <1>2, <2>3, <2>4, <2>6 DEF DInv, DigestExists, Listed
  <2>8. DigestOnce'
    BY <1>2, <2>4, <2>5 DEF DInv, DigestOnce
  <2>9. Plain(g)
    BY <2>4 DEF DInv, Plain
  <2> QED
    BY <1>2, <1>3, <2>7, <2>8, <2>9 DEF DInv
<1> QED
  BY <1>4, <1>5

(* A redraw, of lines p which name what the page names.                     *)
LEMMA DigestRedraw ==
  ASSUME TypeOK, DInv, NEW s \in Session, NEW p \in Seq(Header),
         view[s] = "digest" => Extended(p, page[s]) /\ Plain(p),
         Redraw(s, p, index'), view' = view
  PROVE  DigestPagesFollow
<1>1. /\ page \in [Session -> Seq(Header)] /\ view \in [Session -> View]
      /\ page' = [page EXCEPT ![s] = IF Len(index'[view[s]]) = Len(p) THEN p
                                     ELSE index'[view[s]]]
  BY DEF TypeOK, Redraw
<1> SUFFICES ASSUME NEW t \in Session, view[t] = "digest"
             PROVE  /\ "view" \in Uses[t]
                    /\ \/ page'[t] = index'["digest"]
                       \/ Extended(page'[t], page[t]) /\ Plain(page'[t])
  BY DEF DigestPagesFollow
<1>2. "view" \in Uses[t] /\ Plain(page[t])
  BY DEF DInv, DigestPages
<1>3. CASE t = s
  BY <1>1, <1>2, <1>3
<1>4. CASE t # s
  BY <1>1, <1>2, <1>4, ExtendedReflexive
<1> QED
  BY <1>3, <1>4

LEMMA DigestPagesStay ==
  ASSUME TypeOK, DInv, NEW s \in Session,
         \A t \in Session \ {s} : view'[t] = view[t] /\ page'[t] = page[t],
         view'[s] = "digest" =>
           /\ "view" \in Uses[s]
           /\ \/ page'[s] = index'["digest"]
              \/ view[s] = "digest" /\ Extended(page'[s], page[s]) /\ Plain(page'[s])
  PROVE  DigestPagesFollow
<1> SUFFICES ASSUME NEW t \in Session, t # s, view'[t] = "digest"
             PROVE  /\ "view" \in Uses[t]
                    /\ Extended(page'[t], page[t]) /\ Plain(page'[t])
                    /\ view[t] = "digest"
  BY DEF DigestPagesFollow
<1>1. view[t] = "digest" /\ page'[t] = page[t] /\ page[t] \in Seq(Header)
  BY DEF TypeOK
<1> QED
  BY <1>1, ExtendedReflexive DEF DInv, DigestPages

(* Commands that write the header of a line back leave the names.           *)
LEMMA DigestLineKept ==
  ASSUME TypeOK, DInv, NEW s \in Session, NEW i \in 1..Len(page[s]),
         NEW h \in Header, h.file = page[s][i].file, h.digest = page[s][i].digest,
         index' = WriteBack(s, i, h, index), files' = files
  PROVE  DigestKeeps
<1>1. /\ index \in [View -> Seq(Header)] /\ view[s] \in View /\ "digest" \in View
      /\ index["digest"] \in Seq(Header) /\ Len(index["digest"]) \in Nat
  BY IndexType, LenProperties DEF TypeOK
<1>2. index' = [index EXCEPT ![view[s]] =
                  SubstituteRecord(index[view[s]], h, i, ZeroHeader)]
  BY DEF WriteBack
<1>3. CASE view[s] # "digest"
  <2>1. index'["digest"] = index["digest"]
    BY <1>1, <1>2, <1>3
  <2> QED
    BY <1>1, <2>1, ExtendedReflexive DEF DigestKeeps, DInv
<1>4. CASE view[s] = "digest"
  <2> DEFINE f == index["digest"]
             g == SubstituteRecord(f, h, i, ZeroHeader)
  <2>1. Extended(page[s], f) /\ Plain(page[s]) /\ page[s] \in Seq(Header)
    BY <1>4 DEF DInv, DigestPages, TypeOK
  <2>2. i \in 1..Len(f) /\ h.file = f[i].file /\ ~h.digest /\ i \in Nat \ {0}
    BY <1>1, <2>1, LenProperties DEF Extended, Plain
  <2>3. Extended(f, g) /\ Len(g) = Len(f)
    BY <1>1, <2>2, SubstituteExtends
  <2>4. \A j \in 1..Len(f) : g[j] = IF j = i THEN h ELSE f[j]
    BY <1>1, <2>2, ZeroHeaderType, SubstituteRecordProperties
  <2> HIDE DEF g
  <2>5. Plain(g)
    BY <2>2, <2>3, <2>4 DEF Plain, DInv
  <2>6. index'["digest"] = g
    BY <1>1, <1>2, <1>4 DEF g
  <2> QED
    BY <2>3, <2>5, <2>6 DEF DigestKeeps
<1> QED
  BY <1>3, <1>4

LEMMA CutPlain ==
  ASSUME NEW f \in Seq(Header), NEW ent \in Nat, NEW n, Plain(f)
  PROVE  Plain(CutInPlace(f, ent, n))
<1> DEFINE g == CutInPlace(f, ent, n)
<1>1. Len(g) = Len(f) /\ \A i \in 1..Len(f) : f[i] \in Header
  BY CutExtends, ElementOfSeq
<1>2. g = [i \in 1..Len(f) |->
             IF i = Locate(f, ent, n) THEN [f[Locate(f, ent, n)] EXCEPT !.cut = TRUE] ELSE f[i]]
  BY DEF CutInPlace, UpdateFile, CutHeader
<1>3. \A i \in 1..Len(f) : [f[i] EXCEPT !.cut = TRUE].digest = f[i].digest
  BY <1>1 DEF Header
<1>4. \A i \in 1..Len(f) : g[i].digest = f[i].digest
  BY <1>2, <1>3
<1> HIDE DEF g
<1> QED
  BY <1>1, <1>4 DEF Plain, g

(* Who changes the digest from the board does so while nobody reads it.     *)
LEMMA NobodyReads ==
  ASSUME DigestOfOne, TypeOK, DInv, NEW s \in Session, view[s] # "digest",
         "digest" \in Uses[s] \/ "delete" \in Uses[s]
  PROVE  \A t \in Session : view[t] # "digest"
BY DEF DigestOfOne, DInv, DigestPages

LEMMA DigestUntouched ==
  ASSUME TypeOK, DInv, index'["digest"] = index["digest"],
         files["digest"] \subseteq files'["digest"]
  PROVE  DigestKeeps
BY IndexType, ExtendedReflexive DEF DigestKeeps, DInv

LEMMA DigestReading ==
  ASSUME TypeOK, TypeOK', DInv, NEW s \in Session,
         OpenBoard(s) \/ LeaveBoard(s) \/ SwitchView(s) \/ Hangup(s)
  PROVE  DInv'
<1>1. page \in [Session -> Seq(Header)] /\ view \in [Session -> View]
  BY DEF TypeOK
<1>2. index' = index /\ files' = files
  BY DEF OpenBoard, LeaveBoard, SwitchView, Hangup
<1>3. \A t \in Session \ {s} : view'[t] = view[t] /\ page'[t] = page[t]
  BY <1>1 DEF OpenBoard, LeaveBoard, SwitchView, Hangup
<1>4. view'[s] = "digest" => "view" \in Uses[s] /\ page'[s] = index'["digest"]
  <2>1. CASE OpenBoard(s)
    BY <1>1, <2>1 DEF OpenBoard, DInv, DigestPages
  <2>2. CASE LeaveBoard(s)
    BY <1>1, <2>2 DEF LeaveBoard
  <2>3. CASE SwitchView(s)
    BY <1>1, <2>3 DEF SwitchView
  <2>4. CASE Hangup(s)
    BY <1>1, <2>4 DEF Hangup
  <2> QED
    BY <2>1, <2>2, <2>3, <2>4
<1>5. DigestPagesFollow
  BY <1>3, <1>4, DigestPagesStay
<1>6. DigestKeeps
  BY <1>2, DigestUntouched
<1> QED
  BY <1>5, <1>6, DigestKept

LEMMA DigestRedrawIfReading ==
  ASSUME TypeOK, DInv, NEW s \in Session, RedrawIfReading(s, index'), view' = view
  PROVE  DigestPagesFollow
<1>1. page[s] \in Seq(Header) /\ Extended(page[s], page[s])
  BY ExtendedReflexive DEF TypeOK
<1>2. view[s] = "digest" => "view" \in Uses[s] /\ Plain(page[s])
  BY DEF DInv, DigestPages
<1>3. CASE UNCHANGED page
  BY <1>1, <1>2, <1>3, DigestPagesStay
<1>4. CASE Redraw(s, page[s], index')
  BY <1>1, <1>2, <1>4, DigestRedraw
<1> QED
  BY <1>3, <1>4 DEF RedrawIfReading

LEMMA DigestPosting ==
  ASSUME TypeOK, TypeOK', DInv, NEW s \in Session, NEW n \in FileName,
         OpenDraft(s, n) \/ CrossPost(s, n) \/ AbandonDraft(s) \/ PublishDraft(s)
  PROVE  DInv'
<1>1. /\ index \in [View -> Seq(Header)] /\ files \in [View -> SUBSET FileName]
      /\ index["digest"] \in Seq(Header)
  BY IndexType
<1>2. CASE OpenDraft(s, n)
  <2>1. index' = index /\ view' = view /\ page' = page /\ files'["digest"] = files["digest"]
    BY <1>1, <1>2 DEF OpenDraft
  <2>2. view'[s] = "digest" => /\ "view" \in Uses[s]
                               /\ Extended(page'[s], page[s]) /\ Plain(page'[s])
    BY <2>1, ExtendedReflexive DEF DInv, DigestPages, TypeOK
  <2>3. DigestPagesFollow
    BY <2>1, <2>2, DigestPagesStay
  <2> QED
    BY <2>1, <2>3, DigestUntouched, DigestKept
<1>3. CASE CrossPost(s, n)
  <2>1. /\ index'["digest"] = index["digest"] /\ view' = view
        /\ RedrawIfReading(s, index') /\ files'["digest"] = files["digest"]
    BY <1>1, <1>3 DEF CrossPost
  <2> QED
    BY <2>1, DigestUntouched, DigestRedrawIfReading, DigestKept
<1>4. CASE AbandonDraft(s)
  <2>1. /\ index' = index /\ view' = view
        /\ RedrawIfReading(s, index') /\ files'["digest"] = files["digest"]
    BY <1>1, <1>4 DEF AbandonDraft
  <2> QED
    BY <2>1, DigestUntouched, DigestRedrawIfReading, DigestKept
<1>5. CASE PublishDraft(s)
  <2>1. /\ index'["digest"] = index["digest"] /\ view' = view
        /\ RedrawIfReading(s, index') /\ files'["digest"] = files["digest"]
    BY <1>1, <1>5 DEF PublishDraft
  <2> QED
    BY <2>1, DigestUntouched, DigestRedrawIfReading, DigestKept
<1> QED
  BY <1>2, <1>3, <1>4, <1>5

(* digest_post on an article that is in the digest takes it out ...         *)
LEMMA DigestUndigest ==
  ASSUME DigestOfOne, TypeOK, TypeOK', DInv, NEW s \in Session, NEW i \in 1..Len(page[s]),
         UndigestPost(s, i)
  PROVE  DInv'
<1> DEFINE h == [page[s][i] EXCEPT !.digest = FALSE]
           idx == [index EXCEPT !["digest"] = DigestIndexWithout(h.file)]
<1>1. /\ index' = WriteBack(s, i, h, idx)
      /\ files' = [files EXCEPT !["digest"] = DigestFilesWithout(h.file)]
      /\ view[s] = "dir" /\ "digest" \in Uses[s] /\ view' = view
  BY DEF UndigestPost, Chooses
<1> HIDE DEF h
<1>2. files'["digest"] = DigestFilesWithout(h.file)
  BY <1>1, IndexType
<1>3. index'["digest"] = DigestIndexWithout(h.file)
  BY <1>1, IndexType DEF WriteBack
<1>4. \A t \in Session : view'[t] # "digest"
  BY <1>1, NobodyReads
<1> QED
  BY <1>2, <1>3, <1>4, DigestDropped DEF DigestDrops

(* ... and adds one that is not.                                            *)
LEMMA DigestPosts ==
  ASSUME DigestOfOne, IInv, TypeOK', DInv, NEW s \in Session, NEW i \in 1..Len(page[s]),
         DigestPost(s, i)
  PROVE  DInv'
<1> DEFINE h == [page[s][i] EXCEPT !.digest = TRUE]
           e == [page[s][i] EXCEPT !.marked = FALSE]
           idx == [index EXCEPT !["digest"] = AppendRecord(index["digest"], e)]
<1>1. TypeOK /\ page[s] \in Seq(Header) /\ page[s][i] \in Header
  BY LineType DEF IInv
<1>2. /\ view[s] = "dir" /\ "digest" \in Uses[s] /\ view' = view
      /\ ~page[s][i].digest /\ page[s][i].file \notin files["digest"]
      /\ files' = [files EXCEPT !["digest"] =
                     files["digest"] \cup ({page[s][i].file} \cap files["dir"])]
  BY DEF DigestPost, Chooses
<1>3. e \in Header /\ ~e.digest /\ e.file = page[s][i].file
  BY <1>1, <1>2 DEF Header
<1>4. DigestPagesFollow
  BY <1>1, <1>2, NobodyReads DEF DigestPagesFollow
<1>5. files'["digest"] = files["digest"] \cup ({page[s][i].file} \cap files["dir"])
  BY <1>1, <1>2, IndexType
<1>6. page[s][i].file \in files["dir"]
  <2>1. Extended(page[s], index["dir"])
    BY <1>2 DEF IInv, Aligned
  <2>2. i \in 1..Len(index["dir"]) /\ index["dir"][i].file = page[s][i].file
    BY <1>1, <2>1, LenProperties, IndexType DEF Extended
  <2> QED
    BY <2>2 DEF IInv, Listed
<1>7. CASE UNCHANGED index
  BY <1>1, <1>4, <1>5, <1>7, DigestUntouched, DigestKept
<1>8. CASE index' = WriteBack(s, i, h, idx)
  <2> HIDE DEF h, e
  <2>1. index'["digest"] = AppendRecord(index["digest"], e)
    BY <1>1, <1>2, <1>8, IndexType DEF WriteBack
  <2>2. DigestAdds(e)
    BY <1>2, <1>3, <1>5, <1>6, <2>1 DEF DigestAdds
  <2> QED
    BY <1>1, <1>4, <2>2, DigestAdded
<1> QED
  BY <1>7, <1>8 DEF DigestPost

LEMMA DigestLines ==
  ASSUME TypeOK, TypeOK', DInv, NEW s \in Session, NEW i \in 1..Len(page[s]),
         MarkPost(s, i) \/ EditTitle(s, i) \/ RedigestPost(s, i)
  PROVE  DInv'
<1>1. page[s] \in Seq(Header) /\ page[s][i] \in Header
  BY LineType
<1>2. view[s] = "digest" => Plain(page[s])
  BY DEF DInv, DigestPages
<1>3. ASSUME NEW h \in Header, h.file = page[s][i].file, h.digest = page[s][i].digest
      PROVE  /\ WithLine(s, i, h) \in Seq(Header) /\ Extended(WithLine(s, i, h), page[s])
             /\ view[s] = "digest" => Plain(WithLine(s, i, h))
  <2>1. WithLine(s, i, h) \in Seq(Header) /\ Extended(WithLine(s, i, h), page[s])
    BY <1>3, WithLineFollows
  <2>2. /\ Len(WithLine(s, i, h)) = Len(page[s])
        /\ \A j \in 1..Len(page[s]) :
             WithLine(s, i, h)[j] = IF j = i THEN h ELSE page[s][j]
    BY <1>1, ExceptSeq DEF WithLine
  <2> QED
    BY <1>2, <1>3, <2>1, <2>2 DEF Plain
<1>4. CASE MarkPost(s, i)
  <2> DEFINE h == [page[s][i] EXCEPT !.marked = ~@]
  <2>1. h \in Header /\ h.file = page[s][i].file /\ h.digest = page[s][i].digest
    BY <1>1 DEF Header
  <2>2. /\ index' = WriteBack(s, i, h, index) /\ Redraw(s, WithLine(s, i, h), index')
        /\ files' = files /\ view' = view
    BY <1>4 DEF MarkPost
  <2> HIDE DEF h
  <2>3. DigestKeeps
    BY <2>1, <2>2, DigestLineKept
  <2>4. DigestPagesFollow
    BY <1>3, <2>1, <2>2, DigestRedraw
  <2> QED
    BY <2>3, <2>4, DigestKept
<1>5. CASE EditTitle(s, i)
  <2>1. /\ index' = WriteBack(s, i, page[s][i], index) /\ Redraw(s, page[s], index')
        /\ files' = files /\ view' = view
    BY <1>5 DEF EditTitle
  <2>2. DigestKeeps
    BY <1>1, <2>1, DigestLineKept
  <2>3. DigestPagesFollow
    BY <1>1, <1>2, <2>1, ExtendedReflexive, DigestRedraw
  <2> QED
    BY <2>2, <2>3, DigestKept
<1>6. CASE RedigestPost(s, i)
  <2> DEFINE h == [page[s][i] EXCEPT !.digest = TRUE]
  <2>1. h \in Header /\ h.file = page[s][i].file
    BY <1>1 DEF Header
  <2>2. /\ index' = WriteBack(s, i, h, index) /\ Redraw(s, WithLine(s, i, h), index')
        /\ files' = files /\ view' = view /\ view[s] = "dir"
    BY <1>6 DEF RedigestPost
  <2> HIDE DEF h
  <2>3. index'["digest"] = index["digest"]
    BY <2>2, IndexType DEF WriteBack
  <2>4. WithLine(s, i, h) \in Seq(Header)
    BY <2>1, WithLineFollows
  <2>5. DigestPagesFollow
    BY <2>2, <2>4, DigestRedraw
  <2> QED
    BY <2>2, <2>3, <2>5, DigestUntouched, DigestKept
<1> QED
  BY <1>4, <1>5, <1>6

LEMMA DigestStartDelete ==
  ASSUME DigestOfOne, TypeOK, TypeOK', DInv, NEW s \in Session, NEW i \in 1..Len(page[s]),
         StartDelete(s, i)
  PROVE  DInv'
<1> DEFINE n == page[s][i].file
           plain == [page[s][i] EXCEPT !.digest = FALSE]
<1>1. page[s] \in Seq(Header) /\ page[s][i] \in Header
  BY LineType
<1>2. plain \in Header /\ plain.file = n /\ ~plain.digest
  BY <1>1 DEF Header
<1>3. /\ "delete" \in Uses[s] /\ view' = view
      /\ page' = [page EXCEPT ![s] = WithLine(s, i, plain)]
  BY DEF StartDelete, Chooses
<1>4. \/ /\ page[s][i].digest
         /\ index' = [index EXCEPT !["digest"] = DigestIndexWithout(n)]
         /\ files' = [files EXCEPT !["digest"] = DigestFilesWithout(n)]
      \/ UNCHANGED <<index, files>>
  BY DEF StartDelete
<1> HIDE DEF n, plain
<1>5. view[s] = "digest" => "view" \in Uses[s] /\ Plain(page[s])
  BY DEF DInv, DigestPages
<1>6. CASE /\ page[s][i].digest
           /\ index' = [index EXCEPT !["digest"] = DigestIndexWithout(n)]
           /\ files' = [files EXCEPT !["digest"] = DigestFilesWithout(n)]
  <2>1. view[s] # "digest"
    BY <1>5, <1>6 DEF Plain
  <2>2. \A t \in Session : view'[t] # "digest"
    BY <1>3, <2>1, NobodyReads
  <2>3. index'["digest"] = DigestIndexWithout(n) /\ files'["digest"] = DigestFilesWithout(n)
    BY <1>6, IndexType
  <2> QED
    BY <2>2, <2>3, DigestDropped DEF DigestDrops
<1>7. CASE UNCHANGED <<index, files>>
  <2> DEFINE p == WithLine(s, i, plain)
  <2>1. p \in Seq(Header) /\ Extended(p, page[s])
    BY <1>2, WithLineFollows DEF n
  <2>2. Len(p) = Len(page[s]) /\ \A j \in 1..Len(page[s]) : p[j] = IF j = i THEN plain ELSE page[s][j]
    BY <1>1, ExceptSeq DEF WithLine
  <2> HIDE DEF p
  <2>3. view[s] = "digest" => Plain(p)
    BY <1>2, <1>5, <2>2 DEF Plain
  <2>4. page'[s] = p /\ \A t \in Session \ {s} : page'[t] = page[t]
    BY <1>3 DEF TypeOK, p
  <2>5. DigestPagesFollow
    BY <1>3, <1>5, <2>1, <2>3, <2>4, DigestPagesStay
  <2> QED
    BY <1>7, <2>5, DigestUntouched, DigestKept
<1> QED
  BY <1>4, <1>6, <1>7

LEMMA DigestDeleting ==
  ASSUME DigestOfOne, TypeOK, TypeOK', DInv, NEW s \in Session,
         RemoveEntry(s) \/ DeleteFails(s) \/ CancelArticle(s)
  PROVE  DInv'
<1>1. /\ index \in [View -> Seq(Header)] /\ view[s] \in View /\ "digest" \in View
      /\ index["digest"] \in Seq(Header) /\ page[s] \in Seq(Header)
      /\ files \in [View -> SUBSET FileName]
  BY IndexType DEF TypeOK
<1>2. view[s] = "digest" => "view" \in Uses[s] /\ Plain(page[s])
  BY DEF DInv, DigestPages
<1>3. CASE RemoveEntry(s)
  <2> DEFINE f == index[view[s]]
             g == CutInPlace(f, work[s].ent, work[s].hdr.file)
  <2>1. /\ index' = [index EXCEPT ![view[s]] = g]
        /\ files' = files /\ view' = view /\ page' = page
    BY <1>3 DEF RemoveEntry, EntryRemoved, DigestOfOne, KeepsNumbers
  <2>2. f \in Seq(Header) /\ work[s].ent \in Nat
    BY DEF TypeOK
  <2>3. g \in Seq(Header) /\ Extended(f, g) /\ Len(g) = Len(f) /\ (Plain(f) => Plain(g))
    BY <2>2, CutExtends, CutPlain
  <2> HIDE DEF g
  <2>4. DigestKeeps
    <3>1. CASE view[s] = "digest"
      BY <1>1, <2>1, <2>3, <3>1 DEF DigestKeeps, DInv
    <3>2. CASE view[s] # "digest"
      <4>1. index'["digest"] = index["digest"]
        BY <1>1, <2>1, <3>2
      <4> QED
        BY <2>1, <4>1, DigestUntouched
    <3> QED
      BY <3>1, <3>2
  <2>5. DigestPagesFollow
    BY <1>1, <1>2, <2>1, ExtendedReflexive, DigestPagesStay
  <2> QED
    BY <2>4, <2>5, DigestKept
<1>4. CASE DeleteFails(s)
  <2>1. index' = index /\ files' = files /\ view' = view /\ Redraw(s, page[s], index')
    BY <1>4 DEF DeleteFails
  <2>2. DigestPagesFollow
    BY <1>1, <1>2, <2>1, ExtendedReflexive, DigestRedraw
  <2> QED
    BY <2>1, <2>2, DigestUntouched, DigestKept
<1>5. CASE CancelArticle(s)
  <2> DEFINE v == ViewAfter(s, index)
  <2>1. /\ files' = [files EXCEPT ![view[s]] = FilesAfterCancel(view[s], work[s].hdr.file)]
        /\ view' = [view EXCEPT ![s] = v] /\ page' = [page EXCEPT ![s] = index[v]]
        /\ index' = index
    BY <1>5 DEF CancelArticle, Reread
  <2>2. v = "digest" => view[s] = "digest"
    BY DEF ViewAfter
  <2> HIDE DEF v
  <2>3. files["digest"] \subseteq files'["digest"]
    BY <1>1, <2>1 DEF FilesAfterCancel, DigestOfOne, KeepsNumbers
  <2>4. /\ view'[s] = v /\ page'[s] = index[v]
        /\ \A t \in Session \ {s} : view'[t] = view[t] /\ page'[t] = page[t]
    BY <2>1 DEF TypeOK
  <2>5. DigestPagesFollow
    BY <1>2, <2>1, <2>2, <2>4, DigestPagesStay
  <2> QED
    BY <2>1, <2>3, <2>5, DigestUntouched, DigestKept
<1> QED
  BY <1>3, <1>4, <1>5

LEMMA DigestStepKeeps ==
  ASSUME DigestOfOne, IInv, IInv', DInv, [Next]_vars
  PROVE  DInv'
<1>0. TypeOK /\ TypeOK'
  BY DEF IInv
<1>1. CASE Tick \/ UNCHANGED vars
  <2>1. index' = index /\ files' = files /\ view' = view /\ page' = page
    BY <1>1 DEF Tick, vars
  <2> QED
    BY <2>1 DEF DInv, DigestExists, DigestOnce, DigestPages, Listed
<1>2. ASSUME NEW s \in Session, Step(s)
      PROVE  DInv'
  <2>1. 0 \in FileName
    BY BoardAssumption DEF FileName
  <2>2. CASE OpenBoard(s) \/ LeaveBoard(s) \/ SwitchView(s) \/ Hangup(s)
    BY <1>0, <2>2, DigestReading
  <2>3. CASE \/ \E n \in FileName : OpenDraft(s, n) \/ CrossPost(s, n)
             \/ AbandonDraft(s) \/ PublishDraft(s)
    BY <1>0, <2>1, <2>3, DigestPosting
  <2>4. CASE \E i \in 1..Len(page[s]) :
               \/ MarkPost(s, i) \/ EditTitle(s, i) \/ UndigestPost(s, i)
               \/ RedigestPost(s, i) \/ DigestPost(s, i) \/ StartDelete(s, i)
    BY <1>0, <2>4, DigestLines, DigestUndigest, DigestPosts, DigestStartDelete
  <2>5. CASE RemoveEntry(s) \/ DeleteFails(s) \/ CancelArticle(s)
    BY <1>0, <2>5, DigestDeleting
  <2>6. "range" \notin Uses[s] /\ pc[s] \notin {"swap", "rename"}
    BY DEF DigestOfOne, KeepsNumbers, IInv, NoRangeRuns
  <2>7. /\ \A id1, id2 : ~RangeCopy(s, id1, id2)
        /\ ~RangeRefused(s) /\ ~RangeMoveAway(s) /\ ~RangeMoveIn(s)
    BY <2>6 DEF RangeCopy, RangeRefused, RangeMoveAway, RangeMoveIn, Chooses
  <2> QED
    BY <1>2, <2>2, <2>3, <2>4, <2>5, <2>7 DEF Step
<1> QED
  BY <1>1, <1>2 DEF Next

(* Every entry of .DIGEST has its G.*.A, however the board is posted to and  *)
(* its headers deleted and rewritten, as long as nobody else changes the     *)
(* digest that a session may be reading: digest_post and del_post take the   *)
(* entry of the article out and unlink the file of the same article.         *)
THEOREM BoardDigestExists == DigestOfOne => (Spec => []DigestExists)
<1> SUFFICES ASSUME DigestOfOne PROVE Spec => []DigestExists
  OBVIOUS
<1>1. Init => DInv
  <2> SUFFICES ASSUME Init PROVE DInv
    OBVIOUS
  <2>1. index["digest"] = <<>> /\ \A s \in Session : view[s] = "dir"
    BY DEF Init, View
  <2> QED
    BY <2>1 DEF DInv, DigestExists, DigestOnce, DigestPages, Plain, Listed
<1>2. IInv /\ IInv' /\ DInv /\ [Next]_vars => DInv'
  BY DigestStepKeeps
<1>3. DInv => DigestExists
  BY DEF DInv
<1>4. Spec => []IInv
  BY BoardInvariant DEF DigestOfOne
<1> QED
  BY <1>1, <1>2, <1>3, <1>4, PTL DEF Spec

-----------------------------------------------------------------------------
(* The count of posts                                                       *)

(* Session m may do all but copy articles in and read the digest; the others *)
(* post and read.                                                           *)
SoleDeleter(m) ==
  /\ Uses[m] \cap {"cross", "view"} = {}
  /\ \A t \in Session \ {m} : Uses[t] \subseteq {"post", "view", "hangup"}

CreditedIn(f, u) == {i \in 1..Len(f) : f[i].owner = u /\ ~f[i].cut}

(* The lines of p stand for the records of f with their numbers.            *)
SameHolders(p, f) ==
  /\ Len(p) <= Len(f)
  /\ \A i \in 1..Len(p) : /\ p[i].file = f[i].file /\ p[i].owner = f[i].owner
                          /\ p[i].cut = f[i].cut

LEMMA CreditedFinite ==
  ASSUME NEW f \in Seq(Header), NEW u
  PROVE  IsFiniteSet(CreditedIn(f, u)) /\ Cardinality(CreditedIn(f, u)) \in Nat
<1>1. Len(f) \in Nat /\ 1 \in Int /\ Len(f) \in Int
  BY LenProperties
<1>2. IsFiniteSet(1..Len(f))
  BY <1>1, FS_Interval
<1>3. CreditedIn(f, u) \in SUBSET (1..Len(f))
  BY DEF CreditedIn
<1>4. IsFiniteSet(CreditedIn(f, u))
  BY <1>2, <1>3, FS_Subset
<1> QED
  BY <1>4, FS_CardinalityType

(* Headers that are kept hold no more articles than there were.             *)
LEMMA FewerCredited ==
  ASSUME NEW f \in Seq(Header), NEW g \in Seq(Header), NEW u, NEW K,
         K \in SUBSET CreditedIn(f, u),
         NEW at \in [CreditedIn(g, u) -> K],
         \A i, j \in CreditedIn(g, u) : at[i] = at[j] => i = j
  PROVE  Cardinality(CreditedIn(g, u)) <= Cardinality(K)
<1>1. IsFiniteSet(K)
  BY CreditedFinite, FS_Subset
<1>2. at \in Injection(CreditedIn(g, u), K)
  BY DEF Injection, IsInjective
<1> QED
  BY <1>1, <1>2, FS_Injection

LEMMA SameHoldersItself == \A f \in Seq(Header) : SameHolders(f, f)
BY LenProperties DEF SameHolders

LEMMA SameHoldersTransitive ==
  ASSUME NEW f \in Seq(Header), NEW g \in Seq(Header), NEW h \in Seq(Header),
         SameHolders(f, g), SameHolders(g, h)
  PROVE  SameHolders(f, h)
<1>1. Len(f) \in Nat /\ Len(g) \in Nat /\ Len(h) \in Nat
  BY LenProperties
<1> QED
  BY <1>1 DEF SameHolders

LEMMA SameHoldersCredit ==
  ASSUME NEW f \in Seq(Header), NEW g \in Seq(Header), SameHolders(f, g), Len(g) = Len(f),
         NEW u
  PROVE  CreditedIn(g, u) = CreditedIn(f, u)
BY DEF SameHolders, CreditedIn

LEMMA AppendCredits ==
  ASSUME NEW f \in Seq(Header), NEW h \in Header, NEW u
  PROVE  /\ SameHolders(f, AppendRecord(f, h))
         /\ Cardinality(CreditedIn(AppendRecord(f, h), u)) <=
              Cardinality(CreditedIn(f, u)) + (IF h.owner = u THEN 1 ELSE 0)
<1> DEFINE g == AppendRecord(f, h)
           n == Len(f) + 1
<1>1. /\ g \in Seq(Header) /\ Len(f) \in Nat /\ Len(g) = n /\ g[n] = h
      /\ \A i \in 1..Len(f) : g[i] = f[i]
  BY LenProperties, AppendExtends, AppendProperties DEF AppendRecord
<1> HIDE DEF g
<1>2. SameHolders(f, g)
  BY <1>1 DEF SameHolders
<1>3. CreditedIn(f, u) = CreditedIn(g, u) \ {n}
  BY <1>1 DEF CreditedIn
<1>4. h.owner # u => CreditedIn(f, u) = CreditedIn(g, u)
  BY <1>1 DEF CreditedIn
<1> DEFINE C == CreditedIn(f, u)
           D == CreditedIn(g, u)
<1>5. IsFiniteSet(D) /\ Cardinality(D) \in Nat /\ Cardinality(C) \in Nat
  BY <1>1, CreditedFinite
<1>6. C = D \ {n} /\ (h.owner # u => C = D)
  BY <1>3, <1>4
<1> HIDE DEF C, D
<1>7. Cardinality(D \ {n}) = IF n \in D THEN Cardinality(D) - 1 ELSE Cardinality(D)
  BY <1>5, FS_RemoveElement
<1>8. Cardinality(D) <= Cardinality(C) + (IF h.owner = u THEN 1 ELSE 0)
  BY <1>5, <1>6, <1>7
<1> QED
  BY <1>2, <1>8 DEF g, C, D

(* Who takes a header out, or cancels it, takes it from its author.         *)
LEMMA OneCreditLess ==
  ASSUME NEW f \in Seq(Header), NEW u, NEW k \in CreditedIn(f, u)
  PROVE  Cardinality(CreditedIn(f, u) \ {k}) = Cardinality(CreditedIn(f, u)) - 1
BY CreditedFinite, FS_RemoveElement

LEMMA RemovalCredits ==
  ASSUME NEW f \in Seq(Header), NEW n, NEW ent \in Positions(f, n), ~f[ent].cut, NEW u
  PROVE  /\ EntryRemoved(f, ent, n) \in Seq(Header)
         /\ Cardinality(CreditedIn(EntryRemoved(f, ent, n), u)) +
              (IF f[ent].owner = u THEN 1 ELSE 0) <= Cardinality(CreditedIn(f, u))
<1> DEFINE g == EntryRemoved(f, ent, n)
           C == CreditedIn(f, u)
           D == CreditedIn(g, u)
           K == C \ {ent}
<1>1. /\ ent \in 1..Len(f) /\ ent \in Nat /\ Len(f) \in Nat
      /\ Locate(f, ent, n) = ent /\ \A i \in 1..Len(f) : f[i] \in Header
  BY LenProperties, ElementOfSeq DEF Positions, Locate
<1>2. g \in Seq(Header)
  BY <1>1, EntryRemovedType
<1>3. Cardinality(D) <= Cardinality(K)
  <2>1. CASE KeepHeader
    <3>1. Len(g) = Len(f)
      BY <1>1, <2>1, CutExtends DEF EntryRemoved
    <3>2. g = [i \in 1..Len(f) |-> IF i = ent THEN [f[ent] EXCEPT !.cut = TRUE] ELSE f[i]]
      BY <1>1, <2>1 DEF EntryRemoved, CutInPlace, UpdateFile, CutHeader
    <3>3. [f[ent] EXCEPT !.cut = TRUE].cut
      BY <1>1 DEF Header
    <3>4. g[ent].cut /\ \A i \in 1..Len(f) : i # ent => g[i] = f[i]
      BY <1>1, <3>2, <3>3
    <3> HIDE DEF g
    <3>5. D \subseteq K
      BY <3>1, <3>4 DEF CreditedIn
    <3>6. IsFiniteSet(K)
      BY CreditedFinite, FS_Subset
    <3> QED
      BY <3>5, <3>6, FS_Subset
  <2>2. CASE ~KeepHeader
    <3>1. /\ Len(g) = Len(f) - 1
          /\ \A i \in 1..(Len(f) - 1) : g[i] = IF i < ent THEN f[i] ELSE f[i + 1]
      BY <2>2, DeleteFileHitsWhenAligned DEF EntryRemoved
    <3> HIDE DEF g
    <3> DEFINE at == [i \in D |-> IF i < ent THEN i ELSE i + 1]
    <3>2. \A i \in D : i \in 1..(Len(f) - 1) /\ g[i].owner = u /\ ~g[i].cut
      BY <3>1 DEF CreditedIn
    <3>3. \A i \in D : at[i] \in 1..Len(f) /\ at[i] # ent /\ f[at[i]] = g[i]
      BY <1>1, <3>1, <3>2
    <3>4. \A i, j \in D : at[i] = at[j] => i = j
      BY <1>1, <3>2
    <3>5. at \in [D -> K]
      <4>1. \A i \in D : at[i] \in K
        BY <3>2, <3>3 DEF CreditedIn
      <4> QED
        BY <4>1
    <3> HIDE DEF at
    <3> QED
      BY <1>2, <3>4, <3>5, FewerCredited
  <2> QED
    BY <2>1, <2>2
<1> HIDE DEF g, K
<1>4. Cardinality(C) \in Nat /\ Cardinality(D) \in Nat
  BY <1>2, CreditedFinite
<1>5. CASE f[ent].owner = u
  <2>1. ent \in C
    BY <1>1, <1>5 DEF CreditedIn
  <2>2. Cardinality(K) = Cardinality(C) - 1
    BY <2>1, OneCreditLess DEF K
  <2> HIDE DEF C, D
  <2>3. Cardinality(D) + 1 <= Cardinality(C)
    BY <1>3, <1>4, <2>2
  <2> QED
    BY <1>2, <1>5, <2>3 DEF C, D, g
<1>6. CASE f[ent].owner # u
  <2>1. K = C
    BY <1>6 DEF K, CreditedIn
  <2> HIDE DEF C, D
  <2>2. Cardinality(D) + 0 <= Cardinality(C)
    BY <1>3, <1>4, <2>1
  <2> QED
    BY <1>2, <1>6, <2>2 DEF C, D, g
<1> QED
  BY <1>5, <1>6

LEMMA RangeCredits ==
  ASSUME NEW f \in Seq(Header), NEW id1, NEW id2, NEW u
  PROVE  /\ DeleteRange(f, id1, id2) \in Seq(Header)
         /\ Cardinality(CreditedIn(DeleteRange(f, id1, id2), u)) <=
              Cardinality(CreditedIn(f, u))
<1> DEFINE g == DeleteRange(f, id1, id2)
           M == {i \in 1..Len(f) : i < id1 \/ id2 < i \/ f[i].marked}
           D == CreditedIn(g, u)
<1>1. g \in Seq(Header)
  BY DeleteRangeKeepsRest
<1>2. g = Only(f, M) /\ M \in SUBSET (1..Len(f))
  BY DEF DeleteRange, IsMarked
<1> HIDE DEF g, M
<1>3. PICK m \in [1..Len(g) -> M] :
           /\ \A k \in 1..Len(g) : g[k] = f[m[k]]
           /\ \A k, l \in 1..Len(g) : k < l => m[k] < m[l]
  BY <1>2, OnlyProperties
<1> DEFINE at == [k \in D |-> m[k]]
<1>4. \A k \in D : k \in 1..Len(g) /\ k \in Nat /\ g[k].owner = u /\ ~g[k].cut
  BY DEF CreditedIn
<1>5. \A k \in D : at[k] \in CreditedIn(f, u)
  BY <1>2, <1>3, <1>4 DEF CreditedIn
<1>6. \A k, l \in D : at[k] = at[l] => k = l
  <2> SUFFICES ASSUME NEW k \in D, NEW l \in D, m[k] = m[l]
               PROVE  k = l
    OBVIOUS
  <2>1. k \in 1..Len(g) /\ l \in 1..Len(g) /\ k \in Nat /\ l \in Nat
    BY <1>4
  <2>2. m[k] \in M /\ m[l] \in M /\ \A i \in M : i \in Nat
    BY <1>2, <1>3, <2>1
  <2>3. m[k] \in Nat /\ m[l] \in Nat
    BY <2>2
  <2> HIDE DEF D, at
  <2>4. ~(k < l) /\ ~(l < k)
    BY <1>3, <2>1, <2>3
  <2> QED
    BY <2>1, <2>4
<1>7. at \in [D -> CreditedIn(f, u)]
  BY <1>5
<1> HIDE DEF at
<1>8. Cardinality(D) <= Cardinality(CreditedIn(f, u))
  BY <1>1, <1>6, <1>7, FewerCredited
<1> QED
  BY <1>1, <1>8 DEF g

Debt(m, u) == IF pc[m] = "cancel" /\ work[m].hdr.owner = u THEN 1 ELSE 0

OthersWrite(m) == \A t \in Session \ {m} : pc[t] \in {"idle", "edit"}

PageHolds(m) ==
  pc[m] \notin {"cancel", "rename"} => SameHolders(page[m], index["dir"])

(* The header about to be taken out is still that of the article confirmed. *)
Target(m) ==
  pc[m] = "delete" =>
    /\ work[m].ent \in Positions(index["dir"], work[m].hdr.file)
    /\ index["dir"][work[m].ent].owner = work[m].hdr.owner
    /\ ~index["dir"][work[m].ent].cut

CountHolds(m) ==
  \A u \in User : numposts[u] >= Cardinality(CreditedIn(index["dir"], u)) + Debt(m, u)

CopyHolds(m) ==
  pc[m] \in {"swap", "rename"} =>
    \A u \in User : numposts[u] >= Cardinality(CreditedIn(tmpfile.recs, u))

CInv(m) == /\ OthersWrite(m) /\ DraftsOwn /\ view[m] = "dir"
           /\ PageHolds(m) /\ Target(m) /\ CountHolds(m) /\ CopyHolds(m)

LEMMA CountTypes ==
  ASSUME TypeOK, NEW u \in User
  PROVE  /\ numposts[u] \in Nat /\ Cardinality(CreditedIn(index["dir"], u)) \in Nat
         /\ Cardinality(CreditedIn(tmpfile.recs, u)) \in Nat
         /\ IsFiniteSet(CreditedIn(index["dir"], u))
BY CreditedFinite DEF TypeOK, View

(* Rewriting headers for the same articles leaves the count right, ...      *)
LEMMA CountStays ==
  ASSUME TypeOK, TypeOK', NEW m \in Session, CInv(m), numposts' = numposts,
         SameHolders(index["dir"], index'["dir"]),
         Len(index'["dir"]) = Len(index["dir"]),
         pc'[m] = "cancel" => pc[m] = "cancel" /\ work'[m] = work[m]
  PROVE  CountHolds(m)'
<1> SUFFICES ASSUME NEW u \in User
             PROVE  numposts'[u] >= Cardinality(CreditedIn(index'["dir"], u)) + Debt(m, u)'
  BY DEF CountHolds
<1>1. CreditedIn(index'["dir"], u) = CreditedIn(index["dir"], u)
  BY SameHoldersCredit DEF TypeOK, View
<1>2. Debt(m, u)' <= Debt(m, u) /\ Debt(m, u) \in Nat /\ Debt(m, u)' \in Nat
  BY DEF Debt
<1>3. numposts[u] >= Cardinality(CreditedIn(index["dir"], u)) + Debt(m, u)
  BY DEF CInv, CountHolds
<1> HIDE DEF Debt
<1> QED
  BY <1>1, <1>2, <1>3, CountTypes

(* ... and leaves m with the page and the target it has.                    *)
LEMMA LinesHold ==
  ASSUME TypeOK, TypeOK', NEW m \in Session, NEW p \in Seq(Header),
         SameHolders(p, index["dir"]), SameHolders(index["dir"], index'["dir"])
  PROVE  SameHolders(p, index'["dir"])
BY SameHoldersTransitive DEF TypeOK, View

LEMMA RedrawHolds ==
  ASSUME TypeOK, TypeOK', NEW m \in Session, view[m] = "dir", NEW p \in Seq(Header),
         SameHolders(p, index'["dir"]), Redraw(m, p, index')
  PROVE  SameHolders(page'[m], index'["dir"])
<1>1. page' = [page EXCEPT ![m] = IF Len(index'["dir"]) = Len(p) THEN p ELSE index'["dir"]]
  BY DEF Redraw
<1>2. page'[m] = p \/ page'[m] = index'["dir"]
  BY <1>1 DEF TypeOK
<1>3. SameHolders(index'["dir"], index'["dir"])
  BY SameHoldersItself DEF TypeOK, View
<1> QED
  BY <1>2, <1>3

LEMMA TargetHolds ==
  ASSUME TypeOK, TypeOK', NEW m \in Session, Target(m),
         SameHolders(index["dir"], index'["dir"]),
         pc'[m] = "delete" => pc[m] = "delete" /\ work'[m] = work[m]
  PROVE  Target(m)'
<1> SUFFICES ASSUME pc'[m] = "delete" PROVE Target(m)'
  BY DEF Target
<1> DEFINE f == index["dir"]
           g == index'["dir"]
           k == work[m].ent
<1>1. Len(f) \in Nat /\ Len(g) \in Nat
  BY LenProperties DEF TypeOK, View
<1>2. /\ k \in 1..Len(f) /\ f[k].file = work[m].hdr.file
      /\ f[k].owner = work[m].hdr.owner /\ ~f[k].cut
  BY DEF Target, Positions
<1>3. k \in 1..Len(g) /\ g[k].file = f[k].file /\ g[k].owner = f[k].owner /\ g[k].cut = f[k].cut
  BY <1>1, <1>2 DEF SameHolders
<1>4. work'[m] = work[m]
  OBVIOUS
<1> QED
  BY <1>2, <1>3, <1>4 DEF Target, Positions

LEMMA CopyStays ==
  ASSUME NEW m \in Session, CInv(m), numposts' = numposts, tmpfile' = tmpfile,
         pc'[m] \in {"swap", "rename"} => pc[m] \in {"swap", "rename"}
  PROVE  CopyHolds(m)'
BY DEF CInv, CopyHolds

(* Steps that change neither the index nor the counts.                      *)
LEMMA CountQuiet ==
  ASSUME TypeOK, TypeOK', NEW m \in Session, CInv(m),
         index'["dir"] = index["dir"], numposts' = numposts,
         pc'[m] = "cancel" => pc[m] = "cancel" /\ work'[m] = work[m],
         OthersWrite(m)', DraftsOwn', view'[m] = "dir",
         PageHolds(m)', Target(m)', CopyHolds(m)'
  PROVE  CInv(m)'
<1>1. SameHolders(index["dir"], index'["dir"])
  BY SameHoldersItself DEF TypeOK, View
<1>2. CountHolds(m)'
  BY <1>1, CountStays
<1> QED
  BY <1>2 DEF CInv

-----------------------------------------------------------------------------
(* Steps of the others                                                      *)

LEMMA DraftStarts ==
  ASSUME TypeOK, DraftsOwn, NEW s \in Session, NEW n \in FileName, OpenDraft(s, n)
  PROVE  DraftsOwn'
<1> DEFINE w == [NoWork EXCEPT !.hdr = NewHeader(s, n)]
<1>1. w.hdr.owner = Login[s] /\ ~w.hdr.cut
  BY DEF NoWork, NewHeader
<1>2. work' = [work EXCEPT ![s] = w] /\ pc' = [pc EXCEPT ![s] = "edit"]
  BY DEF OpenDraft, Goto
<1> HIDE DEF w
<1> QED
  BY <1>1, <1>2 DEF TypeOK, DraftsOwn

LEMMA DraftsEnd ==
  ASSUME TypeOK, DraftsOwn, NEW s \in Session, pc'[s] # "edit",
         \A t \in Session \ {s} : pc'[t] = pc[t] /\ work'[t] = work[t]
  PROVE  DraftsOwn'
BY DEF DraftsOwn

LEMMA PublishCounts ==
  ASSUME TypeOK, TypeOK', NEW m \in Session, CInv(m), NEW s \in Session, PublishDraft(s)
  PROVE  CInv(m)'
<1> DEFINE h == work[s].hdr
           f == index["dir"]
           g == AppendRecord(f, h)
<1>1. /\ index \in [View -> Seq(Header)] /\ f \in Seq(Header) /\ h \in Header
      /\ numposts \in [User -> Nat] /\ Login[s] \in User
      /\ pc \in [Session -> {"idle", "edit", "delete", "cancel", "swap", "rename"}]
  BY IndexType, BoardAssumption DEF TypeOK
<1>2. /\ pc[s] = "edit"
      /\ index' = [index EXCEPT !["dir"] = g]
      /\ numposts' = [numposts EXCEPT ![Login[s]] = numposts[Login[s]] + 1]
      /\ work' = [work EXCEPT ![s] = NoWork] /\ pc' = [pc EXCEPT ![s] = "idle"]
      /\ RedrawIfReading(s, index') /\ view' = view /\ tmpfile' = tmpfile
  BY DEF PublishDraft, Goto
<1>3. h.owner = Login[s] /\ ~h.cut
  BY <1>2 DEF CInv, DraftsOwn
<1> HIDE DEF h
<1>4. SameHolders(f, g)
  BY <1>1, AppendCredits
<1>5. index'["dir"] = g
  BY <1>1, <1>2, IndexType
<1>6. /\ pc'[s] = "idle"
      /\ \A t \in Session \ {s} : pc'[t] = pc[t] /\ work'[t] = work[t]
  BY <1>1, <1>2 DEF TypeOK
<1>7. OthersWrite(m)' /\ DraftsOwn' /\ view'[m] = "dir"
  BY <1>2, <1>6, DraftsEnd DEF CInv, OthersWrite
<1>8. \A u \in User : numposts'[u] = numposts[u] + (IF h.owner = u THEN 1 ELSE 0)
  BY <1>1, <1>2, <1>3
<1>9. CountHolds(m)'
  <2> SUFFICES ASSUME NEW u \in User
               PROVE  numposts'[u] >= Cardinality(CreditedIn(index'["dir"], u)) + Debt(m, u)'
    BY DEF CountHolds
  <2>1. Cardinality(CreditedIn(g, u)) <=
          Cardinality(CreditedIn(f, u)) + (IF h.owner = u THEN 1 ELSE 0)
    BY <1>1, AppendCredits
  <2>2. Debt(m, u)' <= Debt(m, u) /\ Debt(m, u) \in Nat /\ Debt(m, u)' \in Nat
    BY <1>2, <1>6 DEF Debt
  <2>3. numposts[u] >= Cardinality(CreditedIn(f, u)) + Debt(m, u)
    BY DEF CInv, CountHolds
  <2>4. Cardinality(CreditedIn(g, u)) \in Nat /\ Cardinality(CreditedIn(f, u)) \in Nat
    BY <1>1, AppendExtends, CreditedFinite
  <2> HIDE DEF f, g, Debt
  <2> QED
    BY <1>1, <1>5, <1>8, <2>1, <2>2, <2>3, <2>4
<1>10. CopyHolds(m)'
  <2> SUFFICES ASSUME pc'[m] \in {"swap", "rename"}, NEW u \in User
               PROVE  numposts'[u] >= Cardinality(CreditedIn(tmpfile'.recs, u))
    BY DEF CopyHolds
  <2>1. numposts[u] >= Cardinality(CreditedIn(tmpfile.recs, u))
    BY <1>6 DEF CInv, CopyHolds
  <2> QED
    BY <1>1, <1>2, <1>8, <2>1, CountTypes
<1>11. Target(m)'
  <2>1. pc'[m] = "delete" => pc[m] = "delete" /\ work'[m] = work[m]
    BY <1>6
  <2> QED
    BY <1>4, <1>5, <2>1, TargetHolds DEF CInv
<1>12. PageHolds(m)'
  <2> SUFFICES ASSUME pc'[m] \notin {"cancel", "rename"}
               PROVE  SameHolders(page'[m], index'["dir"])
    BY DEF PageHolds
  <2>1. pc[m] \notin {"cancel", "rename"}
    BY <1>2, <1>6
  <2>2. page[m] \in Seq(Header) /\ SameHolders(page[m], index'["dir"])
    BY <1>4, <1>5, <2>1, LinesHold DEF CInv, PageHolds, TypeOK
  <2>3. CASE page'[m] = page[m]
    BY <2>2, <2>3
  <2>4. CASE s = m /\ Redraw(s, page[s], index')
    BY <2>2, <2>4, RedrawHolds DEF CInv
  <2>5. CASE s # m /\ Redraw(s, page[s], index')
    BY <2>2, <2>5 DEF Redraw, TypeOK
  <2> QED
    BY <1>2, <2>3, <2>4, <2>5 DEF RedrawIfReading
<1> QED
  BY <1>7, <1>9, <1>10, <1>11, <1>12 DEF CInv

LEMMA OthersCount ==
  ASSUME TypeOK, TypeOK', NEW m \in Session, SoleDeleter(m), CInv(m),
         NEW t \in Session \ {m}, Step(t)
  PROVE  CInv(m)'
<1>1. /\ Uses[t] \subseteq {"post", "view", "hangup"} /\ pc[t] \in {"idle", "edit"}
      /\ t \in Session /\ t # m
  BY DEF SoleDeleter, CInv, OthersWrite
<1>2. ASSUME index' = index, numposts' = numposts, tmpfile' = tmpfile,
             pc'[m] = pc[m], work'[m] = work[m], view'[m] = view[m], page'[m] = page[m],
             OthersWrite(m)', DraftsOwn'
      PROVE  CInv(m)'
  <2>1. PageHolds(m)' /\ Target(m)' /\ CopyHolds(m)'
    BY <1>2 DEF CInv, PageHolds, Target, CopyHolds
  <2> QED
    BY <1>2, <2>1, CountQuiet DEF CInv
<1>3. CASE \/ OpenBoard(t) \/ LeaveBoard(t) \/ SwitchView(t)
  <2>1. /\ index' = index /\ numposts' = numposts /\ tmpfile' = tmpfile
        /\ pc' = pc /\ work' = work
    BY <1>3 DEF OpenBoard, LeaveBoard, SwitchView
  <2>2. view'[m] = view[m] /\ page'[m] = page[m]
    BY <1>1, <1>3 DEF OpenBoard, LeaveBoard, SwitchView, TypeOK
  <2>3. OthersWrite(m)' /\ DraftsOwn'
    BY <2>1 DEF CInv, OthersWrite, DraftsOwn
  <2> QED
    BY <1>2, <2>1, <2>2, <2>3
<1>4. ASSUME NEW n \in FileName, OpenDraft(t, n)
      PROVE  CInv(m)'
  <2>1. /\ index' = index /\ numposts' = numposts /\ tmpfile' = tmpfile
        /\ view' = view /\ page' = page /\ pc' = [pc EXCEPT ![t] = "edit"]
    BY <1>4 DEF OpenDraft, Goto
  <2>2. pc'[m] = pc[m] /\ work'[m] = work[m]
    BY <1>1, <1>4, <2>1 DEF OpenDraft, TypeOK
  <2>3. OthersWrite(m)'
    BY <2>1 DEF CInv, OthersWrite, TypeOK
  <2>4. DraftsOwn'
    BY <1>1, <1>4, DraftStarts DEF CInv
  <2> QED
    BY <1>2, <2>1, <2>2, <2>3, <2>4
<1>5. CASE AbandonDraft(t) \/ Hangup(t)
  <2>1. /\ index' = index /\ numposts' = numposts /\ tmpfile' = tmpfile
        /\ pc' = [pc EXCEPT ![t] = "idle"] /\ work' = [work EXCEPT ![t] = NoWork]
    BY <1>5 DEF AbandonDraft, Hangup, Goto
  <2>2. view'[m] = view[m] /\ page'[m] = page[m]
    BY <1>1, <1>5 DEF AbandonDraft, Hangup, RedrawIfReading, Redraw, TypeOK
  <2>3. /\ pc'[t] = "idle"
        /\ \A u \in Session \ {t} : pc'[u] = pc[u] /\ work'[u] = work[u]
    BY <1>1, <2>1 DEF TypeOK
  <2>4. OthersWrite(m)' /\ DraftsOwn'
    BY <1>1, <2>3, DraftsEnd DEF CInv, OthersWrite
  <2> QED
    BY <1>1, <1>2, <2>1, <2>2, <2>3, <2>4
<1>6. CASE PublishDraft(t)
  BY <1>1, <1>6, PublishCounts
<1>7. \A n : ~CrossPost(t, n)
  BY <1>1 DEF CrossPost
<1>8. ASSUME NEW i \in 1..Len(page[t])
      PROVE  ~(\/ MarkPost(t, i) \/ EditTitle(t, i) \/ UndigestPost(t, i)
               \/ RedigestPost(t, i) \/ DigestPost(t, i) \/ StartDelete(t, i))
  BY <1>1 DEF MarkPost, EditTitle, UndigestPost, RedigestPost, DigestPost, StartDelete, Chooses
<1>9. ~RemoveEntry(t) /\ ~DeleteFails(t) /\ ~CancelArticle(t)
  BY <1>1 DEF RemoveEntry, DeleteFails, CancelArticle
<1>10. /\ \A id1, id2 : ~RangeCopy(t, id1, id2)
       /\ ~RangeRefused(t) /\ ~RangeMoveAway(t) /\ ~RangeMoveIn(t)
  BY <1>1 DEF RangeCopy, RangeRefused, RangeMoveAway, RangeMoveIn, Chooses
<1>11. CASE \E n \in FileName : OpenDraft(t, n) \/ CrossPost(t, n)
  BY <1>4, <1>7, <1>11
<1>12. CASE \E i \in 1..Len(page[t]) :
              \/ MarkPost(t, i) \/ EditTitle(t, i) \/ UndigestPost(t, i)
              \/ RedigestPost(t, i) \/ DigestPost(t, i) \/ StartDelete(t, i)
  BY <1>8, <1>12
<1> QED
  BY <1>3, <1>5, <1>6, <1>9, <1>10, <1>11, <1>12 DEF Step

-----------------------------------------------------------------------------
(* Steps of the session that deletes                                        *)

LEMMA LineCounts ==
  ASSUME TypeOK, TypeOK', NEW m \in Session, CInv(m), pc[m] = "idle",
         NEW i \in 1..Len(page[m]), NEW h \in Header,
         h.file = page[m][i].file, h.owner = page[m][i].owner, h.cut = page[m][i].cut,
         NEW idx \in [View -> Seq(Header)], idx["dir"] = index["dir"],
         index' = WriteBack(m, i, h, idx),
         NEW p \in Seq(Header), SameHolders(p, page[m]), Redraw(m, p, index'),
         UNCHANGED <<numposts, view, pc, work, tmpfile>>
  PROVE  CInv(m)'
<1> DEFINE f == index["dir"]
           g == SubstituteRecord(f, h, i, ZeroHeader)
<1>1. /\ f \in Seq(Header) /\ Len(f) \in Nat /\ page[m] \in Seq(Header)
      /\ view[m] = "dir" /\ "dir" \in View /\ SameHolders(page[m], f)
  BY IndexType, LenProperties DEF CInv, PageHolds, TypeOK
<1>2. /\ i \in 1..Len(f) /\ i \in Nat \ {0}
      /\ h.file = f[i].file /\ h.owner = f[i].owner /\ h.cut = f[i].cut
  <2>1. Len(page[m]) \in Nat
    BY <1>1, LenProperties
  <2>2. i \in 1..Len(f) /\ i \in Nat \ {0}
    BY <1>1, <2>1 DEF SameHolders
  <2> QED
    BY <1>1, <2>2 DEF SameHolders
<1>3. g \in Seq(Header) /\ Len(g) = Len(f)
  BY <1>1, <1>2, SubstituteExtends
<1>4. \A j \in 1..Len(f) : g[j] = IF j = i THEN h ELSE f[j]
  BY <1>1, <1>2, ZeroHeaderType, SubstituteRecordProperties
<1>5. index'["dir"] = g
  <2>1. index' = [idx EXCEPT !["dir"] = g]
    BY <1>1 DEF WriteBack
  <2> HIDE DEF g
  <2> QED
    BY <1>1, <2>1
<1> HIDE DEF g
<1>6. SameHolders(f, g)
  <2>1. \A j \in 1..Len(f) :
          g[j].file = f[j].file /\ g[j].owner = f[j].owner /\ g[j].cut = f[j].cut
    BY <1>2, <1>4
  <2> HIDE DEF f
  <2>2. Len(f) \in Nat /\ Len(f) <= Len(g)
    BY <1>1, <1>3, LenProperties
  <2> QED
    BY <2>1, <2>2 DEF SameHolders
<1>7. CountHolds(m)'
  BY <1>3, <1>5, <1>6, CountStays
<1>8. SameHolders(p, f)
  BY <1>1, SameHoldersTransitive
<1>9. SameHolders(p, index'["dir"])
  BY <1>1, <1>3, <1>5, <1>6, <1>8, SameHoldersTransitive
<1>10. PageHolds(m)'
  BY <1>1, <1>9, RedrawHolds DEF PageHolds
<1>11. Target(m)' /\ CopyHolds(m)'
  BY DEF Target, CopyHolds
<1>12. OthersWrite(m)' /\ DraftsOwn' /\ view'[m] = "dir"
  BY DEF CInv, OthersWrite, DraftsOwn
<1> QED
  BY <1>7, <1>10, <1>11, <1>12 DEF CInv

LEMMA LineHolds ==
  ASSUME TypeOK, NEW m \in Session, NEW i \in 1..Len(page[m]), NEW h \in Header,
         h.file = page[m][i].file, h.owner = page[m][i].owner, h.cut = page[m][i].cut
  PROVE  WithLine(m, i, h) \in Seq(Header) /\ SameHolders(WithLine(m, i, h), page[m])
<1>1. /\ page[m] \in Seq(Header) /\ WithLine(m, i, h) \in Seq(Header)
      /\ Len(WithLine(m, i, h)) = Len(page[m])
      /\ \A j \in 1..Len(page[m]) :
           WithLine(m, i, h)[j] = IF j = i THEN h ELSE page[m][j]
  BY ExceptSeq DEF TypeOK, WithLine
<1>2. Len(page[m]) \in Nat
  BY <1>1, LenProperties
<1> QED
  BY <1>1, <1>2 DEF SameHolders

LEMMA LinesCount ==
  ASSUME TypeOK, TypeOK', NEW m \in Session, CInv(m), NEW i \in 1..Len(page[m]),
         \/ MarkPost(m, i) \/ EditTitle(m, i) \/ UndigestPost(m, i)
         \/ RedigestPost(m, i) \/ DigestPost(m, i)
  PROVE  CInv(m)'
<1>1. /\ page[m] \in Seq(Header) /\ page[m][i] \in Header
      /\ index \in [View -> Seq(Header)] /\ "digest" \in View
  BY LineType, IndexType
<1>2. CASE MarkPost(m, i)
  <2> DEFINE h == [page[m][i] EXCEPT !.marked = ~@]
  <2>1. /\ h \in Header /\ h.file = page[m][i].file
        /\ h.owner = page[m][i].owner /\ h.cut = page[m][i].cut
    BY <1>1 DEF Header
  <2>2. /\ index' = WriteBack(m, i, h, index) /\ Redraw(m, WithLine(m, i, h), index')
        /\ UNCHANGED <<numposts, view, pc, work, tmpfile>> /\ pc[m] = "idle"
    BY <1>2 DEF MarkPost, Chooses
  <2> HIDE DEF h
  <2> QED
    BY <1>1, <2>1, <2>2, LineHolds, LineCounts
<1>3. CASE EditTitle(m, i)
  <2>1. /\ index' = WriteBack(m, i, page[m][i], index) /\ Redraw(m, page[m], index')
        /\ UNCHANGED <<numposts, view, pc, work, tmpfile>> /\ pc[m] = "idle"
    BY <1>3 DEF EditTitle, Chooses
  <2> QED
    BY <1>1, <2>1, SameHoldersItself, LineCounts
<1>4. CASE UndigestPost(m, i)
  <2> DEFINE h == [page[m][i] EXCEPT !.digest = FALSE]
             idx == [index EXCEPT !["digest"] = DigestIndexWithout(h.file)]
  <2>1. /\ h \in Header /\ h.file = page[m][i].file
        /\ h.owner = page[m][i].owner /\ h.cut = page[m][i].cut
    BY <1>1 DEF Header
  <2>2. idx \in [View -> Seq(Header)] /\ idx["dir"] = index["dir"]
    BY <1>1, DigestIndexType
  <2>3. /\ index' = WriteBack(m, i, h, idx) /\ Redraw(m, WithLine(m, i, h), index')
        /\ UNCHANGED <<numposts, view, pc, work, tmpfile>> /\ pc[m] = "idle"
    BY <1>4 DEF UndigestPost, Chooses
  <2> HIDE DEF h, idx
  <2> QED
    BY <2>1, <2>2, <2>3, LineHolds, LineCounts
<1>5. CASE RedigestPost(m, i)
  <2> DEFINE h == [page[m][i] EXCEPT !.digest = TRUE]
  <2>1. /\ h \in Header /\ h.file = page[m][i].file
        /\ h.owner = page[m][i].owner /\ h.cut = page[m][i].cut
    BY <1>1 DEF Header
  <2>2. /\ index' = WriteBack(m, i, h, index) /\ Redraw(m, WithLine(m, i, h), index')
        /\ UNCHANGED <<numposts, view, pc, work, tmpfile>> /\ pc[m] = "idle"
    BY <1>5 DEF RedigestPost, Chooses
  <2> HIDE DEF h
  <2> QED
    BY <1>1, <2>1, <2>2, LineHolds, LineCounts
<1>6. CASE DigestPost(m, i)
  <2> DEFINE h == [page[m][i] EXCEPT !.digest = TRUE]
             e == [page[m][i] EXCEPT !.marked = FALSE]
             idx == [index EXCEPT !["digest"] = AppendRecord(index["digest"], e)]
  <2>1. /\ h \in Header /\ h.file = page[m][i].file /\ e \in Header
        /\ h.owner = page[m][i].owner /\ h.cut = page[m][i].cut
    BY <1>1 DEF Header
  <2>2. UNCHANGED <<numposts, view, pc, work, tmpfile>> /\ pc[m] = "idle"
    BY <1>6 DEF DigestPost, Chooses
  <2>3. CASE UNCHANGED index /\ Redraw(m, page[m], index)
    <3>1. SameHolders(page[m], index'["dir"])
      BY <2>2, <2>3 DEF CInv, PageHolds
    <3>2. PageHolds(m)'
      BY <1>1, <2>2, <2>3, <3>1, RedrawHolds DEF CInv, PageHolds
    <3>3. Target(m)' /\ CopyHolds(m)'
      BY <2>2 DEF Target, CopyHolds
    <3>4. OthersWrite(m)' /\ DraftsOwn' /\ view'[m] = "dir"
      BY <2>2 DEF CInv, OthersWrite, DraftsOwn
    <3> QED
      BY <2>2, <2>3, <3>2, <3>3, <3>4, CountQuiet
  <2>4. CASE index' = WriteBack(m, i, h, idx) /\ Redraw(m, WithLine(m, i, h), index')
    <3>1. AppendRecord(index["digest"], e) \in Seq(Header)
      BY <2>1, IndexType, AppendExtends
    <3> HIDE DEF h, e
    <3>2. idx \in [View -> Seq(Header)] /\ idx["dir"] = index["dir"]
      BY <1>1, <3>1
    <3> HIDE DEF idx
    <3> QED
      BY <2>1, <2>2, <2>4, <3>2, LineHolds, LineCounts
  <2> QED
    BY <1>6, <2>3, <2>4 DEF DigestPost
<1> QED
  BY <1>2, <1>3, <1>4, <1>5, <1>6

(* Steps of m that change neither index nor counts, and leave m idle or in   *)
(* a draft.                                                                 *)
LEMMA OwnQuiet ==
  ASSUME TypeOK, TypeOK', NEW m \in Session, CInv(m),
         index'["dir"] = index["dir"], numposts' = numposts,
         pc'[m] \in {"idle", "edit"}, DraftsOwn', view'[m] = "dir",
         SameHolders(page'[m], index["dir"]),
         \A t \in Session \ {m} : pc'[t] = pc[t]
  PROVE  CInv(m)'
<1>1. OthersWrite(m)'
  BY DEF CInv, OthersWrite
<1>2. PageHolds(m)' /\ Target(m)' /\ CopyHolds(m)'
  BY DEF PageHolds, Target, CopyHolds
<1> QED
  BY <1>1, <1>2, CountQuiet

LEMMA OwnReading ==
  ASSUME TypeOK, TypeOK', NEW m \in Session, CInv(m),
         \/ OpenBoard(m) \/ LeaveBoard(m) \/ Hangup(m) \/ AbandonDraft(m)
         \/ RangeRefused(m) \/ DeleteFails(m) \/ \E n \in FileName : OpenDraft(m, n)
  PROVE  CInv(m)'
<1>1. /\ view[m] = "dir" /\ page[m] \in Seq(Header) /\ index["dir"] \in Seq(Header)
      /\ pc[m] \notin {"cancel", "rename"} => SameHolders(page[m], index["dir"])
      /\ DraftsOwn /\ m \in Session
  BY IndexType DEF CInv, PageHolds, TypeOK
<1>2. /\ SameHolders(index["dir"], index["dir"]) /\ SameHolders(<<>>, index["dir"])
      /\ "dir" \in View
  BY <1>1, SameHoldersItself, LenProperties, EmptyPage DEF SameHolders, View
<1>3. index' = index /\ numposts' = numposts
  BY DEF OpenBoard, LeaveBoard, Hangup, AbandonDraft, RangeRefused, DeleteFails, OpenDraft
<1>4. CASE OpenBoard(m) \/ LeaveBoard(m)
  <2>1. pc[m] = "idle" /\ pc' = pc /\ work' = work /\ view' = view
    BY <1>4 DEF OpenBoard, LeaveBoard
  <2>2. page'[m] = index["dir"] \/ page'[m] = <<>>
    BY <1>1, <1>4 DEF OpenBoard, LeaveBoard, TypeOK
  <2>3. DraftsOwn'
    BY <1>1, <2>1 DEF DraftsOwn
  <2> QED
    BY <1>1, <1>2, <1>3, <2>1, <2>2, <2>3, OwnQuiet
<1>5. CASE Hangup(m)
  <2>1. pc' = [pc EXCEPT ![m] = "idle"] /\ work' = [work EXCEPT ![m] = NoWork]
    BY <1>5 DEF Hangup, Goto
  <2>2. view'[m] = "dir" /\ page'[m] = <<>>
    BY <1>1, <1>5 DEF Hangup, TypeOK
  <2>3. pc'[m] = "idle" /\ \A t \in Session \ {m} : pc'[t] = pc[t] /\ work'[t] = work[t]
    BY <2>1 DEF TypeOK
  <2>4. DraftsOwn'
    BY <1>1, <2>3, DraftsEnd
  <2> QED
    BY <1>2, <1>3, <2>2, <2>3, <2>4, OwnQuiet
<1>6. CASE AbandonDraft(m) \/ DeleteFails(m)
  <2>1. /\ pc' = [pc EXCEPT ![m] = "idle"] /\ work' = [work EXCEPT ![m] = NoWork]
        /\ view' = view /\ pc[m] \notin {"cancel", "rename"}
    BY <1>6 DEF AbandonDraft, DeleteFails, Goto
  <2>2. UNCHANGED page \/ Redraw(m, page[m], index')
    BY <1>3, <1>6 DEF AbandonDraft, DeleteFails, RedrawIfReading
  <2>3. SameHolders(page'[m], index["dir"])
    BY <1>1, <1>3, <2>1, <2>2, RedrawHolds
  <2>4. pc'[m] = "idle" /\ \A t \in Session \ {m} : pc'[t] = pc[t] /\ work'[t] = work[t]
    BY <2>1 DEF TypeOK
  <2>5. DraftsOwn'
    BY <1>1, <2>4, DraftsEnd
  <2> QED
    BY <1>1, <1>3, <2>1, <2>3, <2>4, <2>5, OwnQuiet
<1>7. CASE RangeRefused(m)
  <2>1. pc[m] = "idle" /\ pc' = pc /\ work' = work
    BY <1>7 DEF RangeRefused, Chooses
  <2>2. view'[m] = "dir" /\ page'[m] = index["dir"]
    BY <1>1, <1>7 DEF RangeRefused, Reread, ViewAfter, TypeOK
  <2>3. DraftsOwn'
    BY <1>1, <2>1 DEF DraftsOwn
  <2> QED
    BY <1>2, <1>3, <2>1, <2>2, <2>3, OwnQuiet
<1>8. ASSUME NEW n \in FileName, OpenDraft(m, n)
      PROVE  CInv(m)'
  <2>1. /\ pc[m] = "idle" /\ pc' = [pc EXCEPT ![m] = "edit"]
        /\ view' = view /\ page' = page
    BY <1>8 DEF OpenDraft, Goto
  <2>2. DraftsOwn'
    BY <1>1, <1>8, DraftStarts
  <2>3. pc'[m] = "edit" /\ \A t \in Session \ {m} : pc'[t] = pc[t]
    BY <2>1 DEF TypeOK
  <2> QED
    BY <1>1, <1>3, <2>1, <2>2, <2>3, OwnQuiet
<1> QED
  BY <1>4, <1>5, <1>6, <1>7, <1>8

LEMMA OwnStartDelete ==
  ASSUME TypeOK, TypeOK', NEW m \in Session, CInv(m), NEW i \in 1..Len(page[m]),
         StartDelete(m, i)
  PROVE  CInv(m)'
<1> DEFINE plain == [page[m][i] EXCEPT !.digest = FALSE]
           named == page[m][i].digest => InDigest(page[m][i].file)
           w == [ent |-> i, hdr |-> plain, named |-> named]
<1>1. /\ page[m] \in Seq(Header) /\ page[m][i] \in Header /\ index["dir"] \in Seq(Header)
      /\ index \in [View -> Seq(Header)]
  BY LineType, IndexType
<1>2. /\ pc[m] = "idle" /\ ~page[m][i].cut /\ view' = view /\ numposts' = numposts
      /\ work' = [work EXCEPT ![m] = w] /\ pc' = [pc EXCEPT ![m] = "delete"]
      /\ page' = [page EXCEPT ![m] = WithLine(m, i, plain)]
      /\ tmpfile' = tmpfile
  BY DEF StartDelete, Chooses, Goto
<1>3. /\ plain \in Header /\ plain.file = page[m][i].file
      /\ plain.owner = page[m][i].owner /\ plain.cut = page[m][i].cut
  BY <1>1 DEF Header
<1>4. index'["dir"] = index["dir"]
  <2>1. \/ index' = [index EXCEPT !["digest"] = DigestIndexWithout(page[m][i].file)]
        \/ index' = index
    BY DEF StartDelete
  <2> QED
    BY <1>1, <2>1 DEF View
<1>5. w.ent = i /\ w.hdr = plain
  OBVIOUS
<1> HIDE DEF plain, w
<1>6. SameHolders(page[m], index["dir"])
  BY <1>2 DEF CInv, PageHolds
<1>7. /\ pc'[m] = "delete" /\ work'[m] = w /\ page'[m] = WithLine(m, i, plain)
      /\ \A t \in Session \ {m} : pc'[t] = pc[t] /\ work'[t] = work[t]
  BY <1>2 DEF TypeOK
<1>8. WithLine(m, i, plain) \in Seq(Header) /\ SameHolders(WithLine(m, i, plain), page[m])
  BY <1>3, LineHolds
<1>9. PageHolds(m)'
  BY <1>1, <1>4, <1>6, <1>7, <1>8, SameHoldersTransitive DEF PageHolds
<1>10. Target(m)'
  <2>1. /\ i \in 1..Len(index["dir"]) /\ index["dir"][i].file = plain.file
        /\ index["dir"][i].owner = plain.owner /\ ~index["dir"][i].cut
    <3>1. Len(page[m]) \in Nat /\ Len(index["dir"]) \in Nat
      BY <1>1, LenProperties
    <3>2. i \in 1..Len(index["dir"])
      BY <1>6, <3>1 DEF SameHolders
    <3> QED
      BY <1>2, <1>3, <1>6, <3>2 DEF SameHolders
  <2> QED
    BY <1>4, <1>5, <1>7, <2>1 DEF Target, Positions
<1>11. OthersWrite(m)' /\ DraftsOwn' /\ view'[m] = "dir" /\ CopyHolds(m)'
  BY <1>2, <1>7, DraftsEnd DEF CInv, OthersWrite, CopyHolds
<1> QED
  BY <1>2, <1>4, <1>7, <1>9, <1>10, <1>11, CountQuiet

(* The header goes: from now on the article is owed to its author.          *)
LEMMA OwnRemove ==
  ASSUME TypeOK, TypeOK', NEW m \in Session, CInv(m), RemoveEntry(m)
  PROVE  CInv(m)'
<1> DEFINE f == index["dir"]
           n == work[m].hdr.file
           k == work[m].ent
           g == EntryRemoved(f, k, n)
<1>1. f \in Seq(Header) /\ view[m] = "dir" /\ index \in [View -> Seq(Header)]
  BY IndexType DEF CInv
<1>2. /\ pc[m] = "delete" /\ index' = [index EXCEPT !["dir"] = g]
      /\ pc' = [pc EXCEPT ![m] = "cancel"]
      /\ UNCHANGED <<numposts, view, work, tmpfile>>
  BY <1>1 DEF RemoveEntry, Goto
<1>3. k \in Positions(f, n) /\ f[k].owner = work[m].hdr.owner /\ ~f[k].cut
  BY <1>2 DEF CInv, Target
<1>4. index'["dir"] = g
  BY <1>1, <1>2, IndexType
<1>5. pc'[m] = "cancel" /\ \A t \in Session \ {m} : pc'[t] = pc[t]
  BY <1>2 DEF TypeOK
<1>6. CountHolds(m)'
  <2> SUFFICES ASSUME NEW u \in User
               PROVE  numposts'[u] >= Cardinality(CreditedIn(index'["dir"], u)) + Debt(m, u)'
    BY DEF CountHolds
  <2>1. /\ g \in Seq(Header)
        /\ Cardinality(CreditedIn(g, u)) + (IF f[k].owner = u THEN 1 ELSE 0) <=
             Cardinality(CreditedIn(f, u))
    BY <1>1, <1>3, RemovalCredits
  <2>2. Cardinality(CreditedIn(g, u)) \in Nat /\ Cardinality(CreditedIn(f, u)) \in Nat
    BY <1>1, <2>1, CreditedFinite
  <2>3. Debt(m, u)' = IF f[k].owner = u THEN 1 ELSE 0
    BY <1>2, <1>3, <1>5 DEF Debt
  <2>4. numposts[u] >= Cardinality(CreditedIn(f, u)) + Debt(m, u) /\ Debt(m, u) \in Nat
    BY DEF CInv, CountHolds, Debt
  <2>5. numposts[u] \in Nat /\ numposts'[u] = numposts[u]
    BY <1>2, CountTypes
  <2> HIDE DEF g, f, Debt
  <2> QED
    BY <1>4, <2>1, <2>2, <2>3, <2>4, <2>5
<1>7. PageHolds(m)' /\ Target(m)' /\ CopyHolds(m)'
  BY <1>5 DEF PageHolds, Target, CopyHolds
<1>8. OthersWrite(m)' /\ DraftsOwn' /\ view'[m] = "dir"
  BY <1>1, <1>2, <1>5 DEF CInv, OthersWrite, DraftsOwn
<1> QED
  BY <1>6, <1>7, <1>8 DEF CInv

(* The count of the author is what is taken, whoever deleted.               *)
LEMMA OwnCancel ==
  ASSUME TypeOK, TypeOK', NEW m \in Session, CInv(m), CancelArticle(m)
  PROVE  CInv(m)'
<1> DEFINE u0 == work[m].hdr.owner
<1>1. /\ view[m] = "dir" /\ index["dir"] \in Seq(Header) /\ numposts \in [User -> Nat]
      /\ pc[m] = "cancel"
  BY IndexType DEF CInv, TypeOK, CancelArticle
<1>2. (IF Owns(m, work[m].hdr) THEN Login[m] ELSE work[m].hdr.owner) = u0
  BY DEF Owns
<1>3. /\ numposts' = [numposts EXCEPT ![u0] = OnePostLess(numposts[u0])]
      /\ work' = [work EXCEPT ![m] = NoWork] /\ pc' = [pc EXCEPT ![m] = "idle"]
      /\ Reread(m, index) /\ UNCHANGED <<index, tmpfile>>
  BY <1>2 DEF CancelArticle, Goto
<1>4. /\ pc'[m] = "idle" /\ \A t \in Session \ {m} : pc'[t] = pc[t] /\ work'[t] = work[t]
      /\ view'[m] = "dir" /\ page'[m] = index["dir"]
  BY <1>1, <1>3 DEF TypeOK, Reread, ViewAfter
<1>5. CountHolds(m)'
  <2> SUFFICES ASSUME NEW u \in User
               PROVE  numposts'[u] >= Cardinality(CreditedIn(index'["dir"], u)) + Debt(m, u)'
    BY DEF CountHolds
  <2>1. Debt(m, u)' = 0 /\ Debt(m, u) = IF u0 = u THEN 1 ELSE 0
    BY <1>1, <1>4 DEF Debt
  <2>2. numposts[u] >= Cardinality(CreditedIn(index["dir"], u)) + Debt(m, u)
    BY DEF CInv, CountHolds
  <2>3. numposts[u] \in Nat /\ Cardinality(CreditedIn(index["dir"], u)) \in Nat
    BY CountTypes
  <2>4. numposts'[u] = IF u0 = u THEN OnePostLess(numposts[u]) ELSE numposts[u]
    BY <1>1, <1>3
  <2>5. index' = index
    BY <1>3
  <2> QED
    BY <2>1, <2>2, <2>3, <2>4, <2>5 DEF OnePostLess
<1>6. PageHolds(m)'
  BY <1>1, <1>3, <1>4, SameHoldersItself DEF PageHolds
<1>7. Target(m)' /\ CopyHolds(m)'
  BY <1>4 DEF Target, CopyHolds
<1>8. OthersWrite(m)' /\ DraftsOwn'
  BY <1>4, DraftsEnd DEF CInv, OthersWrite
<1> QED
  BY <1>4, <1>5, <1>6, <1>7, <1>8 DEF CInv

LEMMA OwnRange ==
  ASSUME TypeOK, TypeOK', NEW m \in Session, CInv(m),
         \/ \E id1, id2 \in 1..(Len(page[m]) + 2) : RangeCopy(m, id1, id2)
         \/ RangeMoveAway(m) \/ RangeMoveIn(m)
  PROVE  CInv(m)'
<1>1. /\ view[m] = "dir" /\ index["dir"] \in Seq(Header) /\ "dir" \in View
      /\ index \in [View -> Seq(Header)]
  BY IndexType DEF CInv
<1>2. ASSUME NEW id1, NEW id2, RangeCopy(m, id1, id2)
      PROVE  CInv(m)'
  <2> DEFINE g == DeleteRange(index["dir"], id1, id2)
  <2>1. /\ pc[m] = "idle" /\ pc' = [pc EXCEPT ![m] = "swap"]
        /\ tmpfile' = [exists |-> TRUE, recs |-> g]
        /\ UNCHANGED <<index, numposts, view, page, work>>
    BY <1>1, <1>2 DEF RangeCopy, Chooses, Goto
  <2>2. tmpfile'.recs = g
    BY <2>1
  <2>3. pc'[m] = "swap" /\ \A t \in Session \ {m} : pc'[t] = pc[t]
    BY <2>1 DEF TypeOK
  <2>4. CopyHolds(m)'
    <3> SUFFICES ASSUME NEW u \in User
                 PROVE  numposts'[u] >= Cardinality(CreditedIn(tmpfile'.recs, u))
      BY DEF CopyHolds
    <3>1. /\ g \in Seq(Header)
          /\ Cardinality(CreditedIn(g, u)) <= Cardinality(CreditedIn(index["dir"], u))
      BY <1>1, RangeCredits
    <3>2. Cardinality(CreditedIn(g, u)) \in Nat
      BY <3>1, CreditedFinite
    <3>3. numposts[u] >= Cardinality(CreditedIn(index["dir"], u)) + Debt(m, u) /\ Debt(m, u) = 0
      BY <2>1 DEF CInv, CountHolds, Debt
    <3> HIDE DEF g
    <3> QED
      BY <2>1, <2>2, <3>1, <3>2, <3>3, CountTypes
  <2>5. PageHolds(m)' /\ Target(m)'
    BY <2>1, <2>3 DEF CInv, PageHolds, Target
  <2>6. OthersWrite(m)' /\ DraftsOwn' /\ view'[m] = "dir"
    BY <1>1, <2>1, <2>3 DEF CInv, OthersWrite, DraftsOwn
  <2> QED
    BY <2>1, <2>3, <2>4, <2>5, <2>6, CountQuiet
<1>3. CASE RangeMoveAway(m)
  <2>1. /\ pc[m] = "swap" /\ pc' = [pc EXCEPT ![m] = "rename"]
        /\ index' = [index EXCEPT !["dir"] = <<>>]
        /\ UNCHANGED <<numposts, view, work, tmpfile>>
    BY <1>1, <1>3 DEF RangeMoveAway, Goto
  <2>2. pc'[m] = "rename" /\ \A t \in Session \ {m} : pc'[t] = pc[t]
    BY <2>1 DEF TypeOK
  <2>3. index'["dir"] = <<>>
    BY <1>1, <2>1
  <2>4. CountHolds(m)'
    <3> SUFFICES ASSUME NEW u \in User
                 PROVE  numposts'[u] >= Cardinality(CreditedIn(index'["dir"], u)) + Debt(m, u)'
      BY DEF CountHolds
    <3>1. CreditedIn(<<>>, u) = {}
      BY DEF CreditedIn
    <3>2. Cardinality(CreditedIn(index'["dir"], u)) = 0
      BY <2>3, <3>1, FS_EmptySet
    <3>3. Debt(m, u)' = 0
      BY <2>2 DEF Debt
    <3> QED
      BY <2>1, <3>2, <3>3, CountTypes
  <2>5. PageHolds(m)' /\ Target(m)' /\ CopyHolds(m)'
    BY <2>1, <2>2 DEF CInv, PageHolds, Target, CopyHolds
  <2>6. OthersWrite(m)' /\ DraftsOwn' /\ view'[m] = "dir"
    BY <1>1, <2>1, <2>2 DEF CInv, OthersWrite, DraftsOwn
  <2> QED
    BY <2>4, <2>5, <2>6 DEF CInv
<1>4. CASE RangeMoveIn(m)
  <2>1. /\ pc[m] = "rename" /\ pc' = [pc EXCEPT ![m] = "idle"]
        /\ index' = [index EXCEPT !["dir"] = tmpfile.recs]
        /\ Reread(m, index') /\ UNCHANGED <<numposts, work>>
    BY <1>1, <1>4 DEF RangeMoveIn, Goto
  <2>2. pc'[m] = "idle" /\ \A t \in Session \ {m} : pc'[t] = pc[t]
    BY <2>1 DEF TypeOK
  <2>3. index'["dir"] = tmpfile.recs
    BY <1>1, <2>1
  <2>4. view'[m] = "dir" /\ page'[m] = index'["dir"]
    BY <1>1, <2>1 DEF Reread, ViewAfter, TypeOK
  <2>5. CountHolds(m)'
    <3> SUFFICES ASSUME NEW u \in User
                 PROVE  numposts'[u] >= Cardinality(CreditedIn(index'["dir"], u)) + Debt(m, u)'
      BY DEF CountHolds
    <3>1. numposts[u] >= Cardinality(CreditedIn(tmpfile.recs, u))
      BY <2>1 DEF CInv, CopyHolds
    <3>2. Debt(m, u)' = 0
      BY <2>2 DEF Debt
    <3> QED
      BY <2>1, <2>3, <3>1, <3>2, CountTypes
  <2>6. SameHolders(index'["dir"], index'["dir"])
    BY SameHoldersItself DEF TypeOK, View
  <2>7. PageHolds(m)' /\ Target(m)' /\ CopyHolds(m)'
    BY <2>2, <2>4, <2>6 DEF PageHolds, Target, CopyHolds
  <2>8. OthersWrite(m)' /\ DraftsOwn'
    BY <2>1, <2>2 DEF CInv, OthersWrite, DraftsOwn
  <2> QED
    BY <2>4, <2>5, <2>7, <2>8 DEF CInv
<1> QED
  BY <1>2, <1>3, <1>4

LEMMA OwnCount ==
  ASSUME TypeOK, TypeOK', NEW m \in Session, SoleDeleter(m), CInv(m), Step(m)
  PROVE  CInv(m)'
<1>1. (\A n : ~CrossPost(m, n)) /\ ~SwitchView(m)
  BY DEF SoleDeleter, CrossPost, SwitchView
<1>2. CASE \E n \in FileName : OpenDraft(m, n) \/ CrossPost(m, n)
  BY <1>1, <1>2, OwnReading
<1>3. CASE OpenBoard(m) \/ LeaveBoard(m) \/ SwitchView(m) \/ AbandonDraft(m) \/ PublishDraft(m)
  BY <1>1, <1>3, OwnReading, PublishCounts
<1>4. CASE \E i \in 1..Len(page[m]) :
             \/ MarkPost(m, i) \/ EditTitle(m, i) \/ UndigestPost(m, i)
             \/ RedigestPost(m, i) \/ DigestPost(m, i) \/ StartDelete(m, i)
  BY <1>4, LinesCount, OwnStartDelete
<1>5. CASE RemoveEntry(m) \/ DeleteFails(m) \/ CancelArticle(m) \/ Hangup(m)
  BY <1>5, OwnRemove, OwnReading, OwnCancel
<1>6. CASE \/ \E id1, id2 \in 1..(Len(page[m]) + 2) : RangeCopy(m, id1, id2)
           \/ RangeRefused(m) \/ RangeMoveAway(m) \/ RangeMoveIn(m)
  BY <1>6, OwnRange, OwnReading
<1> QED
  BY <1>2, <1>3, <1>4, <1>5, <1>6 DEF Step

LEMMA CInvKept ==
  ASSUME TypeOK, NEW m \in Session, SoleDeleter(m), CInv(m), [Next]_vars
  PROVE  CInv(m)'
<1>0. TypeOK'
  BY TypeKept
<1>1. CASE Tick \/ UNCHANGED vars
  <2>1. UNCHANGED <<index, numposts, tmpfile, pc, work, view, page>>
    BY <1>1 DEF Tick, vars
  <2>2. OthersWrite(m)' /\ DraftsOwn' /\ view'[m] = "dir"
    BY <2>1 DEF CInv, OthersWrite, DraftsOwn
  <2>3. PageHolds(m)' /\ Target(m)' /\ CopyHolds(m)'
    BY <2>1 DEF CInv, PageHolds, Target, CopyHolds
  <2> QED
    BY <1>0, <2>1, <2>2, <2>3, CountQuiet
<1>2. ASSUME NEW s \in Session, Step(s)
      PROVE  CInv(m)'
  BY <1>0, <1>2, OthersCount, OwnCount
<1> QED
  BY <1>1, <1>2 DEF Next

(* Deletions take one from the count of the author whose header goes, ranges *)
(* and hangups take none: so the count never falls below the articles.      *)
THEOREM BoardPostsCounted == (\E m \in Session : SoleDeleter(m)) => (Spec => []PostsCounted)
<1> SUFFICES ASSUME NEW m \in Session, SoleDeleter(m)
             PROVE  Spec => []PostsCounted
  OBVIOUS
<1>1. Init => CInv(m)
  <2> SUFFICES ASSUME Init PROVE CInv(m)
    OBVIOUS
  <2>1. /\ index["dir"] = <<>> /\ view[m] = "dir" /\ \A s \in Session : pc[s] = "idle"
        /\ page[m] = <<>>
    BY DEF Init, View
  <2>2. \A u \in User : numposts[u] = 0 /\ Debt(m, u) = 0 /\ CreditedIn(index["dir"], u) = {}
    BY <2>1 DEF Init, Debt, CreditedIn
  <2>3. CountHolds(m)
    BY <2>2, FS_EmptySet DEF CountHolds
  <2>4. PageHolds(m) /\ Target(m) /\ CopyHolds(m) /\ OthersWrite(m) /\ DraftsOwn
    BY <2>1 DEF PageHolds, Target, CopyHolds, OthersWrite, DraftsOwn, SameHolders
  <2> QED
    BY <2>1, <2>3, <2>4 DEF CInv
<1>2. TypeOK /\ CInv(m) /\ [Next]_vars => CInv(m)'
  BY CInvKept
<1>3. TypeOK /\ CInv(m) => PostsCounted
  <2> SUFFICES ASSUME TypeOK, CInv(m), NEW u \in User
               PROVE  numposts[u] >= Cardinality(Credited(u)) + Cardinality(Uncredited(u))
    BY DEF PostsCounted
  <2>1. Credited(u) = CreditedIn(index["dir"], u)
    BY DEF Credited, CreditedIn
  <2>2. Uncredited(u) = IF pc[m] = "cancel" /\ work[m].hdr.owner = u THEN {m} ELSE {}
    BY DEF Uncredited, CInv, OthersWrite
  <2>3. Cardinality(Uncredited(u)) = Debt(m, u)
    BY <2>2, FS_Singleton, FS_EmptySet DEF Debt
  <2> QED
    BY <2>1, <2>3 DEF CInv, CountHolds
<1> QED
  BY <1>1, <1>2, <1>3, BoardTypeCorrect, PTL DEF Spec
=============================================================================
