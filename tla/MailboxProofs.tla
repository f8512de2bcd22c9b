---------------------------- MODULE MailboxProofs ----------------------------
(***************************************************************************)
(* One mailbox, for any processes, roles, bound and first index.  The types, *)
(* what is known of the names in the indexes and of the numbers a session    *)
(* has noted, and from these that a number goes on meaning the mail it was   *)
(* read with, that a mail stays listed and its text in place until its owner *)
(* asks for its deletion, and that a deletion that ends is complete.         *)
(***************************************************************************)
EXTENDS Mailbox, RecordProofs

Act(s) ==
  \/ SendOpen(s) \/ SendAbort(s) \/ SendDeliver(s) \/ OpenBox(s) \/ LeaveBox(s)
  \/ (\E i \in 1..Len(page[s]) : MailRead(s, i))
  \/ (\E i \in 1..Len(page[s]) : MailMark(s, i))
  \/ (\E i \in 1..Len(page[s]) : MailDel(s, i))
  \/ (\E i \in 1..Len(page[s]) : MailDelFails(s, i))
  \/ (\E i \in 1..Len(page[s]) : Dele(s, i))
  \/ MailUnlink(s)
  \/ (\E i1, i2 \in 1..(Len(page[s]) + 1) : RangeCopy(s, i1, i2))
  \/ RangeRefused(s) \/ SwapAway(s) \/ SwapFails(s) \/ SwapIn(s)
  \/ NewStart(s) \/ NewNext(s) \/ NewLast(s) \/ NewRead(s) \/ NewKeep(s)
  \/ NewUnlink(s) \/ NewCopy(s) \/ NewRefused(s) \/ NewDone(s)
  \/ PopLogin(s) \/ Rset(s) \/ PopLeave(s) \/ PopCopy(s) \/ PopUnlink(s)
  \/ PopRename(s) \/ Hangup(s)

LEMMA StepActs == \A s \in Session : Step(s) => Act(s)
BY DEF Step, Act

InMNew == InNew \cup {"newdel", "newswap", "newrename"}
Lockers == {"swap", "rename", "newswap", "newrename"}
InPop == {"pop", "popswap", "poprename"}
Label == {"idle", "edit", "unlink", "newdel", "pop"} \cup InNew \cup InSwap
Note == [ent : Nat, file : {0} \cup Mail]

(* Type correctness in parts, with what the types rest on: records have       *)
(* numbers from 1, DELE takes numbers of the copy that the server has.        *)
TypeIndex == exists \in BOOLEAN /\ dir \in Seq(Header) /\ (~exists => dir = <<>>)
TypeFiles == files \subseteq Mail /\ last \in 0..MaxMail
TypeCopies ==
  /\ tmpfile \in [exists : BOOLEAN, recs : Seq(Header)]
  /\ popdir \in [exists : BOOLEAN, recs : Seq(Header)]
TypePc == pc \in [Session -> Label] /\ role \in Roles
TypePage == page \in [Session -> Seq(Header)]
TypeDele ==
  /\ dele \in [Session -> SUBSET Nat]
  /\ \A s \in Session : /\ dele[s] \subseteq 1..Len(page[s])
                        /\ pc[s] \notin InPop => dele[s] = {}
TypeWork ==
  /\ work \in [Session -> [hdr : Header, ent : Nat]]
  /\ \A s \in Session : /\ pc[s] \in {"ask", "shown"} => work[s].ent >= 1
                        /\ pc[s] = "edit" => work[s].hdr.file \in Mail
TypeNoted ==
  /\ noted \in [Session -> Seq(Note)]
  /\ \A s \in Session : /\ \A k \in 1..Len(noted[s]) : noted[s][k].ent >= 1
                        /\ pc[s] \in {"newswap", "newrename"} => noted[s] # <<>>
TypeFd == fd \in [Session -> [live : BOOLEAN, recs : Seq(Header)]]
TypeHistory ==
  /\ delivered \subseteq Mail /\ asked \subseteq {0} \cup Mail
  /\ overtaken \subseteq {0} \cup Mail /\ halfway \subseteq {"deletion", "index"}
  /\ moved \subseteq Session /\ astray \in BOOLEAN
Locks ==
  /\ dellock = {s \in Session : pc[s] \in Lockers}
  /\ dellock = {} \/ \E s \in Session : dellock = {s}
  /\ dellock # {} => tmpfile.exists

Typed ==
  /\ TypeIndex /\ TypeFiles /\ TypeCopies /\ TypePc /\ TypePage /\ TypeDele
  /\ TypeWork /\ TypeNoted /\ TypeFd /\ TypeHistory /\ Locks

-----------------------------------------------------------------------------
LEMMA Headers ==
  /\ ZeroHeader \in Header /\ \A n \in Mail : NewHeader(n) \in Header
  /\ \A h \in Header : /\ h.file \in {0} \cup Mail
                       /\ [h EXCEPT !.read = TRUE] \in Header
                       /\ [h EXCEPT !.read = TRUE].file = h.file
                       /\ [h EXCEPT !.marked = ~@] \in Header
                       /\ [h EXCEPT !.marked = ~@].file = h.file
BY DEF Header, ZeroHeader, NewHeader

LEMMA Works ==
  /\ NoWork \in [hdr : Header, ent : Nat]
  /\ \A h \in Header, i \in Nat : [hdr |-> h, ent |-> i] \in [hdr : Header, ent : Nat]
BY Headers DEF NoWork

LEMMA ListedIn ==
  ASSUME NEW f \in Seq(Header)
  PROVE  Listed(f) \subseteq {0} \cup Mail
BY ElementOfSeq, Headers DEF Listed

LEMMA Line ==
  ASSUME TypePage, NEW s \in Session, NEW i \in 1..Len(page[s])
  PROVE  page[s] \in Seq(Header) /\ i \in Nat \ {0} /\ page[s][i] \in Header
<1>1. page[s] \in Seq(Header)
  BY DEF TypePage
<1> QED
  BY <1>1, LenProperties, ElementOfSeq

LEMMA Substituted ==
  ASSUME TypeIndex, NEW h \in Header, NEW i \in Nat \ {0}, Substitute(h, i)
  PROVE  TypeIndex'
<1>1. SubstituteRecord(dir, h, i, ZeroHeader) \in Seq(Header)
  BY SubstituteRecordProperties, Headers DEF TypeIndex
<1> QED
  BY <1>1 DEF Substitute, TypeIndex

LEMMA DropType ==
  ASSUME NEW f \in Seq(Header), NEW n \in Nat \ {0}
  PROVE  DeleteRecord(f, n) \in Seq(Header)
<1>1. CASE n <= Len(f)
  BY <1>1, LenProperties, DropRecordProperties DEF DeleteRecord
<1>2. CASE ~(n <= Len(f))
  BY <1>2 DEF DeleteRecord
<1> QED
  BY <1>1, <1>2

(* What is left of the numbers to delete after the last of them.             *)
LEMMA RestProperties ==
  ASSUME NEW q \in Seq(Note), q # <<>>
  PROVE  /\ Rest(q) \in Seq(Note) /\ Len(Rest(q)) = Len(q) - 1
         /\ \A k \in 1..(Len(q) - 1) : Rest(q)[k] = q[k]
<1>1. Len(q) \in Nat /\ Len(q) >= 1
  BY EmptySeq
<1>2. Rest(q) = DropRecord(q, Len(q))
  BY DEF Rest, NextNoted, DropRecord
<1> QED
  BY <1>1, <1>2, DropRecordProperties

LEMMA Dropped ==
  ASSUME TypeNoted, NEW s \in Session, noted[s] # <<>>, TypePc,
         noted' = [noted EXCEPT ![s] = Rest(noted[s])], Goto(s, "newdel")
  PROVE  TypeNoted'
<1>1. noted[s] \in Seq(Note)
  BY DEF TypeNoted
<1>2. /\ Rest(noted[s]) \in Seq(Note) /\ Len(Rest(noted[s])) = Len(noted[s]) - 1
      /\ \A k \in 1..(Len(noted[s]) - 1) : Rest(noted[s])[k] = noted[s][k]
  BY <1>1, RestProperties
<1>3. \A k \in 1..Len(Rest(noted[s])) : Rest(noted[s])[k].ent >= 1
  BY <1>1, <1>2, LenProperties DEF TypeNoted
<1>4. \A q \in Session \ {s} : noted'[q] = noted[q] /\ pc'[q] = pc[q]
  BY DEF TypePc, Goto, TypeNoted
<1>5. noted'[s] = Rest(noted[s]) /\ pc'[s] = "newdel"
  BY DEF TypePc, Goto, TypeNoted
<1>6. noted' \in [Session -> Seq(Note)]
  BY <1>2 DEF TypeNoted
<1> QED
  BY <1>3, <1>4, <1>5, <1>6 DEF TypeNoted

LEMMA LastNoted ==
  ASSUME TypeNoted, NEW s \in Session, noted[s] # <<>>
  PROVE  /\ Len(noted[s]) \in Nat /\ Len(noted[s]) >= 1
         /\ noted[s] \in Seq(Note) /\ noted[s][Len(noted[s])] \in Note
         /\ noted[s][NextNoted(noted[s])] = noted[s][Len(noted[s])]
         /\ noted[s][Len(noted[s])].ent \in Nat \ {0}
<1>1. noted[s] \in Seq(Note)
  BY DEF TypeNoted
<1>2. Len(noted[s]) \in Nat /\ Len(noted[s]) >= 1
  BY <1>1, EmptySeq
<1>3. noted[s][Len(noted[s])] \in Note
  BY <1>1, <1>2, ElementOfSeq
<1> QED
  BY <1>1, <1>2, <1>3 DEF TypeNoted, NextNoted, Note

(* What is left of an index when the records with numbers in S are dropped.  *)
LEMMA WithoutProperties ==
  ASSUME NEW d \in Seq(Header), NEW S
  PROVE  /\ Without(d, S) \in Seq(Header) /\ Len(Without(d, S)) \in Nat
         /\ \E m \in [1..Len(Without(d, S)) -> {i \in 1..Len(d) : i \notin S}] :
              /\ \A k \in 1..Len(Without(d, S)) : Without(d, S)[k] = d[m[k]]
              /\ \A k, l \in 1..Len(Without(d, S)) : m[k] = m[l] => k = l
              /\ \A i \in 1..Len(d) : i \notin S =>
                   \E k \in 1..Len(Without(d, S)) : m[k] = i
<1> DEFINE K == {i \in 1..Len(d) : i \notin S}
           g == Without(d, S)
<1>1. K \in SUBSET (1..Len(d)) /\ g = Only(d, K)
  BY DEF Without
<1> HIDE DEF g, K
<1>2. /\ g \in Seq(Header)
      /\ \E m \in [1..Len(g) -> K] :
           /\ \A k \in 1..Len(g) : g[k] = d[m[k]]
           /\ \A k, l \in 1..Len(g) : k < l => m[k] < m[l]
           /\ \A i \in K : \E k \in 1..Len(g) : m[k] = i
  BY <1>1, OnlyProperties
<1>3. PICK m \in [1..Len(g) -> K] :
           /\ \A k \in 1..Len(g) : g[k] = d[m[k]]
           /\ \A k, l \in 1..Len(g) : k < l => m[k] < m[l]
           /\ \A i \in K : \E k \in 1..Len(g) : m[k] = i
  BY <1>2
<1>4. Len(g) \in Nat
  BY <1>2, LenProperties
<1>5. ASSUME NEW k \in 1..Len(g), NEW l \in 1..Len(g), m[k] = m[l] PROVE k = l
  <2>0. m[k] \in K /\ m[l] \in K
    BY <1>3, <1>5
  <2>1. m[k] \in 1..Len(d) /\ m[l] \in 1..Len(d)
    BY <2>0, <1>1
  <2>2. ~(k < l) /\ ~(l < k)
    <3>1. m[k] \in Int /\ m[l] \in Int
      BY <2>1
    <3> QED
      BY <1>3, <1>5, <3>1
  <2> QED
    BY <1>4, <2>2
<1>6. \A i \in 1..Len(d) : i \notin S => \E k \in 1..Len(g) : m[k] = i
  BY <1>3 DEF K
<1>7. /\ g \in Seq(Header) /\ Len(g) \in Nat
      /\ \E n \in [1..Len(g) -> {i \in 1..Len(d) : i \notin S}] :
           /\ \A k \in 1..Len(g) : g[k] = d[n[k]]
           /\ \A k, l \in 1..Len(g) : n[k] = n[l] => k = l
           /\ \A i \in 1..Len(d) : i \notin S => \E k \in 1..Len(g) : n[k] = i
  BY <1>2, <1>3, <1>4, <1>5, <1>6 DEF K
<1> QED
  BY <1>7, Zenon DEF g

LEMMA WithoutFrom ==
  ASSUME NEW d \in Seq(Header), NEW S
  PROVE  \A k \in 1..Len(Without(d, S)) : \E j \in 1..Len(d) : Without(d, S)[k] = d[j]
<1> DEFINE K == {i \in 1..Len(d) : i \notin S}
           g == Without(d, S)
<1>1. K \in SUBSET (1..Len(d)) /\ g = Only(d, K)
  BY DEF Without
<1> HIDE DEF g, K
<1>2. \A k \in 1..Len(g) : \E j \in 1..Len(d) : g[k] = d[j]
  BY <1>1, OnlyFrom
<1> QED
  BY <1>2 DEF g

LEMMA OverwriteType ==
  ASSUME NEW old \in Seq(Header), NEW new \in Seq(Header)
  PROVE  /\ Overwrite(old, new) \in Seq(Header)
         /\ Len(old) <= Len(new) => Overwrite(old, new) = new
<1> DEFINE t == SubSeq(old, Len(new) + 1, Len(old))
<1>1. Len(old) \in Nat /\ Len(new) \in Nat /\ \A i \in 1..Len(old) : old[i] \in Header
  BY LenProperties, ElementOfSeq
<1>2. t \in Seq(Header) /\ Len(t) = IF Len(new) + 1 <= Len(old)
                                   THEN Len(old) - (Len(new) + 1) + 1 ELSE 0
  <2>1. \A i \in (Len(new) + 1)..Len(old) : old[i] \in Header
    BY <1>1
  <2> QED
    BY <1>1, <2>1, SubSeqProperties
<1>3. Len(old) <= Len(new) => t = <<>>
  BY <1>1, <1>2, EmptySeq
<1> HIDE DEF t
<1>4. Overwrite(old, new) = new \o t
  BY DEF Overwrite, t
<1> QED
  BY <1>2, <1>3, <1>4, ConcatProperties, ConcatEmptySeq

-----------------------------------------------------------------------------
LEMMA StepIndex ==
  ASSUME Typed, NEW s \in Session, Act(s)
  PROVE  TypeIndex'
<1>0. TypeIndex /\ TypePage /\ TypeWork /\ TypeCopies
  BY DEF Typed
<1>1. CASE SendOpen(s) \/ SendAbort(s) \/ OpenBox(s) \/ LeaveBox(s) \/ MailUnlink(s) \/
          RangeRefused(s) \/ SwapFails(s) \/ NewStart(s) \/ NewNext(s) \/ NewLast(s)
          \/ NewKeep(s) \/ NewUnlink(s) \/ NewCopy(s) \/ NewRefused(s) \/ NewDone(s)
          \/ PopLogin(s) \/ Rset(s) \/ PopLeave(s) \/ PopCopy(s) \/ Hangup(s) \/
          (\E i \in 1..Len(page[s]) : MailDelFails(s, i)) \/
          (\E i \in 1..Len(page[s]) : Dele(s, i)) \/
          (\E i1 \in 1..(Len(page[s]) + 1), i2 \in 1..(Len(page[s]) + 1) : RangeCopy(s, i1, i2))
  BY <1>1, <1>0 DEF Chooses, CopyRefused, Dele, Goto, Hangup, LeaveBox,
       MailDelFails, MailUnlink, NewCopy, NewDone, NewKeep, NewLast, NewNext,
       NewRefused, NewStart, NewUnlink, OpenBox, PopCopy, PopForgets, PopLeave,
       PopLogin, RangeCopy, RangeRefused, Redraw, Reread, Rset, SendAbort, SendOpen,
       SwapDone, SwapFails, TypeIndex, index, side, local, history
<1>2. CASE SendDeliver(s)
  <2>1. work[s].hdr \in Header
    BY <1>0 DEF TypeWork
  <2>2. Append(dir, work[s].hdr) \in Seq(Header)
    BY <1>0, <2>1, AppendProperties DEF TypeIndex
  <2> QED
    BY <1>2, <2>2 DEF SendDeliver, AppendRecord, TypeIndex
<1>3. ASSUME NEW i \in 1..Len(page[s]), MailRead(s, i)
      PROVE  TypeIndex'
  <2>1. i \in Nat \ {0} /\ page[s][i] \in Header
    BY <1>0, Line
  <2>2. [page[s][i] EXCEPT !.read = TRUE] \in Header
    BY <2>1, Headers
  <2> QED
    BY <1>3, <1>0, <2>1, <2>2, Substituted DEF MailRead, WriteLine
<1>4. ASSUME NEW i \in 1..Len(page[s]), MailMark(s, i)
      PROVE  TypeIndex'
  <2>1. i \in Nat \ {0} /\ page[s][i] \in Header
    BY <1>0, Line
  <2>2. [page[s][i] EXCEPT !.marked = ~@] \in Header
    BY <2>1, Headers
  <2> QED
    BY <1>4, <1>0, <2>1, <2>2, Substituted DEF MailMark, WriteLine
<1>5. ASSUME NEW i \in 1..Len(page[s]), MailDel(s, i)
      PROVE  TypeIndex'
  <2>1. i \in Nat /\ page[s][i] \in Header
    BY <1>0, Line
  <2>2. dir' = DeleteFile(dir, i, page[s][i].file) /\ exists' = exists
    BY <1>5 DEF MailDel
  <2>3. DeleteFile(dir, i, page[s][i].file) \in Seq(Header)
    BY <1>0, <2>1, DeleteFileTakesOne DEF TypeIndex
  <2>4. dir # <<>>
    <3>1. page[s][i].file \in Listed(dir)
      BY <1>5 DEF MailDel
    <3> QED
      BY <3>1, EmptySeq DEF Listed
  <2> QED
    BY <1>0, <2>2, <2>3, <2>4 DEF TypeIndex
<1>6. CASE SwapAway(s)
  BY <1>6, EmptySeq DEF SwapAway, TypeIndex
<1>7. CASE SwapIn(s)
  BY <1>7, <1>0 DEF SwapIn, TypeIndex, TypeCopies
<1>8. CASE NewRead(s)
  <2>1. work[s].ent \in Nat \ {0} /\ work[s].hdr \in Header
    BY <1>8, <1>0 DEF NewRead, TypeWork
  <2>2. [work[s].hdr EXCEPT !.read = TRUE] \in Header
    BY <2>1, Headers
  <2> QED
    BY <1>8, <1>0, <2>1, <2>2, Substituted DEF NewRead
<1>9. CASE PopUnlink(s)
  BY <1>9, EmptySeq DEF PopUnlink, TypeIndex
<1>10. CASE PopRename(s)
  BY <1>10, <1>0 DEF PopRename, TypeIndex, TypeCopies, index
<1> QED
  BY <1>1, <1>2, <1>3, <1>4, <1>5, <1>6, <1>7, <1>8, <1>9, <1>10 DEF Act

LEMMA StepFiles ==
  ASSUME Typed, NEW s \in Session, Act(s)
  PROVE  TypeFiles'
<1>0. TypeFiles
  BY DEF Typed
<1>1. CASE SendAbort(s) \/ SendDeliver(s) \/ OpenBox(s) \/ LeaveBox(s) \/ MailUnlink(s)
          \/ RangeRefused(s) \/ SwapAway(s) \/ SwapFails(s) \/ SwapIn(s) \/
          NewStart(s) \/ NewNext(s) \/ NewLast(s) \/ NewRead(s) \/ NewKeep(s) \/
          NewUnlink(s) \/ NewCopy(s) \/ NewRefused(s) \/ NewDone(s) \/ PopLogin(s) \/
          Rset(s) \/ PopLeave(s) \/ PopCopy(s) \/ PopUnlink(s) \/ PopRename(s) \/
          Hangup(s) \/ (\E i \in 1..Len(page[s]) : MailRead(s, i)) \/
          (\E i \in 1..Len(page[s]) : MailMark(s, i)) \/
          (\E i \in 1..Len(page[s]) : MailDel(s, i)) \/
          (\E i \in 1..Len(page[s]) : MailDelFails(s, i)) \/
          (\E i \in 1..Len(page[s]) : Dele(s, i)) \/
          (\E i1 \in 1..(Len(page[s]) + 1), i2 \in 1..(Len(page[s]) + 1) : RangeCopy(s, i1, i2))
  BY <1>1, <1>0 DEF Chooses, CopyRefused, Dele, Goto, Hangup, LeaveBox, MailDel,
       MailDelFails, MailMark, MailRead, MailUnlink, NewCopy, NewDone, NewKeep,
       NewLast, NewNext, NewRead, NewRefused, NewStart, NewUnlink, OpenBox, PopCopy,
       PopForgets, PopLeave, PopLogin, PopRename, PopUnlink, RangeCopy,
       RangeRefused, Redraw, Reread, Rset, SendAbort, SendDeliver, Substitute,
       SwapAway, SwapDone, SwapFails, SwapIn, WriteLine, TypeFiles, index, side,
       local, history
<1>2. CASE SendOpen(s)
  <2>1. last + 1 \in Mail /\ last + 1 \in 0..MaxMail
    BY <1>2, <1>0, MailboxAssumption DEF SendOpen, TypeFiles, Mail
  <2> QED
    BY <1>2, <1>0, <2>1 DEF SendOpen, TypeFiles
<1> QED
  BY <1>1, <1>2 DEF Act

LEMMA StepCopies ==
  ASSUME Typed, NEW s \in Session, Act(s)
  PROVE  TypeCopies'
<1>0. TypeIndex /\ TypeNoted /\ TypeCopies
  BY DEF Typed
<1>00. NoTmp \in [exists : BOOLEAN, recs : Seq(Header)]
  BY EmptySeq DEF NoTmp
<1>1. CASE SendOpen(s) \/ SendAbort(s) \/ SendDeliver(s) \/ OpenBox(s) \/ LeaveBox(s)
          \/ MailUnlink(s) \/ RangeRefused(s) \/ SwapAway(s) \/ SwapFails(s) \/
          NewStart(s)
  BY <1>1, <1>0 DEF Goto, LeaveBox, MailUnlink, NewStart, OpenBox, RangeRefused,
     Reread, SendAbort, SendDeliver, SendOpen, SwapAway, SwapDone, SwapFails,
     TypeCopies, index, side, local, history
<1>2. CASE NewNext(s) \/ NewLast(s) \/ NewRead(s) \/ NewKeep(s) \/ NewUnlink(s) \/
          NewRefused(s) \/ NewDone(s) \/ PopLogin(s) \/ Rset(s) \/ PopLeave(s)
  BY <1>2, <1>0 DEF CopyRefused, Goto, NewDone, NewKeep, NewLast, NewNext, NewRead,
     NewRefused, NewUnlink, PopForgets, PopLeave, PopLogin, Reread, Rset,
     Substitute, TypeCopies, index, side, local, history
<1>3. CASE PopUnlink(s) \/ Hangup(s) \/ (\E i \in 1..Len(page[s]) : MailRead(s, i))
          \/ (\E i \in 1..Len(page[s]) : MailMark(s, i)) \/
          (\E i \in 1..Len(page[s]) : MailDel(s, i)) \/
          (\E i \in 1..Len(page[s]) : MailDelFails(s, i)) \/
          (\E i \in 1..Len(page[s]) : Dele(s, i))
  BY <1>3, <1>0 DEF Chooses, Dele, Goto, Hangup, MailDel, MailDelFails, MailMark,
     MailRead, PopUnlink, Redraw, Substitute, WriteLine, TypeCopies, index, side,
     local, history
<1>4. ASSUME NEW i1 \in 1..(Len(page[s]) + 1), NEW i2 \in 1..(Len(page[s]) + 1), RangeCopy(s, i1, i2)
      PROVE  TypeCopies'
  <2>1. DeleteRange(dir, i1, i2) \in Seq(Header)
    BY <1>0, DeleteRangeKeepsRest DEF TypeIndex
  <2> QED
    BY <1>4, <1>0, <2>1 DEF RangeCopy, TypeCopies
<1>5. CASE NewCopy(s)
  <2>1. /\ noted[s][Len(noted[s])].ent \in Nat \ {0}
        /\ noted[s][NextNoted(noted[s])] = noted[s][Len(noted[s])]
    BY <1>5, <1>0, LastNoted DEF NewCopy
  <2>2. DeleteRecord(dir, noted[s][NextNoted(noted[s])].ent) \in Seq(Header)
    BY <1>0, <2>1, DropType DEF TypeIndex
  <2> QED
    BY <1>5, <1>0, <2>2 DEF NewCopy, TypeCopies
<1>6. CASE SwapIn(s)
  BY <1>6, <1>0, <1>00 DEF SwapIn, TypeCopies
<1>7. CASE PopCopy(s)
  <2>1. Without(dir, dele[s]) \in Seq(Header)
    BY <1>0, WithoutProperties DEF TypeIndex
  <2>2. Overwrite(popdir.recs, Without(dir, dele[s])) \in Seq(Header)
    BY <1>0, <2>1, OverwriteType DEF TypeCopies
  <2> QED
    BY <1>7, <1>0, <2>2 DEF PopCopy, TypeCopies
<1>8. CASE PopRename(s)
  BY <1>8, <1>0, <1>00 DEF PopRename, TypeCopies
<1> QED
  BY <1>1, <1>2, <1>3, <1>4, <1>5, <1>6, <1>7, <1>8 DEF Act

LEMMA StepPc ==
  ASSUME TypePc, NEW s \in Session, Act(s)
  PROVE  TypePc'
<1>1. CASE SendOpen(s) \/ SendAbort(s) \/ SendDeliver(s) \/ OpenBox(s) \/ LeaveBox(s)
          \/ MailUnlink(s) \/ RangeRefused(s) \/ NewStart(s) \/ NewLast(s) \/
          NewKeep(s) \/ NewUnlink(s) \/ NewRefused(s) \/ NewDone(s) \/ PopLogin(s) \/
          Rset(s) \/ PopUnlink(s) \/ (\E i \in 1..Len(page[s]) : MailDelFails(s, i))
          \/ (\E i \in 1..Len(page[s]) : Dele(s, i)) \/
          (\E i1 \in 1..(Len(page[s]) + 1), i2 \in 1..(Len(page[s]) + 1) : RangeCopy(s, i1, i2))
  BY <1>1 DEF Chooses, CopyRefused, Dele, Goto, LeaveBox, MailDelFails, MailUnlink,
       NewDone, NewKeep, NewLast, NewRefused, NewStart, NewUnlink, OpenBox,
       PopLogin, PopUnlink, RangeCopy, RangeRefused, Redraw, Reread, Rset,
       SendAbort, SendDeliver, SendOpen, TypePc, Label, InNew, InSwap, index, side,
       local, history
<1>2. CASE SwapFails(s)
  BY <1>2, TypePc DEF SwapFails, SwapDone, Goto, TypePc, Label, InNew, InSwap,
     index, side, local, history
<1>3. CASE SwapIn(s)
  BY <1>3, TypePc DEF SwapIn, SwapDone, Goto, TypePc, Label, InNew, InSwap, index,
     side, local, history
<1>4. CASE SwapAway(s)
  BY <1>4, TypePc DEF SwapAway, Goto, TypePc, Label, InNew, InSwap, index, side,
     local, history
<1>5. CASE NewNext(s)
  BY <1>5, TypePc DEF NewNext, Goto, TypePc, Label, InNew, InSwap, index, side,
     local, history
<1>6. CASE PopLeave(s)
  BY <1>6, TypePc DEF PopLeave, PopForgets, Goto, TypePc, Label, InNew, InSwap,
     index, side, local, history
<1>7. CASE PopRename(s)
  BY <1>7, TypePc DEF PopRename, PopForgets, Goto, TypePc, Label, InNew, InSwap,
     index, side, local, history
<1>8. CASE Hangup(s)
  BY <1>8, TypePc DEF Hangup, Goto, TypePc, Label, InNew, InSwap, index, side,
     local, history
<1>9. ASSUME NEW i \in 1..Len(page[s]), MailRead(s, i)
      PROVE  TypePc'
  BY <1>9, TypePc DEF MailRead, WriteLine, Redraw, Substitute, Chooses, TypePc,
     Label, InNew, InSwap, index, side, local, history
<1>10. ASSUME NEW i \in 1..Len(page[s]), MailMark(s, i)
      PROVE  TypePc'
  BY <1>10, TypePc DEF MailMark, WriteLine, Redraw, Substitute, Chooses, TypePc,
     Label, InNew, InSwap, index, side, local, history
<1>11. CASE NewRead(s)
  BY <1>11, TypePc DEF NewRead, Substitute, Goto, TypePc, Label, InNew, InSwap,
     index, side, local, history
<1>12. CASE PopCopy(s)
  BY <1>12, TypePc DEF PopCopy, Goto, TypePc, Label, InNew, InSwap, index, side,
     local, history
<1>13. ASSUME NEW i \in 1..Len(page[s]), MailDel(s, i)
      PROVE  TypePc'
  BY <1>13, TypePc DEF MailDel, Goto, Chooses, TypePc, Label, InNew, InSwap, index,
     side, local, history
<1>14. CASE NewCopy(s)
  BY <1>14, TypePc DEF NewCopy, Goto, TypePc, Label, InNew, InSwap, index, side,
     local, history
<1> QED
  BY <1>1, <1>2, <1>3, <1>4, <1>5, <1>6, <1>7, <1>8, <1>9, <1>10, <1>11, <1>12, <1>13,
     <1>14 DEF Act

LEMMA StepPage ==
  ASSUME Typed, NEW s \in Session, Act(s)
  PROVE  TypePage'
<1>0. TypeIndex /\ TypePage
  BY DEF Typed
<1>00. dir \in Seq(Header) /\ dir' \in Seq(Header)
  BY <1>0, StepIndex DEF TypeIndex
<1>1. CASE SendOpen(s) \/ SendAbort(s) \/ SendDeliver(s) \/ SwapAway(s) \/ NewStart(s)
          \/ NewNext(s) \/ NewLast(s) \/ NewRead(s) \/ NewKeep(s) \/ NewUnlink(s) \/
          NewCopy(s) \/ NewRefused(s) \/ NewDone(s) \/ Rset(s) \/ PopCopy(s) \/
          PopUnlink(s) \/ (\E i \in 1..Len(page[s]) : MailDel(s, i)) \/
          (\E i \in 1..Len(page[s]) : Dele(s, i)) \/
          (\E i1 \in 1..(Len(page[s]) + 1), i2 \in 1..(Len(page[s]) + 1) : RangeCopy(s, i1, i2))
  BY <1>1, <1>0, <1>00 DEF Chooses, CopyRefused, Dele, Goto, MailDel, NewCopy,
       NewDone, NewKeep, NewLast, NewNext, NewRead, NewRefused, NewStart, NewUnlink,
       PopCopy, PopUnlink, RangeCopy, Rset, SendAbort, SendDeliver, SendOpen,
       Substitute, SwapAway, TypePage, index, side, local, history
<1>2. CASE OpenBox(s)
  BY <1>2, <1>0, <1>00, EmptySeq DEF OpenBox, Goto, Reread, TypePage, index, side,
     local, history
<1>3. CASE LeaveBox(s)
  BY <1>3, <1>0, <1>00, EmptySeq DEF LeaveBox, TypePage, index, side, local, history
<1>4. ASSUME NEW i \in 1..Len(page[s]), MailRead(s, i)
      PROVE  TypePage'
  <2> DEFINE h == [page[s][i] EXCEPT !.read = TRUE]
  <2>1. page[s] \in Seq(Header) /\ page[s][i] \in Header
    BY <1>0, Line
  <2>2. h \in Header
    BY <2>1, Headers
  <2> HIDE DEF h
  <2>3. [page[s] EXCEPT ![i] = h] \in Seq(Header)
    BY <2>1, <2>2, ExceptSeq
  <2>4. page' = [page EXCEPT ![s] = dir'] \/ page' = [page EXCEPT ![s] = [page[s] EXCEPT ![i] = h]]
    BY <1>4 DEF MailRead, Redraw, h
  <2> QED
    BY <1>0, <1>00, <2>3, <2>4 DEF TypePage
<1>5. ASSUME NEW i \in 1..Len(page[s]), MailMark(s, i)
      PROVE  TypePage'
  <2> DEFINE h == [page[s][i] EXCEPT !.marked = ~@]
  <2>1. page[s] \in Seq(Header) /\ page[s][i] \in Header
    BY <1>0, Line
  <2>2. h \in Header
    BY <2>1, Headers
  <2> HIDE DEF h
  <2>3. [page[s] EXCEPT ![i] = h] \in Seq(Header)
    BY <2>1, <2>2, ExceptSeq
  <2>4. page' = [page EXCEPT ![s] = dir'] \/ page' = [page EXCEPT ![s] = [page[s] EXCEPT ![i] = h]]
    BY <1>5 DEF MailMark, Redraw, h
  <2> QED
    BY <1>0, <1>00, <2>3, <2>4 DEF TypePage
<1>6. ASSUME NEW i \in 1..Len(page[s]), MailDelFails(s, i)
      PROVE  TypePage'
  BY <1>6, <1>0, <1>00, EmptySeq DEF MailDelFails, Redraw, Chooses, TypePage, index,
     side, local, history
<1>7. CASE MailUnlink(s)
  BY <1>7, <1>0, <1>00, EmptySeq DEF MailUnlink, Goto, Reread, TypePage, index,
     side, local, history
<1>8. CASE RangeRefused(s)
  BY <1>8, <1>0, <1>00, EmptySeq DEF RangeRefused, Goto, Reread, TypePage, index,
     side, local, history
<1>9. CASE SwapFails(s)
  BY <1>9, <1>0, <1>00, EmptySeq DEF SwapFails, SwapDone, Goto, TypePage, index,
     side, local, history
<1>10. CASE SwapIn(s)
  BY <1>10, <1>0, <1>00, EmptySeq DEF SwapIn, SwapDone, Goto, TypePage, index, side,
     local, history
<1>11. CASE PopLogin(s)
  BY <1>11, <1>0, <1>00, EmptySeq DEF PopLogin, Goto, Reread, TypePage, index, side,
     local, history
<1>12. CASE PopLeave(s)
  BY <1>12, <1>0, <1>00, EmptySeq DEF PopLeave, PopForgets, Goto, TypePage, index,
     side, local, history
<1>13. CASE PopRename(s)
  BY <1>13, <1>0, <1>00, EmptySeq DEF PopRename, PopForgets, Goto, TypePage, index,
     side, local, history
<1>14. CASE Hangup(s)
  BY <1>14, <1>0, <1>00, EmptySeq DEF Hangup, Goto, TypePage, index, side, local,
     history
<1> QED
  BY <1>1, <1>2, <1>3, <1>4, <1>5, <1>6, <1>7, <1>8, <1>9, <1>10, <1>11, <1>12, <1>13,
     <1>14 DEF Act

LEMMA Elsewhere ==
  ASSUME Typed, NEW s \in Session, Act(s)
  PROVE
    \A q \in Session \ {s} : /\ pc'[q] = pc[q] /\ page'[q] = page[q] /\ dele'[q] = dele[q]
                             /\ work'[q] = work[q] /\ noted'[q] = noted[q]
<1>0. /\ pc = [q \in Session |-> pc[q]] /\ page = [q \in Session |-> page[q]]
      /\ dele = [q \in Session |-> dele[q]] /\ work = [q \in Session |-> work[q]]
      /\ noted = [q \in Session |-> noted[q]]
  BY DEF Typed, TypePc, TypePage, TypeDele, TypeWork, TypeNoted
<1>1. CASE SendOpen(s) \/ SendAbort(s) \/ SendDeliver(s) \/ OpenBox(s) \/ LeaveBox(s)
          \/ MailUnlink(s) \/ RangeRefused(s) \/ SwapAway(s) \/ SwapFails(s)
  BY <1>1, <1>0 DEF Goto, LeaveBox, MailUnlink, OpenBox, RangeRefused, Reread,
     SendAbort, SendDeliver, SendOpen, SwapAway, SwapDone, SwapFails, index, side,
     local, history
<1>2. CASE SwapIn(s) \/ NewStart(s) \/ NewNext(s) \/ NewLast(s) \/ NewRead(s) \/
          NewKeep(s) \/ NewUnlink(s) \/ NewCopy(s) \/ NewRefused(s)
  BY <1>2, <1>0 DEF CopyRefused, Goto, NewCopy, NewKeep, NewLast, NewNext, NewRead,
     NewRefused, NewStart, NewUnlink, Substitute, SwapDone, SwapIn, index, side,
     local, history
<1>3. CASE NewDone(s) \/ PopLogin(s) \/ Rset(s) \/ PopLeave(s) \/ PopCopy(s) \/
          PopUnlink(s) \/ PopRename(s) \/ Hangup(s) \/
          (\E i \in 1..Len(page[s]) : MailRead(s, i))
  BY <1>3, <1>0 DEF Chooses, Goto, Hangup, MailRead, NewDone, PopCopy, PopForgets,
     PopLeave, PopLogin, PopRename, PopUnlink, Redraw, Reread, Rset, Substitute,
     WriteLine, index, side, local, history
<1>4. CASE (\E i \in 1..Len(page[s]) : MailMark(s, i)) \/
          (\E i \in 1..Len(page[s]) : MailDel(s, i)) \/
          (\E i \in 1..Len(page[s]) : MailDelFails(s, i)) \/
          (\E i \in 1..Len(page[s]) : Dele(s, i)) \/
          (\E i1 \in 1..(Len(page[s]) + 1), i2 \in 1..(Len(page[s]) + 1) : RangeCopy(s, i1, i2))
  BY <1>4, <1>0 DEF Chooses, Dele, Goto, MailDel, MailDelFails, MailMark, RangeCopy,
     Redraw, Substitute, WriteLine, index, side, local, history
<1> QED
  BY <1>1, <1>2, <1>3, <1>4 DEF Act

LEMMA StepDele ==
  ASSUME Typed, NEW s \in Session, Act(s)
  PROVE  TypeDele'
<1>0. /\ TypePc /\ TypePage /\ TypeDele
      /\ \A q \in Session \ {s} : /\ pc'[q] = pc[q] /\ page'[q] = page[q]
                                 /\ dele'[q] = dele[q]
  BY Elsewhere DEF Typed
<1>00. ASSUME dele' = dele, pc[s] \notin InPop PROVE TypeDele'
  BY <1>0, <1>00 DEF TypeDele
<1>01. ASSUME dele' = [dele EXCEPT ![s] = {}] PROVE TypeDele'
  BY <1>0, <1>01 DEF TypeDele
<1>02. ASSUME dele' = dele, page' = page, pc'[s] \in InPop PROVE TypeDele'
  BY <1>0, <1>02 DEF TypeDele
<1>1. CASE SendOpen(s) \/ SendAbort(s) \/ SendDeliver(s) \/ OpenBox(s) \/ LeaveBox(s)
          \/ MailUnlink(s) \/ RangeRefused(s) \/ SwapAway(s) \/ SwapFails(s) \/
          SwapIn(s) \/ NewStart(s) \/ NewNext(s)
  BY <1>1, <1>00 DEF LeaveBox, MailUnlink, NewNext, NewStart, OpenBox, RangeRefused,
     Reread, SendAbort, SendDeliver, SendOpen, SwapAway, SwapDone, SwapFails,
     SwapIn, InPop, InNew, local
<1>2. CASE NewLast(s) \/ NewRead(s) \/ NewKeep(s) \/ NewUnlink(s) \/ NewCopy(s) \/
          NewRefused(s) \/ NewDone(s) \/ (\E i \in 1..Len(page[s]) : MailRead(s, i))
          \/ (\E i \in 1..Len(page[s]) : MailMark(s, i)) \/
          (\E i \in 1..Len(page[s]) : MailDel(s, i)) \/
          (\E i \in 1..Len(page[s]) : MailDelFails(s, i)) \/
          (\E i1 \in 1..(Len(page[s]) + 1), i2 \in 1..(Len(page[s]) + 1) : RangeCopy(s, i1, i2))
  BY <1>2, <1>00 DEF Chooses, CopyRefused, MailDel, MailDelFails, MailMark,
     MailRead, NewCopy, NewDone, NewKeep, NewLast, NewRead, NewRefused, NewUnlink,
     RangeCopy, Redraw, Substitute, WriteLine, InPop, InNew, local
<1>3. CASE PopLogin(s)
  <2>1. dele[s] = {} /\ dele' = dele
    BY <1>3, <1>0 DEF PopLogin, TypeDele, InPop
  <2> QED
    BY <1>0, <2>1 DEF TypeDele
<1>4. CASE Rset(s)
  BY <1>4, <1>01 DEF Rset
<1>5. CASE PopLeave(s)
  BY <1>5, <1>01 DEF PopLeave, PopForgets
<1>6. CASE PopCopy(s)
  BY <1>6, <1>0, <1>02 DEF PopCopy, Goto, TypePc, InPop, local
<1>7. CASE PopUnlink(s)
  BY <1>7, <1>0, <1>02 DEF PopUnlink, Goto, TypePc, InPop, local
<1>8. CASE PopRename(s)
  BY <1>8, <1>01 DEF PopRename, PopForgets
<1>9. CASE Hangup(s)
  BY <1>9, <1>01 DEF Hangup
<1>10. ASSUME NEW i \in 1..Len(page[s]), Dele(s, i)
      PROVE  TypeDele'
  <2>1. i \in Nat /\ Len(page[s]) \in Nat
    BY <1>0, LenProperties DEF TypePage
  <2>2. dele' = [dele EXCEPT ![s] = dele[s] \cup {i}] /\ page' = page /\ pc' = pc
    BY <1>10 DEF Dele
  <2>3. pc[s] = "pop" /\ dele[s] \cup {i} \in SUBSET (1..Len(page[s]))
    BY <1>10, <1>0 DEF Dele, TypeDele
  <2>4. dele[s] \cup {i} \in SUBSET Nat
    BY <2>1, <2>3
  <2> QED
    BY <1>0, <2>2, <2>3, <2>4 DEF TypeDele, InPop
<1> QED
  BY <1>1, <1>2, <1>3, <1>4, <1>5, <1>6, <1>7, <1>8, <1>9, <1>10 DEF Act

LEMMA StepWork ==
  ASSUME Typed, NEW s \in Session, Act(s)
  PROVE  TypeWork'
<1>0. /\ TypePc /\ TypePage /\ TypeIndex /\ TypeFd /\ TypeWork
      /\ \A q \in Session \ {s} : pc'[q] = pc[q] /\ work'[q] = work[q]
  BY Elsewhere DEF Typed
<1>00. ASSUME work' = work, pc'[s] \notin {"ask", "shown", "edit"} \/ pc'[s] = pc[s]
       PROVE  TypeWork'
  BY <1>0, <1>00 DEF TypeWork
<1>01. ASSUME work' = [work EXCEPT ![s] = NoWork], pc'[s] \notin {"ask", "shown", "edit"}
       PROVE  TypeWork'
  BY <1>0, <1>01, Works DEF TypeWork
<1>1. CASE OpenBox(s) \/ LeaveBox(s) \/ RangeRefused(s) \/ SwapAway(s) \/
          SwapFails(s) \/ SwapIn(s) \/ NewStart(s) \/ NewKeep(s) \/ NewUnlink(s) \/
          NewCopy(s)
  BY <1>1, <1>0, <1>00 DEF Goto, LeaveBox, NewCopy, NewKeep, NewStart, NewUnlink,
     OpenBox, RangeRefused, Reread, SwapAway, SwapDone, SwapFails, SwapIn, TypePc,
     InNew, local
<1>2. CASE NewRefused(s) \/ NewDone(s) \/ PopLogin(s) \/ Rset(s) \/ PopUnlink(s) \/
          (\E i \in 1..Len(page[s]) : MailRead(s, i)) \/
          (\E i \in 1..Len(page[s]) : MailMark(s, i)) \/
          (\E i \in 1..Len(page[s]) : MailDelFails(s, i)) \/
          (\E i \in 1..Len(page[s]) : Dele(s, i)) \/
          (\E i1 \in 1..(Len(page[s]) + 1), i2 \in 1..(Len(page[s]) + 1) : RangeCopy(s, i1, i2))
  BY <1>2, <1>0, <1>00 DEF Chooses, CopyRefused, Dele, Goto, MailDelFails, MailMark,
     MailRead, NewDone, NewRefused, PopLogin, PopUnlink, RangeCopy, Redraw, Reread,
     Rset, Substitute, WriteLine, TypePc, InNew, local
<1>3. CASE SendAbort(s) \/ SendDeliver(s) \/ MailUnlink(s) \/ NewLast(s) \/
          PopLeave(s) \/ PopRename(s) \/ Hangup(s)
  BY <1>3, <1>0, <1>01 DEF Goto, Hangup, MailUnlink, NewLast, PopForgets, PopLeave,
     PopRename, Reread, SendAbort, SendDeliver, TypePc
<1>4. CASE SendOpen(s)
  <2>1. last + 1 \in Mail
    BY <1>4, MailboxAssumption DEF SendOpen, Typed, TypeFiles, Mail
  <2>2. [hdr |-> NewHeader(last + 1), ent |-> 0] \in [hdr : Header, ent : Nat]
    BY <2>1, Headers, Works
  <2> QED
    BY <1>4, <1>0, <2>1, <2>2 DEF SendOpen, NewHeader, Goto, TypeWork, TypePc
<1>5. CASE NewNext(s)
  <2> DEFINE i == work[s].ent + 1
  <2>1. i \in 1..Len(Reads(s)) /\ i \in Nat /\ i >= 1
    BY <1>5, <1>0 DEF NewNext, TypeWork
  <2>2. Reads(s) \in Seq(Header)
    BY <1>0 DEF Reads, TypeIndex, TypeFd
  <2>3. Reads(s)[i] \in Header
    BY <2>1, <2>2, ElementOfSeq
  <2> DEFINE w == [hdr |-> Reads(s)[i], ent |-> i]
  <2>4. w \in [hdr : Header, ent : Nat] /\ w.ent >= 1
    BY <2>1, <2>3
  <2>5. work' = [work EXCEPT ![s] = w]
    BY <1>5 DEF NewNext
  <2>6. pc'[s] \in {"new", "ask"}
    BY <1>5, <1>0 DEF NewNext, Goto, TypePc
  <2> HIDE DEF w
  <2> QED
    BY <1>0, <2>4, <2>5, <2>6 DEF TypeWork
<1>6. CASE NewRead(s)
  <2>1. [work[s].hdr EXCEPT !.read = TRUE] \in Header
    BY <1>0, Headers DEF TypeWork
  <2>2. work[s].ent \in Nat /\ work[s].ent >= 1
    BY <1>6, <1>0 DEF NewRead, TypeWork
  <2>3. pc'[s] = "shown"
    BY <1>6, <1>0 DEF NewRead, Goto, TypePc
  <2> QED
    BY <1>6, <1>0, <2>1, <2>2, <2>3 DEF NewRead, TypeWork
<1>7. CASE PopCopy(s)
  <2>1. Len(Without(dir, dele[s])) \in Nat
    BY <1>0, WithoutProperties DEF TypeIndex
  <2>2. [hdr |-> ZeroHeader, ent |-> Len(Without(dir, dele[s]))] \in [hdr : Header, ent : Nat]
    BY <2>1, Works, Headers
  <2> QED
    BY <1>7, <1>0, <2>2 DEF PopCopy, Goto, TypeWork, TypePc
<1>8. ASSUME NEW i \in 1..Len(page[s]), MailDel(s, i)
      PROVE  TypeWork'
  <2>1. [hdr |-> page[s][i], ent |-> i] \in [hdr : Header, ent : Nat]
    BY <1>0, Line, Works
  <2> QED
    BY <1>8, <1>0, <2>1 DEF MailDel, Goto, TypeWork, TypePc
<1> QED
  BY <1>1, <1>2, <1>3, <1>4, <1>5, <1>6, <1>7, <1>8 DEF Act

LEMMA StepNoted ==
  ASSUME Typed, NEW s \in Session, Act(s)
  PROVE  TypeNoted'
<1>0. TypeNoted /\ TypeWork /\ TypePc
  BY DEF Typed
<1>1. CASE SendOpen(s) \/ SendAbort(s) \/ SendDeliver(s) \/ OpenBox(s) \/ LeaveBox(s)
          \/ MailUnlink(s) \/ RangeRefused(s) \/ NewStart(s) \/ NewNext(s)
  BY <1>1, <1>0 DEF Goto, LeaveBox, MailUnlink, NewNext, NewStart, OpenBox,
     RangeRefused, Reread, SendAbort, SendDeliver, SendOpen, TypeNoted, TypePc,
     InNew, index, side, local, history
<1>2. CASE NewLast(s) \/ NewRead(s) \/ NewKeep(s) \/ NewDone(s) \/ PopLogin(s) \/
          Rset(s) \/ PopLeave(s) \/ PopCopy(s) \/ PopUnlink(s)
  BY <1>2, <1>0 DEF Goto, NewDone, NewKeep, NewLast, NewRead, PopCopy, PopForgets,
     PopLeave, PopLogin, PopUnlink, Reread, Rset, Substitute, TypeNoted, TypePc,
     InNew, index, side, local, history
<1>3. CASE PopRename(s) \/ (\E i \in 1..Len(page[s]) : MailRead(s, i)) \/
          (\E i \in 1..Len(page[s]) : MailMark(s, i)) \/
          (\E i \in 1..Len(page[s]) : MailDel(s, i)) \/
          (\E i \in 1..Len(page[s]) : MailDelFails(s, i)) \/
          (\E i \in 1..Len(page[s]) : Dele(s, i)) \/
          (\E i1 \in 1..(Len(page[s]) + 1), i2 \in 1..(Len(page[s]) + 1) : RangeCopy(s, i1, i2))
  BY <1>3, <1>0 DEF Chooses, Dele, Goto, MailDel, MailDelFails, MailMark, MailRead,
     PopForgets, PopRename, RangeCopy, Redraw, Substitute, WriteLine, TypeNoted,
     TypePc, InNew, index, side, local, history
<1>4. CASE SwapAway(s)
  BY <1>4, <1>0, EmptySeq DEF SwapAway, Goto, TypeNoted, TypePc, InNew, index, side,
     local, history
<1>5. CASE SwapFails(s)
  <2>1. CASE pc[s] = "swap"
    BY <1>5, <1>0, <2>1 DEF SwapFails, SwapDone, Goto, TypeNoted, TypePc
  <2>2. CASE pc[s] = "newswap"
    <3>1. noted[s] # <<>>
      BY <1>0, <2>2 DEF TypeNoted
    <3>2. noted' = [noted EXCEPT ![s] = Rest(noted[s])] /\ Goto(s, "newdel")
      BY <1>5, <2>2 DEF SwapFails, SwapDone
    <3> QED
      BY <1>0, <3>1, <3>2, Dropped
  <2> QED
    BY <1>5, <2>1, <2>2 DEF SwapFails
<1>6. CASE SwapIn(s)
  <2>1. CASE pc[s] = "rename"
    BY <1>6, <1>0, <2>1 DEF SwapIn, SwapDone, Goto, TypeNoted, TypePc
  <2>2. CASE pc[s] = "newrename"
    <3>1. noted[s] # <<>>
      BY <1>0, <2>2 DEF TypeNoted
    <3>2. noted' = [noted EXCEPT ![s] = Rest(noted[s])] /\ Goto(s, "newdel")
      BY <1>6, <2>2 DEF SwapIn, SwapDone
    <3> QED
      BY <1>0, <3>1, <3>2, Dropped
  <2> QED
    BY <1>6, <2>1, <2>2 DEF SwapIn
<1>7. CASE NewUnlink(s)
  <2> DEFINE e == [ent |-> work[s].ent, file |-> work[s].hdr.file]
  <2>1. e \in Note /\ e.ent >= 1
    <3>1. work[s].ent \in Nat /\ work[s].ent >= 1 /\ work[s].hdr \in Header
      BY <1>7, <1>0 DEF NewUnlink, TypeWork
    <3> QED
      BY <3>1, Headers DEF Note
  <2>2. noted' = [noted EXCEPT ![s] = Append(noted[s], e)]
    BY <1>7 DEF NewUnlink
  <2> HIDE DEF e
  <2>3. noted[s] \in Seq(Note)
    BY <1>0 DEF TypeNoted
  <2>4. /\ Append(noted[s], e) \in Seq(Note)
        /\ \A k \in 1..Len(Append(noted[s], e)) : Append(noted[s], e)[k].ent >= 1
    BY <1>0, <2>1, <2>3, AppendProperties, LenProperties DEF TypeNoted
  <2>5. pc' = [pc EXCEPT ![s] = "new"]
    BY <1>7 DEF NewUnlink, Goto
  <2> QED
    BY <1>0, <2>2, <2>4, <2>5 DEF TypeNoted, TypePc
<1>8. CASE NewCopy(s)
  BY <1>8, <1>0, EmptySeq DEF NewCopy, Goto, TypeNoted, TypePc, InNew, index, side,
     local, history
<1>9. CASE NewRefused(s)
  <2>1. noted[s] # <<>> /\ noted' = [noted EXCEPT ![s] = Rest(noted[s])]
    BY <1>9 DEF NewRefused
  <2>2. Goto(s, "newdel")
    BY <1>9, <1>0 DEF NewRefused, Goto, TypePc
  <2> QED
    BY <1>0, <2>1, <2>2, Dropped
<1>10. CASE Hangup(s)
  <2>1. noted' = [noted EXCEPT ![s] = <<>>] /\ pc' = [pc EXCEPT ![s] = "idle"]
    BY <1>10 DEF Hangup, Goto
  <2> QED
    BY <1>0, <2>1, EmptySeq DEF TypeNoted, TypePc
<1> QED
  BY <1>1, <1>2, <1>3, <1>4, <1>5, <1>6, <1>7, <1>8, <1>9, <1>10 DEF Act

LEMMA StepFd ==
  ASSUME Typed, NEW s \in Session, Act(s)
  PROVE  TypeFd'
<1>0. TypeFd /\ TypeIndex
  BY DEF Typed
<1>00. Frozen \in [Session -> [live : BOOLEAN, recs : Seq(Header)]]
  BY <1>0 DEF Frozen, TypeFd, TypeIndex
<1>01. Live \in [live : BOOLEAN, recs : Seq(Header)]
  BY EmptySeq DEF Live
<1>1. CASE SendOpen(s) \/ SendAbort(s) \/ SendDeliver(s) \/ OpenBox(s) \/ LeaveBox(s)
          \/ MailUnlink(s) \/ RangeRefused(s) \/ SwapFails(s) \/ NewNext(s)
  BY <1>1, <1>0 DEF Goto, LeaveBox, MailUnlink, NewNext, OpenBox, RangeRefused,
     Reread, SendAbort, SendDeliver, SendOpen, SwapDone, SwapFails, TypeFd, index,
     side, local, history
<1>2. CASE NewRead(s) \/ NewKeep(s) \/ NewUnlink(s) \/ NewCopy(s) \/ NewRefused(s) \/
          NewDone(s) \/ PopLogin(s) \/ Rset(s) \/ PopLeave(s)
  BY <1>2, <1>0 DEF CopyRefused, Goto, NewCopy, NewDone, NewKeep, NewRead,
     NewRefused, NewUnlink, PopForgets, PopLeave, PopLogin, Reread, Rset,
     Substitute, TypeFd, index, side, local, history
<1>3. CASE PopCopy(s) \/ (\E i \in 1..Len(page[s]) : MailRead(s, i)) \/
          (\E i \in 1..Len(page[s]) : MailMark(s, i)) \/
          (\E i \in 1..Len(page[s]) : MailDel(s, i)) \/
          (\E i \in 1..Len(page[s]) : MailDelFails(s, i)) \/
          (\E i \in 1..Len(page[s]) : Dele(s, i)) \/
          (\E i1 \in 1..(Len(page[s]) + 1), i2 \in 1..(Len(page[s]) + 1) : RangeCopy(s, i1, i2))
  BY <1>3, <1>0 DEF Chooses, Dele, Goto, MailDel, MailDelFails, MailMark, MailRead,
     PopCopy, RangeCopy, Redraw, Substitute, WriteLine, TypeFd, index, side, local,
     history
<1>4. CASE SwapAway(s)
  BY <1>4, <1>0, <1>00, <1>01 DEF SwapAway, TypeFd, local
<1>5. CASE SwapIn(s)
  BY <1>5, <1>0, <1>00, <1>01 DEF SwapIn, TypeFd, local
<1>6. CASE NewStart(s)
  BY <1>6, <1>0, <1>00, <1>01 DEF NewStart, TypeFd, local
<1>7. CASE NewLast(s)
  BY <1>7, <1>0, <1>00, <1>01 DEF NewLast, TypeFd, local
<1>8. CASE PopUnlink(s)
  BY <1>8, <1>0, <1>00, <1>01 DEF PopUnlink, TypeFd, local
<1>9. CASE PopRename(s)
  BY <1>9, <1>0, <1>00, <1>01 DEF PopRename, TypeFd, local
<1>10. CASE Hangup(s)
  BY <1>10, <1>0, <1>00, <1>01 DEF Hangup, TypeFd, local
<1> QED
  BY <1>1, <1>2, <1>3, <1>4, <1>5, <1>6, <1>7, <1>8, <1>9, <1>10 DEF Act

LEMMA StepHistory ==
  ASSUME Typed, NEW s \in Session, Act(s)
  PROVE  TypeHistory'
<1>0. TypeHistory /\ TypeIndex /\ TypePage /\ TypeWork
  BY DEF Typed
<1>1. CASE SendOpen(s) \/ SendAbort(s) \/ LeaveBox(s) \/ NewNext(s) \/ NewLast(s) \/
          NewKeep(s) \/ NewDone(s) \/ Rset(s) \/ PopLeave(s) \/
          (\E i \in 1..Len(page[s]) : Dele(s, i))
  BY <1>1, <1>0 DEF Dele, Goto, LeaveBox, NewDone, NewKeep, NewLast, NewNext,
       PopForgets, PopLeave, Rset, SendAbort, SendOpen, TypeHistory, index, side,
       local, history
<1>2. CASE OpenBox(s) \/ MailUnlink(s) \/ RangeRefused(s) \/ SwapAway(s) \/
          SwapFails(s) \/ SwapIn(s) \/ NewStart(s) \/ NewCopy(s) \/ NewRefused(s) \/
          PopLogin(s) \/ PopUnlink(s) \/ PopRename(s) \/
          (\E i \in 1..Len(page[s]) : MailDelFails(s, i))
  BY <1>2, <1>0 DEF Chooses, CopyRefused, MailDelFails, MailUnlink, NewCopy,
     NewRefused, NewStart, OpenBox, PopForgets, PopLogin, PopRename, PopUnlink,
     RangeRefused, Redraw, Reread, SwapAway, SwapDone, SwapFails, SwapIn, MovedBy,
     TypeHistory, history
<1>3. CASE SendDeliver(s)
  <2>1. work[s].hdr.file \in Mail
    BY <1>3, <1>0 DEF SendDeliver, TypeWork
  <2> QED
    BY <1>3, <1>0, <2>1 DEF SendDeliver, TypeHistory
<1>4. ASSUME NEW i \in 1..Len(page[s]), MailRead(s, i)
      PROVE  TypeHistory'
  BY <1>4, <1>0 DEF MailRead, WriteLine, Substitute, Redraw, Missed, TypeHistory
<1>5. ASSUME NEW i \in 1..Len(page[s]), MailMark(s, i)
      PROVE  TypeHistory'
  BY <1>5, <1>0 DEF MailMark, WriteLine, Substitute, Redraw, Missed, TypeHistory
<1>6. ASSUME NEW i \in 1..Len(page[s]), MailDel(s, i)
      PROVE  TypeHistory'
  <2>1. page[s][i].file \in {0} \cup Mail
    BY <1>0, Line, Headers
  <2> QED
    BY <1>6, <1>0, <2>1 DEF MailDel, MovedBy, TypeHistory
<1>7. ASSUME NEW i1 \in 1..(Len(page[s]) + 1), NEW i2 \in 1..(Len(page[s]) + 1), RangeCopy(s, i1, i2)
      PROVE  TypeHistory'
  <2>1. Listed(dir) \subseteq {0} \cup Mail
    BY <1>0, ListedIn DEF TypeIndex
  <2>2. {dir[i].file : i \in Cut(i1, i2)} \subseteq Listed(dir)
    BY DEF Cut, Listed
  <2>3. asked' = asked \cup {dir[i].file : i \in Cut(i1, i2)}
    BY <1>7 DEF RangeCopy
  <2>4. astray' \in BOOLEAN
    BY <1>7, <1>0 DEF RangeCopy, TypeHistory
  <2> QED
    BY <1>7, <1>0, <2>1, <2>2, <2>3, <2>4 DEF RangeCopy, TypeHistory
<1>8. CASE NewRead(s)
  BY <1>8, <1>0 DEF NewRead, Substitute, Missed, TypeHistory
<1>9. CASE NewUnlink(s)
  <2>1. work[s].hdr.file \in {0} \cup Mail
    BY <1>0, Headers DEF TypeWork
  <2> QED
    BY <1>9, <1>0, <2>1 DEF NewUnlink, TypeHistory
<1>10. CASE PopCopy(s)
  <2>1. \A i \in dele[s] : page[s][i].file \in {0} \cup Mail
    <3>1. dele[s] \subseteq 1..Len(page[s])
      BY DEF Typed, TypeDele
    <3> QED
      BY <1>0, <3>1, Line, Headers
  <2>2. asked' = asked \cup {page[s][i].file : i \in dele[s]}
    BY <1>10 DEF PopCopy
  <2>3. astray' \in BOOLEAN
    BY <1>10, <1>0 DEF PopCopy, TypeHistory
  <2> QED
    BY <1>10, <1>0, <2>1, <2>2, <2>3 DEF PopCopy, TypeHistory
<1>11. CASE Hangup(s)
  BY <1>11, <1>0 DEF Hangup, TypeHistory
<1> QED
  BY <1>1, <1>2, <1>3, <1>4, <1>5, <1>6, <1>7, <1>8, <1>9, <1>10, <1>11 DEF Act

LEMMA StepLocks ==
  ASSUME Typed, NEW s \in Session, Act(s)
  PROVE  Locks'
<1>0. /\ TypePc /\ Locks
      /\ \A q \in Session \ {s} : pc'[q] = pc[q]
  BY Elsewhere DEF Typed
<1>00. ASSUME dellock' = dellock, tmpfile' = tmpfile, pc'[s] \in Lockers <=> pc[s] \in Lockers
       PROVE  Locks'
  BY <1>0, <1>00 DEF Locks
<1>01. ASSUME dellock = {}, dellock' = dellock \cup {s}, tmpfile'.exists, pc'[s] \in Lockers
       PROVE  Locks'
  BY <1>0, <1>01 DEF Locks
<1>02. ASSUME pc[s] \in Lockers, dellock' = dellock \ {s}, pc'[s] \notin Lockers PROVE Locks'
  BY <1>0, <1>02 DEF Locks
<1>1. CASE SendOpen(s) \/ SendAbort(s) \/ SendDeliver(s) \/ OpenBox(s) \/ LeaveBox(s)
          \/ MailUnlink(s) \/ RangeRefused(s) \/ NewStart(s) \/ NewNext(s)
  BY <1>1, <1>0, <1>00 DEF Goto, LeaveBox, MailUnlink, NewNext, NewStart, OpenBox,
     RangeRefused, Reread, SendAbort, SendDeliver, SendOpen, TypePc, Lockers, InNew,
     index, side, local, history
<1>2. CASE NewLast(s) \/ NewRead(s) \/ NewKeep(s) \/ NewUnlink(s) \/ NewRefused(s) \/
          NewDone(s) \/ PopLogin(s) \/ Rset(s) \/ PopLeave(s)
  BY <1>2, <1>0, <1>00 DEF CopyRefused, Goto, NewDone, NewKeep, NewLast, NewRead,
     NewRefused, NewUnlink, PopForgets, PopLeave, PopLogin, Reread, Rset,
     Substitute, TypePc, Lockers, InNew, index, side, local, history
<1>3. CASE PopCopy(s) \/ PopUnlink(s) \/ PopRename(s) \/
          (\E i \in 1..Len(page[s]) : MailRead(s, i)) \/
          (\E i \in 1..Len(page[s]) : MailMark(s, i)) \/
          (\E i \in 1..Len(page[s]) : MailDel(s, i)) \/
          (\E i \in 1..Len(page[s]) : MailDelFails(s, i)) \/
          (\E i \in 1..Len(page[s]) : Dele(s, i))
  BY <1>3, <1>0, <1>00 DEF Chooses, Dele, Goto, MailDel, MailDelFails, MailMark,
     MailRead, PopCopy, PopForgets, PopRename, PopUnlink, Redraw, Substitute,
     WriteLine, TypePc, Lockers, InNew, index, side, local, history
<1>4. ASSUME NEW i1 \in 1..(Len(page[s]) + 1), NEW i2 \in 1..(Len(page[s]) + 1), RangeCopy(s, i1, i2)
      PROVE  Locks'
  BY <1>4, <1>0, <1>01 DEF RangeCopy, MayCopy, Goto, TypePc, Lockers
<1>5. CASE NewCopy(s)
  BY <1>5, <1>0, <1>01 DEF NewCopy, MayCopy, Goto, TypePc, Lockers
<1>6. CASE SwapFails(s)
  BY <1>6, <1>0, <1>02 DEF SwapFails, SwapDone, Goto, TypePc, Lockers
<1>7. CASE SwapIn(s)
  BY <1>7, <1>0, <1>02 DEF SwapIn, SwapDone, Goto, TypePc, Lockers
<1>8. CASE Hangup(s)
  <2>1. pc'[s] \notin Lockers /\ dellock' = dellock \ {s} /\ tmpfile' = tmpfile
    BY <1>8, <1>0 DEF Hangup, Goto, TypePc, Lockers
  <2>2. CASE pc[s] \in Lockers
    BY <1>02, <2>1, <2>2
  <2>3. CASE pc[s] \notin Lockers
    <3>1. s \notin dellock
      BY <1>0, <2>3 DEF Locks
    <3>2. dellock' = dellock
      BY <2>1, <3>1
    <3> QED
      BY <1>00, <2>1, <2>3, <3>2
  <2> QED
    BY <2>2, <2>3
<1>9. CASE SwapAway(s)
  BY <1>9, <1>0, <1>00 DEF SwapAway, Goto, TypePc, Lockers, side
<1> QED
  BY <1>1, <1>2, <1>3, <1>4, <1>5, <1>6, <1>7, <1>8, <1>9 DEF Act

LEMMA StepTyped == Typed /\ [Next]_vars => Typed'
<1> SUFFICES ASSUME Typed, [Next]_vars PROVE Typed'
  OBVIOUS
<1>1. ASSUME NEW s \in Session, Step(s)
      PROVE  Typed'
  <2>1. Act(s) /\ TypePc
    BY <1>1, StepActs DEF Typed
  <2>2. TypeIndex' /\ TypeFiles' /\ TypeCopies' /\ TypePc' /\ TypePage' /\ TypeDele'
    BY <2>1, StepIndex, StepFiles, StepCopies, StepPc, StepPage, StepDele
  <2>3. TypeWork' /\ TypeNoted' /\ TypeFd' /\ TypeHistory' /\ Locks'
    BY <2>1, StepWork, StepNoted, StepFd, StepHistory, StepLocks
  <2> QED
    BY <2>2, <2>3 DEF Typed
<1>2. CASE UNCHANGED vars
  <2>1. /\ TypeIndex' /\ TypeFiles' /\ TypeCopies' /\ TypePc' /\ TypePage' /\ TypeDele'
    BY <1>2 DEF vars, index, side, local, Typed, TypeIndex, TypeFiles, TypeCopies,
       TypePc, TypePage, TypeDele
  <2>2. TypeWork' /\ TypeNoted' /\ TypeFd' /\ TypeHistory' /\ Locks'
    BY <1>2 DEF vars, index, side, local, history, Typed, TypeWork, TypeNoted, TypeFd,
       TypeHistory, Locks
  <2> QED
    BY <2>1, <2>2 DEF Typed
<1> QED
  BY <1>1, <1>2 DEF Next

LEMMA InitTyped == Init => Typed
<1> SUFFICES ASSUME Init PROVE Typed
  OBVIOUS
<1>1. /\ InitBox \in Seq(Header) /\ Len(InitBox) \in Nat
      /\ 1..Len(InitBox) \subseteq Mail /\ Len(InitBox) \in 0..MaxMail
  <2> DEFINE R == [file : Mail, read : BOOLEAN, marked : BOOLEAN]
  <2>1. InitBox \in Seq(R) /\ Len(InitBox) \in Nat
    BY MailboxAssumption, LenProperties
  <2>2. \A i \in 1..Len(InitBox) : InitBox[i] \in R /\ InitBox[i].file = i
    BY <2>1, MailboxAssumption, ElementOfSeq
  <2>3. \A i \in 1..Len(InitBox) : InitBox[i] \in Header /\ i \in Mail
    BY <2>2 DEF Header
  <2>4. InitBox \in Seq(Header)
    <3>1. InitBox = [i \in 1..Len(InitBox) |-> InitBox[i]]
      BY <2>1, LenProperties
    <3> QED
      BY <2>1, <2>3, <3>1, SeqDef
  <2>5. Len(InitBox) <= MaxMail
    BY <2>1, <2>3, MailboxAssumption DEF Mail
  <2> QED
    BY <2>1, <2>3, <2>4, <2>5, MailboxAssumption
<1>2. TypeIndex /\ TypeFiles /\ TypeHistory
  BY <1>1 DEF Init, TypeIndex, TypeFiles, TypeHistory
<1>3. TypeCopies /\ TypePage /\ TypeFd
  BY EmptySeq DEF Init, TypeCopies, TypePage, TypeFd, NoTmp, Live
<1>4. TypePc /\ \A s \in Session : pc[s] = "idle"
  BY DEF Init, TypePc, Label
<1>5. TypeDele
  BY EmptySeq DEF Init, TypeDele
<1>6. TypeWork
  BY <1>4, Works DEF Init, TypeWork
<1>7. TypeNoted /\ Locks
  BY <1>4, EmptySeq DEF Init, TypeNoted, Locks, Lockers
<1> QED
  BY <1>2, <1>3, <1>4, <1>5, <1>6, <1>7 DEF Typed

LEMMA TypedAlways == Spec => []Typed
BY InitTyped, StepTyped, PTL DEF Spec

LEMMA TypedTypeOK == Typed => TypeOK
<1> SUFFICES ASSUME Typed PROVE TypeOK
  OBVIOUS
<1>1. dellock \subseteq Session /\ Cardinality(dellock) <= 1
  <2>1. dellock \subseteq Session
    BY DEF Typed, Locks
  <2>2. CASE dellock = {}
    BY <2>1, <2>2, FS_EmptySet
  <2>3. CASE \E s \in Session : dellock = {s}
    BY <2>1, <2>3, FS_Singleton
  <2> QED
    BY <2>2, <2>3 DEF Typed, Locks
<1>2. /\ pc \in [Session -> {"idle", "edit", "unlink", "newdel", "pop"} \cup InNew \cup InSwap]
      /\ role \in Roles
  BY DEF Typed, TypePc, Label
<1>3. exists \in BOOLEAN /\ dir \in Seq(Header) /\ (~exists => dir = <<>>)
  BY DEF Typed, TypeIndex
<1>4. files \subseteq Mail /\ last \in 0..MaxMail
  BY DEF Typed, TypeFiles
<1>5. /\ tmpfile \in [exists : BOOLEAN, recs : Seq(Header)]
      /\ popdir \in [exists : BOOLEAN, recs : Seq(Header)]
  BY DEF Typed, TypeCopies
<1>6. page \in [Session -> Seq(Header)] /\ dele \in [Session -> SUBSET Nat]
  BY DEF Typed, TypePage, TypeDele
<1>7. /\ work \in [Session -> [hdr : Header, ent : Nat]]
      /\ noted \in [Session -> Seq([ent : Nat, file : {0} \cup Mail])]
      /\ fd \in [Session -> [live : BOOLEAN, recs : Seq(Header)]]
  BY DEF Typed, TypeWork, TypeNoted, Note, TypeFd
<1>8. TypeHistory
  BY DEF Typed
<1> QED
  BY <1>1, <1>2, <1>3, <1>4, <1>5, <1>6, <1>7, <1>8 DEF TypeOK, TypeHistory

(* The types of Mailbox.tla, and that at most one process holds .dellock,     *)
(* with whatever roles, processes and first index.                          *)
THEOREM MailboxTypeCorrect == Spec => []TypeOK
BY TypedAlways, TypedTypeOK, PTL

-----------------------------------------------------------------------------
(* Names.  Whatever a session knows of a name, it has from the index or from  *)
(* its own draft: so nobody can touch the text of somebody's draft, and what *)
(* a deletion removes is what was asked for.                                 *)
Names == {0} \cup delivered

KnownIndex ==
  /\ delivered \subseteq 1..last /\ asked \subseteq Names
  /\ Listed(dir) \subseteq Names
  /\ Listed(tmpfile.recs) \subseteq Names /\ Listed(popdir.recs) \subseteq Names

KnownTo(s) ==
  /\ Listed(page[s]) \subseteq Names /\ Listed(fd[s].recs) \subseteq Names
  /\ pc[s] # "edit" => work[s].hdr.file \in Names
  /\ pc[s] = "unlink" => work[s].hdr.file \in asked
  /\ \A k \in 1..Len(noted[s]) : noted[s][k].file \in asked

(* A mail being written: nobody else has its name, and its text is there.    *)
Draft(s) == pc[s] = "edit" =>
  /\ work[s].hdr.file \in (files \cap (1..last)) \ delivered
  /\ \A q \in Session \ {s} : pc[q] = "edit" => work[q].hdr.file # work[s].hdr.file

Known == KnownIndex /\ \A s \in Session : KnownTo(s) /\ Draft(s)

LEMMA ListedEmpty == Listed(<<>>) = {}
BY EmptySeq DEF Listed

LEMMA ListedAppend ==
  ASSUME NEW R, NEW f \in Seq(R), NEW h \in R
  PROVE  Listed(Append(f, h)) = Listed(f) \cup {h.file}
<1>1. /\ Len(f) \in Nat /\ Len(Append(f, h)) = Len(f) + 1
      /\ \A i \in 1..Len(f) : Append(f, h)[i] = f[i]
      /\ Append(f, h)[Len(f) + 1] = h
  BY LenProperties, AppendProperties
<1>2. Listed(Append(f, h)) \subseteq Listed(f) \cup {h.file}
  <2>1. \A i \in 1..(Len(f) + 1) : i \in 1..Len(f) \/ i = Len(f) + 1
    BY <1>1
  <2> QED
    BY <1>1, <2>1 DEF Listed
<1>3. Listed(f) \cup {h.file} \subseteq Listed(Append(f, h))
  <2>1. Len(f) + 1 \in 1..(Len(f) + 1) /\ 1..Len(f) \subseteq 1..(Len(f) + 1)
    BY <1>1
  <2> QED
    BY <1>1, <2>1 DEF Listed
<1> QED
  BY <1>2, <1>3

LEMMA ListedSubstitute ==
  ASSUME NEW f \in Seq(Header), NEW h \in Header, NEW i \in Nat \ {0}
  PROVE  Listed(SubstituteRecord(f, h, i, ZeroHeader)) \subseteq Listed(f) \cup {0, h.file}
<1> DEFINE n == IF i > Len(f) THEN i ELSE Len(f)
           e(j) == IF j = i THEN h ELSE IF j <= Len(f) THEN f[j] ELSE ZeroHeader
           g == [j \in 1..n |-> e(j)]
<1>1. Len(f) \in Nat /\ n \in Nat
  BY LenProperties
<1>2. SubstituteRecord(f, h, i, ZeroHeader) = g
  BY DEF SubstituteRecord
<1>3. Len(g) = n
  <2>1. \A j \in 1..n : e(j) \in Header
    BY <1>1, ElementOfSeq, Headers
  <2>2. g \in [1..n -> Header]
    BY <2>1
  <2>3. g \in Seq(Header)
    BY <1>1, <2>2, SeqDef
  <2>4. DOMAIN g = 1..n
    OBVIOUS
  <2>5. DOMAIN g = 1..Len(g) /\ Len(g) \in Nat
    BY <2>3, LenProperties
  <2> HIDE DEF g, n
  <2> QED
    BY <1>1, <2>4, <2>5
<1>4. \A j \in 1..n : g[j].file \in Listed(f) \cup {0, h.file}
  BY <1>1 DEF Listed, ZeroHeader
<1> HIDE DEF g, n
<1> QED
  BY <1>2, <1>3, <1>4 DEF Listed

LEMMA ListedDelete ==
  ASSUME NEW f \in Seq(Header)
  PROVE  /\ \A i \in Nat, n \in {0} \cup Mail : Listed(DeleteFile(f, i, n)) \subseteq Listed(f)
         /\ \A i \in Nat \ {0} : Listed(DeleteRecord(f, i)) \subseteq Listed(f)
         /\ \A i, j \in Nat : Listed(DeleteRange(f, i, j)) \subseteq Listed(f)
         /\ \A S : Listed(Without(f, S)) \subseteq Listed(f)
<1>1. Len(f) \in Nat
  BY LenProperties
<1>2. ASSUME NEW i \in Nat, NEW n \in {0} \cup Mail
      PROVE  Listed(DeleteFile(f, i, n)) \subseteq Listed(f)
  BY DeleteFileFrom DEF Listed
<1>3. ASSUME NEW i \in Nat \ {0} PROVE Listed(DeleteRecord(f, i)) \subseteq Listed(f)
  <2>1. CASE i <= Len(f)
    BY <1>1, <2>1, DropRecordFrom DEF DeleteRecord, Listed
  <2>2. CASE ~(i <= Len(f))
    BY <2>2 DEF DeleteRecord
  <2> QED
    BY <2>1, <2>2
<1>4. ASSUME NEW i \in Nat, NEW j \in Nat
      PROVE  Listed(DeleteRange(f, i, j)) \subseteq Listed(f)
  BY DeleteRangeFrom DEF Listed
<1>5. ASSUME NEW S PROVE Listed(Without(f, S)) \subseteq Listed(f)
  BY WithoutFrom DEF Listed
<1> QED
  BY <1>2, <1>3, <1>4, <1>5

LEMMA ListedOverwrite ==
  ASSUME NEW old \in Seq(Header), NEW new \in Seq(Header)
  PROVE  Listed(Overwrite(old, new)) \subseteq Listed(old) \cup Listed(new)
<1> DEFINE t == SubSeq(old, Len(new) + 1, Len(old))
           m == IF Len(new) + 1 <= Len(old) THEN Len(old) - (Len(new) + 1) + 1 ELSE 0
<1>1. Len(old) \in Nat /\ Len(new) \in Nat /\ \A i \in 1..Len(old) : old[i] \in Header
  BY LenProperties, ElementOfSeq
<1>2. /\ t \in Seq(Header) /\ Len(t) = m
      /\ \A i \in 1..m : t[i] = old[Len(new) + 1 + i - 1]
  <2>1. \A i \in (Len(new) + 1)..Len(old) : old[i] \in Header
    BY <1>1
  <2>2. /\ t \in Seq(Header) /\ Len(t) = m
    BY <1>1, <2>1, SubSeqProperties
  <2>3. CASE Len(new) + 1 <= Len(old)
    BY <1>1, <2>1, <2>2, <2>3, SubSeqProperties
  <2>4. CASE ~(Len(new) + 1 <= Len(old))
    BY <1>1, <2>2, <2>4
  <2> QED
    BY <2>2, <2>3, <2>4
<1>3. \A i \in 1..m : Len(new) + 1 + i - 1 \in 1..Len(old)
  BY <1>1
<1>4. Listed(t) \subseteq Listed(old)
  <2> HIDE DEF t, m
  <2> QED
    BY <1>2, <1>3 DEF Listed
<1> HIDE DEF t, m
<1>5. Overwrite(old, new) = new \o t
  BY DEF Overwrite, t
<1>6. Listed(new \o t) \subseteq Listed(new) \cup Listed(t)
  <2>1. /\ Len(new \o t) = Len(new) + Len(t) /\ Len(t) \in Nat
        /\ \A i \in 1..(Len(new) + Len(t)) :
             (new \o t)[i] = IF i <= Len(new) THEN new[i] ELSE t[i - Len(new)]
    BY <1>2, ConcatProperties, LenProperties
  <2>2. \A i \in 1..(Len(new) + Len(t)) :
          IF i <= Len(new) THEN i \in 1..Len(new) ELSE i - Len(new) \in 1..Len(t)
    BY <1>1, <2>1
  <2> QED
    BY <2>1, <2>2 DEF Listed
<1> QED
  BY <1>4, <1>5, <1>6

LEMMA ListedLine ==
  ASSUME NEW f \in Seq(Header), NEW h \in Header, NEW i \in 1..Len(f),
         h.file = f[i].file
  PROVE  Listed([f EXCEPT ![i] = h]) = Listed(f)
<1> DEFINE g == [f EXCEPT ![i] = h]
<1>1. /\ Len(g) = Len(f)
      /\ \A j \in 1..Len(f) : g[j] = IF j = i THEN h ELSE f[j]
  BY ExceptSeq
<1>2. \A j \in 1..Len(f) : g[j].file = f[j].file
  BY <1>1
<1> HIDE DEF g
<1> QED
  BY <1>1, <1>2 DEF Listed

LEMMA LineName ==
  ASSUME TypePage, NEW s \in Session, NEW i \in 1..Len(page[s])
  PROVE  page[s][i].file \in Listed(page[s])
BY DEF Listed

LEMMA StepKnownIndex ==
  ASSUME Typed, Known, NEW s \in Session, Act(s)
  PROVE  KnownIndex'
<1>0. /\ TypeIndex /\ TypePage /\ TypeWork /\ TypeNoted /\ TypeCopies /\ TypeFiles /\ TypeDele
      /\ KnownIndex /\ KnownTo(s) /\ Draft(s)
  BY DEF Typed, Known
<1>1. CASE SendAbort(s) \/ OpenBox(s) \/ LeaveBox(s) \/ MailUnlink(s) \/
          RangeRefused(s) \/ SwapFails(s) \/ NewStart(s) \/ NewNext(s) \/ NewLast(s)
          \/ NewKeep(s) \/ NewRefused(s) \/ NewDone(s) \/ PopLogin(s) \/ Rset(s) \/
          PopLeave(s) \/ Hangup(s) \/ (\E i \in 1..Len(page[s]) : MailDelFails(s, i))
          \/ (\E i \in 1..Len(page[s]) : Dele(s, i))
  BY <1>1, <1>0 DEF Chooses, CopyRefused, Dele, Goto, Hangup, LeaveBox,
       MailDelFails, MailUnlink, NewDone, NewKeep, NewLast, NewNext, NewRefused,
       NewStart, OpenBox, PopForgets, PopLeave, PopLogin, RangeRefused, Redraw,
       Reread, Rset, SendAbort, SwapDone, SwapFails, KnownIndex, Names, index, side,
       local, history
<1>2. CASE SendOpen(s)
  <2>1. last \in Nat /\ last' = last + 1
    BY <1>2, <1>0, MailboxAssumption DEF SendOpen, TypeFiles
  <2>2. 1..last \subseteq 1..last'
    BY <2>1
  <2> QED
    BY <1>2, <1>0, <2>2 DEF SendOpen, KnownIndex, Names, index, side, history
<1>3. CASE SendDeliver(s)
  <2>1. /\ work[s].hdr \in Header /\ work[s].hdr.file \in 1..last
        /\ dir' = Append(dir, work[s].hdr)
        /\ delivered' = delivered \cup {work[s].hdr.file}
    BY <1>3, <1>0 DEF SendDeliver, AppendRecord, TypeWork, Draft
  <2>2. Listed(dir') = Listed(dir) \cup {work[s].hdr.file}
    BY <1>0, <2>1, ListedAppend DEF TypeIndex
  <2> QED
    BY <1>3, <1>0, <2>1, <2>2 DEF SendDeliver, KnownIndex, Names, side
<1>4. ASSUME NEW i \in 1..Len(page[s]), MailRead(s, i)
      PROVE  KnownIndex'
  <2> DEFINE h == [page[s][i] EXCEPT !.read = TRUE]
  <2>1. i \in Nat \ {0} /\ page[s][i] \in Header
    BY <1>0, Line
  <2>2. h \in Header /\ h.file = page[s][i].file
    BY <2>1, Headers
  <2>3. h.file \in Names
    BY <1>0, <2>2, LineName DEF KnownTo
  <2>4. dir' = SubstituteRecord(dir, h, i, ZeroHeader)
    BY <1>4 DEF MailRead, WriteLine, Substitute
  <2> HIDE DEF h
  <2>5. Listed(dir') \subseteq Listed(dir) \cup {0, h.file}
    BY <1>0, <2>1, <2>2, <2>4, ListedSubstitute DEF TypeIndex
  <2> QED
    BY <1>4, <1>0, <2>3, <2>5 DEF MailRead, WriteLine, KnownIndex, Names, side
<1>5. ASSUME NEW i \in 1..Len(page[s]), MailMark(s, i)
      PROVE  KnownIndex'
  <2> DEFINE h == [page[s][i] EXCEPT !.marked = ~@]
  <2>1. i \in Nat \ {0} /\ page[s][i] \in Header
    BY <1>0, Line
  <2>2. h \in Header /\ h.file = page[s][i].file
    BY <2>1, Headers
  <2>3. h.file \in Names
    BY <1>0, <2>2, LineName DEF KnownTo
  <2>4. dir' = SubstituteRecord(dir, h, i, ZeroHeader)
    BY <1>5 DEF MailMark, WriteLine, Substitute
  <2> HIDE DEF h
  <2>5. Listed(dir') \subseteq Listed(dir) \cup {0, h.file}
    BY <1>0, <2>1, <2>2, <2>4, ListedSubstitute DEF TypeIndex
  <2> QED
    BY <1>5, <1>0, <2>3, <2>5 DEF MailMark, WriteLine, KnownIndex, Names, side
<1>6. ASSUME NEW i \in 1..Len(page[s]), MailDel(s, i)
      PROVE  KnownIndex'
  <2>1. i \in Nat /\ page[s][i].file \in {0} \cup Mail
    BY <1>0, Line, Headers
  <2>2. Listed(dir') \subseteq Listed(dir)
    BY <1>6, <1>0, <2>1, ListedDelete DEF MailDel, TypeIndex
  <2> QED
    BY <1>6, <1>0, <2>2 DEF MailDel, KnownIndex, Names, side
<1>7. ASSUME NEW i1 \in 1..(Len(page[s]) + 1), NEW i2 \in 1..(Len(page[s]) + 1), RangeCopy(s, i1, i2)
      PROVE  KnownIndex'
  <2>1. Listed(tmpfile'.recs) \subseteq Listed(dir)
    <3>1. i1 \in Nat /\ i2 \in Nat /\ tmpfile'.recs = DeleteRange(dir, i1, i2)
      BY <1>7 DEF RangeCopy
    <3> QED
      BY <1>0, <3>1, ListedDelete DEF TypeIndex
  <2>2. {dir[i].file : i \in Cut(i1, i2)} \subseteq Listed(dir)
    BY DEF Cut, Listed
  <2>3. asked' = asked \cup {dir[i].file : i \in Cut(i1, i2)}
    BY <1>7 DEF RangeCopy
  <2> QED
    BY <1>7, <1>0, <2>1, <2>2, <2>3 DEF RangeCopy, KnownIndex, Names, index
<1>8. CASE SwapAway(s)
  BY <1>8, <1>0, ListedEmpty DEF SwapAway, KnownIndex, Names, side
<1>9. CASE SwapIn(s)
  BY <1>9, <1>0, ListedEmpty DEF SwapIn, NoTmp, KnownIndex, Names
<1>10. CASE NewRead(s)
  <2> DEFINE h == [work[s].hdr EXCEPT !.read = TRUE]
             i == work[s].ent
  <2>1. i \in Nat \ {0} /\ work[s].hdr \in Header
    BY <1>10, <1>0 DEF NewRead, TypeWork
  <2>2. h \in Header /\ h.file = work[s].hdr.file
    BY <2>1, Headers
  <2>3. h.file \in Names
    BY <1>10, <1>0, <2>2 DEF NewRead, KnownTo
  <2>4. dir' = SubstituteRecord(dir, h, i, ZeroHeader)
    BY <1>10 DEF NewRead, Substitute
  <2> HIDE DEF h, i
  <2>5. Listed(dir') \subseteq Listed(dir) \cup {0, h.file}
    BY <1>0, <2>1, <2>2, <2>4, ListedSubstitute DEF TypeIndex
  <2> QED
    BY <1>10, <1>0, <2>3, <2>5 DEF NewRead, KnownIndex, Names, side
<1>11. CASE NewUnlink(s)
  BY <1>11, <1>0 DEF NewUnlink, KnownIndex, KnownTo, Names, index, side
<1>12. CASE NewCopy(s)
  <2>1. /\ noted[s][Len(noted[s])].ent \in Nat \ {0}
        /\ noted[s][NextNoted(noted[s])] = noted[s][Len(noted[s])]
    BY <1>12, <1>0, LastNoted DEF NewCopy
  <2>2. Listed(tmpfile'.recs) \subseteq Listed(dir)
    <3>1. tmpfile'.recs = DeleteRecord(dir, noted[s][NextNoted(noted[s])].ent)
      BY <1>12 DEF NewCopy
    <3> QED
      BY <1>0, <2>1, <3>1, ListedDelete DEF TypeIndex
  <2> QED
    BY <1>12, <1>0, <2>2 DEF NewCopy, KnownIndex, Names, index
<1>13. CASE PopCopy(s)
  <2> DEFINE keep == Without(dir, dele[s])
  <2>1. keep \in Seq(Header) /\ Listed(keep) \subseteq Listed(dir)
    BY <1>0, WithoutProperties, ListedDelete DEF TypeIndex
  <2>2. popdir'.recs = Overwrite(popdir.recs, keep)
    BY <1>13 DEF PopCopy
  <2> HIDE DEF keep
  <2>3. Listed(popdir'.recs) \subseteq Listed(popdir.recs) \cup Listed(dir)
    BY <1>0, <2>1, <2>2, ListedOverwrite DEF TypeCopies
  <2>4. {page[s][i].file : i \in dele[s]} \subseteq Listed(page[s])
    BY <1>0 DEF TypeDele, Listed
  <2>5. asked' = asked \cup {page[s][i].file : i \in dele[s]}
    BY <1>13 DEF PopCopy
  <2> QED
    BY <1>13, <1>0, <2>3, <2>4, <2>5 DEF PopCopy, KnownIndex, KnownTo, Names, index
<1>14. CASE PopUnlink(s)
  BY <1>14, <1>0, ListedEmpty DEF PopUnlink, KnownIndex, Names, side
<1>15. CASE PopRename(s)
  BY <1>15, <1>0, ListedEmpty DEF PopRename, NoTmp, KnownIndex, Names, index
<1> QED
  BY <1>1, <1>2, <1>3, <1>4, <1>5, <1>6, <1>7, <1>8, <1>9, <1>10, <1>11, <1>12, <1>13,
     <1>14, <1>15 DEF Act

LEMMA Grows ==
  ASSUME Typed, NEW s \in Session, Act(s)
  PROVE  Names \subseteq Names' /\ asked \subseteq asked' /\ delivered \subseteq delivered'
<1>0. s \in Session
  OBVIOUS
<1>1. CASE SendOpen(s) \/ SendAbort(s) \/ SendDeliver(s) \/ OpenBox(s) \/ LeaveBox(s)
          \/ MailUnlink(s) \/ RangeRefused(s) \/ SwapAway(s) \/ SwapFails(s) \/
          SwapIn(s) \/ NewStart(s) \/ NewNext(s) \/ NewLast(s) \/ NewRead(s) \/
          NewKeep(s) \/ NewUnlink(s) \/ NewCopy(s)
  BY <1>1, <1>0 DEF LeaveBox, MailUnlink, NewCopy, NewKeep, NewLast, NewNext,
     NewRead, NewStart, NewUnlink, OpenBox, RangeRefused, Reread, SendAbort,
     SendDeliver, SendOpen, Substitute, SwapAway, SwapDone, SwapFails, SwapIn,
     Names, history
<1>2. CASE NewRefused(s) \/ NewDone(s) \/ PopLogin(s) \/ Rset(s) \/ PopLeave(s) \/
          PopCopy(s) \/ PopUnlink(s) \/ PopRename(s) \/ Hangup(s) \/
          (\E i \in 1..Len(page[s]) : MailRead(s, i)) \/
          (\E i \in 1..Len(page[s]) : MailMark(s, i)) \/
          (\E i \in 1..Len(page[s]) : MailDel(s, i)) \/
          (\E i \in 1..Len(page[s]) : MailDelFails(s, i)) \/
          (\E i \in 1..Len(page[s]) : Dele(s, i)) \/
          (\E i1 \in 1..(Len(page[s]) + 1), i2 \in 1..(Len(page[s]) + 1) : RangeCopy(s, i1, i2))
  BY <1>2, <1>0 DEF Chooses, CopyRefused, Dele, Hangup, MailDel, MailDelFails,
     MailMark, MailRead, NewDone, NewRefused, PopCopy, PopForgets, PopLeave,
     PopLogin, PopRename, PopUnlink, RangeCopy, Redraw, Reread, Rset, Substitute,
     WriteLine, Names, history
<1> QED
  BY <1>1, <1>2 DEF Act

LEMMA FdElsewhere ==
  ASSUME Typed, NEW s \in Session, Act(s)
  PROVE
    \A q \in Session \ {s} :
      \/ fd'[q] = fd[q]
      \/ /\ pc[q] \in InNew /\ fd'[q] = [live |-> FALSE, recs |-> dir]
         /\ fd[q].live /\ q \in moved'
<1>0. TypeFd
  BY DEF Typed
<1>1. CASE SendOpen(s) \/ SendAbort(s) \/ SendDeliver(s) \/ OpenBox(s) \/ LeaveBox(s)
          \/ MailUnlink(s) \/ RangeRefused(s) \/ SwapFails(s) \/ NewNext(s) \/
          NewRead(s) \/ NewKeep(s) \/ NewUnlink(s) \/ NewCopy(s) \/ NewRefused(s)
  BY <1>1, <1>0 DEF CopyRefused, LeaveBox, MailUnlink, NewCopy, NewKeep, NewNext,
     NewRead, NewRefused, NewUnlink, OpenBox, RangeRefused, Reread, SendAbort,
     SendDeliver, SendOpen, Substitute, SwapDone, SwapFails, local
<1>2. CASE NewDone(s) \/ PopLogin(s) \/ Rset(s) \/ PopLeave(s) \/ PopCopy(s) \/
          (\E i \in 1..Len(page[s]) : MailRead(s, i)) \/
          (\E i \in 1..Len(page[s]) : MailMark(s, i)) \/
          (\E i \in 1..Len(page[s]) : MailDel(s, i)) \/
          (\E i \in 1..Len(page[s]) : MailDelFails(s, i)) \/
          (\E i \in 1..Len(page[s]) : Dele(s, i)) \/
          (\E i1 \in 1..(Len(page[s]) + 1), i2 \in 1..(Len(page[s]) + 1) : RangeCopy(s, i1, i2))
  BY <1>2, <1>0 DEF Chooses, Dele, MailDel, MailDelFails, MailMark, MailRead,
     NewDone, PopCopy, PopForgets, PopLeave, PopLogin, RangeCopy, Redraw, Reread,
     Rset, Substitute, WriteLine, local
<1>3. CASE SwapAway(s)
  BY <1>3, <1>0 DEF SwapAway, Frozen, MovedBy, TypeFd, local
<1>4. CASE SwapIn(s)
  BY <1>4, <1>0 DEF SwapIn, Frozen, MovedBy, TypeFd, local
<1>5. CASE PopUnlink(s)
  BY <1>5, <1>0 DEF PopUnlink, Frozen, MovedBy, TypeFd, local
<1>6. CASE PopRename(s)
  BY <1>6, <1>0 DEF PopRename, Frozen, MovedBy, TypeFd, local
<1>7. CASE NewStart(s)
  BY <1>7, <1>0 DEF NewStart, Frozen, MovedBy, TypeFd, local
<1>8. CASE NewLast(s)
  BY <1>8, <1>0 DEF NewLast, Frozen, MovedBy, TypeFd, local
<1>9. CASE Hangup(s)
  BY <1>9, <1>0 DEF Hangup, Frozen, MovedBy, TypeFd, local
<1> QED
  BY <1>1, <1>2, <1>3, <1>4, <1>5, <1>6, <1>7, <1>8, <1>9 DEF Act

LEMMA PageNames ==
  ASSUME Typed, NEW s \in Session, Act(s)
  PROVE  Listed(page'[s]) \subseteq Listed(page[s]) \cup Listed(dir) \cup Listed(dir')
<1>0. TypePage
  BY DEF Typed
<1>1. CASE SendOpen(s) \/ SendAbort(s) \/ SendDeliver(s) \/ SwapAway(s) \/
          NewStart(s) \/ NewNext(s) \/ NewLast(s) \/ NewRead(s) \/ NewKeep(s) \/
          NewUnlink(s)
  BY <1>1, <1>0 DEF NewKeep, NewLast, NewNext, NewRead, NewStart, NewUnlink,
     SendAbort, SendDeliver, SendOpen, Substitute, SwapAway, local
<1>2. CASE NewCopy(s) \/ NewRefused(s) \/ NewDone(s) \/ Rset(s) \/ PopCopy(s) \/
          PopUnlink(s) \/ (\E i \in 1..Len(page[s]) : MailDel(s, i)) \/
          (\E i \in 1..Len(page[s]) : Dele(s, i)) \/
          (\E i1 \in 1..(Len(page[s]) + 1), i2 \in 1..(Len(page[s]) + 1) : RangeCopy(s, i1, i2))
  BY <1>2, <1>0 DEF Chooses, CopyRefused, Dele, MailDel, NewCopy, NewDone,
     NewRefused, PopCopy, PopUnlink, RangeCopy, Rset, local
<1>3. CASE OpenBox(s) \/ LeaveBox(s) \/
          (\E i \in 1..Len(page[s]) : MailDelFails(s, i)) \/ MailUnlink(s) \/
          RangeRefused(s) \/ SwapFails(s)
  BY <1>3, <1>0, ListedEmpty DEF Chooses, LeaveBox, MailDelFails, MailUnlink,
     OpenBox, RangeRefused, Redraw, Reread, SwapDone, SwapFails, TypePage, local,
     index
<1>4. CASE SwapIn(s) \/ PopLogin(s) \/ PopLeave(s) \/ PopRename(s) \/ Hangup(s)
  BY <1>4, <1>0, ListedEmpty DEF Hangup, PopForgets, PopLeave, PopLogin, PopRename,
     Reread, SwapDone, SwapIn, TypePage, local, index
<1>5. ASSUME NEW i \in 1..Len(page[s]), MailRead(s, i)
      PROVE  Listed(page'[s]) \subseteq Listed(page[s]) \cup Listed(dir) \cup Listed(dir')
  <2> DEFINE h == [page[s][i] EXCEPT !.read = TRUE]
  <2>1. page[s] \in Seq(Header) /\ page[s][i] \in Header
    BY <1>0, Line
  <2>2. h \in Header /\ h.file = page[s][i].file
    BY <2>1, Headers
  <2> HIDE DEF h
  <2>3. Listed([page[s] EXCEPT ![i] = h]) = Listed(page[s])
    BY <2>1, <2>2, ListedLine
  <2>4. page' = [page EXCEPT ![s] = dir'] \/ page' = [page EXCEPT ![s] = [page[s] EXCEPT ![i] = h]]
    BY <1>5 DEF MailRead, Redraw, h
  <2> QED
    BY <1>0, <2>3, <2>4 DEF TypePage
<1>6. ASSUME NEW i \in 1..Len(page[s]), MailMark(s, i)
      PROVE  Listed(page'[s]) \subseteq Listed(page[s]) \cup Listed(dir) \cup Listed(dir')
  <2> DEFINE h == [page[s][i] EXCEPT !.marked = ~@]
  <2>1. page[s] \in Seq(Header) /\ page[s][i] \in Header
    BY <1>0, Line
  <2>2. h \in Header /\ h.file = page[s][i].file
    BY <2>1, Headers
  <2> HIDE DEF h
  <2>3. Listed([page[s] EXCEPT ![i] = h]) = Listed(page[s])
    BY <2>1, <2>2, ListedLine
  <2>4. page' = [page EXCEPT ![s] = dir'] \/ page' = [page EXCEPT ![s] = [page[s] EXCEPT ![i] = h]]
    BY <1>6 DEF MailMark, Redraw, h
  <2> QED
    BY <1>0, <2>3, <2>4 DEF TypePage
<1> QED
  BY <1>1, <1>2, <1>3, <1>4, <1>5, <1>6 DEF Act

LEMMA WorkNames ==
  ASSUME Typed, Known, NEW s \in Session, Act(s)
  PROVE
    /\ pc'[s] # "edit" => work'[s].hdr.file \in Names'
    /\ pc'[s] = "unlink" => work'[s].hdr.file \in asked'
<1>0. /\ TypePc /\ TypePage /\ TypeIndex /\ TypeFd /\ TypeWork /\ KnownIndex /\ KnownTo(s)
      /\ Names \subseteq Names' /\ asked \subseteq asked'
  BY Grows DEF Typed, Known
<1>00. ASSUME work' = [work EXCEPT ![s] = NoWork], pc'[s] # "unlink"
       PROVE  /\ pc'[s] # "edit" => work'[s].hdr.file \in Names'
              /\ pc'[s] = "unlink" => work'[s].hdr.file \in asked'
  BY <1>0, <1>00 DEF TypeWork, NoWork, ZeroHeader, Names
<1>01. ASSUME work' = work, pc[s] # "edit" \/ pc'[s] = "edit",
              pc'[s] # "unlink" \/ pc[s] = "unlink"
       PROVE  /\ pc'[s] # "edit" => work'[s].hdr.file \in Names'
              /\ pc'[s] = "unlink" => work'[s].hdr.file \in asked'
  BY <1>0, <1>01 DEF KnownTo
<1>1. CASE OpenBox(s) \/ LeaveBox(s) \/ RangeRefused(s) \/ SwapAway(s) \/
          SwapFails(s) \/ SwapIn(s) \/ NewStart(s) \/ NewKeep(s) \/ NewUnlink(s) \/
          NewCopy(s)
  BY <1>1, <1>0, <1>01 DEF Goto, LeaveBox, NewCopy, NewKeep, NewStart, NewUnlink,
     OpenBox, RangeRefused, Reread, SwapAway, SwapDone, SwapFails, SwapIn, TypePc,
     KnownTo, InNew, local
<1>2. CASE NewRefused(s) \/ NewDone(s) \/ PopLogin(s) \/ Rset(s) \/ PopUnlink(s) \/
          (\E i \in 1..Len(page[s]) : MailRead(s, i)) \/
          (\E i \in 1..Len(page[s]) : MailMark(s, i)) \/
          (\E i \in 1..Len(page[s]) : MailDelFails(s, i)) \/
          (\E i \in 1..Len(page[s]) : Dele(s, i)) \/
          (\E i1 \in 1..(Len(page[s]) + 1), i2 \in 1..(Len(page[s]) + 1) : RangeCopy(s, i1, i2))
  BY <1>2, <1>0, <1>01 DEF Chooses, CopyRefused, Dele, Goto, MailDelFails, MailMark,
     MailRead, NewDone, NewRefused, PopLogin, PopUnlink, RangeCopy, Redraw, Reread,
     Rset, Substitute, WriteLine, TypePc, KnownTo, InNew, local
<1>3. CASE NewLast(s) \/ SendAbort(s) \/ SendDeliver(s) \/ MailUnlink(s) \/
          PopLeave(s) \/ PopRename(s) \/ Hangup(s)
  BY <1>3, <1>0, <1>00 DEF Goto, Hangup, MailUnlink, NewLast, PopForgets, PopLeave,
     PopRename, Reread, SendAbort, SendDeliver, TypePc
<1>4. CASE SendOpen(s)
  BY <1>4, <1>0 DEF SendOpen, Goto, TypePc
<1>5. ASSUME NEW i \in 1..Len(page[s]), MailDel(s, i)
      PROVE
        /\ pc'[s] # "edit" => work'[s].hdr.file \in Names'
        /\ pc'[s] = "unlink" => work'[s].hdr.file \in asked'
  <2>1. page[s][i].file \in Names /\ work'[s].hdr.file = page[s][i].file
    BY <1>5, <1>0, LineName DEF MailDel, KnownTo, TypeWork
  <2> QED
    BY <1>5, <1>0, <2>1 DEF MailDel, KnownTo
<1>6. CASE NewNext(s)
  <2> DEFINE i == work[s].ent + 1
  <2>1. i \in 1..Len(Reads(s)) /\ pc'[s] # "unlink" /\ work'[s].hdr = Reads(s)[i]
    BY <1>6, <1>0 DEF NewNext, Goto, TypePc, TypeWork
  <2>2. Reads(s)[i].file \in Listed(Reads(s))
    BY <2>1 DEF Listed
  <2>3. Listed(Reads(s)) \subseteq Names
    BY <1>0 DEF Reads, KnownIndex, KnownTo
  <2> QED
    BY <1>0, <2>1, <2>2, <2>3
<1>7. CASE NewRead(s)
  <2>1. work[s].hdr.file \in Names /\ work[s].hdr \in Header
    BY <1>7, <1>0 DEF NewRead, KnownTo, TypeWork
  <2>2. work'[s].hdr.file = work[s].hdr.file /\ pc'[s] # "unlink"
    BY <1>7, <1>0, <2>1, Headers DEF NewRead, Goto, TypePc, TypeWork
  <2> QED
    BY <1>0, <2>1, <2>2
<1>8. CASE PopCopy(s)
  BY <1>8, <1>0 DEF PopCopy, Goto, TypePc, TypeWork, ZeroHeader, Names
<1> QED
  BY <1>1, <1>2, <1>3, <1>4, <1>5, <1>6, <1>7, <1>8 DEF Act

LEMMA NotedNames ==
  ASSUME Typed, Known, NEW s \in Session, Act(s)
  PROVE  \A k \in 1..Len(noted'[s]) : noted'[s][k].file \in asked'
<1>0. TypePc /\ TypeNoted /\ TypeWork /\ KnownTo(s) /\ asked \subseteq asked'
  BY Grows DEF Typed, Known
<1>00. ASSUME noted[s] # <<>>, noted' = [noted EXCEPT ![s] = Rest(noted[s])]
       PROVE  \A k \in 1..Len(noted'[s]) : noted'[s][k].file \in asked'
  <2>1. noted[s] \in Seq(Note) /\ Len(noted[s]) \in Nat /\ noted'[s] = Rest(noted[s])
    BY <1>0, <1>00, LenProperties DEF TypeNoted
  <2>2. /\ Len(Rest(noted[s])) = Len(noted[s]) - 1
        /\ \A k \in 1..(Len(noted[s]) - 1) : Rest(noted[s])[k] = noted[s][k]
    BY <1>00, <2>1, RestProperties
  <2> QED
    BY <1>0, <2>1, <2>2 DEF KnownTo
<1>01. ASSUME noted' = noted PROVE \A k \in 1..Len(noted'[s]) : noted'[s][k].file \in asked'
  BY <1>0, <1>01 DEF KnownTo
<1>1. CASE SendOpen(s) \/ SendAbort(s) \/ SendDeliver(s) \/ OpenBox(s) \/ LeaveBox(s)
          \/ MailUnlink(s) \/ RangeRefused(s) \/ SwapAway(s) \/ NewStart(s) \/
          NewNext(s)
  BY <1>1, <1>0 DEF LeaveBox, MailUnlink, NewNext, NewStart, OpenBox, RangeRefused,
     Reread, SendAbort, SendDeliver, SendOpen, SwapAway, KnownTo, local
<1>2. CASE NewLast(s) \/ NewRead(s) \/ NewKeep(s) \/ NewCopy(s) \/ NewDone(s) \/
          PopLogin(s) \/ Rset(s) \/ PopLeave(s) \/ PopCopy(s) \/ PopUnlink(s)
  BY <1>2, <1>0 DEF NewCopy, NewDone, NewKeep, NewLast, NewRead, PopCopy,
     PopForgets, PopLeave, PopLogin, PopUnlink, Reread, Rset, Substitute, KnownTo,
     local
<1>3. CASE PopRename(s) \/ (\E i \in 1..Len(page[s]) : MailRead(s, i)) \/
          (\E i \in 1..Len(page[s]) : MailMark(s, i)) \/
          (\E i \in 1..Len(page[s]) : MailDel(s, i)) \/
          (\E i \in 1..Len(page[s]) : MailDelFails(s, i)) \/
          (\E i \in 1..Len(page[s]) : Dele(s, i)) \/
          (\E i1 \in 1..(Len(page[s]) + 1), i2 \in 1..(Len(page[s]) + 1) : RangeCopy(s, i1, i2))
  BY <1>3, <1>0 DEF Chooses, Dele, MailDel, MailDelFails, MailMark, MailRead,
     PopForgets, PopRename, RangeCopy, Redraw, Substitute, WriteLine, KnownTo, local
<1>4. CASE SwapFails(s)
  <2>1. CASE pc[s] = "swap"
    BY <1>4, <1>01, <2>1 DEF SwapFails, SwapDone
  <2>2. CASE pc[s] = "newswap"
    BY <1>4, <1>0, <1>00, <2>2 DEF SwapFails, SwapDone, TypeNoted
  <2> QED
    BY <1>4, <2>1, <2>2 DEF SwapFails
<1>5. CASE SwapIn(s)
  <2>1. CASE pc[s] = "rename"
    BY <1>5, <1>01, <2>1 DEF SwapIn, SwapDone
  <2>2. CASE pc[s] = "newrename"
    BY <1>5, <1>0, <1>00, <2>2 DEF SwapIn, SwapDone, TypeNoted
  <2> QED
    BY <1>5, <2>1, <2>2 DEF SwapIn
<1>6. CASE NewUnlink(s)
  <2> DEFINE e == [ent |-> work[s].ent, file |-> work[s].hdr.file]
  <2>1. noted[s] \in Seq(Note) /\ noted'[s] = Append(noted[s], e)
    BY <1>6, <1>0 DEF NewUnlink, TypeNoted
  <2>2. e.file \in asked'
    BY <1>6 DEF NewUnlink
  <2>3. Len(noted[s]) \in Nat /\ Len(Append(noted[s], e)) = Len(noted[s]) + 1
    BY <2>1, LenProperties, AppendProperties DEF Note
  <2>4. ASSUME NEW k \in 1..(Len(noted[s]) + 1)
        PROVE  Append(noted[s], e)[k] = e \/ (k \in 1..Len(noted[s]) /\ Append(noted[s], e)[k] = noted[s][k])
    BY <2>1, <2>3
  <2> HIDE DEF e
  <2> QED
    BY <1>0, <2>1, <2>2, <2>3, <2>4 DEF KnownTo
<1>7. CASE NewRefused(s)
  BY <1>7, <1>00 DEF NewRefused
<1>8. CASE Hangup(s)
  BY <1>8, <1>0, EmptySeq DEF Hangup, TypeNoted
<1> QED
  BY <1>1, <1>2, <1>3, <1>4, <1>5, <1>6, <1>7, <1>8 DEF Act

LEMMA TextsGone ==
  ASSUME Typed, Known, NEW s \in Session, Act(s)
  PROVE
    \A n \in files \ files' :
      \/ pc[s] = "edit" /\ n = work[s].hdr.file
      \/ n \in Names /\ (n \in asked' \/ astray')
<1>0. /\ TypePage /\ TypeDele /\ TypeIndex /\ KnownIndex /\ KnownTo(s)
      /\ asked \subseteq asked'
  BY Grows DEF Typed, Known
<1>1. CASE SendDeliver(s) \/ OpenBox(s) \/ LeaveBox(s) \/ RangeRefused(s) \/
          SwapAway(s) \/ SwapFails(s) \/ SwapIn(s) \/ NewStart(s) \/ NewNext(s) \/
          NewLast(s) \/ NewRead(s) \/ NewKeep(s) \/ NewCopy(s) \/ NewRefused(s)
  BY <1>1, <1>0 DEF CopyRefused, LeaveBox, NewCopy, NewKeep, NewLast, NewNext,
     NewRead, NewRefused, NewStart, OpenBox, RangeRefused, Reread, SendDeliver,
     Substitute, SwapAway, SwapDone, SwapFails, SwapIn
<1>2. CASE NewDone(s) \/ PopLogin(s) \/ Rset(s) \/ PopLeave(s) \/ PopUnlink(s) \/
          PopRename(s) \/ Hangup(s) \/ (\E i \in 1..Len(page[s]) : MailRead(s, i))
          \/ (\E i \in 1..Len(page[s]) : MailMark(s, i)) \/
          (\E i \in 1..Len(page[s]) : MailDel(s, i)) \/
          (\E i \in 1..Len(page[s]) : MailDelFails(s, i)) \/
          (\E i \in 1..Len(page[s]) : Dele(s, i))
  BY <1>2, <1>0 DEF Chooses, Dele, Hangup, MailDel, MailDelFails, MailMark,
     MailRead, NewDone, PopForgets, PopLeave, PopLogin, PopRename, PopUnlink,
     Redraw, Reread, Rset, Substitute, WriteLine
<1>3. CASE SendOpen(s)
  BY <1>3 DEF SendOpen
<1>4. CASE SendAbort(s)
  BY <1>4 DEF SendAbort
<1>5. CASE MailUnlink(s)
  BY <1>5, <1>0 DEF MailUnlink, KnownTo
<1>6. ASSUME NEW i1 \in 1..(Len(page[s]) + 1), NEW i2 \in 1..(Len(page[s]) + 1), RangeCopy(s, i1, i2)
      PROVE
        \A n \in files \ files' :
          \/ pc[s] = "edit" /\ n = work[s].hdr.file
          \/ n \in Names /\ (n \in asked' \/ astray')
  <2>1. ASSUME NEW n \in files \ files' PROVE n \in Listed(dir) /\ n \in asked'
    <3>1. n \in CutTexts(i1, i2)
      BY <1>6 DEF RangeCopy
    <3>2. asked' = asked \cup CutTexts(i1, i2)
      BY <1>6 DEF RangeCopy, CutTexts
    <3>3. n \in Listed(dir)
      BY <3>1 DEF CutTexts, Cut, Listed
    <3> QED
      BY <3>1, <3>2, <3>3
  <2> QED
    BY <1>0, <2>1 DEF KnownIndex
<1>7. CASE NewUnlink(s)
  BY <1>7, <1>0 DEF NewUnlink, KnownTo
<1>8. CASE PopCopy(s)
  <2>1. ASSUME NEW n \in files \ files' PROVE n \in Listed(dir) /\ (n \in asked' \/ astray')
    <3>1. PICK i \in dele[s] \cap (1..Len(dir)) : n = dir[i].file
      BY <1>8 DEF PopCopy, PopTexts
    <3>2. n \in Listed(dir)
      BY <3>1 DEF Listed
    <3>5. asked' = asked \cup {page[s][j].file : j \in dele[s]}
      BY <1>8 DEF PopCopy
    <3>6. (\E j \in dele[s] : Missed(j, page[s][j].file)) => astray'
      BY <1>8 DEF PopCopy
    <3>3. CASE dir[i].file = page[s][i].file
      BY <3>1, <3>2, <3>3, <3>5
    <3>4. CASE dir[i].file # page[s][i].file
      <4>1. Missed(i, page[s][i].file)
        BY <3>1, <3>4 DEF Missed
      <4> QED
        BY <3>2, <3>6, <4>1
    <3> QED
      BY <3>2, <3>3, <3>4
  <2> QED
    BY <1>0, <2>1 DEF KnownIndex
<1> QED
  BY <1>1, <1>2, <1>3, <1>4, <1>5, <1>6, <1>7, <1>8 DEF Act

LEMMA EditStarts ==
  ASSUME Typed, NEW s \in Session, Act(s)
  PROVE  pc'[s] = "edit" => SendOpen(s)
<1>0. TypePc
  BY DEF Typed
<1>1. CASE SendOpen(s) \/ SendAbort(s) \/ SendDeliver(s) \/ OpenBox(s) \/ LeaveBox(s)
          \/ MailUnlink(s) \/ RangeRefused(s) \/ SwapAway(s)
  BY <1>1, <1>0 DEF Goto, LeaveBox, MailUnlink, OpenBox, RangeRefused, Reread,
     SendAbort, SendDeliver, SendOpen, SwapAway, TypePc, InNew, local
<1>2. CASE SwapFails(s) \/ SwapIn(s) \/ NewStart(s) \/ NewNext(s) \/ NewLast(s) \/
          NewRead(s) \/ NewKeep(s) \/ NewUnlink(s)
  BY <1>2, <1>0 DEF Goto, NewKeep, NewLast, NewNext, NewRead, NewStart, NewUnlink,
     Substitute, SwapDone, SwapFails, SwapIn, TypePc, InNew, local
<1>3. CASE NewCopy(s) \/ NewRefused(s) \/ NewDone(s) \/ PopLogin(s) \/ Rset(s) \/
          PopLeave(s) \/ PopCopy(s) \/ PopUnlink(s)
  BY <1>3, <1>0 DEF CopyRefused, Goto, NewCopy, NewDone, NewRefused, PopCopy,
     PopForgets, PopLeave, PopLogin, PopUnlink, Reread, Rset, TypePc, InNew, local
<1>4. CASE PopRename(s) \/ Hangup(s) \/ (\E i \in 1..Len(page[s]) : MailRead(s, i))
          \/ (\E i \in 1..Len(page[s]) : MailMark(s, i)) \/
          (\E i \in 1..Len(page[s]) : MailDel(s, i)) \/
          (\E i \in 1..Len(page[s]) : MailDelFails(s, i)) \/
          (\E i \in 1..Len(page[s]) : Dele(s, i)) \/
          (\E i1 \in 1..(Len(page[s]) + 1), i2 \in 1..(Len(page[s]) + 1) : RangeCopy(s, i1, i2))
  BY <1>4, <1>0 DEF Chooses, Dele, Goto, Hangup, MailDel, MailDelFails, MailMark,
     MailRead, PopForgets, PopRename, RangeCopy, Redraw, Substitute, WriteLine,
     TypePc, InNew, local
<1> QED
  BY <1>1, <1>2, <1>3, <1>4 DEF Act

LEMMA Delivers ==
  ASSUME Typed, NEW s \in Session, Act(s)
  PROVE
    \/ delivered' = delivered
    \/ pc[s] = "edit" /\ delivered' = delivered \cup {work[s].hdr.file}
<1>0. s \in Session
  OBVIOUS
<1>1. CASE SendOpen(s) \/ SendAbort(s) \/ SendDeliver(s) \/ OpenBox(s) \/ LeaveBox(s)
          \/ MailUnlink(s)
  BY <1>1, <1>0 DEF LeaveBox, MailUnlink, OpenBox, Reread, SendAbort, SendDeliver,
     SendOpen, history
<1>2. CASE RangeRefused(s) \/ SwapAway(s) \/ SwapFails(s) \/ SwapIn(s) \/ NewStart(s)
          \/ NewNext(s)
  BY <1>2, <1>0 DEF NewNext, NewStart, RangeRefused, Reread, SwapAway, SwapDone,
     SwapFails, SwapIn, history
<1>3. CASE NewLast(s) \/ NewRead(s) \/ NewKeep(s) \/ NewUnlink(s) \/ NewCopy(s) \/
          NewRefused(s)
  BY <1>3, <1>0 DEF CopyRefused, NewCopy, NewKeep, NewLast, NewRead, NewRefused,
     NewUnlink, Substitute, history
<1>4. CASE NewDone(s) \/ PopLogin(s) \/ Rset(s) \/ PopLeave(s) \/ PopCopy(s) \/
          PopUnlink(s)
  BY <1>4, <1>0 DEF NewDone, PopCopy, PopForgets, PopLeave, PopLogin, PopUnlink,
     Reread, Rset, history
<1>5. CASE PopRename(s) \/ Hangup(s) \/ (\E i \in 1..Len(page[s]) : MailRead(s, i))
          \/ (\E i \in 1..Len(page[s]) : MailMark(s, i)) \/
          (\E i \in 1..Len(page[s]) : MailDel(s, i)) \/
          (\E i \in 1..Len(page[s]) : MailDelFails(s, i))
  BY <1>5, <1>0 DEF Chooses, Hangup, MailDel, MailDelFails, MailMark, MailRead,
     PopForgets, PopRename, Redraw, Substitute, WriteLine, history
<1>6. CASE (\E i \in 1..Len(page[s]) : Dele(s, i)) \/
          (\E i1 \in 1..(Len(page[s]) + 1), i2 \in 1..(Len(page[s]) + 1) : RangeCopy(s, i1, i2))
  BY <1>6, <1>0 DEF Dele, RangeCopy, history
<1> QED
  BY <1>1, <1>2, <1>3, <1>4, <1>5, <1>6 DEF Act

LEMMA Strays ==
  ASSUME Typed, NEW s \in Session, Act(s)
  PROVE  astray => astray'
<1>0. s \in Session
  OBVIOUS
<1>1. CASE SendOpen(s) \/ SendAbort(s) \/ SendDeliver(s) \/ OpenBox(s) \/ LeaveBox(s)
          \/ MailUnlink(s) \/ RangeRefused(s) \/ SwapAway(s) \/ SwapFails(s) \/
          SwapIn(s) \/ NewStart(s) \/ NewNext(s) \/ NewLast(s) \/ NewRead(s) \/
          NewKeep(s) \/ NewUnlink(s) \/ NewCopy(s)
  BY <1>1, <1>0 DEF LeaveBox, MailUnlink, NewCopy, NewKeep, NewLast, NewNext,
     NewRead, NewStart, NewUnlink, OpenBox, RangeRefused, Reread, SendAbort,
     SendDeliver, SendOpen, Substitute, SwapAway, SwapDone, SwapFails, SwapIn,
     history
<1>2. CASE NewRefused(s) \/ NewDone(s) \/ PopLogin(s) \/ Rset(s) \/ PopLeave(s) \/
          PopCopy(s) \/ PopUnlink(s) \/ PopRename(s) \/ Hangup(s) \/
          (\E i \in 1..Len(page[s]) : MailRead(s, i)) \/
          (\E i \in 1..Len(page[s]) : MailMark(s, i)) \/
          (\E i \in 1..Len(page[s]) : MailDel(s, i)) \/
          (\E i \in 1..Len(page[s]) : MailDelFails(s, i)) \/
          (\E i \in 1..Len(page[s]) : Dele(s, i)) \/
          (\E i1 \in 1..(Len(page[s]) + 1), i2 \in 1..(Len(page[s]) + 1) : RangeCopy(s, i1, i2))
  BY <1>2, <1>0 DEF Chooses, CopyRefused, Dele, Hangup, MailDel, MailDelFails,
     MailMark, MailRead, NewDone, NewRefused, PopCopy, PopForgets, PopLeave,
     PopLogin, PopRename, PopUnlink, RangeCopy, Redraw, Reread, Rset, Substitute,
     WriteLine, history
<1> QED
  BY <1>1, <1>2 DEF Act

LEMMA LastGrows ==
  ASSUME Typed, NEW s \in Session, Act(s)
  PROVE  last' = last \/ (SendOpen(s) /\ last' = last + 1)
<1>0. s \in Session
  OBVIOUS
<1>1. CASE SendOpen(s) \/ SendAbort(s) \/ SendDeliver(s) \/ OpenBox(s) \/ LeaveBox(s)
          \/ MailUnlink(s) \/ RangeRefused(s) \/ SwapAway(s) \/ SwapFails(s)
  BY <1>1, <1>0 DEF LeaveBox, MailUnlink, OpenBox, RangeRefused, Reread, SendAbort,
     SendDeliver, SendOpen, SwapAway, SwapDone, SwapFails
<1>2. CASE SwapIn(s) \/ NewStart(s) \/ NewNext(s) \/ NewLast(s) \/ NewRead(s) \/
          NewKeep(s) \/ NewUnlink(s) \/ NewCopy(s) \/ NewRefused(s)
  BY <1>2, <1>0 DEF CopyRefused, NewCopy, NewKeep, NewLast, NewNext, NewRead,
     NewRefused, NewStart, NewUnlink, Substitute, SwapDone, SwapIn
<1>3. CASE NewDone(s) \/ PopLogin(s) \/ Rset(s) \/ PopLeave(s) \/ PopCopy(s) \/
          PopUnlink(s) \/ PopRename(s) \/ Hangup(s) \/
          (\E i \in 1..Len(page[s]) : MailRead(s, i))
  BY <1>3, <1>0 DEF Chooses, Hangup, MailRead, NewDone, PopCopy, PopForgets,
     PopLeave, PopLogin, PopRename, PopUnlink, Redraw, Reread, Rset, Substitute,
     WriteLine
<1>4. CASE (\E i \in 1..Len(page[s]) : MailMark(s, i)) \/
          (\E i \in 1..Len(page[s]) : MailDel(s, i)) \/
          (\E i \in 1..Len(page[s]) : MailDelFails(s, i)) \/
          (\E i \in 1..Len(page[s]) : Dele(s, i)) \/
          (\E i1 \in 1..(Len(page[s]) + 1), i2 \in 1..(Len(page[s]) + 1) : RangeCopy(s, i1, i2))
  BY <1>4, <1>0 DEF Chooses, Dele, MailDel, MailDelFails, MailMark, RangeCopy,
     Redraw, Substitute, WriteLine
<1> QED
  BY <1>1, <1>2, <1>3, <1>4 DEF Act

LEMMA FdOwn ==
  ASSUME Typed, NEW s \in Session, Act(s)
  PROVE  Listed(fd'[s].recs) \subseteq Listed(fd[s].recs) \cup Listed(dir)
<1>0. TypeFd
  BY DEF Typed
<1>00. /\ Listed(Frozen[s].recs) \subseteq Listed(fd[s].recs) \cup Listed(dir)
       /\ Listed(Live.recs) = {}
  BY ListedEmpty DEF Frozen, Live
<1>1. CASE SendOpen(s) \/ SendAbort(s) \/ SendDeliver(s) \/ OpenBox(s) \/ LeaveBox(s)
          \/ MailUnlink(s) \/ RangeRefused(s) \/ SwapFails(s) \/ NewNext(s) \/
          NewRead(s) \/ NewKeep(s) \/ NewUnlink(s) \/ NewCopy(s) \/ NewRefused(s)
  BY <1>1, <1>0 DEF CopyRefused, LeaveBox, MailUnlink, NewCopy, NewKeep, NewNext,
     NewRead, NewRefused, NewUnlink, OpenBox, RangeRefused, Reread, SendAbort,
     SendDeliver, SendOpen, Substitute, SwapDone, SwapFails, local
<1>2. CASE NewDone(s) \/ PopLogin(s) \/ Rset(s) \/ PopLeave(s) \/ PopCopy(s) \/
          (\E i \in 1..Len(page[s]) : MailRead(s, i)) \/
          (\E i \in 1..Len(page[s]) : MailMark(s, i)) \/
          (\E i \in 1..Len(page[s]) : MailDel(s, i)) \/
          (\E i \in 1..Len(page[s]) : MailDelFails(s, i)) \/
          (\E i \in 1..Len(page[s]) : Dele(s, i)) \/
          (\E i1 \in 1..(Len(page[s]) + 1), i2 \in 1..(Len(page[s]) + 1) : RangeCopy(s, i1, i2))
  BY <1>2, <1>0 DEF Chooses, Dele, MailDel, MailDelFails, MailMark, MailRead,
     NewDone, PopCopy, PopForgets, PopLeave, PopLogin, RangeCopy, Redraw, Reread,
     Rset, Substitute, WriteLine, local
<1>3. CASE SwapAway(s)
  BY <1>3, <1>0, <1>00 DEF SwapAway, TypeFd, local, index
<1>4. CASE SwapIn(s)
  BY <1>4, <1>0, <1>00 DEF SwapIn, TypeFd, local, index
<1>5. CASE PopUnlink(s)
  BY <1>5, <1>0, <1>00 DEF PopUnlink, TypeFd, local, index
<1>6. CASE PopRename(s)
  BY <1>6, <1>0, <1>00 DEF PopRename, TypeFd, local, index
<1>7. CASE NewStart(s)
  BY <1>7, <1>0, <1>00 DEF NewStart, TypeFd, local, index
<1>8. CASE NewLast(s)
  BY <1>8, <1>0, <1>00 DEF NewLast, TypeFd, local, index
<1>9. CASE Hangup(s)
  BY <1>9, <1>0, <1>00 DEF Hangup, TypeFd, local, index
<1> QED
  BY <1>1, <1>2, <1>3, <1>4, <1>5, <1>6, <1>7, <1>8, <1>9 DEF Act

LEMMA AddsDraft ==
  ASSUME Typed, NEW s \in Session, Act(s)
  PROVE  delivered' \subseteq delivered \/ SendDeliver(s)
<1>0. s \in Session
  OBVIOUS
<1>1. CASE SendOpen(s) \/ SendAbort(s) \/ SendDeliver(s) \/ OpenBox(s) \/ LeaveBox(s)
          \/ MailUnlink(s) \/ RangeRefused(s) \/ SwapAway(s) \/ SwapFails(s) \/
          SwapIn(s) \/ NewStart(s) \/ NewNext(s) \/ NewLast(s) \/ NewRead(s) \/
          NewKeep(s) \/ NewUnlink(s) \/ NewCopy(s)
  BY <1>1, <1>0 DEF LeaveBox, MailUnlink, NewCopy, NewKeep, NewLast, NewNext,
     NewRead, NewStart, NewUnlink, OpenBox, RangeRefused, Reread, SendAbort,
     SendDeliver, SendOpen, Substitute, SwapAway, SwapDone, SwapFails, SwapIn,
     history
<1>2. CASE NewRefused(s) \/ NewDone(s) \/ PopLogin(s) \/ Rset(s) \/ PopLeave(s) \/
          PopCopy(s) \/ PopUnlink(s) \/ PopRename(s) \/ Hangup(s) \/
          (\E i \in 1..Len(page[s]) : MailRead(s, i)) \/
          (\E i \in 1..Len(page[s]) : MailMark(s, i)) \/
          (\E i \in 1..Len(page[s]) : MailDel(s, i)) \/
          (\E i \in 1..Len(page[s]) : MailDelFails(s, i)) \/
          (\E i \in 1..Len(page[s]) : Dele(s, i)) \/
          (\E i1 \in 1..(Len(page[s]) + 1), i2 \in 1..(Len(page[s]) + 1) : RangeCopy(s, i1, i2))
  BY <1>2, <1>0 DEF Chooses, CopyRefused, Dele, Hangup, MailDel, MailDelFails,
     MailMark, MailRead, NewDone, NewRefused, PopCopy, PopForgets, PopLeave,
     PopLogin, PopRename, PopUnlink, RangeCopy, Redraw, Reread, Rset, Substitute,
     WriteLine, history
<1> QED
  BY <1>1, <1>2 DEF Act

LEMMA StepDraft ==
  ASSUME Typed, Known, NEW s \in Session, Act(s), NEW q \in Session
  PROVE  Draft(q)'
<1>1. /\ TypeFiles /\ TypePc /\ TypeWork /\ KnownIndex /\ Draft(s) /\ Draft(q)
      /\ MaxMail \in Nat
  BY MailboxAssumption DEF Typed, Known
<1>2. /\ \A r \in Session \ {s} : pc'[r] = pc[r] /\ work'[r] = work[r]
      /\ last \in Nat /\ last' \in Nat /\ last <= last'
  <2>1. last \in Nat
    BY <1>1 DEF TypeFiles
  <2> QED
    BY <2>1, Elsewhere, LastGrows
<1>3. CASE q # s
  <2> SUFFICES ASSUME pc[q] = "edit"
               PROVE  /\ work[q].hdr.file \in (files' \cap (1..last')) \ delivered'
                      /\ \A r \in Session \ {q} :
                           pc'[r] = "edit" => work'[r].hdr.file # work[q].hdr.file
    BY <1>2, <1>3 DEF Draft
  <2>1. /\ work[q].hdr.file \in (files \cap (1..last)) \ delivered
        /\ \A r \in Session \ {q} : pc[r] = "edit" => work[r].hdr.file # work[q].hdr.file
    BY <1>1 DEF Draft
  <2>2. work[q].hdr.file \in 1..last' /\ work[q].hdr.file \notin Names
    BY <1>2, <2>1 DEF Names
  <2>3. pc[s] = "edit" => work[s].hdr.file # work[q].hdr.file
    BY <1>3, <2>1
  <2>4. work[q].hdr.file \in files'
    BY <2>1, <2>2, <2>3, TextsGone
  <2>5. work[q].hdr.file \notin delivered'
    BY <2>1, <2>3, Delivers
  <2>6. pc'[s] = "edit" => work'[s].hdr.file # work[q].hdr.file
    <3>1. ASSUME SendOpen(s) PROVE work'[s].hdr.file = last + 1
      BY <1>1, <3>1 DEF SendOpen, TypeWork, NewHeader
    <3> QED
      BY <1>2, <2>1, <3>1, EditStarts
  <2> QED
    BY <1>2, <2>1, <2>2, <2>4, <2>5, <2>6
<1>4. CASE q = s /\ pc'[s] = "edit"
  <2>1. SendOpen(s)
    BY <1>4, EditStarts
  <2>2. /\ work'[s].hdr.file = last + 1 /\ files' = files \cup {last + 1}
        /\ delivered' = delivered /\ last' = last + 1
    BY <1>1, <2>1 DEF SendOpen, TypeWork, NewHeader, history
  <2>3. last + 1 \notin delivered /\ last + 1 \in 1..last'
    BY <1>1, <1>2, <2>2 DEF KnownIndex
  <2>4. ASSUME NEW r \in Session \ {s}, pc'[r] = "edit" PROVE work'[r].hdr.file # last + 1
    <3>1. Draft(r)
      BY DEF Known
    <3>2. work[r].hdr.file \in 1..last
      BY <1>2, <2>4, <3>1 DEF Draft
    <3> QED
      BY <1>2, <3>2
  <2> QED
    BY <1>4, <2>2, <2>3, <2>4 DEF Draft
<1> QED
  BY <1>3, <1>4 DEF Draft

LEMMA StepKnown == Typed /\ Known /\ [Next]_vars => Known'
<1> SUFFICES ASSUME Typed, Known, [Next]_vars PROVE Known'
  OBVIOUS
<1>1. ASSUME NEW s \in Session, Step(s)
      PROVE  Known'
  <2>1. Act(s)
    BY <1>1, StepActs
  <2>2. KnownIndex' /\ Names \subseteq Names' /\ asked \subseteq asked'
    BY <2>1, StepKnownIndex, Grows
  <2>3. ASSUME NEW q \in Session PROVE KnownTo(q)'
    <3>1. KnownTo(q) /\ KnownIndex
      BY DEF Known
    <3>2. CASE q = s
      <4>1. Listed(page'[s]) \subseteq Names'
        BY <2>1, <2>2, <3>1, <3>2, PageNames DEF KnownTo, KnownIndex
      <4>2. Listed(fd'[s].recs) \subseteq Names'
        BY <2>1, <2>2, <3>1, <3>2, FdOwn DEF KnownTo, KnownIndex
      <4>3. /\ pc'[s] # "edit" => work'[s].hdr.file \in Names'
            /\ pc'[s] = "unlink" => work'[s].hdr.file \in asked'
        BY <2>1, WorkNames
      <4>4. \A k \in 1..Len(noted'[s]) : noted'[s][k].file \in asked'
        BY <2>1, NotedNames
      <4> QED
        BY <3>2, <4>1, <4>2, <4>3, <4>4 DEF KnownTo
    <3>3. CASE q # s
      <4>1. /\ pc'[q] = pc[q] /\ page'[q] = page[q] /\ work'[q] = work[q]
            /\ noted'[q] = noted[q]
        BY <2>1, <3>3, Elsewhere
      <4>2. fd'[q] = fd[q] \/ fd'[q].recs = dir
        BY <2>1, <3>3, FdElsewhere
      <4>3. Listed(page'[q]) \subseteq Names' /\ Listed(fd'[q].recs) \subseteq Names'
        BY <2>2, <3>1, <4>1, <4>2 DEF KnownTo, KnownIndex
      <4> QED
        BY <2>2, <3>1, <4>1, <4>3 DEF KnownTo
    <3> QED
      BY <3>2, <3>3
  <2>4. \A q \in Session : Draft(q)'
    BY <2>1, StepDraft
  <2> QED
    BY <2>2, <2>3, <2>4 DEF Known
<1>2. CASE UNCHANGED vars
  <2>1. KnownIndex'
    BY <1>2 DEF vars, index, side, history, Known, KnownIndex, Names
  <2>2. \A q \in Session : KnownTo(q)' /\ Draft(q)'
    BY <1>2 DEF vars, local, history, Known, KnownTo, Draft, Names
  <2> QED
    BY <2>1, <2>2 DEF Known
<1> QED
  BY <1>1, <1>2 DEF Next

LEMMA StepTextStays == Typed /\ Known /\ TextStays /\ [Next]_vars => TextStays'
<1> SUFFICES ASSUME Typed, Known, TextStays, [Next]_vars, ~astray'
             PROVE  delivered' \ asked' \subseteq files'
  BY DEF TextStays
<1>1. ASSUME NEW s \in Session, Step(s), NEW n \in delivered' \ asked'
      PROVE  n \in files'
  <2>1. Act(s) /\ Draft(s) /\ KnownIndex
    BY <1>1, StepActs DEF Known
  <2>2. n \in files
    <3>1. ~astray /\ asked \subseteq asked'
      BY <2>1, Strays, Grows
    <3>2. delivered' = delivered \/ (pc[s] = "edit" /\ delivered' = delivered \cup {work[s].hdr.file})
      BY <2>1, Delivers
    <3> QED
      BY <1>1, <2>1, <3>1, <3>2 DEF TextStays, Draft
  <2>3. CASE n \notin files'
    <3>1. pc[s] = "edit" /\ n = work[s].hdr.file
      BY <1>1, <2>1, <2>2, <2>3, TextsGone
    <3>2. n \notin delivered
      BY <2>1, <3>1 DEF Draft
    <3>3. SendDeliver(s)
      BY <1>1, <2>1, <3>1, <3>2, AddsDraft
    <3> QED
      BY <2>2, <2>3, <3>3 DEF SendDeliver
  <2> QED
    BY <2>3
<1>2. CASE UNCHANGED vars
  BY <1>2 DEF vars, history, TextStays
<1> QED
  BY <1>1, <1>2 DEF Next

LEMMA InitKnown == Init => Known /\ TextStays
<1> SUFFICES ASSUME Init PROVE Known /\ TextStays
  OBVIOUS
<1>1. Listed(InitBox) \subseteq 1..Len(InitBox)
  BY MailboxAssumption DEF Listed
<1>2. KnownIndex /\ TextStays
  BY <1>1, ListedEmpty DEF Init, KnownIndex, Names, TextStays, NoTmp
<1>3. ASSUME NEW s \in Session PROVE KnownTo(s) /\ Draft(s)
  <2>1. /\ page[s] = <<>> /\ fd[s] = Live /\ work[s] = NoWork /\ noted[s] = <<>>
        /\ pc[s] = "idle"
    BY DEF Init
  <2> QED
    BY <2>1, ListedEmpty, EmptySeq DEF KnownTo, Draft, Live, NoWork, ZeroHeader, Names
<1> QED
  BY <1>2, <1>3 DEF Known

LEMMA KnownAlways == Spec => [](Typed /\ Known /\ TextStays)
<1>1. Init => Typed /\ Known /\ TextStays
  BY InitTyped, InitKnown
<1>2. (Typed /\ Known /\ TextStays) /\ [Next]_vars => (Typed /\ Known /\ TextStays)'
  BY StepTyped, StepKnown, StepTextStays
<1> QED
  BY <1>1, <1>2, PTL DEF Spec

(* The text of a mail is removed only after its deletion was asked for, while *)
(* no number has gone astray: whatever the sessions, DELE removes nothing     *)
(* before QUIT, and the text of a mail somebody is just writing is his alone. *)
THEOREM TextStaysAlways == Spec => []TextStays
BY KnownAlways, PTL

-----------------------------------------------------------------------------
(* Numbers.  A session's numbers are right as long as nobody else has put     *)
(* another index in place or taken a record out: everything else that happens *)
(* to the index keeps the names it has and adds at its end.                  *)
Keeps(d, e) == Len(d) <= Len(e) /\ \A i \in 1..Len(d) : e[i].file = d[i].file

RightIn(d, i, n) == i <= Len(d) /\ d[i].file = n

(* Where m_new keeps its numbers, and that they are worked off from the last, *)
(* so that the ones still to come are before the record that goes.           *)
Place(s) ==
  /\ noted[s] # <<>> => pc[s] \in InMNew
  /\ pc[s] \in InMNew => page[s] = <<>>

Ordered(s) ==
  /\ \A k, l \in 1..Len(noted[s]) : k < l => noted[s][k].ent < noted[s][l].ent
  /\ pc[s] = "new" => \A k \in 1..Len(noted[s]) : noted[s][k].ent <= work[s].ent
  /\ pc[s] \in {"ask", "shown"} =>
       \A k \in 1..Len(noted[s]) : noted[s][k].ent < work[s].ent

(* An index that was replaced under m_new was replaced by somebody else.     *)
OwnIndex(s) ==
  /\ pc[s] \in InNew /\ ~fd[s].live => s \in moved
  /\ pc[s] = "newswap" /\ s \notin moved => exists

(* The numbers that are left are right in the copy without the last.         *)
CopyMeans(s) == pc[s] \in {"newswap", "newrename"} /\ s \notin moved /\ ~astray =>
  \A k \in 1..(Len(noted[s]) - 1) : RightIn(tmpfile.recs, noted[s][k].ent, noted[s][k].file)

PageMeans(s) == s \notin moved /\ ~Busy(s) /\ ~astray =>
  \A i \in 1..Len(page[s]) : RightIn(dir, i, page[s][i].file)

NotedMeans(s) == s \notin moved /\ ~Busy(s) /\ ~astray =>
  \A k \in 1..Len(noted[s]) : RightIn(dir, noted[s][k].ent, noted[s][k].file)

WorkMeans(s) == s \notin moved /\ pc[s] \in {"ask", "shown"} /\ ~astray =>
  RightIn(dir, work[s].ent, work[s].hdr.file)

Means(s) ==
  /\ Place(s) /\ Ordered(s) /\ OwnIndex(s) /\ CopyMeans(s)
  /\ PageMeans(s) /\ NotedMeans(s) /\ WorkMeans(s)

LEMMA KeepsRight ==
  ASSUME NEW d \in Seq(Header), NEW e \in Seq(Header), Keeps(d, e),
         NEW i \in Nat \ {0}, NEW n, RightIn(d, i, n)
  PROVE  RightIn(e, i, n)
<1>1. Len(d) \in Nat /\ Len(e) \in Nat
  BY LenProperties
<1>2. i \in 1..Len(d) /\ i <= Len(e)
  BY <1>1 DEF RightIn, Keeps
<1> QED
  BY <1>2 DEF RightIn, Keeps

LEMMA KeepsSame == ASSUME NEW d \in Seq(Header) PROVE Keeps(d, d)
BY LenProperties DEF Keeps

LEMMA KeepsAppend ==
  ASSUME NEW d \in Seq(Header), NEW h \in Header
  PROVE  Keeps(d, Append(d, h))
<1>1. /\ Len(d) \in Nat /\ Len(Append(d, h)) = Len(d) + 1
      /\ \A i \in 1..Len(d) : Append(d, h)[i] = d[i]
  BY LenProperties, AppendProperties
<1> QED
  BY <1>1 DEF Keeps

LEMMA KeepsSubstitute ==
  ASSUME NEW d \in Seq(Header), NEW h \in Header, NEW i \in Nat \ {0},
         RightIn(d, i, h.file)
  PROVE  /\ Keeps(d, SubstituteRecord(d, h, i, ZeroHeader))
         /\ RightIn(SubstituteRecord(d, h, i, ZeroHeader), i, h.file)
         /\ Len(SubstituteRecord(d, h, i, ZeroHeader)) = Len(d)
<1> DEFINE e == SubstituteRecord(d, h, i, ZeroHeader)
<1>1. Len(d) \in Nat /\ i <= Len(d) /\ i \in 1..Len(d)
  BY LenProperties DEF RightIn
<1>2. /\ e \in Seq(Header) /\ Len(e) = Len(d)
      /\ \A j \in 1..Len(d) : e[j] = IF j = i THEN h ELSE d[j]
  <2>1. ZeroHeader \in Header
    BY Headers
  <2> QED
    BY <1>1, <2>1, SubstituteRecordProperties
<1> HIDE DEF e
<1>3. \A j \in 1..Len(d) : e[j].file = d[j].file
  BY <1>1, <1>2 DEF RightIn
<1>4. Keeps(d, e) /\ RightIn(e, i, h.file)
  BY <1>1, <1>2, <1>3 DEF Keeps, RightIn
<1> QED
  BY <1>2, <1>4 DEF e

LEMMA MissedRight ==
  ASSUME TypeIndex, NEW i \in Nat, NEW n
  PROVE  Missed(i, n) <=> ~RightIn(dir, i, n)
BY LenProperties DEF Missed, RightIn, TypeIndex

LEMMA SubstituteKeeps ==
  ASSUME TypeIndex, NEW h \in Header, NEW i \in Nat \ {0}, Substitute(h, i), ~astray'
  PROVE  /\ Keeps(dir, dir') /\ (exists => exists') /\ RightIn(dir', i, h.file)
         /\ Len(dir') = Len(dir)
<1>1. ~Missed(i, h.file)
  BY DEF Substitute
<1>2. RightIn(dir, i, h.file)
  BY <1>1, MissedRight
<1> QED
  BY <1>2, KeepsSubstitute DEF Substitute, TypeIndex

LEMMA IndexKept ==
  ASSUME Typed, ~astray', NEW s \in Session, Act(s)
  PROVE  (Keeps(dir, dir') /\ (exists => exists')) \/ Session \ {s} \subseteq moved'
<1>0. TypeIndex /\ TypePage /\ TypeWork
  BY DEF Typed
<1>00. Keeps(dir, dir)
  BY <1>0, KeepsSame DEF TypeIndex
<1>1. CASE SendOpen(s) \/ SendAbort(s) \/ OpenBox(s) \/ LeaveBox(s) \/ MailUnlink(s)
          \/ RangeRefused(s) \/ SwapFails(s) \/ NewStart(s)
  BY <1>1, <1>0, <1>00 DEF LeaveBox, MailUnlink, NewStart, OpenBox, RangeRefused,
     Reread, SendAbort, SendOpen, SwapDone, SwapFails, index
<1>2. CASE NewNext(s) \/ NewLast(s) \/ NewKeep(s) \/ NewUnlink(s) \/ NewCopy(s) \/
          NewRefused(s) \/ NewDone(s) \/ PopLogin(s)
  BY <1>2, <1>0, <1>00 DEF CopyRefused, NewCopy, NewDone, NewKeep, NewLast, NewNext,
     NewRefused, NewUnlink, PopLogin, Reread, index
<1>3. CASE Rset(s) \/ PopLeave(s) \/ PopCopy(s) \/ Hangup(s) \/
          (\E i \in 1..Len(page[s]) : MailDelFails(s, i)) \/
          (\E i \in 1..Len(page[s]) : Dele(s, i)) \/
          (\E i1 \in 1..(Len(page[s]) + 1), i2 \in 1..(Len(page[s]) + 1) : RangeCopy(s, i1, i2))
  BY <1>3, <1>0, <1>00 DEF Chooses, Dele, Hangup, MailDelFails, PopCopy, PopForgets,
     PopLeave, RangeCopy, Redraw, Rset, index
<1>4. CASE SendDeliver(s)
  <2>1. work[s].hdr \in Header /\ dir' = Append(dir, work[s].hdr) /\ exists'
    BY <1>4, <1>0 DEF SendDeliver, AppendRecord, TypeWork
  <2> QED
    BY <1>0, <2>1, KeepsAppend DEF TypeIndex
<1>5. ASSUME NEW i \in 1..Len(page[s]), MailRead(s, i)
      PROVE  (Keeps(dir, dir') /\ (exists => exists')) \/ Session \ {s} \subseteq moved'
  <2> DEFINE h == [page[s][i] EXCEPT !.read = TRUE]
  <2>1. i \in Nat \ {0} /\ page[s][i] \in Header
    BY <1>0, Line
  <2>2. h \in Header
    BY <2>1, Headers
  <2>3. Substitute(h, i)
    BY <1>5 DEF MailRead, WriteLine
  <2> HIDE DEF h
  <2> QED
    BY <1>0, <2>1, <2>2, <2>3, SubstituteKeeps
<1>6. ASSUME NEW i \in 1..Len(page[s]), MailMark(s, i)
      PROVE  (Keeps(dir, dir') /\ (exists => exists')) \/ Session \ {s} \subseteq moved'
  <2> DEFINE h == [page[s][i] EXCEPT !.marked = ~@]
  <2>1. i \in Nat \ {0} /\ page[s][i] \in Header
    BY <1>0, Line
  <2>2. h \in Header
    BY <2>1, Headers
  <2>3. Substitute(h, i)
    BY <1>6 DEF MailMark, WriteLine
  <2> HIDE DEF h
  <2> QED
    BY <1>0, <2>1, <2>2, <2>3, SubstituteKeeps
<1>7. ASSUME NEW i \in 1..Len(page[s]), MailDel(s, i)
      PROVE  (Keeps(dir, dir') /\ (exists => exists')) \/ Session \ {s} \subseteq moved'
  BY <1>7 DEF MailDel, MovedBy
<1>8. CASE SwapAway(s)
  BY <1>8 DEF SwapAway, MovedBy
<1>9. CASE SwapIn(s)
  BY <1>9 DEF SwapIn, MovedBy
<1>10. CASE NewRead(s)
  <2>1. work[s].ent \in Nat \ {0} /\ work[s].hdr \in Header
    BY <1>10, <1>0 DEF NewRead, TypeWork
  <2>2. [work[s].hdr EXCEPT !.read = TRUE] \in Header
    BY <2>1, Headers
  <2>3. Substitute([work[s].hdr EXCEPT !.read = TRUE], work[s].ent)
    BY <1>10 DEF NewRead
  <2> QED
    BY <1>0, <2>1, <2>2, <2>3, SubstituteKeeps
<1>11. CASE PopUnlink(s)
  BY <1>11 DEF PopUnlink, MovedBy
<1>12. CASE PopRename(s)
  BY <1>12 DEF PopRename, MovedBy
<1> QED
  BY <1>1, <1>2, <1>3, <1>4, <1>5, <1>6, <1>7, <1>8, <1>9, <1>10, <1>11, <1>12 DEF Act

LEMMA MovedElsewhere ==
  ASSUME Typed, NEW s \in Session, Act(s)
  PROVE  \A q \in Session \ {s} : q \in moved => q \in moved'
<1>0. s \in Session
  OBVIOUS
<1>1. CASE SendOpen(s) \/ SendAbort(s) \/ SendDeliver(s) \/ OpenBox(s) \/ LeaveBox(s)
          \/ MailUnlink(s) \/ RangeRefused(s) \/ SwapAway(s) \/ SwapFails(s) \/
          SwapIn(s) \/ NewStart(s) \/ NewNext(s)
  BY <1>1, <1>0 DEF LeaveBox, MailUnlink, NewNext, NewStart, OpenBox, RangeRefused,
     Reread, SendAbort, SendDeliver, SendOpen, SwapAway, SwapDone, SwapFails,
     SwapIn, history, MovedBy
<1>2. CASE NewLast(s) \/ NewRead(s) \/ NewKeep(s) \/ NewUnlink(s) \/ NewCopy(s) \/
          NewRefused(s) \/ NewDone(s) \/ PopLogin(s) \/ Rset(s) \/ PopLeave(s) \/
          PopCopy(s) \/ PopUnlink(s)
  BY <1>2, <1>0 DEF CopyRefused, NewCopy, NewDone, NewKeep, NewLast, NewRead,
     NewRefused, NewUnlink, PopCopy, PopForgets, PopLeave, PopLogin, PopUnlink,
     Reread, Rset, Substitute, history, MovedBy
<1>3. CASE PopRename(s) \/ Hangup(s) \/ (\E i \in 1..Len(page[s]) : MailRead(s, i))
          \/ (\E i \in 1..Len(page[s]) : MailMark(s, i)) \/
          (\E i \in 1..Len(page[s]) : MailDel(s, i)) \/
          (\E i \in 1..Len(page[s]) : MailDelFails(s, i)) \/
          (\E i \in 1..Len(page[s]) : Dele(s, i)) \/
          (\E i1 \in 1..(Len(page[s]) + 1), i2 \in 1..(Len(page[s]) + 1) : RangeCopy(s, i1, i2))
  BY <1>3, <1>0 DEF Chooses, Dele, Hangup, MailDel, MailDelFails, MailMark,
     MailRead, PopForgets, PopRename, RangeCopy, Redraw, Substitute, WriteLine,
     history, MovedBy
<1> QED
  BY <1>1, <1>2, <1>3 DEF Act

LEMMA TmpElsewhere ==
  ASSUME Typed, NEW s \in Session, Act(s)
  PROVE  \A q \in Session \ {s} : pc[q] \in Lockers => tmpfile' = tmpfile
<1>0. TypePc /\ Locks
  BY DEF Typed
<1>1. CASE SendOpen(s) \/ SendAbort(s) \/ SendDeliver(s) \/ OpenBox(s) \/ LeaveBox(s)
          \/ MailUnlink(s) \/ RangeRefused(s) \/ SwapAway(s) \/ SwapFails(s) \/
          NewStart(s) \/ NewNext(s) \/ NewLast(s) \/ NewRead(s) \/ NewKeep(s) \/
          NewUnlink(s) \/ NewRefused(s)
  BY <1>1, <1>0 DEF CopyRefused, LeaveBox, MailUnlink, NewKeep, NewLast, NewNext,
     NewRead, NewRefused, NewStart, NewUnlink, OpenBox, RangeRefused, Reread,
     SendAbort, SendDeliver, SendOpen, Substitute, SwapAway, SwapDone, SwapFails,
     side
<1>2. CASE NewDone(s) \/ PopLogin(s) \/ Rset(s) \/ PopLeave(s) \/ PopCopy(s) \/
          PopUnlink(s) \/ PopRename(s) \/ Hangup(s) \/
          (\E i \in 1..Len(page[s]) : MailRead(s, i)) \/
          (\E i \in 1..Len(page[s]) : MailMark(s, i)) \/
          (\E i \in 1..Len(page[s]) : MailDel(s, i)) \/
          (\E i \in 1..Len(page[s]) : MailDelFails(s, i)) \/
          (\E i \in 1..Len(page[s]) : Dele(s, i))
  BY <1>2, <1>0 DEF Chooses, Dele, Hangup, MailDel, MailDelFails, MailMark,
     MailRead, NewDone, PopCopy, PopForgets, PopLeave, PopLogin, PopRename,
     PopUnlink, Redraw, Reread, Rset, Substitute, WriteLine, side
<1>3. ASSUME NEW i1 \in 1..(Len(page[s]) + 1), NEW i2 \in 1..(Len(page[s]) + 1), RangeCopy(s, i1, i2)
      PROVE  \A q \in Session \ {s} : pc[q] \in Lockers => tmpfile' = tmpfile
  BY <1>3, <1>0 DEF RangeCopy, MayCopy, Locks
<1>4. CASE NewCopy(s)
  BY <1>4, <1>0 DEF NewCopy, MayCopy, Locks
<1>5. CASE SwapIn(s)
  <2>1. s \in dellock
    BY <1>5, <1>0 DEF SwapIn, Locks, Lockers
  <2>2. \A q \in Session \ {s} : q \notin dellock
    BY <1>0, <2>1 DEF Locks
  <2> QED
    BY <1>0, <2>2 DEF Locks
<1> QED
  BY <1>1, <1>2, <1>3, <1>4, <1>5 DEF Act

LEMMA ExistsKept ==
  ASSUME Typed, NEW s \in Session, Act(s)
  PROVE  (exists => exists') \/ Session \ {s} \subseteq moved'
<1>0. TypeIndex
  BY DEF Typed
<1>1. CASE SendOpen(s) \/ SendAbort(s) \/ SendDeliver(s) \/ OpenBox(s) \/ LeaveBox(s)
          \/ MailUnlink(s) \/ RangeRefused(s) \/ SwapFails(s)
  BY <1>1, <1>0 DEF LeaveBox, MailUnlink, OpenBox, RangeRefused, Reread, SendAbort,
     SendDeliver, SendOpen, SwapDone, SwapFails, index
<1>2. CASE SwapIn(s) \/ NewStart(s) \/ NewNext(s) \/ NewLast(s) \/ NewRead(s) \/
          NewKeep(s) \/ NewUnlink(s) \/ NewCopy(s)
  BY <1>2, <1>0 DEF NewCopy, NewKeep, NewLast, NewNext, NewRead, NewStart,
     NewUnlink, Substitute, SwapDone, SwapIn, index
<1>3. CASE NewRefused(s) \/ NewDone(s) \/ PopLogin(s) \/ Rset(s) \/ PopLeave(s) \/
          PopCopy(s) \/ PopRename(s) \/ Hangup(s)
  BY <1>3, <1>0 DEF CopyRefused, Hangup, NewDone, NewRefused, PopCopy, PopForgets,
     PopLeave, PopLogin, PopRename, Reread, Rset, index
<1>4. CASE (\E i \in 1..Len(page[s]) : MailRead(s, i)) \/
          (\E i \in 1..Len(page[s]) : MailMark(s, i)) \/
          (\E i \in 1..Len(page[s]) : MailDel(s, i)) \/
          (\E i \in 1..Len(page[s]) : MailDelFails(s, i)) \/
          (\E i \in 1..Len(page[s]) : Dele(s, i)) \/
          (\E i1 \in 1..(Len(page[s]) + 1), i2 \in 1..(Len(page[s]) + 1) : RangeCopy(s, i1, i2))
  BY <1>4, <1>0 DEF Chooses, Dele, MailDel, MailDelFails, MailMark, MailRead,
     RangeCopy, Redraw, Substitute, WriteLine, index
<1>5. CASE SwapAway(s)
  BY <1>5 DEF SwapAway, MovedBy
<1>6. CASE PopUnlink(s)
  BY <1>6 DEF PopUnlink, MovedBy
<1> QED
  BY <1>1, <1>2, <1>3, <1>4, <1>5, <1>6 DEF Act

LEMMA MeansElsewhere ==
  ASSUME Typed, NEW s \in Session, Act(s), NEW q \in Session \ {s}, Means(q)
  PROVE  Means(q)'
<1>1. /\ pc'[q] = pc[q] /\ page'[q] = page[q] /\ work'[q] = work[q] /\ noted'[q] = noted[q]
      /\ q \in moved => q \in moved'
      /\ astray => astray'
      /\ ~astray' => (Keeps(dir, dir') /\ (exists => exists')) \/ q \in moved'
  BY Elsewhere, MovedElsewhere, Strays, IndexKept
<1>2. /\ dir \in Seq(Header) /\ dir' \in Seq(Header) /\ page[q] \in Seq(Header)
      /\ \A k \in 1..Len(noted[q]) : noted[q][k].ent \in Nat \ {0}
      /\ pc[q] \in {"ask", "shown"} => work[q].ent \in Nat \ {0}
  <2>1. dir' \in Seq(Header)
    BY StepIndex DEF TypeIndex
  <2>2. noted[q] \in Seq(Note)
    BY DEF Typed, TypeNoted
  <2>3. ASSUME NEW k \in 1..Len(noted[q]) PROVE noted[q][k].ent \in Nat \ {0}
    <3>1. noted[q][k] \in Note
      BY <2>2, ElementOfSeq
    <3>2. noted[q][k].ent >= 1
      BY DEF Typed, TypeNoted
    <3> QED
      BY <3>1, <3>2 DEF Note
  <2>4. pc[q] \in {"ask", "shown"} => work[q].ent \in Nat \ {0}
    <3>1. TypeWork
      BY DEF Typed
    <3>2. work[q].ent \in Nat /\ (pc[q] \in {"ask", "shown"} => work[q].ent >= 1)
      BY <3>1 DEF TypeWork
    <3> QED
      BY <3>2
  <2> QED
    BY <2>1, <2>3, <2>4 DEF Typed, TypeIndex, TypePage
<1>3. Place(q)' /\ Ordered(q)'
  BY <1>1 DEF Means, Place, Ordered
<1>4. OwnIndex(q)'
  <2>1. pc[q] \in InNew => q \in moved' \/ fd'[q] = fd[q]
    BY FdElsewhere
  <2>2. ASSUME pc[q] = "newswap", q \notin moved', exists PROVE exists'
    <3>1. ~ (Session \ {s} \subseteq moved')
      BY <2>2
    <3> QED
      BY <2>2, <3>1, ExistsKept
  <2> QED
    BY <1>1, <2>1, <2>2 DEF Means, OwnIndex
<1>5. CopyMeans(q)'
  <2>1. pc[q] \in {"newswap", "newrename"} => tmpfile' = tmpfile
    BY TmpElsewhere DEF Lockers
  <2> QED
    BY <1>1, <2>1 DEF Means, CopyMeans
<1>6. PageMeans(q)'
  <2> SUFFICES ASSUME q \notin moved', ~Busy(q)', ~astray', NEW i \in 1..Len(page[q])
               PROVE  RightIn(dir', i, page[q][i].file)
    BY <1>1 DEF PageMeans
  <2>1. RightIn(dir, i, page[q][i].file) /\ i \in Nat \ {0} /\ Keeps(dir, dir')
    BY <1>1, <1>2, LenProperties DEF Means, PageMeans, Busy
  <2> QED
    BY <1>2, <2>1, KeepsRight
<1>7. NotedMeans(q)'
  <2> SUFFICES ASSUME q \notin moved', ~Busy(q)', ~astray', NEW k \in 1..Len(noted[q])
               PROVE  RightIn(dir', noted[q][k].ent, noted[q][k].file)
    BY <1>1 DEF NotedMeans
  <2>1. RightIn(dir, noted[q][k].ent, noted[q][k].file) /\ Keeps(dir, dir')
    BY <1>1 DEF Means, NotedMeans, Busy
  <2> QED
    BY <1>2, <2>1, KeepsRight
<1>8. WorkMeans(q)'
  <2> SUFFICES ASSUME q \notin moved', pc[q] \in {"ask", "shown"}, ~astray'
               PROVE  RightIn(dir', work[q].ent, work[q].hdr.file)
    BY <1>1 DEF WorkMeans
  <2>1. RightIn(dir, work[q].ent, work[q].hdr.file) /\ Keeps(dir, dir')
    BY <1>1 DEF Means, WorkMeans
  <2> QED
    BY <1>2, <2>1, KeepsRight
<1> QED
  BY <1>3, <1>4, <1>5, <1>6, <1>7, <1>8 DEF Means

LEMMA OwnPage ==
  ASSUME Typed, NEW s \in Session, Act(s), Means(s)
  PROVE  PageMeans(s)'
<1>0. /\ TypeIndex /\ TypePage /\ TypePc /\ TypeWork /\ Means(s)
      /\ dir \in Seq(Header) /\ dir' \in Seq(Header)
  BY StepIndex DEF Typed, TypeIndex
<1>04. astray => astray'
  BY Strays
<1>00. ASSUME page'[s] = dir' PROVE PageMeans(s)'
  BY <1>0, <1>00, LenProperties DEF PageMeans, RightIn
<1>01. ASSUME page'[s] = <<>> PROVE PageMeans(s)'
  BY <1>01, EmptySeq DEF PageMeans
<1>02. ASSUME page' = page, dir' = dir, moved' = moved, ~Busy(s) PROVE PageMeans(s)'
  BY <1>0, <1>02, <1>04 DEF Means, PageMeans
<1>03. ASSUME Busy(s)' PROVE PageMeans(s)'
  BY <1>03 DEF PageMeans
<1>05. pc[s] \in InMNew => page[s] = <<>>
  BY <1>0 DEF Means, Place
<1>1. CASE LeaveBox(s) \/ PopLeave(s) \/ PopRename(s) \/ Hangup(s)
  BY <1>1, <1>0, <1>01 DEF Hangup, LeaveBox, PopForgets, PopLeave, PopRename,
     TypePage
<1>2. CASE OpenBox(s) \/ MailUnlink(s) \/ RangeRefused(s) \/ PopLogin(s)
  BY <1>2, <1>0, <1>00 DEF MailUnlink, OpenBox, PopLogin, RangeRefused, Reread,
     TypePage, index
<1>3. CASE SendOpen(s) \/ SendAbort(s) \/ NewNext(s) \/ NewLast(s) \/ NewKeep(s) \/
          NewUnlink(s) \/ NewRefused(s) \/ NewDone(s) \/
          (\E i \in 1..Len(page[s]) : Dele(s, i)) \/ Rset(s)
  BY <1>3, <1>0, <1>02 DEF CopyRefused, Dele, NewDone, NewKeep, NewLast, NewNext,
     NewRefused, NewUnlink, Rset, SendAbort, SendOpen, Busy, InSwap, local, index,
     history
<1>4. CASE NewCopy(s) \/ PopCopy(s) \/ (\E i \in 1..Len(page[s]) : MailDel(s, i)) \/
          (\E i1 \in 1..(Len(page[s]) + 1), i2 \in 1..(Len(page[s]) + 1) : RangeCopy(s, i1, i2))
          \/ SwapAway(s) \/ PopUnlink(s)
  BY <1>4, <1>0, <1>03 DEF Chooses, Goto, MailDel, NewCopy, PopCopy, PopUnlink,
     RangeCopy, SwapAway, Busy, InSwap, TypePc
<1>5. CASE SendDeliver(s)
  <2>1. /\ work[s].hdr \in Header /\ dir' = Append(dir, work[s].hdr)
        /\ page' = page /\ moved' = moved /\ pc[s] = "edit"
    BY <1>5, <1>0 DEF SendDeliver, AppendRecord, TypeWork
  <2>2. Keeps(dir, dir')
    BY <1>0, <2>1, KeepsAppend
  <2> SUFFICES ASSUME s \notin moved, ~astray', NEW j \in 1..Len(page[s])
               PROVE  RightIn(dir', j, page[s][j].file)
    BY <2>1 DEF PageMeans
  <2>3. RightIn(dir, j, page[s][j].file) /\ j \in Nat \ {0}
    BY <1>0, <1>04, <2>1, LenProperties DEF Means, PageMeans, Busy, InSwap, TypePage
  <2> QED
    BY <1>0, <2>2, <2>3, KeepsRight
<1>6. ASSUME NEW i \in 1..Len(page[s]), MailRead(s, i)
      PROVE  PageMeans(s)'
  <2> DEFINE h == [page[s][i] EXCEPT !.read = TRUE]
             p == [page[s] EXCEPT ![i] = h]
  <2>1. page[s] \in Seq(Header) /\ i \in Nat \ {0} /\ page[s][i] \in Header
    BY <1>0, Line
  <2>2. h \in Header /\ h.file = page[s][i].file
    BY <2>1, Headers
  <2>3. Substitute(h, i) /\ pc[s] = "idle" /\ pc' = pc
    BY <1>6 DEF MailRead, Chooses, WriteLine
  <2>4. page' = [page EXCEPT ![s] = dir'] \/ (page' = [page EXCEPT ![s] = p] /\ moved' = moved)
    BY <1>6 DEF MailRead, Redraw
  <2>5. \A j \in 1..Len(page[s]) : p[j].file = page[s][j].file
    BY <2>1, <2>2, ExceptSeq
  <2>6. Len(p) = Len(page[s])
    BY <2>1, <2>2, ExceptSeq
  <2> HIDE DEF h, p
  <2>7. CASE page' = [page EXCEPT ![s] = dir']
    BY <1>0, <1>00, <2>7 DEF TypePage
  <2>8. CASE page' = [page EXCEPT ![s] = p] /\ moved' = moved
    <3> SUFFICES ASSUME s \notin moved, ~astray', NEW j \in 1..Len(page[s])
                 PROVE  RightIn(dir', j, page[s][j].file)
      BY <1>0, <2>5, <2>6, <2>8 DEF PageMeans, TypePage
    <3>1. RightIn(dir, j, page[s][j].file) /\ j \in Nat \ {0}
      BY <1>0, <1>04, <2>1, <2>3, LenProperties DEF Means, PageMeans, Busy, InSwap
    <3>2. Keeps(dir, dir')
      BY <1>0, <2>1, <2>2, <2>3, SubstituteKeeps
    <3> QED
      BY <1>0, <3>1, <3>2, KeepsRight
  <2> QED
    BY <2>4, <2>7, <2>8
<1>7. ASSUME NEW i \in 1..Len(page[s]), MailMark(s, i)
      PROVE  PageMeans(s)'
  <2> DEFINE h == [page[s][i] EXCEPT !.marked = ~@]
             p == [page[s] EXCEPT ![i] = h]
  <2>1. page[s] \in Seq(Header) /\ i \in Nat \ {0} /\ page[s][i] \in Header
    BY <1>0, Line
  <2>2. h \in Header /\ h.file = page[s][i].file
    BY <2>1, Headers
  <2>3. Substitute(h, i) /\ pc[s] = "idle" /\ pc' = pc
    BY <1>7 DEF MailMark, Chooses, WriteLine
  <2>4. page' = [page EXCEPT ![s] = dir'] \/ (page' = [page EXCEPT ![s] = p] /\ moved' = moved)
    BY <1>7 DEF MailMark, Redraw
  <2>5. \A j \in 1..Len(page[s]) : p[j].file = page[s][j].file
    BY <2>1, <2>2, ExceptSeq
  <2>6. Len(p) = Len(page[s])
    BY <2>1, <2>2, ExceptSeq
  <2> HIDE DEF h, p
  <2>7. CASE page' = [page EXCEPT ![s] = dir']
    BY <1>0, <1>00, <2>7 DEF TypePage
  <2>8. CASE page' = [page EXCEPT ![s] = p] /\ moved' = moved
    <3> SUFFICES ASSUME s \notin moved, ~astray', NEW j \in 1..Len(page[s])
                 PROVE  RightIn(dir', j, page[s][j].file)
      BY <1>0, <2>5, <2>6, <2>8 DEF PageMeans, TypePage
    <3>1. RightIn(dir, j, page[s][j].file) /\ j \in Nat \ {0}
      BY <1>0, <1>04, <2>1, <2>3, LenProperties DEF Means, PageMeans, Busy, InSwap
    <3>2. Keeps(dir, dir')
      BY <1>0, <2>1, <2>2, <2>3, SubstituteKeeps
    <3> QED
      BY <1>0, <3>1, <3>2, KeepsRight
  <2> QED
    BY <2>4, <2>7, <2>8
<1>8. ASSUME NEW i \in 1..Len(page[s]), MailDelFails(s, i)
      PROVE  PageMeans(s)'
  <2>1. dir' = dir /\ pc[s] = "idle" /\ ~Busy(s)
    BY <1>8 DEF MailDelFails, Chooses, index, Busy, InSwap
  <2>2. (page' = page /\ moved' = moved) \/ page'[s] = dir'
    BY <1>8, <1>0, <2>1 DEF MailDelFails, Redraw, TypePage
  <2> QED
    BY <1>00, <1>02, <2>1, <2>2
<1>9. CASE SwapFails(s)
  <2>1. CASE pc[s] = "swap"
    BY <1>9, <1>0, <1>00, <2>1 DEF SwapFails, SwapDone, TypePage
  <2>2. CASE pc[s] = "newswap"
    BY <1>9, <1>0, <1>01, <1>05, <2>2 DEF SwapFails, SwapDone, InMNew
  <2> QED
    BY <1>9, <2>1, <2>2 DEF SwapFails
<1>10. CASE SwapIn(s)
  <2>1. CASE pc[s] = "rename"
    BY <1>10, <1>0, <1>00, <2>1 DEF SwapIn, SwapDone, TypePage
  <2>2. CASE pc[s] = "newrename"
    BY <1>10, <1>0, <1>01, <1>05, <2>2 DEF SwapIn, SwapDone, InMNew
  <2> QED
    BY <1>10, <2>1, <2>2 DEF SwapIn
<1>11. CASE NewStart(s)
  BY <1>11, <1>0, <1>01 DEF NewStart
<1>12. CASE NewRead(s)
  BY <1>12, <1>0, <1>01, <1>05 DEF NewRead, InMNew, InNew
<1> QED
  BY <1>1, <1>2, <1>3, <1>4, <1>5, <1>6, <1>7, <1>8, <1>9, <1>10, <1>11, <1>12 DEF Act

LEMMA OwnPlace ==
  ASSUME Typed, NEW s \in Session, Act(s), Means(s)
  PROVE  Place(s)'
<1>0. TypePc /\ TypePage /\ TypeNoted /\ Place(s)
  BY DEF Typed, Means
<1>1. CASE SendOpen(s) \/ SendAbort(s) \/ SendDeliver(s) \/ OpenBox(s) \/ LeaveBox(s)
          \/ MailUnlink(s) \/ RangeRefused(s) \/ SwapAway(s)
  BY <1>1, <1>0 DEF Goto, LeaveBox, MailUnlink, OpenBox, RangeRefused, Reread,
     SendAbort, SendDeliver, SendOpen, SwapAway, Place, InMNew, InNew, TypePc,
     TypePage, TypeNoted, local
<1>2. CASE NewStart(s) \/ NewNext(s) \/ NewLast(s) \/ NewRead(s) \/ NewKeep(s) \/
          NewUnlink(s) \/ NewCopy(s) \/ NewDone(s)
  BY <1>2, <1>0 DEF Goto, NewCopy, NewDone, NewKeep, NewLast, NewNext, NewRead,
     NewStart, NewUnlink, Substitute, Place, InMNew, InNew, TypePc, TypePage,
     TypeNoted, local
<1>3. CASE PopLogin(s) \/ Rset(s) \/ PopLeave(s) \/ PopCopy(s) \/ PopUnlink(s) \/
          PopRename(s) \/ (\E i \in 1..Len(page[s]) : MailDel(s, i)) \/
          (\E i \in 1..Len(page[s]) : Dele(s, i))
  BY <1>3, <1>0 DEF Chooses, Dele, Goto, MailDel, PopCopy, PopForgets, PopLeave,
     PopLogin, PopRename, PopUnlink, Reread, Rset, Place, InMNew, InNew, TypePc,
     TypePage, TypeNoted, local
<1>4. CASE (\E i1 \in 1..(Len(page[s]) + 1), i2 \in 1..(Len(page[s]) + 1) : RangeCopy(s, i1, i2))
  BY <1>4, <1>0 DEF Goto, RangeCopy, Place, InMNew, InNew, TypePc, TypePage,
     TypeNoted, local
<1>5. CASE Hangup(s) \/ SwapFails(s) \/ SwapIn(s) \/ NewRefused(s)
  BY <1>5, <1>0, EmptySeq DEF CopyRefused, Goto, Hangup, NewRefused, SwapDone,
     SwapFails, SwapIn, Place, InMNew, InNew, TypePc, TypePage, TypeNoted, local
<1>6. ASSUME NEW i \in 1..Len(page[s]), MailRead(s, i)
      PROVE  Place(s)'
  BY <1>6, <1>0 DEF MailRead, Chooses, WriteLine, Place, InMNew, InNew, local
<1>7. ASSUME NEW i \in 1..Len(page[s]), MailMark(s, i)
      PROVE  Place(s)'
  BY <1>7, <1>0 DEF MailMark, Chooses, WriteLine, Place, InMNew, InNew, local
<1>8. ASSUME NEW i \in 1..Len(page[s]), MailDelFails(s, i)
      PROVE  Place(s)'
  BY <1>8, <1>0 DEF MailDelFails, Chooses, WriteLine, Place, InMNew, InNew, local
<1> QED
  BY <1>1, <1>2, <1>3, <1>4, <1>5, <1>6, <1>7, <1>8 DEF Act

LEMMA OwnIndexStep ==
  ASSUME Typed, NEW s \in Session, Act(s), Means(s)
  PROVE  OwnIndex(s)'
<1>0. TypePc /\ TypeFd /\ OwnIndex(s)
  BY DEF Typed, Means
<1>1. CASE SendOpen(s) \/ SendAbort(s) \/ SendDeliver(s) \/ OpenBox(s) \/ LeaveBox(s)
  BY <1>1, <1>0 DEF Goto, LeaveBox, OpenBox, Reread, SendAbort, SendDeliver,
     SendOpen, OwnIndex, InNew, TypePc, TypeFd, Live, MayCopy, MovedBy, local,
     index, history
<1>2. CASE MailUnlink(s) \/ RangeRefused(s) \/ SwapAway(s) \/ SwapFails(s) \/
          SwapIn(s)
  BY <1>2, <1>0 DEF Goto, MailUnlink, RangeRefused, Reread, SwapAway, SwapDone,
     SwapFails, SwapIn, OwnIndex, InNew, TypePc, TypeFd, Live, MayCopy, MovedBy,
     local, index, history
<1>3. CASE NewStart(s) \/ NewNext(s) \/ NewLast(s) \/ NewKeep(s) \/ NewUnlink(s)
  BY <1>3, <1>0 DEF Goto, NewKeep, NewLast, NewNext, NewStart, NewUnlink, OwnIndex,
     InNew, TypePc, TypeFd, Live, MayCopy, MovedBy, local, index, history
<1>4. CASE NewCopy(s) \/ NewRefused(s) \/ NewDone(s) \/ PopLogin(s) \/ Rset(s)
  BY <1>4, <1>0 DEF CopyRefused, Goto, NewCopy, NewDone, NewRefused, PopLogin,
     Reread, Rset, OwnIndex, InNew, TypePc, TypeFd, Live, MayCopy, MovedBy, local,
     index, history
<1>5. CASE PopLeave(s) \/ PopCopy(s) \/ PopUnlink(s) \/ PopRename(s) \/ Hangup(s)
  BY <1>5, <1>0 DEF Goto, Hangup, PopCopy, PopForgets, PopLeave, PopRename,
     PopUnlink, OwnIndex, InNew, TypePc, TypeFd, Live, MayCopy, MovedBy, local,
     index, history
<1>6. CASE (\E i \in 1..Len(page[s]) : MailDel(s, i)) \/
          (\E i \in 1..Len(page[s]) : Dele(s, i)) \/
          (\E i1 \in 1..(Len(page[s]) + 1), i2 \in 1..(Len(page[s]) + 1) : RangeCopy(s, i1, i2))
  BY <1>6, <1>0 DEF Chooses, Dele, Goto, MailDel, RangeCopy, OwnIndex, InNew,
     TypePc, TypeFd, Live, MayCopy, MovedBy, local, index, history
<1>7. ASSUME NEW i \in 1..Len(page[s]), MailRead(s, i)
      PROVE  OwnIndex(s)'
  BY <1>7, <1>0 DEF MailRead, Chooses, WriteLine, OwnIndex, InNew
<1>8. ASSUME NEW i \in 1..Len(page[s]), MailMark(s, i)
      PROVE  OwnIndex(s)'
  BY <1>8, <1>0 DEF MailMark, Chooses, WriteLine, OwnIndex, InNew
<1>9. ASSUME NEW i \in 1..Len(page[s]), MailDelFails(s, i)
      PROVE  OwnIndex(s)'
  BY <1>9, <1>0 DEF MailDelFails, Chooses, WriteLine, OwnIndex, InNew
<1>10. CASE NewRead(s)
  BY <1>10, <1>0 DEF NewRead, Substitute, Goto, TypePc, OwnIndex, InNew
<1> QED
  BY <1>1, <1>2, <1>3, <1>4, <1>5, <1>6, <1>7, <1>8, <1>9, <1>10 DEF Act

LEMMA OwnOrdered ==
  ASSUME Typed, NEW s \in Session, Act(s), Means(s)
  PROVE  Ordered(s)'
<1>0. TypePc /\ TypePage /\ TypeNoted /\ TypeWork /\ Place(s) /\ Ordered(s)
  BY DEF Typed, Means
<1>00. ASSUME noted[s] = <<>>, noted' = noted PROVE Ordered(s)'
  BY <1>00, EmptySeq DEF Ordered
<1>01. ASSUME noted[s] # <<>>, noted'[s] = Rest(noted[s]), pc'[s] = "newdel"
       PROVE  Ordered(s)'
  <2>1. noted[s] \in Seq(Note) /\ Len(noted[s]) \in Nat
    BY <1>0, LenProperties DEF TypeNoted
  <2>2. /\ Len(Rest(noted[s])) = Len(noted[s]) - 1
        /\ \A k \in 1..(Len(noted[s]) - 1) : Rest(noted[s])[k] = noted[s][k]
    BY <1>01, <2>1, RestProperties
  <2>3. \A k \in 1..(Len(noted[s]) - 1) : k \in 1..Len(noted[s])
    BY <2>1
  <2>4. \A k, l \in 1..Len(noted'[s]) : k < l => noted'[s][k].ent < noted'[s][l].ent
    BY <1>0, <1>01, <2>2, <2>3 DEF Ordered
  <2> QED
    BY <1>01, <2>4 DEF Ordered
<1>02. \A k \in 1..Len(noted[s]) : noted[s][k].ent \in Nat
  <2>1. noted[s] \in Seq(Note)
    BY <1>0 DEF TypeNoted
  <2>2. \A k \in 1..Len(noted[s]) : noted[s][k] \in Note
    BY <2>1, ElementOfSeq
  <2> QED
    BY <2>2 DEF Note
<1>03. ASSUME noted' = noted, pc'[s] \notin InNew PROVE Ordered(s)'
  BY <1>0, <1>03 DEF Ordered, InNew
<1>1. CASE SwapAway(s) \/ NewCopy(s)
  BY <1>1, <1>0, <1>03 DEF Goto, NewCopy, SwapAway, InNew, TypePc, local
<1>2. CASE SendOpen(s) \/ SendAbort(s) \/ SendDeliver(s) \/ OpenBox(s) \/ LeaveBox(s)
          \/ MailUnlink(s)
  BY <1>2, <1>0, <1>00 DEF Goto, LeaveBox, MailUnlink, OpenBox, Reread, SendAbort,
     SendDeliver, SendOpen, Place, InMNew, InNew, TypePc, local
<1>3. CASE RangeRefused(s) \/ NewStart(s) \/ NewDone(s) \/ PopLogin(s) \/ Rset(s) \/
          PopLeave(s)
  BY <1>3, <1>0, <1>00 DEF Goto, NewDone, NewStart, PopForgets, PopLeave, PopLogin,
     RangeRefused, Reread, Rset, Place, InMNew, InNew, TypePc, local
<1>4. CASE PopCopy(s) \/ PopUnlink(s) \/ PopRename(s) \/
          (\E i \in 1..Len(page[s]) : MailDel(s, i)) \/
          (\E i \in 1..Len(page[s]) : Dele(s, i)) \/
          (\E i1 \in 1..(Len(page[s]) + 1), i2 \in 1..(Len(page[s]) + 1) : RangeCopy(s, i1, i2))
  BY <1>4, <1>0, <1>00 DEF Chooses, Dele, Goto, MailDel, PopCopy, PopForgets,
     PopRename, PopUnlink, RangeCopy, Place, InMNew, InNew, TypePc, local
<1>5. CASE NewNext(s)
  <2>1. /\ pc[s] = "new" /\ work'[s].ent = work[s].ent + 1 /\ noted' = noted
        /\ work[s].ent \in Nat /\ pc'[s] \in {"new", "ask"}
    BY <1>5, <1>0 DEF NewNext, Goto, TypePc, TypeWork
  <2>2. \A k \in 1..Len(noted[s]) : noted[s][k].ent < work'[s].ent /\ noted[s][k].ent <= work'[s].ent
    BY <1>0, <1>02, <2>1 DEF Ordered
  <2> QED
    BY <1>0, <2>1, <2>2 DEF Ordered
<1>6. CASE NewLast(s)
  BY <1>6, <1>0 DEF NewLast, Goto, TypePc, Ordered
<1>7. CASE NewKeep(s)
  <2>1. /\ pc[s] \in {"ask", "shown"} /\ work' = work /\ noted' = noted /\ pc'[s] = "new"
        /\ work[s].ent \in Nat
    BY <1>7, <1>0 DEF NewKeep, Goto, TypePc, TypeWork, local
  <2>2. \A k \in 1..Len(noted[s]) : noted[s][k].ent <= work[s].ent
    BY <1>0, <1>02, <2>1 DEF Ordered
  <2> QED
    BY <1>0, <2>1, <2>2 DEF Ordered
<1>8. CASE NewRead(s)
  <2>1. pc[s] = "ask" /\ work'[s].ent = work[s].ent /\ noted' = noted /\ pc'[s] = "shown"
    BY <1>8, <1>0 DEF NewRead, Goto, TypePc, TypeWork
  <2> QED
    BY <1>0, <2>1 DEF Ordered
<1>9. CASE NewUnlink(s)
  <2> DEFINE e == [ent |-> work[s].ent, file |-> work[s].hdr.file]
  <2>1. /\ noted[s] \in Seq(Note) /\ noted'[s] = Append(noted[s], e) /\ work' = work
        /\ pc[s] = "shown" /\ pc'[s] = "new" /\ work[s].ent \in Nat
    BY <1>9, <1>0 DEF NewUnlink, TypeNoted, Goto, TypePc, TypeWork
  <2>2. e \in Note /\ e.ent = work[s].ent
    <3>1. work[s].hdr \in Header
      BY <1>0 DEF TypeWork
    <3> QED
      BY <2>1, <3>1, Headers DEF Note
  <2> HIDE DEF e
  <2>3. /\ Len(noted[s]) \in Nat /\ Len(noted'[s]) = Len(noted[s]) + 1
        /\ \A k \in 1..Len(noted[s]) : noted'[s][k] = noted[s][k]
        /\ noted'[s][Len(noted[s]) + 1] = e
    BY <2>1, <2>2, LenProperties, AppendProperties
  <2>4. \A k \in 1..Len(noted'[s]) : k \in 1..Len(noted[s]) \/ (k = Len(noted[s]) + 1)
    BY <2>3
  <2>5. \A k \in 1..Len(noted[s]) : noted[s][k].ent < work[s].ent
    BY <1>0, <2>1 DEF Ordered
  <2>6. ASSUME NEW k \in 1..Len(noted'[s]), NEW l \in 1..Len(noted'[s]), k < l
        PROVE  noted'[s][k].ent < noted'[s][l].ent
    <3>1. k \in 1..Len(noted[s])
      BY <2>3, <2>6
    <3>2. CASE l \in 1..Len(noted[s])
      BY <1>0, <2>3, <2>6, <3>1, <3>2 DEF Ordered
    <3>3. CASE l = Len(noted[s]) + 1
      BY <2>2, <2>3, <2>5, <3>1, <3>3
    <3> QED
      BY <2>4, <3>2, <3>3
  <2>7. \A k \in 1..Len(noted'[s]) : noted'[s][k].ent <= work'[s].ent
    BY <1>02, <2>1, <2>2, <2>3, <2>4, <2>5
  <2> QED
    BY <2>1, <2>6, <2>7 DEF Ordered
<1>10. CASE SwapFails(s)
  <2>1. CASE pc[s] = "swap"
    BY <1>10, <1>0, <1>00, <2>1 DEF SwapFails, SwapDone, Goto, TypePc, Place, InMNew, InNew
  <2>2. CASE pc[s] = "newswap"
    <3>1. noted[s] # <<>> /\ noted'[s] = Rest(noted[s]) /\ pc'[s] = "newdel"
      BY <1>10, <1>0, <2>2 DEF SwapFails, SwapDone, Goto, TypePc, TypeNoted
    <3> QED
      BY <1>01, <3>1
  <2> QED
    BY <1>10, <2>1, <2>2 DEF SwapFails
<1>11. CASE SwapIn(s)
  <2>1. CASE pc[s] = "rename"
    BY <1>11, <1>0, <1>00, <2>1 DEF SwapIn, SwapDone, Goto, TypePc, Place, InMNew, InNew
  <2>2. CASE pc[s] = "newrename"
    <3>1. noted[s] # <<>> /\ noted'[s] = Rest(noted[s]) /\ pc'[s] = "newdel"
      BY <1>11, <1>0, <2>2 DEF SwapIn, SwapDone, Goto, TypePc, TypeNoted
    <3> QED
      BY <1>01, <3>1
  <2> QED
    BY <1>11, <2>1, <2>2 DEF SwapIn
<1>12. CASE NewRefused(s)
  BY <1>12, <1>0, <1>01 DEF NewRefused, TypeNoted
<1>13. CASE Hangup(s)
  BY <1>13, <1>0, EmptySeq DEF Hangup, TypeNoted, Ordered
<1>14. ASSUME NEW i \in 1..Len(page[s]), MailRead(s, i)
      PROVE  Ordered(s)'
  BY <1>14, <1>0, <1>00 DEF MailRead, Chooses, WriteLine, Place, InMNew, InNew, local
<1>15. ASSUME NEW i \in 1..Len(page[s]), MailMark(s, i)
      PROVE  Ordered(s)'
  BY <1>15, <1>0, <1>00 DEF MailMark, Chooses, WriteLine, Place, InMNew, InNew, local
<1>16. ASSUME NEW i \in 1..Len(page[s]), MailDelFails(s, i)
      PROVE  Ordered(s)'
  BY <1>16, <1>0, <1>00 DEF MailDelFails, Chooses, WriteLine, Place, InMNew, InNew, local
<1> QED
  BY <1>1, <1>2, <1>3, <1>4, <1>5, <1>6, <1>7, <1>8, <1>9, <1>10, <1>11, <1>12, <1>13,
     <1>14, <1>15, <1>16 DEF Act

LEMMA OwnCopyMeans ==
  ASSUME Typed, NEW s \in Session, Act(s), Means(s)
  PROVE  CopyMeans(s)'
<1>0. /\ TypePc /\ TypeNoted /\ TypeIndex /\ Means(s) /\ (astray => astray')
  BY Strays DEF Typed
<1>00. ASSUME pc'[s] \notin {"newswap", "newrename"} PROVE CopyMeans(s)'
  BY <1>00 DEF CopyMeans
<1>1. CASE SendOpen(s) \/ SendAbort(s) \/ SendDeliver(s) \/ OpenBox(s) \/ LeaveBox(s)
          \/ MailUnlink(s) \/ RangeRefused(s) \/ SwapFails(s)
  BY <1>1, <1>0, <1>00 DEF Goto, LeaveBox, MailUnlink, OpenBox, RangeRefused,
     Reread, SendAbort, SendDeliver, SendOpen, SwapDone, SwapFails, InNew, TypePc,
     local
<1>2. CASE SwapIn(s) \/ NewStart(s) \/ NewNext(s) \/ NewLast(s) \/ NewRead(s) \/
          NewKeep(s) \/ NewUnlink(s) \/ NewRefused(s)
  BY <1>2, <1>0, <1>00 DEF CopyRefused, Goto, NewKeep, NewLast, NewNext, NewRead,
     NewRefused, NewStart, NewUnlink, Substitute, SwapDone, SwapIn, InNew, TypePc,
     local
<1>3. CASE NewDone(s) \/ PopLogin(s) \/ Rset(s) \/ PopLeave(s) \/ PopCopy(s) \/
          PopUnlink(s) \/ PopRename(s) \/ Hangup(s)
  BY <1>3, <1>0, <1>00 DEF Goto, Hangup, NewDone, PopCopy, PopForgets, PopLeave,
     PopLogin, PopRename, PopUnlink, Reread, Rset, InNew, TypePc, local
<1>4. CASE (\E i \in 1..Len(page[s]) : MailDel(s, i)) \/
          (\E i \in 1..Len(page[s]) : Dele(s, i)) \/
          (\E i1 \in 1..(Len(page[s]) + 1), i2 \in 1..(Len(page[s]) + 1) : RangeCopy(s, i1, i2))
  BY <1>4, <1>0, <1>00 DEF Chooses, Dele, Goto, MailDel, RangeCopy, InNew, TypePc,
     local
<1>5. ASSUME NEW i \in 1..Len(page[s]), MailRead(s, i)
      PROVE  CopyMeans(s)'
  BY <1>5, <1>00 DEF MailRead, Chooses, WriteLine
<1>6. ASSUME NEW i \in 1..Len(page[s]), MailMark(s, i)
      PROVE  CopyMeans(s)'
  BY <1>6, <1>00 DEF MailMark, Chooses, WriteLine
<1>7. ASSUME NEW i \in 1..Len(page[s]), MailDelFails(s, i)
      PROVE  CopyMeans(s)'
  BY <1>7, <1>00 DEF MailDelFails, Chooses, WriteLine
<1>8. CASE NewCopy(s)
  <2> DEFINE n == Len(noted[s])
             e == noted[s][n]
  <2> SUFFICES ASSUME s \notin moved, ~astray', NEW k \in 1..(n - 1)
               PROVE  RightIn(tmpfile'.recs, noted[s][k].ent, noted[s][k].file)
    BY <1>8 DEF NewCopy, CopyMeans, local, index
  <2>1. /\ n \in Nat /\ n >= 1 /\ noted[s] \in Seq(Note) /\ e.ent \in Nat \ {0}
        /\ noted[s][NextNoted(noted[s])] = e
    BY <1>8, <1>0, LastNoted DEF NewCopy
  <2>2. /\ tmpfile'.recs = DeleteRecord(dir, e.ent) /\ ~Missed(e.ent, e.file)
    BY <1>8, <2>1 DEF NewCopy
  <2>3. /\ k \in 1..n /\ n \in 1..n /\ k < n
    BY <2>1
  <2>4. RightIn(dir, noted[s][k].ent, noted[s][k].file)
    BY <1>8, <1>0, <2>3 DEF NewCopy, Means, NotedMeans, Busy, InSwap
  <2>5. noted[s][k].ent < e.ent /\ noted[s][k].ent \in Nat \ {0}
    <3>1. noted[s][k] \in Note /\ noted[s][k].ent >= 1
      BY <1>0, <2>1, <2>3, ElementOfSeq DEF TypeNoted
    <3> QED
      BY <1>0, <2>3, <3>1 DEF Means, Ordered, Note
  <2>6. e.ent \in 1..Len(dir) /\ Len(dir) \in Nat
    BY <1>0, <2>1, <2>2, LenProperties DEF Missed, TypeIndex
  <2> HIDE DEF e, n
  <2>7. DeleteRecord(dir, e.ent) = DropRecord(dir, e.ent)
    BY <2>6 DEF DeleteRecord
  <2>8. /\ Len(DropRecord(dir, e.ent)) = Len(dir) - 1
        /\ \A i \in 1..(Len(dir) - 1) :
             DropRecord(dir, e.ent)[i] = IF i < e.ent THEN dir[i] ELSE dir[i + 1]
    BY <1>0, <2>6, DropRecordProperties DEF TypeIndex
  <2>9. noted[s][k].ent \in 1..(Len(dir) - 1)
    BY <2>5, <2>6
  <2> QED
    BY <2>2, <2>4, <2>5, <2>6, <2>7, <2>8, <2>9 DEF RightIn
<1>9. CASE SwapAway(s)
  <2>1. CASE pc[s] = "newswap"
    BY <1>9, <1>0, <2>1 DEF SwapAway, Means, CopyMeans, side, MovedBy
  <2>2. CASE pc[s] = "swap"
    BY <1>9, <1>0, <1>00, <2>2 DEF SwapAway, Goto, TypePc
  <2> QED
    BY <1>9, <2>1, <2>2 DEF SwapAway
<1> QED
  BY <1>1, <1>2, <1>3, <1>4, <1>5, <1>6, <1>7, <1>8, <1>9 DEF Act

LEMMA OwnNoted ==
  ASSUME Typed, NEW s \in Session, Act(s), Means(s)
  PROVE  NotedMeans(s)'
<1>0. /\ TypePc /\ TypePage /\ TypeNoted /\ TypeWork /\ TypeIndex /\ Means(s) /\ Place(s)
      /\ dir \in Seq(Header) /\ dir' \in Seq(Header) /\ (astray => astray')
  BY StepIndex, Strays DEF Typed, Means, TypeIndex
<1>00. ASSUME noted[s] = <<>>, noted' = noted PROVE NotedMeans(s)'
  BY <1>00, EmptySeq DEF NotedMeans
<1>01. ASSUME noted[s] # <<>>, noted'[s] = Rest(noted[s]), NEW d,
              \A k \in 1..(Len(noted[s]) - 1) : RightIn(d, noted[s][k].ent, noted[s][k].file)
       PROVE  \A k \in 1..Len(noted'[s]) : RightIn(d, noted'[s][k].ent, noted'[s][k].file)
  <2>1. noted[s] \in Seq(Note) /\ Len(noted[s]) \in Nat
    BY <1>0, LenProperties DEF TypeNoted
  <2>2. /\ Len(Rest(noted[s])) = Len(noted[s]) - 1
        /\ \A k \in 1..(Len(noted[s]) - 1) : Rest(noted[s])[k] = noted[s][k]
    BY <1>01, <2>1, RestProperties
  <2> QED
    BY <1>01, <2>2
<1>02. ASSUME noted' = noted, dir' = dir, moved' = moved, ~Busy(s) PROVE NotedMeans(s)'
  BY <1>0, <1>02 DEF Means, NotedMeans
<1>03. ASSUME pc'[s] \in InSwap \cup {"unlink"} PROVE NotedMeans(s)'
  BY <1>03 DEF NotedMeans, Busy
<1>1. CASE NewNext(s) \/ NewLast(s) \/ NewKeep(s) \/ NewDone(s)
  BY <1>1, <1>0, <1>02 DEF NewDone, NewKeep, NewLast, NewNext, Busy, InSwap, local,
     index, history
<1>2. CASE (\E i \in 1..Len(page[s]) : MailDel(s, i)) \/
          (\E i1 \in 1..(Len(page[s]) + 1), i2 \in 1..(Len(page[s]) + 1) : RangeCopy(s, i1, i2))
          \/ SwapAway(s) \/ NewCopy(s) \/ PopCopy(s) \/ PopUnlink(s)
  BY <1>2, <1>0, <1>03 DEF Chooses, Goto, MailDel, NewCopy, PopCopy, PopUnlink,
     RangeCopy, SwapAway, TypePc, InSwap
<1>3. CASE SendOpen(s) \/ SendAbort(s) \/ OpenBox(s) \/ LeaveBox(s) \/ MailUnlink(s)
          \/ RangeRefused(s)
  BY <1>3, <1>0, <1>00 DEF Goto, LeaveBox, MailUnlink, OpenBox, RangeRefused,
     Reread, SendAbort, SendOpen, Place, InMNew, InNew, TypePc, local
<1>4. CASE NewStart(s) \/ PopLogin(s) \/ Rset(s) \/ PopLeave(s) \/ PopRename(s) \/
          (\E i \in 1..Len(page[s]) : Dele(s, i))
  BY <1>4, <1>0, <1>00 DEF Dele, Goto, NewStart, PopForgets, PopLeave, PopLogin,
     PopRename, Reread, Rset, Place, InMNew, InNew, TypePc, local
<1>5. CASE SendDeliver(s)
  BY <1>5, <1>0, <1>00 DEF SendDeliver, Chooses, WriteLine, Place, InMNew, InNew, local
<1>6. ASSUME NEW i \in 1..Len(page[s]), MailRead(s, i)
      PROVE  NotedMeans(s)'
  BY <1>6, <1>0, <1>00 DEF MailRead, Chooses, WriteLine, Place, InMNew, InNew, local
<1>7. ASSUME NEW i \in 1..Len(page[s]), MailMark(s, i)
      PROVE  NotedMeans(s)'
  BY <1>7, <1>0, <1>00 DEF MailMark, Chooses, WriteLine, Place, InMNew, InNew, local
<1>8. ASSUME NEW i \in 1..Len(page[s]), MailDelFails(s, i)
      PROVE  NotedMeans(s)'
  BY <1>8, <1>0, <1>00 DEF MailDelFails, Chooses, WriteLine, Place, InMNew, InNew, local
<1>9. CASE NewRead(s)
  <2> DEFINE h == [work[s].hdr EXCEPT !.read = TRUE]
  <2>1. work[s].ent \in Nat \ {0} /\ work[s].hdr \in Header /\ pc[s] = "ask"
    BY <1>9, <1>0 DEF NewRead, TypeWork
  <2>2. h \in Header
    BY <2>1, Headers
  <2>3. Substitute(h, work[s].ent) /\ noted' = noted /\ moved' = moved
    BY <1>9 DEF NewRead
  <2> HIDE DEF h
  <2> SUFFICES ASSUME s \notin moved, ~astray', NEW k \in 1..Len(noted[s])
               PROVE  RightIn(dir', noted[s][k].ent, noted[s][k].file)
    BY <2>3 DEF NotedMeans
  <2>4. RightIn(dir, noted[s][k].ent, noted[s][k].file)
    BY <1>0, <2>1 DEF Means, NotedMeans, Busy, InSwap
  <2>5. noted[s][k].ent \in Nat \ {0}
    <3>1. noted[s] \in Seq(Note)
      BY <1>0 DEF TypeNoted
    <3>2. noted[s][k] \in Note
      BY <3>1, ElementOfSeq
    <3>3. noted[s][k].ent >= 1
      BY <1>0 DEF TypeNoted
    <3> QED
      BY <3>2, <3>3 DEF Note
  <2>6. Keeps(dir, dir')
    BY <1>0, <2>1, <2>2, <2>3, SubstituteKeeps
  <2> QED
    BY <1>0, <2>4, <2>5, <2>6, KeepsRight
<1>10. CASE NewUnlink(s)
  <2> DEFINE e == [ent |-> work[s].ent, file |-> work[s].hdr.file]
  <2>1. /\ noted[s] \in Seq(Note) /\ noted'[s] = Append(noted[s], e)
        /\ pc[s] = "shown" /\ dir' = dir /\ moved' = moved /\ astray' = astray
    BY <1>10, <1>0 DEF NewUnlink, TypeNoted, index
  <2>2. e \in Note /\ e.ent = work[s].ent /\ e.file = work[s].hdr.file
    <3>1. work[s].hdr \in Header /\ work[s].ent \in Nat
      BY <1>0 DEF TypeWork
    <3> QED
      BY <3>1, Headers DEF Note
  <2> HIDE DEF e
  <2>3. /\ Len(noted[s]) \in Nat /\ Len(noted'[s]) = Len(noted[s]) + 1
        /\ \A k \in 1..Len(noted[s]) : noted'[s][k] = noted[s][k]
        /\ noted'[s][Len(noted[s]) + 1] = e
    BY <2>1, <2>2, LenProperties, AppendProperties
  <2> SUFFICES ASSUME s \notin moved, ~astray, NEW k \in 1..Len(noted'[s])
               PROVE  RightIn(dir, noted'[s][k].ent, noted'[s][k].file)
    BY <2>1 DEF NotedMeans
  <2>4. CASE k \in 1..Len(noted[s])
    BY <1>0, <2>1, <2>3, <2>4 DEF Means, NotedMeans, Busy, InSwap
  <2>5. CASE k = Len(noted[s]) + 1
    BY <1>0, <2>1, <2>2, <2>3, <2>5 DEF Means, WorkMeans
  <2> QED
    BY <2>3, <2>4, <2>5
<1>11. CASE SwapFails(s)
  <2>1. CASE pc[s] = "swap"
    BY <1>11, <1>0, <1>00, <2>1 DEF SwapFails, SwapDone, Goto, TypePc, Place, InMNew, InNew
  <2>2. CASE pc[s] = "newswap"
    <3>1. noted[s] # <<>> /\ noted'[s] = Rest(noted[s]) /\ pc'[s] = "newdel"
      BY <1>11, <1>0, <2>2 DEF SwapFails, SwapDone, Goto, TypePc, TypeNoted
    <3> QED
      <4>1. s \in moved'
        BY <1>11, <1>0, <2>2 DEF SwapFails, Means, OwnIndex
      <4> QED
        BY <4>1 DEF NotedMeans
  <2> QED
    BY <1>11, <2>1, <2>2 DEF SwapFails
<1>12. CASE SwapIn(s)
  <2>1. CASE pc[s] = "rename"
    BY <1>12, <1>0, <1>00, <2>1 DEF SwapIn, SwapDone, Goto, TypePc, Place, InMNew, InNew
  <2>2. CASE pc[s] = "newrename"
    <3>1. noted[s] # <<>> /\ noted'[s] = Rest(noted[s]) /\ pc'[s] = "newdel"
      BY <1>12, <1>0, <2>2 DEF SwapIn, SwapDone, Goto, TypePc, TypeNoted
    <3> QED
      <4>1. /\ dir' = tmpfile.recs /\ moved \subseteq moved' /\ astray' = astray
        BY <1>12 DEF SwapIn
      <4>2. ASSUME s \notin moved, ~astray
            PROVE  \A k \in 1..(Len(noted[s]) - 1) :
                     RightIn(dir', noted[s][k].ent, noted[s][k].file)
        BY <1>0, <2>2, <4>1, <4>2 DEF Means, CopyMeans
      <4>3. ASSUME s \notin moved, ~astray
            PROVE  \A k \in 1..Len(noted'[s]) :
                     RightIn(dir', noted'[s][k].ent, noted'[s][k].file)
        BY <1>01, <3>1, <4>2, <4>3
      <4> QED
        BY <4>1, <4>3 DEF NotedMeans
  <2> QED
    BY <1>12, <2>1, <2>2 DEF SwapIn
<1>13. CASE NewRefused(s)
  <2>1. /\ noted[s] # <<>> /\ noted'[s] = Rest(noted[s]) /\ pc[s] = "newdel"
        /\ dir' = dir /\ moved' = moved /\ astray' = astray
    BY <1>13, <1>0 DEF NewRefused, TypeNoted, index
  <2>2. Len(noted[s]) \in Nat
    BY <1>0, LenProperties DEF TypeNoted
  <2>3. ASSUME s \notin moved, ~astray
        PROVE  \A k \in 1..(Len(noted[s]) - 1) :
                 RightIn(dir, noted[s][k].ent, noted[s][k].file)
    BY <1>0, <2>1, <2>2, <2>3 DEF Means, NotedMeans, Busy, InSwap
  <2>4. ASSUME s \notin moved, ~astray
        PROVE  \A k \in 1..Len(noted'[s]) :
                 RightIn(dir, noted'[s][k].ent, noted'[s][k].file)
    BY <1>01, <2>1, <2>3, <2>4
  <2> QED
    BY <2>1, <2>4 DEF NotedMeans
<1>14. CASE Hangup(s)
  BY <1>14, <1>0, EmptySeq DEF Hangup, TypeNoted, NotedMeans
<1> QED
  BY <1>1, <1>2, <1>3, <1>4, <1>5, <1>6, <1>7, <1>8, <1>9, <1>10, <1>11, <1>12, <1>13,
     <1>14 DEF Act

LEMMA OwnWork ==
  ASSUME Typed, NEW s \in Session, Act(s), Means(s)
  PROVE  WorkMeans(s)'
<1>0. TypePc /\ TypeIndex /\ TypeWork /\ Means(s) /\ (astray => astray')
  BY Strays DEF Typed
<1>00. ASSUME pc'[s] \notin {"ask", "shown"} PROVE WorkMeans(s)'
  BY <1>00 DEF WorkMeans
<1>1. CASE SendOpen(s) \/ SendAbort(s) \/ SendDeliver(s) \/ OpenBox(s) \/ LeaveBox(s)
          \/ MailUnlink(s) \/ RangeRefused(s) \/ SwapAway(s)
  BY <1>1, <1>0, <1>00 DEF Goto, LeaveBox, MailUnlink, OpenBox, RangeRefused,
     Reread, SendAbort, SendDeliver, SendOpen, SwapAway, TypePc, local
<1>2. CASE SwapFails(s) \/ SwapIn(s) \/ NewStart(s) \/ NewLast(s) \/ NewKeep(s) \/
          NewUnlink(s) \/ NewCopy(s) \/ NewRefused(s)
  BY <1>2, <1>0, <1>00 DEF CopyRefused, Goto, NewCopy, NewKeep, NewLast, NewRefused,
     NewStart, NewUnlink, SwapDone, SwapFails, SwapIn, TypePc, local
<1>3. CASE NewDone(s) \/ PopLogin(s) \/ Rset(s) \/ PopLeave(s) \/ PopCopy(s) \/
          PopUnlink(s) \/ PopRename(s) \/ Hangup(s)
  BY <1>3, <1>0, <1>00 DEF Goto, Hangup, NewDone, PopCopy, PopForgets, PopLeave,
     PopLogin, PopRename, PopUnlink, Reread, Rset, TypePc, local
<1>4. CASE (\E i \in 1..Len(page[s]) : MailDel(s, i)) \/
          (\E i \in 1..Len(page[s]) : Dele(s, i)) \/
          (\E i1 \in 1..(Len(page[s]) + 1), i2 \in 1..(Len(page[s]) + 1) : RangeCopy(s, i1, i2))
  BY <1>4, <1>0, <1>00 DEF Chooses, Dele, Goto, MailDel, RangeCopy, TypePc, local
<1>5. ASSUME NEW i \in 1..Len(page[s]), MailRead(s, i)
      PROVE  WorkMeans(s)'
  BY <1>5, <1>00 DEF MailRead, Chooses, WriteLine
<1>6. ASSUME NEW i \in 1..Len(page[s]), MailMark(s, i)
      PROVE  WorkMeans(s)'
  BY <1>6, <1>00 DEF MailMark, Chooses, WriteLine
<1>7. ASSUME NEW i \in 1..Len(page[s]), MailDelFails(s, i)
      PROVE  WorkMeans(s)'
  BY <1>7, <1>00 DEF MailDelFails, Chooses, WriteLine
<1>8. CASE NewNext(s)
  <2>1. /\ pc[s] = "new" /\ work[s].ent + 1 <= Len(Reads(s)) /\ dir' = dir /\ moved' = moved
        /\ work'[s] = [hdr |-> Reads(s)[work[s].ent + 1], ent |-> work[s].ent + 1]
    BY <1>8, <1>0 DEF NewNext, TypeWork, index, history
  <2>2. s \notin moved => Reads(s) = dir
    BY <1>0, <2>1 DEF Means, OwnIndex, Reads, InNew
  <2> QED
    BY <2>1, <2>2 DEF WorkMeans, RightIn
<1>9. CASE NewRead(s)
  <2> DEFINE h == [work[s].hdr EXCEPT !.read = TRUE]
  <2>1. work[s].ent \in Nat \ {0} /\ work[s].hdr \in Header
    BY <1>9, <1>0 DEF NewRead, TypeWork
  <2>2. h \in Header
    BY <2>1, Headers
  <2>3. Substitute(h, work[s].ent) /\ work'[s] = [hdr |-> h, ent |-> work[s].ent]
    BY <1>9, <1>0 DEF NewRead, TypeWork
  <2> HIDE DEF h
  <2>4. ~astray' => RightIn(dir', work[s].ent, h.file)
    BY <1>0, <2>1, <2>2, <2>3, SubstituteKeeps
  <2> QED
    BY <2>3, <2>4 DEF WorkMeans
<1> QED
  BY <1>1, <1>2, <1>3, <1>4, <1>5, <1>6, <1>7, <1>8, <1>9 DEF Act

LEMMA StepMeans ==
  ASSUME Typed, \A q \in Session : Means(q), [Next]_vars
  PROVE  (\A q \in Session : Means(q))'
<1>1. ASSUME NEW s \in Session, Step(s), NEW q \in Session PROVE Means(q)'
  <2>1. Act(s) /\ Means(s) /\ Means(q)
    BY <1>1, StepActs
  <2>2. Place(s)' /\ Ordered(s)' /\ OwnIndex(s)' /\ CopyMeans(s)'
    BY <2>1, OwnPlace, OwnOrdered, OwnIndexStep, OwnCopyMeans
  <2>3. PageMeans(s)' /\ NotedMeans(s)' /\ WorkMeans(s)'
    BY <2>1, OwnPage, OwnNoted, OwnWork
  <2>4. CASE q = s
    BY <2>2, <2>3, <2>4 DEF Means
  <2>5. CASE q \in Session \ {s}
    BY <2>1, <2>5, MeansElsewhere
  <2> QED
    BY <2>4, <2>5
<1>2. ASSUME UNCHANGED vars, NEW q \in Session PROVE Means(q)'
  <2>1. Place(q)' /\ Ordered(q)' /\ OwnIndex(q)' /\ CopyMeans(q)'
    BY <1>2 DEF vars, index, side, local, history, Means, Place, Ordered, OwnIndex,
       CopyMeans
  <2>2. PageMeans(q)' /\ NotedMeans(q)' /\ WorkMeans(q)'
    BY <1>2 DEF vars, index, local, history, Means, PageMeans, NotedMeans, WorkMeans,
       Busy
  <2> QED
    BY <2>1, <2>2 DEF Means
<1> QED
  BY <1>1, <1>2 DEF Next

LEMMA InitMeans == Init => \A s \in Session : Means(s)
<1> SUFFICES ASSUME Init, NEW s \in Session PROVE Means(s)
  OBVIOUS
<1>1. /\ pc[s] = "idle" /\ page[s] = <<>> /\ noted[s] = <<>>
  BY DEF Init
<1>2. Place(s) /\ Ordered(s) /\ OwnIndex(s) /\ CopyMeans(s)
  BY <1>1, EmptySeq DEF Place, Ordered, OwnIndex, CopyMeans, InNew
<1>3. PageMeans(s) /\ NotedMeans(s) /\ WorkMeans(s)
  BY <1>1, EmptySeq DEF PageMeans, NotedMeans, WorkMeans
<1> QED
  BY <1>2, <1>3 DEF Means

LEMMA MeansAlways == Spec => [](Typed /\ \A s \in Session : Means(s))
<1>1. Init => Typed /\ \A s \in Session : Means(s)
  BY InitTyped, InitMeans
<1>2. (Typed /\ \A s \in Session : Means(s)) /\ [Next]_vars
        => (Typed /\ \A s \in Session : Means(s))'
  BY StepTyped, StepMeans
<1> QED
  BY <1>1, <1>2, PTL DEF Spec

LEMMA MeansNumbersMean == Typed /\ (\A s \in Session : Means(s)) => NumbersMean
<1> SUFFICES ASSUME Typed, \A s \in Session : Means(s),
                    NEW s \in Session \ moved, ~Busy(s), ~astray
             PROVE  /\ \A i \in 1..Len(page[s]) : ~Missed(i, page[s][i].file)
                    /\ \A k \in 1..Len(noted[s]) : ~Missed(noted[s][k].ent, noted[s][k].file)
                    /\ pc[s] \in {"ask", "shown"} => ~Missed(work[s].ent, work[s].hdr.file)
  BY DEF NumbersMean
<1>1. PageMeans(s) /\ NotedMeans(s) /\ WorkMeans(s) /\ TypeIndex
  BY DEF Means, Typed
<1>2. ASSUME NEW i, NEW n, RightIn(dir, i, n), i \in Nat PROVE ~Missed(i, n)
  BY <1>1, <1>2, MissedRight
<1>3. \A i \in 1..Len(page[s]) : ~Missed(i, page[s][i].file)
  <2>1. Len(page[s]) \in Nat
    BY LenProperties DEF Typed, TypePage
  <2> QED
    BY <1>1, <1>2, <2>1 DEF PageMeans
<1>4. ASSUME NEW k \in 1..Len(noted[s]) PROVE ~Missed(noted[s][k].ent, noted[s][k].file)
  <2>1. noted[s] \in Seq(Note)
    BY DEF Typed, TypeNoted
  <2>2. noted[s][k] \in Note
    BY <2>1, ElementOfSeq
  <2> QED
    BY <1>1, <1>2, <2>2 DEF NotedMeans, Note
<1>5. pc[s] \in {"ask", "shown"} => ~Missed(work[s].ent, work[s].hdr.file)
  <2>1. work[s].ent \in Nat
    BY DEF Typed, TypeWork
  <2> QED
    BY <1>1, <1>2, <2>1 DEF WorkMeans
<1> QED
  BY <1>3, <1>4, <1>5

(* A number goes on meaning the mail it was shown or noted with, in the page  *)
(* of i_read, in a POP3 session and in the deletions m_new has still to make, *)
(* until another session takes a record out or puts another index in place.   *)
THEOREM NumbersMeanAlways == Spec => []NumbersMean
BY MeansAlways, MeansNumbersMean, PTL

-----------------------------------------------------------------------------
(* What stays listed.  While no number went astray one session at most        *)
(* copies the index, and its copy has whatever is not deleted or overtaken.  *)
Held == asked \cup overtaken
Safe == ~astray /\ "index" \notin halfway
AwayAt == {"rename", "newrename", "poprename"}
PopAt == {"popswap", "poprename"}

OneSwaps == ~astray => \A s, q \in Swapping : s = q

DirWhole == (Safe /\ ~Away) => delivered \subseteq Listed(dir) \cup Held

PopThere(s) ==
  (pc[s] \in PopAt /\ ~astray) => popdir.exists /\ Len(popdir.recs) = work[s].ent

TmpWhole(s) ==
  (pc[s] \in Lockers /\ Safe) => delivered \subseteq Listed(tmpfile.recs) \cup Held

PopWhole(s) ==
  (pc[s] \in PopAt /\ Safe) => delivered \subseteq Listed(popdir.recs) \cup Held

Stays ==
  /\ OneSwaps /\ DirWhole
  /\ \A s \in Session : PopThere(s) /\ TmpWhole(s) /\ PopWhole(s)

(* Copy g has the records of f with numbers in K, each once.                 *)
Distinct(f) == \A i, j \in 1..Len(f) : f[i].file = f[j].file => i = j

Takes(f, g, K) ==
  Listed(g) = {f[i].file : i \in K} /\ (Distinct(f) => Distinct(g))

LEMMA TakenBy ==
  ASSUME NEW f, NEW g, NEW K \in SUBSET (1..Len(f)), NEW m \in [1..Len(g) -> K],
         \A k \in 1..Len(g) : g[k] = f[m[k]],
         \A k, l \in 1..Len(g) : m[k] = m[l] => k = l,
         \A i \in K : \E k \in 1..Len(g) : m[k] = i
  PROVE  Takes(f, g, K)
<1>1. Listed(g) = {f[i].file : i \in K}
  <2>1. ASSUME NEW k \in 1..Len(g) PROVE g[k].file \in {f[i].file : i \in K}
    <3>1. m[k] \in K /\ g[k].file = f[m[k]].file
      OBVIOUS
    <3>2. \A i \in K : f[i].file \in {f[j].file : j \in K}
      OBVIOUS
    <3> QED
      BY <3>1, <3>2, Zenon
  <2>2. ASSUME NEW i \in K PROVE f[i].file \in Listed(g)
    BY DEF Listed
  <2>3. Listed(g) \subseteq {f[i].file : i \in K}
    BY <2>1 DEF Listed
  <2>4. {f[i].file : i \in K} \subseteq Listed(g)
    BY <2>2
  <2> QED
    BY <2>3, <2>4
<1>2. ASSUME Distinct(f), NEW k \in 1..Len(g), NEW l \in 1..Len(g),
             g[k].file = g[l].file
      PROVE  k = l
  <2>0. m[k] \in K /\ m[l] \in K
    OBVIOUS
  <2>1. m[k] \in 1..Len(f) /\ m[l] \in 1..Len(f)
    BY <2>0
  <2>2. m[k] = m[l]
    BY <1>2, <2>1 DEF Distinct
  <2> QED
    BY <2>2
<1> QED
  BY <1>1, <1>2 DEF Takes, Distinct

LEMMA DropTakes ==
  ASSUME NEW f \in Seq(Header), NEW n \in 1..Len(f)
  PROVE  Takes(f, DropRecord(f, n), (1..Len(f)) \ {n})
<1> DEFINE g == DropRecord(f, n)
           K == (1..Len(f)) \ {n}
           m == [k \in 1..(Len(f) - 1) |-> IF k < n THEN k ELSE k + 1]
<1>1. /\ Len(f) \in Nat /\ n \in Nat /\ Len(g) = Len(f) - 1
      /\ \A k \in 1..(Len(f) - 1) : g[k] = IF k < n THEN f[k] ELSE f[k + 1]
  BY LenProperties, DropRecordProperties
<1> HIDE DEF g
<1>2. m \in [1..Len(g) -> K] /\ \A k \in 1..Len(g) : g[k] = f[m[k]]
  BY <1>1
<1>3. \A k, l \in 1..Len(g) : m[k] = m[l] => k = l
  BY <1>1
<1>4. ASSUME NEW i \in K PROVE \E k \in 1..Len(g) : m[k] = i
  <2>1. CASE i < n
    <3>1. i \in 1..Len(g) /\ m[i] = i
      BY <1>1, <2>1
    <3> QED
      BY <3>1
  <2>2. CASE ~(i < n)
    <3>1. i - 1 \in 1..Len(g) /\ m[i - 1] = i
      BY <1>1, <2>2
    <3> QED
      BY <3>1
  <2> QED
    BY <2>1, <2>2
<1>5. K \in SUBSET (1..Len(f))
  OBVIOUS
<1> HIDE DEF m, K
<1>6. Takes(f, g, K)
  BY <1>2, <1>3, <1>4, <1>5, TakenBy
<1> QED
  BY <1>6 DEF g, K

LEMMA WithoutTakes ==
  ASSUME NEW d \in Seq(Header), NEW S
  PROVE  Takes(d, Without(d, S), {i \in 1..Len(d) : i \notin S})
<1> DEFINE g == Without(d, S)
           K == {i \in 1..Len(d) : i \notin S}
<1>1. PICK m \in [1..Len(g) -> K] :
        /\ \A k \in 1..Len(g) : g[k] = d[m[k]]
        /\ \A k, l \in 1..Len(g) : m[k] = m[l] => k = l
        /\ \A i \in 1..Len(d) : i \notin S => \E k \in 1..Len(g) : m[k] = i
  BY WithoutProperties
<1>2. K \in SUBSET (1..Len(d)) /\ \A i \in K : \E k \in 1..Len(g) : m[k] = i
  BY <1>1
<1> HIDE DEF g, K
<1>3. Takes(d, g, K)
  BY <1>1, <1>2, TakenBy
<1> QED
  BY <1>3 DEF g, K

LEMMA RangeTakes ==
  ASSUME TypeIndex, NEW i1 \in Nat, NEW i2 \in Nat
  PROVE  Takes(dir, DeleteRange(dir, i1, i2), (1..Len(dir)) \ Cut(i1, i2))
<1> DEFINE g == DeleteRange(dir, i1, i2)
           K == (1..Len(dir)) \ Cut(i1, i2)
<1>1. dir \in Seq(Header) /\ Len(dir) \in Nat
  BY LenProperties DEF TypeIndex
<1>2. PICK m \in [1..Len(g) -> 1..Len(dir)] :
        /\ \A k \in 1..Len(g) : g[k] = dir[m[k]] /\ (m[k] < i1 \/ i2 < m[k] \/ dir[m[k]].marked)
        /\ \A k, l \in 1..Len(g) : k < l => m[k] < m[l]
        /\ \A i \in 1..Len(dir) : i < i1 \/ i2 < i \/ dir[i].marked =>
             \E k \in 1..Len(g) : m[k] = i
  <2>1. DeleteRange(dir, i1, i2) \in Seq(Header) /\ \E m \in [1..Len(DeleteRange(dir, i1, i2)) -> 1..Len(dir)] :
              /\ \A k \in 1..Len(DeleteRange(dir, i1, i2)) :
                   /\ DeleteRange(dir, i1, i2)[k] = dir[m[k]]
                   /\ m[k] < i1 \/ i2 < m[k] \/ dir[m[k]].marked
              /\ \A k, l \in 1..Len(DeleteRange(dir, i1, i2)) : k < l => m[k] < m[l]
              /\ \A i \in 1..Len(dir) : i < i1 \/ i2 < i \/ dir[i].marked =>
                   \E k \in 1..Len(DeleteRange(dir, i1, i2)) : m[k] = i
    BY <1>1, DeleteRangeKeepsRest
  <2> QED
    BY <2>1, Zenon
<1>3. Len(g) \in Nat
  BY <1>1, DeleteRangeKeepsRest, LenProperties
<1>4. \A i \in 1..Len(dir) : i \in K <=> (i < i1 \/ i2 < i \/ dir[i].marked)
  BY <1>1 DEF Cut
<1>5. K \in SUBSET (1..Len(dir))
  OBVIOUS
<1> HIDE DEF g, K
<1>6. m \in [1..Len(g) -> K]
  BY <1>2, <1>4
<1>7. ASSUME NEW k \in 1..Len(g), NEW l \in 1..Len(g), m[k] = m[l] PROVE k = l
  <2>0. m[k] \in 1..Len(dir) /\ m[l] \in 1..Len(dir)
    BY <1>2
  <2>1. m[k] \in Nat /\ m[l] \in Nat /\ k \in Nat /\ l \in Nat
    BY <1>1, <1>3, <2>0
  <2>2. ~(k < l) /\ ~(l < k)
    BY <1>2, <1>7, <2>1
  <2> QED
    BY <2>1, <2>2
<1>8. \A i \in K : \E k \in 1..Len(g) : m[k] = i
  BY <1>2, <1>4, <1>5
<1>9. Takes(dir, g, K)
  BY <1>2, <1>5, <1>6, <1>7, <1>8, TakenBy
<1> QED
  BY <1>9 DEF g, K

(* Where delete_file is asked for a mail that is gone afterwards, it took     *)
(* that mail and no other: also when it had to look for it.                  *)
LEMMA DeleteTakes ==
  ASSUME NEW f \in Seq(Header), NEW i \in Nat, NEW n \in Listed(f),
         n \notin Listed(DeleteFile(f, i, n))
  PROVE  \E k \in 1..Len(f) :
           f[k].file = n /\ Takes(f, DeleteFile(f, i, n), (1..Len(f)) \ {k})
<1>1. PICK p \in 1..Len(f) : f[p].file = n
  BY DEF Listed
<1>2. Positions(f, n) # {} /\ Len(f) \in Nat
  BY <1>1, LenProperties DEF Positions
<1>3. DroppedEntry(f, i, n) \in 1..Len(f)
  BY <1>2, DroppedEntryIn
<1>4. DeleteFile(f, i, n) = DropRecord(f, DroppedEntry(f, i, n))
  BY <1>2 DEF DeleteFile
<1>5. Takes(f, DeleteFile(f, i, n), (1..Len(f)) \ {DroppedEntry(f, i, n)})
  BY <1>3, <1>4, DropTakes
<1>6. p = DroppedEntry(f, i, n)
  BY <1>1, <1>5 DEF Takes
<1> QED
  BY <1>1, <1>3, <1>5, <1>6

LEMMA KeepsListed ==
  ASSUME NEW d \in Seq(Header), NEW e \in Seq(Header), Keeps(d, e)
  PROVE  Listed(d) \subseteq Listed(e)
BY LenProperties DEF Keeps, Listed

LEMMA Marks ==
  ASSUME Typed, NEW s \in Session, Act(s)
  PROVE  overtaken \subseteq overtaken' /\ halfway \subseteq halfway'
<1>0. s \in Session
  OBVIOUS
<1>1. CASE SendOpen(s) \/ SendAbort(s) \/ OpenBox(s) \/ LeaveBox(s) \/ MailUnlink(s)
          \/ RangeRefused(s) \/ SwapAway(s) \/ SwapFails(s) \/ SwapIn(s) \/
          NewStart(s) \/ NewNext(s)
  BY <1>1, <1>0 DEF LeaveBox, MailUnlink, NewNext, NewStart, OpenBox, RangeRefused,
     Reread, SendAbort, SendOpen, SwapAway, SwapDone, SwapFails, SwapIn, history
<1>2. CASE NewLast(s) \/ NewRead(s) \/ NewKeep(s) \/ NewUnlink(s) \/ NewCopy(s) \/
          NewRefused(s) \/ NewDone(s) \/ PopLogin(s) \/ Rset(s) \/ PopLeave(s) \/
          PopCopy(s)
  BY <1>2, <1>0 DEF CopyRefused, NewCopy, NewDone, NewKeep, NewLast, NewRead,
     NewRefused, NewUnlink, PopCopy, PopForgets, PopLeave, PopLogin, Reread, Rset,
     Substitute, history
<1>3. CASE PopUnlink(s) \/ PopRename(s) \/ Hangup(s) \/
          (\E i \in 1..Len(page[s]) : MailRead(s, i)) \/
          (\E i \in 1..Len(page[s]) : MailMark(s, i)) \/
          (\E i \in 1..Len(page[s]) : MailDelFails(s, i)) \/
          (\E i \in 1..Len(page[s]) : Dele(s, i)) \/
          (\E i1 \in 1..(Len(page[s]) + 1), i2 \in 1..(Len(page[s]) + 1) : RangeCopy(s, i1, i2))
  BY <1>3, <1>0 DEF Chooses, Dele, Hangup, MailDelFails, MailMark, MailRead,
     PopForgets, PopRename, PopUnlink, RangeCopy, Redraw, Substitute, WriteLine,
     history
<1>4. CASE SendDeliver(s)
  BY <1>4 DEF SendDeliver
<1>5. ASSUME NEW i \in 1..Len(page[s]), MailDel(s, i)
      PROVE  overtaken \subseteq overtaken' /\ halfway \subseteq halfway'
  BY <1>5 DEF MailDel
<1> QED
  BY <1>1, <1>2, <1>3, <1>4, <1>5 DEF Act

LEMMA Overtakes ==
  ASSUME Typed, NEW s \in Session, Act(s)
  PROVE  Swapping # {} => delivered' \subseteq delivered \cup overtaken'
<1>0. s \in Session
  OBVIOUS
<1>1. CASE SendOpen(s) \/ SendAbort(s) \/ SendDeliver(s) \/ OpenBox(s) \/ LeaveBox(s)
          \/ MailUnlink(s) \/ RangeRefused(s) \/ SwapAway(s) \/ SwapFails(s) \/
          SwapIn(s) \/ NewStart(s)
  BY <1>1, <1>0 DEF LeaveBox, MailUnlink, NewStart, OpenBox, RangeRefused, Reread,
     SendAbort, SendDeliver, SendOpen, SwapAway, SwapDone, SwapFails, SwapIn,
     history
<1>2. CASE NewNext(s) \/ NewLast(s) \/ NewRead(s) \/ NewKeep(s) \/ NewUnlink(s) \/
          NewCopy(s) \/ NewRefused(s) \/ NewDone(s) \/ PopLogin(s) \/ Rset(s) \/
          PopLeave(s)
  BY <1>2, <1>0 DEF CopyRefused, NewCopy, NewDone, NewKeep, NewLast, NewNext,
     NewRead, NewRefused, NewUnlink, PopForgets, PopLeave, PopLogin, Reread, Rset,
     Substitute, history
<1>3. CASE PopCopy(s) \/ PopUnlink(s) \/ PopRename(s) \/ Hangup(s) \/
          (\E i \in 1..Len(page[s]) : MailRead(s, i)) \/
          (\E i \in 1..Len(page[s]) : MailMark(s, i)) \/
          (\E i \in 1..Len(page[s]) : MailDel(s, i)) \/
          (\E i \in 1..Len(page[s]) : MailDelFails(s, i)) \/
          (\E i \in 1..Len(page[s]) : Dele(s, i)) \/
          (\E i1 \in 1..(Len(page[s]) + 1), i2 \in 1..(Len(page[s]) + 1) : RangeCopy(s, i1, i2))
  BY <1>3, <1>0 DEF Chooses, Dele, Hangup, MailDel, MailDelFails, MailMark,
     MailRead, PopCopy, PopForgets, PopRename, PopUnlink, RangeCopy, Redraw,
     Substitute, WriteLine, history
<1> QED
  BY <1>1, <1>2, <1>3 DEF Act

LEMMA SwapStarts ==
  ASSUME Typed, NEW s \in Session, Act(s)
  PROVE  pc'[s] \in InSwap => pc[s] \in InSwap \/ Swapping = {} \/ astray'
<1>0. TypePc
  BY DEF Typed
<1>1. CASE SendOpen(s) \/ SendAbort(s) \/ SendDeliver(s) \/ OpenBox(s) \/ LeaveBox(s)
          \/ MailUnlink(s) \/ RangeRefused(s) \/ SwapAway(s)
  BY <1>1, <1>0 DEF Goto, LeaveBox, MailUnlink, OpenBox, RangeRefused, Reread,
     SendAbort, SendDeliver, SendOpen, SwapAway, TypePc, InSwap, InNew, local
<1>2. CASE SwapFails(s) \/ SwapIn(s) \/ NewStart(s) \/ NewNext(s) \/ NewLast(s) \/
          NewRead(s) \/ NewKeep(s) \/ NewUnlink(s)
  BY <1>2, <1>0 DEF Goto, NewKeep, NewLast, NewNext, NewRead, NewStart, NewUnlink,
     Substitute, SwapDone, SwapFails, SwapIn, TypePc, InSwap, InNew, local
<1>3. CASE NewRefused(s) \/ NewDone(s) \/ PopLogin(s) \/ Rset(s) \/ PopLeave(s) \/
          PopUnlink(s) \/ PopRename(s) \/ Hangup(s)
  BY <1>3, <1>0 DEF CopyRefused, Goto, Hangup, NewDone, NewRefused, PopForgets,
     PopLeave, PopLogin, PopRename, PopUnlink, Reread, Rset, TypePc, InSwap, InNew,
     local
<1>4. CASE (\E i \in 1..Len(page[s]) : MailRead(s, i)) \/
          (\E i \in 1..Len(page[s]) : MailMark(s, i)) \/
          (\E i \in 1..Len(page[s]) : MailDel(s, i)) \/
          (\E i \in 1..Len(page[s]) : MailDelFails(s, i)) \/
          (\E i \in 1..Len(page[s]) : Dele(s, i))
  BY <1>4, <1>0 DEF Chooses, Dele, Goto, MailDel, MailDelFails, MailMark, MailRead,
     Redraw, Substitute, WriteLine, TypePc, InSwap, InNew, local
<1>5. ASSUME NEW i1 \in 1..(Len(page[s]) + 1), NEW i2 \in 1..(Len(page[s]) + 1), RangeCopy(s, i1, i2)
      PROVE  pc'[s] \in InSwap => pc[s] \in InSwap \/ Swapping = {} \/ astray'
  BY <1>5 DEF RangeCopy
<1>6. CASE NewCopy(s)
  BY <1>6 DEF NewCopy
<1>7. CASE PopCopy(s)
  BY <1>7 DEF PopCopy
<1> QED
  BY <1>1, <1>2, <1>3, <1>4, <1>5, <1>6, <1>7 DEF Act

LEMMA PopElsewhere ==
  ASSUME Typed, OneSwaps, NEW s \in Session, Act(s)
  PROVE  \A q \in Session \ {s} : ~astray' /\ pc[q] \in PopAt => popdir' = popdir
<1>0. astray => astray'
  BY Strays
<1>1. CASE SendOpen(s) \/ SendAbort(s) \/ SendDeliver(s) \/ OpenBox(s) \/ LeaveBox(s)
          \/ MailUnlink(s) \/ RangeRefused(s) \/ SwapAway(s) \/ SwapFails(s) \/
          SwapIn(s) \/ NewStart(s) \/ NewNext(s)
  BY <1>1, <1>0 DEF LeaveBox, MailUnlink, NewNext, NewStart, OpenBox, RangeRefused,
     Reread, SendAbort, SendDeliver, SendOpen, SwapAway, SwapDone, SwapFails,
     SwapIn, side
<1>2. CASE NewLast(s) \/ NewRead(s) \/ NewKeep(s) \/ NewUnlink(s) \/ NewCopy(s) \/
          NewRefused(s) \/ NewDone(s) \/ PopLogin(s) \/ Rset(s) \/ PopLeave(s) \/
          PopUnlink(s) \/ Hangup(s)
  BY <1>2, <1>0 DEF CopyRefused, Hangup, NewCopy, NewDone, NewKeep, NewLast,
     NewRead, NewRefused, NewUnlink, PopForgets, PopLeave, PopLogin, PopUnlink,
     Reread, Rset, Substitute, side
<1>3. CASE (\E i \in 1..Len(page[s]) : MailRead(s, i)) \/
          (\E i \in 1..Len(page[s]) : MailMark(s, i)) \/
          (\E i \in 1..Len(page[s]) : MailDel(s, i)) \/
          (\E i \in 1..Len(page[s]) : MailDelFails(s, i)) \/
          (\E i \in 1..Len(page[s]) : Dele(s, i)) \/
          (\E i1 \in 1..(Len(page[s]) + 1), i2 \in 1..(Len(page[s]) + 1) : RangeCopy(s, i1, i2))
  BY <1>3, <1>0 DEF Chooses, Dele, MailDel, MailDelFails, MailMark, MailRead,
     RangeCopy, Redraw, Substitute, WriteLine, side
<1>4. CASE PopCopy(s)
  BY <1>4 DEF PopCopy, Swapping, PopAt, InSwap
<1>5. CASE PopRename(s)
  BY <1>5, <1>0 DEF PopRename, OneSwaps, Swapping, PopAt, InSwap
<1> QED
  BY <1>1, <1>2, <1>3, <1>4, <1>5 DEF Act

LEMMA OwnPopThere ==
  ASSUME Typed, Stays, NEW s \in Session, Act(s)
  PROVE  PopThere(s)'
<1>0. TypePc /\ TypeWork /\ TypeCopies /\ TypeIndex /\ PopThere(s)
  BY DEF Typed, Stays
<1>00. ASSUME pc'[s] \notin PopAt PROVE PopThere(s)'
  BY <1>00 DEF PopThere
<1>1. CASE SendOpen(s) \/ SendAbort(s) \/ SendDeliver(s) \/ OpenBox(s) \/ LeaveBox(s)
          \/ MailUnlink(s) \/ RangeRefused(s) \/ SwapAway(s)
  BY <1>1, <1>0, <1>00 DEF Goto, LeaveBox, MailUnlink, OpenBox, RangeRefused,
     Reread, SendAbort, SendDeliver, SendOpen, SwapAway, TypePc, PopAt, InNew,
     local, Chooses, WriteLine
<1>2. CASE SwapFails(s) \/ SwapIn(s) \/ NewStart(s) \/ NewNext(s) \/ NewLast(s) \/
          NewRead(s) \/ NewKeep(s) \/ NewUnlink(s)
  BY <1>2, <1>0, <1>00 DEF Goto, NewKeep, NewLast, NewNext, NewRead, NewStart,
     NewUnlink, Substitute, SwapDone, SwapFails, SwapIn, TypePc, PopAt, InNew,
     local, Chooses, WriteLine
<1>3. CASE NewCopy(s) \/ NewRefused(s) \/ NewDone(s) \/ PopLogin(s) \/ Rset(s) \/
          PopLeave(s) \/ PopRename(s) \/ Hangup(s)
  BY <1>3, <1>0, <1>00 DEF CopyRefused, Goto, Hangup, NewCopy, NewDone, NewRefused,
     PopForgets, PopLeave, PopLogin, PopRename, Reread, Rset, TypePc, PopAt, InNew,
     local, Chooses, WriteLine
<1>4. CASE (\E i \in 1..Len(page[s]) : MailRead(s, i)) \/
          (\E i \in 1..Len(page[s]) : MailMark(s, i)) \/
          (\E i \in 1..Len(page[s]) : MailDel(s, i)) \/
          (\E i \in 1..Len(page[s]) : MailDelFails(s, i)) \/
          (\E i \in 1..Len(page[s]) : Dele(s, i)) \/
          (\E i1 \in 1..(Len(page[s]) + 1), i2 \in 1..(Len(page[s]) + 1) : RangeCopy(s, i1, i2))
  BY <1>4, <1>0, <1>00 DEF Chooses, Dele, Goto, MailDel, MailDelFails, MailMark,
     MailRead, RangeCopy, Redraw, Substitute, WriteLine, TypePc, PopAt, InNew,
     local, Chooses, WriteLine
<1>5. CASE PopCopy(s)
  <2> DEFINE keep == Without(dir, dele[s])
  <2>1. /\ popdir' = [exists |-> TRUE, recs |-> Overwrite(popdir.recs, keep)]
        /\ work'[s] = [hdr |-> ZeroHeader, ent |-> Len(keep)]
        /\ ~astray' => ~(Len(popdir.recs) > Len(keep))
    BY <1>5, <1>0 DEF PopCopy, TypeWork
  <2>2. keep \in Seq(Header) /\ popdir.recs \in Seq(Header)
    BY <1>0, WithoutProperties DEF TypeIndex, TypeCopies
  <2> HIDE DEF keep
  <2>3. ~astray' => Overwrite(popdir.recs, keep) = keep
    <3>1. Len(keep) \in Nat /\ Len(popdir.recs) \in Nat
      BY <2>2, LenProperties
    <3>2. ~astray' => Len(popdir.recs) <= Len(keep)
      BY <2>1, <3>1
    <3> QED
      BY <2>2, <3>2, OverwriteType
  <2> QED
    BY <2>1, <2>3 DEF PopThere
<1>6. CASE PopUnlink(s)
  BY <1>6, <1>0 DEF PopUnlink, PopThere, PopAt, side
<1> QED
  BY <1>1, <1>2, <1>3, <1>4, <1>5, <1>6 DEF Act

LEMMA OwnTmpWhole ==
  ASSUME Typed, Known, Stays, NEW s \in Session, Act(s)
  PROVE  TmpWhole(s)'
<1>0. /\ TypePc /\ TypePage /\ TypeDele /\ TypeNoted /\ TypeCopies /\ TypeIndex
      /\ KnownTo(s) /\ DirWhole /\ TmpWhole(s) /\ PopWhole(s) /\ PopThere(s)
      /\ asked \subseteq asked' /\ overtaken \subseteq overtaken'
      /\ Safe' => Safe
  BY Grows, Strays, Marks DEF Typed, Known, Stays, Safe
<1>00. ASSUME pc'[s] \notin Lockers PROVE TmpWhole(s)'
  BY <1>00 DEF TmpWhole
<1>1. CASE SendOpen(s) \/ SendAbort(s) \/ SendDeliver(s) \/ OpenBox(s) \/ LeaveBox(s)
          \/ MailUnlink(s) \/ RangeRefused(s) \/ SwapFails(s)
  BY <1>1, <1>0, <1>00 DEF Goto, LeaveBox, MailUnlink, OpenBox, RangeRefused,
     Reread, SendAbort, SendDeliver, SendOpen, SwapDone, SwapFails, TypePc, Lockers,
     InNew, local, Chooses, WriteLine
<1>2. CASE SwapIn(s) \/ NewStart(s) \/ NewNext(s) \/ NewLast(s) \/ NewRead(s) \/
          NewKeep(s) \/ NewUnlink(s) \/ NewRefused(s)
  BY <1>2, <1>0, <1>00 DEF CopyRefused, Goto, NewKeep, NewLast, NewNext, NewRead,
     NewRefused, NewStart, NewUnlink, Substitute, SwapDone, SwapIn, TypePc, Lockers,
     InNew, local, Chooses, WriteLine
<1>3. CASE NewDone(s) \/ PopLogin(s) \/ Rset(s) \/ PopLeave(s) \/ PopCopy(s) \/
          PopUnlink(s) \/ PopRename(s) \/ Hangup(s)
  BY <1>3, <1>0, <1>00 DEF Goto, Hangup, NewDone, PopCopy, PopForgets, PopLeave,
     PopLogin, PopRename, PopUnlink, Reread, Rset, TypePc, Lockers, InNew, local,
     Chooses, WriteLine
<1>4. CASE (\E i \in 1..Len(page[s]) : MailRead(s, i)) \/
          (\E i \in 1..Len(page[s]) : MailMark(s, i)) \/
          (\E i \in 1..Len(page[s]) : MailDel(s, i)) \/
          (\E i \in 1..Len(page[s]) : MailDelFails(s, i)) \/
          (\E i \in 1..Len(page[s]) : Dele(s, i))
  BY <1>4, <1>0, <1>00 DEF Chooses, Dele, Goto, MailDel, MailDelFails, MailMark,
     MailRead, Redraw, Substitute, WriteLine, TypePc, Lockers, InNew, local,
     Chooses, WriteLine
<1>5. ASSUME NEW i1 \in 1..(Len(page[s]) + 1), NEW i2 \in 1..(Len(page[s]) + 1), RangeCopy(s, i1, i2)
      PROVE  TmpWhole(s)'
  <2>1. /\ tmpfile'.recs = DeleteRange(dir, i1, i2) /\ delivered' = delivered
        /\ asked' = asked \cup {dir[i].file : i \in Cut(i1, i2)}
        /\ ~astray' => Swapping = {}
    BY <1>5 DEF RangeCopy
  <2>2. Swapping = {} => ~Away
    BY DEF Swapping, Away, InSwap
  <2>3. Len(page[s]) \in Nat
    BY <1>0, LenProperties DEF TypePage
  <2>4. Takes(dir, DeleteRange(dir, i1, i2), (1..Len(dir)) \ Cut(i1, i2))
    BY <1>0, <2>3, RangeTakes
  <2>5. Listed(dir) \subseteq Listed(DeleteRange(dir, i1, i2)) \cup asked'
    BY <2>1, <2>4 DEF Takes, Listed
  <2> QED
    BY <1>0, <2>1, <2>2, <2>5 DEF TmpWhole, DirWhole, Safe, Held
<1>6. CASE NewCopy(s)
  <2> DEFINE e == noted[s][NextNoted(noted[s])]
  <2>1. /\ tmpfile'.recs = DeleteRecord(dir, e.ent) /\ delivered' = delivered
        /\ ~astray' => Swapping = {} /\ ~Missed(e.ent, e.file)
        /\ noted[s] # <<>>
    BY <1>6 DEF NewCopy, history
  <2>2. Swapping = {} => ~Away
    BY DEF Swapping, Away, InSwap
  <2>3. e.ent \in Nat \ {0} /\ e.file \in asked
    BY <1>0, <2>1, LastNoted DEF KnownTo
  <2>4. dir \in Seq(Header) /\ Len(dir) \in Nat
    BY <1>0, LenProperties DEF TypeIndex
  <2> HIDE DEF e
  <2>5. ASSUME ~astray'
        PROVE  Listed(dir) \subseteq Listed(DeleteRecord(dir, e.ent)) \cup asked
    <3>1. e.ent \in 1..Len(dir) /\ dir[e.ent].file = e.file
      BY <2>1, <2>3, <2>4, <2>5 DEF Missed
    <3>2. Takes(dir, DropRecord(dir, e.ent), (1..Len(dir)) \ {e.ent})
      BY <2>4, <3>1, DropTakes
    <3>3. DeleteRecord(dir, e.ent) = DropRecord(dir, e.ent)
      BY <2>4, <3>1 DEF DeleteRecord
    <3> QED
      BY <2>3, <3>1, <3>2, <3>3 DEF Takes, Listed
  <2> QED
    BY <1>0, <2>1, <2>2, <2>5 DEF TmpWhole, DirWhole, Safe, Held
<1>7. CASE SwapAway(s)
  BY <1>7, <1>0 DEF SwapAway, TmpWhole, Lockers, side, Held
<1> QED
  BY <1>1, <1>2, <1>3, <1>4, <1>5, <1>6, <1>7 DEF Act

LEMMA OwnPopWhole ==
  ASSUME Typed, Known, Stays, NEW s \in Session, Act(s)
  PROVE  PopWhole(s)'
<1>0. /\ TypePc /\ TypePage /\ TypeDele /\ TypeNoted /\ TypeCopies /\ TypeIndex
      /\ KnownTo(s) /\ DirWhole /\ TmpWhole(s) /\ PopWhole(s) /\ PopThere(s)
      /\ asked \subseteq asked' /\ overtaken \subseteq overtaken'
      /\ Safe' => Safe
  BY Grows, Strays, Marks DEF Typed, Known, Stays, Safe
<1>00. ASSUME pc'[s] \notin PopAt PROVE PopWhole(s)'
  BY <1>00 DEF PopWhole
<1>1. CASE SendOpen(s) \/ SendAbort(s) \/ SendDeliver(s) \/ OpenBox(s) \/ LeaveBox(s)
          \/ MailUnlink(s) \/ RangeRefused(s) \/ SwapAway(s)
  BY <1>1, <1>0, <1>00 DEF Goto, LeaveBox, MailUnlink, OpenBox, RangeRefused,
     Reread, SendAbort, SendDeliver, SendOpen, SwapAway, TypePc, PopAt, InNew,
     local, Chooses, WriteLine
<1>2. CASE SwapFails(s) \/ SwapIn(s) \/ NewStart(s) \/ NewNext(s) \/ NewLast(s) \/
          NewRead(s) \/ NewKeep(s) \/ NewUnlink(s)
  BY <1>2, <1>0, <1>00 DEF Goto, NewKeep, NewLast, NewNext, NewRead, NewStart,
     NewUnlink, Substitute, SwapDone, SwapFails, SwapIn, TypePc, PopAt, InNew,
     local, Chooses, WriteLine
<1>3. CASE NewCopy(s) \/ NewRefused(s) \/ NewDone(s) \/ PopLogin(s) \/ Rset(s) \/
          PopLeave(s) \/ PopRename(s) \/ Hangup(s)
  BY <1>3, <1>0, <1>00 DEF CopyRefused, Goto, Hangup, NewCopy, NewDone, NewRefused,
     PopForgets, PopLeave, PopLogin, PopRename, Reread, Rset, TypePc, PopAt, InNew,
     local, Chooses, WriteLine
<1>4. CASE (\E i \in 1..Len(page[s]) : MailRead(s, i)) \/
          (\E i \in 1..Len(page[s]) : MailMark(s, i)) \/
          (\E i \in 1..Len(page[s]) : MailDel(s, i)) \/
          (\E i \in 1..Len(page[s]) : MailDelFails(s, i)) \/
          (\E i \in 1..Len(page[s]) : Dele(s, i)) \/
          (\E i1 \in 1..(Len(page[s]) + 1), i2 \in 1..(Len(page[s]) + 1) : RangeCopy(s, i1, i2))
  BY <1>4, <1>0, <1>00 DEF Chooses, Dele, Goto, MailDel, MailDelFails, MailMark,
     MailRead, RangeCopy, Redraw, Substitute, WriteLine, TypePc, PopAt, InNew,
     local, Chooses, WriteLine
<1>5. CASE PopCopy(s)
  <2> DEFINE keep == Without(dir, dele[s])
  <2>1. /\ popdir'.recs = Overwrite(popdir.recs, keep) /\ delivered' = delivered
        /\ asked' = asked \cup {page[s][i].file : i \in dele[s]}
        /\ ~astray' => Swapping = {} /\ ~(Len(popdir.recs) > Len(keep))
        /\ ~astray' => \A i \in dele[s] : ~Missed(i, page[s][i].file)
    BY <1>5 DEF PopCopy
  <2>2. Swapping = {} => ~Away
    BY DEF Swapping, Away, InSwap
  <2>3. keep \in Seq(Header) /\ popdir.recs \in Seq(Header)
    BY <1>0, WithoutProperties DEF TypeIndex, TypeCopies
  <2>4. Takes(dir, keep, {i \in 1..Len(dir) : i \notin dele[s]})
    BY <1>0, WithoutTakes DEF TypeIndex
  <2> HIDE DEF keep
  <2>5. ~astray' => Overwrite(popdir.recs, keep) = keep
    <3>1. Len(keep) \in Nat /\ Len(popdir.recs) \in Nat
      BY <2>3, LenProperties
    <3>2. ~astray' => Len(popdir.recs) <= Len(keep)
      BY <2>1, <3>1
    <3> QED
      BY <2>3, <3>2, OverwriteType
  <2>6. ASSUME ~astray' PROVE Listed(dir) \subseteq Listed(keep) \cup asked'
    <3>1. \A i \in 1..Len(dir) : i \in dele[s] => dir[i].file \in asked'
      BY <2>1, <2>6 DEF Missed
    <3> QED
      BY <2>4, <3>1 DEF Takes, Listed
  <2> QED
    BY <1>0, <2>1, <2>2, <2>5, <2>6 DEF PopWhole, DirWhole, Safe, Held
<1>6. CASE PopUnlink(s)
  BY <1>6, <1>0 DEF PopUnlink, PopWhole, PopAt, side, Held
<1> QED
  BY <1>1, <1>2, <1>3, <1>4, <1>5, <1>6 DEF Act

LEMMA StepDirWhole ==
  ASSUME Typed, Known, Stays, NEW s \in Session, Act(s)
  PROVE  DirWhole'
<1>0. /\ TypePc /\ TypePage /\ TypeDele /\ TypeNoted /\ TypeCopies /\ TypeIndex
      /\ TypeWork /\ dir' \in Seq(Header) /\ KnownTo(s) /\ DirWhole /\ TmpWhole(s) /\ PopWhole(s) /\ PopThere(s)
      /\ asked \subseteq asked' /\ overtaken \subseteq overtaken'
      /\ Safe' => Safe
  BY StepIndex, Grows, Strays, Marks DEF Typed, TypeIndex, Known, Stays, Safe
<1>01. ASSUME Away => Away', delivered' = delivered, ~astray' => Keeps(dir, dir')
       PROVE  DirWhole'
  <2>1. ~astray' => Listed(dir) \subseteq Listed(dir')
    BY <1>0, <1>01, KeepsListed DEF TypeIndex
  <2> QED
    BY <1>0, <1>01, <2>1 DEF DirWhole, Safe, Held
<1>02. pc[s] \notin AwayAt => (Away => Away')
  BY Elsewhere DEF Away, AwayAt
<1>00. ASSUME pc[s] \notin AwayAt, delivered' = delivered, dir' = dir PROVE DirWhole'
  BY <1>0, <1>00, <1>02 DEF DirWhole, Safe, Held
<1>1. CASE SendOpen(s) \/ SendAbort(s) \/ OpenBox(s) \/ LeaveBox(s) \/ MailUnlink(s)
          \/ RangeRefused(s) \/ SwapFails(s) \/ NewStart(s)
  BY <1>1, <1>0, <1>00 DEF LeaveBox, MailUnlink, NewStart, OpenBox, RangeRefused,
     Reread, SendAbort, SendOpen, SwapDone, SwapFails, AwayAt, index, history,
     Chooses
<1>2. CASE NewNext(s) \/ NewLast(s) \/ NewKeep(s) \/ NewUnlink(s) \/ NewCopy(s) \/
          NewRefused(s) \/ NewDone(s) \/ PopLogin(s)
  BY <1>2, <1>0, <1>00 DEF CopyRefused, NewCopy, NewDone, NewKeep, NewLast, NewNext,
     NewRefused, NewUnlink, PopLogin, Reread, AwayAt, index, history, Chooses
<1>3. CASE Rset(s) \/ PopLeave(s) \/ PopCopy(s) \/
          (\E i \in 1..Len(page[s]) : MailDelFails(s, i)) \/
          (\E i \in 1..Len(page[s]) : Dele(s, i)) \/
          (\E i1 \in 1..(Len(page[s]) + 1), i2 \in 1..(Len(page[s]) + 1) : RangeCopy(s, i1, i2))
  BY <1>3, <1>0, <1>00 DEF Chooses, Dele, MailDelFails, PopCopy, PopForgets,
     PopLeave, RangeCopy, Redraw, Rset, AwayAt, index, history, Chooses
<1>4. CASE SendDeliver(s)
  <2>1. /\ work[s].hdr \in Header /\ dir' = Append(dir, work[s].hdr)
        /\ delivered' = delivered \cup {work[s].hdr.file} /\ pc[s] \notin AwayAt
    BY <1>4, <1>0 DEF SendDeliver, AppendRecord, TypeWork, AwayAt
  <2>2. Listed(dir') = Listed(dir) \cup {work[s].hdr.file}
    BY <1>0, <2>1, ListedAppend DEF TypeIndex
  <2> QED
    BY <1>0, <1>02, <2>1, <2>2 DEF DirWhole, Safe, Held
<1>5. ASSUME NEW i \in 1..Len(page[s]), MailRead(s, i)
      PROVE  DirWhole'
  <2> DEFINE h == [page[s][i] EXCEPT !.read = TRUE]
  <2>1. i \in Nat \ {0} /\ page[s][i] \in Header
    BY <1>0, Line
  <2>2. h \in Header
    BY <2>1, Headers
  <2>3. Substitute(h, i) /\ delivered' = delivered /\ pc' = pc
    BY <1>5 DEF MailRead, WriteLine
  <2> HIDE DEF h
  <2>4. ~astray' => Keeps(dir, dir')
    BY <1>0, <2>1, <2>2, <2>3, SubstituteKeeps
  <2>5. Away => Away'
    BY <2>3 DEF Away
  <2> QED
    BY <1>01, <2>3, <2>4, <2>5
<1>6. ASSUME NEW i \in 1..Len(page[s]), MailMark(s, i)
      PROVE  DirWhole'
  <2> DEFINE h == [page[s][i] EXCEPT !.marked = ~@]
  <2>1. i \in Nat \ {0} /\ page[s][i] \in Header
    BY <1>0, Line
  <2>2. h \in Header
    BY <2>1, Headers
  <2>3. Substitute(h, i) /\ delivered' = delivered /\ pc' = pc
    BY <1>6 DEF MailMark, WriteLine
  <2> HIDE DEF h
  <2>4. ~astray' => Keeps(dir, dir')
    BY <1>0, <2>1, <2>2, <2>3, SubstituteKeeps
  <2>5. Away => Away'
    BY <2>3 DEF Away
  <2> QED
    BY <1>01, <2>3, <2>4, <2>5
<1>7. CASE NewRead(s)
  <2>1. work[s].ent \in Nat \ {0} /\ work[s].hdr \in Header
    BY <1>7, <1>0 DEF NewRead, TypeWork
  <2>2. [work[s].hdr EXCEPT !.read = TRUE] \in Header
    BY <2>1, Headers
  <2>3. /\ Substitute([work[s].hdr EXCEPT !.read = TRUE], work[s].ent)
        /\ delivered' = delivered /\ pc[s] \notin AwayAt
    BY <1>7 DEF NewRead, AwayAt
  <2>4. ~astray' => Keeps(dir, dir')
    BY <1>0, <2>1, <2>2, <2>3, SubstituteKeeps
  <2> QED
    BY <1>01, <1>02, <2>3, <2>4
<1>8. ASSUME NEW i \in 1..Len(page[s]), MailDel(s, i)
      PROVE  DirWhole'
  <2> DEFINE n == page[s][i].file
  <2>1. /\ n \in Listed(dir) /\ dir' = DeleteFile(dir, i, n) /\ delivered' = delivered
        /\ ~astray' => n \notin Listed(dir')
        /\ n \in asked' /\ pc[s] \notin AwayAt
    BY <1>8 DEF MailDel, Chooses, AwayAt
  <2>2. i \in Nat /\ dir \in Seq(Header)
    BY <1>0, Line DEF TypeIndex
  <2> HIDE DEF n
  <2>3. ASSUME ~astray' PROVE Listed(dir) \subseteq Listed(dir') \cup {n}
    <3>1. PICK k \in 1..Len(dir) :
            dir[k].file = n /\ Takes(dir, dir', (1..Len(dir)) \ {k})
      BY <2>1, <2>2, <2>3, DeleteTakes
    <3> QED
      BY <3>1 DEF Takes, Listed
  <2> QED
    BY <1>0, <1>02, <2>1, <2>3 DEF DirWhole, Safe, Held
<1>9. CASE SwapAway(s)
  <2>1. pc'[s] \in AwayAt
    BY <1>9, <1>0 DEF SwapAway, Goto, TypePc, AwayAt
  <2> QED
    BY <2>1 DEF DirWhole, Away, AwayAt
<1>10. CASE SwapIn(s)
  BY <1>10, <1>0 DEF SwapIn, TmpWhole, Lockers, DirWhole, Safe, Held
<1>11. CASE PopUnlink(s)
  <2>1. pc'[s] \in AwayAt
    BY <1>11, <1>0 DEF PopUnlink, Goto, TypePc, AwayAt
  <2> QED
    BY <2>1 DEF DirWhole, Away, AwayAt
<1>12. CASE PopRename(s)
  <2>1. pc[s] \in PopAt /\ delivered' = delivered
    BY <1>12 DEF PopRename, PopAt
  <2>2. CASE work[s].ent > 0 /\ popdir.exists
    BY <1>12, <1>0, <2>1, <2>2 DEF PopRename, PopWhole, DirWhole, Safe, Held
  <2>3. CASE ~(work[s].ent > 0 /\ popdir.exists)
    <3>1. ~astray => Len(popdir.recs) = 0
      <4>1. work[s].ent \in Nat
        BY <1>0 DEF TypeWork
      <4> QED
        BY <1>0, <2>1, <2>3, <4>1 DEF PopThere
    <3>2. ~astray => Listed(popdir.recs) = {}
      BY <3>1 DEF Listed
    <3> QED
      BY <1>0, <2>1, <3>2 DEF PopWhole, DirWhole, Safe, Held
  <2> QED
    BY <2>2, <2>3
<1>13. CASE Hangup(s)
  <2>1. CASE pc[s] \in AwayAt
    BY <1>13, <2>1 DEF Hangup, AwayAt, DirWhole, Safe
  <2>2. CASE pc[s] \notin AwayAt
    BY <1>13, <1>00, <2>2 DEF Hangup, index
  <2> QED
    BY <2>1, <2>2
<1> QED
  BY <1>1, <1>2, <1>3, <1>4, <1>5, <1>6, <1>7, <1>8, <1>9, <1>10, <1>11, <1>12, <1>13
     DEF Act

LEMMA StepStays ==
  ASSUME Typed, Known, Stays, [Next]_vars
  PROVE  Stays'
<1>1. ASSUME NEW s \in Session, Step(s) PROVE Stays'
  <2>1. Act(s)
    BY <1>1, StepActs
  <2>2. /\ \A q \in Session \ {s} : pc'[q] = pc[q] /\ work'[q] = work[q]
        /\ pc'[s] \in InSwap => pc[s] \in InSwap \/ Swapping = {} \/ astray'
        /\ astray => astray'
    BY <2>1, Elsewhere, SwapStarts, Strays
  <2>3. OneSwaps'
    <3> SUFFICES ASSUME ~astray', NEW p \in Session, NEW q \in Session,
                        pc'[p] \in InSwap, pc'[q] \in InSwap, p # q
                 PROVE  FALSE
      BY DEF OneSwaps, Swapping
    <3>1. ~astray /\ \A t, u \in Session : pc[t] \in InSwap /\ pc[u] \in InSwap => t = u
      BY <2>2 DEF Stays, OneSwaps, Swapping
    <3>2. ~(pc[p] \in InSwap /\ pc[q] \in InSwap)
      BY <3>1
    <3>3. Swapping = {} => pc[p] \notin InSwap /\ pc[q] \notin InSwap
      BY DEF Swapping
    <3> QED
      BY <2>2, <3>2, <3>3
  <2>4. DirWhole' /\ PopThere(s)' /\ TmpWhole(s)' /\ PopWhole(s)'
    BY <2>1, StepDirWhole, OwnPopThere, OwnTmpWhole, OwnPopWhole
  <2>5. ASSUME NEW q \in Session \ {s}
        PROVE  PopThere(q)' /\ TmpWhole(q)' /\ PopWhole(q)'
    <3>1. /\ PopThere(q) /\ TmpWhole(q) /\ PopWhole(q)
          /\ asked \subseteq asked' /\ overtaken \subseteq overtaken'
          /\ Safe' => Safe
      BY <2>1, Grows, Strays, Marks DEF Stays, Safe
    <3>2. /\ pc[q] \in Lockers => tmpfile' = tmpfile
          /\ ~astray' /\ pc[q] \in PopAt => popdir' = popdir
      BY <2>1, TmpElsewhere, PopElsewhere DEF Stays
    <3>3. pc[q] \in Lockers \cup PopAt => delivered' \subseteq delivered \cup overtaken'
      <4>1. pc[q] \in Lockers \cup PopAt => Swapping # {}
        BY DEF Lockers, PopAt, Swapping, InSwap
      <4> QED
        BY <2>1, <4>1, Overtakes
    <3>4. PopThere(q)'
      BY <2>2, <3>1, <3>2 DEF PopThere
    <3>5. TmpWhole(q)' /\ PopWhole(q)'
      BY <2>2, <3>1, <3>2, <3>3 DEF TmpWhole, PopWhole, Held, Safe
    <3> QED
      BY <3>4, <3>5
  <2> QED
    BY <2>3, <2>4, <2>5 DEF Stays
<1>2. ASSUME UNCHANGED vars PROVE Stays'
  <2>1. OneSwaps' /\ DirWhole'
    BY <1>2 DEF vars, index, side, history, Stays, OneSwaps, DirWhole, Swapping, Away,
       Held, Safe
  <2>2. \A q \in Session : PopThere(q)' /\ TmpWhole(q)' /\ PopWhole(q)'
    BY <1>2 DEF vars, side, local, history, Stays, PopThere, TmpWhole, PopWhole, Held,
       Safe
  <2> QED
    BY <2>1, <2>2 DEF Stays
<1> QED
  BY <1>1, <1>2 DEF Next

LEMMA InitStays == Init => Stays
<1> SUFFICES ASSUME Init PROVE Stays
  OBVIOUS
<1>1. \A s \in Session : pc[s] = "idle"
  BY DEF Init
<1>2. OneSwaps /\ \A s \in Session : PopThere(s) /\ TmpWhole(s) /\ PopWhole(s)
  BY <1>1 DEF OneSwaps, Swapping, InSwap, PopThere, TmpWhole, PopWhole, PopAt, Lockers
<1>3. 1..Len(InitBox) \subseteq Listed(InitBox)
  BY MailboxAssumption DEF Listed
<1>4. DirWhole
  BY <1>3 DEF Init, DirWhole
<1> QED
  BY <1>2, <1>4 DEF Stays

LEMMA StaysAlways == Spec => [](Typed /\ Known /\ Stays)
<1>1. Init => Typed /\ Known /\ Stays
  BY InitTyped, InitKnown, InitStays
<1>2. (Typed /\ Known /\ Stays) /\ [Next]_vars => (Typed /\ Known /\ Stays)'
  BY StepTyped, StepKnown, StepStays
<1> QED
  BY <1>1, <1>2, PTL DEF Spec

LEMMA StaysDelivered == Stays => DeliveredStays
<1> SUFFICES ASSUME Stays, ~astray, "index" \notin halfway
             PROVE  delivered \subseteq Listed(dir) \cup asked \cup overtaken \cup
                      (IF Away THEN Listed(tmpfile.recs) \cup Listed(popdir.recs) ELSE {})
  BY DEF DeliveredStays
<1>1. CASE ~Away
  BY <1>1 DEF Stays, DirWhole, Safe, Held
<1>2. CASE Away
  <2>1. PICK s \in Session : pc[s] \in {"rename", "newrename", "poprename"}
    BY <1>2 DEF Away
  <2>2. TmpWhole(s) /\ PopWhole(s)
    BY DEF Stays
  <2> QED
    BY <1>2, <2>1, <2>2 DEF TmpWhole, PopWhole, Lockers, PopAt, Safe, Held
<1> QED
  BY <1>1, <1>2

(* A mail that was delivered stays listed, or waits in the copy that is about *)
(* to be the index, until its deletion was asked for; lost are only mails     *)
(* that came while a copy was on its way in.                                 *)
THEOREM DeliveredStaysAlways == Spec => []DeliveredStays
BY StaysAlways, StaysDelivered, PTL

-----------------------------------------------------------------------------
(* What is gone.  An index and its copies name no mail twice; so a record     *)
(* that was taken out takes its name with it, and what is asked for and not  *)
(* overtaken is either gone or somebody has still to do it.                  *)
DirUnique == ~astray => Distinct(dir)
TmpUnique(s) == (pc[s] \in Lockers /\ ~astray) => Distinct(tmpfile.recs)
PopUnique(s) == (pc[s] \in PopAt /\ ~astray) => Distinct(popdir.recs)

Unique == DirUnique /\ \A s \in Session : TmpUnique(s) /\ PopUnique(s)

Clean == ~astray /\ halfway = {}
Going == asked \ overtaken
InAt == {"swap", "newswap", "popswap"}

(* m_new has still to delete the header of mail n.                           *)
NotedBy(s, n) ==
  \E k \in 1..Len(noted[s]) :
    /\ noted[s][k].file = n
    /\ pc[s] \in {"newswap", "newrename"} => k # Len(noted[s])

Pending(n) == \E s \in Session : NotedBy(s, n)

TextGone == Clean =>
  \A n \in Going \cap files : \E s \in Session : pc[s] = "unlink" /\ work[s].hdr.file = n

DirGone == Clean =>
  \A n \in Going \cap Listed(dir) : Pending(n) \/ \E s \in Session : pc[s] \in InAt

TmpGone(s) == (Clean /\ pc[s] \in Lockers) =>
  \A n \in Going \cap Listed(tmpfile.recs) : Pending(n)

PopGone(s) == (Clean /\ pc[s] \in PopAt) =>
  \A n \in Going \cap Listed(popdir.recs) : Pending(n)

Gone == TextGone /\ DirGone /\ \A s \in Session : TmpGone(s) /\ PopGone(s)

LEMMA DistinctEmpty == Distinct(<<>>)
BY EmptySeq DEF Distinct

LEMMA DistinctKept ==
  ASSUME NEW d \in Seq(Header), NEW e \in Seq(Header), Keeps(d, e), Len(e) = Len(d)
  PROVE  (Distinct(d) => Distinct(e)) /\ Listed(e) = Listed(d)
<1>1. \A i \in 1..Len(e) : i \in 1..Len(d) /\ e[i].file = d[i].file
  BY DEF Keeps
<1>2. Distinct(d) => Distinct(e)
  BY <1>1 DEF Distinct
<1>3. Listed(e) = Listed(d)
  BY <1>1 DEF Listed
<1> QED
  BY <1>2, <1>3

LEMMA DistinctAppend ==
  ASSUME NEW f \in Seq(Header), NEW h \in Header, Distinct(f), h.file \notin Listed(f)
  PROVE  Distinct(Append(f, h))
<1>1. /\ Len(f) \in Nat /\ Len(Append(f, h)) = Len(f) + 1
      /\ \A i \in 1..Len(f) : Append(f, h)[i] = f[i]
      /\ Append(f, h)[Len(f) + 1] = h
  BY LenProperties, AppendProperties
<1>2. \A i \in 1..Len(f) : f[i].file # h.file
  BY DEF Listed
<1>3. \A i \in 1..Len(Append(f, h)) : i \in 1..Len(f) \/ i = Len(f) + 1
  BY <1>1
<1> QED
  BY <1>1, <1>2, <1>3 DEF Distinct

LEMMA StepDirUnique ==
  ASSUME Typed, Known, Unique, NEW s \in Session, Act(s)
  PROVE  DirUnique'
<1>0. /\ TypePc /\ TypePage /\ TypeDele /\ TypeNoted /\ TypeCopies /\ TypeIndex /\ TypeWork
      /\ dir' \in Seq(Header) /\ asked \subseteq asked' /\ overtaken \subseteq overtaken'
      /\ (astray => astray') /\ halfway \subseteq halfway'
      /\ TypeFiles /\ KnownIndex /\ Draft(s) /\ DirUnique /\ TmpUnique(s) /\ PopUnique(s)
  BY StepIndex, Grows, Strays, Marks DEF Typed, TypeIndex, Known, Unique
<1>00. ASSUME dir' = dir PROVE DirUnique'
  BY <1>0, <1>00 DEF DirUnique
<1>1. CASE SendOpen(s) \/ SendAbort(s) \/ OpenBox(s) \/ LeaveBox(s) \/ MailUnlink(s)
          \/ RangeRefused(s) \/ SwapFails(s) \/ NewStart(s)
  BY <1>1, <1>0, <1>00 DEF LeaveBox, MailUnlink, NewStart, OpenBox, RangeRefused,
     Reread, SendAbort, SendOpen, SwapDone, SwapFails, index
<1>2. CASE NewNext(s) \/ NewLast(s) \/ NewKeep(s) \/ NewUnlink(s) \/ NewCopy(s) \/
          NewRefused(s) \/ NewDone(s) \/ PopLogin(s)
  BY <1>2, <1>0, <1>00 DEF CopyRefused, NewCopy, NewDone, NewKeep, NewLast, NewNext,
     NewRefused, NewUnlink, PopLogin, Reread, index
<1>3. CASE Rset(s) \/ PopLeave(s) \/ PopCopy(s) \/ Hangup(s) \/
          (\E i \in 1..Len(page[s]) : MailDelFails(s, i)) \/
          (\E i \in 1..Len(page[s]) : Dele(s, i)) \/
          (\E i1 \in 1..(Len(page[s]) + 1), i2 \in 1..(Len(page[s]) + 1) : RangeCopy(s, i1, i2))
  BY <1>3, <1>0, <1>00 DEF Chooses, Dele, Hangup, MailDelFails, PopCopy, PopForgets,
     PopLeave, RangeCopy, Redraw, Rset, index
<1>4. CASE SendDeliver(s)
  <2>1. /\ work[s].hdr \in Header /\ dir' = Append(dir, work[s].hdr)
        /\ work[s].hdr.file \in (1..last) \ delivered /\ astray' = astray
    BY <1>4, <1>0 DEF SendDeliver, AppendRecord, TypeWork, Draft
  <2>2. work[s].hdr.file \notin Names
    BY <1>0, <2>1 DEF Names, TypeFiles
  <2>3. Distinct(dir) => Distinct(Append(dir, work[s].hdr))
    BY <1>0, <2>1, <2>2, DistinctAppend DEF KnownIndex, TypeIndex
  <2> QED
    BY <1>0, <2>1, <2>3 DEF DirUnique
<1>5. ASSUME NEW i \in 1..Len(page[s]), MailRead(s, i)
      PROVE  DirUnique'
  <2> DEFINE h == [page[s][i] EXCEPT !.read = TRUE]
  <2>1. i \in Nat \ {0} /\ page[s][i] \in Header
    BY <1>0, Line
  <2>2. h \in Header
    BY <2>1, Headers
  <2>3. Substitute(h, i)
    BY <1>5 DEF MailRead, WriteLine
  <2> HIDE DEF h
  <2>4. ~astray' => Keeps(dir, dir') /\ Len(dir') = Len(dir)
    BY <1>0, <2>1, <2>2, <2>3, SubstituteKeeps
  <2>5. ~astray' => (Distinct(dir) => Distinct(dir')) /\ Listed(dir') = Listed(dir)
    BY <1>0, <2>4, DistinctKept DEF TypeIndex
  <2> QED
    BY <1>0, <2>5 DEF DirUnique
<1>6. ASSUME NEW i \in 1..Len(page[s]), MailMark(s, i)
      PROVE  DirUnique'
  <2> DEFINE h == [page[s][i] EXCEPT !.marked = ~@]
  <2>1. i \in Nat \ {0} /\ page[s][i] \in Header
    BY <1>0, Line
  <2>2. h \in Header
    BY <2>1, Headers
  <2>3. Substitute(h, i)
    BY <1>6 DEF MailMark, WriteLine
  <2> HIDE DEF h
  <2>4. ~astray' => Keeps(dir, dir') /\ Len(dir') = Len(dir)
    BY <1>0, <2>1, <2>2, <2>3, SubstituteKeeps
  <2>5. ~astray' => (Distinct(dir) => Distinct(dir')) /\ Listed(dir') = Listed(dir)
    BY <1>0, <2>4, DistinctKept DEF TypeIndex
  <2> QED
    BY <1>0, <2>5 DEF DirUnique
<1>7. CASE NewRead(s)
  <2> DEFINE h == [work[s].hdr EXCEPT !.read = TRUE]
  <2>1. work[s].ent \in Nat \ {0} /\ work[s].hdr \in Header
    BY <1>7, <1>0 DEF NewRead, TypeWork
  <2>2. h \in Header
    BY <2>1, Headers
  <2>3. Substitute(h, work[s].ent)
    BY <1>7 DEF NewRead
  <2> HIDE DEF h
  <2>4. ~astray' => Keeps(dir, dir') /\ Len(dir') = Len(dir)
    BY <1>0, <2>1, <2>2, <2>3, SubstituteKeeps
  <2>5. ~astray' => (Distinct(dir) => Distinct(dir')) /\ Listed(dir') = Listed(dir)
    BY <1>0, <2>4, DistinctKept DEF TypeIndex
  <2> QED
    BY <1>0, <2>5 DEF DirUnique
<1>8. ASSUME NEW i \in 1..Len(page[s]), MailDel(s, i)
      PROVE  DirUnique'
  <2> DEFINE n == page[s][i].file
  <2>1. /\ n \in Listed(dir) /\ dir' = DeleteFile(dir, i, n)
        /\ ~astray' => n \notin Listed(dir')
    BY <1>8 DEF MailDel
  <2>2. i \in Nat /\ dir \in Seq(Header)
    BY <1>0, Line DEF TypeIndex
  <2> HIDE DEF n
  <2>3. ASSUME ~astray' PROVE Distinct(dir) => Distinct(dir')
    BY <2>1, <2>2, <2>3, DeleteTakes DEF Takes
  <2> QED
    BY <1>0, <2>3 DEF DirUnique
<1>9. CASE SwapAway(s)
  BY <1>9, DistinctEmpty DEF SwapAway, DirUnique
<1>10. CASE SwapIn(s)
  BY <1>10, <1>0 DEF SwapIn, TmpUnique, DirUnique, Lockers
<1>11. CASE PopUnlink(s)
  BY <1>11, DistinctEmpty DEF PopUnlink, DirUnique
<1>12. CASE PopRename(s)
  BY <1>12, <1>0 DEF PopRename, PopUnique, DirUnique, PopAt, index
<1> QED
  BY <1>1, <1>2, <1>3, <1>4, <1>5, <1>6, <1>7, <1>8, <1>9, <1>10, <1>11, <1>12 DEF Act

LEMMA OwnTmpUnique ==
  ASSUME Typed, Known, Unique, NEW s \in Session, Act(s)
  PROVE  TmpUnique(s)'
<1>0. /\ TypePc /\ TypePage /\ TypeDele /\ TypeNoted /\ TypeCopies /\ TypeIndex /\ TypeWork
      /\ dir' \in Seq(Header) /\ asked \subseteq asked' /\ overtaken \subseteq overtaken'
      /\ (astray => astray') /\ halfway \subseteq halfway'
      /\ DirUnique /\ TmpUnique(s)
  BY StepIndex, Grows, Strays, Marks DEF Typed, TypeIndex, Known, Unique
<1>00. ASSUME pc'[s] \notin Lockers PROVE TmpUnique(s)'
  BY <1>00 DEF TmpUnique
<1>1. CASE SendOpen(s) \/ SendAbort(s) \/ SendDeliver(s) \/ OpenBox(s) \/ LeaveBox(s)
          \/ MailUnlink(s) \/ RangeRefused(s) \/ SwapFails(s)
  BY <1>1, <1>0, <1>00 DEF Goto, LeaveBox, MailUnlink, OpenBox, RangeRefused,
     Reread, SendAbort, SendDeliver, SendOpen, SwapDone, SwapFails, Lockers, TypePc,
     InNew, local, Chooses, WriteLine
<1>2. CASE SwapIn(s) \/ NewStart(s) \/ NewNext(s) \/ NewLast(s) \/ NewRead(s) \/
          NewKeep(s) \/ NewUnlink(s) \/ NewRefused(s)
  BY <1>2, <1>0, <1>00 DEF CopyRefused, Goto, NewKeep, NewLast, NewNext, NewRead,
     NewRefused, NewStart, NewUnlink, Substitute, SwapDone, SwapIn, Lockers, TypePc,
     InNew, local, Chooses, WriteLine
<1>3. CASE NewDone(s) \/ PopLogin(s) \/ Rset(s) \/ PopLeave(s) \/ PopCopy(s) \/
          PopUnlink(s) \/ PopRename(s) \/ Hangup(s)
  BY <1>3, <1>0, <1>00 DEF Goto, Hangup, NewDone, PopCopy, PopForgets, PopLeave,
     PopLogin, PopRename, PopUnlink, Reread, Rset, Lockers, TypePc, InNew, local,
     Chooses, WriteLine
<1>4. CASE (\E i \in 1..Len(page[s]) : MailRead(s, i)) \/
          (\E i \in 1..Len(page[s]) : MailMark(s, i)) \/
          (\E i \in 1..Len(page[s]) : MailDel(s, i)) \/
          (\E i \in 1..Len(page[s]) : MailDelFails(s, i)) \/
          (\E i \in 1..Len(page[s]) : Dele(s, i))
  BY <1>4, <1>0, <1>00 DEF Chooses, Dele, Goto, MailDel, MailDelFails, MailMark,
     MailRead, Redraw, Substitute, WriteLine, Lockers, TypePc, InNew, local,
     Chooses, WriteLine
<1>5. ASSUME NEW i1 \in 1..(Len(page[s]) + 1), NEW i2 \in 1..(Len(page[s]) + 1), RangeCopy(s, i1, i2)
      PROVE  TmpUnique(s)'
  <2>1. /\ tmpfile'.recs = DeleteRange(dir, i1, i2) /\ overtaken' = overtaken
        /\ asked' = asked \cup {dir[i].file : i \in Cut(i1, i2)}
        /\ ~astray' => Swapping = {}
        /\ noted' = noted /\ pc[s] = "idle" /\ pc'[s] = "swap"
    BY <1>5, <1>0 DEF RangeCopy, local, Goto, TypePc
  <2>2. Len(page[s]) \in Nat
    BY <1>0, LenProperties DEF TypePage
  <2>3. Takes(dir, DeleteRange(dir, i1, i2), (1..Len(dir)) \ Cut(i1, i2))
    BY <1>0, <2>2, RangeTakes
  <2> QED
    BY <1>0, <2>1, <2>3 DEF TmpUnique, DirUnique, Takes
<1>6. CASE NewCopy(s)
  <2> DEFINE e == noted[s][NextNoted(noted[s])]
  <2>1. /\ tmpfile'.recs = DeleteRecord(dir, e.ent) /\ overtaken' = overtaken
        /\ ~astray' => Swapping = {} /\ ~Missed(e.ent, e.file)
        /\ noted[s] # <<>> /\ noted' = noted /\ asked' = asked
        /\ pc[s] = "newdel" /\ pc'[s] = "newswap"
    BY <1>6, <1>0 DEF NewCopy, history, local, Goto, TypePc
  <2>2. /\ e.ent \in Nat \ {0} /\ noted[s][Len(noted[s])] = e
        /\ Len(noted[s]) \in Nat
    BY <1>0, <2>1, LastNoted
  <2>3. dir \in Seq(Header) /\ Len(dir) \in Nat
    BY <1>0, LenProperties DEF TypeIndex
  <2> HIDE DEF e
  <2>4. ASSUME ~astray'
        PROVE  /\ e.ent \in 1..Len(dir) /\ dir[e.ent].file = e.file
               /\ Takes(dir, tmpfile'.recs, (1..Len(dir)) \ {e.ent})
    <3>1. e.ent \in 1..Len(dir) /\ dir[e.ent].file = e.file
      BY <2>1, <2>2, <2>3, <2>4 DEF Missed
    <3>2. DeleteRecord(dir, e.ent) = DropRecord(dir, e.ent)
      BY <2>3, <3>1 DEF DeleteRecord
    <3> QED
      BY <2>1, <2>3, <3>1, <3>2, DropTakes
  <2> QED
    BY <1>0, <2>4 DEF TmpUnique, DirUnique, Takes
<1>7. CASE SwapAway(s)
  BY <1>7, <1>0 DEF SwapAway, TmpUnique, Lockers, side
<1> QED
  BY <1>1, <1>2, <1>3, <1>4, <1>5, <1>6, <1>7 DEF Act

LEMMA OwnPopUnique ==
  ASSUME Typed, Known, Unique, NEW s \in Session, Act(s)
  PROVE  PopUnique(s)'
<1>0. /\ TypePc /\ TypePage /\ TypeDele /\ TypeNoted /\ TypeCopies /\ TypeIndex /\ TypeWork
      /\ dir' \in Seq(Header) /\ asked \subseteq asked' /\ overtaken \subseteq overtaken'
      /\ (astray => astray') /\ halfway \subseteq halfway'
      /\ DirUnique /\ PopUnique(s)
  BY StepIndex, Grows, Strays, Marks DEF Typed, TypeIndex, Known, Unique
<1>00. ASSUME pc'[s] \notin PopAt PROVE PopUnique(s)'
  BY <1>00 DEF PopUnique
<1>1. CASE SendOpen(s) \/ SendAbort(s) \/ SendDeliver(s) \/ OpenBox(s) \/ LeaveBox(s)
          \/ MailUnlink(s) \/ RangeRefused(s) \/ SwapAway(s)
  BY <1>1, <1>0, <1>00 DEF Goto, LeaveBox, MailUnlink, OpenBox, RangeRefused,
     Reread, SendAbort, SendDeliver, SendOpen, SwapAway, PopAt, TypePc, InNew,
     local, Chooses, WriteLine
<1>2. CASE SwapFails(s) \/ SwapIn(s) \/ NewStart(s) \/ NewNext(s) \/ NewLast(s) \/
          NewRead(s) \/ NewKeep(s) \/ NewUnlink(s)
  BY <1>2, <1>0, <1>00 DEF Goto, NewKeep, NewLast, NewNext, NewRead, NewStart,
     NewUnlink, Substitute, SwapDone, SwapFails, SwapIn, PopAt, TypePc, InNew,
     local, Chooses, WriteLine
<1>3. CASE NewCopy(s) \/ NewRefused(s) \/ NewDone(s) \/ PopLogin(s) \/ Rset(s) \/
          PopLeave(s) \/ PopRename(s) \/ Hangup(s)
  BY <1>3, <1>0, <1>00 DEF CopyRefused, Goto, Hangup, NewCopy, NewDone, NewRefused,
     PopForgets, PopLeave, PopLogin, PopRename, Reread, Rset, PopAt, TypePc, InNew,
     local, Chooses, WriteLine
<1>4. CASE (\E i \in 1..Len(page[s]) : MailRead(s, i)) \/
          (\E i \in 1..Len(page[s]) : MailMark(s, i)) \/
          (\E i \in 1..Len(page[s]) : MailDel(s, i)) \/
          (\E i \in 1..Len(page[s]) : MailDelFails(s, i)) \/
          (\E i \in 1..Len(page[s]) : Dele(s, i)) \/
          (\E i1 \in 1..(Len(page[s]) + 1), i2 \in 1..(Len(page[s]) + 1) : RangeCopy(s, i1, i2))
  BY <1>4, <1>0, <1>00 DEF Chooses, Dele, Goto, MailDel, MailDelFails, MailMark,
     MailRead, RangeCopy, Redraw, Substitute, WriteLine, PopAt, TypePc, InNew,
     local, Chooses, WriteLine
<1>5. CASE PopCopy(s)
  <2> DEFINE keep == Without(dir, dele[s])
  <2>1. /\ popdir'.recs = Overwrite(popdir.recs, keep) /\ overtaken' = overtaken
        /\ asked' = asked \cup {page[s][i].file : i \in dele[s]}
        /\ ~astray' => Swapping = {} /\ ~(Len(popdir.recs) > Len(keep))
        /\ ~astray' => \A i \in dele[s] : ~Missed(i, page[s][i].file)
        /\ noted' = noted /\ pc[s] = "pop" /\ pc'[s] = "popswap"
    BY <1>5, <1>0 DEF PopCopy, Goto, TypePc
  <2>2. keep \in Seq(Header) /\ popdir.recs \in Seq(Header)
    BY <1>0, WithoutProperties DEF TypeIndex, TypeCopies
  <2>3. Takes(dir, keep, {i \in 1..Len(dir) : i \notin dele[s]})
    BY <1>0, WithoutTakes DEF TypeIndex
  <2> HIDE DEF keep
  <2>4. ASSUME ~astray' PROVE popdir'.recs = keep
    <3>1. Len(keep) \in Nat /\ Len(popdir.recs) \in Nat
      BY <2>2, LenProperties
    <3>2. Len(popdir.recs) <= Len(keep)
      BY <2>1, <2>4, <3>1
    <3> QED
      BY <2>1, <2>2, <3>2, OverwriteType
  <2> QED
    BY <1>0, <2>3, <2>4 DEF PopUnique, DirUnique, Takes
<1>6. CASE PopUnlink(s)
  BY <1>6, <1>0 DEF PopUnlink, PopUnique, PopAt, side
<1> QED
  BY <1>1, <1>2, <1>3, <1>4, <1>5, <1>6 DEF Act

LEMMA StepUnique ==
  ASSUME Typed, Known, Stays, Unique, [Next]_vars
  PROVE  Unique'
<1>1. ASSUME NEW s \in Session, Step(s) PROVE Unique'
  <2>1. Act(s)
    BY <1>1, StepActs
  <2>2. DirUnique' /\ TmpUnique(s)' /\ PopUnique(s)'
    BY <2>1, StepDirUnique, OwnTmpUnique, OwnPopUnique
  <2>3. ASSUME NEW q \in Session \ {s} PROVE TmpUnique(q)' /\ PopUnique(q)'
    <3>1. pc'[q] = pc[q] /\ (astray => astray') /\ TmpUnique(q) /\ PopUnique(q)
      BY <2>1, Elsewhere, Strays DEF Unique
    <3>2. /\ pc[q] \in Lockers => tmpfile' = tmpfile
          /\ ~astray' /\ pc[q] \in PopAt => popdir' = popdir
      BY <2>1, TmpElsewhere, PopElsewhere DEF Stays
    <3> QED
      BY <3>1, <3>2 DEF TmpUnique, PopUnique
  <2> QED
    BY <2>2, <2>3 DEF Unique
<1>2. ASSUME UNCHANGED vars PROVE Unique'
  <2>1. DirUnique'
    BY <1>2 DEF vars, index, history, Unique, DirUnique
  <2>2. \A q \in Session : TmpUnique(q)' /\ PopUnique(q)'
    BY <1>2 DEF vars, side, history, Unique, TmpUnique, PopUnique
  <2> QED
    BY <2>1, <2>2 DEF Unique
<1> QED
  BY <1>1, <1>2 DEF Next

LEMMA TextsAsked ==
  ASSUME Typed, Known, NEW s \in Session, Act(s)
  PROVE
    \A n \in files' \cap asked' :
      \/ astray'
      \/ n \in files /\ (n \in asked \/ (pc'[s] = "unlink" /\ work'[s].hdr.file = n))
<1>0. TypePc /\ TypeWork /\ TypeDele /\ TypePage /\ TypeFiles /\ KnownIndex
  BY DEF Typed, Known
<1>1. CASE SendAbort(s) \/ SendDeliver(s) \/ OpenBox(s) \/ LeaveBox(s) \/
          MailUnlink(s) \/ RangeRefused(s) \/ SwapAway(s) \/ SwapFails(s) \/
          SwapIn(s)
  BY <1>1, <1>0 DEF LeaveBox, MailUnlink, OpenBox, RangeRefused, Reread, SendAbort,
     SendDeliver, SwapAway, SwapDone, SwapFails, SwapIn, history
<1>2. CASE NewStart(s) \/ NewNext(s) \/ NewLast(s) \/ NewRead(s) \/ NewKeep(s) \/
          NewCopy(s) \/ NewRefused(s) \/ NewDone(s) \/ PopLogin(s)
  BY <1>2, <1>0 DEF CopyRefused, NewCopy, NewDone, NewKeep, NewLast, NewNext,
     NewRead, NewRefused, NewStart, PopLogin, Reread, Substitute, history
<1>3. CASE Rset(s) \/ PopLeave(s) \/ PopUnlink(s) \/ PopRename(s) \/ Hangup(s) \/
          (\E i \in 1..Len(page[s]) : MailRead(s, i)) \/
          (\E i \in 1..Len(page[s]) : MailMark(s, i)) \/
          (\E i \in 1..Len(page[s]) : MailDelFails(s, i)) \/
          (\E i \in 1..Len(page[s]) : Dele(s, i))
  BY <1>3, <1>0 DEF Chooses, Dele, Hangup, MailDelFails, MailMark, MailRead,
     PopForgets, PopLeave, PopRename, PopUnlink, Redraw, Rset, Substitute,
     WriteLine, history
<1>4. CASE SendOpen(s)
  <2>1. files' = files \cup {last + 1} /\ asked' = asked
    BY <1>4 DEF SendOpen, history
  <2>2. last + 1 \notin asked
    BY <1>0 DEF KnownIndex, Names, TypeFiles
  <2> QED
    BY <2>1, <2>2
<1>5. ASSUME NEW i \in 1..Len(page[s]), MailDel(s, i)
      PROVE
        \A n \in files' \cap asked' :
          \/ astray'
          \/ n \in files /\ (n \in asked \/ (pc'[s] = "unlink" /\ work'[s].hdr.file = n))
  BY <1>5, <1>0 DEF MailDel, Goto, TypePc, TypeWork
<1>6. ASSUME NEW i1 \in 1..(Len(page[s]) + 1), NEW i2 \in 1..(Len(page[s]) + 1), RangeCopy(s, i1, i2)
      PROVE
        \A n \in files' \cap asked' :
          \/ astray'
          \/ n \in files /\ (n \in asked \/ (pc'[s] = "unlink" /\ work'[s].hdr.file = n))
  <2>1. /\ files' = files \ {dir[i].file : i \in Cut(i1, i2)}
        /\ asked' = asked \cup {dir[i].file : i \in Cut(i1, i2)}
    BY <1>6 DEF RangeCopy, CutTexts
  <2> QED
    BY <2>1
<1>7. CASE NewUnlink(s)
  BY <1>7 DEF NewUnlink
<1>8. CASE PopCopy(s)
  <2>1. /\ files' = files \ {dir[i].file : i \in dele[s] \cap (1..Len(dir))}
        /\ asked' = asked \cup {page[s][i].file : i \in dele[s]}
        /\ ~astray' => \A i \in dele[s] : ~Missed(i, page[s][i].file)
    BY <1>8 DEF PopCopy, PopTexts
  <2>2. \A i \in dele[s] : i \in Nat \ {0}
    <3>1. dele[s] \subseteq 1..Len(page[s]) /\ Len(page[s]) \in Nat
      BY <1>0, LenProperties DEF TypeDele, TypePage
    <3> QED
      BY <3>1
  <2>3. Len(dir) \in Nat
    BY LenProperties DEF Typed, TypeIndex
  <2>4. ASSUME ~astray', NEW i \in dele[s] PROVE i \in 1..Len(dir) /\ dir[i].file = page[s][i].file
    BY <2>1, <2>2, <2>3, <2>4 DEF Missed
  <2> QED
    BY <2>1, <2>4
<1> QED
  BY <1>1, <1>2, <1>3, <1>4, <1>5, <1>6, <1>7, <1>8 DEF Act

LEMMA UnlinkEnds ==
  ASSUME Typed, NEW s \in Session, Act(s)
  PROVE
    pc[s] = "unlink" => \/ work[s].hdr.file \notin files'
                        \/ halfway' # {}
<1>0. s \in Session
  OBVIOUS
<1>1. CASE SendOpen(s) \/ SendAbort(s) \/ SendDeliver(s) \/ OpenBox(s) \/ LeaveBox(s)
          \/ RangeRefused(s) \/ SwapAway(s) \/ SwapFails(s) \/ SwapIn(s) \/
          NewStart(s) \/ NewNext(s) \/ NewLast(s)
  BY <1>1, <1>0 DEF LeaveBox, NewLast, NewNext, NewStart, OpenBox, RangeRefused,
     Reread, SendAbort, SendDeliver, SendOpen, SwapAway, SwapDone, SwapFails,
     SwapIn, Chooses, InNew
<1>2. CASE NewRead(s) \/ NewKeep(s) \/ NewUnlink(s) \/ NewCopy(s) \/ NewRefused(s) \/
          NewDone(s) \/ PopLogin(s) \/ Rset(s) \/ PopLeave(s) \/ PopCopy(s) \/
          PopUnlink(s) \/ PopRename(s)
  BY <1>2, <1>0 DEF CopyRefused, NewCopy, NewDone, NewKeep, NewRead, NewRefused,
     NewUnlink, PopCopy, PopForgets, PopLeave, PopLogin, PopRename, PopUnlink,
     Reread, Rset, Substitute, Chooses, InNew
<1>3. CASE (\E i \in 1..Len(page[s]) : MailRead(s, i)) \/
          (\E i \in 1..Len(page[s]) : MailMark(s, i)) \/
          (\E i \in 1..Len(page[s]) : MailDel(s, i)) \/
          (\E i \in 1..Len(page[s]) : MailDelFails(s, i)) \/
          (\E i \in 1..Len(page[s]) : Dele(s, i)) \/
          (\E i1 \in 1..(Len(page[s]) + 1), i2 \in 1..(Len(page[s]) + 1) : RangeCopy(s, i1, i2))
  BY <1>3, <1>0 DEF Chooses, Dele, MailDel, MailDelFails, MailMark, MailRead,
     RangeCopy, Redraw, Substitute, WriteLine, Chooses, InNew
<1>4. CASE MailUnlink(s)
  BY <1>4 DEF MailUnlink
<1>5. CASE Hangup(s)
  BY <1>5 DEF Hangup
<1> QED
  BY <1>1, <1>2, <1>3, <1>4, <1>5 DEF Act

LEMMA StepTextGone == Typed /\ Known /\ TextGone /\ [Next]_vars => TextGone'
<1> SUFFICES ASSUME Typed, Known, TextGone, [Next]_vars PROVE TextGone'
  OBVIOUS
<1>1. ASSUME NEW s \in Session, Step(s) PROVE TextGone'
  <2>1. Act(s)
    BY <1>1, StepActs
  <2> SUFFICES ASSUME Clean', NEW n \in Going' \cap files'
               PROVE  \E q \in Session : pc'[q] = "unlink" /\ work'[q].hdr.file = n
    BY DEF TextGone
  <2>2. Clean /\ n \in asked' /\ n \notin overtaken
    BY <2>1, Strays, Marks DEF Clean, Going
  <2>3. CASE n \in files /\ n \in asked
    <3>1. PICK q \in Session : pc[q] = "unlink" /\ work[q].hdr.file = n
      BY <2>2, <2>3 DEF TextGone, Going
    <3>2. q # s
      BY <2>1, <3>1, UnlinkEnds DEF Clean
    <3> QED
      BY <2>1, <3>1, <3>2, Elsewhere
  <2>4. CASE pc'[s] = "unlink" /\ work'[s].hdr.file = n
    BY <2>4
  <2> QED
    BY <2>1, <2>2, <2>3, <2>4, TextsAsked DEF Clean
<1>2. CASE UNCHANGED vars
  BY <1>2 DEF vars, local, history, TextGone, Clean, Going
<1> QED
  BY <1>1, <1>2 DEF Next

LEMMA NotedKept ==
  ASSUME Typed, NEW s \in Session, Act(s)
  PROVE
    \A n : NotedBy(s, n) =>
      \/ NotedBy(s, n)'
      \/ halfway' # {}
      \/ pc[s] = "newdel" /\ pc'[s] = "newswap"
<1>0. TypePc /\ TypeNoted /\ TypeWork
  BY DEF Typed
<1>00. ASSUME noted' = noted, pc'[s] \notin {"newswap", "newrename"}, NEW n, NotedBy(s, n)
       PROVE  NotedBy(s, n)'
  BY <1>00 DEF NotedBy
<1>1. CASE SendOpen(s) \/ SendAbort(s) \/ SendDeliver(s) \/ OpenBox(s) \/ LeaveBox(s)
          \/ MailUnlink(s) \/ RangeRefused(s) \/ NewStart(s)
  BY <1>1, <1>0, <1>00 DEF Goto, LeaveBox, MailUnlink, NewStart, OpenBox,
     RangeRefused, Reread, SendAbort, SendDeliver, SendOpen, TypePc, InNew, local,
     Chooses, WriteLine
<1>2. CASE NewNext(s) \/ NewLast(s) \/ NewRead(s) \/ NewKeep(s) \/ NewDone(s) \/
          PopLogin(s) \/ Rset(s) \/ PopLeave(s)
  BY <1>2, <1>0, <1>00 DEF Goto, NewDone, NewKeep, NewLast, NewNext, NewRead,
     PopForgets, PopLeave, PopLogin, Reread, Rset, Substitute, TypePc, InNew, local,
     Chooses, WriteLine
<1>3. CASE PopCopy(s) \/ PopUnlink(s) \/ PopRename(s) \/
          (\E i \in 1..Len(page[s]) : MailRead(s, i)) \/
          (\E i \in 1..Len(page[s]) : MailMark(s, i)) \/
          (\E i \in 1..Len(page[s]) : MailDel(s, i)) \/
          (\E i \in 1..Len(page[s]) : MailDelFails(s, i)) \/
          (\E i \in 1..Len(page[s]) : Dele(s, i))
  BY <1>3, <1>0, <1>00 DEF Chooses, Dele, Goto, MailDel, MailDelFails, MailMark,
     MailRead, PopCopy, PopForgets, PopRename, PopUnlink, Redraw, Substitute,
     WriteLine, TypePc, InNew, local, Chooses, WriteLine
<1>4. CASE (\E i1 \in 1..(Len(page[s]) + 1), i2 \in 1..(Len(page[s]) + 1) : RangeCopy(s, i1, i2))
  BY <1>4, <1>0, <1>00 DEF Goto, RangeCopy, TypePc, InNew, local, Chooses, WriteLine
<1>5. CASE SwapFails(s)
  <2>1. halfway' # {}
    BY <1>5 DEF SwapFails
  <2> QED
    BY <2>1
<1>6. CASE SwapIn(s)
  <2>1. CASE pc[s] = "rename"
    <3>1. noted' = noted /\ pc'[s] = "idle"
      BY <1>6, <1>0, <2>1 DEF SwapIn, SwapDone, Goto, TypePc
    <3> QED
      BY <1>00, <3>1
  <2>2. CASE pc[s] = "newrename"
    <3>1. noted[s] # <<>> /\ noted'[s] = Rest(noted[s]) /\ pc'[s] = "newdel"
      BY <1>6, <1>0, <2>2 DEF SwapIn, SwapDone, Goto, TypePc, TypeNoted
    <3>2. noted[s] \in Seq(Note) /\ Len(noted[s]) \in Nat
      BY <1>0, LenProperties DEF TypeNoted
    <3>3. /\ Len(Rest(noted[s])) = Len(noted[s]) - 1
          /\ \A k \in 1..(Len(noted[s]) - 1) : Rest(noted[s])[k] = noted[s][k]
      BY <3>1, <3>2, RestProperties
    <3>4. ASSUME NEW n, NEW k \in 1..Len(noted[s]), noted[s][k].file = n, k # Len(noted[s])
          PROVE  NotedBy(s, n)'
      <4>1. k \in 1..(Len(noted[s]) - 1)
        BY <3>2, <3>4
      <4> QED
        BY <3>1, <3>3, <3>4, <4>1 DEF NotedBy
    <3> QED
      BY <2>2, <3>4 DEF NotedBy
  <2> QED
    BY <1>6, <2>1, <2>2 DEF SwapIn
<1>7. CASE NewUnlink(s)
  <2> DEFINE e == [ent |-> work[s].ent, file |-> work[s].hdr.file]
  <2>1. /\ noted[s] \in Seq(Note) /\ noted'[s] = Append(noted[s], e) /\ pc'[s] = "new"
    BY <1>7, <1>0 DEF NewUnlink, TypeNoted, Goto, TypePc
  <2>2. e \in Note
    <3>1. work[s].hdr \in Header /\ work[s].ent \in Nat
      BY <1>0 DEF TypeWork
    <3> QED
      BY <3>1, Headers DEF Note
  <2> HIDE DEF e
  <2>3. /\ Len(noted[s]) \in Nat /\ Len(noted'[s]) = Len(noted[s]) + 1
        /\ \A k \in 1..Len(noted[s]) : noted'[s][k] = noted[s][k]
    BY <2>1, <2>2, LenProperties, AppendProperties
  <2>4. ASSUME NEW n, NEW k \in 1..Len(noted[s]), noted[s][k].file = n PROVE NotedBy(s, n)'
    <3>1. k \in 1..Len(noted'[s]) /\ noted'[s][k].file = n
      BY <2>3, <2>4
    <3> QED
      BY <2>1, <3>1 DEF NotedBy
  <2> QED
    BY <2>4 DEF NotedBy
<1>8. CASE NewCopy(s)
  BY <1>8, <1>0 DEF NewCopy, Goto, TypePc
<1>9. CASE NewRefused(s)
  <2>1. halfway' # {}
    BY <1>9 DEF NewRefused
  <2> QED
    BY <2>1
<1>10. CASE Hangup(s)
  <2>1. CASE noted[s] # <<>>
    <3>1. halfway' # {}
      BY <1>10, <2>1 DEF Hangup
    <3> QED
      BY <3>1
  <2>2. CASE noted[s] = <<>>
    BY <2>2, EmptySeq DEF NotedBy
  <2> QED
    BY <2>1, <2>2
<1>11. CASE SwapAway(s)
  <2>1. /\ noted' = noted /\ pc[s] \in {"swap", "newswap"}
        /\ pc'[s] = IF pc[s] = "swap" THEN "rename" ELSE "newrename"
    BY <1>11, <1>0 DEF SwapAway, Goto, TypePc
  <2> QED
    BY <2>1 DEF NotedBy
<1> QED
  BY <1>1, <1>2, <1>3, <1>4, <1>5, <1>6, <1>7, <1>8, <1>9, <1>10, <1>11 DEF Act

LEMMA AskedHow ==
  ASSUME Typed, NEW s \in Session, Act(s)
  PROVE
    \A n \in asked' \ asked :
      \/ astray' \/ NotedBy(s, n)'
      \/ /\ Swapping = {} \/ n \in overtaken'
         /\ n \notin Listed(dir') \/ pc'[s] \in InAt
<1>0. TypePc /\ TypeNoted /\ TypeWork
  BY DEF Typed
<1>1. CASE SendOpen(s) \/ SendAbort(s) \/ SendDeliver(s) \/ OpenBox(s) \/ LeaveBox(s)
          \/ MailUnlink(s) \/ RangeRefused(s) \/ SwapAway(s) \/ SwapFails(s)
  BY <1>1, <1>0 DEF LeaveBox, MailUnlink, OpenBox, RangeRefused, Reread, SendAbort,
     SendDeliver, SendOpen, SwapAway, SwapDone, SwapFails, history
<1>2. CASE SwapIn(s) \/ NewStart(s) \/ NewNext(s) \/ NewLast(s) \/ NewRead(s) \/
          NewKeep(s) \/ NewCopy(s) \/ NewRefused(s) \/ NewDone(s)
  BY <1>2, <1>0 DEF CopyRefused, NewCopy, NewDone, NewKeep, NewLast, NewNext,
     NewRead, NewRefused, NewStart, Substitute, SwapDone, SwapIn, history
<1>3. CASE PopLogin(s) \/ Rset(s) \/ PopLeave(s) \/ PopUnlink(s) \/ PopRename(s) \/
          Hangup(s) \/ (\E i \in 1..Len(page[s]) : MailRead(s, i)) \/
          (\E i \in 1..Len(page[s]) : MailMark(s, i)) \/
          (\E i \in 1..Len(page[s]) : MailDelFails(s, i))
  BY <1>3, <1>0 DEF Chooses, Hangup, MailDelFails, MailMark, MailRead, PopForgets,
     PopLeave, PopLogin, PopRename, PopUnlink, Redraw, Reread, Rset, Substitute,
     WriteLine, history
<1>4. CASE (\E i \in 1..Len(page[s]) : Dele(s, i))
  BY <1>4, <1>0 DEF Dele, history
<1>5. ASSUME NEW i \in 1..Len(page[s]), MailDel(s, i)
      PROVE
        \A n \in asked' \ asked :
          \/ astray' \/ NotedBy(s, n)'
          \/ /\ Swapping = {} \/ n \in overtaken'
             /\ n \notin Listed(dir') \/ pc'[s] \in InAt
  <2>1. /\ asked' = asked \cup {page[s][i].file}
        /\ Swapping = {} \/ page[s][i].file \in overtaken'
        /\ astray' \/ page[s][i].file \notin Listed(dir')
    BY <1>5 DEF MailDel
  <2> QED
    BY <2>1
<1>6. ASSUME NEW i1 \in 1..(Len(page[s]) + 1), NEW i2 \in 1..(Len(page[s]) + 1), RangeCopy(s, i1, i2)
      PROVE
        \A n \in asked' \ asked :
          \/ astray' \/ NotedBy(s, n)'
          \/ /\ Swapping = {} \/ n \in overtaken'
             /\ n \notin Listed(dir') \/ pc'[s] \in InAt
  BY <1>6, <1>0 DEF RangeCopy, Goto, TypePc, InAt
<1>7. CASE NewUnlink(s)
  <2> DEFINE e == [ent |-> work[s].ent, file |-> work[s].hdr.file]
  <2>1. /\ noted[s] \in Seq(Note) /\ noted'[s] = Append(noted[s], e) /\ pc'[s] = "new"
        /\ asked' = asked \cup {e.file}
    BY <1>7, <1>0 DEF NewUnlink, TypeNoted, Goto, TypePc
  <2>2. e \in Note
    <3>1. work[s].hdr \in Header /\ work[s].ent \in Nat
      BY <1>0 DEF TypeWork
    <3> QED
      BY <3>1, Headers DEF Note
  <2> HIDE DEF e
  <2>3. /\ Len(noted[s]) \in Nat /\ Len(noted'[s]) = Len(noted[s]) + 1
        /\ noted'[s][Len(noted[s]) + 1] = e
    BY <2>1, <2>2, LenProperties, AppendProperties
  <2>4. Len(noted[s]) + 1 \in 1..Len(noted'[s])
    BY <2>3
  <2>5. ASSUME NEW n, n = e.file PROVE NotedBy(s, n)'
    BY <2>1, <2>3, <2>4, <2>5 DEF NotedBy
  <2> QED
    BY <2>1, <2>5
<1>8. CASE PopCopy(s)
  BY <1>8, <1>0 DEF PopCopy, Goto, TypePc, InAt
<1> QED
  BY <1>1, <1>2, <1>3, <1>4, <1>5, <1>6, <1>7, <1>8 DEF Act

LEMMA ListedHow ==
  ASSUME Typed, Known, NEW s \in Session, Act(s)
  PROVE
    \A n \in Listed(dir') \cap asked' :
      \/ astray' \/ n \in Listed(dir)
      \/ pc[s] \in Lockers /\ n \in Listed(tmpfile.recs)
      \/ pc[s] \in PopAt /\ n \in Listed(popdir.recs)
<1>0. /\ TypePc /\ TypePage /\ TypeDele /\ TypeNoted /\ TypeCopies /\ TypeIndex /\ TypeWork
      /\ dir' \in Seq(Header) /\ asked \subseteq asked' /\ overtaken \subseteq overtaken'
      /\ (astray => astray') /\ halfway \subseteq halfway'
      /\ TypeFiles /\ KnownIndex /\ Draft(s)
  BY StepIndex, Grows, Strays, Marks DEF Typed, TypeIndex, Known
<1>1. CASE SendOpen(s) \/ SendAbort(s) \/ OpenBox(s) \/ LeaveBox(s) \/ MailUnlink(s)
          \/ RangeRefused(s) \/ SwapFails(s) \/ NewStart(s) \/ NewNext(s)
  BY <1>1, <1>0 DEF LeaveBox, MailUnlink, NewNext, NewStart, OpenBox, RangeRefused,
     Reread, SendAbort, SendOpen, SwapDone, SwapFails, index
<1>2. CASE NewLast(s) \/ NewKeep(s) \/ NewUnlink(s) \/ NewCopy(s) \/ NewRefused(s) \/
          NewDone(s) \/ PopLogin(s) \/ Rset(s) \/ PopLeave(s)
  BY <1>2, <1>0 DEF CopyRefused, NewCopy, NewDone, NewKeep, NewLast, NewRefused,
     NewUnlink, PopForgets, PopLeave, PopLogin, Reread, Rset, index
<1>3. CASE PopCopy(s) \/ Hangup(s) \/ (\E i \in 1..Len(page[s]) : MailDelFails(s, i))
          \/ (\E i \in 1..Len(page[s]) : Dele(s, i)) \/
          (\E i1 \in 1..(Len(page[s]) + 1), i2 \in 1..(Len(page[s]) + 1) : RangeCopy(s, i1, i2))
  BY <1>3, <1>0 DEF Chooses, Dele, Hangup, MailDelFails, PopCopy, RangeCopy, Redraw,
     index
<1>4. CASE SendDeliver(s)
  <2>1. /\ work[s].hdr \in Header /\ dir' = Append(dir, work[s].hdr)
        /\ work[s].hdr.file \in (1..last) \ delivered /\ astray' = astray
    BY <1>4, <1>0 DEF SendDeliver, AppendRecord, TypeWork, Draft
  <2>2. work[s].hdr.file \notin Names
    BY <1>0, <2>1 DEF Names, TypeFiles
  <2>3. asked' = asked /\ asked \subseteq Names
    BY <1>4, <1>0 DEF SendDeliver, KnownIndex
  <2>4. Listed(dir') = Listed(dir) \cup {work[s].hdr.file}
    BY <1>0, <2>1, ListedAppend DEF TypeIndex
  <2> QED
    BY <2>2, <2>3, <2>4
<1>5. ASSUME NEW i \in 1..Len(page[s]), MailRead(s, i)
      PROVE
        \A n \in Listed(dir') \cap asked' :
          \/ astray' \/ n \in Listed(dir)
          \/ pc[s] \in Lockers /\ n \in Listed(tmpfile.recs)
          \/ pc[s] \in PopAt /\ n \in Listed(popdir.recs)
  <2> DEFINE h == [page[s][i] EXCEPT !.read = TRUE]
  <2>1. i \in Nat \ {0} /\ page[s][i] \in Header
    BY <1>0, Line
  <2>2. h \in Header
    BY <2>1, Headers
  <2>3. Substitute(h, i)
    BY <1>5 DEF MailRead, WriteLine
  <2> HIDE DEF h
  <2>4. ~astray' => Keeps(dir, dir') /\ Len(dir') = Len(dir)
    BY <1>0, <2>1, <2>2, <2>3, SubstituteKeeps
  <2>5. ~astray' => (Distinct(dir) => Distinct(dir')) /\ Listed(dir') = Listed(dir)
    BY <1>0, <2>4, DistinctKept DEF TypeIndex
  <2> QED
    BY <2>5
<1>6. ASSUME NEW i \in 1..Len(page[s]), MailMark(s, i)
      PROVE
        \A n \in Listed(dir') \cap asked' :
          \/ astray' \/ n \in Listed(dir)
          \/ pc[s] \in Lockers /\ n \in Listed(tmpfile.recs)
          \/ pc[s] \in PopAt /\ n \in Listed(popdir.recs)
  <2> DEFINE h == [page[s][i] EXCEPT !.marked = ~@]
  <2>1. i \in Nat \ {0} /\ page[s][i] \in Header
    BY <1>0, Line
  <2>2. h \in Header
    BY <2>1, Headers
  <2>3. Substitute(h, i)
    BY <1>6 DEF MailMark, WriteLine
  <2> HIDE DEF h
  <2>4. ~astray' => Keeps(dir, dir') /\ Len(dir') = Len(dir)
    BY <1>0, <2>1, <2>2, <2>3, SubstituteKeeps
  <2>5. ~astray' => (Distinct(dir) => Distinct(dir')) /\ Listed(dir') = Listed(dir)
    BY <1>0, <2>4, DistinctKept DEF TypeIndex
  <2> QED
    BY <2>5
<1>7. CASE NewRead(s)
  <2> DEFINE h == [work[s].hdr EXCEPT !.read = TRUE]
  <2>1. work[s].ent \in Nat \ {0} /\ work[s].hdr \in Header
    BY <1>7, <1>0 DEF NewRead, TypeWork
  <2>2. h \in Header
    BY <2>1, Headers
  <2>3. Substitute(h, work[s].ent)
    BY <1>7 DEF NewRead
  <2> HIDE DEF h
  <2>4. ~astray' => Keeps(dir, dir') /\ Len(dir') = Len(dir)
    BY <1>0, <2>1, <2>2, <2>3, SubstituteKeeps
  <2>5. ~astray' => (Distinct(dir) => Distinct(dir')) /\ Listed(dir') = Listed(dir)
    BY <1>0, <2>4, DistinctKept DEF TypeIndex
  <2> QED
    BY <2>5
<1>8. ASSUME NEW i \in 1..Len(page[s]), MailDel(s, i)
      PROVE
        \A n \in Listed(dir') \cap asked' :
          \/ astray' \/ n \in Listed(dir)
          \/ pc[s] \in Lockers /\ n \in Listed(tmpfile.recs)
          \/ pc[s] \in PopAt /\ n \in Listed(popdir.recs)
  <2>1. dir' = DeleteFile(dir, i, page[s][i].file) /\ i \in Nat /\ page[s][i].file \in {0} \cup Mail
    BY <1>8, <1>0, Line, Headers DEF MailDel
  <2>2. dir \in Seq(Header)
    BY <1>0 DEF TypeIndex
  <2> QED
    BY <2>1, <2>2, ListedDelete
<1>9. CASE SwapAway(s)
  BY <1>9, ListedEmpty DEF SwapAway
<1>10. CASE SwapIn(s)
  BY <1>10 DEF SwapIn, Lockers
<1>11. CASE PopUnlink(s)
  BY <1>11, ListedEmpty DEF PopUnlink
<1>12. CASE PopRename(s)
  BY <1>12 DEF PopRename, PopAt, index
<1> QED
  BY <1>1, <1>2, <1>3, <1>4, <1>5, <1>6, <1>7, <1>8, <1>9, <1>10, <1>11, <1>12 DEF Act

LEMMA SwapEnds ==
  ASSUME Typed, NEW s \in Session, Act(s)
  PROVE  pc[s] \in InAt => Listed(dir') = {} \/ halfway' # {}
<1>0. s \in Session
  OBVIOUS
<1>1. CASE SendOpen(s) \/ SendAbort(s) \/ SendDeliver(s) \/ OpenBox(s) \/ LeaveBox(s)
          \/ MailUnlink(s) \/ RangeRefused(s) \/ SwapIn(s) \/ NewStart(s) \/
          NewNext(s) \/ NewLast(s) \/ NewRead(s)
  BY <1>1, <1>0 DEF LeaveBox, MailUnlink, NewLast, NewNext, NewRead, NewStart,
     OpenBox, RangeRefused, Reread, SendAbort, SendDeliver, SendOpen, Substitute,
     SwapDone, SwapIn, InAt, Chooses, InNew
<1>2. CASE NewKeep(s) \/ NewUnlink(s) \/ NewCopy(s) \/ NewRefused(s) \/ NewDone(s) \/
          PopLogin(s) \/ Rset(s) \/ PopLeave(s) \/ PopCopy(s) \/ PopRename(s) \/
          (\E i \in 1..Len(page[s]) : MailRead(s, i)) \/
          (\E i \in 1..Len(page[s]) : MailMark(s, i))
  BY <1>2, <1>0 DEF Chooses, CopyRefused, MailMark, MailRead, NewCopy, NewDone,
     NewKeep, NewRefused, NewUnlink, PopCopy, PopForgets, PopLeave, PopLogin,
     PopRename, Redraw, Reread, Rset, Substitute, WriteLine, InAt, Chooses, InNew
<1>3. CASE (\E i \in 1..Len(page[s]) : MailDel(s, i)) \/
          (\E i \in 1..Len(page[s]) : MailDelFails(s, i)) \/
          (\E i \in 1..Len(page[s]) : Dele(s, i)) \/
          (\E i1 \in 1..(Len(page[s]) + 1), i2 \in 1..(Len(page[s]) + 1) : RangeCopy(s, i1, i2))
  BY <1>3, <1>0 DEF Chooses, Dele, MailDel, MailDelFails, RangeCopy, Redraw, InAt,
     Chooses, InNew
<1>4. CASE SwapAway(s)
  BY <1>4, ListedEmpty DEF SwapAway
<1>5. CASE SwapFails(s)
  BY <1>5 DEF SwapFails
<1>6. CASE PopUnlink(s)
  BY <1>6, ListedEmpty DEF PopUnlink
<1>7. CASE Hangup(s)
  BY <1>7 DEF Hangup, InAt, InSwap
<1> QED
  BY <1>1, <1>2, <1>3, <1>4, <1>5, <1>6, <1>7 DEF Act

LEMMA StillPending ==
  ASSUME Typed, NEW s \in Session, Act(s), halfway' = {},
         ~(pc[s] = "newdel" /\ pc'[s] = "newswap"), NEW n, Pending(n)
  PROVE  Pending(n)'
<1>1. PICK q \in Session : NotedBy(q, n)
  BY DEF Pending
<1>2. CASE q = s
  BY <1>1, <1>2, NotedKept DEF Pending
<1>3. CASE q # s
  <2>1. noted'[q] = noted[q] /\ pc'[q] = pc[q]
    BY <1>3, Elsewhere
  <2> QED
    BY <1>1, <2>1 DEF NotedBy, Pending
<1> QED
  BY <1>2, <1>3

LEMMA StepDirGone ==
  ASSUME Typed, Known, Gone, NEW s \in Session, Act(s)
  PROVE  DirGone'
<1> SUFFICES ASSUME Clean', NEW n \in Going' \cap Listed(dir'), \A q \in Session : pc'[q] \notin InAt
             PROVE  Pending(n)'
  BY DEF DirGone
<1>1. Clean /\ n \in asked' /\ n \notin overtaken
  BY Strays, Marks DEF Clean, Going
<1>2. ASSUME Pending(n) PROVE Pending(n)'
  BY <1>2, StillPending DEF Clean, InAt
<1>3. CASE n \notin asked
  BY <1>1, <1>3, AskedHow DEF Clean, Pending
<1>4. CASE n \in asked
  <2>1. n \in Going
    BY <1>1, <1>4 DEF Going
  <2>2. CASE n \in Listed(dir)
    <3>1. ASSUME NEW q \in Session, pc[q] \in InAt PROVE FALSE
      <4>1. q # s
        BY <3>1, SwapEnds DEF Clean
      <4> QED
        BY <3>1, <4>1, Elsewhere
    <3>2. Pending(n)
      BY <1>1, <2>1, <2>2, <3>1 DEF Gone, DirGone
    <3> QED
      BY <1>2, <3>2
  <2>3. CASE pc[s] \in Lockers /\ n \in Listed(tmpfile.recs)
    BY <1>1, <1>2, <2>1, <2>3 DEF Gone, TmpGone
  <2>4. CASE pc[s] \in PopAt /\ n \in Listed(popdir.recs)
    BY <1>1, <1>2, <2>1, <2>4 DEF Gone, PopGone
  <2> QED
    BY <1>1, <2>2, <2>3, <2>4, ListedHow DEF Clean
<1> QED
  BY <1>3, <1>4

LEMMA OwnTmpGone ==
  ASSUME Typed, Known, Unique, Gone, NEW s \in Session, Act(s)
  PROVE  TmpGone(s)'
<1>0. /\ TypePc /\ TypePage /\ TypeDele /\ TypeNoted /\ TypeCopies /\ TypeIndex /\ TypeWork
      /\ dir' \in Seq(Header) /\ asked \subseteq asked' /\ overtaken \subseteq overtaken'
      /\ (astray => astray') /\ halfway \subseteq halfway'
      /\ DirUnique /\ DirGone /\ TmpGone(s) /\ PopGone(s)
  BY StepIndex, Grows, Strays, Marks DEF Typed, TypeIndex, Known, Unique, Gone
<1>00. ASSUME pc'[s] \notin Lockers PROVE TmpGone(s)'
  BY <1>00 DEF TmpGone
<1>01. ASSUME Swapping = {}, Clean, NEW n \in Going \cap Listed(dir) PROVE Pending(n)
  <2>1. \A q \in Session : pc[q] \notin InAt
    BY <1>01 DEF Swapping, InAt, InSwap
  <2> QED
    BY <1>0, <1>01, <2>1 DEF DirGone
<1>02. Clean' => Clean
  BY <1>0 DEF Clean
<1>1. CASE SendOpen(s) \/ SendAbort(s) \/ SendDeliver(s) \/ OpenBox(s) \/ LeaveBox(s)
          \/ MailUnlink(s) \/ RangeRefused(s) \/ SwapFails(s)
  BY <1>1, <1>0, <1>00 DEF Goto, LeaveBox, MailUnlink, OpenBox, RangeRefused,
     Reread, SendAbort, SendDeliver, SendOpen, SwapDone, SwapFails, Lockers, TypePc,
     InNew, local, Chooses, WriteLine
<1>2. CASE SwapIn(s) \/ NewStart(s) \/ NewNext(s) \/ NewLast(s) \/ NewRead(s) \/
          NewKeep(s) \/ NewUnlink(s) \/ NewRefused(s)
  BY <1>2, <1>0, <1>00 DEF CopyRefused, Goto, NewKeep, NewLast, NewNext, NewRead,
     NewRefused, NewStart, NewUnlink, Substitute, SwapDone, SwapIn, Lockers, TypePc,
     InNew, local, Chooses, WriteLine
<1>3. CASE NewDone(s) \/ PopLogin(s) \/ Rset(s) \/ PopLeave(s) \/ PopCopy(s) \/
          PopUnlink(s) \/ PopRename(s) \/ Hangup(s)
  BY <1>3, <1>0, <1>00 DEF Goto, Hangup, NewDone, PopCopy, PopForgets, PopLeave,
     PopLogin, PopRename, PopUnlink, Reread, Rset, Lockers, TypePc, InNew, local,
     Chooses, WriteLine
<1>4. CASE (\E i \in 1..Len(page[s]) : MailRead(s, i)) \/
          (\E i \in 1..Len(page[s]) : MailMark(s, i)) \/
          (\E i \in 1..Len(page[s]) : MailDel(s, i)) \/
          (\E i \in 1..Len(page[s]) : MailDelFails(s, i)) \/
          (\E i \in 1..Len(page[s]) : Dele(s, i))
  BY <1>4, <1>0, <1>00 DEF Chooses, Dele, Goto, MailDel, MailDelFails, MailMark,
     MailRead, Redraw, Substitute, WriteLine, Lockers, TypePc, InNew, local,
     Chooses, WriteLine
<1>5. ASSUME NEW i1 \in 1..(Len(page[s]) + 1), NEW i2 \in 1..(Len(page[s]) + 1), RangeCopy(s, i1, i2)
      PROVE  TmpGone(s)'
  <2>1. /\ tmpfile'.recs = DeleteRange(dir, i1, i2) /\ overtaken' = overtaken
        /\ asked' = asked \cup {dir[i].file : i \in Cut(i1, i2)}
        /\ ~astray' => Swapping = {}
        /\ noted' = noted /\ pc[s] = "idle" /\ pc'[s] = "swap"
    BY <1>5, <1>0 DEF RangeCopy, local, Goto, TypePc
  <2>2. Len(page[s]) \in Nat
    BY <1>0, LenProperties DEF TypePage
  <2>3. Takes(dir, DeleteRange(dir, i1, i2), (1..Len(dir)) \ Cut(i1, i2))
    BY <1>0, <2>2, RangeTakes
  <2> SUFFICES ASSUME Clean', NEW n \in Going' \cap Listed(tmpfile'.recs) PROVE Pending(n)'
    BY DEF TmpGone
  <2>4. Clean /\ ~astray' /\ halfway' = {} /\ Swapping = {}
    BY <1>02, <2>1 DEF Clean
  <2>5. PICK j \in (1..Len(dir)) \ Cut(i1, i2) : dir[j].file = n
    BY <2>1, <2>3 DEF Takes
  <2>6. ASSUME NEW i \in Cut(i1, i2) PROVE dir[i].file # n
    <3>1. i \in 1..Len(dir) /\ Distinct(dir)
      BY <1>0, <2>4 DEF Cut, DirUnique, Clean
    <3> QED
      BY <2>5, <3>1 DEF Distinct
  <2>7. n \in Going \cap Listed(dir)
    BY <2>1, <2>5, <2>6 DEF Going, Listed
  <2>8. Pending(n)
    BY <1>01, <2>4, <2>7
  <2> QED
    BY <2>1, <2>4, <2>8, StillPending
<1>6. CASE NewCopy(s)
  <2> DEFINE e == noted[s][NextNoted(noted[s])]
  <2>1. /\ tmpfile'.recs = DeleteRecord(dir, e.ent) /\ overtaken' = overtaken
        /\ ~astray' => Swapping = {} /\ ~Missed(e.ent, e.file)
        /\ noted[s] # <<>> /\ noted' = noted /\ asked' = asked
        /\ pc[s] = "newdel" /\ pc'[s] = "newswap"
    BY <1>6, <1>0 DEF NewCopy, history, local, Goto, TypePc
  <2>2. /\ e.ent \in Nat \ {0} /\ noted[s][Len(noted[s])] = e
        /\ Len(noted[s]) \in Nat
    BY <1>0, <2>1, LastNoted
  <2>3. dir \in Seq(Header) /\ Len(dir) \in Nat
    BY <1>0, LenProperties DEF TypeIndex
  <2> HIDE DEF e
  <2>4. ASSUME ~astray'
        PROVE  /\ e.ent \in 1..Len(dir) /\ dir[e.ent].file = e.file
               /\ Takes(dir, tmpfile'.recs, (1..Len(dir)) \ {e.ent})
    <3>1. e.ent \in 1..Len(dir) /\ dir[e.ent].file = e.file
      BY <2>1, <2>2, <2>3, <2>4 DEF Missed
    <3>2. DeleteRecord(dir, e.ent) = DropRecord(dir, e.ent)
      BY <2>3, <3>1 DEF DeleteRecord
    <3> QED
      BY <2>1, <2>3, <3>1, <3>2, DropTakes
  <2> SUFFICES ASSUME Clean', NEW n \in Going' \cap Listed(tmpfile'.recs) PROVE Pending(n)'
    BY DEF TmpGone
  <2>5. Clean /\ ~astray' /\ Swapping = {}
    BY <1>02, <2>1 DEF Clean
  <2>6. PICK j \in (1..Len(dir)) \ {e.ent} : dir[j].file = n
    BY <2>4, <2>5 DEF Takes
  <2>7. n # e.file
    BY <1>0, <2>4, <2>5, <2>6 DEF DirUnique, Clean, Distinct
  <2>8. n \in Going \cap Listed(dir)
    BY <2>1, <2>6 DEF Going, Listed
  <2>9. PICK q \in Session : NotedBy(q, n)
    BY <1>01, <2>5, <2>8 DEF Pending
  <2>10. CASE q = s
    <3>1. PICK k \in 1..Len(noted[s]) : noted[s][k].file = n
      BY <2>9, <2>10 DEF NotedBy
    <3>2. k # Len(noted[s])
      BY <2>2, <2>7, <3>1
    <3>3. NotedBy(s, n)'
      BY <2>1, <3>1, <3>2 DEF NotedBy
    <3> QED
      BY <3>3 DEF Pending
  <2>11. CASE q # s
    <3>1. pc'[q] = pc[q]
      BY <2>11, Elsewhere
    <3>2. NotedBy(q, n)'
      BY <2>1, <2>9, <3>1 DEF NotedBy
    <3> QED
      BY <3>2 DEF Pending
  <2> QED
    BY <2>10, <2>11
<1>7. CASE SwapAway(s)
  <2>1. /\ tmpfile' = tmpfile /\ asked' = asked /\ overtaken' = overtaken
        /\ pc[s] \in Lockers /\ pc[s] # "newdel"
    BY <1>7 DEF SwapAway, side, Lockers
  <2> SUFFICES ASSUME Clean', NEW n \in Going' \cap Listed(tmpfile'.recs) PROVE Pending(n)'
    BY DEF TmpGone
  <2>2. Pending(n)
    BY <1>0, <1>02, <2>1 DEF TmpGone, Going
  <2> QED
    BY <2>1, <2>2, StillPending DEF Clean
<1> QED
  BY <1>1, <1>2, <1>3, <1>4, <1>5, <1>6, <1>7 DEF Act

LEMMA OwnPopGone ==
  ASSUME Typed, Known, Unique, Gone, NEW s \in Session, Act(s)
  PROVE  PopGone(s)'
<1>0. /\ TypePc /\ TypePage /\ TypeDele /\ TypeNoted /\ TypeCopies /\ TypeIndex /\ TypeWork
      /\ dir' \in Seq(Header) /\ asked \subseteq asked' /\ overtaken \subseteq overtaken'
      /\ (astray => astray') /\ halfway \subseteq halfway'
      /\ DirUnique /\ DirGone /\ TmpGone(s) /\ PopGone(s)
  BY StepIndex, Grows, Strays, Marks DEF Typed, TypeIndex, Known, Unique, Gone
<1>00. ASSUME pc'[s] \notin PopAt PROVE PopGone(s)'
  BY <1>00 DEF PopGone
<1>01. ASSUME Swapping = {}, Clean, NEW n \in Going \cap Listed(dir) PROVE Pending(n)
  <2>1. \A q \in Session : pc[q] \notin InAt
    BY <1>01 DEF Swapping, InAt, InSwap
  <2> QED
    BY <1>0, <1>01, <2>1 DEF DirGone
<1>02. Clean' => Clean
  BY <1>0 DEF Clean
<1>1. CASE SendOpen(s) \/ SendAbort(s) \/ SendDeliver(s) \/ OpenBox(s) \/ LeaveBox(s)
          \/ MailUnlink(s) \/ RangeRefused(s) \/ SwapAway(s)
  BY <1>1, <1>0, <1>00 DEF Goto, LeaveBox, MailUnlink, OpenBox, RangeRefused,
     Reread, SendAbort, SendDeliver, SendOpen, SwapAway, PopAt, TypePc, InNew,
     local, Chooses, WriteLine
<1>2. CASE SwapFails(s) \/ SwapIn(s) \/ NewStart(s) \/ NewNext(s) \/ NewLast(s) \/
          NewRead(s) \/ NewKeep(s) \/ NewUnlink(s)
  BY <1>2, <1>0, <1>00 DEF Goto, NewKeep, NewLast, NewNext, NewRead, NewStart,
     NewUnlink, Substitute, SwapDone, SwapFails, SwapIn, PopAt, TypePc, InNew,
     local, Chooses, WriteLine
<1>3. CASE NewCopy(s) \/ NewRefused(s) \/ NewDone(s) \/ PopLogin(s) \/ Rset(s) \/
          PopLeave(s) \/ PopRename(s) \/ Hangup(s)
  BY <1>3, <1>0, <1>00 DEF CopyRefused, Goto, Hangup, NewCopy, NewDone, NewRefused,
     PopForgets, PopLeave, PopLogin, PopRename, Reread, Rset, PopAt, TypePc, InNew,
     local, Chooses, WriteLine
<1>4. CASE (\E i \in 1..Len(page[s]) : MailRead(s, i)) \/
          (\E i \in 1..Len(page[s]) : MailMark(s, i)) \/
          (\E i \in 1..Len(page[s]) : MailDel(s, i)) \/
          (\E i \in 1..Len(page[s]) : MailDelFails(s, i)) \/
          (\E i \in 1..Len(page[s]) : Dele(s, i)) \/
          (\E i1 \in 1..(Len(page[s]) + 1), i2 \in 1..(Len(page[s]) + 1) : RangeCopy(s, i1, i2))
  BY <1>4, <1>0, <1>00 DEF Chooses, Dele, Goto, MailDel, MailDelFails, MailMark,
     MailRead, RangeCopy, Redraw, Substitute, WriteLine, PopAt, TypePc, InNew,
     local, Chooses, WriteLine
<1>5. CASE PopCopy(s)
  <2> DEFINE keep == Without(dir, dele[s])
  <2>1. /\ popdir'.recs = Overwrite(popdir.recs, keep) /\ overtaken' = overtaken
        /\ asked' = asked \cup {page[s][i].file : i \in dele[s]}
        /\ ~astray' => Swapping = {} /\ ~(Len(popdir.recs) > Len(keep))
        /\ ~astray' => \A i \in dele[s] : ~Missed(i, page[s][i].file)
        /\ noted' = noted /\ pc[s] = "pop" /\ pc'[s] = "popswap"
    BY <1>5, <1>0 DEF PopCopy, Goto, TypePc
  <2>2. keep \in Seq(Header) /\ popdir.recs \in Seq(Header)
    BY <1>0, WithoutProperties DEF TypeIndex, TypeCopies
  <2>3. Takes(dir, keep, {i \in 1..Len(dir) : i \notin dele[s]})
    BY <1>0, WithoutTakes DEF TypeIndex
  <2> HIDE DEF keep
  <2>4. ASSUME ~astray' PROVE popdir'.recs = keep
    <3>1. Len(keep) \in Nat /\ Len(popdir.recs) \in Nat
      BY <2>2, LenProperties
    <3>2. Len(popdir.recs) <= Len(keep)
      BY <2>1, <2>4, <3>1
    <3> QED
      BY <2>1, <2>2, <3>2, OverwriteType
  <2> SUFFICES ASSUME Clean', NEW n \in Going' \cap Listed(popdir'.recs) PROVE Pending(n)'
    BY DEF PopGone
  <2>5. Clean /\ ~astray' /\ halfway' = {} /\ Swapping = {}
    BY <1>02, <2>1 DEF Clean
  <2>6. PICK j \in 1..Len(dir) : j \notin dele[s] /\ dir[j].file = n
    BY <2>3, <2>4, <2>5 DEF Takes
  <2>7. ASSUME NEW i \in dele[s] PROVE page[s][i].file # n
    <3>1. i \in Nat \ {0} /\ Len(dir) \in Nat
      <4>1. dele[s] \subseteq 1..Len(page[s]) /\ Len(page[s]) \in Nat
        BY <1>0, LenProperties DEF TypeDele, TypePage
      <4> QED
        BY <1>0, <4>1, LenProperties DEF TypeIndex
    <3>2. i \in 1..Len(dir) /\ dir[i].file = page[s][i].file
      BY <2>1, <2>5, <3>1 DEF Missed
    <3>3. Distinct(dir)
      BY <1>0, <2>5 DEF DirUnique, Clean
    <3> QED
      BY <2>6, <3>2, <3>3 DEF Distinct
  <2>8. n \in Going \cap Listed(dir)
    BY <2>1, <2>6, <2>7 DEF Going, Listed
  <2>9. Pending(n)
    BY <1>01, <2>5, <2>8
  <2> QED
    BY <2>1, <2>5, <2>9, StillPending
<1>6. CASE PopUnlink(s)
  <2>1. /\ popdir' = popdir /\ asked' = asked /\ overtaken' = overtaken
        /\ pc[s] \in PopAt /\ pc[s] # "newdel"
    BY <1>6 DEF PopUnlink, side, PopAt
  <2> SUFFICES ASSUME Clean', NEW n \in Going' \cap Listed(popdir'.recs) PROVE Pending(n)'
    BY DEF PopGone
  <2>2. Pending(n)
    BY <1>0, <1>02, <2>1 DEF PopGone, Going
  <2> QED
    BY <2>1, <2>2, StillPending DEF Clean
<1> QED
  BY <1>1, <1>2, <1>3, <1>4, <1>5, <1>6 DEF Act

LEMMA StepGone ==
  ASSUME Typed, Known, Stays, Unique, Gone, [Next]_vars
  PROVE  Gone'
<1>1. ASSUME NEW s \in Session, Step(s) PROVE Gone'
  <2>1. Act(s)
    BY <1>1, StepActs
  <2>2. TextGone' /\ DirGone' /\ TmpGone(s)' /\ PopGone(s)'
    BY <1>1, <2>1, StepTextGone, StepDirGone, OwnTmpGone, OwnPopGone DEF Gone, Next
  <2>3. ASSUME NEW q \in Session \ {s}, Clean', pc'[q] \in Lockers \cup PopAt,
               NEW n \in Going'
        PROVE  /\ pc[q] = pc'[q] /\ Clean /\ (Pending(n) => Pending(n)')
               /\ n \in Going \/ Pending(n)'
    <3>1. pc'[q] = pc[q]
      BY <2>1, Elsewhere
    <3>2. Clean /\ n \in asked' /\ n \notin overtaken' /\ n \notin overtaken
      BY <2>1, <2>3, Strays, Marks DEF Clean, Going
    <3>3. Swapping # {}
      BY <2>3, <3>1 DEF Swapping, Lockers, PopAt, InSwap
    <3>4. ~(pc[s] = "newdel" /\ pc'[s] = "newswap")
      BY <2>1, <2>3, <3>3, SwapStarts DEF Clean, InSwap
    <3>5. Pending(n) => Pending(n)'
      BY <2>1, <2>3, <3>4, StillPending DEF Clean
    <3>6. n \in Going \/ Pending(n)'
      BY <2>1, <2>3, <3>2, <3>3, AskedHow DEF Clean, Going, Pending
    <3> QED
      BY <3>1, <3>2, <3>5, <3>6
  <2>4. ASSUME NEW q \in Session \ {s} PROVE TmpGone(q)' /\ PopGone(q)'
    <3>1. TmpGone(q) /\ PopGone(q)
      BY DEF Gone
    <3>2. /\ pc[q] \in Lockers => tmpfile' = tmpfile
          /\ ~astray' /\ pc[q] \in PopAt => popdir' = popdir
      BY <2>1, TmpElsewhere, PopElsewhere DEF Stays
    <3>3. TmpGone(q)'
      <4> SUFFICES ASSUME Clean', pc'[q] \in Lockers, NEW n \in Going' \cap Listed(tmpfile'.recs)
                   PROVE  Pending(n)'
        BY DEF TmpGone
      <4> QED
        BY <2>3, <3>1, <3>2 DEF TmpGone
    <3>4. PopGone(q)'
      <4> SUFFICES ASSUME Clean', pc'[q] \in PopAt, NEW n \in Going' \cap Listed(popdir'.recs)
                   PROVE  Pending(n)'
        BY DEF PopGone
      <4> QED
        BY <2>3, <3>1, <3>2 DEF PopGone, Clean
    <3> QED
      BY <3>3, <3>4
  <2> QED
    BY <2>2, <2>4 DEF Gone
<1>2. ASSUME UNCHANGED vars PROVE Gone'
  <2>1. TextGone'
    BY <1>2, StepTextGone DEF Gone
  <2>2. \A n : Pending(n) => Pending(n)'
    BY <1>2 DEF vars, local, Pending, NotedBy
  <2>3. DirGone'
    BY <1>2, <2>2 DEF vars, index, history, Gone, DirGone, Clean, Going
  <2>4. \A q \in Session : TmpGone(q)' /\ PopGone(q)'
    BY <1>2, <2>2 DEF vars, side, history, Gone, TmpGone, PopGone, Clean, Going
  <2> QED
    BY <2>1, <2>3, <2>4 DEF Gone
<1> QED
  BY <1>1, <1>2 DEF Next

LEMMA InitGone == Init => Unique /\ Gone
<1> SUFFICES ASSUME Init PROVE Unique /\ Gone
  OBVIOUS
<1>1. asked = {} /\ dir = InitBox /\ \A s \in Session : pc[s] = "idle"
  BY DEF Init
<1>2. Gone
  BY <1>1 DEF Gone, TextGone, DirGone, TmpGone, PopGone, Going
<1>3. Distinct(InitBox)
  BY MailboxAssumption DEF Distinct
<1>4. Unique
  BY <1>1, <1>3 DEF Unique, DirUnique, TmpUnique, PopUnique, Lockers, PopAt
<1> QED
  BY <1>2, <1>4

LEMMA GoneAlways ==
  Spec => [](Typed /\ Known /\ Stays /\ Unique /\ Gone /\ \A s \in Session : Means(s))
<1> DEFINE I == Typed /\ Known /\ Stays /\ Unique /\ Gone /\ \A s \in Session : Means(s)
<1>1. Init => I
  BY InitTyped, InitKnown, InitStays, InitGone, InitMeans
<1>2. I /\ [Next]_vars => I'
  <2> SUFFICES ASSUME I, [Next]_vars PROVE I'
    OBVIOUS
  <2>1. Typed' /\ Known'
    BY StepTyped, StepKnown
  <2>2. Stays' /\ Unique' /\ Gone'
    BY StepStays, StepUnique, StepGone
  <2>3. (\A s \in Session : Means(s))'
    BY StepMeans
  <2> QED
    BY <2>1, <2>2, <2>3
<1> QED
  BY <1>1, <1>2, PTL DEF Spec

LEMMA GoneComplete == Typed /\ Gone /\ (\A s \in Session : Means(s)) => DeletionComplete
<1> SUFFICES ASSUME Typed, Gone, \A s \in Session : Means(s), Quiet, ~astray, halfway = {}
             PROVE  (asked \ overtaken) \cap (Listed(dir) \cup files) = {}
  BY DEF DeletionComplete
<1>1. Clean
  BY DEF Clean
<1>2. \A s \in Session : pc[s] \notin InAt /\ pc[s] # "unlink" /\ noted[s] = <<>>
  BY DEF Quiet, InAt, Means, Place, InMNew, InNew
<1>3. \A n : ~Pending(n)
  BY <1>2, EmptySeq DEF Pending, NotedBy
<1>4. Going \cap Listed(dir) = {}
  BY <1>1, <1>2, <1>3 DEF Gone, DirGone
<1>5. Going \cap files = {}
  BY <1>1, <1>2 DEF Gone, TextGone
<1> QED
  BY <1>4, <1>5 DEF Going

(* When nobody is in the middle of anything, every deletion that was asked    *)
(* for, was not refused or broken off and met no other on its way in, has    *)
(* taken the header and the text, and no copy brought either back.           *)
THEOREM DeletionCompleteAlways == Spec => []DeletionComplete
BY GoneAlways, GoneComplete, PTL

=============================================================================
