---------------------------- MODULE RecordProofs -----------------------------
(***************************************************************************)
(* What the operations of record.c do to an index, for every index, record  *)
(* number and name.                                                         *)
(***************************************************************************)
EXTENDS RecordFile, Integers, SequenceTheorems, FiniteSetTheorems,
        WellFoundedInduction, TLAPS

(* Among the positions of a name there is a first one.                      *)
LEMMA FirstPositionExists ==
  ASSUME NEW S \in SUBSET Nat, S # {}
  PROVE  \E i \in S : \A j \in S : i <= j
<1>1. \E i \in S : \A j \in S : ~ (<<j, i>> \in OpToRel(<, Nat))
  BY WFMin, NatLessThanWellFounded
<1>2. PICK i \in S : \A j \in S : ~ (<<j, i>> \in OpToRel(<, Nat))
  BY <1>1
<1>3. \A j \in S : ~(j < i)
  BY <1>2, Zenon DEF OpToRel
<1>4. \A j \in S : i <= j
  BY <1>3
<1> QED
  BY <1>4

(* search_record finds the first record that cmpfilename accepts, or none.  *)
LEMMA SearchRecordFinds ==
  ASSUME NEW R, NEW f \in Seq(R), NEW name
  PROVE  /\ SearchRecord(f, name) \in 0..Len(f)
         /\ Positions(f, name) # {} => SearchRecord(f, name) \in Positions(f, name)
<1>1. CASE Positions(f, name) = {}
  BY <1>1, LenProperties DEF SearchRecord
<1>2. CASE Positions(f, name) # {}
  <2>1. Positions(f, name) \in SUBSET Nat
    BY LenProperties DEF Positions
  <2>2. \E i \in Positions(f, name) : \A j \in Positions(f, name) : i <= j
    BY <1>2, <2>1, FirstPositionExists
  <2>3. SearchRecord(f, name) \in Positions(f, name)
    BY <1>2, <2>2 DEF SearchRecord
  <2> QED
    BY <1>2, <2>3, LenProperties DEF Positions
<1> QED
  BY <1>1, <1>2

(* Where update_file and delete_file act, when a record with the name is    *)
(* there at all, is a record with that name.                                *)
LEMMA LocateFinds ==
  ASSUME NEW R, NEW f \in Seq(R), NEW name, NEW ent, Positions(f, name) # {}
  PROVE  Locate(f, ent, name) \in Positions(f, name)
BY SearchRecordFinds DEF Locate

(* Dropping a record leaves an index that is one shorter, the records       *)
(* before it in place and the later ones one down.                          *)
LEMMA DropRecordProperties ==
  ASSUME NEW R, NEW f \in Seq(R), NEW k \in 1..Len(f)
  PROVE  /\ DropRecord(f, k) \in Seq(R)
         /\ Len(DropRecord(f, k)) = Len(f) - 1
         /\ \A i \in 1..(Len(f) - 1) :
              DropRecord(f, k)[i] = IF i < k THEN f[i] ELSE f[i + 1]
<1> DEFINE s == SubSeq(f, 1, k - 1)
           t == SubSeq(f, k + 1, Len(f))
<1>1. Len(f) \in Nat /\ \A i \in 1..Len(f) : f[i] \in R
  BY LenProperties, ElementOfSeq
<1>2. /\ s \in Seq(R) /\ Len(s) = k - 1
      /\ \A i \in 1..(k - 1) : s[i] = f[i]
  <2>1. 1 \in Int /\ k - 1 \in Int /\ \A i \in 1..(k - 1) : f[i] \in R
    BY <1>1
  <2>2. /\ s \in Seq(R) /\ Len(s) = IF 1 <= k - 1 THEN (k - 1) - 1 + 1 ELSE 0
        /\ \A i \in 1..((k - 1) - 1 + 1) : s[i] = f[1 + i - 1]
    BY <2>1, SubSeqProperties
  <2> QED
    BY <1>1, <2>2
<1>3. /\ t \in Seq(R) /\ Len(t) = Len(f) - k
      /\ \A i \in 1..(Len(f) - k) : t[i] = f[k + i]
  <2>1. k + 1 \in Int /\ Len(f) \in Int /\ \A i \in (k + 1)..Len(f) : f[i] \in R
    BY <1>1
  <2>2. /\ t \in Seq(R)
        /\ Len(t) = IF k + 1 <= Len(f) THEN Len(f) - (k + 1) + 1 ELSE 0
        /\ \A i \in 1..(Len(f) - (k + 1) + 1) : t[i] = f[(k + 1) + i - 1]
    BY <2>1, SubSeqProperties
  <2> QED
    BY <1>1, <2>2
<1> HIDE DEF s, t
<1>4. /\ s \o t \in Seq(R) /\ Len(s \o t) = Len(s) + Len(t)
      /\ \A i \in 1..(Len(s) + Len(t)) :
           (s \o t)[i] = IF i <= Len(s) THEN s[i] ELSE t[i - Len(s)]
  BY <1>2, <1>3, ConcatProperties
<1>5. DropRecord(f, k) = s \o t
  BY DEF DropRecord, s, t
<1>6. ASSUME NEW i \in 1..(Len(f) - 1)
      PROVE  (s \o t)[i] = IF i < k THEN f[i] ELSE f[i + 1]
  <2>1. i \in 1..(Len(s) + Len(t))
    BY <1>1, <1>2, <1>3
  <2>2. CASE i < k
    <3>1. i \in 1..(k - 1) /\ i <= Len(s)
      BY <1>1, <1>2, <2>2
    <3> QED
      BY <1>2, <1>4, <2>1, <2>2, <3>1
  <2>3. CASE ~(i < k)
    <3>1. /\ ~(i <= Len(s)) /\ i - Len(s) \in 1..(Len(f) - k)
          /\ k + (i - Len(s)) = i + 1
      BY <1>1, <1>2, <2>3
    <3>2. (s \o t)[i] = t[i - Len(s)]
      BY <1>4, <2>1, <3>1
    <3>3. t[i - Len(s)] = f[k + (i - Len(s))]
      BY <1>3, <3>1
    <3> QED
      BY <2>3, <3>1, <3>2, <3>3
  <2> QED
    BY <2>2, <2>3
<1>7. Len(s) + Len(t) = Len(f) - 1
  BY <1>1, <1>2, <1>3
<1> QED
  BY <1>4, <1>5, <1>6, <1>7

LEMMA DroppedEntryIn ==
  ASSUME NEW R, NEW f \in Seq(R), NEW ent \in Nat, NEW name, Positions(f, name) # {}
  PROVE  DroppedEntry(f, ent, name) \in 1..Len(f)
<1>1. Locate(f, ent, name) \in Positions(f, name)
  BY LocateFinds
<1>2. Locate(f, ent, name) \in 1..Len(f) /\ Len(f) \in Nat
  BY <1>1, LenProperties DEF Positions
<1> QED
  BY <1>2 DEF DroppedEntry

(* delete_file leaves the index alone when no record has the name, and      *)
(* otherwise takes out exactly one record, and none of the others changes.  *)
THEOREM DeleteFileTakesOne ==
  ASSUME NEW R, NEW f \in Seq(R), NEW ent \in Nat, NEW name
  PROVE  /\ DeleteFile(f, ent, name) \in Seq(R)
         /\ Positions(f, name) = {} => DeleteFile(f, ent, name) = f
         /\ Positions(f, name) # {} =>
              \E k \in 1..Len(f) :
                /\ k = DroppedEntry(f, ent, name)
                /\ Len(DeleteFile(f, ent, name)) = Len(f) - 1
                /\ \A i \in 1..(Len(f) - 1) :
                     DeleteFile(f, ent, name)[i] = IF i < k THEN f[i] ELSE f[i + 1]
<1>1. CASE Positions(f, name) = {}
  BY <1>1 DEF DeleteFile
<1>2. CASE Positions(f, name) # {}
  <2>1. DroppedEntry(f, ent, name) \in 1..Len(f)
    BY <1>2, DroppedEntryIn
  <2>2. DeleteFile(f, ent, name) = DropRecord(f, DroppedEntry(f, ent, name))
    BY <1>2 DEF DeleteFile
  <2> QED
    BY <1>2, <2>1, <2>2, DropRecordProperties
<1> QED
  BY <1>1, <1>2

(* delete_file takes out the article that was meant when its record number  *)
(* is still right; this is the case its callers rely on.                    *)
THEOREM DeleteFileHitsWhenAligned ==
  ASSUME NEW R, NEW f \in Seq(R), NEW name, NEW ent \in Positions(f, name)
  PROVE  /\ Len(DeleteFile(f, ent, name)) = Len(f) - 1
         /\ \A i \in 1..(Len(f) - 1) :
              DeleteFile(f, ent, name)[i] = IF i < ent THEN f[i] ELSE f[i + 1]
<1>1. ent \in 1..Len(f) /\ ent \in Nat
  BY LenProperties DEF Positions
<1>2. DroppedEntry(f, ent, name) = ent /\ Positions(f, name) # {}
  BY DEF DroppedEntry, Locate
<1>3. DeleteFile(f, ent, name) = DropRecord(f, ent)
  BY <1>2 DEF DeleteFile
<1> QED
  BY <1>1, <1>3, DropRecordProperties

(* substitute_record: the record lands at its number, the others stay, and  *)
(* the file grows only when the number is beyond its end.                   *)
LEMMA SubstituteRecordProperties ==
  ASSUME NEW R, NEW f \in Seq(R), NEW rec \in R, NEW zero \in R,
         NEW ent \in Nat \ {0}
  PROVE  /\ SubstituteRecord(f, rec, ent, zero) \in Seq(R)
         /\ ent <= Len(f) => Len(SubstituteRecord(f, rec, ent, zero)) = Len(f)
         /\ \A i \in 1..Len(f) : SubstituteRecord(f, rec, ent, zero)[i] =
                                   IF i = ent THEN rec ELSE f[i]
<1> DEFINE n == IF ent > Len(f) THEN ent ELSE Len(f)
           e(i) == IF i = ent THEN rec ELSE IF i <= Len(f) THEN f[i] ELSE zero
<1>1. Len(f) \in Nat /\ \A i \in 1..Len(f) : f[i] \in R
  BY LenProperties, ElementOfSeq
<1>2. n \in Nat /\ Len(f) <= n /\ (ent <= Len(f) => n = Len(f))
  BY <1>1
<1>3. SubstituteRecord(f, rec, ent, zero) = [i \in 1..n |-> e(i)]
  BY DEF SubstituteRecord
<1>4. [i \in 1..n |-> e(i)] \in [1..n -> R]
  BY <1>1
<1>5. SubstituteRecord(f, rec, ent, zero) \in Seq(R)
  BY <1>2, <1>3, <1>4, SeqDef
<1>6. Len(SubstituteRecord(f, rec, ent, zero)) = n
  <2>1. DOMAIN SubstituteRecord(f, rec, ent, zero) = 1..n
    BY <1>3
  <2>2. /\ DOMAIN SubstituteRecord(f, rec, ent, zero) =
             1..Len(SubstituteRecord(f, rec, ent, zero))
        /\ Len(SubstituteRecord(f, rec, ent, zero)) \in Nat
    BY <1>5, LenProperties
  <2> QED
    BY <1>2, <2>1, <2>2
<1>7. ASSUME NEW i \in 1..Len(f)
      PROVE  SubstituteRecord(f, rec, ent, zero)[i] = IF i = ent THEN rec ELSE f[i]
  <2>1. i \in 1..n /\ i <= Len(f)
    BY <1>1, <1>2
  <2> QED
    BY <1>3, <2>1
<1> QED
  BY <1>2, <1>5, <1>6, <1>7

(* The numbers in K have the places 1, 2, ... in the copy, in their order.   *)
LEMMA PlacesInCopy ==
  ASSUME NEW n \in Nat, NEW K \in SUBSET (1..n)
  PROVE  /\ Cardinality(K) \in Nat
         /\ \A i \in K : PlaceIn(K, i) \in 1..Cardinality(K)
         /\ \A i, j \in K : i < j <=> PlaceIn(K, i) < PlaceIn(K, j)
         /\ \A i, j \in K : PlaceIn(K, i) = PlaceIn(K, j) => i = j
         /\ \A k \in 1..Cardinality(K) : \E i \in K : PlaceIn(K, i) = k
<1> DEFINE Upto(i) == {j \in K : j <= i}
<1>1. IsFiniteSet(K) /\ Cardinality(K) \in Nat
  <2>1. IsFiniteSet(1..n)
    BY FS_Interval
  <2> QED
    BY <2>1, FS_Subset, FS_CardinalityType
<1>2. ASSUME NEW i \in K
      PROVE  /\ IsFiniteSet(Upto(i)) /\ PlaceIn(K, i) = Cardinality(Upto(i))
             /\ PlaceIn(K, i) \in 1..Cardinality(K)
  <2>1. Upto(i) \in SUBSET K /\ Upto(i) # {}
    OBVIOUS
  <2>2. IsFiniteSet(Upto(i)) /\ Cardinality(Upto(i)) <= Cardinality(K)
    BY <1>1, <2>1, FS_Subset
  <2>3. Cardinality(Upto(i)) \in Nat /\ Cardinality(Upto(i)) # 0
    BY <2>1, <2>2, FS_CardinalityType, FS_EmptySet
  <2> QED
    BY <1>1, <2>2, <2>3 DEF PlaceIn
<1>3. ASSUME NEW i \in K, NEW j \in K, i < j
      PROVE  PlaceIn(K, i) < PlaceIn(K, j)
  <2>0. \A k \in K : k \in Int
    OBVIOUS
  <2>1. Upto(i) \subseteq Upto(j)
    <3> SUFFICES ASSUME NEW k \in K, k <= i PROVE k <= j
      OBVIOUS
    <3> QED
      BY <1>3, <2>0
  <2>3. j \in Upto(j) /\ j \notin Upto(i)
    BY <1>3, <2>0
  <2>2. Cardinality(Upto(i)) <= Cardinality(Upto(j)) /\ Cardinality(Upto(i)) # Cardinality(Upto(j))
    BY <1>2, <2>1, <2>3, FS_Subset
  <2> QED
    BY <1>2, <2>2
<1> HIDE DEF Upto
<1>5. ASSUME NEW i \in K, NEW j \in K, PlaceIn(K, i) = PlaceIn(K, j)
      PROVE  i = j
  <2>1. ~(i < j) /\ ~(j < i)
    BY <1>2, <1>3, <1>5
  <2> QED
    BY <2>1
<1>6. ASSUME NEW i \in K, NEW j \in K, PlaceIn(K, i) < PlaceIn(K, j)
      PROVE  i < j
  <2>1. i \in Int /\ j \in Int
    OBVIOUS
  <2>2. PlaceIn(K, i) \in Int /\ PlaceIn(K, j) \in Int
    BY <1>1, <1>2
  <2>3. ~(j < i) /\ i # j
    BY <1>3, <1>6, <2>2
  <2> QED
    BY <2>1, <2>3
<1>4. ASSUME NEW k \in 1..Cardinality(K)
      PROVE  \E i \in K : PlaceIn(K, i) = k
  <2> DEFINE p == [i \in K |-> PlaceIn(K, i)]
             T == 1..Cardinality(K)
  <2>1. p \in [K -> T] /\ \A i, j \in K : p[i] = p[j] => i = j
    BY <1>2, <1>5
  <2>2. p \in Injection(K, T)
    BY <2>1 DEF Injection, IsInjective
  <2>3. IsFiniteSet(T) /\ Cardinality(T) = Cardinality(K)
    BY <1>1, FS_Interval
  <2>4. p \in Surjection(K, T)
    BY <2>2, <2>3, FS_Injection
  <2> QED
    BY <2>4 DEF Surjection
<1> QED
  BY <1>1, <1>2, <1>3, <1>4, <1>5, <1>6

(* The copy has the records with numbers in K and no other, each once and in  *)
(* their order.                                                             *)
LEMMA OnlyProperties ==
  ASSUME NEW R, NEW f \in Seq(R), NEW K \in SUBSET (1..Len(f)), NEW g, g = Only(f, K)
  PROVE  /\ g \in Seq(R) /\ Len(g) = Cardinality(K)
         /\ \E m \in [1..Len(g) -> K] :
              /\ \A k \in 1..Len(g) : g[k] = f[m[k]]
              /\ \A k, l \in 1..Len(g) : k < l => m[k] < m[l]
              /\ \A i \in K : \E k \in 1..Len(g) : m[k] = i
<1> DEFINE n == Cardinality(K)
           At(k) == CHOOSE i \in K : PlaceIn(K, i) = k
           m == [k \in 1..n |-> At(k)]
<1>1. Len(f) \in Nat /\ \A i \in 1..Len(f) : f[i] \in R
  BY LenProperties, ElementOfSeq
<1>2. /\ n \in Nat
      /\ \A i \in K : PlaceIn(K, i) \in 1..n
      /\ \A i, j \in K : i < j <=> PlaceIn(K, i) < PlaceIn(K, j)
      /\ \A i, j \in K : PlaceIn(K, i) = PlaceIn(K, j) => i = j
      /\ \A k \in 1..n : \E i \in K : PlaceIn(K, i) = k
  BY <1>1, PlacesInCopy
<1> HIDE DEF n
<1>3. \A k \in 1..n : At(k) \in K /\ PlaceIn(K, At(k)) = k
  BY <1>2
<1>4. g = [k \in 1..n |-> f[At(k)]]
  BY DEF Only, n
<1>5. \A k \in 1..n : f[At(k)] \in R
  BY <1>1, <1>3
<1> HIDE DEF At
<1>6. g \in Seq(R) /\ Len(g) = n
  BY <1>2, <1>4, <1>5
<1>7. m \in [1..n -> K] /\ \A k \in 1..n : g[k] = f[m[k]] /\ PlaceIn(K, m[k]) = k
  BY <1>3, <1>4
<1> HIDE DEF m
<1>8. ASSUME NEW k \in 1..n, NEW l \in 1..n, k < l PROVE m[k] < m[l]
  <2>1. m[k] \in K /\ m[l] \in K /\ PlaceIn(K, m[k]) = k /\ PlaceIn(K, m[l]) = l
    BY <1>7
  <2> QED
    BY <1>2, <1>8, <2>1
<1>9. ASSUME NEW i \in K PROVE \E k \in 1..n : m[k] = i
  <2>1. PlaceIn(K, i) \in 1..n
    BY <1>2
  <2>2. m[PlaceIn(K, i)] \in K /\ PlaceIn(K, m[PlaceIn(K, i)]) = PlaceIn(K, i)
    BY <1>7, <2>1
  <2> QED
    BY <1>2, <2>1, <2>2
<1>10. Len(g) = Cardinality(K)
  BY <1>6 DEF n
<1>11. \A k \in 1..Len(g) : g[k] = f[m[k]]
  BY <1>6, <1>7
<1>12. \A k, l \in 1..Len(g) : k < l => m[k] < m[l]
  BY <1>6, <1>8
<1>13. \A i \in K : \E k \in 1..Len(g) : m[k] = i
  BY <1>6, <1>9
<1>14. m \in [1..Len(g) -> K]
  BY <1>6, <1>7
<1> QED
  BY <1>6, <1>10, <1>11, <1>12, <1>13, <1>14

(* delete_range: what is left are the records outside the range and those     *)
(* that are marked, each once and in their order.                           *)
THEOREM DeleteRangeKeepsRest ==
  ASSUME NEW R, NEW f \in Seq(R), NEW id1, NEW id2
  PROVE  /\ DeleteRange(f, id1, id2) \in Seq(R)
         /\ \E m \in [1..Len(DeleteRange(f, id1, id2)) -> 1..Len(f)] :
              /\ \A k \in 1..Len(DeleteRange(f, id1, id2)) :
                   /\ DeleteRange(f, id1, id2)[k] = f[m[k]]
                   /\ m[k] < id1 \/ id2 < m[k] \/ f[m[k]].marked
              /\ \A k, l \in 1..Len(DeleteRange(f, id1, id2)) : k < l => m[k] < m[l]
              /\ \A i \in 1..Len(f) : i < id1 \/ id2 < i \/ f[i].marked =>
                   \E k \in 1..Len(DeleteRange(f, id1, id2)) : m[k] = i
<1> DEFINE K == {i \in 1..Len(f) : i < id1 \/ id2 < i \/ f[i].marked}
           g == DeleteRange(f, id1, id2)
<1>1. g = Only(f, K) /\ K \in SUBSET (1..Len(f))
  BY DEF DeleteRange, IsMarked
<1>2. \A i \in 1..Len(f) : i \in K <=> (i < id1 \/ id2 < i \/ f[i].marked)
  OBVIOUS
<1> HIDE DEF K, g
<1>3. g \in Seq(R)
  BY <1>1, OnlyProperties
<1>4. PICK m \in [1..Len(g) -> K] :
           /\ \A k \in 1..Len(g) : g[k] = f[m[k]]
           /\ \A k, l \in 1..Len(g) : k < l => m[k] < m[l]
           /\ \A i \in K : \E k \in 1..Len(g) : m[k] = i
  BY <1>1, OnlyProperties
<1>5. m \in [1..Len(g) -> 1..Len(f)] /\ \A k \in 1..Len(g) : m[k] \in K
  BY <1>1, <1>4
<1>6. \A k \in 1..Len(g) : m[k] < id1 \/ id2 < m[k] \/ f[m[k]].marked
  BY <1>2, <1>5
<1>7. \A i \in 1..Len(f) : i < id1 \/ id2 < i \/ f[i].marked =>
        \E k \in 1..Len(g) : m[k] = i
  BY <1>2, <1>4
<1>8. /\ g \in Seq(R)
      /\ \E n \in [1..Len(g) -> 1..Len(f)] :
           /\ \A k \in 1..Len(g) : /\ g[k] = f[n[k]]
                                   /\ n[k] < id1 \/ id2 < n[k] \/ f[n[k]].marked
           /\ \A k, l \in 1..Len(g) : k < l => n[k] < n[l]
           /\ \A i \in 1..Len(f) : i < id1 \/ id2 < i \/ f[i].marked =>
                \E k \in 1..Len(g) : n[k] = i
  <2>1. \A k \in 1..Len(g) : g[k] = f[m[k]] /\ (m[k] < id1 \/ id2 < m[k] \/ f[m[k]].marked)
    BY <1>4, <1>6
  <2>2. \A k, l \in 1..Len(g) : k < l => m[k] < m[l]
    BY <1>4
  <2> QED
    BY <1>3, <1>5, <1>7, <2>1, <2>2
<1> QED
  BY <1>8, Zenon DEF g

(* What is marked when a range is deleted is in what is left.                *)
LEMMA DeleteRangeKeepsMarked ==
  ASSUME NEW R, NEW f \in Seq(R), NEW id1, NEW id2
  PROVE  \A i \in 1..Len(f) : f[i].marked =>
           \E k \in 1..Len(DeleteRange(f, id1, id2)) : DeleteRange(f, id1, id2)[k] = f[i]
<1> DEFINE K == {i \in 1..Len(f) : i < id1 \/ id2 < i \/ f[i].marked}
           g == DeleteRange(f, id1, id2)
<1>1. g = Only(f, K) /\ K \in SUBSET (1..Len(f))
  BY DEF DeleteRange, IsMarked
<1>2. \A i \in 1..Len(f) : f[i].marked => i \in K
  OBVIOUS
<1> HIDE DEF K, g
<1>3. PICK m \in [1..Len(g) -> K] :
           /\ \A k \in 1..Len(g) : g[k] = f[m[k]]
           /\ \A i \in K : \E k \in 1..Len(g) : m[k] = i
  BY <1>1, OnlyProperties
<1>4. \A i \in 1..Len(f) : f[i].marked => \E k \in 1..Len(g) : g[k] = f[i]
  BY <1>2, <1>3
<1> QED
  BY <1>4 DEF g

(* A deletion adds nothing: every record of what is left was there before.   *)
LEMMA DropRecordFrom ==
  ASSUME NEW R, NEW f \in Seq(R), NEW n \in 1..Len(f)
  PROVE  \A k \in 1..Len(DropRecord(f, n)) : \E j \in 1..Len(f) : DropRecord(f, n)[k] = f[j]
<1>1. /\ Len(DropRecord(f, n)) = Len(f) - 1 /\ Len(f) \in Nat
      /\ \A k \in 1..(Len(f) - 1) : DropRecord(f, n)[k] = IF k < n THEN f[k] ELSE f[k + 1]
  BY DropRecordProperties, LenProperties
<1>2. ASSUME NEW k \in 1..(Len(f) - 1)
      PROVE  \E j \in 1..Len(f) : DropRecord(f, n)[k] = f[j]
  <2>1. k \in 1..Len(f) /\ k + 1 \in 1..Len(f)
    BY <1>1
  <2> QED
    BY <1>1, <2>1
<1> QED
  BY <1>1, <1>2

LEMMA DeleteFileFrom ==
  ASSUME NEW R, NEW f \in Seq(R), NEW i \in Nat, NEW name
  PROVE  \A k \in 1..Len(DeleteFile(f, i, name)) :
           \E j \in 1..Len(f) : DeleteFile(f, i, name)[k] = f[j]
<1>1. CASE Positions(f, name) = {}
  BY <1>1 DEF DeleteFile
<1>2. CASE Positions(f, name) # {}
  <2>1. DroppedEntry(f, i, name) \in 1..Len(f)
    BY <1>2, DroppedEntryIn
  <2>2. DeleteFile(f, i, name) = DropRecord(f, DroppedEntry(f, i, name))
    BY <1>2 DEF DeleteFile
  <2> QED
    BY <2>1, <2>2, DropRecordFrom
<1> QED
  BY <1>1, <1>2

LEMMA OnlyFrom ==
  ASSUME NEW R, NEW f \in Seq(R), NEW K \in SUBSET (1..Len(f)), NEW g, g = Only(f, K)
  PROVE  \A k \in 1..Len(g) : \E j \in 1..Len(f) : g[k] = f[j]
<1> DEFINE At(k) == CHOOSE i \in K : PlaceIn(K, i) = k
<1>1. /\ Len(f) \in Nat /\ Cardinality(K) \in Nat
      /\ \A k \in 1..Cardinality(K) : \E i \in K : PlaceIn(K, i) = k
  BY LenProperties, PlacesInCopy
<1>2. \A k \in 1..Cardinality(K) : At(k) \in K
  BY <1>1
<1>3. g = [k \in 1..Cardinality(K) |-> f[At(k)]]
  BY DEF Only
<1> HIDE DEF At
<1>4. Len(g) = Cardinality(K)
  BY OnlyProperties
<1>5. ASSUME NEW k \in 1..Cardinality(K) PROVE \E j \in 1..Len(f) : g[k] = f[j]
  <2>1. At(k) \in 1..Len(f) /\ g[k] = f[At(k)]
    BY <1>2, <1>3
  <2> QED
    BY <2>1
<1> QED
  BY <1>4, <1>5

LEMMA DeleteRangeFrom ==
  ASSUME NEW R, NEW f \in Seq(R), NEW id1, NEW id2
  PROVE  \A k \in 1..Len(DeleteRange(f, id1, id2)) :
           \E j \in 1..Len(f) : DeleteRange(f, id1, id2)[k] = f[j]
<1> DEFINE K == {i \in 1..Len(f) : i < id1 \/ id2 < i \/ f[i].marked}
           g == DeleteRange(f, id1, id2)
<1>1. g = Only(f, K) /\ K \in SUBSET (1..Len(f))
  BY DEF DeleteRange, IsMarked
<1> HIDE DEF K, g
<1>2. \A k \in 1..Len(g) : \E j \in 1..Len(f) : g[k] = f[j]
  BY <1>1, OnlyFrom
<1> QED
  BY <1>2 DEF g
=============================================================================
