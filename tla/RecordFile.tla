----------------------------- MODULE RecordFile -----------------------------
(***************************************************************************)
(* The index files of the BBS (.DIR, .DIGEST ...) as sequences of records   *)
(* with a field "file", and the operations of record.c on them.  A record   *)
(* file is a sequence; record number ent of the code is index ent here.     *)
(* The comparison of every caller of update_file and delete_file is         *)
(* cmpfilename, so a record is looked for by its file name.                 *)
(*                                                                         *)
(* append_record, substitute_record, update_file and delete_file hold flock *)
(* on the file, so each is one atomic change of it; delete_record and        *)
(* delete_range copy the file under another lock, and the modules that use   *)
(* them split them in steps.                                                *)
(***************************************************************************)
EXTENDS Naturals, Sequences, FiniteSets

(* Seeded fault: append at the position of the last record.                 *)
AppendOverLast(f, rec) == IF f = <<>> THEN <<rec>> ELSE [f EXCEPT ![Len(f)] = rec]

(* append_record: lock, seek to the end, write.                             *)
AppendRecord(f, rec) == Append(f, rec)

(* Seeded fault: seek to record ent counted from 0.                         *)
SubstituteFromZero(f, rec, ent, zero) ==
  [i \in 1..(IF ent + 1 > Len(f) THEN ent + 1 ELSE Len(f)) |->
     IF i = ent + 1 THEN rec ELSE f[i]]

(* substitute_record: a blind write at ent; beyond the end of the file the  *)
(* system fills the gap with zeroes, which read back as the record "zero".  *)
SubstituteRecord(f, rec, ent, zero) ==
  [i \in 1..(IF ent > Len(f) THEN ent ELSE Len(f)) |->
     IF i = ent THEN rec ELSE IF i <= Len(f) THEN f[i] ELSE zero]

(* The positions of the records that cmpfilename accepts.                   *)
Positions(f, name) == {i \in 1..Len(f) : f[i].file = name}

(* search_record: the first of them, or 0.                                  *)
SearchRecord(f, name) ==
  IF Positions(f, name) = {} THEN 0
  ELSE CHOOSE i \in Positions(f, name) : \A j \in Positions(f, name) : i <= j

(* Where update_file and delete_file find their record: at ent when it still *)
(* is the one that is meant, else at the first that is; 0 when none is.     *)
Locate(f, ent, name) ==
  IF ent \in Positions(f, name) THEN ent ELSE SearchRecord(f, name)

(* Seeded fault: the file offset is not moved back before the write.        *)
UpdateWithoutRewind(f, ent, name, rec) ==
  SubstituteRecord(f, rec, Locate(f, ent, name) + 1, rec)

(* update_file: rewrite the located record in place, as rec.                *)
UpdateFile(f, ent, name, rec) ==
  [i \in 1..Len(f) |-> IF i = Locate(f, ent, name) THEN rec ELSE f[i]]

(* Drop record number ent, moving the later ones down.                      *)
DropRecord(f, ent) == SubSeq(f, 1, ent - 1) \o SubSeq(f, ent + 1, Len(f))

(* delete_record: the copy that is put in place has no record number ent.    *)
DeleteRecord(f, ent) == IF ent <= Len(f) THEN DropRecord(f, ent) ELSE f

(* Seeded fault: the arithmetic of the scan used for the record at ent too. *)
DroppedAlwaysNext(f, ent, name) ==
  LET k == Locate(f, ent, name) IN IF k = Len(f) THEN k ELSE k + 1

(* delete_file: the record at ent is dropped when it is the one meant.      *)
(* When it has moved the file is scanned, and the copying loop of the scan  *)
(* counts records from 1 while it seeks from 0: it drops the successor of   *)
(* the record it found, and the found record only when that one is last.    *)
DroppedEntry(f, ent, name) ==
  LET k == Locate(f, ent, name)
  IN IF k = ent \/ k = Len(f) THEN k ELSE k + 1

DeleteFile(f, ent, name) ==
  IF Positions(f, name) = {} THEN f
  ELSE DropRecord(f, DroppedEntry(f, ent, name))

(* The records with numbers in K, in their order.                           *)
PlaceIn(K, i) == Cardinality({j \in K : j <= i})
Only(f, K) == [k \in 1..Cardinality(K) |-> f[CHOOSE i \in K : PlaceIn(K, i) = k]]

(* Seeded fault: FILE_MARKED is not looked at.                              *)
NoneMarked(rec) == FALSE

(* delete_range: records id1..id2 go, except the ones marked for keeping.   *)
IsMarked(rec) == rec.marked

DeleteRange(f, id1, id2) ==
  Only(f, {i \in 1..Len(f) : i < id1 \/ id2 < i \/ IsMarked(f[i])})
=============================================================================
