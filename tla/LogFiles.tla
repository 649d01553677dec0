------------------------------- MODULE LogFiles -------------------------------
(***************************************************************************)
(* The data the storage engine keeps on disk: log records, the positions   *)
(* that name them, and data files (src/record/log_record.rs,               *)
(* src/record/data_file.rs).                                               *)
(*                                                                         *)
(* A file is the sequence of the records appended to it together with its  *)
(* length in size units.  A position names a record by its ordinal in the  *)
(* file: the code uses the byte offset of the record, and within one file  *)
(* the two determine each other.  The bytes of a record (header, CRC, key, *)
(* value) are abstracted to its encoded length.                            *)
(***************************************************************************)
EXTENDS Naturals, Sequences

CONSTANTS
  Keys,       \* the (non-empty) keys clients use
  Values,     \* the values clients store
  Deleted,    \* the payload of a tombstone (LogRecordType::Deleted)
  Nil,        \* no position, no request
  Size,       \* encoded length of a record, by payload
  MaxFileId   \* BOUND: the largest data file id

ASSUME DataAssumption ==
  /\ Deleted \notin Values
  /\ Size \in [Values \cup {Deleted} -> Nat \ {0}]
  /\ MaxFileId \in Nat

FileIds == 0 .. MaxFileId

\* LogRecord: val = Deleted stands for rec_type = Deleted with an empty value.
Record == [key : Keys, val : Values \cup {Deleted}]

\* LogRecordPos; its size field is Size of the record it names.
Position == [file : FileIds, off : Nat \ {0}]

ASSUME NilAssumption == Nil \notin Position

\* DataFile: the appended records and the write offset.
File == [recs : Seq(Record), size : Nat]

EmptyFile == [recs |-> <<>>, size |-> 0]

Pos(f, i) == [file |-> f, off |-> i]

\* DataFile::write of one encoded record at the end of the file.
Write(file, r) == [recs |-> Append(file.recs, r), size |-> file.size + Size[r.val]]

\* Mutants: the offset of the previous record, and of the one after the next.
PreviousOffset(file) == Len(file.recs)
OffsetAfterWrite(file) == Len(file.recs) + 2

\* The offset at which the next record of the file goes.
WriteOffset(file) == Len(file.recs) + 1
===============================================================================
