------------------------------- MODULE DataFile -------------------------------
(***************************************************************************)
(* One data file below the level of records: src/record/data_file.rs with  *)
(* dbio.rs and the encoding of log_record.rs, the handle's write offset    *)
(* against the bytes of the file, and the replay of the file at start-up.  *)
(*                                                                         *)
(* A record is a row of cells, the first of which are its header; cells of *)
(* different records differ, which is what the CRC is for.  write_all may  *)
(* reach the file in pieces; the process may be killed between two of them *)
(* or the device may refuse the rest.                                      *)
(***************************************************************************)
EXTENDS Naturals, Sequences

CONSTANTS
  Records, \* the records to write, each once
  Header,  \* cells of a header
  Size,    \* cells of each record, header included
  None,    \* no record, no position
  MaxKills \* BOUND: kills of the process

ASSUME FileAssumption ==
  /\ Header \in Nat \ {0}
  /\ Size \in [Records -> Nat]
  /\ \A r \in Records : Size[r] > Header
  /\ None \notin Records \cup Nat
  /\ {"eof", "corrupt"} \cap Records = {}
  /\ MaxKills \in Nat

VARIABLES
  bytes,   \* the cells of the file
  status,  \* "closed", "loading", "open" or "failed" (start-up fails)
  offset,  \* the offset of the handle
  loadOff, \* offset of the replay
  writing, \* the record write_all is working on, or None
  done,    \* cells of it that reached the file
  found,   \* per record: the offset the engine's index has for it, or None
  used,    \* history: the records given to write
  acked,   \* history: the records whose write succeeded
  tears,   \* history: the ends of the writes that were cut short
  short,   \* history: has a write been cut short since start-up?
  kills    \* counter that bounds the model

handleVars == <<offset, loadOff, writing, done, found>>
historyVars == <<used, acked, tears, short>>
vars == <<bytes, status, handleVars, historyVars, kills>>

Cell == [rec : Records, at : Nat]

\* encode: the cells of a record.
Encode(r) == [i \in 1 .. Size[r] |-> [rec |-> r, at |-> i]]

NotFound == [r \in Records |-> None]

Init ==
  /\ bytes = <<>>
  /\ status = "closed"
  /\ offset = 0 /\ loadOff = 0
  /\ writing = None /\ done = 0
  /\ found = NotFound
  /\ used = {} /\ acked = {} /\ tears = {} /\ short = FALSE
  /\ kills = 0

-------------------------------------------------------------------------------
(***************************************************************************)
(* read_log_record.                                                        *)
(***************************************************************************)

\* The cells from..to of r are in the file, r's first cell being at o + 1.
Matches(r, o, from, to) == \A i \in from .. to : bytes[o + i] = Encode(r)[i]

\* Mutant: a record that is cut short counts as corrupt.
StrictRead(o) ==
  IF o + Header > Len(bytes) THEN {IF o = Len(bytes) THEN "eof" ELSE "corrupt"}
  ELSE LET heads == {r \in Records : Matches(r, o, 1, Header)} IN
    IF heads = {} THEN {"eof", "corrupt"}
    ELSE {IF o + Size[r] > Len(bytes) \/ ~Matches(r, o, Header + 1, Size[r])
          THEN "corrupt" ELSE r : r \in heads}

\* What reading at offset o may return.  A header made of pieces gives sizes
\* and a type that mean nothing: the body ends behind the file, or the CRC is
\* wrong, or from_u8 panics.
ReadRecord(o) ==
  IF o + Header > Len(bytes) THEN {"eof"}
  ELSE LET heads == {r \in Records : Matches(r, o, 1, Header)} IN
    IF heads = {} THEN {"eof", "corrupt"}
    ELSE {IF o + Size[r] > Len(bytes) THEN "eof"
          ELSE IF Matches(r, o, Header + 1, Size[r]) THEN r
          ELSE "corrupt" : r \in heads}

-------------------------------------------------------------------------------
(***************************************************************************)
(* Start-up: DataFile::new and the replay of the file.                     *)
(***************************************************************************)
Open ==
  /\ status = "closed"
  /\ status' = "loading"
  /\ offset' = Len(bytes)
  /\ loadOff' = 0
  /\ short' = FALSE
  /\ UNCHANGED <<bytes, writing, done, found, used, acked, tears, kills>>

LoadRecord ==
  /\ status = "loading"
  /\ \E r \in ReadRecord(loadOff) \cap Records :
       /\ found' = [found EXCEPT ![r] = loadOff]
       /\ loadOff' = loadOff + Size[r]
  /\ UNCHANGED <<bytes, status, offset, writing, done, historyVars, kills>>

\* UnexpectedEof ends the file; any other error, or a panic, ends start-up.
LoadEnd ==
  /\ status = "loading"
  /\ \/ "eof" \in ReadRecord(loadOff) /\ status' = "open"
     \/ "corrupt" \in ReadRecord(loadOff) /\ status' = "failed"
  /\ UNCHANGED <<bytes, handleVars, historyVars, kills>>

-------------------------------------------------------------------------------
(***************************************************************************)
(* write.                                                                  *)
(***************************************************************************)
BeginWrite ==
  /\ status = "open"
  /\ writing = None
  /\ \E r \in Records \ used :
       /\ writing' = r
       /\ used' = used \cup {r}
  /\ done' = 0
  /\ UNCHANGED <<bytes, status, offset, loadOff, found, acked, tears, short, kills>>

\* Mutant: every turn of the loop hands over the whole buffer.
WriteWhole ==
  /\ writing # None
  /\ done < Size[writing]
  /\ \E n \in 1 .. Size[writing] :
       /\ bytes' = bytes \o SubSeq(Encode(writing), 1, n)
       /\ done' = done + n
  /\ UNCHANGED <<status, offset, loadOff, writing, found, historyVars, kills>>

\* One turn of write_all's loop: some more cells reach the file.
WriteSome ==
  /\ writing # None
  /\ \E n \in 1 .. Size[writing] :
       /\ done + n <= Size[writing]
       /\ bytes' = bytes \o SubSeq(Encode(writing), done + 1, done + n)
       /\ done' = done + n
  /\ UNCHANGED <<status, offset, loadOff, writing, found, historyVars, kills>>

\* Mutant: the offset after the record is returned.
EndWriteLate ==
  /\ writing # None
  /\ done = Size[writing]
  /\ offset' = offset + Size[writing]
  /\ found' = [found EXCEPT ![writing] = offset + Size[writing]]
  /\ acked' = acked \cup {writing}
  /\ writing' = None /\ done' = 0
  /\ UNCHANGED <<bytes, status, loadOff, used, tears, short, kills>>

\* The offset before the record is returned, and goes into the index.
EndWrite ==
  /\ writing # None
  /\ done = Size[writing]
  /\ offset' = offset + Size[writing]
  /\ found' = [found EXCEPT ![writing] = offset]
  /\ acked' = acked \cup {writing}
  /\ writing' = None /\ done' = 0
  /\ UNCHANGED <<bytes, status, loadOff, used, tears, short, kills>>

\* Some but not all cells of the record have reached the file.
CutShort == writing # None /\ done > 0 /\ done < Size[writing]

Tears == IF CutShort THEN tears \cup {Len(bytes)} ELSE tears

\* write_all returns an error: `?` leaves the offset where it is.
WriteFails ==
  /\ writing # None
  /\ done < Size[writing]
  /\ writing' = None /\ done' = 0
  /\ tears' = Tears
  /\ short' = (short \/ CutShort)
  /\ UNCHANGED <<bytes, status, offset, loadOff, found, used, acked, kills>>

Kill ==
  /\ status \in {"loading", "open"}
  /\ kills < MaxKills
  /\ kills' = kills + 1
  /\ status' = "closed"
  /\ tears' = Tears
  /\ offset' = 0 /\ loadOff' = 0
  /\ writing' = None /\ done' = 0
  /\ found' = NotFound
  /\ UNCHANGED <<bytes, used, acked, short>>

Finished ==
  /\ \/ status = "failed"
     \/ status = "open" /\ writing = None /\ used = Records
  /\ UNCHANGED vars

Next ==
  \/ Open \/ LoadRecord \/ LoadEnd
  \/ BeginWrite \/ WriteSome \/ EndWrite \/ WriteFails
  \/ Kill
  \/ Finished

Spec == Init /\ [][Next]_vars

-------------------------------------------------------------------------------
TypeOK ==
  /\ bytes \in Seq(Cell)
  /\ status \in {"closed", "loading", "open", "failed"}
  /\ offset \in Nat /\ loadOff \in Nat
  /\ writing \in Records \cup {None}
  /\ done \in Nat
  /\ writing = None => done = 0
  /\ writing # None => done <= Size[writing]
  /\ found \in [Records -> Nat \cup {None}]
  /\ used \in SUBSET Records /\ acked \in SUBSET used
  /\ tears \in SUBSET Nat /\ short \in BOOLEAN
  /\ kills \in Nat

\* Reading where the index says returns the record that was written there,
\* also after restarts on a file with torn records in it; a write that the
\* device cuts short spoils this until the next start.
ReadBack ==
  ~short => \A r \in Records : found[r] # None => ReadRecord(found[r]) = {r}

Recovered == status' = "open" /\ \A r \in acked : found'[r] # None

\* A restart finds every record whose write succeeded, if nothing was written
\* behind a record that was cut short: one torn record at the end is harmless.
RecoversTail ==
  [][status = "loading" /\ status' \in {"open", "failed"} /\ tears \subseteq {Len(bytes)}
       => Recovered]_vars

\* The same whatever was cut short and written since.
RecoversAcked == [][status = "loading" /\ status' \in {"open", "failed"} => Recovered]_vars
===============================================================================
