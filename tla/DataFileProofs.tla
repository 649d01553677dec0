---------------------------- MODULE DataFileProofs ----------------------------
(***************************************************************************)
(* Proofs about the data file, for any records, sizes and number of kills: *)
(* until a write is cut short the handle's offset is the end of the file,  *)
(* whatever earlier runs of the program have left in it, so the index      *)
(* points at whole records; and until something is written behind a record *)
(* that was cut short, a restart finds every acknowledged one.             *)
(***************************************************************************)
EXTENDS DataFile, SequenceTheorems, TLAPS

\* The handle is where the next cell of the file goes; the cells of the record
\* being written so far are the last of the file.
HandleOK ==
  /\ status \in {"closed", "loading", "failed"} => writing = None
  /\ writing # None => writing \in used
  /\ status = "closed" => found = NotFound
  /\ status \in {"loading", "open"} /\ ~short => offset + done = Len(bytes)
  /\ ~short /\ writing # None => \A i \in 1 .. done : bytes[offset + i] = Encode(writing)[i]

\* The index points at whole records.
Whole(r, o) == o + Size[r] <= Len(bytes) /\ Matches(r, o, 1, Size[r])

FoundOK == ~short => \A r \in Records : found[r] # None => Whole(r, found[r])

FileInv == TypeOK /\ HandleOK /\ FoundOK

-------------------------------------------------------------------------------
\* The cells of a record.
LEMMA EncodeCells ==
  ASSUME NEW r \in Records
  PROVE  /\ Size[r] \in Nat /\ Size[r] > Header /\ Header \in Nat /\ Header > 0
         /\ Encode(r) \in Seq(Cell) /\ Len(Encode(r)) = Size[r]
         /\ \A i \in 1 .. Size[r] : Encode(r)[i] = [rec |-> r, at |-> i]
<1>1. Size[r] \in Nat /\ Size[r] > Header /\ Header \in Nat /\ Header > 0
  BY FileAssumption
<1>2. \A i \in 1 .. Size[r] : [rec |-> r, at |-> i] \in Cell
  BY <1>1 DEF Cell
<1> QED
  BY <1>1, <1>2 DEF Encode

\* Where the elements of a concatenation come from.
LEMMA Concat ==
  ASSUME NEW S, NEW b \in Seq(S), NEW p \in Seq(S)
  PROVE  /\ b \o p \in Seq(S) /\ Len(b \o p) = Len(b) + Len(p)
         /\ \A i \in 1 .. Len(b) : (b \o p)[i] = b[i]
         /\ \A i \in 1 .. Len(p) : (b \o p)[Len(b) + i] = p[i]
OBVIOUS

\* b with n cells of r behind it that follow the first d.
Extended(b, r, d, n) == b \o SubSeq(Encode(r), d + 1, d + n)

\* Appending a piece of a record.
LEMMA AppendPiece ==
  ASSUME NEW r \in Records, NEW d \in Nat, NEW n \in Nat \ {0}, d + n <= Size[r],
         NEW b \in Seq(Cell)
  PROVE  /\ Extended(b, r, d, n) \in Seq(Cell)
         /\ Len(Extended(b, r, d, n)) = Len(b) + n
         /\ \A i \in 1 .. Len(b) : Extended(b, r, d, n)[i] = b[i]
         /\ \A i \in 1 .. n : Extended(b, r, d, n)[Len(b) + i] = Encode(r)[d + i]
<1> DEFINE p == SubSeq(Encode(r), d + 1, d + n)
<1>1. Encode(r) \in Seq(Cell) /\ Len(Encode(r)) = Size[r] /\ Size[r] \in Nat
  BY EncodeCells
<1>2. \A i \in d + 1 .. d + n : Encode(r)[i] \in Cell
  BY <1>1
<1>3. /\ p \in Seq(Cell) /\ Len(p) = n
      /\ \A i \in 1 .. (d + n) - (d + 1) + 1 : p[i] = Encode(r)[(d + 1) + i - 1]
  <2>1. d + 1 \in Int /\ d + n \in Int /\ d + 1 <= d + n /\ (d + n) - (d + 1) + 1 = n
    OBVIOUS
  <2>2. p \in Seq(Cell)
    BY <1>2, <2>1, SubSeqProperties
  <2>3. Len(p) = n
    BY <1>2, <2>1, SubSeqProperties
  <2>4. \A i \in 1 .. (d + n) - (d + 1) + 1 : p[i] = Encode(r)[(d + 1) + i - 1]
    BY <1>2, <2>1, SubSeqProperties
  <2> QED
    BY <2>2, <2>3, <2>4
<1>4. \A i \in 1 .. n : p[i] = Encode(r)[d + i]
  <2>1. ASSUME NEW i \in 1 .. n PROVE i \in 1 .. (d + n) - (d + 1) + 1 /\ (d + 1) + i - 1 = d + i
    OBVIOUS
  <2> HIDE DEF p
  <2> QED
    BY <1>3, <2>1
<1> HIDE DEF p
<1>5. Extended(b, r, d, n) = b \o p
  BY DEF p, Extended
<1>6. p \in Seq(Cell) /\ Len(p) = n
  BY <1>3
<1>7. /\ b \o p \in Seq(Cell) /\ Len(b \o p) = Len(b) + n
      /\ \A i \in 1 .. Len(b) : (b \o p)[i] = b[i]
      /\ \A i \in 1 .. n : (b \o p)[Len(b) + i] = p[i]
  <2>1. b \o p \in Seq(Cell) /\ Len(b \o p) = Len(b) + n
    BY <1>6, Concat
  <2>2. \A i \in 1 .. Len(b) : (b \o p)[i] = b[i]
    BY <1>6, Concat
  <2>3. \A i \in 1 .. n : (b \o p)[Len(b) + i] = p[i]
    BY <1>6, Concat
  <2> QED
    BY <2>1, <2>2, <2>3
<1>8. \A i \in 1 .. n : (b \o p)[Len(b) + i] = Encode(r)[d + i]
  BY <1>4, <1>7
<1> QED
  BY <1>5, <1>7, <1>8, Zenon

\* Reading where a whole record starts returns it and nothing else.
LEMMA ReadWhole ==
  ASSUME TypeOK, NEW r \in Records, NEW o \in Nat, Whole(r, o)
  PROVE  ReadRecord(o) = {r}
<1> DEFINE heads == {q \in Records : Matches(q, o, 1, Header)}
<1>1. /\ Header \in Nat /\ 1 \in 1 .. Header /\ Size[r] \in Nat /\ Header < Size[r]
      /\ Len(bytes) \in Nat /\ o + Size[r] <= Len(bytes)
  BY EncodeCells DEF TypeOK, Whole
<1>2. ~(o + Header > Len(bytes)) /\ ~(o + Size[r] > Len(bytes))
  BY <1>1
<1>3. Matches(r, o, 1, Header) /\ Matches(r, o, Header + 1, Size[r])
  BY <1>1 DEF Whole, Matches
<1>4. ASSUME NEW q \in heads PROVE q = r
  <2>1. bytes[o + 1] = Encode(q)[1] /\ bytes[o + 1] = Encode(r)[1]
    BY <1>1, <1>3 DEF Matches
  <2>2. Encode(q)[1] = [rec |-> q, at |-> 1] /\ Encode(r)[1] = [rec |-> r, at |-> 1]
    BY <1>1, EncodeCells
  <2>3. [rec |-> q, at |-> 1].rec = [rec |-> r, at |-> 1].rec
    BY <2>1, <2>2
  <2> QED
    BY <2>3
<1>5. heads = {r}
  BY <1>3, <1>4
<1> QED
  BY <1>2, <1>3, <1>5 DEF ReadRecord

\* A record that the replay has read is there as a whole.
LEMMA ReadIsWhole ==
  ASSUME TypeOK, NEW o \in Nat, NEW r \in ReadRecord(o) \cap Records
  PROVE  Whole(r, o)
<1> DEFINE heads == {q \in Records : Matches(q, o, 1, Header)}
<1>1. "eof" \notin Records /\ "corrupt" \notin Records
  BY FileAssumption
<1>2. ~(o + Header > Len(bytes)) /\ heads # {}
  BY <1>1 DEF ReadRecord
<1>3. r \in {IF o + Size[q] > Len(bytes) THEN "eof"
             ELSE IF Matches(q, o, Header + 1, Size[q]) THEN q
             ELSE "corrupt" : q \in heads}
  BY <1>2 DEF ReadRecord
<1>4. /\ r \in heads /\ ~(o + Size[r] > Len(bytes))
      /\ Matches(r, o, Header + 1, Size[r])
  BY <1>1, <1>3
<1>5. Size[r] \in Nat /\ Header \in Nat /\ Len(bytes) \in Nat
  BY EncodeCells DEF TypeOK
<1> QED
  BY <1>4, <1>5 DEF Whole, Matches

\* What is in the file stays where it is when cells are appended.
LEMMA WholeStays ==
  ASSUME NEW r \in Records, NEW o \in Nat, Whole(r, o), TypeOK, TypeOK', Len(bytes) <= Len(bytes'),
         \A i \in 1 .. Len(bytes) : bytes'[i] = bytes[i]
  PROVE  Whole(r, o)'
<1>1. Size[r] \in Nat /\ Len(bytes) \in Nat /\ Len(bytes') \in Nat
  BY EncodeCells DEF TypeOK
<1>2. \A i \in 1 .. Size[r] : o + i \in 1 .. Len(bytes)
  BY <1>1 DEF Whole
<1> QED
  BY <1>1, <1>2 DEF Whole, Matches

-------------------------------------------------------------------------------
\* The invariant holds on an empty file.
LEMMA InitFile == Init => FileInv
<1> SUFFICES ASSUME Init PROVE FileInv
  OBVIOUS
<1>1. TypeOK
  <2>1. bytes \in Seq(Cell)
    BY EmptySeq DEF Init
  <2> QED
    BY <2>1 DEF Init, TypeOK, NotFound
<1> QED
  BY <1>1 DEF Init, FileInv, HandleOK, FoundOK, NotFound

\* Start-up keeps it, and so do a kill and a write that fails.
LEMMA StartUpStep ==
  FileInv /\ (Open \/ LoadRecord \/ LoadEnd \/ WriteFails \/ Kill) => FileInv'
<1> SUFFICES ASSUME FileInv, Open \/ LoadRecord \/ LoadEnd \/ WriteFails \/ Kill PROVE FileInv'
  OBVIOUS
<1> USE DEF FileInv
<1>0. bytes' = bytes /\ bytes \in Seq(Cell) /\ Len(bytes) \in Nat
  BY DEF Open, LoadRecord, LoadEnd, WriteFails, Kill, TypeOK
<1>1. CASE Open
  <2>1. TypeOK'
    BY <1>0, <1>1 DEF Open, TypeOK
  <2>2. HandleOK' /\ FoundOK'
    BY <1>0, <1>1 DEF Open, HandleOK, FoundOK, NotFound, TypeOK
  <2> QED
    BY <2>1, <2>2
<1>2. CASE LoadRecord
  <2>1. PICK r \in ReadRecord(loadOff) \cap Records :
          found' = [found EXCEPT ![r] = loadOff] /\ loadOff' = loadOff + Size[r]
    BY <1>2 DEF LoadRecord
  <2>2. UNCHANGED <<bytes, status, offset, writing, done, historyVars, kills>> /\ status = "loading"
    BY <1>2 DEF LoadRecord
  <2>3. Size[r] \in Nat /\ loadOff \in Nat /\ Whole(r, loadOff)
    BY EncodeCells, ReadIsWhole DEF TypeOK
  <2>4. TypeOK'
    BY <2>1, <2>2, <2>3 DEF TypeOK, historyVars
  <2>5. HandleOK'
    BY <2>2 DEF HandleOK, historyVars
  <2>6. FoundOK'
    BY <2>1, <2>2, <2>3 DEF FoundOK, historyVars, Whole, Matches, TypeOK
  <2> QED
    BY <2>4, <2>5, <2>6
<1>3. CASE LoadEnd
  <2>1. UNCHANGED <<bytes, handleVars, historyVars, kills>> /\ status' \in {"open", "failed"}
        /\ status = "loading"
    BY <1>3 DEF LoadEnd
  <2>2. TypeOK'
    BY <2>1 DEF TypeOK, handleVars, historyVars
  <2>3. HandleOK' /\ FoundOK'
    BY <2>1 DEF HandleOK, FoundOK, Whole, Matches, handleVars, historyVars
  <2> QED
    BY <2>2, <2>3
<1>4. CASE WriteFails
  <2>1. TypeOK'
    BY <1>0, <1>4 DEF WriteFails, TypeOK, Tears
  <2>2. HandleOK' /\ FoundOK'
    <3>1. status = "open" /\ done \in Nat /\ offset \in Nat
      BY <1>4 DEF WriteFails, HandleOK, TypeOK
    <3>2. ~short' => ~short /\ done = 0
      <4>1. done # 0 => CutShort
        BY <1>4, <3>1 DEF WriteFails, CutShort
      <4> QED
        BY <1>4, <4>1, Zenon DEF WriteFails
    <3>3. UNCHANGED <<bytes, status, offset, found>> /\ writing' = None /\ done' = 0
      BY <1>4 DEF WriteFails
    <3>4. HandleOK'
      BY <3>1, <3>2, <3>3 DEF HandleOK
    <3>5. FoundOK'
      BY <3>2, <3>3 DEF FoundOK, Whole, Matches
    <3> QED
      BY <3>4, <3>5
  <2> QED
    BY <2>1, <2>2
<1>5. CASE Kill
  <2>1. TypeOK'
    <3>1. tears' \in SUBSET Nat /\ found' \in [Records -> Nat \cup {None}]
      BY <1>0, <1>5 DEF Kill, TypeOK, Tears, NotFound
    <3> QED
      BY <1>5, <3>1 DEF Kill, TypeOK
  <2>2. HandleOK' /\ FoundOK'
    BY <1>0, <1>5 DEF Kill, HandleOK, FoundOK, NotFound
  <2> QED
    BY <2>1, <2>2
<1> QED
  BY <1>1, <1>2, <1>3, <1>4, <1>5

\* The begin and the end of a write keep the invariant.
LEMMA WriteStep == FileInv /\ (BeginWrite \/ EndWrite) => FileInv'
<1> SUFFICES ASSUME FileInv, BeginWrite \/ EndWrite PROVE FileInv'
  OBVIOUS
<1> USE DEF FileInv
<1>1. CASE BeginWrite
  <2>1. PICK r \in Records \ used : writing' = r /\ used' = used \cup {r}
    BY <1>1 DEF BeginWrite
  <2>2. /\ UNCHANGED <<bytes, status, offset, loadOff, found, acked, tears, short, kills>>
        /\ done' = 0 /\ status = "open" /\ writing = None
    BY <1>1 DEF BeginWrite
  <2>3. Size[r] \in Nat /\ done = 0
    BY <2>2, EncodeCells DEF TypeOK
  <2>4. TypeOK'
    BY <2>1, <2>2, <2>3 DEF TypeOK
  <2>5. HandleOK' /\ FoundOK'
    BY <2>1, <2>2, <2>3 DEF HandleOK, FoundOK, Whole, Matches
  <2> QED
    BY <2>4, <2>5
<1>2. CASE EndWrite
  <2>1. /\ writing # None /\ done = Size[writing] /\ writing' = None /\ done' = 0
        /\ offset' = offset + Size[writing]
        /\ found' = [found EXCEPT ![writing] = offset] /\ acked' = acked \cup {writing}
        /\ UNCHANGED <<bytes, status, loadOff, used, tears, short, kills>>
    BY <1>2 DEF EndWrite
  <2>2. /\ writing \in Records /\ Size[writing] \in Nat /\ offset \in Nat
        /\ status \in {"closed", "loading", "open", "failed"}
    BY <2>1, EncodeCells DEF TypeOK
  <2>3. status = "open" /\ writing \in used
    BY <2>1, <2>2 DEF HandleOK
  <2>4. TypeOK'
    BY <2>1, <2>2, <2>3 DEF TypeOK
  <2>5. HandleOK'
    BY <2>1, <2>2, <2>3 DEF HandleOK
  <2>6. ASSUME ~short, NEW r \in Records, found'[r] # None PROVE Whole(r, found'[r])
    <3>1. CASE r = writing
      <4>1. found'[r] = offset /\ offset + Size[r] = Len(bytes)
        BY <2>1, <2>2, <2>3, <2>6, <3>1 DEF HandleOK, TypeOK
      <4>2. \A i \in 1 .. Size[r] : bytes[offset + i] = Encode(r)[i]
        BY <2>1, <2>6, <3>1 DEF HandleOK
      <4> QED
        BY <2>1, <2>2, <3>1, <4>1, <4>2 DEF Whole, Matches
    <3>2. CASE r # writing
      <4>1. found'[r] = found[r]
        BY <2>1, <3>2 DEF TypeOK
      <4> QED
        BY <2>1, <2>6, <4>1 DEF FoundOK, Whole, Matches
    <3> QED
      BY <3>1, <3>2
  <2>7. FoundOK'
    BY <2>1, <2>6 DEF FoundOK, Whole, Matches
  <2> QED
    BY <2>4, <2>5, <2>7
<1> QED
  BY <1>1, <1>2

\* What one turn of write_all adds to the file.
LEMMA WrittenPiece ==
  ASSUME TypeOK, WriteSome
  PROVE  \E n \in Nat \ {0} :
           /\ done' = done + n /\ done + n <= Size[writing]
           /\ bytes' \in Seq(Cell) /\ Len(bytes') = Len(bytes) + n
           /\ \A i \in 1 .. Len(bytes) : bytes'[i] = bytes[i]
           /\ \A i \in 1 .. n : bytes'[Len(bytes) + i] = Encode(writing)[done + i]
<1>1. PICK n \in 1 .. Size[writing] :
        /\ done + n <= Size[writing]
        /\ bytes' = bytes \o SubSeq(Encode(writing), done + 1, done + n)
        /\ done' = done + n
  BY DEF WriteSome
<1>2. writing \in Records /\ Size[writing] \in Nat /\ done \in Nat /\ bytes \in Seq(Cell)
  BY EncodeCells DEF WriteSome, TypeOK
<1>3. n \in Nat \ {0} /\ bytes' = Extended(bytes, writing, done, n)
  BY <1>1, <1>2 DEF Extended
<1> DEFINE e == Extended(bytes, writing, done, n)
<1>4. e \in Seq(Cell) /\ Len(e) = Len(bytes) + n
  BY <1>1, <1>2, <1>3, AppendPiece
<1>5. \A i \in 1 .. Len(bytes) : e[i] = bytes[i]
  BY <1>1, <1>2, <1>3, AppendPiece
<1>6. \A i \in 1 .. n : e[Len(bytes) + i] = Encode(writing)[done + i]
  BY <1>1, <1>2, <1>3, AppendPiece
<1> QED
  BY <1>1, <1>3, <1>4, <1>5, <1>6, Zenon

\* A piece of the record that reaches the file keeps the invariant.
LEMMA PieceStep == FileInv /\ WriteSome => FileInv'
<1> SUFFICES ASSUME FileInv, WriteSome PROVE FileInv'
  OBVIOUS
<1> USE DEF FileInv
<1>1. PICK n \in Nat \ {0} :
        /\ done' = done + n /\ done + n <= Size[writing]
        /\ bytes' \in Seq(Cell) /\ Len(bytes') = Len(bytes) + n
        /\ \A i \in 1 .. Len(bytes) : bytes'[i] = bytes[i]
        /\ \A i \in 1 .. n : bytes'[Len(bytes) + i] = Encode(writing)[done + i]
  BY WrittenPiece
<1>2. /\ UNCHANGED <<status, offset, loadOff, writing, found, historyVars, kills>>
      /\ writing \in Records /\ Size[writing] \in Nat /\ writing # None
  BY EncodeCells DEF WriteSome, TypeOK
<1>3. n \in Nat \ {0} /\ done \in Nat /\ offset \in Nat /\ bytes \in Seq(Cell) /\ Len(bytes) \in Nat
  BY <1>2 DEF TypeOK
<1>4. /\ bytes' \in Seq(Cell) /\ Len(bytes') = Len(bytes) + n
      /\ \A i \in 1 .. Len(bytes) : bytes'[i] = bytes[i]
      /\ \A i \in 1 .. n : bytes'[Len(bytes) + i] = Encode(writing)[done + i]
  BY <1>1
<1>5. TypeOK'
  <2>1. done' \in Nat /\ done' <= Size[writing]
    BY <1>1, <1>3
  <2> QED
    BY <1>2, <1>4, <2>1 DEF TypeOK, historyVars
<1>6. status = "open"
  BY <1>2 DEF HandleOK, TypeOK
<1>7. HandleOK'
  <2>1. ~short => offset + done' = Len(bytes')
    <3>1. ~short => offset + done = Len(bytes)
      BY <1>6 DEF HandleOK
    <3> QED
      <4>1. done' = done + n /\ Len(bytes') = Len(bytes) + n
        BY <1>1, <1>4
      <4> QED
        BY <1>3, <3>1, <4>1
  <2>2. ASSUME ~short, NEW i \in 1 .. done' PROVE bytes'[offset + i] = Encode(writing)[i]
    <3>1. CASE i \in 1 .. done
      <4>1. offset + i \in 1 .. Len(bytes)
        BY <1>3, <1>6, <2>2, <3>1 DEF HandleOK
      <4>2. bytes[offset + i] = Encode(writing)[i]
        BY <1>2, <2>2, <3>1 DEF HandleOK
      <4> QED
        BY <1>4, <4>1, <4>2
    <3>2. CASE i \notin 1 .. done
      <4>1. i \in Nat /\ i > done /\ i <= done + n
        BY <1>1, <1>3, <2>2, <3>2
      <4>2. offset + done = Len(bytes)
        BY <1>6, <2>2 DEF HandleOK
      <4>3. i - done \in 1 .. n /\ offset + i = Len(bytes) + (i - done) /\ done + (i - done) = i
        BY <1>3, <4>1, <4>2
      <4> QED
        BY <1>4, <4>3
    <3> QED
      BY <3>1, <3>2
  <2>3. writing \in used
    BY <1>2 DEF HandleOK
  <2> QED
    BY <1>2, <1>6, <2>1, <2>2, <2>3 DEF HandleOK, historyVars
<1>8. FoundOK'
  <2>1. ASSUME ~short, NEW r \in Records, found[r] # None PROVE Whole(r, found[r])'
    <3>1. found[r] \in Nat /\ Whole(r, found[r]) /\ found'[r] = found[r]
      BY <1>2, <2>1 DEF FoundOK, TypeOK
    <3>2. Len(bytes) <= Len(bytes')
      BY <1>3, <1>4
    <3>3. \A o \in Nat : Whole(r, o) => Whole(r, o)'
      BY <1>4, <1>5, <3>2, WholeStays
    <3>4. Size[r] \in Nat /\ Whole(r, found[r])
      BY <3>1, EncodeCells
    <3> QED
      BY <1>2, <3>1, <3>3 DEF Whole, Matches
  <2> QED
    BY <1>2, <2>1 DEF FoundOK, historyVars
<1> QED
  BY <1>5, <1>7, <1>8

\* The invariant is inductive.
LEMMA NextFile == FileInv /\ [Next]_vars => FileInv'
<1>1. ASSUME FileInv, UNCHANGED vars PROVE FileInv'
  BY <1>1 DEF vars, handleVars, historyVars, FileInv, TypeOK, HandleOK, FoundOK, Whole, Matches
<1> QED
  BY <1>1, StartUpStep, WriteStep, PieceStep DEF Next, Finished

\* The invariant holds in every reachable state.
LEMMA FileInvariant == Spec => []FileInv
BY InitFile, NextFile, PTL DEF Spec

-------------------------------------------------------------------------------
\* The variables of the data file keep their types.
THEOREM FileTypes == Spec => []TypeOK
<1>1. FileInv => TypeOK
  BY DEF FileInv
<1> QED
  BY <1>1, FileInvariant, PTL

\* Unless a write was cut short since start-up, reading where the index points
\* returns the record that was written there, whatever torn records earlier
\* runs left in the file.
THEOREM ReadsBack == Spec => []ReadBack
<1>1. FileInv => ReadBack
  <2> SUFFICES ASSUME FileInv, ~short, NEW r \in Records, found[r] # None
               PROVE ReadRecord(found[r]) = {r}
    BY DEF ReadBack
  <2>1. found[r] \in Nat /\ Whole(r, found[r])
    BY DEF FileInv, FoundOK, TypeOK
  <2> QED
    BY <2>1, ReadWhole DEF FileInv
<1> QED
  BY <1>1, FileInvariant, PTL

-------------------------------------------------------------------------------
(***************************************************************************)
(* A restart finds what was written (LayoutOK, ReplayOK).                  *)
(***************************************************************************)

\* The offsets at which the file may hold a record.
Offsets == 0 .. Len(bytes)

\* The start of the file, or the end of a whole record.
IsEnd(b) == b = 0 \/ \E r \in Records, o \in Offsets : Whole(r, o) /\ b = o + Size[r]

\* Whole records follow each other from the start of the file to top.
Chain(top) ==
  /\ IsEnd(top)
  /\ \A b \in Offsets : IsEnd(b) /\ b # top => \E r \in Records : Whole(r, b)
  /\ \A r \in Records : \A o \in Offsets : Whole(r, o) => o + Size[r] <= top

\* Behind top is nothing but the beginning of one record.
Rest(top) ==
  \/ top = Len(bytes)
  \/ \E p \in Records : /\ Len(bytes) < top + Size[p]
                        /\ \A i \in 1 .. Len(bytes) - top : bytes[top + i] = Encode(p)[i]

\* The cells of a record that is being written and not there as a whole.
Partial == IF writing # None /\ done < Size[writing] THEN done ELSE 0

\* If nothing was written behind a record that was cut short, the file is a row of
\* whole records, all acknowledged ones among them, and at most one torn record.
LayoutOK ==
  /\ \A e \in tears : e <= Len(bytes)
  /\ tears = {} => ~short /\ Chain(Len(bytes) - Partial)
  /\ tears = {Len(bytes)} => done = 0 /\ \E top \in Offsets : Chain(top) /\ Rest(top)
  /\ tears \subseteq {Len(bytes)} => \A r \in acked : \E o \in Offsets : Whole(r, o)

\* The replay has come to the end of a whole record and has found those before it.
ReplayOK ==
  status = "loading" /\ tears \subseteq {Len(bytes)} =>
    /\ IsEnd(loadOff)
    /\ \A r \in Records : \A o \in Offsets : Whole(r, o) /\ o < loadOff => found[r] # None

\* Whole records do not overlap.
LEMMA Apart ==
  ASSUME TypeOK, NEW r \in Records, NEW o \in Offsets, Whole(r, o),
         NEW x \in Records, NEW q \in Offsets, Whole(x, q), o <= q, q < o + Size[r]
  PROVE  x = r /\ q = o
<1>1. o \in Nat /\ q \in Nat /\ Size[r] \in Nat /\ Size[x] \in Nat /\ Size[x] > 0
  BY EncodeCells DEF Offsets, TypeOK
<1>2. PICK i \in 1 .. Size[r] : o + i = q + 1
  <2>1. q + 1 - o \in 1 .. Size[r] /\ o + (q + 1 - o) = q + 1
    BY <1>1
  <2> QED
    BY <2>1
<1>3. 1 \in 1 .. Size[x]
  BY <1>1
<1>4. bytes[q + 1] = Encode(x)[1] /\ bytes[q + 1] = Encode(r)[i]
  BY <1>2, <1>3 DEF Whole, Matches
<1>5. Encode(x)[1] = [rec |-> x, at |-> 1] /\ Encode(r)[i] = [rec |-> r, at |-> i]
  BY <1>2, <1>3, EncodeCells
<1>6. x = r /\ i = 1
  <2>1. /\ [rec |-> x, at |-> 1].rec = [rec |-> r, at |-> i].rec
        /\ [rec |-> x, at |-> 1].at = [rec |-> r, at |-> i].at
    BY <1>4, <1>5
  <2> QED
    BY <2>1
<1> QED
  BY <1>1, <1>2, <1>6

\* Behind the last whole record the replay meets the end of the file.
LEMMA ReadRest ==
  ASSUME TypeOK, NEW top \in Offsets, Rest(top)
  PROVE  ReadRecord(top) = {"eof"}
<1>1. Len(bytes) \in Nat /\ top \in Nat /\ top <= Len(bytes) /\ Header \in Nat \ {0}
  BY FileAssumption DEF Offsets, TypeOK
<1>2. CASE top + Header > Len(bytes)
  BY <1>2 DEF ReadRecord
<1>3. CASE ~(top + Header > Len(bytes))
  <2>1. PICK p \in Records : /\ Len(bytes) < top + Size[p]
                             /\ \A i \in 1 .. Len(bytes) - top : bytes[top + i] = Encode(p)[i]
    BY <1>1, <1>3 DEF Rest
  <2> DEFINE heads == {q \in Records : Matches(q, top, 1, Header)}
  <2>2. \A i \in 1 .. Header : bytes[top + i] = Encode(p)[i]
    <3>1. \A i \in 1 .. Header : i \in 1 .. Len(bytes) - top
      BY <1>1, <1>3
    <3> QED
      BY <2>1, <3>1
  <2>3. p \in heads
    BY <2>2 DEF Matches
  <2>4. ASSUME NEW q \in heads PROVE q = p
    <3>1. 1 \in 1 .. Header /\ 1 \in 1 .. Size[q] /\ 1 \in 1 .. Size[p]
      BY <1>1, EncodeCells
    <3>2. Encode(q)[1] = Encode(p)[1]
      BY <2>2, <3>1 DEF Matches
    <3>3. Encode(q)[1] = [rec |-> q, at |-> 1] /\ Encode(p)[1] = [rec |-> p, at |-> 1]
      BY <2>1, <3>1, EncodeCells
    <3>4. [rec |-> q, at |-> 1].rec = [rec |-> p, at |-> 1].rec
      BY <3>2, <3>3
    <3> QED
      BY <3>4
  <2>5. heads = {p}
    BY <2>3, <2>4
  <2>6. top + Size[p] > Len(bytes)
    BY <1>1, <2>1, EncodeCells
  <2> QED
    BY <1>3, <2>5, <2>6 DEF ReadRecord
<1> QED
  BY <1>2, <1>3

\* Everywhere else it meets the next record.
LEMMA ReadNext ==
  ASSUME TypeOK, NEW top, Chain(top), NEW b \in Offsets, IsEnd(b), b # top
  PROVE  \E r \in Records : Whole(r, b) /\ ReadRecord(b) = {r}
<1>1. PICK r \in Records : Whole(r, b)
  BY DEF Chain
<1>2. b \in Nat
  BY DEF Offsets, TypeOK
<1> QED
  BY <1>1, <1>2, ReadWhole

\* Ends are offsets.
LEMMA EndIsOffset ==
  ASSUME TypeOK, NEW b, IsEnd(b)
  PROVE  b \in Offsets
<1>1. Len(bytes) \in Nat
  BY DEF TypeOK
<1> QED
  BY <1>1, EncodeCells DEF IsEnd, Whole, Offsets

\* The layout is that of the cells.
LEMMA SameLayout ==
  ASSUME bytes' = bytes
  PROVE  /\ \A top : Chain(top)' <=> Chain(top)
         /\ \A top : Rest(top)' <=> Rest(top)
         /\ \A b : IsEnd(b)' <=> IsEnd(b)
         /\ \A r, o : Whole(r, o)' <=> Whole(r, o)
         /\ Offsets' = Offsets
<1>1. \A r, o : Whole(r, o)' <=> Whole(r, o)
  BY DEF Whole, Matches
<1>2. Offsets' = Offsets
  BY DEF Offsets
<1>3. \A b : IsEnd(b)' <=> IsEnd(b)
  BY <1>1, <1>2 DEF IsEnd
<1>4. \A top : Chain(top)' <=> Chain(top)
  BY <1>1, <1>2, <1>3 DEF Chain
<1>5. \A top : Rest(top)' <=> Rest(top)
  BY DEF Rest
<1> QED
  BY <1>1, <1>2, <1>3, <1>4, <1>5

\* As long as cells of a record are missing, what is there as a whole stays the
\* same; the last of them adds the record.
LEMMA PieceWhole ==
  ASSUME FileInv, WriteSome, TypeOK', ~short, NEW r \in Records, NEW o \in Nat
  PROVE  Whole(r, o)' <=> Whole(r, o) \/ (done' = Size[writing] /\ r = writing /\ o = offset)
<1> USE DEF FileInv
<1>1. PICK n \in Nat \ {0} :
        /\ done' = done + n /\ done + n <= Size[writing]
        /\ bytes' \in Seq(Cell) /\ Len(bytes') = Len(bytes) + n
        /\ \A i \in 1 .. Len(bytes) : bytes'[i] = bytes[i]
        /\ \A i \in 1 .. n : bytes'[Len(bytes) + i] = Encode(writing)[done + i]
  BY WrittenPiece
<1>2. /\ writing \in Records /\ Size[writing] \in Nat /\ writing # None /\ done \in Nat /\ offset \in Nat
      /\ Len(bytes) \in Nat /\ Size[r] \in Nat /\ Size[r] > 0
  BY EncodeCells DEF WriteSome, TypeOK
<1>3. offset + done = Len(bytes) /\ \A i \in 1 .. done : bytes[offset + i] = Encode(writing)[i]
  BY <1>2 DEF HandleOK, TypeOK
<1>4. ASSUME NEW i \in 1 .. done + n PROVE bytes'[offset + i] = Encode(writing)[i]
  <2>1. CASE i <= done
    <3>1. i \in 1 .. done /\ offset + i \in 1 .. Len(bytes)
      BY <1>2, <1>3, <2>1
    <3> QED
      BY <1>1, <1>3, <3>1
  <2>2. CASE ~(i <= done)
    <3>1. i - done \in 1 .. n /\ offset + i = Len(bytes) + (i - done) /\ done + (i - done) = i
      BY <1>2, <1>3, <2>2
    <3> QED
      BY <1>1, <3>1
  <2> QED
    BY <2>1, <2>2
<1>5. Whole(r, o) => Whole(r, o)'
  BY <1>1, <1>2, WholeStays
<1>6. ASSUME done' = Size[writing], r = writing, o = offset PROVE Whole(r, o)'
  <2>1. offset + Size[writing] <= Len(bytes')
    BY <1>1, <1>2, <1>3, <1>6
  <2>2. \A i \in 1 .. Size[writing] : bytes'[offset + i] = Encode(writing)[i]
    BY <1>1, <1>4, <1>6
  <2> QED
    BY <1>6, <2>1, <2>2 DEF Whole, Matches, Encode
<1>7. ASSUME Whole(r, o)', ~Whole(r, o) PROVE done' = Size[writing] /\ r = writing /\ o = offset
  <2>1. o + Size[r] <= Len(bytes') /\ \A i \in 1 .. Size[r] : bytes'[o + i] = Encode(r)[i]
    BY <1>7 DEF Whole, Matches, Encode
  <2>2. o + Size[r] > Len(bytes)
    <3>1. SUFFICES ASSUME o + Size[r] <= Len(bytes) PROVE Whole(r, o)
      BY <1>2, <1>7
    <3>2. \A i \in 1 .. Size[r] : o + i \in 1 .. Len(bytes)
      BY <1>2, <3>1
    <3>3. \A i \in 1 .. Size[r] : bytes[o + i] = Encode(r)[i]
      BY <1>1, <2>1, <3>2
    <3> QED
      BY <3>1, <3>3 DEF Whole, Matches
  <2>3. PICK j \in 1 .. done + n : offset + j = o + Size[r] /\ j > done
    <3>1. o + Size[r] - offset \in 1 .. done + n /\ offset + (o + Size[r] - offset) = o + Size[r]
          /\ o + Size[r] - offset > done
      BY <1>1, <1>2, <1>3, <2>1, <2>2
    <3> QED
      BY <3>1
  <2>4. Size[r] \in 1 .. Size[r] /\ j \in 1 .. Size[writing]
    BY <1>1, <1>2, <2>3
  <2>5. Encode(r)[Size[r]] = Encode(writing)[j]
    BY <1>4, <2>1, <2>3, <2>4
  <2>6. /\ Encode(r)[Size[r]] = [rec |-> r, at |-> Size[r]]
        /\ Encode(writing)[j] = [rec |-> writing, at |-> j]
    BY <1>2, <2>4, EncodeCells
  <2>7. r = writing /\ Size[r] = j
    <3>1. /\ [rec |-> r, at |-> Size[r]].rec = [rec |-> writing, at |-> j].rec
          /\ [rec |-> r, at |-> Size[r]].at = [rec |-> writing, at |-> j].at
      BY <2>5, <2>6
    <3> QED
      BY <3>1
  <2> QED
    BY <1>1, <1>2, <2>3, <2>7
<1> QED
  BY <1>5, <1>6, <1>7

\* So while a record is cut short nowhere, the whole records reach up to the one
\* that is being written.
LEMMA PieceChain ==
  ASSUME FileInv, WriteSome, TypeOK', tears = {}, LayoutOK
  PROVE  Chain(Len(bytes) - Partial)'
<1> USE DEF FileInv
<1>1. PICK n \in Nat \ {0} : /\ done' = done + n /\ done + n <= Size[writing]
                             /\ Len(bytes') = Len(bytes) + n
  BY WrittenPiece
<1>2. /\ writing \in Records /\ Size[writing] \in Nat /\ writing # None /\ done \in Nat /\ offset \in Nat
      /\ Len(bytes) \in Nat /\ status = "open" /\ writing' = writing
  BY EncodeCells DEF WriteSome, HandleOK, TypeOK
<1>3. ~short /\ offset + done = Len(bytes) /\ done < Size[writing] /\ offset \in Offsets
  BY <1>1, <1>2 DEF LayoutOK, HandleOK, Offsets
<1>4. Chain(offset)
  <2>1. Len(bytes) - Partial = offset
    BY <1>2, <1>3 DEF Partial
  <2> QED
    BY <2>1 DEF LayoutOK
<1>5. /\ \A r \in Records : \A o \in Nat :
           Whole(r, o)' <=> Whole(r, o) \/ (done' = Size[writing] /\ r = writing /\ o = offset)
      /\ Offsets \subseteq Offsets' /\ Offsets' \subseteq Nat /\ Offsets \subseteq Nat
  <2>1. Offsets \subseteq Offsets' /\ Offsets' \subseteq Nat /\ Offsets \subseteq Nat
    BY <1>1, <1>2 DEF Offsets
  <2> QED
    BY <1>3, <2>1, PieceWhole
<1>6. \A r \in Records : \A o \in Nat : Whole(r, o) => o \in Offsets
  BY <1>2, EncodeCells DEF Whole, Offsets
<1>7. CASE done' < Size[writing]
  <2>1. (Len(bytes) - Partial)' = offset
    BY <1>1, <1>2, <1>3, <1>7 DEF Partial
  <2>2. \A r \in Records : \A o \in Nat : Whole(r, o)' <=> Whole(r, o)
    BY <1>1, <1>2, <1>5, <1>7
  <2>3. \A b : IsEnd(b)' <=> IsEnd(b)
    BY <1>5, <1>6, <2>2 DEF IsEnd
  <2>4. ASSUME NEW top, top = offset PROVE Chain(top)'
    <3>1. IsEnd(top)'
      BY <1>4, <2>3, <2>4 DEF Chain
    <3>2. ASSUME NEW b \in Offsets', IsEnd(b)', b # top PROVE \E r \in Records : Whole(r, b)'
      BY <1>4, <1>5, <2>2, <2>3, <2>4, <3>2, EndIsOffset DEF Chain
    <3>3. ASSUME NEW r \in Records, NEW o \in Offsets', Whole(r, o)' PROVE o + Size[r] <= top
      BY <1>4, <1>5, <1>6, <2>2, <2>4, <3>3 DEF Chain
    <3> QED
      BY <3>1, <3>2, <3>3 DEF Chain
  <2> QED
    BY <2>1, <2>4
<1>8. CASE done' = Size[writing]
  <2>1. (Len(bytes) - Partial)' = offset + Size[writing]
    BY <1>1, <1>2, <1>3, <1>8 DEF Partial
  <2>0. PICK r0 \in Records, o0 \in Nat : r0 = writing /\ o0 = offset
    BY <1>2
  <2>2. Whole(r0, o0)'
    BY <1>2, <1>5, <1>8, <2>0
  <2>3. ASSUME NEW b PROVE IsEnd(b)' <=> IsEnd(b) \/ b = offset + Size[writing]
    <3>1. IsEnd(b) => IsEnd(b)'
      BY <1>5 DEF IsEnd
    <3>2. b = offset + Size[writing] => IsEnd(b)'
      BY <1>2, <1>3, <1>5, <2>0, <2>2 DEF IsEnd
    <3>3. IsEnd(b)' => IsEnd(b) \/ b = offset + Size[writing]
      BY <1>5, <1>6 DEF IsEnd
    <3> QED
      BY <3>1, <3>2, <3>3
  <2>4. ASSUME NEW top, top = offset + Size[writing] PROVE Chain(top)'
    <3>1. IsEnd(top)'
      BY <2>3, <2>4
    <3>2. ASSUME NEW b \in Offsets', IsEnd(b)', b # top PROVE \E r \in Records : Whole(r, b)'
      <4>1. IsEnd(b) /\ b \in Offsets
        BY <2>3, <2>4, <3>2, EndIsOffset
      <4>2. CASE b = offset
        BY <2>0, <2>2, <4>2
      <4>3. CASE b # offset
        <5>1. PICK r \in Records : Whole(r, b)
          BY <1>4, <4>1, <4>3 DEF Chain
        <5>2. Whole(r, b)'
          BY <1>5, <4>1, <5>1
        <5> QED
          BY <5>2
      <4> QED
        BY <4>2, <4>3
    <3>3. ASSUME NEW r \in Records, NEW o \in Offsets', Whole(r, o)' PROVE o + Size[r] <= top
      <4>1. CASE Whole(r, o)
        <5>1. o \in Offsets /\ o + Size[r] <= offset
          BY <1>4, <1>5, <1>6, <4>1 DEF Chain
        <5> QED
          BY <1>2, <1>5, <2>4, <5>1, EncodeCells
      <4>2. CASE ~Whole(r, o)
        BY <1>2, <1>5, <2>4, <3>3, <4>2
      <4> QED
        BY <4>1, <4>2
    <3> QED
      BY <3>1, <3>2, <3>3 DEF Chain
  <2> QED
    BY <2>1, <2>4
<1> QED
  BY <1>1, <1>2, <1>7, <1>8

\* A piece of a record that reaches the file keeps the layout.
LEMMA PieceLayout ==
  ASSUME FileInv, WriteSome, FileInv', LayoutOK
  PROVE  LayoutOK'
<1> USE DEF FileInv
<1>1. PICK n \in Nat \ {0} :
        Len(bytes') = Len(bytes) + n /\ \A i \in 1 .. Len(bytes) : bytes'[i] = bytes[i]
  BY WrittenPiece
<1>2. /\ tears' = tears /\ acked' = acked /\ short' = short
      /\ Len(bytes) \in Nat /\ tears \subseteq Nat /\ acked \subseteq Records
  BY DEF WriteSome, historyVars, TypeOK
<1>3. \A e \in tears : e <= Len(bytes) /\ e # Len(bytes') /\ e <= Len(bytes')
  <2>1. \A e \in tears : e \in Nat /\ e <= Len(bytes)
    BY <1>2 DEF LayoutOK
  <2> QED
    BY <1>1, <1>2, <2>1
<1>4. tears \subseteq {Len(bytes')} => tears = {}
  BY <1>3
<1>5. ASSUME tears = {} PROVE \A r \in acked : (\E o \in Offsets : Whole(r, o))'
  <2> SUFFICES ASSUME NEW r \in acked PROVE (\E o \in Offsets : Whole(r, o))'
    OBVIOUS
  <2>1. PICK o \in Offsets : Whole(r, o)
    BY <1>5 DEF LayoutOK
  <2>2. o \in Nat /\ o \in Offsets' /\ r \in Records
    BY <1>1, <1>2 DEF Offsets
  <2>3. PICK r0 \in Records, o0 \in Nat : r0 = r /\ o0 = o
    BY <2>2
  <2>4. Whole(r0, o0)'
    BY <1>1, <1>2, <2>1, <2>3, WholeStays
  <2> QED
    BY <2>2, <2>3, <2>4
<1>6. tears = {} => ~short /\ Chain(Len(bytes) - Partial)'
  BY PieceChain DEF LayoutOK
<1> QED
  BY <1>2, <1>3, <1>4, <1>5, <1>6 DEF LayoutOK

\* A step that leaves the file and what was cut short alone keeps the layout.
LEMMA QuietLayout ==
  ASSUME LayoutOK, bytes' = bytes, tears' = tears, acked' = acked, short' => short,
         Partial' = Partial, done' \in {0, done}
  PROVE  LayoutOK'
<1>1. \A r, o : Whole(r, o)' <=> Whole(r, o)
  BY SameLayout
<1>2. \A top : (Chain(top)' <=> Chain(top)) /\ (Rest(top)' <=> Rest(top))
  BY SameLayout
<1>3. Offsets' = Offsets
  BY SameLayout
<1>4. PICK top : top = Len(bytes) - Partial
  OBVIOUS
<1>5. Chain(Len(bytes) - Partial)' <=> Chain(Len(bytes) - Partial)
  BY <1>2, <1>4
<1> QED
  BY <1>1, <1>2, <1>3, <1>5 DEF LayoutOK

\* The end of a write adds an acknowledged record that is there as a whole.
LEMMA EndLayout ==
  ASSUME FileInv, EndWrite, LayoutOK
  PROVE  LayoutOK'
<1> USE DEF FileInv
<1>1. /\ writing # None /\ done = Size[writing] /\ writing' = None /\ done' = 0
      /\ acked' = acked \cup {writing}
      /\ UNCHANGED <<bytes, status, used, tears, short>>
  BY DEF EndWrite
<1>2. /\ writing \in Records /\ Size[writing] \in Nat /\ Size[writing] > 0 /\ status = "open"
      /\ offset \in Nat /\ Len(bytes) \in Nat
  BY <1>1, EncodeCells DEF HandleOK, TypeOK
<1>3. tears # {Len(bytes)}
  BY <1>1, <1>2 DEF LayoutOK
<1>4. Partial = 0 /\ Partial' = 0
  BY <1>1, <1>2 DEF Partial
<1>5. tears \subseteq {Len(bytes)} => tears = {}
  BY <1>3
<1>6. ASSUME tears = {} PROVE Whole(writing, offset) /\ offset \in Offsets
  <2>1. ~short
    BY <1>6 DEF LayoutOK
  <2>2. offset + Size[writing] = Len(bytes) /\ \A i \in 1 .. Size[writing] : bytes[offset + i] = Encode(writing)[i]
    BY <1>1, <1>2, <2>1 DEF HandleOK
  <2> QED
    BY <1>2, <2>2 DEF Whole, Matches, Offsets
<1>7. \A r, o : Whole(r, o)' <=> Whole(r, o)
  BY <1>1, SameLayout
<1>8. \A top : Chain(top)' <=> Chain(top)
  BY <1>1, SameLayout
<1>9. Offsets' = Offsets
  BY <1>1, SameLayout
<1>10. tears = {} => Chain(Len(bytes) - Partial)'
  <2>1. PICK top : top = Len(bytes) - 0
    OBVIOUS
  <2> QED
    BY <1>1, <1>4, <1>8, <2>1 DEF LayoutOK
<1>11. tears = {} => \A r \in acked' : \E o \in Offsets' : Whole(r, o)'
  BY <1>1, <1>6, <1>7, <1>9 DEF LayoutOK
<1> QED
  BY <1>1, <1>3, <1>5, <1>10, <1>11 DEF LayoutOK

\* Behind the record that was whole last is what a write left that was cut short.
LEMMA CutLayout ==
  ASSUME FileInv, LayoutOK, WriteFails \/ Kill
  PROVE  LayoutOK'
<1> USE DEF FileInv
<1>0. short' => short \/ CutShort
  BY Zenon DEF WriteFails, Kill
<1>1. bytes' = bytes /\ acked' = acked /\ writing' = None /\ done' = 0 /\ tears' = Tears
  BY DEF WriteFails, Kill
<1>2. Len(bytes) \in Nat /\ done \in Nat /\ Partial' = 0
  BY <1>1 DEF TypeOK, Partial
<1>3. CASE CutShort
  <2>1. /\ tears' = tears \cup {Len(bytes)} /\ writing \in Records /\ writing # None
        /\ done > 0 /\ done < Size[writing] /\ Size[writing] \in Nat
    BY <1>1, <1>3, EncodeCells DEF Tears, CutShort, TypeOK
  <2>2. tears # {Len(bytes)}
    BY <1>2, <2>1 DEF LayoutOK
  <2>3. tears' \subseteq {Len(bytes)} => tears = {}
    BY <2>1, <2>2
  <2>4. PICK top : top = Len(bytes) - Partial
    OBVIOUS
  <2>5. ASSUME tears = {} PROVE top \in Offsets /\ Chain(top) /\ Rest(top)
    <3>1. ~short /\ Chain(top)
      BY <2>4, <2>5 DEF LayoutOK
    <3>2. /\ status = "open" /\ offset + done = Len(bytes) /\ offset \in Nat
          /\ \A i \in 1 .. done : bytes[offset + i] = Encode(writing)[i]
      BY <1>2, <2>1, <3>1 DEF HandleOK, TypeOK
    <3>3. top = offset
      BY <1>2, <2>1, <2>4, <3>2 DEF Partial
    <3>4. top \in Offsets
      BY <1>2, <3>2, <3>3 DEF Offsets
    <3>5. Len(bytes) < top + Size[writing] /\ Len(bytes) - top = done
      BY <1>2, <2>1, <3>2, <3>3
    <3> QED
      BY <2>1, <3>1, <3>2, <3>3, <3>4, <3>5 DEF Rest
  <2>6. \A r, o : Whole(r, o)' <=> Whole(r, o)
    BY <1>1, SameLayout
  <2>7. Offsets' = Offsets /\ (Chain(top)' <=> Chain(top)) /\ (Rest(top)' <=> Rest(top))
    BY <1>1, SameLayout
  <2>8. tears = {} => \E t \in Offsets' : Chain(t)' /\ Rest(t)'
    BY <2>5, <2>7
  <2>9. tears = {} => \A r \in acked' : \E o \in Offsets' : Whole(r, o)'
    BY <1>1, <2>6, <2>7 DEF LayoutOK
  <2>10. \A e \in tears' : e <= Len(bytes')
    BY <1>1, <1>2, <2>1 DEF LayoutOK
  <2> QED
    BY <1>1, <2>1, <2>3, <2>8, <2>9, <2>10 DEF LayoutOK
<1>4. CASE ~CutShort
  <2>1. tears' = tears /\ (short' => short)
    BY <1>0, <1>1, <1>4 DEF Tears
  <2>2. Partial = 0
    BY <1>2, <1>4 DEF Partial, CutShort
  <2> QED
    BY <1>1, <1>2, <2>1, <2>2, QuietLayout
<1> QED
  BY <1>3, <1>4

\* Every step keeps the layout.
LEMMA LayoutStep ==
  ASSUME FileInv, LayoutOK, FileInv', [Next]_vars
  PROVE  LayoutOK'
<1>1. CASE Open \/ LoadRecord \/ LoadEnd \/ Finished \/ UNCHANGED vars
  <2>1. /\ bytes' = bytes /\ tears' = tears /\ acked' = acked /\ (short' => short)
        /\ writing' = writing /\ done' = done
    BY <1>1 DEF Open, LoadRecord, LoadEnd, Finished, vars, handleVars, historyVars
  <2>2. Partial' = Partial
    BY <2>1 DEF Partial
  <2> QED
    BY <2>1, <2>2, QuietLayout
<1>2. CASE BeginWrite
  <2>1. /\ bytes' = bytes /\ tears' = tears /\ acked' = acked /\ (short' => short)
        /\ writing = None /\ done' = 0
    BY <1>2 DEF BeginWrite
  <2>2. Partial = 0 /\ Partial' = 0
    BY <2>1 DEF Partial
  <2> QED
    BY <2>1, <2>2, QuietLayout
<1> QED
  BY <1>1, <1>2, PieceLayout, EndLayout, CutLayout DEF Next

\* The replay reads one record after the other.
LEMMA ReplayStep ==
  ASSUME FileInv, ReplayOK, FileInv', [Next]_vars
  PROVE  ReplayOK'
<1> USE DEF FileInv
<1> SUFFICES ASSUME status' = "loading", (tears \subseteq {Len(bytes)})'
             PROVE  /\ IsEnd(loadOff)'
                    /\ \A r \in Records : \A o \in Offsets' : (Whole(r, o) /\ o < loadOff => found[r] # None)'
  BY DEF ReplayOK
<1>1. \/ Open \/ LoadRecord
      \/ UNCHANGED vars
  BY DEF Next, LoadEnd, BeginWrite, WriteSome, EndWrite, WriteFails, Kill, Finished, HandleOK
<1>2. bytes' = bytes /\ tears' = tears
  BY <1>1 DEF Open, LoadRecord, vars, historyVars
<1>3. \A r, o : Whole(r, o)' <=> Whole(r, o)
  BY <1>2, SameLayout
<1>4. Offsets' = Offsets /\ Offsets \subseteq Nat /\ \A b : IsEnd(b)' <=> IsEnd(b)
  BY <1>2, SameLayout DEF Offsets
<1>5. CASE Open
  <2>1. loadOff' = 0
    BY <1>5 DEF Open
  <2>2. \A o \in Offsets' : ~(o < loadOff')
    BY <1>4, <2>1
  <2> QED
    BY <2>1, <2>2 DEF IsEnd
<1>6. CASE LoadRecord
  <2>1. PICK r \in ReadRecord(loadOff) \cap Records :
          found' = [found EXCEPT ![r] = loadOff] /\ loadOff' = loadOff + Size[r]
    BY <1>6 DEF LoadRecord
  <2>2. status = "loading"
    BY <1>6 DEF LoadRecord
  <2>3. IsEnd(loadOff) /\ loadOff \in Offsets /\ loadOff \in Nat
    BY <1>2, <2>2, EndIsOffset DEF ReplayOK, TypeOK
  <2>4. r \in Records /\ Whole(r, loadOff)
    BY <2>1, <2>3, ReadIsWhole
  <2>5. PICK end : end = loadOff + Size[r]
    OBVIOUS
  <2>6. IsEnd(end)'
    BY <1>4, <2>3, <2>4, <2>5 DEF IsEnd
  <2>7. ASSUME NEW x \in Records, NEW q \in Offsets, Whole(x, q), q < end
        PROVE  found'[x] # None
    <3>1. CASE q < loadOff
      <4>1. found[x] # None
        BY <1>2, <2>2, <2>7, <3>1 DEF ReplayOK
      <4>2. loadOff # None
        BY <2>3, FileAssumption
      <4> QED
        BY <2>1, <4>1, <4>2 DEF TypeOK
    <3>2. CASE ~(q < loadOff)
      <4>1. x = r
        BY <1>4, <2>3, <2>4, <2>5, <2>7, <3>2, Apart
      <4>2. loadOff # None
        BY <2>3, FileAssumption
      <4> QED
        BY <2>1, <4>1, <4>2 DEF TypeOK
    <3> QED
      BY <3>1, <3>2
  <2>8. loadOff' = end
    BY <2>1, <2>5
  <2>9. IsEnd(loadOff)'
    BY <2>6, <2>8
  <2> QED
    BY <1>3, <1>4, <2>7, <2>8, <2>9
<1>7. CASE UNCHANGED vars
  <2>1. status = "loading" /\ loadOff' = loadOff /\ found' = found
    BY <1>7 DEF vars, handleVars
  <2>2. PICK end : end = loadOff
    OBVIOUS
  <2>3. IsEnd(end)'
    BY <1>2, <1>4, <2>1, <2>2 DEF ReplayOK
  <2>4. IsEnd(loadOff)'
    BY <2>1, <2>2, <2>3
  <2> QED
    BY <1>2, <1>3, <1>4, <2>1, <2>4 DEF ReplayOK
<1> QED
  BY <1>1, <1>5, <1>6, <1>7

\* The replay ends behind the last whole record and nowhere before.
LEMMA EndRecovers ==
  ASSUME FileInv, LayoutOK, ReplayOK, Next,
         status = "loading", status' \in {"open", "failed"}, tears \subseteq {Len(bytes)}
  PROVE  Recovered
<1> USE DEF FileInv
<1>1. LoadEnd
  BY DEF Next, Open, LoadRecord, BeginWrite, WriteSome, EndWrite, WriteFails, Kill, Finished, HandleOK
<1>2. writing = None /\ found' = found /\ Len(bytes) \in Nat
  BY <1>1 DEF HandleOK, LoadEnd, handleVars, TypeOK
<1>3. PICK top \in Offsets : Chain(top) /\ Rest(top)
  <2>1. CASE tears = {}
    <3>1. Chain(Len(bytes) - Partial) /\ Partial = 0
      BY <1>2, <2>1 DEF LayoutOK, Partial
    <3>2. Chain(Len(bytes)) /\ Rest(Len(bytes)) /\ Len(bytes) \in Offsets
      BY <1>2, <3>1 DEF Rest, Offsets
    <3> QED
      BY <3>2
  <2>2. CASE tears # {}
    <3>1. tears = {Len(bytes)}
      BY <2>2
    <3> QED
      BY <3>1 DEF LayoutOK
  <2> QED
    BY <2>1, <2>2
<1>4. IsEnd(loadOff) /\ loadOff \in Offsets
  BY EndIsOffset DEF ReplayOK
<1>5. loadOff = top
  <2>1. SUFFICES ASSUME loadOff # top PROVE FALSE
    OBVIOUS
  <2>2. \E r \in Records : ReadRecord(loadOff) = {r}
    BY <1>3, <1>4, <2>1, ReadNext
  <2> QED
    BY <1>1, <2>2, FileAssumption DEF LoadEnd
<1>6. status' = "open"
  <2>1. ReadRecord(loadOff) = {"eof"}
    BY <1>3, <1>5, ReadRest
  <2> QED
    BY <1>1, <2>1 DEF LoadEnd
<1>7. ASSUME NEW r \in acked PROVE found[r] # None
  <2>1. PICK o \in Offsets : Whole(r, o)
    BY DEF LayoutOK
  <2>2. r \in Records /\ o \in Nat /\ loadOff \in Nat /\ Size[r] \in Nat /\ Size[r] > 0
    BY EncodeCells DEF TypeOK, Offsets
  <2>3. o + Size[r] <= loadOff
    BY <1>3, <1>5, <2>1, <2>2 DEF Chain
  <2>4. o < loadOff
    BY <2>2, <2>3
  <2> QED
    BY <2>1, <2>2, <2>4 DEF ReplayOK
<1> QED
  BY <1>2, <1>6, <1>7 DEF Recovered

\* An empty file has the layout.
LEMMA InitLayout == Init => LayoutOK /\ ReplayOK
<1> SUFFICES ASSUME Init PROVE LayoutOK /\ ReplayOK
  OBVIOUS
<1>1. Len(bytes) = 0 /\ Partial = 0 /\ tears = {} /\ acked = {} /\ ~short
  BY DEF Init, Partial
<1>2. Offsets = {0}
  BY <1>1 DEF Offsets
<1>3. ASSUME NEW r \in Records, NEW o \in Offsets PROVE ~Whole(r, o)
  BY <1>1, <1>2, EncodeCells DEF Whole
<1>4. Chain(0)
  BY <1>2, <1>3 DEF Chain, IsEnd
<1>5. status = "closed"
  BY DEF Init
<1> QED
  BY <1>1, <1>4, <1>5 DEF LayoutOK, ReplayOK

\* A restart finds every record whose write succeeded if at most one record was
\* cut short and nothing was written behind it: one torn record at the end of the
\* file is harmless, whoever left it there and whatever was cut in pieces before.
THEOREM TailRecovers == Spec => RecoversTail
<1> DEFINE Inv == FileInv /\ LayoutOK /\ ReplayOK
           Ends == status = "loading" /\ status' \in {"open", "failed"} /\ tears \subseteq {Len(bytes)}
<1>1. Init => Inv
  BY InitFile, InitLayout
<1>2. Inv /\ [Next]_vars => Inv'
  BY NextFile, LayoutStep, ReplayStep
<1>3. Inv /\ [Next]_vars => [Ends => Recovered]_vars
  BY EndRecovers
<1> HIDE DEF Inv
<1>4. Spec => [][Ends => Recovered]_vars
  BY <1>1, <1>2, <1>3, PTL DEF Spec
<1> QED
  BY <1>4 DEF RecoversTail
===============================================================================
