----------------------------- MODULE DataBlock -----------------------------
(***************************************************************************)
(* The rows of a directly loaded block: the last part of DLB_D::decode and *)
(* Kd_row::decode (elements/layout_dlb_d.h). The row directory names where *)
(* a row begins, counted from the data header; a row is a head and its     *)
(* columns, each a length of one or of three bytes and the data. A row     *)
(* that cannot be decoded becomes an empty one.                            *)
(*                                                                         *)
(* A block is its size, byte order and the counts of its headers (Elements *)
(* has the tests these pass), the bytes that matter as a function, and     *)
(* filler, the value of all others. written is what the database has put   *)
(* in each slot: a "row" and where its columns are, a "cut" one that       *)
(* leaves the block, a "free" slot, or a "link" to the next free one. Only *)
(* the properties read it; AsTold says what it has to do with the bytes.   *)
(***************************************************************************)
EXTENDS Elements

CONSTANT Blocks

FREE == 65535     \* the offset of a slot that is free, and the last of its list
EXT == 254        \* a length byte: the length is in the two bytes that follow
NULL == 255       \* the length of a column without data
ROW_HEAD == 3     \* Ktb_rhd::sz_ktrdh

EmptyRow == [flag |-> 0, lock |-> 0, count |-> 0, cols |-> << >>]

ASSUME BlocksAssumption ==
  \A b \in Blocks :
    /\ b.size \in Nat /\ b.isLittle \in BOOLEAN
    /\ Typed("DLB_D", b.heads) /\ b.heads.bitmap \in BOOLEAN
    /\ b.filler \in 0 .. 255
    /\ \A i \in DOMAIN b.bytes : b.bytes[i] \in 0 .. 255

VARIABLES
  block,
  pc,        \* "heads", "rows", "columns", "done" or "refused"
  slot,      \* the entry of the row directory looked at
  at,        \* current: the next byte of the row being decoded
  row,       \* that row
  rows       \* the rows decoded, one for each slot

vars == <<block, pc, slot, at, row, rows>>

ByteOf(b, i) == IF i \in DOMAIN b.bytes THEN b.bytes[i] ELSE b.filler
WordOf(b, i) ==
  IF b.isLittle THEN ByteOf(b, i) + 256 * ByteOf(b, i + 1)
  ELSE 256 * ByteOf(b, i) + ByteOf(b, i + 1)
EntryOf(b, k) == WordOf(b, RowDirAt(b.heads) + 2 * (k - 1))

Byte(i) == ByteOf(block, i)
Word(i) == WordOf(block, i)

Slots == block.heads.rows
RowOffset(k) == EntryOf(block, k)
RowStart == DataAt(block.heads) + RowOffset(slot)

Init ==
  /\ block \in Blocks
  /\ pc = "heads"
  /\ slot = 1 /\ at = 0
  /\ row = EmptyRow
  /\ rows = << >>

Heads ==
  /\ pc = "heads"
  /\ pc' = IF Accepts(DLB_D(block.heads, block.isLittle), block.size)
           THEN "rows" ELSE "refused"
  /\ UNCHANGED <<block, slot, at, row, rows>>

AtSlot == pc = "rows" /\ slot <= Slots

\* Mutant: slots without a row are left out.
LeaveRowOnly(r) ==
  /\ rows' = IF r = EmptyRow THEN rows ELSE Append(rows, r)
  /\ slot' = slot + 1
  /\ pc' = "rows"
  /\ UNCHANGED <<block, at, row>>

LeaveRow(r) ==
  /\ rows' = Append(rows, r)
  /\ slot' = slot + 1
  /\ pc' = "rows"
  /\ UNCHANGED <<block, at, row>>

FreeSlot == AtSlot /\ RowOffset(slot) = FREE /\ LeaveRow(EmptyRow)

NoRowHead ==
  /\ AtSlot
  /\ RowOffset(slot) # FREE
  /\ RowStart + ROW_HEAD > block.size
  /\ LeaveRow(EmptyRow)

RowHead ==
  /\ AtSlot
  /\ RowOffset(slot) # FREE
  /\ RowStart + ROW_HEAD <= block.size
  /\ row' = [flag |-> Byte(RowStart), lock |-> Byte(RowStart + 1),
             count |-> Byte(RowStart + 2), cols |-> << >>]
  /\ at' = RowStart + ROW_HEAD
  /\ pc' = "columns"
  /\ UNCHANGED <<block, slot, rows>>

-----------------------------------------------------------------------------
(* The loop over the columns. A length is read as NULL whether it stands in *)
(* one byte or in three.                                                    *)

AtColumn == pc = "columns" /\ Len(row.cols) < row.count

Extended == Byte(at) = EXT
ColLen == IF Extended THEN Word(at + 1) ELSE Byte(at)
ColStart == at + (IF Extended THEN 3 ELSE 1)

\* Mutants: only the start of the data is tested, or not even that for NULL.
ColumnStarts == ColStart <= block.size
ColumnIsNullOrFits == ColLen = NULL \/ ColStart + ColLen <= block.size

\* The three tests on buf.size(); where the first fails ColStart lies outside too.
ColumnFits ==
  /\ ColStart <= block.size
  /\ ColLen = NULL \/ ColStart + ColLen <= block.size

NullColumn ==
  /\ AtColumn /\ ColumnFits /\ ColLen = NULL
  /\ row' = [row EXCEPT !.cols = Append(@, [len |-> NULL, offset |-> 0])]
  /\ at' = ColStart
  /\ UNCHANGED <<block, pc, slot, rows>>

DataColumn ==
  /\ AtColumn /\ ColumnFits /\ ColLen # NULL
  /\ row' = [row EXCEPT !.cols = Append(@, [len |-> ColLen, offset |-> ColStart])]
  /\ at' = ColStart + ColLen
  /\ UNCHANGED <<block, pc, slot, rows>>

NoColumn == AtColumn /\ ~ ColumnFits /\ LeaveRow(EmptyRow)

RowDone == pc = "columns" /\ Len(row.cols) = row.count /\ LeaveRow(row)

Finish ==
  /\ pc = "rows"
  /\ slot > Slots
  /\ pc' = "done"
  /\ UNCHANGED <<block, slot, at, row, rows>>

Step ==
  \/ Heads \/ FreeSlot \/ NoRowHead \/ RowHead
  \/ NullColumn \/ DataColumn \/ NoColumn \/ RowDone \/ Finish

Decoded == pc \in {"done", "refused"}

Next == Step \/ (Decoded /\ UNCHANGED vars)

Spec == Init /\ [][Next]_vars
-----------------------------------------------------------------------------
Col == [len : Nat, offset : Nat]
Row == [flag : Nat, lock : Nat, count : Nat, cols : Seq(Col)]

TypeOK ==
  /\ pc \in {"heads", "rows", "columns", "done", "refused"}
  /\ slot \in Nat \ {0} /\ Len(rows) = slot - 1
  /\ at \in 0 .. block.size
  /\ row \in Row /\ Len(row.cols) <= row.count
  /\ rows \in Seq(Row)

IsData(c) == c.len # NULL

\* Behind the head of their row, in order, without overlap, inside the block.
InPlace(r) ==
  /\ \A i \in 1 .. Len(r.cols) :
       IsData(r.cols[i]) => r.cols[i].offset + r.cols[i].len <= block.size
  /\ \A i, j \in 1 .. Len(r.cols) :
       i < j /\ IsData(r.cols[i]) /\ IsData(r.cols[j]) =>
         r.cols[i].offset + r.cols[i].len < r.cols[j].offset

\* layout_dlb_d.h:304-354 and 400-413: whatever a slot names, a row or bytes that
\* are none, the columns decoded from it lie in the block, behind one another.
ColumnsInside ==
  /\ \A k \in 1 .. Len(rows) : InPlace(rows[k])
  /\ pc = "columns" => InPlace(row)

-----------------------------------------------------------------------------
(* What the database writes: places[i] is where column i begins, and the   *)
(* last of places is where the row ends. Bytes behind the block are lost.  *)

\* From p to q: a column without data, or with its length in one or three bytes.
ColumnAt(b, p, c, q) ==
  \/ /\ c = [len |-> NULL, offset |-> 0] /\ q = p + 1
     /\ p < b.size => ByteOf(b, p) = NULL
  \/ /\ c.offset = p + 1 /\ q = c.offset + c.len /\ c.len < EXT
     /\ p < b.size => ByteOf(b, p) = c.len
  \/ /\ c.offset = p + 3 /\ q = c.offset + c.len
     /\ p < b.size => ByteOf(b, p) = EXT
     /\ c.offset <= b.size => WordOf(b, p + 1) = c.len

RowAt(b, start, w) ==
  /\ w.cols \in Seq(Col)
  /\ start + ROW_HEAD <= b.size =>
       /\ ByteOf(b, start) = w.flag /\ ByteOf(b, start + 1) = w.lock
       /\ ByteOf(b, start + 2) = Len(w.cols)
  /\ w.places[1] = start + ROW_HEAD
  /\ \A i \in 1 .. Len(w.cols) : ColumnAt(b, w.places[i], w.cols[i], w.places[i + 1])

\* The slots of b hold what b.written tells.
AsTold(b) ==
  \A k \in 1 .. b.heads.rows :
    LET w == b.written[k]
        start == DataAt(b.heads) + EntryOf(b, k)
        end == w.places[Len(w.cols) + 1]
    IN CASE w.kind = "free" -> EntryOf(b, k) = FREE
         [] w.kind = "row" ->
              /\ EntryOf(b, k) # FREE /\ RowAt(b, start, w)
              /\ \A i \in 1 .. Len(w.cols) + 1 : w.places[i] <= b.size
         [] w.kind = "cut" ->
              /\ EntryOf(b, k) # FREE /\ RowAt(b, start, w)
              /\ start + ROW_HEAD > b.size \/ end > b.size
         [] OTHER -> w.kind = "link"

\* The columns in front of the first one of 255 bytes, which is taken for NULL
\* and its data for the next length.
Clear(w) ==
  {i \in 1 .. Len(w.cols) : \A j \in 1 .. i : w.cols[j].len # 255 \/ w.cols[j].offset = 0}

ReadsAs(r, w) ==
  /\ r.flag = w.flag /\ r.lock = w.lock /\ r.count = Len(w.cols)
  /\ Len(r.cols) = Len(w.cols)
  /\ \A i \in Clear(w) : r.cols[i] = w.cols[i]

Misread(w) == Clear(w) # DOMAIN w.cols

Faithful(r, w) ==
  CASE w.kind = "row" -> ReadsAs(r, w) \/ (Misread(w) /\ r = EmptyRow)
    [] w.kind = "cut" -> r = EmptyRow \/ (Misread(w) /\ ReadsAs(r, w))
    [] w.kind = "free" -> r = EmptyRow
    [] OTHER -> TRUE

\* layout_dlb_d.h:406-413, 322-352: the k-th row decoded is that of the k-th slot.
\* Whatever lies in the other slots and in the bytes between, a row is read as
\* written up to its first column of 255 bytes. Without one it is never taken for
\* damaged, and a row that leaves the block never for a row; with one both may
\* happen. A free slot yields the empty row.
RowsAsWritten ==
  /\ \A k \in 1 .. Len(rows) : Faithful(rows[k], block.written[k])
  /\ pc = "done" => Len(rows) = Slots
=============================================================================
