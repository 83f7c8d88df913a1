-------------------------- MODULE DataBlock_proofs --------------------------
(***************************************************************************)
(* Whatever the bytes of a block are and whatever its row directory names, *)
(* the columns decoded lie inside it, behind one another: for blocks of    *)
(* any size, with any number of rows and columns. And where the block      *)
(* holds what the database tells, its rows are read as they were written.  *)
(***************************************************************************)
EXTENDS DataBlock, SequenceTheorems, TLAPS

\* What keeps the columns apart: all of the row being decoded end before at.
Behind ==
  \A i \in 1 .. Len(row.cols) :
    IsData(row.cols[i]) => row.cols[i].offset + row.cols[i].len <= at

IInv == block \in Blocks /\ TypeOK /\ ColumnsInside /\ (pc = "columns" => Behind)

LEMMA ByteType ==
  ASSUME block \in Blocks, NEW i
  PROVE  Byte(i) \in Nat
BY BlocksAssumption DEF Byte, ByteOf

LEMMA WordType ==
  ASSUME block \in Blocks, NEW i
  PROVE  Word(i) \in Nat
  <1>1. Byte(i) \in Nat /\ Byte(i + 1) \in Nat
    BY ByteType
  <1> QED  BY <1>1 DEF Word, WordOf, Byte

LEMMA RowStartType ==
  ASSUME block \in Blocks
  PROVE  RowStart \in Nat
  <1>1. RowOffset(slot) \in Nat
    BY WordType DEF RowOffset, EntryOf, Word
  <1>2. block.heads.itls \in Nat
    BY BlocksAssumption DEF Typed
  <1>3. DataAt(block.heads) \in Nat
    BY <1>2 DEF DataAt, ItlEntry
  <1> QED  BY <1>1, <1>3 DEF RowStart

LEMMA ColumnTypes ==
  ASSUME block \in Blocks, at \in Nat
  PROVE  ColLen \in Nat /\ ColStart \in Nat /\ ColStart > at
  <1>1. Byte(at) \in Nat /\ Word(at + 1) \in Nat
    BY ByteType, WordType
  <1> QED  BY <1>1 DEF ColLen, ColStart

LEMMA EmptyRowInPlace == EmptyRow \in Row /\ InPlace(EmptyRow)
  <1>1. << >> \in Seq(Col)
    OBVIOUS
  <1>2. EmptyRow \in Row
    BY <1>1 DEF EmptyRow, Row
  <1>3. EmptyRow.cols = << >>
    BY DEF EmptyRow
  <1> QED  BY <1>2, <1>3 DEF InPlace

\* A row is left, whole or empty.
LEMMA Left ==
  ASSUME IInv, NEW r \in Row, InPlace(r), LeaveRow(r)
  PROVE  IInv'
  <1>1. rows' = Append(rows, r) /\ rows \in Seq(Row) /\ block' = block
    BY DEF LeaveRow, IInv, TypeOK
  <1>2. rows' \in Seq(Row) /\ Len(rows') = Len(rows) + 1
    BY <1>1
  <1>3. TypeOK'
    BY <1>1, <1>2 DEF LeaveRow, IInv, TypeOK
  <1>4. ASSUME NEW k \in 1 .. Len(rows')
        PROVE  InPlace(rows'[k])
    <2>1. CASE k = Len(rows) + 1
      BY <1>1, <2>1
    <2>2. CASE k # Len(rows) + 1
      <3>1. k \in 1 .. Len(rows) /\ rows'[k] = rows[k]
        BY <1>1, <1>2, <2>2
      <3> QED  BY <3>1 DEF IInv, ColumnsInside
    <2> QED  BY <2>1, <2>2
  <1>5. ASSUME NEW q
        PROVE  InPlace(q)' <=> InPlace(q)
    BY <1>1 DEF InPlace
  <1>6. pc' = "rows"
    BY DEF LeaveRow
  <1>7. ColumnsInside'
    BY <1>1, <1>4, <1>6 DEF ColumnsInside, InPlace
  <1> QED  BY <1>1, <1>3, <1>6, <1>7 DEF IInv

\* A column is added to the row.
LEMMA Added ==
  ASSUME IInv, pc = "columns",
         NEW c \in Col,
         row' = [row EXCEPT !.cols = Append(@, c)],
         at' \in Nat, at' <= block.size, at < at',
         IsData(c) => c.offset > at /\ c.offset + c.len = at',
         Len(row.cols) < row.count,
         UNCHANGED <<block, pc, slot, rows>>
  PROVE  IInv'
  <1> DEFINE cols == row.cols
             grown == Append(cols, c)
             End(d) == d.offset + d.len
  <1>1. /\ cols \in Seq(Col) /\ row \in Row /\ at \in Nat /\ block.size \in Nat
    BY BlocksAssumption DEF IInv, TypeOK, Row
  <1>2. /\ grown \in Seq(Col)
        /\ Len(grown) = Len(cols) + 1
        /\ grown[Len(cols) + 1] = c
        /\ \A i \in 1 .. Len(cols) : grown[i] = cols[i]
    BY <1>1
  <1>3. row'.cols = grown /\ row' \in Row /\ row'.count = row.count
    BY <1>1, <1>2 DEF Row
  <1>4. TypeOK' /\ block' \in Blocks
    <2>1. Len(row'.cols) <= row'.count
      BY <1>1, <1>2, <1>3 DEF Row
    <2> HIDE DEF cols, grown
    <2> QED  BY <1>1, <1>3, <2>1 DEF IInv, TypeOK
  <1>5. /\ InPlace(row)
        /\ \A i \in 1 .. Len(cols) : IsData(cols[i]) => End(cols[i]) <= at
    BY DEF IInv, ColumnsInside, Behind
  <1>6. \A d \in Col : End(d) \in Nat
    BY DEF Col
  <1>7. IsData(c) => c.offset > at /\ End(c) = at'
    OBVIOUS
  <1>8. \A i \in 1 .. Len(cols) : cols[i] \in Col
    BY <1>1
  <1>9. \A i, j \in 1 .. Len(cols) :
          i < j /\ IsData(cols[i]) /\ IsData(cols[j]) => End(cols[i]) < cols[j].offset
    BY <1>5 DEF InPlace
  <1>10. c.offset \in Nat /\ Len(cols) \in Nat
    BY <1>1 DEF Col
  <1> HIDE DEF cols, grown, End
  <1>11. ASSUME NEW i \in 1 .. Len(cols) + 1, IsData(grown[i])
         PROVE  End(grown[i]) <= at'
    <2>1. CASE i = Len(cols) + 1
      BY <1>1, <1>2, <1>7, <1>11, <2>1
    <2>2. CASE i # Len(cols) + 1
      <3>1. i \in 1 .. Len(cols)
        BY <1>10, <2>2
      <3>2. grown[i] = cols[i] /\ cols[i] \in Col
        BY <1>2, <1>8, <3>1
      <3>3. End(cols[i]) <= at /\ End(cols[i]) \in Nat
        BY <1>5, <1>6, <1>11, <3>1, <3>2
      <3> QED  BY <1>1, <3>2, <3>3
    <2> QED  BY <2>1, <2>2
  <1>12. ASSUME NEW i \in 1 .. Len(cols) + 1, NEW j \in 1 .. Len(cols) + 1, i < j,
                IsData(grown[i]), IsData(grown[j])
         PROVE  End(grown[i]) < grown[j].offset
    <2>1. i \in 1 .. Len(cols)
      BY <1>10, <1>12
    <2>2. grown[i] = cols[i] /\ cols[i] \in Col
      BY <1>2, <1>8, <2>1
    <2>3. CASE j = Len(cols) + 1
      <3>1. End(cols[i]) <= at /\ End(cols[i]) \in Nat
        BY <1>5, <1>6, <1>12, <2>1, <2>2
      <3>2. grown[j] = c /\ c.offset > at
        BY <1>2, <1>7, <1>12, <2>3
      <3> QED  BY <1>1, <1>10, <2>2, <3>1, <3>2
    <2>4. CASE j # Len(cols) + 1
      <3>1. j \in 1 .. Len(cols)
        BY <1>10, <2>4
      <3>2. grown[j] = cols[j]
        BY <1>2, <3>1
      <3> QED  BY <1>9, <1>12, <2>1, <2>2, <3>1, <3>2
    <2> QED  BY <2>3, <2>4
  <1>13. ASSUME NEW i \in 1 .. Len(cols) + 1, IsData(grown[i])
         PROVE  End(grown[i]) <= block.size
    <2>1. grown[i] \in Col
      BY <1>2, <1>10
    <2> QED  BY <1>1, <1>6, <1>11, <1>13, <2>1
  <1>14. InPlace(row)'
    BY <1>2, <1>3, <1>12, <1>13 DEF InPlace, IsData, End
  <1>15. Behind'
    BY <1>2, <1>3, <1>11 DEF Behind, IsData, End
  <1>16. \A k \in 1 .. Len(rows) : InPlace(rows[k])'
    BY DEF IInv, ColumnsInside, InPlace, IsData
  <1> QED  BY <1>4, <1>14, <1>15, <1>16 DEF IInv, ColumnsInside

\* Nothing that IInv is about changes but pc.
LEMMA Passed ==
  ASSUME IInv, UNCHANGED <<block, slot, at, row, rows>>,
         pc' \in {"rows", "done", "refused"}
  PROVE  IInv'
  <1>1. TypeOK'
    BY DEF IInv, TypeOK
  <1>2. ColumnsInside'
    BY DEF IInv, ColumnsInside, InPlace, IsData
  <1> QED  BY <1>1, <1>2 DEF IInv

-----------------------------------------------------------------------------
LEMMA Initially == Init => IInv
  <1> SUFFICES ASSUME Init PROVE IInv
    OBVIOUS
  <1>1. EmptyRow \in Row /\ Len(EmptyRow.cols) = 0 /\ EmptyRow.count = 0
    BY EmptyRowInPlace DEF EmptyRow
  <1>2. block \in Blocks /\ block.size \in Nat
    BY BlocksAssumption DEF Init
  <1>3. TypeOK
    BY <1>1, <1>2 DEF Init, TypeOK
  <1> QED  BY <1>2, <1>3 DEF Init, IInv, ColumnsInside

LEMMA Preserved == IInv /\ [Next]_vars => IInv'
  <1> SUFFICES ASSUME IInv, [Next]_vars PROVE IInv'
    OBVIOUS
  <1>1. /\ block \in Blocks /\ at \in Nat /\ row \in Row /\ slot \in Nat \ {0}
        /\ rows \in Seq(Row) /\ block.size \in Nat
    BY BlocksAssumption DEF IInv, TypeOK
  <1>2. CASE Heads
    <2>1. pc' \in {"rows", "done", "refused"} /\ UNCHANGED <<block, slot, at, row, rows>>
      BY <1>2 DEF Heads
    <2> QED  BY <2>1, Passed
  <1>3. CASE FreeSlot \/ NoRowHead \/ NoColumn
    BY <1>3, Left, EmptyRowInPlace DEF FreeSlot, NoRowHead, NoColumn
  <1>4. CASE RowHead
    <2>1. RowStart \in Nat /\ RowStart + 3 <= block.size
      BY <1>1, <1>4, RowStartType DEF RowHead, ROW_HEAD
    <2>2. /\ Byte(RowStart) \in Nat /\ Byte(RowStart + 1) \in Nat
          /\ Byte(RowStart + 2) \in Nat
      BY <1>1, ByteType
    <2>3. row' \in Row /\ row'.cols = << >> /\ at' = RowStart + 3
      BY <1>4, <2>2 DEF RowHead, Row, ROW_HEAD
    <2>4. UNCHANGED <<block, slot, rows>>
      BY <1>4 DEF RowHead
    <2>5. Len(row'.cols) = 0 /\ row'.count \in Nat /\ at' \in 0 .. block.size
      BY <1>1, <2>1, <2>3 DEF Row
    <2>6. pc' = "columns"
      BY <1>4 DEF RowHead
    <2>7. TypeOK'
      BY <2>3, <2>4, <2>5, <2>6 DEF IInv, TypeOK
    <2>8. InPlace(row)' /\ Behind'
      BY <2>1, <2>3, <2>4 DEF InPlace, Behind
    <2>9. \A k \in 1 .. Len(rows) : InPlace(rows[k])'
      BY <2>4 DEF IInv, ColumnsInside, InPlace, IsData
    <2> QED  BY <1>1, <2>4, <2>7, <2>8, <2>9 DEF IInv, ColumnsInside
  <1>5. CASE NullColumn
    <2> DEFINE c == [len |-> NULL, offset |-> 0]
    <2>1. c \in Col /\ ~ IsData(c)
      BY DEF Col, IsData, NULL
    <2>2. ColStart \in Nat /\ ColStart > at /\ ColStart <= block.size
      BY <1>1, <1>5, ColumnTypes DEF NullColumn, ColumnFits
    <2>3. /\ row' = [row EXCEPT !.cols = Append(@, c)] /\ at' = ColStart
          /\ UNCHANGED <<block, pc, slot, rows>> /\ pc = "columns"
          /\ Len(row.cols) < row.count
      BY <1>5 DEF NullColumn, AtColumn
    <2> HIDE DEF c
    <2> QED  BY <2>1, <2>2, <2>3, Added
  <1>6. CASE DataColumn
    <2> DEFINE c == [len |-> ColLen, offset |-> ColStart]
    <2>1. ColLen \in Nat /\ ColStart \in Nat /\ ColStart > at
      BY <1>1, ColumnTypes
    <2>2. c \in Col /\ c.offset = ColStart /\ c.len = ColLen
      BY <2>1 DEF Col
    <2>3. ColStart + ColLen <= block.size
      BY <1>6 DEF DataColumn, ColumnFits
    <2>4. /\ row' = [row EXCEPT !.cols = Append(@, c)] /\ at' = ColStart + ColLen
          /\ UNCHANGED <<block, pc, slot, rows>> /\ pc = "columns"
          /\ Len(row.cols) < row.count
      BY <1>6 DEF DataColumn, AtColumn
    <2>5. at' \in Nat /\ at' <= block.size /\ at < at' /\ c.offset > at
          /\ c.offset + c.len = at'
      BY <1>1, <2>1, <2>2, <2>3, <2>4
    <2> HIDE DEF c
    <2> QED  BY <2>2, <2>4, <2>5, Added
  <1>7. CASE RowDone
    <2>1. pc = "columns" /\ LeaveRow(row)
      BY <1>7 DEF RowDone
    <2>2. InPlace(row)
      BY <2>1 DEF IInv, ColumnsInside
    <2> QED  BY <1>1, <2>1, <2>2, Left
  <1>8. CASE Finish
    <2>1. pc' \in {"rows", "done", "refused"} /\ UNCHANGED <<block, slot, at, row, rows>>
      BY <1>8 DEF Finish
    <2> QED  BY <2>1, Passed
  <1>9. CASE UNCHANGED vars
    BY <1>9 DEF vars, IInv, TypeOK, ColumnsInside, InPlace, IsData, Behind
  <1> QED
    BY <1>2, <1>3, <1>4, <1>5, <1>6, <1>7, <1>8, <1>9 DEF Next, Step

\* The decoding keeps its types, has one row for each slot left behind, no more
\* columns than the head says, and never goes on behind the end of the block.
THEOREM TypeCorrect == Spec => []TypeOK
  <1>1. IInv => TypeOK
    BY DEF IInv
  <1> QED  BY Initially, Preserved, <1>1, PTL DEF Spec

\* layout_dlb_d.h:304-354 and 400-413: whatever a slot names, the columns decoded
\* from it lie in the block, behind one another.
THEOREM ColumnsInsideHolds == Spec => []ColumnsInside
  <1>1. IInv => ColumnsInside
    BY DEF IInv
  <1> QED  BY Initially, Preserved, <1>1, PTL DEF Spec

-----------------------------------------------------------------------------
(* Rows as written. The row being decoded agrees with the one of its slot  *)
(* in all columns before the first of 255 bytes, and as long as there has  *)
(* been none the next byte is where the next column was written.           *)

SoFar(w) ==
  /\ w.kind # "free" /\ RowStart + ROW_HEAD <= block.size
  /\ w.kind \in {"row", "cut"} =>
       /\ row.flag = w.flag /\ row.lock = w.lock /\ row.count = Len(w.cols)
       /\ \A i \in Clear(w) : i <= Len(row.cols) => row.cols[i] = w.cols[i]
       /\ 1 .. Len(row.cols) \subseteq Clear(w) => at = w.places[Len(row.cols) + 1]

Reads ==
  /\ RowsAsWritten
  /\ pc = "columns" => slot <= Slots /\ SoFar(block.written[slot])
  /\ pc \in {"heads", "rows"} => slot <= Slots + 1

\* What AsTold says of the slot at hand.
LEMMA SlotTold ==
  ASSUME IInv, AsTold(block), slot <= Slots,
         NEW w, w = block.written[slot]
  PROVE  /\ w.kind \in {"free", "row", "cut", "link"}
         /\ w.kind = "free" <=> RowOffset(slot) = FREE /\ w.kind # "link"
         /\ w.kind \in {"row", "cut"} => RowAt(block, RowStart, w)
         /\ w.kind = "row" =>
              \A i \in 1 .. Len(w.cols) + 1 : w.places[i] <= block.size
         /\ w.kind = "cut" =>
              \/ RowStart + ROW_HEAD > block.size
              \/ w.places[Len(w.cols) + 1] > block.size
  <1>1. slot \in 1 .. block.heads.rows
    BY BlocksAssumption DEF IInv, TypeOK, Slots, Typed
  <1> HIDE DEF RowAt
  <1> QED  BY <1>1 DEF AsTold, RowOffset, RowStart

\* A column that is not one of 255 bytes is read as it was written, and fits where
\* it was written inside the block.
LEMMA ColumnRead ==
  ASSUME block \in Blocks, at \in Nat, NEW c \in Col, NEW q,
         ColumnAt(block, at, c, q), c.len # 255 \/ c.offset = 0
  PROVE  /\ ColumnFits /\ ColLen = NULL => c = [len |-> NULL, offset |-> 0] /\ ColStart = q
         /\ ColumnFits /\ ColLen # NULL =>
              c = [len |-> ColLen, offset |-> ColStart] /\ ColStart + ColLen = q
         /\ q <= block.size => ColumnFits
  <1>1. /\ block.size \in Nat /\ c.len \in Nat /\ c.offset \in Nat
        /\ c = [len |-> c.len, offset |-> c.offset]
    BY BlocksAssumption DEF Col
  <1>2. Byte(at) \in Nat /\ Word(at + 1) \in Nat
    BY ByteType, WordType
  <1>3. Byte(at) = ByteOf(block, at) /\ Word(at + 1) = WordOf(block, at + 1)
    BY DEF Byte, Word
  <1> HIDE DEF Byte, Word
  <1>4. CASE c = [len |-> NULL, offset |-> 0] /\ q = at + 1
             /\ (at < block.size => Byte(at) = NULL)
    BY <1>1, <1>2, <1>4 DEF ColumnFits, ColLen, ColStart, Extended, NULL, EXT
  <1>5. CASE c.offset = at + 1 /\ q = c.offset + c.len /\ c.len < EXT
             /\ (at < block.size => Byte(at) = c.len)
    BY <1>1, <1>2, <1>5 DEF ColumnFits, ColLen, ColStart, Extended, NULL, EXT
  <1>6. CASE c.offset = at + 3 /\ q = c.offset + c.len
             /\ (at < block.size => Byte(at) = EXT)
             /\ (c.offset <= block.size => Word(at + 1) = c.len)
    BY <1>1, <1>2, <1>6 DEF ColumnFits, ColLen, ColStart, Extended, NULL, EXT
  <1> QED  BY <1>3, <1>4, <1>5, <1>6 DEF ColumnAt

\* A row is left: the next slot is at hand, and the rows before it stay.
LEMMA LeftFaithful ==
  ASSUME IInv, Reads, NEW r, LeaveRow(r), slot <= Slots,
         Faithful(r, block.written[slot])
  PROVE  Reads'
  <1>1. /\ rows' = Append(rows, r) /\ rows \in Seq(Row) /\ block' = block
        /\ slot' = slot + 1 /\ pc' = "rows" /\ Len(rows) = slot - 1
        /\ slot \in Nat /\ Slots \in Nat
    BY BlocksAssumption DEF LeaveRow, IInv, TypeOK, Slots, Typed
  <1>2. ASSUME NEW k \in 1 .. Len(rows')
        PROVE  Faithful(rows'[k], block.written[k])
    <2>1. CASE k = Len(rows) + 1
      BY <1>1, <2>1
    <2>2. CASE k # Len(rows) + 1
      <3>1. k \in 1 .. Len(rows) /\ rows'[k] = rows[k]
        BY <1>1, <2>2
      <3> QED  BY <3>1 DEF Reads, RowsAsWritten
    <2> QED  BY <2>1, <2>2
  <1>3. RowsAsWritten'
    <2>1. pc' # "done"
      BY <1>1
    <2> QED  BY <1>1, <1>2, <2>1 DEF RowsAsWritten
  <1> QED  BY <1>1, <1>3 DEF Reads, Slots

\* A column is added: it is the one written there, if none of 255 bytes came before.
LEMMA AddedSoFar ==
  ASSUME IInv, pc = "columns", SoFar(block.written[slot]), Len(row.cols) < row.count,
         NEW w, w = block.written[slot],
         NEW c,
         row' = [row EXCEPT !.cols = Append(@, c)],
         UNCHANGED <<block, slot>>,
         Len(row.cols) + 1 \in Clear(w) /\ at = w.places[Len(row.cols) + 1] =>
           c = w.cols[Len(row.cols) + 1] /\ at' = w.places[Len(row.cols) + 2]
  PROVE  SoFar(w)'
  <1> DEFINE n == Len(row.cols)
  <1>1. /\ row.cols \in Seq(Col) /\ row \in Row /\ n \in Nat
    BY DEF IInv, TypeOK, Row
  <1>2. /\ Len(row'.cols) = n + 1 /\ row'.cols[n + 1] = c
        /\ \A i \in 1 .. n : row'.cols[i] = row.cols[i]
        /\ row'.flag = row.flag /\ row'.lock = row.lock /\ row'.count = row.count
    BY <1>1 DEF Row
  <1>3. SUFFICES ASSUME w.kind \in {"row", "cut"}
                 PROVE  /\ row'.flag = w.flag /\ row'.lock = w.lock
                        /\ row'.count = Len(w.cols)
                        /\ \A i \in Clear(w) : i <= n + 1 => row'.cols[i] = w.cols[i]
                        /\ 1 .. n + 1 \subseteq Clear(w) => at' = w.places[n + 2]
    BY <1>1, <1>2 DEF SoFar, Clear, RowStart, RowOffset
  <1>4. /\ row.flag = w.flag /\ row.lock = w.lock /\ row.count = Len(w.cols)
        /\ \A i \in Clear(w) : i <= n => row.cols[i] = w.cols[i]
        /\ 1 .. n \subseteq Clear(w) => at = w.places[n + 1]
    BY <1>3 DEF SoFar
  <1>5. \A i \in Clear(w) : i \in Nat \ {0} /\ 1 .. i \subseteq Clear(w)
    BY DEF Clear
  <1> HIDE DEF n
  <1>6. ASSUME n + 1 \in Clear(w)
        PROVE  c = w.cols[n + 1] /\ at' = w.places[n + 2]
    <2>1. 1 .. n \subseteq Clear(w)
      BY <1>1, <1>5, <1>6
    <2> QED  BY <1>4, <1>6, <2>1 DEF n
  <1>7. ASSUME NEW i \in Clear(w), i <= n + 1
        PROVE  row'.cols[i] = w.cols[i]
    <2>1. CASE i = n + 1
      <3>1. n + 1 \in Clear(w)
        BY <2>1
      <3>2. row'.cols[n + 1] = w.cols[n + 1]
        BY <1>2, <1>6, <3>1
      <3> QED  BY <2>1, <3>2
    <2>2. CASE i # n + 1
      <3>1. i \in 1 .. n
        BY <1>1, <1>5, <1>7, <2>2
      <3>2. i <= n /\ row'.cols[i] = row.cols[i]
        BY <1>1, <1>2, <3>1
      <3>3. row.cols[i] = w.cols[i]
        BY <1>4, <3>2
      <3> QED  BY <3>2, <3>3
    <2> QED  BY <2>1, <2>2
  <1>8. ASSUME 1 .. n + 1 \subseteq Clear(w)
        PROVE  at' = w.places[n + 2]
    <2>1. n + 1 \in Clear(w)
      BY <1>1, <1>8
    <2> QED  BY <1>6, <2>1
  <1> QED  BY <1>2, <1>4, <1>7, <1>8

\* The column at hand, as it was written.
LEMMA ColumnHere ==
  ASSUME IInv, AsTold(block), pc = "columns", slot <= Slots, Len(row.cols) < row.count,
         NEW w, w = block.written[slot], w.kind \in {"row", "cut"}, SoFar(w),
         NEW i, i = Len(row.cols) + 1, i \in Clear(w), at = w.places[i]
  PROVE  /\ w.cols[i] \in Col
         /\ ColumnAt(block, at, w.cols[i], w.places[i + 1])
         /\ w.cols[i].len # 255 \/ w.cols[i].offset = 0
  <1>1. RowAt(block, RowStart, w)
    BY SlotTold
  <1>2. i \in 1 .. Len(w.cols)
    BY DEF Clear
  <1>3. w.cols \in Seq(Col) /\ ColumnAt(block, w.places[i], w.cols[i], w.places[i + 1])
    BY <1>1, <1>2 DEF RowAt
  <1> QED  BY <1>2, <1>3 DEF Clear

\* In a slot with a row or a cut row all columns read before are in front of the
\* first of 255 bytes, or none behind them is.
LEMMA ClearSoFar ==
  ASSUME IInv, pc = "columns", Len(row.cols) < row.count,
         NEW w, w.kind \in {"row", "cut"}, SoFar(w),
         NEW i, i = Len(row.cols) + 1, i \in Clear(w)
  PROVE  at = w.places[i]
  <1>1. Len(row.cols) \in Nat
    BY DEF IInv, TypeOK, Row
  <1>2. 1 .. Len(row.cols) \subseteq Clear(w)
    BY <1>1 DEF Clear
  <1> QED  BY <1>2 DEF SoFar

\* Where a column does not fit, the row leaves the block or one of 255 bytes came
\* before.
LEMMA NoColumnFaithful ==
  ASSUME IInv, AsTold(block), slot <= Slots, NoColumn,
         NEW w, w = block.written[slot], SoFar(w)
  PROVE  Faithful(EmptyRow, w)
  <1>1. /\ pc = "columns" /\ Len(row.cols) < row.count /\ ~ ColumnFits
        /\ block \in Blocks /\ at \in Nat
    BY DEF NoColumn, AtColumn, IInv, TypeOK
  <1>2. CASE w.kind = "row"
    <2>1. SUFFICES ASSUME Clear(w) = DOMAIN w.cols PROVE FALSE
      BY <1>2 DEF Faithful, Misread
    <2>2. PICK i : i = Len(row.cols) + 1
      OBVIOUS
    <2>3. RowAt(block, RowStart, w) /\ \A j \in 1 .. Len(w.cols) + 1 : w.places[j] <= block.size
      BY <1>2, SlotTold
    <2>4. Len(row.cols) \in Nat /\ row.count = Len(w.cols) /\ w.cols \in Seq(Col)
      BY <1>2, <2>3 DEF SoFar, RowAt, IInv, TypeOK, Row
    <2>5. i \in Clear(w) /\ i + 1 \in 1 .. Len(w.cols) + 1
      BY <1>1, <2>1, <2>2, <2>4
    <2>6. at = w.places[i]
      BY <1>1, <1>2, <2>2, <2>5, ClearSoFar
    <2>7. /\ w.cols[i] \in Col /\ ColumnAt(block, at, w.cols[i], w.places[i + 1])
          /\ w.cols[i].len # 255 \/ w.cols[i].offset = 0
      BY <1>1, <1>2, <2>2, <2>5, <2>6, ColumnHere
    <2>8. w.places[i + 1] <= block.size
      BY <2>3, <2>5
    <2> HIDE DEF ColumnFits
    <2> QED  BY <1>1, <2>7, <2>8, ColumnRead
  <1>3. CASE w.kind # "row"
    BY <1>3 DEF Faithful
  <1> QED  BY <1>2, <1>3

\* A row of which all columns were read is the one of its slot, and a row that
\* leaves the block comes this far only behind a column of 255 bytes.
LEMMA RowDoneFaithful ==
  ASSUME IInv, AsTold(block), slot <= Slots, RowDone,
         NEW w, w = block.written[slot], SoFar(w)
  PROVE  Faithful(row, w)
  <1>1. /\ pc = "columns" /\ Len(row.cols) = row.count /\ at <= block.size /\ at \in Nat
        /\ block.size \in Nat /\ block \in Blocks
    BY BlocksAssumption DEF RowDone, IInv, TypeOK
  <1>2. ASSUME w.kind \in {"row", "cut"}
        PROVE  ReadsAs(row, w)
    <2>1. /\ row.flag = w.flag /\ row.lock = w.lock /\ row.count = Len(w.cols)
          /\ \A i \in Clear(w) : i <= Len(row.cols) => row.cols[i] = w.cols[i]
      BY <1>2 DEF SoFar
    <2>2. \A i \in Clear(w) : i <= Len(w.cols)
      BY DEF Clear
    <2> QED  BY <1>1, <2>1, <2>2 DEF ReadsAs
  <1>3. ASSUME w.kind = "cut"
        PROVE  Misread(w)
    <2>1. SUFFICES ASSUME Clear(w) = DOMAIN w.cols PROVE FALSE
      BY DEF Misread
    <2>2. /\ RowAt(block, RowStart, w)
          /\ RowStart + ROW_HEAD > block.size \/ w.places[Len(w.cols) + 1] > block.size
      BY <1>3, SlotTold
    <2>3. at = w.places[Len(w.cols) + 1]
      <3>1. w.cols \in Seq(Col) /\ DOMAIN w.cols = 1 .. Len(w.cols)
        BY <2>2 DEF RowAt
      <3> QED  BY <1>1, <1>3, <2>1, <3>1 DEF SoFar
    <2>4. RowStart + ROW_HEAD <= block.size /\ RowStart \in Nat
      BY <1>1, RowStartType DEF SoFar
    <2> QED  BY <1>1, <2>2, <2>3, <2>4 DEF ROW_HEAD
  <1> QED  BY <1>2, <1>3 DEF Faithful, SoFar

\* Where no row head fits, no row was written inside the block.
LEMMA NoHeadFaithful ==
  ASSUME IInv, AsTold(block), FreeSlot \/ NoRowHead,
         NEW w, w = block.written[slot]
  PROVE  slot <= Slots /\ Faithful(EmptyRow, w)
  <1>1. /\ slot <= Slots /\ block.size \in Nat /\ block \in Blocks
        /\ RowOffset(slot) = FREE \/ RowStart + ROW_HEAD > block.size
    BY BlocksAssumption DEF FreeSlot, NoRowHead, AtSlot, IInv
  <1>2. ASSUME w.kind = "row"
        PROVE  FALSE
    <2>1. /\ RowAt(block, RowStart, w) /\ RowOffset(slot) # FREE
          /\ \A i \in 1 .. Len(w.cols) + 1 : w.places[i] <= block.size
      BY <1>1, <1>2, SlotTold
    <2>2. w.places[1] = RowStart + ROW_HEAD /\ Len(w.cols) \in Nat
      BY <2>1 DEF RowAt
    <2>3. w.places[1] <= block.size
      BY <2>1, <2>2
    <2>4. RowStart \in Nat
      BY <1>1, RowStartType
    <2> QED  BY <1>1, <2>1, <2>2, <2>3, <2>4 DEF ROW_HEAD
  <1> QED  BY <1>1, <1>2 DEF Faithful

\* The head of a row is read as it was written, and the first column is next.
LEMMA HeadSoFar ==
  ASSUME IInv, AsTold(block), RowHead,
         NEW w, w = block.written[slot]
  PROVE  slot <= Slots /\ SoFar(w)'
  <1>1. /\ slot <= Slots /\ RowOffset(slot) # FREE /\ RowStart + ROW_HEAD <= block.size
        /\ UNCHANGED <<block, slot>> /\ at' = RowStart + ROW_HEAD
    BY DEF RowHead, AtSlot
  <1>2. row' = [flag |-> Byte(RowStart), lock |-> Byte(RowStart + 1),
                count |-> Byte(RowStart + 2), cols |-> << >>]
    BY DEF RowHead
  <1>3. Len(row'.cols) = 0
    BY <1>2
  <1>4. w.kind # "free" /\ RowStart' = RowStart
    BY <1>1, SlotTold DEF RowStart, RowOffset
  <1>5. ASSUME w.kind \in {"row", "cut"}
        PROVE  /\ row'.flag = w.flag /\ row'.lock = w.lock /\ row'.count = Len(w.cols)
               /\ at' = w.places[1]
    <2>1. RowAt(block, RowStart, w)
      BY <1>1, <1>5, SlotTold
    <2> QED  BY <1>1, <1>2, <2>1 DEF RowAt, Byte
  <1>6. \A i \in Clear(w) : ~ (i <= 0)
    BY DEF Clear
  <1>7. w.kind \in {"row", "cut"} =>
          /\ row'.flag = w.flag /\ row'.lock = w.lock /\ row'.count = Len(w.cols)
          /\ \A i \in Clear(w) : i <= Len(row'.cols) => row'.cols[i] = w.cols[i]
          /\ 1 .. Len(row'.cols) \subseteq Clear(w) => at' = w.places[Len(row'.cols) + 1]
    BY <1>3, <1>5, <1>6
  <1> QED  BY <1>1, <1>4, <1>7 DEF SoFar, Clear

\* The column read, when it was written there.
LEMMA ColumnSoFar ==
  ASSUME IInv, AsTold(block), slot <= Slots, NullColumn \/ DataColumn,
         NEW w, w = block.written[slot], SoFar(w)
  PROVE  SoFar(w)'
  <1>1. /\ pc = "columns" /\ Len(row.cols) < row.count /\ ColumnFits
        /\ UNCHANGED <<block, slot>> /\ at \in Nat /\ block \in Blocks
        /\ Len(row.cols) \in Nat
    BY DEF NullColumn, DataColumn, AtColumn, IInv, TypeOK, Row
  <1>2. PICK c, i : /\ row' = [row EXCEPT !.cols = Append(@, c)]
                    /\ i = Len(row.cols) + 1
                    /\ \/ /\ ColLen = NULL /\ c = [len |-> NULL, offset |-> 0]
                          /\ at' = ColStart
                       \/ /\ ColLen # NULL /\ c = [len |-> ColLen, offset |-> ColStart]
                          /\ at' = ColStart + ColLen
    <2>1. CASE NullColumn
      BY <2>1 DEF NullColumn
    <2>2. CASE DataColumn
      BY <2>2 DEF DataColumn
    <2> QED  BY <2>1, <2>2
  <1>3. ASSUME i \in Clear(w), at = w.places[i], w.kind \in {"row", "cut"}
        PROVE  c = w.cols[i] /\ at' = w.places[i + 1]
    <2>1. /\ w.cols[i] \in Col /\ ColumnAt(block, at, w.cols[i], w.places[i + 1])
          /\ w.cols[i].len # 255 \/ w.cols[i].offset = 0
      BY <1>1, <1>2, <1>3, ColumnHere
    <2> HIDE DEF ColumnFits, ColLen, ColStart, ColumnAt
    <2>2. PICK d, q : d = w.cols[i] /\ q = w.places[i + 1]
      OBVIOUS
    <2>3. /\ ColumnFits /\ ColLen = NULL => d = [len |-> NULL, offset |-> 0] /\ ColStart = q
          /\ ColumnFits /\ ColLen # NULL =>
               d = [len |-> ColLen, offset |-> ColStart] /\ ColStart + ColLen = q
      BY <1>1, <2>1, <2>2, ColumnRead
    <2> QED  BY <1>1, <1>2, <2>2, <2>3
  <1>4. CASE w.kind \in {"row", "cut"}
    <2>1. i \in Clear(w) /\ at = w.places[i] => c = w.cols[i] /\ at' = w.places[i + 1]
      BY <1>3, <1>4
    <2>2. Len(row.cols) + 2 = i + 1
      BY <1>1, <1>2
    <2> QED  BY <1>1, <1>2, <2>1, <2>2, AddedSoFar
  <1>5. CASE w.kind \notin {"row", "cut"}
    BY <1>1, <1>5 DEF SoFar, RowStart, RowOffset
  <1> QED  BY <1>4, <1>5

LEMMA ReadsInitially == Init => Reads
  <1> SUFFICES ASSUME Init PROVE Reads
    OBVIOUS
  <1>1. /\ pc = "heads" /\ rows = << >> /\ slot = 1 /\ Slots \in Nat
    BY BlocksAssumption DEF Init, Slots, Typed
  <1> QED  BY <1>1 DEF Reads, RowsAsWritten

LEMMA ReadsPreserved ==
  ASSUME IInv, AsTold(block), Reads, [Next]_vars
  PROVE  Reads'
  <1> PICK w : w = block.written[slot]
    OBVIOUS
  <1>1. /\ pc = "columns" => slot <= Slots /\ SoFar(w)
        /\ RowsAsWritten /\ Slots \in Nat /\ slot \in Nat /\ Len(rows) = slot - 1
    BY BlocksAssumption DEF Reads, IInv, TypeOK, Slots, Typed
  <1>2. CASE FreeSlot \/ NoRowHead
    <2>1. LeaveRow(EmptyRow)
      BY <1>2 DEF FreeSlot, NoRowHead
    <2>2. slot <= Slots /\ Faithful(EmptyRow, w)
      BY <1>2, NoHeadFaithful
    <2> QED  BY <2>1, <2>2, LeftFaithful
  <1>3. CASE NoColumn
    <2>1. LeaveRow(EmptyRow) /\ pc = "columns"
      BY <1>3 DEF NoColumn, AtColumn
    <2>2. Faithful(EmptyRow, w)
      BY <1>1, <1>3, <2>1, NoColumnFaithful
    <2> QED  BY <1>1, <2>1, <2>2, LeftFaithful
  <1>4. CASE RowDone
    <2>1. LeaveRow(row) /\ pc = "columns"
      BY <1>4 DEF RowDone
    <2>2. Faithful(row, w)
      BY <1>1, <1>4, <2>1, RowDoneFaithful
    <2> QED  BY <1>1, <2>1, <2>2, LeftFaithful
  <1>5. CASE RowHead
    <2>1. slot <= Slots /\ SoFar(w)'
      BY <1>5, HeadSoFar
    <2>2. pc' = "columns" /\ UNCHANGED <<block, slot, rows>>
      BY <1>5 DEF RowHead
    <2> QED  BY <1>1, <2>1, <2>2 DEF Reads, RowsAsWritten, SoFar, Slots, RowStart, RowOffset
  <1>6. CASE NullColumn \/ DataColumn
    <2>1. pc = "columns" /\ pc' = pc /\ UNCHANGED <<block, slot, rows>>
      BY <1>6 DEF NullColumn, DataColumn, AtColumn
    <2>2. slot <= Slots /\ SoFar(w)'
      BY <1>1, <1>6, <2>1, ColumnSoFar
    <2> QED  BY <1>1, <2>1, <2>2 DEF Reads, RowsAsWritten, SoFar, Slots, RowStart, RowOffset
  <1>7. CASE Heads
    <2>1. pc' \in {"rows", "refused"} /\ UNCHANGED <<block, slot, rows>> /\ pc = "heads"
      BY <1>7 DEF Heads
    <2> QED  BY <1>1, <2>1 DEF Reads, RowsAsWritten, Slots
  <1>8. CASE Finish
    <2>1. pc' = "done" /\ UNCHANGED <<block, slot, rows>> /\ pc = "rows" /\ slot > Slots
      BY <1>8 DEF Finish
    <2>2. Len(rows) = Slots
      BY <1>1, <2>1 DEF Reads
    <2> QED  BY <1>1, <2>1, <2>2 DEF Reads, RowsAsWritten, Slots
  <1>9. CASE UNCHANGED vars
    BY <1>9 DEF vars, Reads, RowsAsWritten, SoFar, Slots, RowStart, RowOffset
  <1> QED
    BY <1>2, <1>3, <1>4, <1>5, <1>6, <1>7, <1>8, <1>9 DEF Next, Step

\* layout_dlb_d.h:406-413, 322-352: in a block that holds what the database tells,
\* the rows are read as written, each as the row of its slot, whatever lies in the
\* other slots and in the bytes between: for every size of block, every number of
\* slots and columns and every length of a column.
THEOREM RowsAsWrittenHolds == Spec => [](AsTold(block) => RowsAsWritten)
  <1> DEFINE TInv == IInv /\ (AsTold(block) => Reads)
  <1>1. Init => TInv
    BY Initially, ReadsInitially
  <1>2. TInv /\ [Next]_vars => TInv'
    <2> SUFFICES ASSUME TInv, [Next]_vars PROVE TInv'
      OBVIOUS
    <2>1. IInv'
      BY Preserved
    <2>2. block' = block
      BY DEF Next, Step, Heads, FreeSlot, NoRowHead, RowHead, NullColumn, DataColumn,
             NoColumn, RowDone, Finish, LeaveRow, vars
    <2>3. ASSUME AsTold(block)' PROVE Reads'
      <3>1. AsTold(block)
        BY <2>2, <2>3
      <3> QED  BY <3>1, ReadsPreserved
    <2> QED  BY <2>1, <2>3
  <1>3. TInv => (AsTold(block) => RowsAsWritten)
    BY DEF Reads
  <1> HIDE DEF TInv
  <1> QED  BY <1>1, <1>2, <1>3, PTL DEF Spec

-----------------------------------------------------------------------------
(* How long it takes: a natural number that every step makes smaller. The  *)
(* count of columns has one byte, so that a slot takes at most 258 steps.  *)

SlotInv ==
  /\ pc \in {"heads", "rows"} => slot <= Slots + 1
  /\ pc = "columns" => slot <= Slots /\ row.count <= 255

StepsLeft ==
  CASE pc = "heads" -> 258 * (Slots + 1 - slot) + 2
    [] pc = "rows" -> 258 * (Slots + 1 - slot) + 1
    [] pc = "columns" -> 258 * (Slots - slot) + (row.count - Len(row.cols)) + 2
    [] OTHER -> 0

LEMMA SlotInitially == Init => SlotInv
  BY BlocksAssumption DEF Init, SlotInv, Slots, Typed

LEMMA SlotFacts ==
  ASSUME IInv
  PROVE  /\ slot \in Nat /\ Slots \in Nat /\ row.count \in Nat /\ row.cols \in Seq(Col)
         /\ Len(row.cols) \in Nat /\ Len(row.cols) <= row.count
         /\ pc \in {"heads", "rows", "columns", "done", "refused"}
  BY BlocksAssumption DEF IInv, TypeOK, Row, Slots, Typed

\* What a step does to the slots and columns left.
Begins == pc = "heads" /\ slot' = slot /\ pc' \in {"rows", "refused"}
LeavesSlot ==
  pc \in {"rows", "columns"} /\ slot <= Slots /\ slot' = slot + 1 /\ pc' = "rows"
EntersRow ==
  /\ pc = "rows" /\ slot <= Slots /\ slot' = slot /\ pc' = "columns"
  /\ row'.count \in Nat /\ row'.count <= 255 /\ Len(row'.cols) = 0
ReadsColumn ==
  /\ pc = "columns" /\ slot' = slot /\ pc' = "columns"
  /\ row'.count = row.count /\ Len(row'.cols) = Len(row.cols) + 1
  /\ Len(row.cols) < row.count
Ends == pc = "rows" /\ slot' = slot /\ pc' = "done"

LEMMA Moves ==
  ASSUME IInv, SlotInv, Step
  PROVE  /\ Slots' = Slots
         /\ Begins \/ LeavesSlot \/ EntersRow \/ ReadsColumn \/ Ends
  <1>1. /\ block \in Blocks /\ row \in Row /\ row.cols \in Seq(Col)
        /\ (pc = "columns" => slot <= Slots)
    BY DEF IInv, TypeOK, Row, SlotInv
  <1>2. CASE Heads
    BY <1>2 DEF Heads, Slots, Begins
  <1>3. CASE FreeSlot \/ NoRowHead \/ NoColumn \/ RowDone
    BY <1>1, <1>3 DEF FreeSlot, NoRowHead, NoColumn, RowDone, LeaveRow, AtSlot, AtColumn, Slots,
                LeavesSlot
  <1>4. CASE RowHead
    <2>1. Byte(RowStart + 2) \in 0 .. 255
      BY <1>1, BlocksAssumption DEF Byte, ByteOf
    <2>2. Byte(RowStart + 2) \in Nat /\ Byte(RowStart + 2) <= 255
      <3> PICK n : n = Byte(RowStart + 2)
        OBVIOUS
      <3>1. n \in 0 .. 255
        BY <2>1
      <3> QED  BY <3>1
    <2>3. row'.count = Byte(RowStart + 2) /\ row'.cols = << >>
      BY <1>4 DEF RowHead
    <2> QED  BY <1>4, <2>2, <2>3 DEF RowHead, AtSlot, Slots, EntersRow
  <1>5. CASE NullColumn \/ DataColumn
    <2>1. /\ pc = "columns" /\ Len(row.cols) < row.count /\ UNCHANGED <<block, pc, slot>>
          /\ \E c : row' = [row EXCEPT !.cols = Append(@, c)]
      BY <1>5 DEF NullColumn, DataColumn, AtColumn
    <2>2. PICK c : row' = [row EXCEPT !.cols = Append(@, c)]
      BY <2>1
    <2>3. row'.count = row.count /\ row'.cols = Append(row.cols, c)
      BY <1>1, <2>2 DEF Row
    <2>4. row.cols \in Seq(Col \cup {c})
      BY <1>1
    <2>5. Len(row'.cols) = Len(row.cols) + 1
      BY <2>3, <2>4
    <2> QED  BY <2>1, <2>3, <2>5 DEF Slots, ReadsColumn
  <1>6. CASE Finish
    BY <1>6 DEF Finish, Slots, Ends
  <1> QED  BY <1>2, <1>3, <1>4, <1>5, <1>6 DEF Step

LEMMA SlotPreserved == IInv /\ SlotInv /\ [Next]_vars => SlotInv'
  <1> SUFFICES ASSUME IInv, SlotInv, [Next]_vars PROVE SlotInv'
    OBVIOUS
  <1>1. slot \in Nat /\ Slots \in Nat
    BY SlotFacts
  <1>2. CASE Step
    <2>1. Slots' = Slots /\ (Begins \/ LeavesSlot \/ EntersRow \/ ReadsColumn \/ Ends)
      BY <1>2, Moves
    <2>2. CASE Begins
      BY <1>1, <2>1, <2>2 DEF SlotInv, Begins
    <2>3. CASE LeavesSlot
      BY <1>1, <2>1, <2>3 DEF SlotInv, LeavesSlot
    <2>4. CASE EntersRow
      BY <1>1, <2>1, <2>4 DEF SlotInv, EntersRow
    <2>5. CASE ReadsColumn
      BY <1>1, <2>1, <2>5 DEF SlotInv, ReadsColumn
    <2>6. CASE Ends
      BY <2>6 DEF SlotInv, Ends
    <2> QED  BY <2>1, <2>2, <2>3, <2>4, <2>5, <2>6
  <1>3. CASE UNCHANGED vars
    BY <1>3 DEF vars, SlotInv, Slots
  <1> QED  BY <1>2, <1>3 DEF Next

LEMMA StepsLeftTyped == IInv /\ SlotInv => StepsLeft \in Nat
  <1> SUFFICES ASSUME IInv, SlotInv PROVE StepsLeft \in Nat
    OBVIOUS
  <1> QED  BY SlotFacts DEF SlotInv, StepsLeft

LEMMA StepsLeftFalls == IInv /\ SlotInv /\ [Next]_vars => [StepsLeft' < StepsLeft]_vars
  <1> SUFFICES ASSUME IInv, SlotInv, Step PROVE StepsLeft' < StepsLeft
    BY DEF Next
  <1>1. /\ slot \in Nat /\ Slots \in Nat /\ row.count \in Nat /\ Len(row.cols) \in Nat
        /\ Len(row.cols) <= row.count
    BY SlotFacts
  <1>2. Slots' = Slots
    BY Moves
  <1>3. CASE Begins
    BY <1>1, <1>2, <1>3 DEF StepsLeft, SlotInv, Begins
  <1>4. CASE LeavesSlot
    BY <1>1, <1>2, <1>4 DEF StepsLeft, LeavesSlot
  <1>5. CASE EntersRow
    BY <1>1, <1>2, <1>5 DEF StepsLeft, EntersRow
  <1>6. CASE ReadsColumn
    BY <1>1, <1>2, <1>6 DEF StepsLeft, ReadsColumn
  <1>7. CASE Ends
    BY <1>1, <1>2, <1>7 DEF StepsLeft, SlotInv, Ends
  <1> QED  BY <1>3, <1>4, <1>5, <1>6, <1>7, Moves

\* layout_dlb_d.h:322-352 and 406-413: whatever the counts and lengths of a block
\* say, its decoding comes nearer to its end with every step, and takes at most 258
\* of them for a slot.
THEOREM StepsBounded ==
  Spec => /\ StepsLeft <= 258 * Slots + 2
          /\ [](StepsLeft \in Nat)
          /\ [][StepsLeft' < StepsLeft]_vars
  <1>1. Init => StepsLeft <= 258 * Slots + 2
    BY Initially, SlotFacts DEF Init, StepsLeft
  <1> QED
    BY <1>1, Initially, Preserved, SlotInitially, SlotPreserved, StepsLeftTyped,
       StepsLeftFalls, PTL DEF Spec
=============================================================================
