---------------------------- MODULE MCDataBlock ----------------------------
(***************************************************************************)
(* Blocks with two rows of up to two columns, at the lengths where one     *)
(* byte stops being enough, in every byte order and with bytes between     *)
(* them that look like lengths; before, between and behind them free       *)
(* slots, links of the free list, and rows that leave the block.           *)
(***************************************************************************)
EXTENDS DataBlock, SequencesExt, TLC

SIZE == 900       \* the ITL list of 24 entries fits
ROW_1 == 120
ROW_2 == 640

MCHeads(compressed, n) ==
  [itls |-> 1, bitmap |-> TRUE, compressed |-> compressed, fcls |-> 1, perm |-> 1,
   tdrs |-> 1, rows |-> n]

WordBytes(i, n, isLittle) ==
  (i :> IF isLittle THEN n % 256 ELSE n \div 256)
    @@ (i + 1 :> IF isLittle THEN n \div 256 ELSE n % 256)

Merge(fs) == FoldLeft(LAMBDA f, g : f @@ g, << >>, fs)
Words(i, ns, isLittle) ==
  Merge([k \in DOMAIN ns |-> WordBytes(i + 2 * (k - 1), ns[k], isLittle)])

\* The database writes lengths above 250 in three bytes. len -1: NULL.
PutColumn(len, isLittle, acc) ==
  LET start == acc.at + (IF len > 250 THEN 3 ELSE 1) IN
    IF len = -1
    THEN [at |-> acc.at + 1, places |-> Append(acc.places, acc.at + 1),
          bytes |-> acc.bytes @@ (acc.at :> NULL),
          cols |-> Append(acc.cols, [len |-> NULL, offset |-> 0])]
    ELSE [at |-> start + len, places |-> Append(acc.places, start + len),
          bytes |-> acc.bytes @@
                      (IF len > 250
                       THEN (acc.at :> EXT) @@ WordBytes(acc.at + 1, len, isLittle)
                       ELSE acc.at :> len),
          cols |-> Append(acc.cols, [len |-> len, offset |-> start])]

PutRow(start, lens, isLittle) ==
  FoldLeft(LAMBDA acc, len : PutColumn(len, isLittle, acc),
           [at |-> start + ROW_HEAD, places |-> <<start + ROW_HEAD>>,
            bytes |-> (start :> 44) @@ (start + 1 :> 1) @@ (start + 2 :> Len(lens)),
            cols |-> << >>],
           lens)

\* A slot: where its row begins, what is there, what the directory says.
RowSlot(kind, start, lens) == [kind |-> kind, start |-> start, lens |-> lens]
Free == RowSlot("free", 0, << >>)
Link(n) == RowSlot("link", n, << >>)
\* A row whose last bytes are not in the block.
Cut(behind, lens) == RowSlot("cut", SIZE - behind, lens)

Entry(s, heads) ==
  CASE s.kind = "free" -> FREE
    [] s.kind = "link" -> s.start
    [] OTHER -> s.start - DataAt(heads)

HasRow(s) == s.kind \in {"row", "cut"}

BlockOf(slots, compressed, isLittle, filler) ==
  LET heads == MCHeads(compressed, Len(slots))
      data == DataAt(heads)
      put == [k \in DOMAIN slots |->
                IF HasRow(slots[k]) THEN PutRow(slots[k].start, slots[k].lens, isLittle)
                ELSE [at |-> 0, places |-> << >>, bytes |-> << >>, cols |-> << >>]]
      \* The rows, the first free one and the free space.
      head == (data :> IF compressed THEN 64 ELSE 0) @@ (data + 1 :> 1)
                @@ Words(data + 2, <<Len(slots), 2, 30, 400, 370>>, isLittle)
      directory == [k \in DOMAIN slots |->
                      WordBytes(RowDirAt(heads) + 2 * (k - 1), Entry(slots[k], heads),
                                isLittle)]
  IN [size |-> SIZE, isLittle |-> isLittle, heads |-> heads, filler |-> filler,
      bytes |-> head @@ Merge(directory) @@ Merge([k \in DOMAIN slots |-> put[k].bytes]),
      written |-> [k \in DOMAIN slots |->
                     [kind |-> slots[k].kind, flag |-> 44, lock |-> 1,
                      cols |-> put[k].cols, places |-> put[k].places]]]

Lens == {-1, 0, 3, 250, 251, 254, 255, 256}
Rows1 == {<< >>} \cup {<<l>> : l \in Lens} \cup {<<l, m>> : l \in Lens, m \in Lens}
Rows2 == {<<3, -1>>, <<250>>}

Layouts(a, b) ==
  {<<a, b>>, <<b, Free, a>>, <<Link(2), Link(3), Free, a, b>>, <<Link(2), b, a>>}
Cuts(b) ==
  {<<Cut(n, <<300>>), b>> : n \in {2, 3, 4, 5, 100}}
    \cup {<<Cut(n, lens), b>> : n \in {3, 100}, lens \in {<<-1, 300>>, <<255>>, <<255, 3>>}}

MCBlocks ==
  UNION {
    {BlockOf(slots, FALSE, isLittle, filler) :
       slots \in UNION {Layouts(RowSlot("row", ROW_1, r), RowSlot("row", ROW_2, s)) :
                          r \in Rows1, s \in Rows2},
       isLittle \in BOOLEAN, filler \in {0, 1, EXT, NULL}},
    {BlockOf(slots, compressed, isLittle, filler) :
       slots \in Cuts(RowSlot("row", ROW_2, <<3, -1>>)),
       compressed \in BOOLEAN, isLittle \in BOOLEAN, filler \in {0, 1, EXT, NULL}},
    {[BlockOf(<<Free>>, FALSE, TRUE, 0) EXCEPT !.heads.rows = n] : n \in {500, 65535}} }

\* What the rows are compared with is what stands in the blocks.
ASSUME WrittenAssumption ==
  \A b \in MCBlocks : Accepts(DLB_D(b.heads, b.isLittle), b.size) => AsTold(b)
=============================================================================
