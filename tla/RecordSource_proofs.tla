------------------------ MODULE RecordSource_proofs ------------------------
(***************************************************************************)
(* The record source, for every log, block size and chunk size: what is    *)
(* assembled has the length and the end its header says, no byte is handed *)
(* out twice, an exception loses records of one block only, and a whole    *)
(* log is read in full.                                                    *)
(***************************************************************************)
EXTENDS RedoLog, FileBlockSource_proofs

-----------------------------------------------------------------------------
(* Arithmetic                                                               *)

LEMMA DivModNat ==
  ASSUME NEW a \in Nat, NEW b \in Nat \ {0}
  PROVE  a \div b \in Nat /\ a % b \in Nat
  OBVIOUS

LEMMA Sizes ==
  /\ BlockSz \in Nat /\ body_sz \in Nat \ {0} /\ body_sz = BlockSz - 16
  /\ BLOCK_HEAD = 16
  BY BlockSzAssumption DEF body_sz, BLOCK_HEAD, MIN_RECORD

-----------------------------------------------------------------------------
(* Sequences                                                                *)

\* Taking the head of q and putting it at the end of d moves nothing.
LEMMA MoveHead ==
  ASSUME NEW S, NEW d \in Seq(S), NEW q \in Seq(S), q # << >>
  PROVE  Append(d, q[1]) \o Tail(q) = d \o q
  <1>1. Len(q) \in Nat \ {0} /\ Len(d) \in Nat
    <2>1. Len(q) \in Nat \ {0}
      BY EmptySeq, Zenon
    <2> QED
      BY <2>1
  <1>2. q[1] \in S
    BY <1>1, ElementOfSeq, 1 \in 1 .. Len(q)
  <1>3. /\ Append(d, q[1]) \in Seq(S) /\ Len(Append(d, q[1])) = Len(d) + 1
        /\ Tail(q) \in Seq(S) /\ Len(Tail(q)) = Len(q) - 1
    BY <1>1, <1>2
  <1> DEFINE u == Append(d, q[1]) \o Tail(q)
             v == d \o q
  <1>4. /\ u \in Seq(S) /\ v \in Seq(S)
        /\ Len(u) = Len(d) + Len(q) /\ Len(v) = Len(d) + Len(q)
    BY <1>1, <1>3
  <1>5. ASSUME NEW i \in 1 .. Len(u)
        PROVE  u[i] = v[i]
    BY <1>1, <1>2, <1>3, <1>4
  <1> QED
    BY <1>4, <1>5, SeqEqual

LEMMA ConcatAppend ==
  ASSUME NEW S, NEW d \in Seq(S), NEW q \in Seq(S), NEW r \in S
  PROVE  d \o Append(q, r) = Append(d \o q, r)
  <1> DEFINE u == d \o Append(q, r)
             v == Append(d \o q, r)
  <1>1. /\ Append(q, r) \in Seq(S) /\ Len(Append(q, r)) = Len(q) + 1
        /\ d \o q \in Seq(S) /\ Len(d \o q) = Len(d) + Len(q)
        /\ Len(d) \in Nat /\ Len(q) \in Nat
    OBVIOUS
  <1>2. /\ u \in Seq(S) /\ v \in Seq(S)
        /\ Len(u) = Len(d) + Len(q) + 1 /\ Len(v) = Len(d) + Len(q) + 1
    BY <1>1
  <1>3. ASSUME NEW i \in 1 .. Len(u)
        PROVE  u[i] = v[i]
    BY <1>1, <1>2
  <1> QED
    BY <1>2, <1>3, SeqEqual

-----------------------------------------------------------------------------
(* Records                                                                  *)

\* A record that begins at a bound: its bound was computed where it begins.
Begun(r) ==
  /\ r \in RecordType
  /\ r.offset \in Readable
  /\ r.bound.info \in Heads
  /\ r.bound = Bound_of(r.bound.info, r.offset)
  /\ r.bound.len >= MIN_RECORD

\* Every bound of a block, and only the last one leaves the block.
LEMMA BlockBounds ==
  ASSUME log \in Logs, NEW i \in 1 .. FileSize, NEW n \in 1 .. Len(Block(i).bounds)
  PROVE  LET s == Block(i).bounds
             o == BoundStart(Block(i), s, n)
         IN /\ s \in Seq(Bounds) /\ s[n] \in Bounds /\ Len(s) \in Nat
            /\ o \in Readable
            /\ s[n].info \in Heads /\ s[n] = Bound_of(s[n].info, o)
            /\ s[n].len >= MIN_RECORD
            /\ n < Len(s) => s[n].next_blocks = 0
  <1> DEFINE b == Block(i)
             s == b.bounds
             o == BoundStart(b, s, n)
  <1>1. /\ IsBoundChain(b, s)
        /\ \A x \in DOMAIN b.heads : b.heads[x] \in Heads
    BY LogsAssumption DEF Block, FileSize
  <1>2. s \in Seq(Bounds) /\ s[n] \in Bounds /\ Len(s) \in Nat
    BY <1>1, ElementOfSeq DEF IsBoundChain
  <1>3. /\ is_bound(b, o) /\ s[n] = Bound_of(b.heads[o], o)
        /\ n < Len(s) => s[n].next_blocks = 0
    BY <1>1 DEF IsBoundChain
  <1>4. /\ o \in Readable /\ b.heads[o] \in Heads
        /\ b.heads[o].len >= MIN_RECORD
    BY <1>1, <1>3 DEF is_bound
  <1>5. s[n].info = b.heads[o] /\ s[n].len = b.heads[o].len
    BY <1>3 DEF Bound_of
  <1> QED
    BY <1>2, <1>3, <1>4, <1>5

LEMMA BoundEnd ==
  ASSUME NEW info \in Heads, NEW o \in Readable
  PROVE  LET b == Bound_of(info, o)
             needs == info.len - (BlockSz - o)
         IN /\ b.len = info.len /\ b.info = info
            /\ needs < 0 => b.next_blocks = 0 /\ b.next_offset = o + info.len
            /\ needs = 0 => b.next_blocks = 1 /\ b.next_offset = BLOCK_HEAD
            /\ needs > 0 =>
                 /\ b.next_blocks = (needs \div body_sz) + 1
                 /\ b.next_offset = BLOCK_HEAD + (needs % body_sz)
            /\ o \in Nat /\ info.len \in Nat /\ BLOCK_HEAD <= o /\ o < BlockSz
  <1> DEFINE needs == info.len - (BlockSz - o)
  <1>1. /\ o \in Nat /\ info.len \in Nat /\ BLOCK_HEAD <= o /\ o < BlockSz
        /\ needs \in Int
    BY Sizes DEF Readable, PEEK, Heads
  <1>2. Bound_of(info, o).len = info.len /\ Bound_of(info, o).info = info
    BY DEF Bound_of
  <1>3. needs < 0 => /\ Bound_of(info, o).next_blocks = 0
                     /\ Bound_of(info, o).next_offset = o + info.len
    BY <1>1 DEF Bound_of
  <1>4. needs = 0 => /\ Bound_of(info, o).next_blocks = 1
                     /\ Bound_of(info, o).next_offset = BLOCK_HEAD
    BY <1>1 DEF Bound_of
  <1>5. needs > 0 => /\ Bound_of(info, o).next_blocks = (needs \div body_sz) + 1
                     /\ Bound_of(info, o).next_offset =
                          BLOCK_HEAD + (needs % body_sz)
    BY <1>1 DEF Bound_of
  <1> QED
    BY <1>1, <1>2, <1>3, <1>4, <1>5

\* Slices of the right total length end where Bound_of says.
LEMMA AssembledBy ==
  ASSUME NEW r, Begun(r), Sliced(r), SlicedLen(r) = r.bound.len,
         LastSlice(r).size > 0
  PROVE  Assembled(r)
  <1> DEFINE k == Len(r.raw)
             z == r.raw[k]
             stop == z.from + z.size
             info == r.bound.info
             o == r.offset
             needs == info.len - (BlockSz - o)
  <1>1. /\ r.raw \in Seq(SliceType) /\ k \in Nat /\ k >= 1
        /\ z \in SliceType
        /\ r.raw[1].from = o
        /\ z.from >= BLOCK_HEAD /\ stop <= BlockSz
        /\ k >= 2 => z.from = BLOCK_HEAD
    <2>1. r.raw \in Seq(SliceType)
      BY DEF Begun, RecordType
    <2>2. k \in Nat /\ k >= 1
      BY <2>1 DEF Sliced
    <2>3. z \in SliceType
      BY <2>1, <2>2, ElementOfSeq
    <2> QED
      BY <2>1, <2>2, <2>3 DEF Sliced
  <1>2. z.from \in Nat /\ z.size \in Nat /\ z.size > 0
    BY <1>1 DEF SliceType, LastSlice
  <1>3. /\ info \in Heads /\ o \in Readable
        /\ r.bound = Bound_of(info, o)
    BY DEF Begun
  <1>4. /\ o \in Nat /\ info.len \in Nat /\ o < BlockSz
        /\ r.bound.len = info.len /\ needs \in Int
        /\ needs < 0 => r.bound.next_blocks = 0 /\ r.bound.next_offset = o + info.len
        /\ needs = 0 => r.bound.next_blocks = 1 /\ r.bound.next_offset = BLOCK_HEAD
        /\ needs > 0 =>
             /\ r.bound.next_blocks = (needs \div body_sz) + 1
             /\ r.bound.next_offset = BLOCK_HEAD + (needs % body_sz)
    BY <1>3, BoundEnd, Sizes
  <1>5a. /\ k = 1 => z.from = o /\ z.size = info.len
         /\ k # 1 => info.len = (BlockSz - o) + (k - 2) * body_sz + z.size
    BY <1>1, <1>4 DEF SlicedLen
  <1> SUFFICES IF stop = BlockSz
               THEN r.bound.next_offset = BLOCK_HEAD /\ r.bound.next_blocks = k
               ELSE r.bound.next_offset = stop /\ r.bound.next_blocks = k - 1
    BY DEF Assembled
  <1>5b. stop = z.from + z.size /\ needs = info.len - (BlockSz - o)
    OBVIOUS
  <1> HIDE DEF k, z, stop, info, o, needs
  <1>5. CASE k = 1
    <2>1. z.from = o /\ z.size = info.len
      BY <1>5, <1>5a
    <2>2. stop = BlockSz <=> needs = 0
      BY <1>4, <1>5b, <2>1, Sizes
    <2>3. stop # BlockSz => needs < 0
      BY <1>1, <1>2, <1>4, <1>5b, <2>1, Sizes
    <2> QED
      BY <1>4, <1>5, <1>5b, <2>1, <2>2, <2>3
  <1>6. CASE k >= 2
    <2>1. z.from = 16 /\ z.size <= body_sz
      BY <1>1, <1>2, <1>5b, <1>6, Sizes
    <2>3. info.len = (BlockSz - o) + (k - 2) * body_sz + z.size
      BY <1>1, <1>5a, <1>6
    <2> DEFINE q == k - 2
    <2>4. q \in Nat /\ q * body_sz \in Nat
      <3>1. q \in Nat
        BY <1>1, <1>6
      <3> HIDE DEF q
      <3> QED
        BY <3>1, Sizes
    <2>5. needs = q * body_sz + z.size
      <3>1. info.len = (BlockSz - o) + q * body_sz + z.size
        BY <2>3
      <3> HIDE DEF q
      <3> QED
        BY <1>2, <1>4, <1>5b, <2>4, <3>1, Sizes
    <2>5a. k = q + 2
      BY <1>1
    <2> HIDE DEF q
    <2>6. needs > 0
      BY <1>2, <2>4, <2>5
    <2>7. CASE z.size = body_sz
      <3>1. needs = (q + 1) * body_sz + 0
        BY <2>4, <2>5, <2>7, Times, Sizes
      <3>2. needs \div body_sz = q + 1 /\ needs % body_sz = 0
        BY <2>4, <3>1, QuotRem, Sizes
      <3>3. stop = BlockSz
        BY <1>5b, <2>1, <2>7, Sizes
      <3>4. r.bound.next_blocks = (q + 1) + 1 /\ r.bound.next_offset = BLOCK_HEAD + 0
        BY <1>4, <2>6, <3>2
      <3>5. (q + 1) + 1 = k /\ BLOCK_HEAD + 0 = BLOCK_HEAD
        BY <2>4, <2>5a, Sizes
      <3> QED
        BY <3>3, <3>4, <3>5
    <2>8. CASE z.size < body_sz
      <3>1. needs \div body_sz = q /\ needs % body_sz = z.size
        <4>1. /\ (q * body_sz + z.size) \div body_sz = q
              /\ (q * body_sz + z.size) % body_sz = z.size
          <5>1. z.size \in Nat /\ body_sz \in Nat \ {0}
            BY <1>2, Sizes
          <5> QED
            BY <2>4, <2>8, <5>1, QuotRem, Zenon
        <4> QED
          BY <2>5, <4>1
      <3>2. stop # BlockSz
        BY <1>2, <1>5b, <2>1, <2>8, Sizes
      <3> QED
        BY <1>1, <1>4, <1>5b, <2>1, <2>5a, <2>6, <3>1, <3>2, Sizes
    <2> QED
      BY <1>2, <2>1, <2>7, <2>8, Sizes
  <1> QED
    BY <1>1, <1>5, <1>6

LastFull(r) == LastSlice(r).from + LastSlice(r).size = BlockSz

\* One more slice, behind a full one: what Continue and Complete do.
LEMMA Grows ==
  ASSUME NEW r, Begun(r), Sliced(r), LastFull(r),
         NEW i \in Nat, LastSlice(r).blk < i,
         NEW s \in Nat, s > 0, s <= body_sz
  PROVE  LET w == WithSlice(r, i, s) IN
           /\ Begun(w) /\ Sliced(w) /\ SlicedLen(w) = SlicedLen(r) + s
           /\ LastSlice(w) = Slice(i, BLOCK_HEAD, s)
           /\ w.bound = r.bound /\ w.blk = r.blk /\ w.offset = r.offset
  <1> DEFINE w == WithSlice(r, i, s)
             z == Slice(i, BLOCK_HEAD, s)
             k == Len(r.raw)
  <1>1. /\ r \in RecordType /\ r.raw \in Seq(SliceType) /\ k \in Nat /\ k >= 1
        /\ z \in SliceType /\ z.blk = i /\ z.from = BLOCK_HEAD /\ z.size = s
    <2>1. r \in RecordType /\ r.raw \in Seq(SliceType)
      BY DEF Begun, RecordType
    <2>2. k \in Nat /\ k >= 1
      BY <2>1 DEF Sliced
    <2>3. z \in SliceType /\ z.blk = i /\ z.from = BLOCK_HEAD /\ z.size = s
      BY Sizes DEF Slice, SliceType
    <2> QED
      BY <2>1, <2>2, <2>3
  <1> HIDE DEF z
  <1>2. /\ w.bound = r.bound /\ w.blk = r.blk /\ w.offset = r.offset
        /\ w.raw = Append(r.raw, z) /\ w \in RecordType
    <2>1. w = [r EXCEPT !.raw = Append(r.raw, z)]
      BY DEF WithSlice, z
    <2>2. Append(r.raw, z) \in Seq(SliceType)
      BY <1>1
    <2> QED
      BY <1>1, <2>1, <2>2 DEF RecordType
  <1>3. /\ Len(w.raw) = k + 1 /\ w.raw[k + 1] = z
        /\ \A j \in 1 .. k : w.raw[j] = r.raw[j]
    BY <1>1, <1>2
  <1> HIDE DEF w
  <1>4. LastSlice(w) = z
    BY <1>3 DEF LastSlice
  <1>5. Begun(w)
    BY <1>2 DEF Begun
  <1>6. /\ r.raw[1].blk = r.blk /\ r.raw[1].from = r.offset
        /\ r.raw[k].from + r.raw[k].size = BlockSz /\ r.raw[k].blk < i
    BY DEF Sliced, LastFull, LastSlice
  <1>7. Sliced(w)
    <2>1. w.raw[1].blk = w.blk /\ w.raw[1].from = w.offset
      <3>1. w.raw[1] = r.raw[1]
        BY <1>1, <1>3
      <3> QED
        BY <1>2, <1>6, <3>1
    <2>2. z.from >= BLOCK_HEAD /\ z.from + z.size <= BlockSz
      BY <1>1, Sizes
    <2>3. ASSUME NEW j \in 1 .. k + 1
          PROVE  w.raw[j].from >= BLOCK_HEAD /\ w.raw[j].from + w.raw[j].size <= BlockSz
      <3>1. CASE j = k + 1
        BY <1>3, <2>2, <3>1
      <3>2. CASE j \in 1 .. k
        BY <1>3, <3>2 DEF Sliced
      <3> QED
        BY <1>1, <3>1, <3>2
    <2>4. ASSUME NEW j \in 2 .. k + 1
          PROVE  w.raw[j].from = BLOCK_HEAD /\ w.raw[j - 1].blk < w.raw[j].blk
      <3>1. CASE j = k + 1
        <4>1. w.raw[j] = z /\ w.raw[j - 1] = r.raw[k]
          BY <1>1, <1>3, <3>1
        <4> QED
          BY <1>1, <1>6, <4>1
      <3>2. CASE j \in 2 .. k
        <4>1. w.raw[j] = r.raw[j] /\ w.raw[j - 1] = r.raw[j - 1]
          BY <1>1, <1>3, <3>2
        <4> QED
          BY <3>2, <4>1 DEF Sliced
      <3> QED
        BY <1>1, <3>1, <3>2
    <2>5. ASSUME NEW j \in 1 .. k
          PROVE  w.raw[j].from + w.raw[j].size = BlockSz
      <3>1. CASE j = k
        BY <1>1, <1>3, <1>6, <3>1
      <3>2. CASE j \in 1 .. k - 1
        BY <1>1, <1>3, <3>2 DEF Sliced
      <3> QED
        BY <1>1, <3>1, <3>2
    <2> QED
      BY <1>1, <1>3, <2>1, <2>3, <2>4, <2>5 DEF Sliced
  <1>8. SlicedLen(w) = SlicedLen(r) + s
    <2>1. r.offset \in Nat /\ r.raw[k] \in SliceType
      <3>1. r.offset \in Nat
        BY <1>1 DEF RecordType
      <3> QED
        BY <1>1, <3>1, ElementOfSeq
    <2>1a. r.raw[k].size \in Nat /\ r.raw[k].from \in Nat
      BY <2>1 DEF SliceType
    <2>2. SlicedLen(w) = (BlockSz - r.offset) + ((k + 1) - 2) * body_sz + s
      BY <1>1, <1>2, <1>3 DEF SlicedLen
    <2>3. CASE k = 1
      <3>1. SlicedLen(r) = r.raw[1].size /\ ((k + 1) - 2) * body_sz = 0
        BY <2>3, Sizes DEF SlicedLen
      <3> QED
        BY <1>6, <2>1, <2>1a, <2>2, <2>3, <3>1, Sizes
    <2>4. CASE k >= 2
      <3>1. SlicedLen(r) = (BlockSz - r.offset) + (k - 2) * body_sz + r.raw[k].size
        BY <1>1, <2>4 DEF SlicedLen
      <3>2. r.raw[k].size = body_sz
        <4>1. r.raw[k].from = BLOCK_HEAD
          BY <1>1, <2>4 DEF Sliced
        <4> QED
          BY <1>6, <2>1a, <4>1, Sizes
      <3> DEFINE q == k - 2
      <3>3. q \in Int /\ (k + 1) - 2 = q + 1
        BY <1>1
      <3> HIDE DEF q
      <3>4. (q + 1) * body_sz = q * body_sz + body_sz /\ q * body_sz \in Int
        BY <3>3, Times, Sizes
      <3>5. SlicedLen(r) = (BlockSz - r.offset) + q * body_sz + body_sz
        BY <3>1, <3>2 DEF q
      <3>6. SlicedLen(w) = (BlockSz - r.offset) + (q + 1) * body_sz + s
        BY <2>2, <3>3
      <3>7. r.offset \in Nat
        BY <2>1
      <3> HIDE DEF q
      <3>8. q * body_sz \in Int /\ body_sz \in Int /\ BlockSz \in Int
        BY <3>4, Sizes
      <3> DEFINE m == q * body_sz
                 m1 == (q + 1) * body_sz
      <3>9. m1 = m + body_sz /\ m \in Int
        BY <3>4
      <3>10. SlicedLen(r) = (BlockSz - r.offset) + m + body_sz
        BY <3>5
      <3>11. SlicedLen(w) = (BlockSz - r.offset) + m1 + s
        BY <3>6
      <3> HIDE DEF m, m1
      <3> QED
        BY <3>7, <3>8, <3>9, <3>10, <3>11
    <2>5. k = 1 \/ k >= 2
      <3>1. k \in Nat /\ k >= 1
        BY <1>1, Zenon
      <3> HIDE DEF k
      <3> QED
        BY <3>1
    <2> QED
      BY <2>3, <2>4, <2>5, Zenon
  <1> QED
    BY <1>2, <1>4, <1>5, <1>7, <1>8 DEF w, z

\* The first slice of a record: the whole of it, or what its block has room for.
LEMMA FirstSlice ==
  ASSUME NEW i \in Nat, NEW o \in Readable, NEW b \in Bounds, b.info \in Heads,
         b = Bound_of(b.info, o), b.len >= MIN_RECORD,
         NEW s \in Nat, s > 0, o + s <= BlockSz
  PROVE  LET r == Record(i, o, b, <<Slice(i, o, s)>>) IN
           /\ Begun(r) /\ Sliced(r) /\ SlicedLen(r) = s
           /\ LastSlice(r) = Slice(i, o, s)
           /\ r.bound = b /\ r.blk = i /\ r.offset = o
  <1> DEFINE z == Slice(i, o, s)
             r == Record(i, o, b, <<z>>)
  <1>1. o \in Nat /\ o >= BLOCK_HEAD
    BY Sizes DEF Readable, PEEK
  <1>2. z \in SliceType /\ z.blk = i /\ z.from = o /\ z.size = s
    BY <1>1 DEF Slice, SliceType
  <1> HIDE DEF z
  <1>3. /\ r.blk = i /\ r.offset = o /\ r.bound = b /\ r.raw = <<z>>
        /\ r \in RecordType
    BY <1>1, <1>2 DEF Record, RecordType
  <1>4. Len(r.raw) = 1 /\ r.raw[1] = z
    BY <1>3
  <1> HIDE DEF r
  <1>5. Begun(r)
    BY <1>3 DEF Begun
  <1>6. Sliced(r)
    BY <1>1, <1>2, <1>3, <1>4 DEF Sliced
  <1>7. SlicedLen(r) = s /\ LastSlice(r) = z
    BY <1>2, <1>4 DEF SlicedLen, LastSlice
  <1> QED
    BY <1>3, <1>5, <1>6, <1>7 DEF r, z

-----------------------------------------------------------------------------
(* Lists of records                                                         *)

AssembledIn(s) == \A k \in 1 .. Len(s) : Assembled(s[k])

\* Every record of s ends before the given place.
Past(s, blk, offset) == \A k \in 1 .. Len(s) : EndsBefore(s[k], blk, offset)

DisjointIn(s) ==
  \A j, k \in 1 .. Len(s) : j < k => EndsBefore(s[j], s[k].blk, s[k].offset)

\* Every record of s ends in a block up to n.
UpTo(s, n) == \A k \in 1 .. Len(s) : LastSlice(s[k]).blk <= n

LEMMA AppendRecord ==
  ASSUME NEW s \in Seq(RecordType), NEW r \in RecordType,
         AssembledIn(s), DisjointIn(s), Assembled(r), Past(s, r.blk, r.offset)
  PROVE  AssembledIn(Append(s, r)) /\ DisjointIn(Append(s, r))
  <1> DEFINE u == Append(s, r)
             n == Len(s)
  <1>1. /\ n \in Nat /\ Len(u) = n + 1 /\ u[n + 1] = r
        /\ \A k \in 1 .. n : u[k] = s[k]
    OBVIOUS
  <1> HIDE DEF u
  <1>2. ASSUME NEW k \in 1 .. n + 1
        PROVE  Assembled(u[k])
    <2>1. k \in 1 .. n \/ k = n + 1
      BY <1>1
    <2> QED
      BY <1>1, <2>1 DEF AssembledIn
  <1>3. ASSUME NEW j \in 1 .. n + 1, NEW k \in 1 .. n + 1, j < k
        PROVE  EndsBefore(u[j], u[k].blk, u[k].offset)
    <2>1. j \in 1 .. n /\ u[j] = s[j] /\ (k \in 1 .. n \/ k = n + 1)
      BY <1>1, <1>3
    <2>2. CASE k \in 1 .. n
      <3>1. u[k] = s[k]
        BY <1>1, <2>2
      <3> QED
        BY <1>3, <2>1, <2>2, <3>1 DEF DisjointIn
    <2>3. CASE k = n + 1
      BY <1>1, <2>1, <2>3 DEF Past
    <2> QED
      BY <2>1, <2>2, <2>3
  <1> QED
    BY <1>1, <1>2, <1>3 DEF AssembledIn, DisjointIn, u

LEMMA AppendPast ==
  ASSUME NEW s \in Seq(RecordType), NEW r, NEW blk, NEW offset,
         Past(s, blk, offset), EndsBefore(r, blk, offset)
  PROVE  Past(Append(s, r), blk, offset)
  <1>1. ASSUME NEW k \in 1 .. Len(Append(s, r))
        PROVE  EndsBefore(Append(s, r)[k], blk, offset)
    <2>1. /\ k \in 1 .. Len(s) \/ k = Len(s) + 1
          /\ k \in 1 .. Len(s) => Append(s, r)[k] = s[k]
          /\ k = Len(s) + 1 => Append(s, r)[k] = r
      OBVIOUS
    <2> QED
      BY <2>1 DEF Past
  <1> QED
    BY <1>1 DEF Past

LEMMA AppendUpTo ==
  ASSUME NEW s \in Seq(RecordType), NEW r, NEW n,
         UpTo(s, n), LastSlice(r).blk <= n
  PROVE  UpTo(Append(s, r), n)
  <1>1. ASSUME NEW k \in 1 .. Len(Append(s, r))
        PROVE  LastSlice(Append(s, r)[k]).blk <= n
    <2>1. /\ k \in 1 .. Len(s) \/ k = Len(s) + 1
          /\ k \in 1 .. Len(s) => Append(s, r)[k] = s[k]
          /\ k = Len(s) + 1 => Append(s, r)[k] = r
      OBVIOUS
    <2> QED
      BY <2>1 DEF UpTo
  <1> QED
    BY <1>1 DEF UpTo

\* An assembled record has at least one slice, with its place and size.
LEMMA LastPlace ==
  ASSUME NEW r \in RecordType, Assembled(r)
  PROVE  /\ LastSlice(r).blk \in Nat
         /\ LastSlice(r).from \in Nat /\ LastSlice(r).size \in Nat
  <1>1. r.raw \in Seq(SliceType) /\ Len(r.raw) \in Nat
    BY DEF RecordType
  <1>2. Len(r.raw) >= 1
    BY DEF Assembled, Sliced
  <1>3. LastSlice(r) \in SliceType
    BY <1>1, <1>2, ElementOfSeq DEF LastSlice
  <1> QED
    BY <1>3 DEF SliceType

\* Records that end in blocks up to n end before every later block.
LEMMA UpToPast ==
  ASSUME NEW s \in Seq(RecordType), AssembledIn(s),
         NEW n \in Nat, NEW m \in Nat, n < m, UpTo(s, n), NEW offset
  PROVE  UpTo(s, m) /\ Past(s, m, offset)
  <1>1. ASSUME NEW k \in 1 .. Len(s)
        PROVE  LastSlice(s[k]).blk < m
    <2>1. s[k] \in RecordType /\ Assembled(s[k]) /\ LastSlice(s[k]).blk <= n
      BY ElementOfSeq DEF AssembledIn, UpTo
    <2>2. LastSlice(s[k]).blk \in Nat
      BY <2>1, LastPlace
    <2> QED
      BY <2>1, <2>2
  <1>2. ASSUME NEW k \in 1 .. Len(s)
        PROVE  LastSlice(s[k]).blk <= m
    <2>1. s[k] \in RecordType /\ Assembled(s[k])
      BY ElementOfSeq DEF AssembledIn
    <2>2. LastSlice(s[k]).blk \in Nat
      BY <2>1, LastPlace
    <2> QED
      BY <1>1, <2>2
  <1> QED
    BY <1>1, <1>2 DEF UpTo, Past, EndsBefore

\* What ends before a place ends before every later place of the block.
LEMMA PastLater ==
  ASSUME NEW s \in Seq(RecordType), AssembledIn(s), NEW blk \in Nat,
         NEW o \in Nat, NEW o2 \in Nat, o <= o2, Past(s, blk, o)
  PROVE  Past(s, blk, o2)
  <1>1. ASSUME NEW k \in 1 .. Len(s)
        PROVE  EndsBefore(s[k], blk, o2)
    <2>1. s[k] \in RecordType /\ Assembled(s[k]) /\ EndsBefore(s[k], blk, o)
      BY ElementOfSeq DEF AssembledIn, Past
    <2>2. LastSlice(s[k]).from \in Nat /\ LastSlice(s[k]).size \in Nat
      BY <2>1, LastPlace
    <2> QED
      BY <2>1, <2>2 DEF EndsBefore
  <1> QED
    BY <1>1 DEF Past

-----------------------------------------------------------------------------
(* The inductive invariant                                                  *)

\* The source is open while records may still be asked for.
StillOpen == ~ Finished => source = "open"

\* While a block is parsed, out_buffer holds records that begin in it.
OneBlock ==
  pc \in {"bounds", "body", "thrown"} =>
    \A k \in 1 .. Len(out_buffer) : out_buffer[k].blk = cur

\* The parser is at the bound number idx of the current block.
InBounds ==
  pc = "bounds" =>
    /\ cur \in 1 .. FileSize
    /\ idx <= Len(Block(cur).bounds) + 1
    /\ idx <= Len(Block(cur).bounds) =>
         start = BoundStart(Block(cur), Block(cur).bounds, idx)

\* The record being assembled is whole up to the end of the last block read.
InBody ==
  pc = "body" =>
    /\ Begun(rec) /\ rec.blk = cur
    /\ Sliced(rec) /\ LastFull(rec) /\ LastSlice(rec).blk <= LastServed
    /\ need > 0 /\ SlicedLen(rec) + need = rec.bound.len

Sound ==
  /\ AssembledIn(Produced) /\ DisjointIn(Produced)
  /\ UpTo(Produced, LastServed)

\* Everything produced ends before the place from which reading goes on.
Ahead ==
  /\ pc \in {"bounds", "body"} => latest_block = 0 /\ cur <= LastServed
  /\ latest_block <= LastServed
  /\ latest_block # 0 =>
       Past(Produced, latest_block, Block(latest_block).offset)
  /\ pc = "bounds" => Past(Produced, cur, start)
  /\ pc = "body" => Past(Produced, rec.blk, rec.offset)

IInv ==
  /\ SourceInv /\ TypeOK /\ StillOpen /\ OneBlock
  /\ InBounds /\ InBody /\ Sound /\ Ahead

LEMMA InitIInv == Init => IInv
  <1> SUFFICES ASSUME Init PROVE IInv
    OBVIOUS
  <1>1. SourceInv /\ served = << >> /\ source = "open"
    BY InitSourceInv DEF Init, SourceInit
  <1>2. /\ pc = "idle" /\ out_buffer = << >> /\ lwn_ctx = NoLwn
        /\ latest_block = 0 /\ cur = 0 /\ idx = 1 /\ start = 0
        /\ rec = NoRec /\ need = 0 /\ first = FALSE /\ delivered = << >>
    BY DEF Init
  <1>3. LastServed = 0
    BY <1>1 DEF LastServed
  <1>4. Len(Produced) = 0
    BY <1>2 DEF Produced
  <1>5. TypeOK
    <2>1. 0 \in 0 .. FileSize
      BY <1>1, SizeNat DEF SourceInv
    <2>2. out_buffer \in Seq(RecordType) /\ delivered \in Seq(RecordType)
      BY <1>2
    <2>3. SourceTypeOK
      BY <1>1 DEF SourceInv
    <2>4. idx \in Nat \ {0} /\ start \in Nat /\ need \in Nat
      BY <1>2
    <2> QED
      BY <1>2, <2>1, <2>2, <2>3, <2>4, Zenon DEF TypeOK
  <1>6. Sound
    BY <1>4 DEF Sound, AssembledIn, DisjointIn, UpTo
  <1> QED
    BY <1>1, <1>2, <1>3, <1>5, <1>6
    DEF IInv, StillOpen, OneBlock, InBounds, InBody, Ahead

\* What the invariant says of the history and of the last block served.
LEMMA Basics ==
  ASSUME IInv
  PROVE  /\ Produced \in Seq(RecordType)
         /\ LastServed \in 0 .. FileSize /\ FileSize \in Nat
         /\ log \in Logs
  <1>1. delivered \in Seq(RecordType) /\ out_buffer \in Seq(RecordType)
    BY DEF IInv, TypeOK
  <1>2. Produced \in Seq(RecordType)
    BY <1>1 DEF Produced
  <1> QED
    BY <1>2, LastType DEF IInv, SourceInv

\* A block that getNext returns lies behind every block it returned before.
LEMMA Served ==
  ASSUME IInv, ~ Finished, NEW i, Serve(i)
  PROVE  /\ SourceInv' /\ SourceTypeOK' /\ i \in 1 .. FileSize
         /\ LastServed < i /\ LastServed' = i
         /\ UNCHANGED <<log, source>> /\ FileSize' = FileSize
         /\ \A j : Block(j)' = Block(j)
  <1>1. SourceInv /\ source = "open"
    BY DEF IInv, StillOpen
  <1>2. /\ SourceInv' /\ i \in 1 .. FileSize
        /\ LastServed < i /\ LastServed' = i
        /\ UNCHANGED <<log, source>> /\ FileSize' = FileSize
    BY <1>1, LastGrows
  <1> QED
    BY <1>2 DEF SourceInv, Block

-----------------------------------------------------------------------------
(* The steps of getNext                                                     *)

LEMMA DeliverStep == IInv /\ Deliver => IInv'
  <1> SUFFICES ASSUME IInv, Deliver PROVE IInv'
    OBVIOUS
  <1>1. /\ pc = "idle" /\ out_buffer # << >>
        /\ delivered' = Append(delivered, out_buffer[1])
        /\ out_buffer' = Tail(out_buffer)
        /\ UNCHANGED <<sourceVars, pc, lwn_ctx, latest_block, fillVars>>
    BY DEF Deliver
  <1>2. delivered \in Seq(RecordType) /\ out_buffer \in Seq(RecordType)
    BY DEF IInv, TypeOK
  <1>3. delivered' \in Seq(RecordType) /\ out_buffer' \in Seq(RecordType)
    <2>1. Len(out_buffer) \in Nat \ {0}
      BY <1>1, <1>2, EmptySeq, Zenon
    <2>2. out_buffer[1] \in RecordType
      BY <1>2, <2>1, ElementOfSeq, 1 \in 1 .. Len(out_buffer)
    <2> QED
      BY <1>1, <1>2, <2>1, <2>2
  <1>4. Produced' = Produced
    BY <1>1, <1>2, MoveHead, Zenon DEF Produced
  <1>5. SourceInv' /\ SourceTypeOK'
    BY <1>1, SourceStutter DEF IInv, SourceInv
  <1>6. UNCHANGED <<FileSize, LastServed>> /\ \A j : Block(j)' = Block(j)
    BY <1>1 DEF sourceVars, FileSize, LastServed, Block
  <1>7. TypeOK'
    BY <1>1, <1>3, <1>5, <1>6 DEF IInv, TypeOK, fillVars
  <1> QED
    BY <1>1, <1>4, <1>5, <1>6, <1>7
    DEF IInv, StillOpen, Finished, OneBlock, InBounds, InBody, Sound, Ahead,
        fillVars, sourceVars

\* Both ways into the loop over the bounds: the block lies behind everything.
LEMMA EnterStep ==
  ASSUME IInv, NEW i, Enter(i), SourceInv', i \in 1 .. FileSize,
         UNCHANGED <<log, source>>, LastServed' \in Nat, i <= LastServed',
         UpTo(Produced, LastServed'),
         Past(Produced, i, Block(i).offset)
  PROVE  IInv'
  <1>1. /\ pc = "idle" /\ out_buffer = << >> /\ pc' = "bounds" /\ cur' = i
        /\ idx' = 1 /\ start' = Block(i).offset /\ latest_block' = 0
        /\ UNCHANGED <<out_buffer, lwn_ctx, rec, need, first, delivered>>
    BY DEF Enter
  <1>2. FileSize \in Nat /\ FileSize' = FileSize /\ \A j : Block(j)' = Block(j)
    BY Basics DEF FileSize, Block
  <1>3. Block(i).offset \in Nat /\ Len(Block(i).bounds) \in Nat
    BY LogsAssumption, <1>2, Basics DEF Block, FileSize, IsBoundChain
  <1>4. TypeOK'
    <2>1. 0 \in 0 .. FileSize' /\ i \in 0 .. FileSize' /\ 1 \in Nat \ {0}
      BY <1>2
    <2> QED
      BY <1>1, <1>3, <2>1, Zenon DEF IInv, TypeOK, SourceInv
  <1>5. Produced' = Produced
    BY <1>1 DEF Produced
  <1>6. StillOpen'
    BY <1>1 DEF IInv, StillOpen, Finished
  <1>7. OneBlock'
    BY <1>1 DEF OneBlock
  <1>8. InBounds' /\ InBody'
    BY <1>1, <1>2, <1>3 DEF InBounds, InBody, BoundStart
  <1>9. Sound' /\ Ahead'
    BY <1>1, <1>2, <1>3, <1>5 DEF IInv, Sound, Ahead
  <1> QED
    BY <1>4, <1>6, <1>7, <1>8, <1>9 DEF IInv

LEMMA EnterLatestStep == IInv /\ EnterLatest => IInv'
  <1> SUFFICES ASSUME IInv, EnterLatest PROVE IInv'
    OBVIOUS
  <1>1. latest_block # 0 /\ Enter(latest_block) /\ UNCHANGED sourceVars
    BY DEF EnterLatest
  <1>2. SourceInv'
    BY <1>1, SourceStutter DEF IInv
  <1>3. LastServed' = LastServed /\ UNCHANGED <<log, source>>
    BY <1>1 DEF sourceVars, LastServed
  <1>4. latest_block \in 1 .. FileSize
    BY <1>1, Basics DEF IInv, TypeOK
  <1> QED
    BY <1>1, <1>2, <1>3, <1>4, Basics, EnterStep DEF IInv, Sound, Ahead

LEMMA EnterNextStep == IInv /\ EnterNext => IInv'
  <1> SUFFICES ASSUME IInv, NEW i \in 1 .. FileSize, Serve(i), Enter(i)
               PROVE  IInv'
    BY DEF EnterNext
  <1>1. ~ Finished
    BY DEF Enter, Finished
  <1>2. /\ SourceInv' /\ LastServed < i /\ LastServed' = i
        /\ UNCHANGED <<log, source>>
    BY <1>1, Served
  <1>3. UpTo(Produced, i) /\ Past(Produced, i, Block(i).offset)
    BY <1>2, Basics, UpToPast DEF IInv, Sound
  <1>4. i \in Nat /\ i <= i
    OBVIOUS
  <1> QED
    BY <1>2, <1>3, <1>4, EnterStep

LEMMA LeaveBoundsStep == IInv /\ LeaveBounds => IInv'
  <1> SUFFICES ASSUME IInv, LeaveBounds PROVE IInv'
    OBVIOUS
  <1>1. /\ pc = "bounds" /\ pc' = "idle"
        /\ UNCHANGED <<sourceVars, out_buffer, lwn_ctx, latest_block, fillVars,
                       delivered>>
    BY DEF LeaveBounds
  <1>2. SourceInv' /\ SourceTypeOK'
    BY <1>1, SourceStutter DEF IInv, SourceInv
  <1>3. UNCHANGED <<FileSize, LastServed, Produced>> /\ \A j : Block(j)' = Block(j)
    BY <1>1 DEF sourceVars, FileSize, LastServed, Block, Produced
  <1>4. TypeOK'
    BY <1>1, <1>2, <1>3 DEF IInv, TypeOK, fillVars
  <1> QED
    BY <1>1, <1>2, <1>3, <1>4
    DEF IInv, StillOpen, Finished, OneBlock, InBounds, InBody, Sound, Ahead,
        fillVars, sourceVars

\* The end of the file, and every exception.
LEMMA FinishStep ==
  ASSUME IInv, SourceInv', pc' \in {"eof", "thrown"}, first' \in BOOLEAN,
         UNCHANGED <<log, out_buffer, lwn_ctx, latest_block, cur, idx, start, rec,
                     need, delivered>>,
         UpTo(Produced, LastServed'), latest_block <= LastServed',
         pc \in {"bounds", "body"} \/ out_buffer = << >>
  PROVE  IInv'
  <1>1. UNCHANGED <<FileSize, Produced>> /\ \A j : Block(j)' = Block(j)
    BY DEF FileSize, Produced, Block
  <1>2. SourceTypeOK'
    BY DEF SourceInv
  <1>3. TypeOK'
    BY <1>1, <1>2 DEF IInv, TypeOK
  <1>4. OneBlock'
    BY DEF IInv, OneBlock
  <1> QED
    BY <1>1, <1>3, <1>4
    DEF IInv, StillOpen, Finished, InBounds, InBody, Sound, Ahead

LEMMA EndOfFileStep == IInv /\ EndOfFile => IInv'
  <1> SUFFICES ASSUME IInv, EndOfFile PROVE IInv'
    OBVIOUS
  <1>1. /\ out_buffer = << >> /\ ServeNone /\ pc' = "eof"
        /\ UNCHANGED <<out_buffer, lwn_ctx, latest_block, fillVars, delivered>>
    BY DEF EndOfFile
  <1>2. SourceInv' /\ UNCHANGED <<log, served>>
    BY <1>1, EndStep DEF IInv, ServeNone
  <1>3. LastServed' = LastServed
    BY <1>2 DEF LastServed
  <1>4. first' \in BOOLEAN
    BY <1>1 DEF fillVars, IInv, TypeOK
  <1> QED
    BY <1>1, <1>2, <1>3, <1>4, FinishStep DEF fillVars, IInv, Sound, Ahead

LEMMA ThrowStep == IInv /\ Throw => IInv'
  <1> SUFFICES ASSUME IInv, Throw PROVE IInv'
    OBVIOUS
  <1>1. CASE SourceThrows \/ NotEnoughBlocks
    <2>1. /\ pc = "body" \/ out_buffer = << >>
          /\ ServeThrow \/ ServeNone
          /\ pc' = "thrown"
          /\ UNCHANGED <<out_buffer, lwn_ctx, latest_block, fillVars, delivered>>
      BY <1>1 DEF SourceThrows, NotEnoughBlocks
    <2>2. SourceInv' /\ UNCHANGED <<log, served>>
      BY <2>1, EndStep DEF IInv, ServeNone, ServeThrow
    <2>3. LastServed' = LastServed
      BY <2>2 DEF LastServed
    <2>4. first' \in BOOLEAN
      BY <2>1 DEF fillVars, IInv, TypeOK
    <2> QED
      BY <2>1, <2>2, <2>3, <2>4, FinishStep DEF fillVars, IInv, Sound, Ahead
  <1>2. CASE BadWholeRecord
    <2>1. /\ pc = "bounds" /\ pc' = "thrown"
          /\ UNCHANGED <<sourceVars, out_buffer, lwn_ctx, latest_block, fillVars,
                         delivered>>
      BY <1>2 DEF BadWholeRecord, AtBound
    <2>2. SourceInv' /\ UNCHANGED <<log, LastServed>>
      BY <2>1, SourceStutter DEF IInv, sourceVars, LastServed
    <2>3. first' \in BOOLEAN
      BY <2>1 DEF fillVars, IInv, TypeOK
    <2> QED
      BY <2>1, <2>2, <2>3, FinishStep DEF fillVars, IInv, Sound, Ahead
  <1>3. ASSUME NEW i \in 1 .. FileSize, InterimRival(i) \/ BadCompletion(i)
        PROVE  IInv'
    <2>1. /\ pc = "body" /\ Serve(i) /\ first' = FALSE /\ pc' = "thrown"
          /\ UNCHANGED <<out_buffer, lwn_ctx, latest_block, cur, idx, start, rec,
                         need, delivered>>
      BY <1>3 DEF InterimRival, BadCompletion
    <2>2. SourceInv' /\ LastServed < i /\ LastServed' = i /\ UNCHANGED log
      BY <2>1, Served DEF Finished
    <2>3. UpTo(Produced, i)
      BY <2>2, Basics, UpToPast DEF IInv, Sound
    <2>4. latest_block <= LastServed'
      BY <2>2, Basics DEF IInv, TypeOK, Ahead
    <2> QED
      BY <2>1, <2>2, <2>3, <2>4, FinishStep
  <1> QED
    BY <1>1, <1>2, <1>3 DEF Throw

\* What the loop over the bounds knows of the bound it is at.
LEMMA AtTheBound ==
  ASSUME IInv, AtBound
  PROVE  /\ cur \in 1 .. FileSize /\ cur \in Nat
         /\ idx \in 1 .. Len(Block(cur).bounds) /\ Len(Block(cur).bounds) \in Nat
         /\ start \in Readable /\ start \in Nat /\ start < BlockSz
         /\ Bound \in Bounds /\ Bound.info \in Heads /\ Bound.len \in Nat
         /\ Bound = Bound_of(Bound.info, start)
         /\ Bound.len >= MIN_RECORD /\ Bound.len = Bound.info.len
         /\ idx < Len(Block(cur).bounds) => Bound.next_blocks = 0
  <1>1. pc = "bounds" /\ idx <= Len(Block(cur).bounds)
    BY DEF AtBound, Suits
  <1>2. cur \in 1 .. FileSize /\ start = BoundStart(Block(cur), Block(cur).bounds, idx)
    BY <1>1 DEF IInv, InBounds
  <1>3. /\ Block(cur).bounds \in Seq(Bounds) /\ Len(Block(cur).bounds) \in Nat
    BY <1>2, LogsAssumption, Basics DEF IsBoundChain, Block, FileSize
  <1>4. idx \in 1 .. Len(Block(cur).bounds)
    BY <1>1, <1>3 DEF IInv, TypeOK
  <1>5. /\ Bound \in Bounds /\ start \in Readable
        /\ Bound.info \in Heads /\ Bound = Bound_of(Bound.info, start)
        /\ Bound.len >= MIN_RECORD
        /\ idx < Len(Block(cur).bounds) => Bound.next_blocks = 0
    BY <1>2, <1>4, Basics, BlockBounds DEF Bound
  <1>6. Bound.len = Bound.info.len /\ start \in Nat /\ start < BlockSz
    <2>1. /\ Bound_of(Bound.info, start).len = Bound.info.len
          /\ start \in Nat /\ start < BlockSz
      BY <1>5, BoundEnd
    <2> QED
      BY <1>5, <2>1
  <1>7. Bound.len \in Nat
    BY <1>5 DEF Bounds
  <1>8. cur \in Nat
    BY <1>2
  <1> QED
    BY <1>2, <1>3, <1>4, <1>5, <1>6, <1>7, <1>8

LEMMA WaterType ==
  ASSUME IInv, NEW b, b.info \in Heads
  PROVE  Water(b) \in LwnCtxs \cup {NoLwn}
  BY DEF Water, Heads, LwnCtxs, IInv, TypeOK

LEMMA WholeRecordStep == IInv /\ WholeRecord => IInv'
  <1> SUFFICES ASSUME IInv, WholeRecord PROVE IInv'
    OBVIOUS
  <1> DEFINE r == Record(cur, start, Bound, <<Slice(cur, start, Bound.len)>>)
  <1>1. /\ AtBound /\ pc = "bounds" /\ Bound.len <= Room0
        /\ out_buffer' = Append(out_buffer, r)
        /\ lwn_ctx' = Water(Bound) /\ start' = start + Bound.len /\ idx' = idx + 1
        /\ UNCHANGED <<sourceVars, pc, latest_block, cur, rec, need, first, delivered>>
    BY DEF WholeRecord, AtBound
  <1>2. /\ cur \in 1 .. FileSize /\ cur \in Nat
        /\ idx \in 1 .. Len(Block(cur).bounds) /\ Len(Block(cur).bounds) \in Nat
        /\ start \in Readable /\ start \in Nat /\ start < BlockSz
        /\ Bound \in Bounds /\ Bound.info \in Heads /\ Bound.len \in Nat
        /\ Bound = Bound_of(Bound.info, start)
        /\ Bound.len >= MIN_RECORD /\ Bound.len = Bound.info.len
        /\ idx < Len(Block(cur).bounds) => Bound.next_blocks = 0
    BY <1>1, AtTheBound
  <1>3. Bound.len > 0 /\ start + Bound.len <= BlockSz
    BY <1>1, <1>2, Sizes DEF Room0, MIN_RECORD
  <1>4. /\ Begun(r) /\ Sliced(r) /\ SlicedLen(r) = Bound.len
        /\ LastSlice(r) = Slice(cur, start, Bound.len)
        /\ r.bound = Bound /\ r.blk = cur /\ r.offset = start
    <2>1. /\ cur \in Nat /\ start \in Readable /\ Bound \in Bounds
          /\ Bound.info \in Heads /\ Bound = Bound_of(Bound.info, start)
          /\ Bound.len >= MIN_RECORD
      BY <1>2
    <2>2. Bound.len \in Nat /\ Bound.len > 0 /\ start + Bound.len <= BlockSz
      BY <1>2, <1>3
    <2> QED
      BY <2>1, <2>2, FirstSlice
  <1> HIDE DEF r
  <1>5. /\ LastSlice(r).blk = cur /\ LastSlice(r).from = start
        /\ LastSlice(r).size = Bound.len
    BY <1>4 DEF Slice
  <1>6. Assembled(r) /\ r \in RecordType
    BY <1>3, <1>4, <1>5, AssembledBy DEF Begun
  <1>7. delivered \in Seq(RecordType) /\ out_buffer \in Seq(RecordType)
    BY DEF IInv, TypeOK
  <1>8. Produced' = Append(Produced, r) /\ Produced \in Seq(RecordType)
    <2>1. Produced' = delivered \o Append(out_buffer, r)
      BY <1>1 DEF Produced
    <2> QED
      BY <1>6, <1>7, <2>1, ConcatAppend, Basics DEF Produced
  <1>9. SourceInv' /\ SourceTypeOK'
    BY <1>1, SourceStutter DEF IInv, SourceInv
  <1>10. UNCHANGED <<FileSize, LastServed>> /\ \A j : Block(j)' = Block(j)
    BY <1>1 DEF sourceVars, FileSize, LastServed, Block
  <1>11. /\ AssembledIn(Produced) /\ DisjointIn(Produced)
         /\ UpTo(Produced, LastServed)
         /\ latest_block = 0 /\ cur <= LastServed /\ Past(Produced, cur, start)
    BY <1>1 DEF IInv, Sound, Ahead
  <1>12. Sound'
    <2>1. AssembledIn(Produced') /\ DisjointIn(Produced')
      BY <1>4, <1>6, <1>8, <1>11, AppendRecord
    <2>2. UpTo(Produced', LastServed)
      BY <1>5, <1>8, <1>11, AppendUpTo
    <2> QED
      BY <1>10, <2>1, <2>2 DEF Sound
  <1>13. Past(Produced', cur, start')
    <2>1. start' \in Nat /\ start <= start'
      BY <1>1, <1>2
    <2>2. Past(Produced, cur, start')
      BY <1>2, <1>8, <1>11, <2>1, PastLater
    <2>3. EndsBefore(r, cur, start')
      BY <1>1, <1>2, <1>5, <2>1 DEF EndsBefore
    <2> QED
      BY <1>8, <2>2, <2>3, AppendPast
  <1>14. TypeOK'
    <2>1. out_buffer' \in Seq(RecordType)
      BY <1>1, <1>6, <1>7
    <2>2. lwn_ctx' \in LwnCtxs \cup {NoLwn}
      BY <1>1, <1>2, WaterType
    <2>3. idx' \in Nat \ {0} /\ start' \in Nat
      BY <1>1, <1>2
    <2> QED
      BY <1>1, <1>9, <1>10, <2>1, <2>2, <2>3 DEF IInv, TypeOK
  <1>15. OneBlock'
    <2>1. \A k \in 1 .. Len(out_buffer) : out_buffer[k].blk = cur
      BY <1>1 DEF IInv, OneBlock
    <2>2. \A k \in 1 .. Len(out_buffer') : out_buffer'[k].blk = cur
      <3>1. ASSUME NEW k \in 1 .. Len(out_buffer') PROVE out_buffer'[k].blk = cur
        <4>1. /\ k \in 1 .. Len(out_buffer) \/ k = Len(out_buffer) + 1
              /\ k \in 1 .. Len(out_buffer) => out_buffer'[k] = out_buffer[k]
              /\ k = Len(out_buffer) + 1 => out_buffer'[k] = r
          BY <1>1, <1>7
        <4> QED
          BY <1>4, <2>1, <4>1
      <3> QED
        BY <3>1
    <2> QED
      BY <1>1, <2>2 DEF OneBlock
  <1>16. InBounds'
    <2> DEFINE s == Block(cur).bounds
    <2>1. idx' <= Len(s) + 1 /\ idx' - 1 = idx /\ idx' # 1
      BY <1>1, <1>2
    <2>2. ASSUME idx' <= Len(s)
          PROVE  start' = BoundStart(Block(cur), s, idx')
      <3>1. s[idx].next_blocks = 0 /\ Bound = s[idx]
        BY <1>1, <1>2, <2>2 DEF Bound
      <3>2. s[idx].next_offset = start + Bound.len
        <4> DEFINE needs == Bound.info.len - (BlockSz - start)
        <4>1. /\ needs < 0 => Bound.next_offset = start + Bound.info.len
              /\ needs = 0 => Bound.next_blocks = 1
              /\ needs > 0 => Bound.next_blocks = (needs \div body_sz) + 1
          BY <1>2, BoundEnd
        <4>2. needs \in Int /\ needs <= 0
          BY <1>2, <1>3, Sizes
        <4> QED
          BY <1>2, <3>1, <4>1, <4>2
      <3> QED
        BY <1>1, <2>1, <3>2 DEF BoundStart
    <2> QED
      BY <1>1, <1>2, <1>10, <2>1, <2>2 DEF InBounds
  <1>17. InBody' /\ StillOpen'
    BY <1>1 DEF InBody, IInv, StillOpen, Finished, sourceVars
  <1>18. Ahead'
    BY <1>1, <1>10, <1>11, <1>13, Basics DEF Ahead
  <1> QED
    BY <1>9, <1>12, <1>14, <1>15, <1>16, <1>17, <1>18 DEF IInv

LEMMA SplitRecordStep == IInv /\ SplitRecord => IInv'
  <1> SUFFICES ASSUME IInv, SplitRecord PROVE IInv'
    OBVIOUS
  <1> DEFINE r == Record(cur, start, Bound, <<Slice(cur, start, Room0)>>)
  <1>1. /\ AtBound /\ pc = "bounds" /\ Bound.len > Room0
        /\ rec' = r /\ need' = Bound.len - Room0 /\ first' = TRUE /\ pc' = "body"
        /\ UNCHANGED <<sourceVars, out_buffer, lwn_ctx, latest_block, cur, idx,
                       start, delivered>>
    BY DEF SplitRecord, AtBound
  <1>2. /\ cur \in 1 .. FileSize /\ cur \in Nat
        /\ start \in Readable /\ start \in Nat /\ start < BlockSz
        /\ Bound \in Bounds /\ Bound.info \in Heads /\ Bound.len \in Nat
        /\ Bound = Bound_of(Bound.info, start)
        /\ Bound.len >= MIN_RECORD
    BY <1>1, AtTheBound
  <1>3. Room0 \in Nat /\ Room0 > 0 /\ start + Room0 = BlockSz
    BY <1>2, Sizes DEF Room0
  <1>3a. start + Room0 <= BlockSz
    BY <1>3, Sizes
  <1>4. /\ Begun(r) /\ Sliced(r) /\ SlicedLen(r) = Room0
        /\ LastSlice(r) = Slice(cur, start, Room0)
        /\ r.bound = Bound /\ r.blk = cur /\ r.offset = start
    BY <1>2, <1>3, <1>3a, FirstSlice
  <1> HIDE DEF r
  <1>5. LastSlice(r).blk = cur /\ LastFull(r)
    BY <1>3, <1>4 DEF Slice, LastFull
  <1>6. SourceInv' /\ SourceTypeOK'
    BY <1>1, SourceStutter DEF IInv, SourceInv
  <1>7. UNCHANGED <<FileSize, LastServed, Produced>> /\ \A j : Block(j)' = Block(j)
    BY <1>1 DEF sourceVars, FileSize, LastServed, Block, Produced
  <1>8. need' \in Nat /\ need' > 0 /\ SlicedLen(r) + need' = r.bound.len
    BY <1>1, <1>2, <1>3, <1>4
  <1>9. TypeOK'
    <2>1. rec' \in RecordType /\ first' \in BOOLEAN
      BY <1>1, <1>4 DEF Begun
    <2> QED
      BY <1>1, <1>6, <1>7, <1>8, <2>1 DEF IInv, TypeOK
  <1>10. latest_block = 0 /\ cur <= LastServed /\ Past(Produced, cur, start)
    BY <1>1 DEF IInv, Ahead
  <1>11. InBody'
    BY <1>1, <1>4, <1>5, <1>7, <1>8, <1>10 DEF InBody
  <1>12. Ahead' /\ Sound'
    BY <1>1, <1>4, <1>7, <1>10, Basics DEF IInv, Ahead, Sound
  <1>13. StillOpen' /\ OneBlock' /\ InBounds'
    BY <1>1 DEF IInv, StillOpen, Finished, OneBlock, InBounds, sourceVars
  <1> QED
    BY <1>6, <1>9, <1>11, <1>12, <1>13 DEF IInv

LEMMA GiveUpStep ==
  ASSUME IInv, NEW i \in 1 .. FileSize, GiveUp(i)
  PROVE  IInv'
  <1>1. /\ pc = "body" /\ Serve(i) /\ latest_block' = i /\ first' = FALSE
        /\ rec' = NoRec /\ need' = 0 /\ pc' = "idle"
        /\ UNCHANGED <<out_buffer, lwn_ctx, cur, idx, start, delivered>>
    BY DEF GiveUp
  <1>2. /\ SourceInv' /\ SourceTypeOK' /\ LastServed < i /\ LastServed' = i
        /\ UNCHANGED <<log, source>> /\ FileSize' = FileSize
        /\ \A j : Block(j)' = Block(j)
    BY <1>1, Served DEF Finished
  <1>3. /\ AssembledIn(Produced) /\ DisjointIn(Produced)
        /\ UpTo(Produced, i) /\ Past(Produced, i, Block(i).offset)
    BY <1>2, Basics, UpToPast DEF IInv, Sound
  <1>4. Produced' = Produced
    BY <1>1 DEF Produced
  <1>5. TypeOK'
    <2>1. i \in 0 .. FileSize' /\ need' \in Nat
      BY <1>1, <1>2, Basics
    <2>2. first' \in BOOLEAN
      BY <1>1
    <2> QED
      BY <1>1, <1>2, <2>1, <2>2 DEF IInv, TypeOK
  <1>6. Sound'
    BY <1>2, <1>3, <1>4 DEF Sound
  <1>7. Ahead'
    BY <1>1, <1>2, <1>3, <1>4 DEF Ahead
  <1> QED
    BY <1>1, <1>2, <1>5, <1>6, <1>7
    DEF IInv, StillOpen, Finished, OneBlock, InBounds, InBody

\* What the loop over the continuation blocks knows of the record, the block at
\* i and the slice it takes of it.
LEMMA TakeSlice ==
  ASSUME IInv, pc = "body", NEW i \in 1 .. FileSize, Serve(i)
  PROVE  LET w == WithSlice(rec, i, Take) IN
           /\ Take \in Nat /\ Take > 0 /\ Take <= body_sz /\ Take <= need
           /\ ~ Last => Take = body_sz /\ need > Take
           /\ Last => Take = need
           /\ need \in Nat /\ SlicedLen(rec) \in Int
           /\ Begun(w) /\ Sliced(w) /\ SlicedLen(w) = SlicedLen(rec) + Take
           /\ LastSlice(w) = Slice(i, BLOCK_HEAD, Take)
           /\ w.bound = rec.bound /\ w.blk = rec.blk /\ w.offset = rec.offset
           /\ w.blk = cur
           /\ SlicedLen(w) + (need - Take) = w.bound.len
  <1>1. /\ Begun(rec) /\ rec.blk = cur /\ Sliced(rec) /\ LastFull(rec)
        /\ LastSlice(rec).blk <= LastServed
        /\ need > 0 /\ SlicedLen(rec) + need = rec.bound.len
        /\ need \in Nat /\ rec \in RecordType
    BY DEF IInv, InBody, TypeOK, Begun
  <1>2. LastServed < i /\ LastServed \in Nat /\ i \in Nat
    BY Served, Basics DEF Finished
  <1>3. LastSlice(rec).blk < i
    <2>1. rec.raw \in Seq(SliceType) /\ Len(rec.raw) \in Nat
      BY <1>1 DEF RecordType
    <2>2. Len(rec.raw) >= 1
      BY <1>1 DEF Sliced
    <2>3. LastSlice(rec) \in SliceType
      BY <2>1, <2>2, ElementOfSeq DEF LastSlice
    <2>4. LastSlice(rec).blk \in Nat
      BY <2>3 DEF SliceType
    <2> QED
      BY <1>1, <1>2, <2>4
  <1>4. /\ Take \in Nat /\ Take > 0 /\ Take <= body_sz /\ Take <= need
        /\ ~ Last => Take = body_sz /\ need > Take
        /\ Last => Take = need
    BY <1>1, Sizes DEF Take, Last
  <1> DEFINE w == WithSlice(rec, i, Take)
  <1>5. /\ Begun(w) /\ Sliced(w) /\ SlicedLen(w) = SlicedLen(rec) + Take
        /\ LastSlice(w) = Slice(i, BLOCK_HEAD, Take)
        /\ w.bound = rec.bound /\ w.blk = rec.blk /\ w.offset = rec.offset
    BY <1>1, <1>2, <1>3, <1>4, Grows
  <1> HIDE DEF w
  <1>6. SlicedLen(rec) \in Int
    <2>1. rec.raw \in Seq(SliceType) /\ Len(rec.raw) \in Nat /\ rec.offset \in Nat
      BY <1>1 DEF RecordType
    <2>2. Len(rec.raw) >= 1
      BY <1>1 DEF Sliced
    <2>3. rec.raw[Len(rec.raw)] \in SliceType /\ rec.raw[1] \in SliceType
      BY <2>1, <2>2, ElementOfSeq
    <2>4. rec.raw[Len(rec.raw)].size \in Int /\ rec.raw[1].size \in Int
      BY <2>3 DEF SliceType
    <2>5. (Len(rec.raw) - 2) * body_sz \in Int
      <3> DEFINE n == Len(rec.raw) - 2
      <3>1. n \in Int
        BY <2>1
      <3> HIDE DEF n
      <3>2. n * body_sz \in Int
        BY <3>1, Sizes
      <3> QED
        BY <3>2 DEF n
    <2>6. (BlockSz - rec.offset) \in Int
      BY <2>1, Sizes
    <2> QED
      BY <2>4, <2>5, <2>6 DEF SlicedLen
  <1>7. SlicedLen(w) + (need - Take) = w.bound.len
    BY <1>1, <1>4, <1>5, <1>6
  <1> QED
    BY <1>1, <1>4, <1>5, <1>6, <1>7 DEF w

LEMMA ContinueStep ==
  ASSUME IInv, NEW i \in 1 .. FileSize, Continue(i)
  PROVE  IInv'
  <1> DEFINE w == WithSlice(rec, i, Take)
  <1>1. /\ pc = "body" /\ Serve(i) /\ ~ Last
        /\ rec' = w /\ need' = need - Take /\ first' = FALSE
        /\ UNCHANGED <<pc, out_buffer, lwn_ctx, latest_block, cur, idx, start,
                       delivered>>
    BY DEF Continue
  <1>2. /\ SourceInv' /\ SourceTypeOK' /\ LastServed < i /\ LastServed' = i
        /\ UNCHANGED <<log, source>> /\ FileSize' = FileSize
        /\ \A j : Block(j)' = Block(j)
    BY <1>1, Served DEF Finished
  <1>3. /\ Take \in Nat /\ Take = body_sz /\ need > Take /\ need \in Nat
        /\ Begun(w) /\ Sliced(w)
        /\ LastSlice(w) = Slice(i, BLOCK_HEAD, Take)
        /\ w.blk = rec.blk /\ w.offset = rec.offset /\ w.blk = cur
        /\ SlicedLen(w) + (need - Take) = w.bound.len
    BY <1>1, TakeSlice
  <1> HIDE DEF w
  <1>4. LastFull(w) /\ LastSlice(w).blk = i
    BY <1>3, Sizes DEF LastFull, Slice
  <1>5. need' \in Nat /\ need' > 0
    BY <1>1, <1>3
  <1>6. Produced' = Produced
    BY <1>1 DEF Produced
  <1>7. UpTo(Produced, i)
    BY <1>2, Basics, UpToPast DEF IInv, Sound
  <1>8. TypeOK'
    <2>1. rec' \in RecordType /\ first' \in BOOLEAN
      BY <1>1, <1>3 DEF Begun
    <2> QED
      BY <1>1, <1>2, <1>5, <2>1 DEF IInv, TypeOK
  <1>9. InBody'
    <2>1. i <= i
      OBVIOUS
    <2> QED
      BY <1>1, <1>2, <1>3, <1>4, <1>5, <2>1 DEF InBody
  <1>10. Sound'
    BY <1>2, <1>6, <1>7 DEF IInv, Sound
  <1>11. Ahead'
    <2>1. /\ latest_block = 0 /\ cur <= LastServed /\ cur \in 0 .. FileSize
          /\ Past(Produced, rec.blk, rec.offset)
      BY <1>1 DEF IInv, Ahead, TypeOK
    <2>2. cur <= i /\ 0 <= i
      BY <1>2, <2>1, Basics
    <2> QED
      BY <1>1, <1>2, <1>3, <1>6, <2>1, <2>2 DEF Ahead
  <1> QED
    BY <1>1, <1>2, <1>8, <1>9, <1>10, <1>11
    DEF IInv, StillOpen, Finished, OneBlock, InBounds

LEMMA CompleteStep ==
  ASSUME IInv, NEW i \in 1 .. FileSize, Complete(i)
  PROVE  IInv'
  <1> DEFINE w == WithSlice(rec, i, Take)
  <1>1. /\ pc = "body" /\ Serve(i) /\ Last
        /\ out_buffer' = Append(out_buffer, w)
        /\ lwn_ctx' = Water(rec.bound)
        /\ latest_block' = IF Take = body_sz \/ Block(i).offset < rec.bound.next_offset
                           THEN 0 ELSE i
        /\ need' = 0 /\ first' = FALSE /\ rec' = NoRec /\ pc' = "idle"
        /\ UNCHANGED <<cur, idx, start, delivered>>
    BY DEF Complete
  <1>2. /\ SourceInv' /\ SourceTypeOK' /\ LastServed < i /\ LastServed' = i
        /\ UNCHANGED <<log, source>> /\ FileSize' = FileSize
        /\ \A j : Block(j)' = Block(j)
    BY <1>1, Served DEF Finished
  <1>3. /\ Take \in Nat /\ Take > 0 /\ Take <= body_sz /\ Take = need
        /\ Begun(w) /\ Sliced(w)
        /\ LastSlice(w) = Slice(i, BLOCK_HEAD, Take)
        /\ w.bound = rec.bound /\ w.blk = rec.blk /\ w.offset = rec.offset
        /\ SlicedLen(w) + (need - Take) = w.bound.len
        /\ need \in Nat /\ SlicedLen(rec) \in Int
        /\ SlicedLen(w) = SlicedLen(rec) + Take
    BY <1>1, TakeSlice
  <1> HIDE DEF w
  <1>4. /\ LastSlice(w).blk = i /\ LastSlice(w).from = BLOCK_HEAD
        /\ LastSlice(w).size = Take
    BY <1>3 DEF Slice
  <1>5. SlicedLen(w) = w.bound.len
    BY <1>3
  <1>6. Assembled(w) /\ w \in RecordType /\ w.bound.info \in Heads
    BY <1>3, <1>4, <1>5, AssembledBy DEF Begun
  <1>7. delivered \in Seq(RecordType) /\ out_buffer \in Seq(RecordType)
    BY DEF IInv, TypeOK
  <1>8. Produced' = Append(Produced, w) /\ Produced \in Seq(RecordType)
    <2>1. Produced' = delivered \o Append(out_buffer, w)
      BY <1>1 DEF Produced
    <2> QED
      BY <1>6, <1>7, <2>1, ConcatAppend, Basics DEF Produced
  <1>9. /\ AssembledIn(Produced) /\ DisjointIn(Produced) /\ UpTo(Produced, i)
        /\ Past(Produced, i, Block(i).offset)
        /\ Past(Produced, w.blk, w.offset)
    BY <1>1, <1>2, <1>3, Basics, UpToPast DEF IInv, Sound, Ahead
  <1>10. Sound'
    <2>1. AssembledIn(Produced') /\ DisjointIn(Produced')
      BY <1>6, <1>8, <1>9, AppendRecord
    <2>2. UpTo(Produced', i)
      BY <1>4, <1>8, <1>9, AppendUpTo
    <2> QED
      BY <1>2, <2>1, <2>2 DEF Sound
  <1>11. TypeOK'
    <2>1. out_buffer' \in Seq(RecordType)
      BY <1>1, <1>6, <1>7
    <2>2. lwn_ctx' \in LwnCtxs \cup {NoLwn}
      BY <1>1, <1>3, <1>6, WaterType
    <2>3. latest_block' \in 0 .. FileSize' /\ need' \in Nat
      BY <1>1, <1>2, Basics
    <2>4. first' \in BOOLEAN
      BY <1>1
    <2> QED
      BY <1>1, <1>2, <2>1, <2>2, <2>3, <2>4 DEF IInv, TypeOK
  <1>12. latest_block' # 0 => Past(Produced', i, Block(i).offset)
    <2> SUFFICES ASSUME latest_block' # 0 PROVE Past(Produced', i, Block(i).offset)
      OBVIOUS
    <2>1. Take # body_sz /\ ~ (Block(i).offset < rec.bound.next_offset)
      BY <1>1
    <2>2. w.bound.next_offset = BLOCK_HEAD + Take
      <3>1. BLOCK_HEAD + Take # BlockSz
        BY <1>3, <2>1, Sizes
      <3>2. LET z == w.raw[Len(w.raw)] IN z.from + z.size = BLOCK_HEAD + Take
        BY <1>4 DEF LastSlice
      <3> QED
        BY <1>6, <3>1, <3>2 DEF Assembled
    <2>3. Block(i).offset \in Nat
      BY LogsAssumption, Basics DEF Block, FileSize
    <2>4. EndsBefore(w, i, Block(i).offset)
      BY <1>3, <1>4, <2>1, <2>2, <2>3, Sizes DEF EndsBefore
    <2> QED
      BY <1>8, <1>9, <2>4, AppendPast
  <1>13. Ahead'
    <2>1. latest_block' \in {0, i} /\ 0 <= i /\ i <= i
      BY <1>1
    <2> QED
      BY <1>1, <1>2, <1>12, <2>1 DEF Ahead
  <1> QED
    BY <1>1, <1>2, <1>10, <1>11, <1>13
    DEF IInv, StillOpen, Finished, OneBlock, InBounds, InBody

-----------------------------------------------------------------------------
LEMMA StepKeeps == IInv /\ Step => IInv'
  BY DeliverStep, EndOfFileStep, EnterLatestStep, EnterNextStep, LeaveBoundsStep,
     WholeRecordStep, SplitRecordStep, GiveUpStep, ContinueStep, CompleteStep,
     ThrowStep
  DEF Step, Fill

LEMMA StutterKeeps == IInv /\ UNCHANGED vars => IInv'
  <1> SUFFICES ASSUME IInv, UNCHANGED vars PROVE IInv'
    OBVIOUS
  <1>1. UNCHANGED <<sourceVars, pc, out_buffer, lwn_ctx, latest_block, cur, idx,
                    start, rec, need, first, delivered>>
    BY DEF vars, recordVars, fillVars
  <1>2. SourceInv' /\ SourceTypeOK'
    BY <1>1, SourceStutter DEF IInv, SourceInv
  <1>3. UNCHANGED <<FileSize, LastServed, Produced>> /\ \A j : Block(j)' = Block(j)
    BY <1>1 DEF sourceVars, FileSize, LastServed, Block, Produced
  <1> QED
    BY <1>1, <1>2, <1>3
    DEF IInv, TypeOK, StillOpen, Finished, OneBlock, InBounds, InBody, Sound,
        Ahead, sourceVars

LEMMA Invariance == Spec => []IInv
  <1>1. IInv /\ [Next]_vars => IInv'
    BY StepKeeps, StutterKeeps DEF Next, Terminated
  <1> QED
    BY InitIInv, <1>1, PTL DEF Spec

\* The variables of the record source keep their types.
THEOREM TypeCorrect == Spec => []TypeOK
  BY Invariance, PTL DEF IInv

\* RecordSource.cpp:108-191: every record that is produced has exactly the bytes
\* its length field says, and ends where Bound_of said before they were read.
THEOREM AllAssembledHolds == Spec => []AllAssembled
  <1>1. IInv => AllAssembled
    BY DEF IInv, Sound, AssembledIn, AllAssembled
  <1> QED
    BY <1>1, Invariance, PTL

\* RecordSource.cpp:108-191: no byte of the log is in two records.
THEOREM NoOverlapHolds == Spec => []NoOverlap
  <1>1. IInv => NoOverlap
    BY DEF IInv, Sound, DisjointIn, NoOverlap
  <1> QED
    BY <1>1, Invariance, PTL

\* RecordSource.cpp:197-213: an exception loses records of one block only.
THEOREM LossOnThrowHolds == Spec => []LossOnThrow
  <1>1. IInv => LossOnThrow
    BY DEF IInv, OneBlock, LossOnThrow
  <1> QED
    BY <1>1, Invariance, PTL

\* RecordSource.cpp:136-191: a record being assembled lacks what it has not got.
THEOREM RemainingHolds == Spec => []Remaining
  <1>1. IInv => Remaining
    BY NoRecAssumption DEF IInv, InBody, Begun, Remaining
  <1> QED
    BY <1>1, Invariance, PTL
-----------------------------------------------------------------------------
(* The log-writer note: a record is judged against the note of the nearest *)
(* record before it that carries one, however much later it is produced.   *)

IsLatest(D, j) == j \in D /\ \A i \in D : i <= j
Latest(D) == CHOOSE j \in D : \A i \in D : i <= j

NoteOf(r) == [low |-> r.bound.info.low, nxt |-> r.bound.info.nxt]

\* The nearest record with a note, where there is one at all, is found.
NotesFound(s) ==
  \A k \in 1 .. Len(s) + 1 :
    Depends(s, k) # {} => \E j \in Depends(s, k) : IsLatest(Depends(s, k), j)

JudgedIn(s) == \A k \in 1 .. Len(s) : fairBound(s[k].bound, WindowAt(s, k))

\* A record being assembled was judged when its first block was parsed, and no
\* record has been produced since.
FairInv ==
  /\ NotesFound(Produced)
  /\ JudgedIn(Produced)
  /\ lwn_ctx = WindowAt(Produced, Len(Produced) + 1)
  /\ pc = "body" => fairBound(rec.bound, lwn_ctx)

LEMMA LatestIs ==
  ASSUME NEW D, \E j \in D : IsLatest(D, j)
  PROVE  IsLatest(D, Latest(D))
  BY DEF IsLatest, Latest

LEMMA LatestOfMax ==
  ASSUME NEW D \in SUBSET Nat, NEW j, IsLatest(D, j)
  PROVE  Latest(D) = j
  <1>1. IsLatest(D, Latest(D))
    BY LatestIs DEF IsLatest
  <1>2. j \in Nat /\ Latest(D) \in Nat /\ j <= Latest(D) /\ Latest(D) <= j
    BY <1>1 DEF IsLatest
  <1> QED
    BY <1>2

LEMMA WindowIs ==
  ASSUME NEW s, NEW k
  PROVE  WindowAt(s, k) = IF Depends(s, k) = {} THEN NoLwn
                          ELSE NoteOf(s[Latest(Depends(s, k))])
  BY DEF WindowAt, Latest, NoteOf

\* What comes behind a record does not change the note it was judged by.
LEMMA WindowPrefix ==
  ASSUME NEW s \in Seq(RecordType), NEW r, NotesFound(s),
         NEW k \in 1 .. Len(s) + 1
  PROVE  /\ Depends(Append(s, r), k) = Depends(s, k)
         /\ WindowAt(Append(s, r), k) = WindowAt(s, k)
  <1> DEFINE u == Append(s, r)
  <1>1. \A j \in 1 .. k - 1 : u[j] = s[j]
    OBVIOUS
  <1> HIDE DEF u
  <1>2. Depends(u, k) = Depends(s, k)
    BY <1>1 DEF Depends
  <1>3. CASE Depends(s, k) = {}
    BY <1>2, <1>3, WindowIs DEF u
  <1>4. CASE Depends(s, k) # {}
    <2>1. Latest(Depends(s, k)) \in 1 .. k - 1
      BY <1>4, LatestIs DEF NotesFound, IsLatest, Depends
    <2>2. u[Latest(Depends(u, k))] = s[Latest(Depends(s, k))]
      BY <1>1, <1>2, <2>1
    <2> QED
      BY <1>2, <1>4, <2>2, WindowIs DEF u
  <1> QED
    BY <1>2, <1>3, <1>4 DEF u

\* update_water: the note after a record is its own, or the one before it.
LEMMA WindowAppend ==
  ASSUME NEW s \in Seq(RecordType), NEW r, NotesFound(s)
  PROVE  /\ NotesFound(Append(s, r))
         /\ WindowAt(Append(s, r), Len(s) + 2) =
              IF dependBit_on(r.bound.info.vld) THEN NoteOf(r)
              ELSE WindowAt(s, Len(s) + 1)
  <1> DEFINE u == Append(s, r)
             n == Len(s)
             D == Depends(s, n + 1)
             E == Depends(u, n + 2)
  <1>1. /\ n \in Nat /\ Len(u) = n + 1 /\ u[n + 1] = r
        /\ \A j \in 1 .. n : u[j] = s[j]
        /\ (n + 1) - 1 = n /\ (n + 2) - 1 = n + 1
    OBVIOUS
  <1>2. \A k \in 1 .. n + 1 : Depends(u, k) = Depends(s, k)
    BY WindowPrefix
  <1>3. D = {j \in 1 .. n : dependBit_on(s[j].bound.info.vld)}
    BY <1>1 DEF Depends
  <1>4. E = {j \in 1 .. n + 1 : dependBit_on(u[j].bound.info.vld)}
    BY <1>1 DEF Depends
  <1> HIDE DEF u
  <1>5. CASE dependBit_on(r.bound.info.vld)
    <2>1. IsLatest(E, n + 1)
      BY <1>1, <1>4, <1>5 DEF IsLatest
    <2>2. E \in SUBSET Nat /\ E # {} /\ n + 1 \in E
      BY <1>4, <2>1 DEF IsLatest
    <2> HIDE DEF E
    <2>3. Latest(E) = n + 1
      BY <2>1, <2>2, LatestOfMax
    <2>4. WindowAt(u, n + 2) = NoteOf(r)
      BY <1>1, <2>2, <2>3, WindowIs DEF E
    <2> QED
      BY <1>1, <1>2, <1>5, <2>1, <2>2, <2>4 DEF NotesFound, E, u
  <1>6. CASE ~ dependBit_on(r.bound.info.vld)
    <2>1. E = D
      <3>1. ASSUME NEW j \in 1 .. n + 1, dependBit_on(u[j].bound.info.vld)
            PROVE  j \in D
        BY <1>1, <1>3, <1>6, <3>1
      <3>2. ASSUME NEW j \in D
            PROVE  j \in E
        BY <1>1, <1>3, <1>4, <3>2
      <3> HIDE DEF D
      <3> QED
        BY <1>4, <3>1, <3>2
    <2>2. D # {} => \E j \in D : IsLatest(D, j)
      BY <1>1 DEF NotesFound
    <2>3. D # {} => Latest(D) \in 1 .. n
      BY <1>3, <2>2, LatestIs DEF IsLatest
    <2>4. D # {} => u[Latest(D)] = s[Latest(D)]
      BY <1>1, <2>3
    <2>5. WindowAt(u, n + 2) = WindowAt(s, n + 1)
      BY <2>1, <2>4, WindowIs
    <2> QED
      BY <1>1, <1>2, <1>6, <2>1, <2>2, <2>5 DEF NotesFound, u
  <1> QED
    BY <1>5, <1>6

\* A record is produced: it suits the note in force, and update_water follows.
LEMMA FairAppend ==
  ASSUME NEW r, Produced \in Seq(RecordType), Produced' = Append(Produced, r),
         FairInv, fairBound(r.bound, lwn_ctx), lwn_ctx' = Water(r.bound),
         pc' # "body"
  PROVE  FairInv'
  <1> DEFINE s == Produced
             u == Append(s, r)
             n == Len(s)
  <1>1. /\ n \in Nat /\ Len(u) = n + 1 /\ u[n + 1] = r
        /\ \A j \in 1 .. n : u[j] = s[j]
        /\ (n + 1) + 1 = n + 2
    OBVIOUS
  <1>2. NotesFound(s) /\ JudgedIn(s) /\ lwn_ctx = WindowAt(s, n + 1)
    BY DEF FairInv
  <1>3. \A k \in 1 .. n + 1 : WindowAt(u, k) = WindowAt(s, k)
    BY <1>2, WindowPrefix
  <1>4. NotesFound(u)
    BY <1>2, WindowAppend
  <1>5. lwn_ctx' = WindowAt(u, n + 2)
    BY <1>2, WindowAppend DEF Water, NoteOf
  <1>6. u = Produced'
    OBVIOUS
  <1> HIDE DEF u
  <1>7. JudgedIn(u)
    <2> SUFFICES ASSUME NEW k \in 1 .. n + 1
                 PROVE  fairBound(u[k].bound, WindowAt(u, k))
      BY <1>1 DEF JudgedIn
    <2>1. CASE k \in 1 .. n
      BY <1>1, <1>2, <1>3, <2>1 DEF JudgedIn
    <2>2. CASE k = n + 1
      BY <1>1, <1>2, <1>3, <2>2
    <2> QED
      BY <1>1, <2>1, <2>2
  <1> HIDE DEF s, n
  <1>8. Len(Produced') + 1 = n + 2
    BY <1>1, <1>6
  <1>9. FairInv' = /\ NotesFound(Produced') /\ JudgedIn(Produced')
                   /\ lwn_ctx' = WindowAt(Produced', Len(Produced') + 1)
                   /\ pc' = "body" => fairBound(rec'.bound, lwn_ctx')
    BY DEF FairInv
  <1> QED
    BY <1>4, <1>5, <1>6, <1>7, <1>8, <1>9

LEMMA InitFairInv == Init => FairInv
  <1> SUFFICES ASSUME Init PROVE FairInv
    OBVIOUS
  <1>1. /\ pc = "idle" /\ lwn_ctx = NoLwn
        /\ out_buffer = << >> /\ delivered = << >>
    BY DEF Init
  <1>2. Len(Produced) = 0
    BY <1>1 DEF Produced
  <1>3. \A k \in {0, 1} : Depends(Produced, k) = {}
    BY DEF Depends
  <1>4. NotesFound(Produced) /\ JudgedIn(Produced)
    BY <1>2, <1>3 DEF NotesFound, JudgedIn
  <1>5. WindowAt(Produced, Len(Produced) + 1) = NoLwn
    BY <1>2, <1>3 DEF WindowAt
  <1> QED
    BY <1>1, <1>4, <1>5 DEF FairInv

\* A step that produces no record moves no note and begins none.
LEMMA FairSame ==
  ASSUME FairInv, UNCHANGED <<Produced, lwn_ctx>>,
         pc' = "body" => pc = "body" /\ rec'.bound = rec.bound
  PROVE  FairInv'
  BY DEF FairInv

\* What the steps do to the records produced: handing one out changes nothing.
LEMMA DeliverProduces == IInv /\ Deliver => Produced' = Produced
  <1> SUFFICES ASSUME IInv, Deliver PROVE Produced' = Produced
    OBVIOUS
  <1>1. /\ out_buffer # << >>
        /\ delivered' = Append(delivered, out_buffer[1])
        /\ out_buffer' = Tail(out_buffer)
    BY DEF Deliver
  <1>2. delivered \in Seq(RecordType) /\ out_buffer \in Seq(RecordType)
    BY DEF IInv, TypeOK
  <1> QED
    BY <1>1, <1>2, MoveHead, Zenon DEF Produced

LEMMA PushProduces ==
  ASSUME IInv, NEW r \in RecordType, out_buffer' = Append(out_buffer, r),
         UNCHANGED delivered
  PROVE  Produced' = Append(Produced, r) /\ Produced \in Seq(RecordType)
  <1>1. delivered \in Seq(RecordType) /\ out_buffer \in Seq(RecordType)
    BY DEF IInv, TypeOK
  <1>2. Produced' = delivered \o Append(out_buffer, r)
    BY DEF Produced
  <1> QED
    BY <1>1, <1>2, ConcatAppend, Basics DEF Produced

LEMMA WholeProduces ==
  ASSUME IInv, WholeRecord
  PROVE  LET r == Record(cur, start, Bound, <<Slice(cur, start, Bound.len)>>) IN
           /\ Produced' = Append(Produced, r) /\ r \in RecordType
           /\ r.bound = Bound /\ r.blk = cur
  <1> DEFINE r == Record(cur, start, Bound, <<Slice(cur, start, Bound.len)>>)
  <1>1. AtBound /\ out_buffer' = Append(out_buffer, r) /\ UNCHANGED delivered
    BY DEF WholeRecord
  <1>2. /\ cur \in Nat /\ start \in Nat /\ Bound \in Bounds /\ Bound.len \in Nat
    BY <1>1, AtTheBound
  <1>3. r \in RecordType /\ r.bound = Bound /\ r.blk = cur
    BY <1>2 DEF Record, RecordType, Slice, SliceType
  <1> HIDE DEF r
  <1>4. Produced' = Append(Produced, r)
    BY <1>1, <1>3, PushProduces
  <1> QED
    BY <1>3, <1>4 DEF r

LEMMA CompleteProduces ==
  ASSUME IInv, NEW i \in 1 .. FileSize, Complete(i)
  PROVE  LET w == WithSlice(rec, i, Take) IN
           /\ Produced' = Append(Produced, w) /\ w \in RecordType
           /\ w.bound = rec.bound /\ w.blk = cur
  <1> DEFINE w == WithSlice(rec, i, Take)
  <1>1. /\ pc = "body" /\ Serve(i) /\ out_buffer' = Append(out_buffer, w)
        /\ UNCHANGED delivered
    BY DEF Complete
  <1>2. Begun(w) /\ w.bound = rec.bound /\ w.blk = cur
    BY <1>1, TakeSlice
  <1> HIDE DEF w
  <1>3. w \in RecordType
    BY <1>2 DEF Begun
  <1>4. Produced' = Append(Produced, w)
    BY <1>1, <1>3, PushProduces
  <1> QED
    BY <1>2, <1>3, <1>4 DEF w

LEMMA FairDeliver == IInv /\ FairInv /\ Deliver => FairInv'
  <1> SUFFICES ASSUME IInv, FairInv, Deliver PROVE FairInv'
    OBVIOUS
  <1>1. pc = "idle" /\ UNCHANGED <<pc, lwn_ctx>>
    BY DEF Deliver
  <1>2. Produced' = Produced
    BY DeliverProduces
  <1> QED
    BY <1>1, <1>2, FairSame

LEMMA FairWholeRecord == IInv /\ FairInv /\ WholeRecord => FairInv'
  <1> SUFFICES ASSUME IInv, FairInv, WholeRecord PROVE FairInv'
    OBVIOUS
  <1>1. /\ pc = "bounds" /\ lwn_ctx' = Water(Bound) /\ UNCHANGED pc
        /\ fairBound(Bound, lwn_ctx)
    BY DEF WholeRecord, AtBound, Suits
  <1>2. PICK r : /\ Produced' = Append(Produced, r) /\ r \in RecordType
                 /\ r.bound = Bound
    BY WholeProduces
  <1> QED
    BY <1>1, <1>2, FairAppend, Basics

LEMMA FairSplitRecord == FairInv /\ SplitRecord => FairInv'
  <1> SUFFICES ASSUME FairInv, SplitRecord PROVE FairInv'
    OBVIOUS
  <1>1. /\ rec'.bound = Bound /\ fairBound(Bound, lwn_ctx)
        /\ UNCHANGED <<out_buffer, lwn_ctx, delivered>>
    BY DEF SplitRecord, AtBound, Suits, Record
  <1>2. Produced' = Produced
    BY <1>1 DEF Produced
  <1> QED
    BY <1>1, <1>2 DEF FairInv

LEMMA FairContinue ==
  ASSUME IInv, FairInv, NEW i \in 1 .. FileSize, Continue(i)
  PROVE  FairInv'
  <1>1. /\ pc = "body" /\ Serve(i) /\ rec' = WithSlice(rec, i, Take)
        /\ UNCHANGED <<pc, out_buffer, lwn_ctx, delivered>>
    BY DEF Continue
  <1>2. rec'.bound = rec.bound
    BY <1>1, TakeSlice
  <1>3. Produced' = Produced
    BY <1>1 DEF Produced
  <1> QED
    BY <1>1, <1>2, <1>3, FairSame

LEMMA FairComplete ==
  ASSUME IInv, FairInv, NEW i \in 1 .. FileSize, Complete(i)
  PROVE  FairInv'
  <1>1. /\ pc = "body" /\ pc' = "idle" /\ lwn_ctx' = Water(rec.bound)
    BY DEF Complete
  <1>2. PICK w : /\ Produced' = Append(Produced, w) /\ w \in RecordType
                 /\ w.bound = rec.bound
    BY CompleteProduces
  <1>3. fairBound(w.bound, lwn_ctx)
    BY <1>1, <1>2 DEF FairInv
  <1> QED
    BY <1>1, <1>2, <1>3, FairAppend, Basics

\* The steps that neither produce a record nor begin one.
LEMMA FairOther ==
  ASSUME FairInv,
         \/ EnterLatest \/ EnterNext \/ LeaveBounds \/ EndOfFile \/ Throw
         \/ \E i \in 1 .. FileSize : GiveUp(i)
  PROVE  FairInv'
  <1>1. /\ UNCHANGED <<out_buffer, lwn_ctx, delivered>>
        /\ pc' \in {"idle", "bounds", "eof", "thrown"}
    BY DEF EnterLatest, EnterNext, Enter, LeaveBounds, EndOfFile, GiveUp, Throw,
           SourceThrows, BadWholeRecord, NotEnoughBlocks, InterimRival,
           BadCompletion
  <1>2. Produced' = Produced
    BY <1>1 DEF Produced
  <1> QED
    BY <1>1, <1>2, FairSame

LEMMA FairStep == IInv /\ FairInv /\ Step => FairInv'
  BY FairDeliver, FairWholeRecord, FairSplitRecord, FairContinue, FairComplete,
     FairOther
  DEF Step, Fill

LEMMA FairStutter == FairInv /\ UNCHANGED recordVars => FairInv'
  <1> SUFFICES ASSUME FairInv, UNCHANGED recordVars PROVE FairInv'
    OBVIOUS
  <1>1. UNCHANGED <<pc, out_buffer, lwn_ctx, rec, delivered>>
    BY DEF recordVars, fillVars
  <1>2. Produced' = Produced
    BY <1>1 DEF Produced
  <1> QED
    BY <1>1, <1>2, FairSame

LEMMA FairInvariance == Spec => []FairInv
  <1>1. IInv /\ FairInv /\ [Next]_vars => FairInv'
    BY FairStep, FairStutter DEF Next, Terminated, vars
  <1> QED
    BY InitFairInv, Invariance, <1>1, PTL DEF Spec

\* RecordSource.cpp:108-190: each record suits the note of the nearest record
\* before it that has one, also when blocks were read between the two judgements.
THEOREM FairInOrderHolds == Spec => []FairInOrder
  <1>1. FairInv => FairInOrder
    BY DEF FairInv, JudgedIn, FairInOrder
  <1> QED
    BY FairInvariance, <1>1, PTL

-----------------------------------------------------------------------------
(* The block source, as its client of RecordSource.cpp uses it              *)

\* No step of the record source touches the block source but through getNext,
\* and it never asks again when it was answered nullopt.
LEMMA SourceMoves == IInv /\ [Next]_vars => [SourceNext]_sourceVars
  <1> SUFFICES ASSUME IInv, [Next]_vars PROVE [SourceNext]_sourceVars
    OBVIOUS
  <1>1. CASE UNCHANGED sourceVars
    BY <1>1
  <1>2. CASE Running /\ (ServeNone \/ ServeThrow \/ \E i \in 1 .. FileSize : Serve(i))
    BY <1>2 DEF SourceNext, TakeBlock, TakeNone, TakeThrow
  <1>3. \/ UNCHANGED sourceVars
        \/ Running /\ (ServeNone \/ ServeThrow \/ \E i \in 1 .. FileSize : Serve(i))
    <2>1. CASE Fill
      <3>1. ~ Finished => Running
        BY DEF IInv, StillOpen, Running
      <3> QED
        BY <2>1, <3>1
        DEF Fill, EnterLatest, EnterNext, Enter, LeaveBounds, WholeRecord, AtBound,
            SplitRecord, GiveUp, Continue, Complete, Finished
    <2>2. CASE Throw \/ EndOfFile
      <3>1. ~ Finished => Running
        BY DEF IInv, StillOpen, Running
      <3> QED
        BY <2>2, <3>1
        DEF Throw, SourceThrows, BadWholeRecord, NotEnoughBlocks, InterimRival,
            BadCompletion, EndOfFile, AtBound, Finished
    <2>3. CASE Deliver \/ Terminated \/ UNCHANGED vars
      BY <2>3 DEF Deliver, Terminated, vars
    <2> QED
      BY <2>1, <2>2, <2>3 DEF Next, Step
  <1> QED
    BY <1>1, <1>2, <1>3

LEMMA LossInvarianceOfRecords == Spec => []LossInv
  <1>1. IInv => SourceInv
    BY DEF IInv
  <1>2. Init => LossInv
    BY InitLossInv DEF Init
  <1> QED
    BY Invariance, SourceMoves, LossMove, <1>1, <1>2, PTL DEF Spec

LEMMA OfferInvarianceOfRecords == Spec => []OfferInv
  <1>1. IInv => SourceInv
    BY DEF IInv
  <1>2. Init => OfferInv
    BY InitOfferInv DEF Init
  <1> QED
    BY Invariance, LossInvarianceOfRecords, SourceMoves, OfferMove, <1>1, <1>2, PTL
    DEF Spec

\* RecordSource.cpp:98-190 against BlockSource.cpp:95-119: with the record source
\* as its client, too, a block of this log that is not served stands behind a
\* foreign one of its chunk or behind a chunk that begins with one, or shares its
\* chunk with the partial block drain threw at.
THEOREM LossExplainedOfRecords == Spec => []LossExplained
  <1>1. IInv => SourceInv
    BY DEF IInv
  <1> QED
    BY Invariance, OfferInvarianceOfRecords, LossReasons, <1>1, PTL

-----------------------------------------------------------------------------
(* A record that spans blocks takes them from the file one after the other. *)

AllInFile == \A k \in 1 .. Len(Produced) : Produced[k].blk \in 1 .. FileSize
AllUnbroken == \A k \in 1 .. Len(Produced) : Unbroken(Produced[k])

\* The block looked at is the one served last, and a record under assembly ends
\* with it; so in a tidy file no block is left out inside a record.
AdjacentInv ==
  /\ latest_block # 0 => latest_block = LastServed
  /\ pc \in {"bounds", "body"} => cur \in 1 .. FileSize
  /\ pc = "bounds" => cur = LastServed
  /\ pc = "body" => LastSlice(rec).blk = LastServed /\ LastServed >= 1
  /\ AllInFile
  /\ Tidy => /\ pc = "body" => Unbroken(rec)
             /\ AllUnbroken

LEMMA InitAdjacent == Init => AdjacentInv
  <1> SUFFICES ASSUME Init PROVE AdjacentInv
    OBVIOUS
  <1>1. pc = "idle" /\ out_buffer = << >> /\ delivered = << >> /\ latest_block = 0
    BY DEF Init
  <1>2. Len(Produced) = 0
    BY <1>1 DEF Produced
  <1> QED
    BY <1>1, <1>2 DEF AdjacentInv, AllInFile, AllUnbroken

\* In a tidy file the block served next is the next one of the file.
LEMMA NextServed ==
  ASSUME IInv, LossInv, Tidy, ~ Finished, NEW i, Serve(i)
  PROVE  i = LastServed + 1
  <1>1. /\ SourceInv' /\ SourceTypeOK' /\ i \in 1 .. FileSize
        /\ LastServed < i /\ LastServed' = i /\ LastServed \in Nat
        /\ UNCHANGED <<log, source>> /\ FileSize' = FileSize
        /\ \A j : Block(j)' = Block(j)
    BY Served, Basics
  <1>2. source = "open" /\ LossInv'
    BY ServeLoss DEF IInv, StillOpen
  <1>3. /\ served \in Seq(1 .. FileSize) /\ Len(served) \in Nat
        /\ served' = Append(served, i)
    BY SourceNats DEF IInv, Serve, ServeQueued, ServeDrained
  <1>4. /\ Len(served') = Len(served) + 1 /\ served'[Len(served) + 1] = i
        /\ \A k \in 1 .. Len(served) : served'[k] = served[k]
        /\ Len(served) + 1 \in 1 .. Len(served')
    BY <1>3
  <1>5. /\ Block(i).lsn = Lsn /\ i <= pos'
        /\ \A k \in 1 .. Len(queue') : i < queue'[k]
    BY <1>1, <1>4 DEF SourceInv, ServedInOrder, Waiting
  <1>6. \A k \in 1 .. Len(served) : served[k] <= LastServed
    <2> SUFFICES ASSUME NEW k \in 1 .. Len(served) PROVE served[k] <= LastServed
      OBVIOUS
    <2>1. served # << >> /\ LastServed = served[Len(served)]
      BY <1>3 DEF LastServed
    <2>1a. served[k] \in 1 .. FileSize
      BY <1>3, ElementOfSeq
    <2>2. k < Len(served) => served[k] < served[Len(served)]
      BY <1>3 DEF IInv, SourceInv, ServedInOrder
    <2> QED
      BY <1>1, <1>3, <2>1, <2>1a, <2>2
  <1> SUFFICES ASSUME LastServed + 1 < i PROVE FALSE
    BY <1>1
  <1>7. PICK m \in 1 .. FileSize : m = LastServed + 1 /\ m \in 1 .. i /\ m < i
    <2>1. FileSize \in Nat /\ i <= FileSize
      BY <1>1, Basics
    <2>2. LastServed + 1 \in 1 .. FileSize /\ LastServed + 1 \in 1 .. i
      BY <1>1, <2>1
    <2> QED
      BY <2>2
  <1>8. Clear(i)
    BY <1>1, <1>5 DEF Tidy, Clear
  <1>9. Clear(m)' /\ m \in 1 .. pos'
    <2>1. Clear(m)
      BY <1>1, <1>7, <1>8 DEF Clear
    <2>2. pos' \in Nat
      BY <1>1 DEF SourceTypeOK
    <2> QED
      BY <1>1, <1>5, <1>7, <2>1, <2>2 DEF Clear
  <1>10. Held(m)'
    BY <1>1, <1>2, <1>9 DEF LossInv
  <1>11. CASE \E k \in 1 .. Len(served') : served'[k] = m
    <2>1. PICK k \in 1 .. Len(served') : served'[k] = m
      BY <1>11
    <2>2. CASE k \in 1 .. Len(served)
      BY <1>1, <1>4, <1>6, <1>7, <2>1, <2>2
    <2>3. CASE k = Len(served) + 1
      BY <1>4, <1>7, <2>1, <2>3
    <2> QED
      BY <1>3, <1>4, <2>2, <2>3
  <1>12. CASE \E k \in 1 .. Len(queue') : queue'[k] = m
    <2>1. PICK k \in 1 .. Len(queue') : queue'[k] = m
      BY <1>12
    <2>2. i < m
      BY <1>5, <2>1
    <2> QED
      BY <1>1, <1>7, <2>2
  <1> QED
    BY <1>10, <1>11, <1>12 DEF Held

LEMMA SameLog ==
  ASSUME UNCHANGED log
  PROVE  /\ FileSize' = FileSize /\ Tidy' = Tidy
         /\ \A r : Unbroken(r)' = Unbroken(r)
  BY DEF FileSize, Tidy, Unbroken, Block

\* One more slice, from the next block.
LEMMA UnbrokenGrows ==
  ASSUME IInv, AdjacentInv, LossInv, Tidy, pc = "body",
         NEW i \in 1 .. FileSize, Serve(i)
  PROVE  Unbroken(WithSlice(rec, i, Take))
  <1> DEFINE k == Len(rec.raw)
             z == Slice(i, BLOCK_HEAD, Take)
             w == WithSlice(rec, i, Take)
  <1>1. i = LastServed + 1 /\ LastServed \in 1 .. i /\ i \in Nat
    BY NextServed, Basics DEF AdjacentInv, Finished
  <1>2. /\ rec \in RecordType /\ rec.raw \in Seq(SliceType) /\ k \in Nat /\ k >= 1
        /\ Unbroken(rec) /\ rec.raw[k].blk = LastServed
    BY DEF IInv, InBody, Begun, RecordType, Sliced, AdjacentInv, LastSlice
  <1>3. w.raw = Append(rec.raw, z) /\ w.blk = rec.blk
    BY <1>2 DEF WithSlice, RecordType
  <1>4. /\ Len(w.raw) = k + 1 /\ w.raw[k + 1] = z
        /\ \A j \in 1 .. k : w.raw[j] = rec.raw[j]
    BY <1>2, <1>3
  <1>5. Block(i).no = Block(LastServed).no + (i - LastServed)
    BY <1>1 DEF Tidy
  <1>6. Block(LastServed).no = Block(rec.blk).no + (k - 1)
    BY <1>2 DEF Unbroken
  <1>7. rec.blk = cur /\ Block(cur).no \in Nat
    <2>1. rec.blk = cur /\ cur \in 1 .. FileSize /\ log \in Logs
      BY Basics DEF IInv, InBody, AdjacentInv
    <2> QED
      BY <2>1, LogsAssumption DEF FileSize, Block
  <1>8. Block(i).no = Block(rec.blk).no + k
    BY <1>1, <1>2, <1>5, <1>6, <1>7
  <1>9. z.blk = i
    BY DEF Slice
  <1> HIDE DEF w, z
  <1>10. ASSUME NEW j \in 1 .. k + 1
         PROVE  Block(w.raw[j].blk).no = Block(w.blk).no + (j - 1)
    <2>1. CASE j \in 1 .. k
      BY <1>2, <1>3, <1>4, <2>1 DEF Unbroken
    <2>2. CASE j = k + 1
      BY <1>2, <1>3, <1>4, <1>8, <1>9, <2>2
    <2> QED
      BY <1>2, <2>1, <2>2
  <1> QED
    BY <1>4, <1>10 DEF Unbroken, w

\* A record of one slice.
LEMMA UnbrokenFirst ==
  ASSUME IInv, NEW i \in 1 .. FileSize, NEW o, NEW b, NEW s
  PROVE  Unbroken(Record(i, o, b, <<Slice(i, o, s)>>))
  <1> DEFINE r == Record(i, o, b, <<Slice(i, o, s)>>)
  <1>1. r.blk = i /\ Len(r.raw) = 1 /\ r.raw[1].blk = i
    BY DEF Record, Slice
  <1> HIDE DEF r
  <1>2. Block(i).no \in Nat
    BY Basics, LogsAssumption DEF FileSize, Block
  <1>3. Unbroken(r)
    BY <1>1, <1>2 DEF Unbroken
  <1> QED
    BY <1>3 DEF r

\* The part of the invariant that speaks of the records produced.
LEMMA AdjacentProduced ==
  ASSUME AdjacentInv, UNCHANGED log, Produced \in Seq(RecordType),
         \/ Produced' = Produced
         \/ \E r : /\ Produced' = Append(Produced, r) /\ r.blk \in 1 .. FileSize
                   /\ Tidy => Unbroken(r)
  PROVE  AllInFile' /\ (Tidy => AllUnbroken')
  <1>1. ASSUME \A k \in 1 .. Len(Produced') : Produced'[k].blk \in 1 .. FileSize,
               Tidy => \A k \in 1 .. Len(Produced') : Unbroken(Produced'[k])
        PROVE  AllInFile' /\ (Tidy => AllUnbroken')
    BY <1>1 DEF AllInFile, AllUnbroken, FileSize, Unbroken, Block
  <1>2. CASE Produced' = Produced
    BY <1>1, <1>2 DEF AdjacentInv, AllInFile, AllUnbroken
  <1>3. CASE Produced' # Produced
    <2>1. PICK r : /\ Produced' = Append(Produced, r) /\ r.blk \in 1 .. FileSize
                   /\ Tidy => Unbroken(r)
      BY <1>3
    <2>2. /\ Len(Produced') = Len(Produced) + 1 /\ Len(Produced) \in Nat
          /\ Produced'[Len(Produced) + 1] = r
          /\ \A k \in 1 .. Len(Produced) : Produced'[k] = Produced[k]
      BY <2>1
    <2>3. \A k \in 1 .. Len(Produced') : k \in 1 .. Len(Produced) \/ k = Len(Produced) + 1
      BY <2>2
    <2>4. \A k \in 1 .. Len(Produced') : Produced'[k].blk \in 1 .. FileSize
      BY <2>1, <2>2, <2>3 DEF AdjacentInv, AllInFile
    <2>5. Tidy => \A k \in 1 .. Len(Produced') : Unbroken(Produced'[k])
      BY <2>1, <2>2, <2>3 DEF AdjacentInv, AllUnbroken
    <2> QED
      BY <1>1, <2>4, <2>5
  <1> QED
    BY <1>2, <1>3

\* What every step does to the parts.
LEMMA AdjacentFrom ==
  ASSUME IInv, AdjacentInv, UNCHANGED log,
         \/ Produced' = Produced
         \/ \E r : /\ Produced' = Append(Produced, r) /\ r.blk \in 1 .. FileSize
                   /\ Tidy => Unbroken(r),
         latest_block' # 0 => latest_block' = LastServed',
         pc' \in {"bounds", "body"} => cur' \in 1 .. FileSize,
         pc' = "bounds" => cur' = LastServed',
         pc' = "body" => LastSlice(rec').blk = LastServed' /\ LastServed' >= 1,
         Tidy /\ pc' = "body" => Unbroken(rec')
  PROVE  AdjacentInv'
  <1>1. AllInFile' /\ (Tidy => AllUnbroken')
    BY Basics, AdjacentProduced
  <1>2. /\ FileSize' = FileSize /\ (Tidy' => Tidy)
        /\ Tidy /\ pc' = "body" => Unbroken(rec)'
    BY DEF FileSize, Tidy, Unbroken, Block
  <1>3. LastSlice(rec)' = LastSlice(rec')
    BY DEF LastSlice
  <1> QED
    BY <1>1, <1>2, <1>3 DEF AdjacentInv

\* The steps that read no block.
LEMMA AdjacentStill ==
  ASSUME IInv, AdjacentInv,
         Deliver \/ EnterLatest \/ LeaveBounds \/ WholeRecord \/ SplitRecord
  PROVE  AdjacentInv'
  <1>1. UNCHANGED <<log, served>> /\ LastServed' = LastServed
    BY DEF Deliver, EnterLatest, LeaveBounds, WholeRecord, SplitRecord, sourceVars,
           LastServed
  <1>2. CASE Deliver
    BY <1>1, <1>2, AdjacentFrom, DeliverProduces DEF Deliver, AdjacentInv, fillVars
  <1>3. CASE EnterLatest
    <2>1. Produced' = Produced
      BY <1>3 DEF EnterLatest, Enter, Produced
    <2>2. latest_block \in 1 .. FileSize
      BY <1>3, Basics DEF EnterLatest, IInv, TypeOK
    <2>3. pc' = "bounds" /\ cur' = latest_block /\ latest_block' = 0 /\ latest_block # 0
      BY <1>3 DEF EnterLatest, Enter
    <2> QED
      BY <1>1, <2>1, <2>2, <2>3, AdjacentFrom DEF AdjacentInv
  <1>4. CASE LeaveBounds
    <2>1. Produced' = Produced
      BY <1>4 DEF LeaveBounds, Produced
    <2> QED
      BY <1>1, <1>4, <2>1, AdjacentFrom DEF LeaveBounds, AdjacentInv
  <1>5. CASE WholeRecord
    <2>1. cur \in 1 .. FileSize /\ AtBound /\ pc = "bounds" /\ pc' = "bounds"
          /\ UNCHANGED <<cur, latest_block>>
      BY <1>5, AtTheBound DEF WholeRecord, AtBound
    <2>2. Unbroken(Record(cur, start, Bound, <<Slice(cur, start, Bound.len)>>))
      BY <2>1, UnbrokenFirst
    <2>3. \E r : /\ Produced' = Append(Produced, r) /\ r.blk \in 1 .. FileSize
                 /\ Tidy => Unbroken(r)
      BY <1>5, <2>1, <2>2, WholeProduces
    <2> QED
      BY <1>1, <2>1, <2>3, AdjacentFrom DEF AdjacentInv
  <1>6. CASE SplitRecord
    <2> DEFINE r == Record(cur, start, Bound, <<Slice(cur, start, Room0)>>)
    <2>1. /\ cur \in 1 .. FileSize /\ cur \in Nat /\ AtBound /\ pc = "bounds"
          /\ rec' = r /\ pc' = "body" /\ UNCHANGED <<cur, latest_block>>
      BY <1>6, AtTheBound DEF SplitRecord, AtBound
    <2>2. Unbroken(r)
      BY <2>1, UnbrokenFirst
    <2>3. LastSlice(r).blk = cur
      BY DEF LastSlice, Record, Slice
    <2>4. Produced' = Produced
      BY <1>6 DEF SplitRecord, Produced
    <2> HIDE DEF r
    <2>5. cur = LastServed /\ LastServed >= 1
      BY <2>1 DEF AdjacentInv
    <2>6. LastSlice(rec').blk = LastServed' /\ Unbroken(rec')
      BY <1>1, <2>1, <2>2, <2>3, <2>5
    <2>7. latest_block' # 0 => latest_block' = LastServed'
      BY <1>1, <2>1 DEF AdjacentInv
    <2> QED
      BY <1>1, <2>1, <2>4, <2>5, <2>6, <2>7, AdjacentFrom
  <1> QED
    BY <1>2, <1>3, <1>4, <1>5, <1>6

\* The steps that read the block at i.
LEMMA AdjacentServed ==
  ASSUME IInv, LossInv, AdjacentInv, NEW i \in 1 .. FileSize, Serve(i),
         Enter(i) \/ GiveUp(i) \/ Continue(i) \/ Complete(i)
  PROVE  AdjacentInv'
  <1>1. /\ UNCHANGED log /\ LastServed' = i /\ i >= 1
        /\ pc \in {"idle", "body"}
    BY Served DEF Enter, GiveUp, Continue, Complete, Finished
  <1>2. CASE Enter(i)
    <2>1. Produced' = Produced
      BY <1>2 DEF Enter, Produced
    <2> QED
      BY <1>1, <1>2, <2>1, AdjacentFrom DEF Enter
  <1>3. CASE GiveUp(i)
    <2>1. Produced' = Produced
      BY <1>3 DEF GiveUp, Produced
    <2> QED
      BY <1>1, <1>3, <2>1, AdjacentFrom DEF GiveUp
  <1>4. CASE Continue(i)
    <2> DEFINE w == WithSlice(rec, i, Take)
    <2>1. /\ pc = "body" /\ pc' = "body" /\ rec' = w
          /\ UNCHANGED <<cur, latest_block>>
      BY <1>4 DEF Continue
    <2>2. Produced' = Produced
      BY <1>4 DEF Continue, Produced
    <2>3. LastSlice(w) = Slice(i, BLOCK_HEAD, Take)
      BY <2>1, TakeSlice
    <2>4. Tidy => Unbroken(w)
      BY <2>1, UnbrokenGrows
    <2> HIDE DEF w
    <2>5. LastSlice(w).blk = i
      BY <2>3 DEF Slice
    <2>6. latest_block = 0 /\ cur \in 1 .. FileSize
      BY <2>1 DEF IInv, Ahead, AdjacentInv
    <2> QED
      BY <1>1, <2>1, <2>2, <2>4, <2>5, <2>6, AdjacentFrom
  <1>5. CASE Complete(i)
    <2>1. pc = "body" /\ pc' = "idle" /\ latest_block' \in {0, i}
      BY <1>5 DEF Complete
    <2>2. Tidy => Unbroken(WithSlice(rec, i, Take))
      BY <2>1, UnbrokenGrows
    <2>3. \E r : /\ Produced' = Append(Produced, r) /\ r.blk \in 1 .. FileSize
                 /\ Tidy => Unbroken(r)
      BY <1>5, <2>1, <2>2, CompleteProduces DEF AdjacentInv
    <2> QED
      BY <1>1, <2>1, <2>3, AdjacentFrom
  <1> QED
    BY <1>2, <1>3, <1>4, <1>5

\* The steps that end the listing.
LEMMA AdjacentEnd ==
  ASSUME IInv, AdjacentInv, EndOfFile \/ Throw
  PROVE  AdjacentInv'
  <1>1. /\ pc' \in {"eof", "thrown"}
        /\ UNCHANGED <<out_buffer, delivered, latest_block>>
    BY DEF EndOfFile, Throw, SourceThrows, BadWholeRecord, NotEnoughBlocks,
           InterimRival, BadCompletion
  <1>2. Produced' = Produced
    BY <1>1 DEF Produced
  <1>3. UNCHANGED log /\ (latest_block # 0 => LastServed' = LastServed)
    <2>1. CASE UNCHANGED <<log, served>>
      BY <2>1 DEF LastServed
    <2>2. ASSUME NEW i, Serve(i), pc = "body"
          PROVE  UNCHANGED log /\ latest_block = 0
      BY <2>2, Served DEF Finished, IInv, Ahead
    <2>3. UNCHANGED <<log, served>> \/ \E i : Serve(i) /\ pc = "body"
      BY DEF EndOfFile, Throw, SourceThrows, BadWholeRecord, NotEnoughBlocks,
             InterimRival, BadCompletion, ServeNone, ServeThrow, sourceVars
    <2> QED
      BY <2>1, <2>2, <2>3
  <1> QED
    BY <1>1, <1>2, <1>3, AdjacentFrom DEF AdjacentInv

LEMMA AdjacentStep == IInv /\ LossInv /\ AdjacentInv /\ Step => AdjacentInv'
  <1> SUFFICES ASSUME IInv, LossInv, AdjacentInv, Step PROVE AdjacentInv'
    OBVIOUS
  <1>1. \/ Deliver \/ EnterLatest \/ LeaveBounds \/ WholeRecord \/ SplitRecord
        \/ EndOfFile \/ Throw
        \/ \E i \in 1 .. FileSize :
             Serve(i) /\ (Enter(i) \/ GiveUp(i) \/ Continue(i) \/ Complete(i))
    BY DEF Step, Fill, EnterNext, GiveUp, Continue, Complete
  <1> QED
    BY <1>1, AdjacentStill, AdjacentServed, AdjacentEnd

LEMMA AdjacentStutter == IInv /\ AdjacentInv /\ UNCHANGED vars => AdjacentInv'
  <1> SUFFICES ASSUME IInv, AdjacentInv, UNCHANGED vars PROVE AdjacentInv'
    OBVIOUS
  <1>1. UNCHANGED <<log, served, pc, out_buffer, delivered, latest_block, cur, rec>>
    BY DEF vars, recordVars, fillVars, sourceVars
  <1>2. Produced' = Produced /\ LastServed' = LastServed
    BY <1>1 DEF Produced, LastServed
  <1> QED
    BY <1>1, <1>2, AdjacentFrom DEF AdjacentInv

LEMMA AdjacentInvariance == Spec => []AdjacentInv
  <1>1. IInv /\ LossInv /\ AdjacentInv /\ [Next]_vars => AdjacentInv'
    BY AdjacentStep, AdjacentStutter DEF Next, Terminated
  <1> QED
    BY Invariance, LossInvarianceOfRecords, InitAdjacent, <1>1, PTL DEF Spec

\* RecordSource.cpp:131-172: in a log whose blocks are numbered without a gap and
\* whose own blocks all stand before the foreign ones, no block is left out
\* inside a record: its slices lie in blocks numbered one after the other.
THEOREM UnbrokenHolds == Spec => [](Tidy => AllUnbroken)
  <1>1. AdjacentInv => (Tidy => AllUnbroken)
    BY DEF AdjacentInv
  <1> QED
    BY AdjacentInvariance, <1>1, PTL

-----------------------------------------------------------------------------
(* Whole logs: what is written is what is read                              *)

\* The record r, or what was read of it, is the one written at p.
PlacedAt(r, p) ==
  /\ r.blk = p.blk /\ r.offset = p.offset /\ r.bound = p.bound
  /\ LastSlice(r).size > 0

\* The records produced are those that begin before the block at i.
ReadTo(i) ==
  \A k \in 1 .. Len(log.written) : k <= Len(Produced) <=> log.written[k].blk < i

\* The records produced are the first of those written, and the one in hand is
\* the next of them. Between two calls of fill_Records it is known from the block
\* to look at how far they go; the source ends behind the last, and never throws.
ReadInv ==
  LET w == log.written
      k == Len(Produced)
  IN Whole(log) =>
       /\ pc # "thrown"
       /\ k <= Len(w)
       /\ \A j \in 1 .. k : PlacedAt(Produced[j], w[j])
       /\ pc = "idle" =>
            ReadTo(IF latest_block # 0 THEN latest_block ELSE LastServed + 1)
       /\ pc = "bounds" =>
            \E f \in 1 .. Len(w) + 1 : StartsAt(log, cur, f) /\ k + 2 = f + idx
       /\ pc = "body" => k < Len(w) /\ PlacedAt(rec, w[k + 1])
       /\ pc = "eof" => k = Len(w)

\* A block without bounds has none that is fair.
LEMMA NoneFair ==
  ASSUME NEW b, NEW lwn, b.bounds = << >>
  PROVE  fairBounds(b, lwn) = << >>
  <1> DEFINE Turn(g, n) ==
               IF n = 0 THEN << >>
               ELSE IF fairBound(b.bounds[n], lwn) THEN Append(g[n - 1], b.bounds[n])
               ELSE g[n - 1]
             Fair(g) == g = [n \in 0 .. Len(b.bounds) |-> Turn(g, n)]
             fair == CHOOSE g : Fair(g)
  <1>1. Len(b.bounds) = 0
    OBVIOUS
  <1>2. Fair([n \in 0 .. 0 |-> << >>])
    BY <1>1
  <1>3. Fair(fair)
    BY <1>2, Zenon
  <1>4. fair[0] = << >>
    BY <1>1, <1>3
  <1>5. fairBounds(b, lwn) = fair[Len(b.bounds)]
    BY DEF fairBounds
  <1> QED
    BY <1>1, <1>4, <1>5

\* What a whole log says of its blocks.
LEMMA WholeBlocks ==
  ASSUME log \in Logs, Whole(log)
  PROVE  /\ Tidy /\ ~ log.tail
         /\ log.nab - 2 \in 1 .. FileSize /\ FileSize \in Nat
         /\ \A i \in 1 .. FileSize : /\ Block(i).no = i + 1
                                     /\ Block(i).lsn = Lsn <=> i <= log.nab - 2
         /\ \A i \in 1 .. log.nab - 2 :
              \E f \in 1 .. Len(log.written) + 1 : StartsAt(log, i, f)
  <1>1. FileSize \in Nat
    BY SizeNat
  <1>2. /\ ~ log.tail
        /\ log.nab - 2 \in 1 .. FileSize
        /\ \A i \in 1 .. FileSize : /\ Block(i).no = i + 1
                                    /\ Block(i).lsn = Lsn <=> i <= log.nab - 2
        /\ \A i \in 1 .. log.nab - 2 :
             \E f \in 1 .. Len(log.written) + 1 : StartsAt(log, i, f)
    BY DEF Whole, FileSize, Block
  <1>3. Tidy
    <2> SUFFICES ASSUME NEW i \in 1 .. FileSize, NEW j \in 1 .. i
                 PROVE  /\ Block(i).lsn = Lsn => Block(j).lsn = Lsn
                        /\ Block(i).no = Block(j).no + (i - j)
      BY DEF Tidy
    <2>1. j \in 1 .. FileSize /\ i \in Nat /\ j \in Nat /\ j <= i
      BY <1>1
    <2>2. Block(i).no = i + 1 /\ Block(j).no = j + 1
      BY <1>2, <2>1
    <2>3. Block(i).lsn = Lsn => i <= log.nab - 2
      BY <1>2
    <2>4. j <= log.nab - 2 => Block(j).lsn = Lsn
      BY <1>2, <2>1
    <2>5. log.nab - 2 \in Nat
      BY <1>2
    <2> DEFINE n == log.nab - 2
    <2> HIDE DEF n
    <2>6. i <= n => j <= n
      BY <2>1, <2>5 DEF n
    <2> QED
      BY <2>1, <2>2, <2>3, <2>4, <2>6 DEF n
  <1> QED
    BY <1>1, <1>2, <1>3

\* What it says of its records.
LEMMA WholeRecords ==
  ASSUME Whole(log)
  PROVE  LET w == log.written
             n == log.nab - 2
         IN /\ Len(w) \in Nat \ {0}
            /\ \A k \in 1 .. Len(w) : /\ w[k].blk \in 1 .. n /\ EndsIn(w[k]) <= n
                                      /\ HeadFits(w[k].bound)
                                      /\ fairBound(w[k].bound, WindowAt(w, k))
            /\ \A j, k \in 1 .. Len(w) : j < k => Behind(w[j], w[k])
            /\ \A k \in 1 .. Len(w) - 1 : w[k + 1].blk <= EndBlk(w[k]) + 1
            /\ EndsIn(w[Len(w)]) = n
            /\ w \in Seq(Places)
  <1> DEFINE w == log.written
  <1>1. w \in Seq(Places) /\ w # << >>
    BY DEF Whole
  <1>2. Len(w) \in Nat \ {0}
    BY <1>1, EmptySeq, Zenon
  <1> QED
    BY <1>1, <1>2 DEF Whole

LEMMA SameWhole ==
  ASSUME UNCHANGED log
  PROVE  /\ Whole(log)' <=> Whole(log)
         /\ \A i, f : StartsAt(log, i, f)' <=> StartsAt(log, i, f)
  BY DEF Whole, StartsAt

\* Records with the same bounds leave the same note behind.
LEMMA SameWindow ==
  ASSUME NEW s, NEW w, NEW k \in 1 .. Len(s) + 1, NotesFound(s),
         \A j \in 1 .. Len(s) : s[j].bound = w[j].bound, Len(s) \in Nat
  PROVE  WindowAt(w, k) = WindowAt(s, k)
  <1>1. \A j \in 1 .. k - 1 : s[j].bound = w[j].bound
    OBVIOUS
  <1>2. Depends(w, k) = Depends(s, k)
    BY <1>1 DEF Depends
  <1>3. CASE Depends(s, k) = {}
    BY <1>2, <1>3, WindowIs
  <1>4. CASE Depends(s, k) # {}
    <2>1. Latest(Depends(s, k)) \in 1 .. k - 1
      BY <1>4, LatestIs DEF NotesFound, IsLatest, Depends
    <2>2. NoteOf(w[Latest(Depends(w, k))]) = NoteOf(s[Latest(Depends(s, k))])
      BY <1>1, <1>2, <2>1 DEF NoteOf
    <2> QED
      BY <1>2, <1>4, <2>2, WindowIs
  <1> QED
    BY <1>2, <1>3, <1>4

\* The block in hand holds the record to read next.
LEMMA NextWritten ==
  ASSUME IInv, FairInv, ReadInv, Whole(log), pc = "bounds",
         idx <= Len(Block(cur).bounds)
  PROVE  LET p == log.written[Len(Produced) + 1]
         IN /\ Len(Produced) < Len(log.written)
            /\ p.blk = cur /\ p.offset = start /\ p.bound = Bound
            /\ Suits /\ HeadFits(Bound)
  <1> DEFINE w == log.written
             k == Len(Produced)
             s == Block(cur).bounds
             p == w[k + 1]
  <1>1. PICK f \in 1 .. Len(w) + 1 : StartsAt(log, cur, f) /\ k + 2 = f + idx
    BY DEF ReadInv
  <1>2. /\ Len(w) \in Nat /\ k \in Nat /\ idx \in Nat \ {0} /\ Len(s) \in Nat
        /\ Produced \in Seq(RecordType) /\ cur \in 1 .. FileSize
        /\ start = BoundStart(Block(cur), s, idx)
    <2>1. idx \in Nat \ {0} /\ cur \in 1 .. FileSize
          /\ start = BoundStart(Block(cur), s, idx)
      BY DEF IInv, TypeOK, InBounds
    <2>2. s \in Seq(Bounds)
      BY <2>1, Basics, LogsAssumption DEF FileSize, Block, IsBoundChain
    <2> QED
      BY <2>1, <2>2, WholeRecords, Basics
  <1>3. /\ f + Len(s) <= Len(w) + 1
        /\ \A j \in 1 .. Len(w) : /\ w[j].blk < cur <=> j < f
                                  /\ w[j].blk > cur <=> j >= f + Len(s)
        /\ \A j \in 1 .. Len(s) : /\ w[f + j - 1].offset = BoundStart(Block(cur), s, j)
                                  /\ w[f + j - 1].bound = s[j]
    BY <1>1 DEF StartsAt, Block
  <1>4. idx \in 1 .. Len(s) /\ f + idx - 1 = k + 1 /\ f \in Nat
    BY <1>1, <1>2
  <1>5. p.offset = start /\ p.bound = s[idx]
    BY <1>2, <1>3, <1>4
  <1>6. k + 1 \in 1 .. Len(w) /\ k < Len(w) /\ k + 1 >= f /\ k + 1 < f + Len(s)
    <2> HIDE DEF k, s, w
    <2> QED
      BY <1>1, <1>2, <1>3, <1>4
  <1>7. p.blk \in Nat
    BY <1>6, WholeRecords
  <1>8. p.blk = cur
    <2>1. ~ (p.blk < cur) /\ ~ (p.blk > cur)
      <3> HIDE DEF k, s, w
      <3>1. /\ w[k + 1].blk < cur <=> k + 1 < f
            /\ w[k + 1].blk > cur <=> k + 1 >= f + Len(s)
        BY <1>3, <1>6
      <3> QED
        BY <1>1, <1>2, <1>6, <3>1
    <2>2. cur \in Nat
      BY <1>2, Basics
    <2> QED
      BY <1>7, <2>1, <2>2
  <1>9. fairBound(p.bound, WindowAt(w, k + 1)) /\ HeadFits(p.bound)
    BY <1>6, WholeRecords
  <1>10. WindowAt(w, k + 1) = lwn_ctx
    <2>1. \A j \in 1 .. k : Produced[j].bound = w[j].bound
      BY DEF ReadInv, PlacedAt
    <2>2. k + 1 \in 1 .. Len(Produced) + 1 /\ NotesFound(Produced)
      BY <1>2 DEF FairInv
    <2> QED
      BY <1>2, <2>1, <2>2, SameWindow DEF FairInv
  <1> QED
    BY <1>5, <1>6, <1>8, <1>9, <1>10 DEF Bound, Suits

\* Where a record ends, seen from the block it has got to.
LEMMA BodyReaches ==
  ASSUME IInv, AdjacentInv, Whole(log), pc = "body"
  PROVE  \E q \in Nat : \E r \in 0 .. body_sz - 1 :
           /\ need = q * body_sz + r
           /\ EndBlk(rec) = LastServed + 1 + q
           /\ rec.bound.next_offset = BLOCK_HEAD + r
  <1> DEFINE k == Len(rec.raw)
             info == rec.bound.info
             o == rec.offset
             needs == info.len - (BlockSz - o)
             q == need \div body_sz
             r == need % body_sz
  <1>1. /\ Begun(rec) /\ rec.blk = cur /\ Sliced(rec) /\ LastFull(rec)
        /\ need \in Nat \ {0} /\ SlicedLen(rec) + need = rec.bound.len
        /\ cur \in 1 .. FileSize /\ LastSlice(rec).blk = LastServed /\ LastServed >= 1
        /\ LastServed \in 1 .. FileSize /\ cur \in Nat /\ LastServed \in Nat
    <2>1. need \in Nat
      BY DEF IInv, TypeOK
    <2> QED
      BY <2>1, Basics DEF IInv, InBody, AdjacentInv
  <1>2. rec.raw \in Seq(SliceType) /\ k \in Nat /\ k >= 1
    BY <1>1 DEF Begun, RecordType, Sliced
  <1>3. rec.blk + (k - 1) = LastServed
    <2>1. Block(LastServed).no = Block(rec.blk).no + (k - 1)
      BY <1>1, <1>2, WholeBlocks, Basics, k \in 1 .. k
      DEF AdjacentInv, Unbroken, LastSlice
    <2>2. Block(LastServed).no = LastServed + 1 /\ Block(rec.blk).no = rec.blk + 1
      BY <1>1, WholeBlocks, Basics
    <2>3. rec.blk \in Nat
      BY <1>1
    <2> DEFINE u == rec.blk
    <2> HIDE DEF k, u
    <2>4. LastServed + 1 = (u + 1) + (k - 1) /\ u \in Nat
      BY <2>1, <2>2, <2>3 DEF u
    <2>5. u + (k - 1) = LastServed
      BY <1>1, <1>2, <2>4
    <2> QED
      BY <2>5 DEF u
  <1>4. /\ o \in Nat /\ info.len \in Nat /\ BLOCK_HEAD <= o /\ o < BlockSz
        /\ rec.bound.len = info.len /\ needs \in Int
        /\ needs > 0 => /\ rec.bound.next_blocks = (needs \div body_sz) + 1
                        /\ rec.bound.next_offset = BLOCK_HEAD + (needs % body_sz)
    BY <1>1, BoundEnd, Sizes DEF Begun
  <1>5. SlicedLen(rec) = (BlockSz - o) + (k - 1) * body_sz
    <2>1. /\ rec.raw[k].from + rec.raw[k].size = BlockSz
          /\ rec.raw[k].from \in Nat /\ rec.raw[k].size \in Nat
          /\ rec.raw[1].from = o
      <3>1. rec.raw[k] \in SliceType
        BY <1>2, ElementOfSeq
      <3> QED
        BY <1>1, <3>1 DEF LastFull, LastSlice, SliceType, Sliced
    <2>2. CASE k = 1
      <3>1. SlicedLen(rec) = rec.raw[1].size /\ (k - 1) * body_sz = 0
        BY <2>2, Sizes DEF SlicedLen
      <3> QED
        BY <1>4, <2>1, <2>2, <3>1, Sizes
    <2>3. CASE k >= 2
      <3>1. SlicedLen(rec) = (BlockSz - o) + (k - 2) * body_sz + rec.raw[k].size
        BY <1>2, <2>3 DEF SlicedLen
      <3>2. rec.raw[k].size = body_sz
        <4>1. rec.raw[k].from = BLOCK_HEAD
          BY <1>1, <1>2, <2>3 DEF Sliced
        <4> QED
          BY <2>1, <4>1, Sizes
      <3> DEFINE m == k - 2
                 x == m * body_sz
                 y == (m + 1) * body_sz
      <3>3. m \in Int /\ m + 1 = k - 1
        BY <1>2
      <3>4. y = x + body_sz /\ x \in Int
        <4> HIDE DEF m
        <4> QED
          BY <3>3, Times, Sizes
      <3>5. SlicedLen(rec) = (BlockSz - o) + x + body_sz
        BY <3>1, <3>2
      <3>6. (k - 1) * body_sz = y
        BY <3>3
      <3> HIDE DEF x, y, m
      <3> QED
        BY <1>4, <3>4, <3>5, <3>6, Sizes
    <2>4. k = 1 \/ k >= 2
      <3> HIDE DEF k
      <3> QED
        BY <1>2
    <2> QED
      BY <2>2, <2>3, <2>4
  <1>6. /\ q \in Nat /\ r \in 0 .. body_sz - 1 /\ need = q * body_sz + r
    <2>1. need \in Nat /\ body_sz \in Nat \ {0}
      BY <1>1, Sizes
    <2> QED
      BY <2>1
  <1> DEFINE m == k - 1
  <1>7. m \in Nat /\ k = m + 1
    BY <1>2
  <1>8. needs = (m + q) * body_sz + r /\ needs > 0 /\ m + q \in Nat
    <2>1. needs = m * body_sz + need
      <3> DEFINE x == m * body_sz
      <3>1. x \in Nat
        <4> HIDE DEF m
        <4> QED
          BY <1>7, Sizes
      <3>2. SlicedLen(rec) = (BlockSz - o) + x
        BY <1>5
      <3> HIDE DEF x, m
      <3> QED
        BY <1>1, <1>4, <3>1, <3>2, Sizes DEF x
    <2> HIDE DEF m, q, r, needs
    <2>2. (m + q) * body_sz = m * body_sz + q * body_sz
      BY <1>6, <1>7, Sizes
    <2>3. m * body_sz \in Nat /\ q * body_sz \in Nat
      BY <1>6, <1>7, Sizes
    <2>4. m + q \in Nat
      BY <1>6, <1>7
    <2>5. r \in Nat /\ need \in Nat /\ need > 0
      BY <1>1, <1>6, Sizes
    <2> DEFINE x == m * body_sz
               y == q * body_sz
               z == (m + q) * body_sz
    <2>6. z = x + y /\ x \in Nat /\ y \in Nat /\ needs = x + need /\ need = y + r
      BY <1>6, <2>1, <2>2, <2>3
    <2> HIDE DEF x, y, z
    <2>7. needs = z + r /\ needs > 0
      BY <2>5, <2>6
    <2> QED
      BY <2>4, <2>7 DEF z
  <1>9. needs \div body_sz = m + q /\ needs % body_sz = r
    <2> HIDE DEF needs, q, r, m
    <2>1. body_sz \in Nat \ {0} /\ r \in Nat /\ r < body_sz
      BY <1>6, Sizes
    <2>2. /\ ((m + q) * body_sz + r) \div body_sz = m + q
          /\ ((m + q) * body_sz + r) % body_sz = r
      BY <1>8, <2>1, QuotRem, Zenon
    <2> QED
      BY <1>8, <2>2
  <1>10. EndBlk(rec) = LastServed + 1 + q
    <2>1. EndBlk(rec) = rec.blk + ((m + q) + 1)
      BY <1>4, <1>8, <1>9 DEF EndBlk
    <2>2. rec.blk + m = LastServed /\ rec.blk \in Nat
      BY <1>1, <1>3
    <2> HIDE DEF m, q
    <2> QED
      BY <1>6, <1>7, <2>1, <2>2
  <1>11. rec.bound.next_offset = BLOCK_HEAD + r
    BY <1>4, <1>8, <1>9
  <1> QED
    BY <1>6, <1>10, <1>11

\* The same, by whether the next block is its last.
LEMMA BodyEnds ==
  ASSUME IInv, AdjacentInv, Whole(log), pc = "body"
  PROVE  /\ EndBlk(rec) \in Nat /\ EndBlk(rec) >= LastServed + 1
         /\ EndBlk(rec) = LastServed + 1 => need < body_sz
         /\ need = body_sz => EndBlk(rec) = LastServed + 2
         /\ need < body_sz => rec.bound.next_offset > BLOCK_HEAD
         /\ EndsIn(rec) >= LastServed + 1
  <1>1. PICK q \in Nat, r \in 0 .. body_sz - 1 :
           /\ need = q * body_sz + r
           /\ EndBlk(rec) = LastServed + 1 + q
           /\ rec.bound.next_offset = BLOCK_HEAD + r
    BY BodyReaches
  <1>2. need \in Nat /\ need > 0 /\ LastServed \in Nat
    BY Basics DEF IInv, TypeOK, InBody
  <1>3. CASE q = 0
    <2>1. need = r /\ r \in Nat /\ r < body_sz
      BY <1>1, <1>3, Sizes
    <2> QED
      BY <1>1, <1>2, <1>3, <2>1, Sizes DEF EndsIn
  <1>4. CASE q >= 1
    <2> DEFINE m == q - 1
               x == m * body_sz
    <2>1. m \in Nat /\ q = m + 1
      BY <1>4
    <2>2. q * body_sz = x + body_sz /\ x \in Nat
      <3> HIDE DEF m
      <3> QED
        BY <2>1, Times, Sizes
    <2>3. m >= 1 => x >= body_sz
      <3> HIDE DEF m
      <3>1. ASSUME m >= 1
            PROVE  x >= body_sz
        <4> DEFINE u == m - 1
                   v == u * body_sz
        <4>1. u \in Nat /\ m = u + 1
          BY <2>1, <3>1
        <4>2. x = v + body_sz /\ v \in Nat
          <5> HIDE DEF u
          <5> QED
            BY <4>1, Times, Sizes
        <4> HIDE DEF x, v
        <4> QED
          BY <4>2, Sizes
      <3> QED
        BY <3>1
    <2>4. r \in Nat /\ need = x + body_sz + r
      BY <1>1, <2>2, Sizes
    <2> HIDE DEF m, x
    <2>5. need = body_sz => m = 0
      BY <2>1, <2>2, <2>3, <2>4, Sizes
    <2>6. ~ (need < body_sz)
      BY <2>2, <2>4, Sizes
    <2> QED
      BY <1>1, <1>2, <2>1, <2>5, <2>6, Sizes DEF EndsIn
  <1> QED
    BY <1>3, <1>4

\* The parts of the invariant after a step that leaves the log alone.
LEMMA ReadFrom ==
  ASSUME UNCHANGED log, NEW w, w = log.written, NEW m, m = Len(Produced'),
         Whole(log) =>
           /\ pc' # "thrown"
           /\ m <= Len(w)
           /\ \A j \in 1 .. m : PlacedAt(Produced'[j], w[j])
           /\ pc' = "idle" =>
                \A j \in 1 .. Len(w) :
                  j <= m <=> w[j].blk < IF latest_block' # 0 THEN latest_block'
                                        ELSE LastServed' + 1
           /\ pc' = "bounds" =>
                \E f \in 1 .. Len(w) + 1 : StartsAt(log, cur', f) /\ m + 2 = f + idx'
           /\ pc' = "body" => m < Len(w) /\ PlacedAt(rec', w[m + 1])
           /\ pc' = "eof" => m = Len(w)
  PROVE  ReadInv'
  <1>1. Whole(log)' <=> Whole(log)
    BY SameWhole
  <1>2. \A i, f : StartsAt(log', i, f) <=> StartsAt(log, i, f)
    OBVIOUS
  <1>3. log'.written = w
    OBVIOUS
  <1> QED
    BY <1>1, <1>2, <1>3 DEF ReadInv, ReadTo, StartsAt

\* A block served is one of the log.
LEMMA ServedOwn ==
  ASSUME IInv, LossInv, Whole(log), ~ Finished, NEW i, Serve(i)
  PROVE  /\ i = LastServed + 1 /\ LastServed' = i /\ LastServed \in Nat
         /\ i \in 1 .. log.nab - 2 /\ i \in 1 .. FileSize /\ UNCHANGED log
  <1>1. /\ SourceInv' /\ i \in 1 .. FileSize /\ LastServed' = i
        /\ UNCHANGED log /\ \A j : Block(j)' = Block(j) /\ LastServed \in Nat
    BY Served, Basics
  <1>2. i = LastServed + 1
    BY WholeBlocks, NextServed, Basics
  <1>3. Block(i).lsn = Lsn
    <2>1. /\ served \in Seq(1 .. FileSize) /\ Len(served) \in Nat
          /\ served' = Append(served, i)
      BY SourceNats DEF IInv, Serve, ServeQueued, ServeDrained
    <2>2. served'[Len(served) + 1] = i /\ Len(served) + 1 \in 1 .. Len(served')
      BY <2>1
    <2> QED
      BY <1>1, <2>2 DEF SourceInv, ServedInOrder
  <1>4. i <= log.nab - 2 /\ log.nab - 2 \in Nat
    BY <1>1, <1>3, WholeBlocks, Basics
  <1>5. i \in 1 .. log.nab - 2
    <2> DEFINE n == log.nab - 2
    <2>1. n \in Nat /\ i <= n
      BY <1>4
    <2> HIDE DEF n
    <2>2. i \in 1 .. n
      BY <1>1, <2>1, Basics
    <2> QED
      BY <2>2 DEF n
  <1> QED
    BY <1>1, <1>2, <1>5

\* At the end all blocks of the log are served.
AllServed == Whole(log) /\ source = "ended" => log.nab - 2 <= LastServed

LEMMA EndedAll == SourceInv /\ LossInv => AllServed
  <1> SUFFICES ASSUME SourceInv, LossInv, Whole(log), source = "ended"
               PROVE  log.nab - 2 <= LastServed
    BY DEF AllServed
  <1> DEFINE n == log.nab - 2
  <1>1. log \in Logs
    BY DEF SourceInv
  <1>2. /\ n \in 1 .. FileSize /\ FileSize \in Nat
        /\ \A i \in 1 .. FileSize : Block(i).lsn = Lsn <=> i <= n
    BY <1>1, WholeBlocks
  <1> HIDE DEF n
  <1>3. Clear(n)
    BY <1>2 DEF Clear
  <1>4. queue = << >>
    BY DEF SourceInv, DrainedAtEnd
  <1>5. PICK k \in 1 .. Len(served) : served[k] = n
    BY <1>2, <1>3, <1>4 DEF LossInv, Held
  <1>6. served \in Seq(1 .. FileSize) /\ Len(served) \in Nat /\ Len(served) >= 1
    BY <1>5, SourceNats
  <1>7. served # << >> /\ Len(served) \in 1 .. Len(served)
    BY <1>6
  <1>8. k < Len(served) => served[k] < served[Len(served)]
    BY <1>7 DEF SourceInv, ServedInOrder
  <1>9. n <= LastServed
    BY <1>2, <1>5, <1>6, <1>7, <1>8 DEF LastServed
  <1> QED
    BY <1>9 DEF n

LEMMA EndedAllNext ==
  SourceInv' /\ LossInv' => AllServed'
  BY EndedAll, PTL

\* getNext answers nullopt only when all blocks of the log have been served.
LEMMA NoneLeft ==
  ASSUME IInv, LossInv, Whole(log), ~ Finished, ServeNone
  PROVE  /\ log.nab - 2 <= LastServed /\ LastServed' = LastServed
         /\ UNCHANGED log
  <1>1. source = "open" /\ SourceInv
    BY DEF IInv, StillOpen
  <1>2. UNCHANGED <<log, served>> /\ source' = "ended"
    BY DEF ServeNone
  <1>3. SourceInv' /\ LossInv'
    BY <1>1, EndStep, NoneLoss
  <1>4. Whole(log)'
    BY <1>2, SameWhole
  <1>5. LastServed' = LastServed
    BY <1>2 DEF LastServed
  <1>6. log'.nab - 2 <= LastServed'
    BY <1>2, <1>3, <1>4, EndedAllNext DEF AllServed
  <1> QED
    BY <1>2, <1>5, <1>6

\* The blocks served are those of the log.
LEMMA LastOwn ==
  ASSUME IInv, Whole(log), LastServed # 0
  PROVE  LastServed \in 1 .. log.nab - 2
  <1>1. LastServed \in 1 .. FileSize /\ LastServed \in Nat
    BY Basics
  <1>2. served # << >> /\ LastServed = served[Len(served)]
    BY DEF LastServed
  <1>3. served \in Seq(1 .. FileSize)
    BY DEF IInv, SourceInv, SourceTypeOK
  <1>4. Len(served) \in 1 .. Len(served)
    <2>1. Len(served) \in Nat \ {0}
      BY <1>2, <1>3, EmptySeq, Zenon
    <2> QED
      BY <2>1
  <1>5. Block(LastServed).lsn = Lsn
    BY <1>2, <1>4 DEF IInv, SourceInv, ServedInOrder
  <1>6. LastServed <= log.nab - 2
    BY <1>1, <1>5, WholeBlocks, Basics
  <1> DEFINE n == log.nab - 2
  <1>7. n \in Nat
    BY WholeBlocks, Basics
  <1> HIDE DEF n
  <1>8. LastServed \in 1 .. n
    BY <1>1, <1>6, <1>7 DEF n
  <1> QED
    BY <1>8 DEF n

\* All that begins before a block is read when the block is: its records are next.
LEMMA FirstStart ==
  ASSUME IInv, Whole(log), NEW i \in 1 .. log.nab - 2, ReadTo(i),
         Len(Produced) <= Len(log.written)
  PROVE  /\ StartsAt(log, i, Len(Produced) + 1)
         /\ Len(Produced) + 1 \in 1 .. Len(log.written) + 1
  <1> DEFINE w == log.written
             k == Len(Produced)
  <1>1. PICK f \in 1 .. Len(w) + 1 : StartsAt(log, i, f)
    BY WholeBlocks, Basics
  <1>2. Len(w) \in Nat /\ k \in Nat
    BY WholeRecords, Basics
  <1>3. \A j \in 1 .. Len(w) : j < f <=> j <= k
    BY <1>1 DEF StartsAt, ReadTo
  <1>4. f = k + 1
    <2>0. k <= Len(w)
      OBVIOUS
    <2> HIDE DEF k, w
    <2>1. f > k
      <3>1. CASE f \in 1 .. Len(w)
        BY <1>2, <1>3, <3>1
      <3>2. CASE f = Len(w) + 1
        BY <1>2, <2>0, <3>2
      <3> QED
        BY <1>1, <1>2, <3>1, <3>2
    <2>2. ~ (f > k + 1)
      <3> SUFFICES ASSUME f > k + 1 PROVE FALSE
        OBVIOUS
      <3>1. k + 1 \in 1 .. Len(w)
        BY <1>1, <1>2
      <3> QED
        BY <1>2, <1>3, <3>1
    <2> QED
      BY <1>1, <1>2, <2>1, <2>2
  <1> QED
    BY <1>1, <1>2, <1>4

\* While a record is assembled its successors begin behind the blocks read, and
\* a block in which it ends has them behind its end.
LEMMA BodyAhead ==
  ASSUME IInv, LossInv, AdjacentInv, ReadInv, Whole(log), pc = "body",
         NEW i, Serve(i)
  PROVE  LET w == log.written
             k == Len(Produced)
             e == rec.bound.next_offset
         IN /\ i = LastServed + 1 /\ LastServed' = i /\ i \in Nat /\ UNCHANGED log
            /\ k \in Nat /\ Len(w) \in Nat /\ k < Len(w)
            /\ \A j \in 1 .. Len(w) : w[j].blk \in Nat
            /\ \A j \in 1 .. k + 1 : w[j].blk < i
            /\ \A j \in 1 .. Len(w) : j > k + 1 => w[j].blk >= i
            /\ need = body_sz \/ Block(i).offset < e =>
                 \A j \in 1 .. Len(w) : j > k + 1 => w[j].blk >= i + 1
            /\ Block(i).bounds # << >> =>
                 need < body_sz /\ Block(i).offset > BLOCK_HEAD
  <1> DEFINE w == log.written
             k == Len(Produced)
             e == rec.bound.next_offset
             p == w[k + 1]
             s == Block(i).bounds
  <1>1. /\ i = LastServed + 1 /\ LastServed' = i /\ LastServed \in Nat /\ i \in Nat
        /\ i \in 1 .. log.nab - 2 /\ i \in 1 .. FileSize /\ UNCHANGED log
    BY ServedOwn DEF Finished
  <1>2. /\ k \in Nat /\ Len(w) \in Nat /\ k < Len(w) /\ k + 1 \in 1 .. Len(w)
        /\ PlacedAt(rec, p)
        /\ \A j \in 1 .. k : PlacedAt(Produced[j], w[j])
    <2>1. k \in Nat /\ Len(w) \in Nat
      BY WholeRecords, Basics
    <2>2. /\ k < Len(w) /\ PlacedAt(rec, p)
          /\ \A j \in 1 .. k : PlacedAt(Produced[j], w[j])
      BY DEF ReadInv
    <2> HIDE DEF k, w
    <2>3. k + 1 \in 1 .. Len(w)
      BY <2>1, <2>2
    <2> QED
      BY <2>1, <2>2, <2>3
  <1>3. /\ \A j \in 1 .. Len(w) : w[j].blk \in Nat
        /\ \A j, h \in 1 .. Len(w) : j < h => Behind(w[j], w[h])
    <2>1. \A j \in 1 .. Len(w) : w[j].blk \in 1 .. log.nab - 2
      BY WholeRecords
    <2>2. \A x \in 1 .. log.nab - 2 : x \in Nat
      OBVIOUS
    <2> QED
      BY <2>1, <2>2, WholeRecords
  <1>4. /\ p.blk = rec.blk /\ EndBlk(p) = EndBlk(rec) /\ p.bound.next_offset = e
        /\ rec.blk = cur /\ cur \in Nat /\ cur <= LastServed /\ p.blk < i
    <2>1. rec.blk = cur /\ cur \in 1 .. FileSize /\ cur <= LastServed
      BY DEF IInv, InBody, Ahead, AdjacentInv
    <2>2. p.blk = rec.blk /\ EndBlk(p) = EndBlk(rec) /\ p.bound.next_offset = e
      BY <1>2 DEF PlacedAt, EndBlk
    <2> QED
      BY <1>1, <2>1, <2>2, Basics
  <1>5. /\ EndBlk(rec) \in Nat /\ EndBlk(rec) >= i
        /\ EndBlk(rec) = i => need < body_sz
        /\ need = body_sz => EndBlk(rec) = i + 1
        /\ need < body_sz => e > BLOCK_HEAD
    BY <1>1, BodyEnds
  <1>6. /\ e \in Nat /\ Block(i).offset \in Nat
        /\ need \in Nat
    <2>1. rec \in RecordType
      BY DEF IInv, InBody, Begun
    <2>2. Block(i).offset \in Nat
      BY <1>1, Basics, LogsAssumption DEF FileSize, Block
    <2> QED
      BY <2>1, <2>2 DEF RecordType, Bounds, IInv, TypeOK
  <1>7. \A j \in 1 .. k + 1 : w[j].blk < i
    <2> SUFFICES ASSUME NEW j \in 1 .. k PROVE w[j].blk < i
      BY <1>2, <1>4
    <2>1. /\ Behind(w[j], p) /\ w[j].blk \in Nat /\ j \in 1 .. Len(w)
      <3>1. j \in 1 .. Len(w) /\ j < k + 1
        BY <1>2
      <3> QED
        BY <1>2, <1>3, <3>1
    <2>2. Produced[j] \in RecordType
      BY <1>2, Basics, ElementOfSeq
    <2>3. w[j].bound.next_blocks \in Nat
      BY <1>2, <2>2 DEF PlacedAt, RecordType, Bounds
    <2>4. w[j].blk <= p.blk
      BY <1>2, <1>3, <2>1, <2>3 DEF Behind, EndBlk
    <2> QED
      BY <1>1, <1>3, <1>4, <2>1, <2>4
  <1>8. \A j \in 1 .. Len(w) : j > k + 1 =>
          /\ w[j].blk >= i
          /\ need = body_sz => w[j].blk >= i + 1
          /\ w[j].blk = i => need < body_sz /\ w[j].offset >= e
    <2> SUFFICES ASSUME NEW j \in 1 .. Len(w), j > k + 1
                 PROVE  /\ w[j].blk >= i
                        /\ need = body_sz => w[j].blk >= i + 1
                        /\ w[j].blk = i => need < body_sz /\ w[j].offset >= e
      OBVIOUS
    <2>1. w[j].blk \in Nat /\ Behind(p, w[j])
      BY <1>2, <1>3
    <2>2. \/ w[j].blk > EndBlk(rec)
          \/ w[j].blk = EndBlk(rec) /\ w[j].offset >= e
      BY <1>4, <2>1 DEF Behind
    <2> QED
      BY <1>1, <1>5, <1>6, <2>1, <2>2, Sizes
  <1>9. PICK f \in 1 .. Len(w) + 1 : StartsAt(log, i, f)
    BY <1>1, WholeBlocks, Basics
  <1>10. /\ s \in Seq(Bounds) /\ Len(s) \in Nat
         /\ f + Len(s) <= Len(w) + 1
         /\ \A j \in 1 .. Len(w) : /\ w[j].blk < i <=> j < f
                                   /\ w[j].blk > i <=> j >= f + Len(s)
         /\ Len(s) # 0 => w[f].offset = Block(i).offset
    <2>1. s \in Seq(Bounds) /\ Len(s) \in Nat
      <3>1. IsBoundChain(Block(i), s)
        BY <1>1, Basics, LogsAssumption DEF FileSize, Block
      <3> QED
        BY <3>1 DEF IsBoundChain
    <2>2. /\ f + Len(s) <= Len(w) + 1
          /\ \A j \in 1 .. Len(w) : /\ w[j].blk < i <=> j < f
                                    /\ w[j].blk > i <=> j >= f + Len(s)
          /\ \A j \in 1 .. Len(s) : w[f + j - 1].offset = BoundStart(Block(i), s, j)
      BY <1>9 DEF StartsAt, Block
    <2>3. ASSUME Len(s) # 0
          PROVE  w[f].offset = Block(i).offset
      <3>1. 1 \in 1 .. Len(s) /\ f + 1 - 1 = f
        BY <1>9, <2>1, <2>3, <1>2
      <3> QED
        BY <2>2, <3>1 DEF BoundStart
    <2> QED
      BY <2>1, <2>2, <2>3
  <1>11. f > k + 1
    BY <1>2, <1>4, <1>9, <1>10
  <1>12. ASSUME Len(s) # 0
         PROVE  f \in 1 .. Len(w) /\ w[f].blk = i /\ Block(i).offset >= e
                /\ need < body_sz
    <2>1. f \in 1 .. Len(w)
      <3> HIDE DEF s, w
      <3> QED
        BY <1>2, <1>9, <1>10, <1>12
    <2>2. ~ (w[f].blk < i) /\ ~ (w[f].blk > i)
      <3>1. /\ w[f].blk < i <=> f < f
            /\ w[f].blk > i <=> f >= f + Len(s)
        BY <1>10, <2>1
      <3> HIDE DEF s
      <3> QED
        BY <1>2, <1>10, <1>12, <2>1, <3>1
    <2>3. w[f].blk = i
      BY <1>1, <1>3, <2>1, <2>2
    <2> QED
      BY <1>8, <1>10, <1>11, <1>12, <2>1, <2>3
  <1>13. ASSUME Block(i).offset < e, NEW j \in 1 .. Len(w), j > k + 1
         PROVE  w[j].blk >= i + 1
    <2>1. Len(s) = 0
      BY <1>6, <1>12, <1>13
    <2>2. w[j].blk < i \/ w[j].blk > i
      <3>1. /\ w[j].blk < i <=> j < f
            /\ w[j].blk > i <=> j >= f + Len(s)
        BY <1>10
      <3> HIDE DEF s
      <3> QED
        BY <1>2, <1>9, <2>1, <3>1
    <2> QED
      BY <1>1, <1>3, <1>8, <1>13, <2>2
  <1>14. s # << >> => Len(s) # 0
    BY <1>10, EmptySeq, Zenon
  <1>15. s # << >> => need < body_sz /\ Block(i).offset > BLOCK_HEAD
    BY <1>5, <1>6, <1>12, <1>14, Sizes
  <1> QED
    BY <1>1, <1>2, <1>3, <1>7, <1>8, <1>13, <1>15

\* No block read on the way holds a rival of the record.
LEMMA BodyKept ==
  ASSUME IInv, LossInv, AdjacentInv, ReadInv, Whole(log), pc = "body",
         NEW i, Serve(i)
  PROVE  ~ Replaced(i) /\ (~ Last => Len(Fbs(i)) = 0) /\ HeadFits(rec.bound)
  <1>1. /\ Block(i).bounds # << >> => need < body_sz /\ Block(i).offset > BLOCK_HEAD
        /\ i = LastServed + 1 /\ Len(Produced) \in Nat
        /\ Len(log.written) \in Nat /\ Len(Produced) < Len(log.written)
    BY BodyAhead
  <1>2. Block(i).bounds = << >> => Len(Fbs(i)) = 0
    BY NoneFair DEF Fbs
  <1>3. ~ Replaced(i)
    <2>1. CASE Block(i).bounds = << >>
      BY <1>2, <2>1 DEF Replaced, choose_new
    <2>2. CASE Block(i).bounds # << >>
      <3>1. Block(i).offset \in Nat
        BY ServedOwn, Basics, LogsAssumption DEF Finished, FileSize, Block
      <3> QED
        BY <1>1, <2>2, <3>1, Sizes DEF Replaced, choose_new
    <2> QED
      BY <2>1, <2>2
  <1>4. ~ Last => Len(Fbs(i)) = 0
    <2>1. need \in Nat
      BY DEF IInv, TypeOK
    <2> QED
      BY <1>1, <1>2, <2>1, Sizes DEF Last
  <1>5. HeadFits(rec.bound)
    <2>1. rec.bound = log.written[Len(Produced) + 1].bound
      BY DEF ReadInv, PlacedAt
    <2>2. Len(Produced) + 1 \in 1 .. Len(log.written)
      BY <1>1
    <2> QED
      BY <2>1, <2>2, WholeRecords
  <1> QED
    BY <1>3, <1>4, <1>5

-----------------------------------------------------------------------------
(* The steps on a whole log                                                 *)

LEMMA InitRead == Init => ReadInv
  <1> SUFFICES ASSUME Init, Whole(log) PROVE ReadInv
    BY DEF ReadInv
  <1>1. /\ pc = "idle" /\ out_buffer = << >> /\ delivered = << >>
        /\ latest_block = 0 /\ served = << >>
    BY DEF Init, SourceInit
  <1>2. Len(Produced) = 0 /\ LastServed = 0
    BY <1>1 DEF Produced, LastServed
  <1>3. /\ Len(log.written) \in Nat
        /\ \A j \in 1 .. Len(log.written) : log.written[j].blk \in 1 .. log.nab - 2
    BY WholeRecords
  <1>4. \A j \in 1 .. Len(log.written) :
          j <= 0 <=> log.written[j].blk < LastServed + 1
    <2> SUFFICES ASSUME NEW j \in 1 .. Len(log.written)
                 PROVE  ~ (j <= 0) /\ ~ (log.written[j].blk < 1)
      BY <1>2
    <2>1. \A x \in 1 .. log.nab - 2 : ~ (x < 1)
      OBVIOUS
    <2> QED
      BY <1>3, <2>1
  <1> QED
    BY <1>1, <1>2, <1>3, <1>4 DEF ReadInv, ReadTo

\* Handing a record out.
LEMMA ReadDeliver == IInv /\ ReadInv /\ Deliver => ReadInv'
  <1> SUFFICES ASSUME IInv, ReadInv, Deliver PROVE ReadInv'
    OBVIOUS
  <1>1. /\ pc = "idle" /\ UNCHANGED <<log, served, pc, latest_block>>
        /\ Produced' = Produced /\ LastServed' = LastServed
    BY DeliverProduces DEF Deliver, sourceVars, LastServed
  <1> DEFINE w == log.written
             k == Len(Produced)
  <1>2. Whole(log) => /\ k <= Len(w)
                      /\ \A j \in 1 .. k : PlacedAt(Produced[j], w[j])
                      /\ ReadTo(IF latest_block # 0 THEN latest_block
                                ELSE LastServed + 1)
    BY <1>1 DEF ReadInv
  <1>3. \A x : ReadTo(x) <=> \A j \in 1 .. Len(w) : j <= k <=> w[j].blk < x
    BY DEF ReadTo
  <1> HIDE DEF w, k
  <1>4. Whole(log) => \A j \in 1 .. Len(w) :
                        j <= k <=> w[j].blk < IF latest_block' # 0 THEN latest_block'
                                              ELSE LastServed' + 1
    BY <1>1, <1>2, <1>3
  <1> QED
    BY <1>1, <1>2, <1>4, ReadFrom DEF w, k

\* Both ways into the loop over the bounds.
LEMMA ReadEnter ==
  ASSUME IInv, ReadInv, UNCHANGED log, NEW i, Enter(i),
         Whole(log) => i \in 1 .. log.nab - 2 /\ ReadTo(i)
  PROVE  ReadInv'
  <1>1. /\ pc = "idle" /\ pc' = "bounds" /\ cur' = i /\ idx' = 1
        /\ UNCHANGED <<out_buffer, delivered>>
    BY DEF Enter
  <1>2. Produced' = Produced
    BY <1>1 DEF Produced
  <1> DEFINE w == log.written
             k == Len(Produced)
  <1>3. Whole(log) => /\ k <= Len(w)
                      /\ \A j \in 1 .. k : PlacedAt(Produced[j], w[j])
    BY DEF ReadInv
  <1>4. Whole(log) => StartsAt(log, i, k + 1) /\ k + 1 \in 1 .. Len(w) + 1
    BY <1>3, FirstStart
  <1>5. k + 2 = (k + 1) + 1
    BY Basics
  <1> HIDE DEF w, k
  <1> QED
    BY <1>1, <1>2, <1>3, <1>4, <1>5, ReadFrom DEF w, k

LEMMA ReadEnterLatest == IInv /\ AdjacentInv /\ ReadInv /\ EnterLatest => ReadInv'
  <1> SUFFICES ASSUME IInv, AdjacentInv, ReadInv, EnterLatest PROVE ReadInv'
    OBVIOUS
  <1>1. UNCHANGED log /\ Enter(latest_block) /\ pc = "idle" /\ latest_block # 0
    BY DEF EnterLatest, Enter, sourceVars
  <1>2. latest_block = LastServed
    BY <1>1 DEF AdjacentInv
  <1>3. Whole(log) => latest_block \in 1 .. log.nab - 2 /\ ReadTo(latest_block)
    BY <1>1, <1>2, LastOwn DEF ReadInv
  <1> QED
    BY <1>1, <1>3, ReadEnter

LEMMA ReadEnterNext == IInv /\ LossInv /\ ReadInv /\ EnterNext => ReadInv'
  <1> SUFFICES ASSUME IInv, LossInv, ReadInv, NEW i \in 1 .. FileSize,
                      latest_block = 0, Serve(i), Enter(i)
               PROVE  ReadInv'
    BY DEF EnterNext
  <1>1. pc = "idle" /\ ~ Finished
    BY DEF Enter, Finished
  <1>2. UNCHANGED log
    BY <1>1, Served
  <1>3. Whole(log) => i = LastServed + 1 /\ i \in 1 .. log.nab - 2
    BY <1>1, ServedOwn
  <1>4. Whole(log) => ReadTo(i)
    BY <1>1, <1>3 DEF ReadInv
  <1> QED
    BY <1>2, <1>3, <1>4, ReadEnter

\* All records of the block are read.
LEMMA ReadLeaveBounds ==
  IInv /\ FairInv /\ AdjacentInv /\ ReadInv /\ LeaveBounds => ReadInv'
  <1> SUFFICES ASSUME IInv, FairInv, AdjacentInv, ReadInv, LeaveBounds PROVE ReadInv'
    OBVIOUS
  <1>1. /\ pc = "bounds" /\ pc' = "idle" /\ ~ Suits
        /\ UNCHANGED <<log, served, latest_block, out_buffer, delivered>>
        /\ latest_block = 0 /\ cur = LastServed
    BY DEF LeaveBounds, sourceVars, IInv, Ahead, AdjacentInv
  <1>2. Produced' = Produced /\ LastServed' = LastServed
    BY <1>1 DEF Produced, LastServed
  <1> DEFINE w == log.written
             k == Len(Produced)
             s == Block(cur).bounds
  <1>3. ASSUME Whole(log)
        PROVE  /\ k <= Len(w) /\ \A j \in 1 .. k : PlacedAt(Produced[j], w[j])
               /\ \A j \in 1 .. Len(w) : j <= k <=> w[j].blk < LastServed + 1
    <2>1. PICK f \in 1 .. Len(w) + 1 : StartsAt(log, cur, f) /\ k + 2 = f + idx
      BY <1>1, <1>3 DEF ReadInv
    <2>2. /\ Len(w) \in Nat /\ k \in Nat /\ idx \in Nat /\ LastServed \in Nat
          /\ cur \in 1 .. FileSize
          /\ \A j \in 1 .. Len(w) : w[j].blk \in Nat
      <3>1. \A j \in 1 .. Len(w) : w[j].blk \in 1 .. log.nab - 2
        BY <1>3, WholeRecords
      <3>2. \A x \in 1 .. log.nab - 2 : x \in Nat
        OBVIOUS
      <3> QED
        BY <1>1, <1>3, <3>1, <3>2, WholeRecords, Basics DEF IInv, TypeOK, InBounds
    <2>3. Len(s) \in Nat /\ idx <= Len(s) + 1
      <3>1. IsBoundChain(Block(cur), s)
        BY <2>2, Basics, LogsAssumption DEF FileSize, Block
      <3> QED
        BY <1>1, <3>1 DEF IsBoundChain, IInv, InBounds
    <2>4. ~ (idx <= Len(s))
      BY <1>1, <1>3, NextWritten
    <2>5. \A j \in 1 .. Len(w) : w[j].blk > cur <=> j >= f + Len(s)
      BY <2>1 DEF StartsAt, Block
    <2> HIDE DEF s
    <2>6. f + Len(s) = k + 1
      BY <2>1, <2>2, <2>3, <2>4
    <2>7. \A j \in 1 .. Len(w) : j <= k <=> w[j].blk < LastServed + 1
      BY <1>1, <2>2, <2>5, <2>6
    <2> QED
      BY <1>3, <2>7 DEF ReadInv
  <1> HIDE DEF w, k
  <1> QED
    BY <1>1, <1>2, <1>3, ReadFrom DEF w, k

\* The bound in hand is the next record, or its beginning.
LEMMA ReadWholeRecord == IInv /\ FairInv /\ ReadInv /\ WholeRecord => ReadInv'
  <1> SUFFICES ASSUME IInv, FairInv, ReadInv, WholeRecord PROVE ReadInv'
    OBVIOUS
  <1> DEFINE w == log.written
             k == Len(Produced)
             r == Record(cur, start, Bound, <<Slice(cur, start, Bound.len)>>)
  <1>1. /\ pc = "bounds" /\ pc' = "bounds" /\ idx <= Len(Block(cur).bounds)
        /\ idx' = idx + 1 /\ UNCHANGED <<log, cur>>
    BY DEF WholeRecord, AtBound, Suits, sourceVars
  <1>2. /\ Produced' = Append(Produced, r)
        /\ r.blk = cur /\ r.offset = start /\ r.bound = Bound
        /\ LastSlice(r).size > 0
    <2>1. Bound.len > 0
      BY AtTheBound DEF WholeRecord, MIN_RECORD
    <2> QED
      BY <2>1, WholeProduces DEF Record, Slice, LastSlice
  <1>3. /\ Produced \in Seq(RecordType) /\ k \in Nat /\ idx \in Nat
    BY Basics DEF IInv, TypeOK
  <1> HIDE DEF r
  <1>4. /\ Len(Produced') = k + 1 /\ Produced'[k + 1] = r
        /\ \A j \in 1 .. k : Produced'[j] = Produced[j]
    BY <1>2, <1>3
  <1>5. ASSUME Whole(log)
        PROVE  /\ k + 1 <= Len(w)
               /\ \A j \in 1 .. k + 1 : PlacedAt(Produced'[j], w[j])
               /\ \E f \in 1 .. Len(w) + 1 :
                    StartsAt(log, cur, f) /\ (k + 1) + 2 = f + (idx + 1)
    <2>1. PlacedAt(r, w[k + 1]) /\ k < Len(w) /\ Len(w) \in Nat
      BY <1>1, <1>2, <1>5, NextWritten, WholeRecords DEF PlacedAt
    <2>2. \A j \in 1 .. k : PlacedAt(Produced[j], w[j])
      BY <1>5 DEF ReadInv
    <2>3. PICK f \in 1 .. Len(w) + 1 : StartsAt(log, cur, f) /\ k + 2 = f + idx
      BY <1>1, <1>5 DEF ReadInv
    <2> HIDE DEF w, k
    <2>4. k + 1 <= Len(w) /\ (k + 1) + 2 = f + (idx + 1)
      BY <1>3, <2>1, <2>3
    <2>5. ASSUME NEW j \in 1 .. k + 1
          PROVE  PlacedAt(Produced'[j], w[j])
      <3>1. j \in 1 .. k \/ j = k + 1
        BY <1>3
      <3> QED
        BY <1>4, <2>1, <2>2, <3>1
    <2> QED
      BY <2>3, <2>4, <2>5
  <1> DEFINE m == k + 1
  <1>6. m = Len(Produced')
    BY <1>4
  <1>7. Whole(log) => /\ m <= Len(w)
                      /\ \A j \in 1 .. m : PlacedAt(Produced'[j], w[j])
                      /\ \E f \in 1 .. Len(w) + 1 :
                           StartsAt(log, cur', f) /\ m + 2 = f + idx'
    BY <1>1, <1>5
  <1> HIDE DEF w, k, m
  <1> QED
    BY <1>1, <1>6, <1>7, ReadFrom DEF w

LEMMA ReadSplitRecord == IInv /\ FairInv /\ ReadInv /\ SplitRecord => ReadInv'
  <1> SUFFICES ASSUME IInv, FairInv, ReadInv, SplitRecord PROVE ReadInv'
    OBVIOUS
  <1> DEFINE w == log.written
             k == Len(Produced)
  <1>1. /\ pc = "bounds" /\ pc' = "body" /\ idx <= Len(Block(cur).bounds)
        /\ UNCHANGED <<log, out_buffer, delivered>>
        /\ rec'.blk = cur /\ rec'.offset = start /\ rec'.bound = Bound
        /\ LastSlice(rec').size > 0
    <2>1. Room0 > 0
      BY AtTheBound, Sizes DEF SplitRecord, Room0
    <2> QED
      BY <2>1 DEF SplitRecord, AtBound, Suits, sourceVars, Record, Slice, LastSlice
  <1>2. Produced' = Produced
    BY <1>1 DEF Produced
  <1>3. Whole(log) => /\ k <= Len(w) /\ \A j \in 1 .. k : PlacedAt(Produced[j], w[j])
                      /\ k < Len(w) /\ PlacedAt(rec', w[k + 1])
    BY <1>1, NextWritten DEF ReadInv, PlacedAt
  <1> HIDE DEF w, k
  <1> QED
    BY <1>1, <1>2, <1>3, ReadFrom DEF w, k

LEMMA ReadContinue ==
  ASSUME IInv, ReadInv, NEW i \in 1 .. FileSize, Continue(i)
  PROVE  ReadInv'
  <1> DEFINE w == log.written
             k == Len(Produced)
  <1>1. /\ pc = "body" /\ pc' = "body" /\ UNCHANGED <<out_buffer, delivered>>
        /\ rec' = WithSlice(rec, i, Take) /\ Serve(i)
    BY DEF Continue
  <1>2. /\ UNCHANGED log
        /\ rec'.blk = rec.blk /\ rec'.offset = rec.offset /\ rec'.bound = rec.bound
        /\ LastSlice(rec').size > 0
    BY <1>1, Served, TakeSlice DEF Finished, Slice
  <1>3. Produced' = Produced
    BY <1>1 DEF Produced
  <1>4. Whole(log) => /\ k <= Len(w) /\ \A j \in 1 .. k : PlacedAt(Produced[j], w[j])
                      /\ k < Len(w) /\ PlacedAt(rec', w[k + 1])
    BY <1>1, <1>2 DEF ReadInv, PlacedAt
  <1> HIDE DEF w, k
  <1> QED
    BY <1>1, <1>2, <1>3, <1>4, ReadFrom DEF w, k

\* The record is whole, and its block is looked at again if others begin in it.
LEMMA ReadComplete ==
  ASSUME IInv, LossInv, AdjacentInv, ReadInv, NEW i \in 1 .. FileSize, Complete(i)
  PROVE  ReadInv'
  <1> DEFINE w == log.written
             k == Len(Produced)
             r == WithSlice(rec, i, Take)
  <1>1. /\ pc = "body" /\ pc' = "idle" /\ Serve(i) /\ Last
        /\ latest_block' = IF Take = body_sz \/ Block(i).offset < rec.bound.next_offset
                           THEN 0 ELSE i
    BY DEF Complete
  <1>2. /\ UNCHANGED log /\ LastServed' = i /\ i >= 1
        /\ r.blk = rec.blk /\ r.offset = rec.offset /\ r.bound = rec.bound
        /\ Take = need /\ LastSlice(r).size > 0
    BY <1>1, Served, TakeSlice DEF Finished, Slice
  <1>3. Produced' = Append(Produced, r) /\ Produced \in Seq(RecordType) /\ k \in Nat
    BY CompleteProduces, Basics
  <1> HIDE DEF r
  <1>4. /\ Len(Produced') = k + 1 /\ Produced'[k + 1] = r
        /\ \A j \in 1 .. k : Produced'[j] = Produced[j]
    BY <1>3
  <1>5. ASSUME Whole(log)
        PROVE  /\ k + 1 <= Len(w)
               /\ \A j \in 1 .. k + 1 : PlacedAt(Produced'[j], w[j])
               /\ \A j \in 1 .. Len(w) :
                    j <= k + 1 <=> w[j].blk < IF latest_block' # 0 THEN i ELSE i + 1
    <2>1. /\ i \in Nat /\ Len(w) \in Nat /\ k < Len(w)
          /\ \A j \in 1 .. Len(w) : w[j].blk \in Nat
          /\ \A j \in 1 .. k + 1 : w[j].blk < i
          /\ \A j \in 1 .. Len(w) : j > k + 1 => w[j].blk >= i
          /\ need = body_sz \/ Block(i).offset < rec.bound.next_offset =>
               \A j \in 1 .. Len(w) : j > k + 1 => w[j].blk >= i + 1
      BY <1>1, <1>5, BodyAhead
    <2>2. PlacedAt(r, w[k + 1]) /\ \A j \in 1 .. k : PlacedAt(Produced[j], w[j])
      BY <1>1, <1>2, <1>5 DEF ReadInv, PlacedAt
    <2>3. latest_block' = 0 \/ latest_block' = i
      BY <1>1
    <2>4. latest_block' = 0 => need = body_sz \/ Block(i).offset < rec.bound.next_offset
      BY <1>1, <1>2, <2>1
    <2> HIDE DEF w, k
    <2>5. k + 1 <= Len(w)
      BY <1>3, <2>1
    <2>6. ASSUME NEW j \in 1 .. k + 1
          PROVE  PlacedAt(Produced'[j], w[j])
      <3>1. j \in 1 .. k \/ j = k + 1
        BY <1>3
      <3> QED
        BY <1>4, <2>2, <3>1
    <2>7. ASSUME NEW j \in 1 .. Len(w)
          PROVE  j <= k + 1 <=> w[j].blk < IF latest_block' # 0 THEN i ELSE i + 1
      <3>1. CASE j <= k + 1
        <4>1. j \in 1 .. k + 1
          BY <1>3, <3>1
        <4> QED
          BY <2>1, <3>1, <4>1
      <3>2. CASE j > k + 1
        BY <1>3, <2>1, <2>3, <2>4, <3>2
      <3> QED
        BY <1>3, <3>1, <3>2
    <2> QED
      BY <2>5, <2>6, <2>7
  <1> DEFINE m == k + 1
  <1>6. m = Len(Produced')
    BY <1>4
  <1>7. Whole(log) => /\ m <= Len(w)
                      /\ \A j \in 1 .. m : PlacedAt(Produced'[j], w[j])
                      /\ \A j \in 1 .. Len(w) :
                           j <= m <=> w[j].blk < IF latest_block' # 0 THEN latest_block'
                                                 ELSE LastServed' + 1
    <2>1. latest_block' = 0 \/ latest_block' = i
      BY <1>1
    <2> QED
      BY <1>2, <1>5, <2>1
  <1> HIDE DEF w, k, m
  <1> QED
    BY <1>1, <1>2, <1>6, <1>7, ReadFrom DEF w

LEMMA ReadEndOfFile == IInv /\ LossInv /\ ReadInv /\ EndOfFile => ReadInv'
  <1> SUFFICES ASSUME IInv, LossInv, ReadInv, EndOfFile PROVE ReadInv'
    OBVIOUS
  <1> DEFINE w == log.written
             k == Len(Produced)
  <1>1. /\ pc = "idle" /\ ~ Finished /\ latest_block = 0 /\ ServeNone /\ pc' = "eof"
        /\ UNCHANGED <<log, out_buffer, delivered>>
    BY DEF EndOfFile, Finished, ServeNone
  <1>2. Produced' = Produced
    BY <1>1 DEF Produced
  <1>3. ASSUME Whole(log)
        PROVE  k = Len(w)
    <2>1. /\ log.nab - 2 <= LastServed
          /\ LastServed \in Nat /\ k \in Nat /\ Len(w) \in Nat \ {0}
      BY <1>1, <1>3, NoneLeft, WholeRecords, Basics
    <2>2. k <= Len(w) /\ ReadTo(LastServed + 1)
      BY <1>1, <1>3 DEF ReadInv
    <2> DEFINE z == w[Len(w)].blk
    <2>3. Len(w) \in 1 .. Len(w)
      BY <2>1
    <2>4. Len(w) <= k <=> z < LastServed + 1
      BY <2>2, <2>3 DEF ReadTo
    <2>5. z \in 1 .. log.nab - 2
      BY <1>3, <2>3, WholeRecords
    <2>6. \A x \in 1 .. log.nab - 2 : log.nab - 2 <= LastServed => x < LastServed + 1
      <3> DEFINE n == log.nab - 2
      <3>1. n \in Nat
        BY <1>3, WholeBlocks, Basics
      <3> HIDE DEF n
      <3>2. \A x \in 1 .. n : n <= LastServed => x < LastServed + 1
        BY <2>1, <3>1
      <3> QED
        BY <3>2 DEF n
    <2> HIDE DEF w, k, z
    <2> QED
      BY <2>1, <2>2, <2>4, <2>5, <2>6
  <1>4. Whole(log) => k <= Len(w) /\ \A j \in 1 .. k : PlacedAt(Produced[j], w[j])
    BY DEF ReadInv
  <1> HIDE DEF w, k
  <1> QED
    BY <1>1, <1>2, <1>3, <1>4, ReadFrom DEF w, k

\* A record is never given up, and nothing throws.
LEMMA NeverGivenUp ==
  ASSUME IInv, FairInv, LossInv, AdjacentInv, ReadInv, Whole(log),
         Throw \/ \E i \in 1 .. FileSize : GiveUp(i)
  PROVE  FALSE
  <1>1. ~ SourceThrows
    BY WholeBlocks, Basics DEF SourceThrows, ServeThrow, BadRead
  <1>2. ~ BadWholeRecord
    BY NextWritten DEF BadWholeRecord, AtBound, Suits
  <1>3. ASSUME NotEnoughBlocks
        PROVE  FALSE
    <2>1. pc = "body" /\ ~ Finished /\ ServeNone
      BY <1>3 DEF NotEnoughBlocks, Finished
    <2>2. log.nab - 2 <= LastServed /\ LastServed \in Nat /\ log.nab - 2 \in Nat
      BY <2>1, NoneLeft, WholeBlocks, Basics
    <2>3. EndsIn(rec) >= LastServed + 1 /\ EndBlk(rec) \in Nat
      BY <2>1, BodyEnds
    <2> DEFINE p == log.written[Len(Produced) + 1]
    <2>4. Len(Produced) < Len(log.written) /\ PlacedAt(rec, p)
      BY <2>1 DEF ReadInv
    <2>5. Len(Produced) + 1 \in 1 .. Len(log.written)
      BY <2>4, WholeRecords, Basics
    <2>6. EndsIn(p) <= log.nab - 2
      BY <2>5, WholeRecords
    <2>7. EndsIn(rec) = EndsIn(p) /\ EndsIn(rec) \in Int
      BY <2>3, <2>4 DEF PlacedAt, EndsIn, EndBlk
    <2> DEFINE n == log.nab - 2
    <2> HIDE DEF n, p
    <2>8. n <= LastServed /\ EndsIn(rec) <= n /\ n \in Nat
      BY <2>2, <2>6, <2>7 DEF n
    <2> QED
      BY <2>2, <2>3, <2>7, <2>8
  <1>4. ASSUME NEW i \in 1 .. FileSize, InterimRival(i) \/ BadCompletion(i) \/ GiveUp(i)
        PROVE  FALSE
    <2>1. pc = "body" /\ Serve(i)
      BY <1>4 DEF InterimRival, BadCompletion, GiveUp
    <2>2. ~ Replaced(i) /\ (~ Last => Len(Fbs(i)) = 0) /\ HeadFits(rec.bound)
      BY <2>1, BodyKept
    <2> QED
      BY <1>4, <2>2 DEF InterimRival, BadCompletion, GiveUp
  <1> QED
    BY <1>1, <1>2, <1>3, <1>4 DEF Throw

LEMMA NotWhole ==
  ASSUME UNCHANGED log, ~ Whole(log)
  PROVE  ReadInv'
  BY SameWhole DEF ReadInv

LEMMA ReadStep ==
  IInv /\ FairInv /\ LossInv /\ AdjacentInv /\ ReadInv /\ Step => ReadInv'
  <1> SUFFICES ASSUME IInv, FairInv, LossInv, AdjacentInv, ReadInv, Step
               PROVE  ReadInv'
    OBVIOUS
  <1>1. CASE Throw \/ \E i \in 1 .. FileSize : GiveUp(i)
    <2>1. UNCHANGED log
      BY <1>1 DEF Throw, SourceThrows, BadWholeRecord, NotEnoughBlocks, InterimRival,
                  BadCompletion, GiveUp, Serve, ServeQueued, ServeDrained, ServeNone,
                  ServeThrow, sourceVars
    <2>2. ~ Whole(log)
      BY <1>1, NeverGivenUp
    <2> QED
      BY <2>1, <2>2, NotWhole
  <1> QED
    BY <1>1, ReadDeliver, ReadEnterLatest, ReadEnterNext, ReadLeaveBounds,
       ReadWholeRecord, ReadSplitRecord, ReadContinue, ReadComplete, ReadEndOfFile
    DEF Step, Fill

LEMMA ReadStutter == IInv /\ ReadInv /\ UNCHANGED vars => ReadInv'
  <1> SUFFICES ASSUME IInv, ReadInv, UNCHANGED vars PROVE ReadInv'
    OBVIOUS
  <1>1. UNCHANGED <<log, served, pc, out_buffer, delivered, latest_block, cur, idx, rec>>
    BY DEF vars, recordVars, fillVars, sourceVars
  <1>2. Produced' = Produced /\ LastServed' = LastServed
    BY <1>1 DEF Produced, LastServed
  <1> QED
    BY <1>1, <1>2, ReadFrom DEF ReadInv, ReadTo

LEMMA ReadInvariance == Spec => []ReadInv
  <1>1. /\ IInv /\ FairInv /\ LossInv /\ AdjacentInv /\ ReadInv /\ [Next]_vars
        => ReadInv'
    BY ReadStep, ReadStutter DEF Next, Terminated
  <1> QED
    BY Invariance, FairInvariance, LossInvarianceOfRecords, AdjacentInvariance,
       InitRead, <1>1, PTL DEF Spec

\* RecordSource.cpp:10-11 and 98-190: on a log that is whole no exception leaves
\* getNext, whatever the records, the chunk size and the stale block offsets.
THEOREM NeverThrowsHolds == Spec => [](Whole(log) => NeverThrows)
  <1>1. ReadInv => (Whole(log) => NeverThrows)
    BY DEF ReadInv, NeverThrows
  <1> QED
    BY ReadInvariance, <1>1, PTL

-----------------------------------------------------------------------------
(* fill_Records comes to an end: a block given up is looked at again, but  *)
(* each block only once more, and no turn of the loops is for nothing.     *)

\* The turns left in the block in hand and the records waiting for main, the
\* block to be looked at again, and the blocks not served yet.
Turns == 2 * (Len(Block(cur).bounds) + 1 - idx)
Here ==
  IF pc \in {"idle", "body"} THEN Len(out_buffer) + 1
  ELSE IF pc = "bounds" THEN Len(out_buffer) + Turns + 2
  ELSE 0
Again == IF latest_block # 0 THEN 66 ELSE 0
InHand == Again + Here
StepsLeft == 68 * BlocksLeft + InHand

TurnsBound ==
  pc = "bounds" => Turns \in Nat /\ Turns <= 64 /\ (Suits => Turns >= 2)

LEMMA TurnsTyped == IInv => TurnsBound
  <1> SUFFICES ASSUME IInv, pc = "bounds"
               PROVE  Turns \in Nat /\ Turns <= 64 /\ (Suits => Turns >= 2)
    BY DEF TurnsBound
  <1>1. /\ cur \in 1 .. FileSize /\ idx \in Nat \ {0}
        /\ idx <= Len(Block(cur).bounds) + 1
    BY DEF IInv, InBounds, TypeOK
  <1>2. Len(Block(cur).bounds) \in Nat /\ Len(Block(cur).bounds) <= 32
    <2>1. IsBoundChain(Block(cur), Block(cur).bounds)
      BY <1>1, LogsAssumption, Basics DEF Block, FileSize
    <2> QED
      BY <2>1 DEF IsBoundChain, BOUND_LIMIT
  <1>3. Suits => idx <= Len(Block(cur).bounds)
    BY DEF Suits
  <1> QED
    BY <1>1, <1>2, <1>3 DEF Turns

LEMMA TurnsNext == IInv' => TurnsBound'
  BY TurnsTyped, PTL

Weights ==
  /\ Len(out_buffer) \in Nat /\ out_buffer \in Seq(RecordType)
  /\ Here \in Nat /\ Again \in Nat /\ InHand \in Nat
  /\ BlocksLeft \in Nat /\ BlocksLeft <= FileSize /\ FileSize \in Nat
  /\ pc \notin {"eof", "thrown"} => Here > 0

LEMMA WeightsTyped == IInv => Weights
  <1> SUFFICES ASSUME IInv PROVE Weights
    OBVIOUS
  <1>1. Len(out_buffer) \in Nat /\ out_buffer \in Seq(RecordType)
    BY DEF IInv, TypeOK
  <1>2. pc \in {"idle", "bounds", "body", "eof", "thrown"}
    BY DEF IInv, TypeOK
  <1>3. pc = "bounds" => Here \in Nat /\ Here > 0
    <2> SUFFICES ASSUME pc = "bounds" PROVE Here \in Nat /\ Here > 0
      OBVIOUS
    <2>1. Here = Len(out_buffer) + Turns + 2
      BY DEF Here
    <2> QED
      BY <1>1, <2>1, TurnsTyped DEF TurnsBound
  <1>4. pc \in {"idle", "body"} => Here \in Nat /\ Here > 0
    BY <1>1 DEF Here
  <1>6. pc \in {"eof", "thrown"} => Here = 0
    BY DEF Here
  <1>5. Again \in Nat
    BY DEF Again
  <1>7. Here \in Nat
    BY <1>2, <1>3, <1>4, <1>6
  <1>8. InHand \in Nat
    BY <1>5, <1>7 DEF InHand
  <1> QED
    BY <1>1, <1>2, <1>3, <1>4, <1>5, <1>7, <1>8, BlocksLeftTyped, Basics
    DEF IInv, Weights

LEMMA WeightsNext == IInv' => Weights'
  BY WeightsTyped, PTL

LEMMA StepsLeftTyped == IInv => StepsLeft \in Nat
  BY WeightsTyped DEF StepsLeft, Weights

\* What fill_Records finds in a block it enters takes at most 66 turns.
LEMMA EnterLeft ==
  ASSUME IInv', NEW i, Enter(i)
  PROVE  Here' \in Nat /\ Here' <= 66 /\ Again' = 0 /\ Here = 1
  <1>1. pc = "idle" /\ out_buffer = << >> /\ pc' = "bounds" /\ latest_block' = 0
        /\ out_buffer' = out_buffer
    BY DEF Enter
  <1>2. PICK t : t = Turns'
    OBVIOUS
  <1>3. t \in Nat /\ t <= 64
    BY <1>1, <1>2, TurnsNext DEF TurnsBound
  <1>4. Here' = t + 2 /\ Here = 1
    <2>1. Here' = Len(out_buffer') + Turns' + 2 /\ Here = Len(out_buffer) + 1
      BY <1>1 DEF Here
    <2> QED
      BY <1>1, <1>2, <1>3, <2>1
  <1>5. Again' = 0
    BY <1>1 DEF Again
  <1> QED
    BY <1>3, <1>4, <1>5

\* A step that serves no block takes from what is in hand, and one that serves a
\* block adds less than 68 to it.
LEMMA Lighter ==
  ASSUME IInv, IInv', NEW x, NEW y, InHand = x, InHand' = y,
         \/ BlocksLeft' = BlocksLeft /\ y < x
         \/ BlocksLeft' < BlocksLeft /\ y < x + 68
  PROVE  StepsLeft' < StepsLeft
  <1>1. PICK b, c : b = BlocksLeft /\ c = BlocksLeft'
    OBVIOUS
  <1>2. b \in Nat /\ c \in Nat /\ x \in Nat /\ y \in Nat
    BY <1>1, WeightsTyped, WeightsNext DEF Weights
  <1>3. StepsLeft = 68 * b + x /\ StepsLeft' = 68 * c + y
    BY <1>1 DEF StepsLeft
  <1>4. 68 * c + y < 68 * b + x
    <2>1. \/ c = b /\ y < x
          \/ c < b /\ y < x + 68
      BY <1>1
    <2> QED
      BY <1>2, <2>1
  <1> QED
    BY <1>3, <1>4

LEMMA EnterLighter ==
  ASSUME IInv, IInv', EnterLatest \/ EnterNext
  PROVE  StepsLeft' < StepsLeft
  <1>1. PICK i : Enter(i)
    BY DEF EnterLatest, EnterNext
  <1>2. PICK t : t = Here'
    OBVIOUS
  <1>3. t \in Nat /\ t <= 66 /\ Again' = 0 /\ Here = 1
    BY <1>1, <1>2, EnterLeft
  <1>4. InHand' = t
    <2>1. InHand' = 0 + t
      BY <1>2, <1>3 DEF InHand
    <2> QED
      BY <1>3, <2>1
  <1>5. CASE EnterLatest
    <2>1. InHand = 67
      BY <1>3, <1>5 DEF InHand, Again, EnterLatest
    <2>2. BlocksLeft' = BlocksLeft
      BY <1>5, BlocksLeftSame DEF EnterLatest, sourceVars
    <2>3. t < 67
      BY <1>3
    <2> QED
      BY <1>4, <2>1, <2>2, <2>3, Lighter
  <1>6. CASE EnterNext
    <2>1. InHand = 1
      BY <1>3, <1>6 DEF InHand, Again, EnterNext
    <2>2. PICK j : Serve(j) /\ Enter(j)
      BY <1>6 DEF EnterNext
    <2>3. BlocksLeft' < BlocksLeft
      BY <2>2, BlocksLeftFalls DEF Enter, IInv, StillOpen, Finished
    <2>4. t < 1 + 68
      BY <1>3
    <2> QED
      BY <1>4, <2>1, <2>3, <2>4, Lighter
  <1> QED
    BY <1>5, <1>6

LEMMA DeliverLighter ==
  ASSUME IInv, IInv', Deliver
  PROVE  StepsLeft' < StepsLeft
  <1>1. /\ pc = "idle" /\ pc' = "idle" /\ out_buffer # << >>
        /\ out_buffer' = Tail(out_buffer) /\ latest_block' = latest_block
        /\ UNCHANGED sourceVars
    BY DEF Deliver
  <1>2. PICK n, a : n = Len(out_buffer) /\ a = Again
    OBVIOUS
  <1>3. n \in Nat /\ a \in Nat /\ Len(out_buffer') = n - 1
    <2>1. out_buffer \in Seq(RecordType) /\ a \in Nat /\ n \in Nat
      BY <1>2, WeightsTyped DEF Weights
    <2>2. Len(Tail(out_buffer)) = n - 1
      BY <1>1, <1>2, <2>1
    <2> QED
      BY <1>1, <2>1, <2>2
  <1>4. Again' = a
    BY <1>1, <1>2 DEF Again
  <1>5. Here = n + 1 /\ Here' = (n - 1) + 1
    BY <1>1, <1>2, <1>3 DEF Here
  <1>6. InHand = a + (n + 1) /\ InHand' = a + ((n - 1) + 1)
    BY <1>2, <1>4, <1>5 DEF InHand
  <1>7. BlocksLeft' = BlocksLeft
    BY <1>1, BlocksLeftSame DEF sourceVars
  <1>8. a + ((n - 1) + 1) < a + (n + 1)
    BY <1>3
  <1> QED
    BY <1>6, <1>7, <1>8, Lighter

\* What is in hand while the bounds of a block are read.
LEMMA InBlock ==
  ASSUME IInv, pc = "bounds"
  PROVE  \E n, a, t \in Nat :
           /\ n = Len(out_buffer) /\ a = Again /\ t = Turns
           /\ (Suits => t >= 2) /\ InHand = a + (n + t + 2)
  <1>1. PICK n, a, t : n = Len(out_buffer) /\ a = Again /\ t = Turns
    OBVIOUS
  <1>2. n \in Nat /\ a \in Nat /\ t \in Nat /\ (Suits => t >= 2)
    BY <1>1, WeightsTyped, TurnsTyped DEF Weights, TurnsBound
  <1>3. Here = n + t + 2
    BY <1>1 DEF Here
  <1>4. InHand = a + (n + t + 2)
    BY <1>1, <1>3 DEF InHand
  <1> QED
    BY <1>1, <1>2, <1>4

\* The loop over the bounds is left, for the next block or a continuation.
LEMMA LeaveLighter ==
  ASSUME IInv, IInv', LeaveBounds \/ SplitRecord
  PROVE  StepsLeft' < StepsLeft
  <1>1. /\ pc = "bounds" /\ pc' \in {"idle", "body"} /\ UNCHANGED sourceVars
        /\ out_buffer' = out_buffer /\ latest_block' = latest_block
    BY DEF LeaveBounds, SplitRecord, AtBound
  <1>2. PICK n, a, t \in Nat :
          /\ n = Len(out_buffer) /\ a = Again /\ t = Turns
          /\ (Suits => t >= 2) /\ InHand = a + (n + t + 2)
    BY <1>1, InBlock
  <1>3. Again' = a
    BY <1>1, <1>2 DEF Again
  <1>4. Here' = n + 1
    BY <1>1, <1>2 DEF Here
  <1>5. InHand' = a + (n + 1)
    BY <1>3, <1>4 DEF InHand
  <1>6. BlocksLeft' = BlocksLeft
    BY <1>1, BlocksLeftSame DEF sourceVars
  <1>7. a + (n + 1) < a + (n + t + 2)
    OBVIOUS
  <1> QED
    BY <1>2, <1>5, <1>6, <1>7, Lighter

LEMMA WholeLighter ==
  ASSUME IInv, IInv', WholeRecord
  PROVE  StepsLeft' < StepsLeft
  <1>1. /\ pc = "bounds" /\ pc' = pc /\ Suits /\ idx' = idx + 1 /\ cur' = cur
        /\ latest_block' = latest_block /\ UNCHANGED sourceVars
    BY DEF WholeRecord, AtBound
  <1>2. PICK r : out_buffer' = Append(out_buffer, r)
    BY DEF WholeRecord
  <1>3. PICK n, a, t \in Nat :
          /\ n = Len(out_buffer) /\ a = Again /\ t = Turns
          /\ (Suits => t >= 2) /\ InHand = a + (n + t + 2)
    BY <1>1, InBlock
  <1>4. Len(out_buffer') = n + 1
    <2>1. out_buffer \in Seq(RecordType \cup {r})
      BY WeightsTyped DEF Weights
    <2> QED
      BY <1>2, <1>3, <2>1
  <1>5. Turns' = t - 2
    <2>1. PICK l : l = Len(Block(cur).bounds)
      OBVIOUS
    <2>2. l \in Nat /\ idx \in Nat
      BY <1>1, <2>1, AtTheBound DEF AtBound, IInv, TypeOK
    <2>3. Len(Block(cur)'.bounds) = l
      BY <1>1, <2>1 DEF sourceVars, Block
    <2>4. Turns = 2 * (l + 1 - idx) /\ Turns' = 2 * (l + 1 - (idx + 1))
      BY <1>1, <2>1, <2>3 DEF Turns
    <2> QED
      BY <1>3, <2>2, <2>4
  <1>6. Again' = a
    BY <1>1, <1>3 DEF Again
  <1>7. Here' = (n + 1) + (t - 2) + 2
    BY <1>1, <1>4, <1>5 DEF Here
  <1>8. InHand' = a + ((n + 1) + (t - 2) + 2)
    BY <1>6, <1>7 DEF InHand
  <1>9. BlocksLeft' = BlocksLeft
    BY <1>1, BlocksLeftSame DEF sourceVars
  <1>10. a + ((n + 1) + (t - 2) + 2) < a + (n + t + 2)
    OBVIOUS
  <1> QED
    BY <1>3, <1>8, <1>9, <1>10, Lighter

\* A continuation block is served: given up, sliced or completed.
LEMMA BodyLighter ==
  ASSUME IInv, IInv', NEW i, GiveUp(i) \/ Continue(i) \/ Complete(i)
  PROVE  StepsLeft' < StepsLeft
  <1>1. pc = "body" /\ pc' \in {"idle", "body"} /\ Serve(i)
    BY DEF GiveUp, Continue, Complete
  <1>2. PICK n, a, b : n = Len(out_buffer) /\ a = Again /\ b = Again'
    OBVIOUS
  <1>3. n \in Nat /\ a \in Nat /\ b \in Nat
    BY <1>2, WeightsTyped, WeightsNext DEF Weights
  <1>4. b <= a + 66
    <2>1. b = 66 \/ b = 0
      BY <1>2 DEF Again
    <2> QED
      BY <1>3, <2>1
  <1>5. Len(out_buffer') = n \/ Len(out_buffer') = n + 1
    <2>1. out_buffer' = out_buffer \/ \E r : out_buffer' = Append(out_buffer, r)
      BY DEF GiveUp, Continue, Complete
    <2>2. ASSUME NEW r, out_buffer' = Append(out_buffer, r)
          PROVE  Len(out_buffer') = n + 1
      <3>1. out_buffer \in Seq(RecordType \cup {r})
        BY WeightsTyped DEF Weights
      <3> QED
        BY <1>2, <2>2, <3>1
    <2> QED
      BY <1>2, <2>1, <2>2
  <1>6. PICK m : m = Len(out_buffer')
    OBVIOUS
  <1>7. Here = n + 1 /\ Here' = m + 1
    BY <1>1, <1>2, <1>6 DEF Here
  <1>8. InHand = a + (n + 1) /\ InHand' = b + (m + 1)
    BY <1>2, <1>7 DEF InHand
  <1>9. BlocksLeft' < BlocksLeft
    BY <1>1, BlocksLeftFalls DEF IInv, StillOpen, Finished
  <1>10. b + (m + 1) < a + (n + 1) + 68
    BY <1>3, <1>4, <1>5, <1>6
  <1> QED
    BY <1>8, <1>9, <1>10, Lighter

\* The end of the file or an exception, after a block or without one.
LEMMA EndLighter ==
  ASSUME IInv, IInv', EndOfFile \/ Throw
  PROVE  StepsLeft' < StepsLeft
  <1>1. /\ pc \in {"idle", "bounds", "body"} /\ pc' \in {"eof", "thrown"}
        /\ latest_block' = latest_block
    BY DEF EndOfFile, Throw, SourceThrows, BadWholeRecord, AtBound, NotEnoughBlocks,
           InterimRival, BadCompletion
  <1>2. PICK a, h : a = Again /\ h = Here
    OBVIOUS
  <1>3. a \in Nat /\ h \in Nat /\ h > 0
    BY <1>1, <1>2, WeightsTyped DEF Weights
  <1>4. Again' = a /\ Here' = 0
    BY <1>1, <1>2 DEF Again, Here
  <1>5. InHand = a + h /\ InHand' = a + 0
    BY <1>2, <1>4 DEF InHand
  <1>6. BlocksLeft' = BlocksLeft \/ BlocksLeft' < BlocksLeft
    <2>1. UNCHANGED <<log, served>> \/ \E i : Serve(i)
      BY DEF EndOfFile, Throw, SourceThrows, BadWholeRecord, NotEnoughBlocks,
             InterimRival, BadCompletion, ServeNone, ServeThrow, sourceVars
    <2>2. source = "open"
      BY <1>1 DEF IInv, StillOpen, Finished
    <2> QED
      BY <2>1, <2>2, BlocksLeftSame, BlocksLeftFalls DEF IInv
  <1>7. a + 0 < a + h /\ a + 0 < a + h + 68
    BY <1>3
  <1> QED
    BY <1>5, <1>6, <1>7, Lighter

LEMMA StepLighter ==
  ASSUME IInv, Step
  PROVE  StepsLeft' < StepsLeft
  <1>1. IInv'
    BY StepKeeps
  <1> QED
    BY <1>1, DeliverLighter, EnterLighter, LeaveLighter, WholeLighter, BodyLighter,
       EndLighter DEF Step, Fill

LEMMA InitStepsLeft == Init => StepsLeft <= 68 * FileSize + 1
  <1> SUFFICES ASSUME Init PROVE StepsLeft <= 68 * FileSize + 1
    OBVIOUS
  <1>1. PICK b, f : b = BlocksLeft /\ f = FileSize
    OBVIOUS
  <1>2. b \in Nat /\ f \in Nat /\ b <= f
    BY <1>1, InitIInv, WeightsTyped DEF Weights
  <1>3. Here = 1 /\ Again = 0
    BY DEF Init, Here, Again
  <1>4. InHand = 1
    BY <1>3 DEF InHand
  <1>5. StepsLeft = 68 * b + 1
    BY <1>1, <1>4 DEF StepsLeft
  <1> QED
    BY <1>1, <1>2, <1>5

\* RecordSource.cpp:90-195: whatever the log holds, a record given up, a stale
\* offset or a block looked at again never keeps getNext busy for ever: each
\* turn of its loops and each record handed out uses up some of what there is,
\* and 68 steps for each block of the file, and one more, are enough.
THEOREM StepsBounded ==
  Spec => /\ StepsLeft <= 68 * FileSize + 1
          /\ [](StepsLeft \in Nat)
          /\ [][StepsLeft' < StepsLeft]_vars
  <1>1. IInv /\ [Next]_vars => [StepsLeft' < StepsLeft]_vars
    BY StepLighter DEF Next, Terminated
  <1> QED
    BY <1>1, InitStepsLeft, Invariance, StepsLeftTyped, PTL DEF Spec
=============================================================================
