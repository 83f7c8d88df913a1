------------------------------ MODULE RedoLog ------------------------------
(***************************************************************************)
(* Redo logs as the database writes them, for the record source to read.   *)
(* The writer is not part of the program: its rules are those the code and *)
(* its notes rely on (worknote.md and changes.md):                         *)
(*   - records are laid one behind the other over the bodies of the blocks;*)
(*   - a record may end in any block, its header never crosses into the    *)
(*     next one, and the writer may leave the rest of a block unused;      *)
(*   - the header of a block gives the offset of the first record that     *)
(*     starts in it; where none starts the offset is not updated.          *)
(***************************************************************************)
EXTENDS RecordSource

\* A written record: its header and whether the writer flushed behind it, so
\* that the next record begins with a new block.
Written(info, flush) == [info |-> info, flush |-> flush]

UNSPLIT == 16      \* bytes of a record header that stay in one block

\* The next position where a record may begin: a split header is avoided.
Aligned(p, flush) ==
  LET used == p % body_sz IN
    IF used = 0 THEN p
    ELSE IF flush \/ body_sz - used < UNSPLIT THEN p + (body_sz - used)
    ELSE p

\* Positions of the records of w, counted in bytes of the joined block bodies.
Positions(w) ==
  LET at[k \in 1 .. Len(w)] ==
        IF k = 1 THEN 0
        ELSE Aligned(at[k - 1] + w[k - 1].info.len, w[k - 1].flush)
  IN at

BlockAt(p) == (p \div body_sz) + 1
OffsetAt(p) == BLOCK_HEAD + (p % body_sz)

BlockCount(w) ==
  LET k == Len(w) IN BlockAt(Positions(w)[k] + w[k].info.len - 1)

\* The block header's offset where no record starts: cleared, left as it was in
\* the block before, or pointing at the start of the body.
Stales == {"cleared", "kept", "body"}

\* The blocks that hold the records of w.
BlocksOf(w, stale) ==
  LET at == Positions(w)
      n == BlockCount(w)
      Starts(i) == {k \in 1 .. Len(w) : BlockAt(at[k]) = i}
      off[i \in 0 .. n] ==
        IF i = 0 THEN 0
        ELSE IF Starts(i) # {}
             THEN OffsetAt(at[CHOOSE k \in Starts(i) :
                                \A j \in Starts(i) : k <= j])
             ELSE CASE stale = "cleared" -> 0
                    [] stale = "kept" -> off[i - 1]
                    [] stale = "body" -> BLOCK_HEAD
      heads(i) ==
        [o \in {OffsetAt(at[k]) : k \in Starts(i)} |->
           w[CHOOSE k \in Starts(i) : OffsetAt(at[k]) = o].info]
  IN [i \in 1 .. n |->
        set_bounds([lsn |-> Lsn, no |-> i + 1, offset |-> off[i],
                    heads |-> heads(i), bounds |-> << >>])]

\* The log file of the records w in these blocks: earlier is the sequence number
\* of the log written before into the same file, whose last blocks, rest of them,
\* are still there.
LogOf(w, blocks, rest, earlier) ==
  LET at == Positions(w)
      old(i) == [lsn |-> earlier, no |-> i + 1, offset |-> BLOCK_HEAD,
                 heads |-> << >>, bounds |-> << >>]
  IN [ blocks |-> blocks \o [i \in 1 .. rest |-> old(Len(blocks) + i)],
       tail |-> FALSE,
       nab |-> Len(blocks) + 2,
       written |-> [k \in 1 .. Len(w) |->
                      [blk |-> BlockAt(at[k]), offset |-> OffsetAt(at[k]),
                       bound |-> Bound_of(w[k].info, OffsetAt(at[k]))]] ]

-----------------------------------------------------------------------------
(* What makes a log whole, however it was written. A written record is the  *)
(* place where it begins, and its bound.                                    *)

Places == [blk : Nat, offset : Nat, bound : Bounds]

\* The block where p ends or, when it fills a block, the one behind.
EndBlk(p) == p.blk + p.bound.next_blocks

\* The last block with bytes of p.
EndsIn(p) == IF p.bound.next_offset = BLOCK_HEAD THEN EndBlk(p) - 1 ELSE EndBlk(p)

\* q begins behind the end of p.
Behind(p, q) ==
  \/ q.blk > EndBlk(p)
  \/ q.blk = EndBlk(p) /\ q.offset >= p.bound.next_offset

\* The bounds of the block at i are the records of l that begin in it: those from
\* the f-th on.
StartsAt(l, i, f) ==
  LET s == l.blocks[i].bounds IN
    /\ f + Len(s) <= Len(l.written) + 1
    /\ \A k \in 1 .. Len(l.written) :
         /\ l.written[k].blk < i <=> k < f
         /\ l.written[k].blk > i <=> k >= f + Len(s)
    /\ \A j \in 1 .. Len(s) :
         /\ l.written[f + j - 1].offset = BoundStart(l.blocks[i], s, j)
         /\ l.written[f + j - 1].bound = s[j]

\* The log l is whole: its blocks are those before nab, none is gone; each bound
\* of a block is a record, and each record a bound; records lie behind one
\* another, in blocks that follow one another, and suit their log-writer note.
Whole(l) ==
  LET w == l.written
      n == l.nab - 2
  IN /\ ~ l.tail
     /\ n \in 1 .. Len(l.blocks)
     /\ \A i \in 1 .. Len(l.blocks) :
          l.blocks[i].no = i + 1 /\ (l.blocks[i].lsn = Lsn <=> i <= n)
     /\ \A i \in 1 .. n : \E f \in 1 .. Len(w) + 1 : StartsAt(l, i, f)
     /\ w \in Seq(Places) /\ w # << >>
     /\ \A k \in 1 .. Len(w) :
          /\ w[k].blk \in 1 .. n /\ EndsIn(w[k]) <= n
          /\ HeadFits(w[k].bound)
          /\ fairBound(w[k].bound, WindowAt(w, k))
     /\ \A j, k \in 1 .. Len(w) : j < k => Behind(w[j], w[k])
     /\ \A k \in 1 .. Len(w) - 1 : w[k + 1].blk <= EndBlk(w[k]) + 1
     /\ EndsIn(w[Len(w)]) = n

-----------------------------------------------------------------------------
\* RecordSource.cpp:10-11 and 145-161: on a log that is whole the reader never
\* runs out of blocks, never meets a rival and never throws.
NeverThrows == pc # "thrown"
=============================================================================
