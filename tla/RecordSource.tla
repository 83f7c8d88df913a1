---------------------------- MODULE RecordSource ----------------------------
(***************************************************************************)
(* DefaultRecordSource (src/records/RecordSource.{h,cpp}) on top of the    *)
(* block source: fill_Records assembles records out of blocks, getNext     *)
(* hands them to main one at a time.                                       *)
(*                                                                         *)
(* fill_Records is cut at every turn of its two loops and at every call of *)
(* block_source->getNext(), so that the state between two blocks is seen.  *)
(* A record carries its RBA (blk, offset), its bound and its payload: the  *)
(* slices add_slice copied, not their bytes.                               *)
(***************************************************************************)
EXTENDS FileBlockSource

CONSTANT NoRec       \* no record is being assembled

SliceType == [blk : Nat, from : Nat, size : Nat]
RecordType == [blk : Nat, offset : Nat, bound : Bounds, raw : Seq(SliceType)]

ASSUME NoRecAssumption == NoRec \notin RecordType

LWN_HEAD == 24 + 44  \* sizeof(Base_lo) + sizeof(Lwn_lo)

VARIABLES
  pc,           \* "idle": outside fill_Records; "bounds": in the loop over a
                \* block's bounds; "body": in the loop over the blocks of a
                \* record; "eof" and "thrown": getNext is over
  out_buffer,   \* records assembled and not yet handed out
  lwn_ctx,      \* the current log-writer note
  latest_block, \* position of the block to look at again, 0 for none
  cur,          \* the block whose bounds are read
  idx,          \* which of its bounds is next
  start,        \* offset of the next record in it
  rec,          \* the record being assembled from several blocks
  need,         \* bytes it still lacks
  first,        \* no continuation block was read for it yet
  delivered     \* history: the records getNext returned

fillVars == <<cur, idx, start, rec, need, first>>
recordVars == <<pc, out_buffer, lwn_ctx, latest_block, fillVars, delivered>>
vars == <<sourceVars, recordVars>>

Init ==
  /\ SourceInit
  /\ pc = "idle"
  /\ out_buffer = << >>
  /\ lwn_ctx = NoLwn
  /\ latest_block = 0
  /\ cur = 0 /\ idx = 1 /\ start = 0
  /\ rec = NoRec /\ need = 0 /\ first = FALSE
  /\ delivered = << >>

-----------------------------------------------------------------------------
(* Helpers                                                                  *)

Slice(blk, from, size) == [blk |-> blk, from |-> from, size |-> size]

Record(blk, offset, bound, raw) ==
  [blk |-> blk, offset |-> offset, bound |-> bound, raw |-> raw]

LastSlice(r) == r.raw[Len(r.raw)]

\* RecordHead_of throws when the depend bit promises an extension that the
\* record is too short to hold.
HeadFits(bound) == dependBit_on(bound.info.vld) => bound.len >= LWN_HEAD

\* Mutant: every record is taken for a log-writer note.
WaterAlways(bound) == [low |-> bound.info.low, nxt |-> bound.info.nxt]

\* update_water
Water(bound) ==
  IF dependBit_on(bound.info.vld)
  THEN [low |-> bound.info.low, nxt |-> bound.info.nxt]
  ELSE lwn_ctx

Bound == Block(cur).bounds[idx]
Suits == idx <= Len(Block(cur).bounds) /\ fairBound(Bound, lwn_ctx)
Room0 == BlockSz - start

-----------------------------------------------------------------------------
(* getNext                                                                  *)

Deliver ==
  /\ pc = "idle"
  /\ out_buffer # << >>
  /\ delivered' = Append(delivered, out_buffer[1])
  /\ out_buffer' = Tail(out_buffer)
  /\ UNCHANGED <<sourceVars, pc, lwn_ctx, latest_block, fillVars>>

\* Mutant: blocks are parsed while records wait to be handed out.
EnterEarly(i) ==
  /\ pc = "idle"
  /\ pc' = "bounds"
  /\ cur' = i
  /\ idx' = 1
  /\ start' = Block(i).offset
  /\ latest_block' = 0
  /\ UNCHANGED <<out_buffer, lwn_ctx, rec, need, first, delivered>>

\* fill_Records enters its loop over the bounds of the block at i.
Enter(i) ==
  /\ pc = "idle"
  /\ out_buffer = << >>
  /\ pc' = "bounds"
  /\ cur' = i
  /\ idx' = 1
  /\ start' = Block(i).offset
  /\ latest_block' = 0
  /\ UNCHANGED <<out_buffer, lwn_ctx, rec, need, first, delivered>>

\* get_LatestOrNext
EnterLatest ==
  /\ latest_block # 0
  /\ Enter(latest_block)
  /\ UNCHANGED sourceVars

EnterNext ==
  /\ latest_block = 0
  /\ \E i \in 1 .. FileSize : Serve(i) /\ Enter(i)

EndOfFile ==
  /\ pc = "idle" /\ out_buffer = << >> /\ latest_block = 0
  /\ ServeNone
  /\ pc' = "eof"
  /\ UNCHANGED <<out_buffer, lwn_ctx, latest_block, fillVars, delivered>>

\* drain throws: nobody catches, the program ends.
SourceThrows ==
  /\ \/ pc = "idle" /\ out_buffer = << >> /\ latest_block = 0
     \/ pc = "body"
  /\ ServeThrow
  /\ pc' = "thrown"
  /\ UNCHANGED <<out_buffer, lwn_ctx, latest_block, fillVars, delivered>>

-----------------------------------------------------------------------------
(* fill_Records, the loop over the bounds of the current block              *)

\* Mutant: a block without a suitable bound is looked at again.
LeaveBoundsAgain ==
  /\ pc = "bounds"
  /\ ~ Suits
  /\ pc' = "idle"
  /\ latest_block' = IF idx = 1 THEN cur ELSE 0
  /\ UNCHANGED <<sourceVars, out_buffer, lwn_ctx, fillVars, delivered>>

\* No bound is left, or the next one does not suit the log-writer note.
LeaveBounds ==
  /\ pc = "bounds"
  /\ ~ Suits
  /\ pc' = "idle"
  /\ UNCHANGED <<sourceVars, out_buffer, lwn_ctx, latest_block, fillVars,
                 delivered>>

AtBound == pc = "bounds" /\ Suits

WholeRecord ==
  /\ AtBound
  /\ Bound.len <= Room0
  /\ HeadFits(Bound)
  /\ out_buffer' = Append(out_buffer,
       Record(cur, start, Bound, <<Slice(cur, start, Bound.len)>>))
  /\ lwn_ctx' = Water(Bound)
  /\ start' = start + Bound.len
  /\ idx' = idx + 1
  /\ UNCHANGED <<sourceVars, pc, latest_block, cur, rec, need, first, delivered>>

BadWholeRecord ==
  /\ AtBound
  /\ Bound.len <= Room0
  /\ ~ HeadFits(Bound)
  /\ pc' = "thrown"
  /\ UNCHANGED <<sourceVars, out_buffer, lwn_ctx, latest_block, fillVars,
                 delivered>>

\* Mutant: what is needed has the wrong sign.
SplitRecordSwapped ==
  /\ AtBound
  /\ Bound.len > Room0
  /\ rec' = Record(cur, start, Bound, <<Slice(cur, start, Room0)>>)
  /\ need' = Room0 - Bound.len
  /\ first' = TRUE
  /\ pc' = "body"
  /\ UNCHANGED <<sourceVars, out_buffer, lwn_ctx, latest_block, cur, idx, start,
                 delivered>>

\* Mutant: the first slice is not counted.
SplitRecordWhole ==
  /\ AtBound
  /\ Bound.len > Room0
  /\ rec' = Record(cur, start, Bound, <<Slice(cur, start, Room0)>>)
  /\ need' = Bound.len
  /\ first' = TRUE
  /\ pc' = "body"
  /\ UNCHANGED <<sourceVars, out_buffer, lwn_ctx, latest_block, cur, idx, start,
                 delivered>>

SplitRecord ==
  /\ AtBound
  /\ Bound.len > Room0
  /\ rec' = Record(cur, start, Bound, <<Slice(cur, start, Room0)>>)
  /\ need' = Bound.len - Room0
  /\ first' = TRUE
  /\ pc' = "body"
  /\ UNCHANGED <<sourceVars, out_buffer, lwn_ctx, latest_block, cur, idx, start,
                 delivered>>

-----------------------------------------------------------------------------
(* fill_Records, the loop over the continuation blocks of a split record    *)

Fbs(i) == fairBounds(Block(i), lwn_ctx)
Replaced(i) == first /\ choose_new(rec.bound, Block(i), Fbs(i), lwn_ctx)
LastStrict == need < body_sz       \* mutant: off by one
LastOfBlock == need <= BlockSz     \* mutant: the block's head is forgotten
Last == need <= body_sz
Take == IF Last THEN need ELSE body_sz

NotEnoughBlocks ==
  /\ pc = "body"
  /\ ServeNone
  /\ pc' = "thrown"
  /\ UNCHANGED <<out_buffer, lwn_ctx, latest_block, fillVars, delivered>>

\* The block at i holds something better: the record is given up.
GiveUp(i) ==
  /\ pc = "body"
  /\ Serve(i)
  /\ \/ Replaced(i)
     \/ ~ Replaced(i) /\ ~ Last /\ Len(Fbs(i)) > 1
  /\ latest_block' = i
  /\ first' = FALSE
  /\ rec' = NoRec
  /\ need' = 0
  /\ pc' = "idle"
  /\ UNCHANGED <<out_buffer, lwn_ctx, cur, idx, start, delivered>>

InterimRival(i) ==
  /\ pc = "body"
  /\ Serve(i)
  /\ ~ Replaced(i) /\ ~ Last
  /\ Len(Fbs(i)) = 1
  /\ prefer_new(rec.bound, Fbs(i)[1], lwn_ctx)
  /\ first' = FALSE
  /\ pc' = "thrown"
  /\ UNCHANGED <<out_buffer, lwn_ctx, latest_block, cur, idx, start, rec, need,
                 delivered>>

WithSlice(r, i, size) ==
  [r EXCEPT !.raw = Append(@, Slice(i, BLOCK_HEAD, size))]

Continue(i) ==
  /\ pc = "body"
  /\ Serve(i)
  /\ ~ Replaced(i) /\ ~ Last
  /\ Len(Fbs(i)) # 0 =>
       Len(Fbs(i)) = 1 /\ ~ prefer_new(rec.bound, Fbs(i)[1], lwn_ctx)
  /\ rec' = WithSlice(rec, i, Take)
  /\ need' = need - Take
  /\ first' = FALSE
  /\ UNCHANGED <<pc, out_buffer, lwn_ctx, latest_block, cur, idx, start,
                 delivered>>

\* Mutant: the block is looked at again whatever its offset.
CompleteStale(i) ==
  /\ pc = "body"
  /\ Serve(i)
  /\ ~ Replaced(i) /\ Last
  /\ HeadFits(rec.bound)
  /\ out_buffer' = Append(out_buffer, WithSlice(rec, i, Take))
  /\ lwn_ctx' = Water(rec.bound)
  /\ latest_block' = IF Take = body_sz THEN 0 ELSE i
  /\ need' = 0
  /\ first' = FALSE
  /\ rec' = NoRec
  /\ pc' = "idle"
  /\ UNCHANGED <<cur, idx, start, delivered>>

\* Mutant: the block is not looked at again.
CompleteForgets(i) ==
  /\ pc = "body"
  /\ Serve(i)
  /\ ~ Replaced(i) /\ Last
  /\ HeadFits(rec.bound)
  /\ out_buffer' = Append(out_buffer, WithSlice(rec, i, Take))
  /\ lwn_ctx' = Water(rec.bound)
  /\ latest_block' = 0
  /\ need' = 0
  /\ first' = FALSE
  /\ rec' = NoRec
  /\ pc' = "idle"
  /\ UNCHANGED <<cur, idx, start, delivered>>

\* The last slice. The block is looked at again unless the record used it up or
\* its offset was not updated, that is points before the end of the record.
Complete(i) ==
  /\ pc = "body"
  /\ Serve(i)
  /\ ~ Replaced(i) /\ Last
  /\ HeadFits(rec.bound)
  /\ out_buffer' = Append(out_buffer, WithSlice(rec, i, Take))
  /\ lwn_ctx' = Water(rec.bound)
  /\ latest_block' =
       IF Take = body_sz \/ Block(i).offset < rec.bound.next_offset THEN 0 ELSE i
  /\ need' = 0
  /\ first' = FALSE
  /\ rec' = NoRec
  /\ pc' = "idle"
  /\ UNCHANGED <<cur, idx, start, delivered>>

BadCompletion(i) ==
  /\ pc = "body"
  /\ Serve(i)
  /\ ~ Replaced(i) /\ Last
  /\ ~ HeadFits(rec.bound)
  /\ first' = FALSE
  /\ pc' = "thrown"
  /\ UNCHANGED <<out_buffer, lwn_ctx, latest_block, cur, idx, start, rec, need,
                 delivered>>

-----------------------------------------------------------------------------
\* The turns of the loops of fill_Records that read no end of file.
Fill ==
  \/ EnterLatest
  \/ EnterNext
  \/ LeaveBounds
  \/ WholeRecord
  \/ SplitRecord
  \/ \E i \in 1 .. FileSize : GiveUp(i)
  \/ \E i \in 1 .. FileSize : Continue(i)
  \/ \E i \in 1 .. FileSize : Complete(i)

\* The exceptions that leave getNext.
Throw ==
  \/ SourceThrows
  \/ BadWholeRecord
  \/ NotEnoughBlocks
  \/ \E i \in 1 .. FileSize : InterimRival(i)
  \/ \E i \in 1 .. FileSize : BadCompletion(i)

Step == Deliver \/ EndOfFile \/ Fill \/ Throw

Finished == pc \in {"eof", "thrown"}

Terminated == Finished /\ UNCHANGED vars

Next == Step \/ Terminated

\* main calls getNext until it answers nullopt, and nothing else runs.
Spec == Init /\ [][Next]_vars /\ WF_vars(Step)
-----------------------------------------------------------------------------
TypeOK ==
  /\ SourceTypeOK
  /\ pc \in {"idle", "bounds", "body", "eof", "thrown"}
  /\ out_buffer \in Seq(RecordType)
  /\ lwn_ctx \in LwnCtxs \cup {NoLwn}
  /\ latest_block \in 0 .. FileSize
  /\ cur \in 0 .. FileSize
  /\ idx \in Nat \ {0}
  /\ start \in Nat
  /\ rec \in RecordType \cup {NoRec}
  /\ need \in Nat
  /\ first \in BOOLEAN
  /\ delivered \in Seq(RecordType)

Produced == delivered \o out_buffer

\* Slices of r.raw: the first starts at the RBA, every other one at the body of
\* a later block, and all but the last reach the end of their block.
Sliced(r) ==
  LET k == Len(r.raw) IN
    /\ k >= 1
    /\ r.raw[1].blk = r.blk /\ r.raw[1].from = r.offset
    /\ \A j \in 1 .. k : r.raw[j].from >= BLOCK_HEAD
                         /\ r.raw[j].from + r.raw[j].size <= BlockSz
    /\ \A j \in 2 .. k : r.raw[j].from = BLOCK_HEAD
                         /\ r.raw[j - 1].blk < r.raw[j].blk
    /\ \A j \in 1 .. k - 1 : r.raw[j].from + r.raw[j].size = BlockSz

\* Bytes in all slices but the last, which are full, and in the last.
SlicedLen(r) ==
  LET k == Len(r.raw) IN
    IF k = 1 THEN r.raw[1].size
    ELSE (BlockSz - r.offset) + (k - 2) * body_sz + r.raw[k].size

\* RecordSource.cpp:116-170 against RecordBound.cpp:147-166: a record is
\* assembled from exactly as many bytes as its length field says, and the end
\* that Bound_of computed before any of them was read is where they stop.
Assembled(r) ==
  LET k == Len(r.raw)
      stop == r.raw[k].from + r.raw[k].size
  IN /\ Sliced(r)
     /\ SlicedLen(r) = r.bound.len
     /\ IF stop = BlockSz
        THEN r.bound.next_offset = BLOCK_HEAD /\ r.bound.next_blocks = k
        ELSE r.bound.next_offset = stop /\ r.bound.next_blocks = k - 1

AllAssembled == \A k \in 1 .. Len(Produced) : Assembled(Produced[k])

\* The blocks of its slices are numbered one after the other.
Unbroken(r) ==
  \A j \in 1 .. Len(r.raw) : Block(r.raw[j].blk).no = Block(r.blk).no + (j - 1)

\* The record ends before the given place of the log.
EndsBefore(r, blk, offset) ==
  LET z == LastSlice(r) IN
    z.blk < blk \/ (z.blk = blk /\ z.from + z.size <= offset)

\* RecordSource.cpp:108-191: no byte of the log is handed out twice. Records
\* that share a block, records read again from latest_block and records given up
\* half-way included, each one begins behind the end of its predecessor.
NoOverlap ==
  \A j, k \in 1 .. Len(Produced) :
    j < k => EndsBefore(Produced[j], Produced[k].blk, Produced[k].offset)

\* The log-writer note in force when the k-th record of s was produced.
Depends(s, k) == {j \in 1 .. k - 1 : dependBit_on(s[j].bound.info.vld)}
WindowAt(s, k) ==
  IF Depends(s, k) = {} THEN NoLwn
  ELSE LET j == CHOOSE j \in Depends(s, k) : \A i \in Depends(s, k) : i <= j
           info == s[j].bound.info
       IN [low |-> info.low, nxt |-> info.nxt]

\* RecordBound.cpp:15 and 36-41: a void record, which line 15 calls invalid, has
\* none of the flags of MASK; when the next block begins with one record, and
\* that one has such a flag, the void record is given up for it.
VoidYields ==
  \A k \in 1 .. Len(Produced) :
    LET r == Produced[k] IN
      r.bound.info.vld = KCR_void /\ Len(r.raw) > 1 =>
        LET b == Block(r.raw[2].blk)
            fbs == fairBounds(b, WindowAt(Produced, k))
        IN b.offset = BLOCK_HEAD /\ Len(fbs) = 1 =>
             \A flag \in {KCR_valid, KCR_commit, KCR_depend} :
               ~ HasBit(fbs[1].info.vld, flag)

\* RecordSource.h:28-32 and RecordSource.cpp:108-190: each record suits the note
\* carried by the nearest record before it that has one, although a split record
\* is judged when its first block is read and produced several blocks later.
FairInOrder ==
  /\ \A k \in 1 .. Len(Produced) :
       fairBound(Produced[k].bound, WindowAt(Produced, k))
  /\ lwn_ctx = WindowAt(Produced, Len(Produced) + 1)

\* RecordSource.cpp:197-213 with the catch commented out: the records that an
\* exception makes main lose were all read from the one block being parsed.
LossOnThrow ==
  pc = "thrown" => \A k \in 1 .. Len(out_buffer) : out_buffer[k].blk = cur

\* A record being assembled has the bytes it lacks still ahead of it.
Remaining ==
  pc = "body" =>
    /\ rec # NoRec
    /\ Sliced(rec)
    /\ need > 0
    /\ SlicedLen(rec) + need = rec.bound.len
=============================================================================
