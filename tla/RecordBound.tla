---------------------------- MODULE RecordBound ----------------------------
(***************************************************************************)
(* The record boundaries of one redo block: src/blocks/RecordBound.{h,cpp} *)
(* and the choice between two boundaries of src/records/RecordSource.cpp.  *)
(*                                                                         *)
(* A block is abstracted to what these functions read of it:               *)
(*   lsn, no, offset   its header (layout_BlockHead.h);                    *)
(*   heads             offset -> the record header found when the bytes at *)
(*                     that offset are decoded, whatever they really are;  *)
(*                     elsewhere the length field decodes to zero;         *)
(*   bounds            what set_bounds stored in it (Block.h).             *)
(* A record header is [len, vld, scn, low, nxt]: low and nxt are the SCNs  *)
(* of the log-writer-note extension, read only when the depend bit is set. *)
(* An SCN is its 64-bit value (scn_to64).                                  *)
(***************************************************************************)
EXTENDS Integers, Sequences

CONSTANTS
  BlockSz,     \* bytes of a block (FileHead.block_sz: 512, 1024 or 4096)
  LowScn,      \* RedoHead.writeInfo.low_scn
  NxtScn,      \* RedoHead.writeInfo.next_scn
  NoLwn        \* the empty std::optional<LwnCtx>

BLOCK_HEAD == 16
MIN_RECORD == 24
MAX_RECORD_LEN == 16 * 1024 * 1024
BOUND_LIMIT_16 == 16        \* mutant: a smaller limit
BOUND_LIMIT == 32          \* "limit < 32" of bound_candidates
PEEK == 12                 \* bytes of a record header that must not be split
LWN_SLACK == 2048          \* how far a record may exceed its LWN's next SCN

ASSUME BlockSzAssumption ==
  BlockSz \in Nat /\ BlockSz >= BLOCK_HEAD + MIN_RECORD /\ BlockSz < 2^16
ASSUME ScnAssumption == LowScn \in Nat /\ NxtScn \in Nat

body_sz == BlockSz - BLOCK_HEAD

-----------------------------------------------------------------------------
(* Validity flags: a byte, its bits tested with HasBit.                     *)

KCR_void == 0
KCR_valid == 1
KCR_commit == 2
KCR_depend == 4
KCR_newMark == 8
KCR_oldMark == 16

HasBit(v, bit) == (v \div bit) % 2 = 1

dependBit_on(v) == HasBit(v, KCR_depend)

bad_vld(v) ==
  /\ v # KCR_void
  /\ \/ v % 32 = 0
     \/ HasBit(v, KCR_newMark) /\ HasBit(v, KCR_oldMark)

\* "vld & MASK != 0" groups as "vld & (MASK != 0)", that is "vld & 1".
has_mask(v) == HasBit(v, KCR_valid)

\* The optional<bool> of the code: "none" lets the SCNs decide, "new" is true.
choose_new_vld(vld0, vld1) ==
  CASE vld0 = vld1 -> "none"
    [] vld0 # vld1 /\ vld1 = KCR_valid -> "new"
    [] vld0 # vld1 /\ vld0 = KCR_valid -> "old"
    [] OTHER ->
         IF has_mask(vld0) # has_mask(vld1)
         THEN IF has_mask(vld1) THEN "new" ELSE "old"
         ELSE IF vld0 > vld1 THEN "new" ELSE "old"

-----------------------------------------------------------------------------
(* Reading one boundary.                                                    *)

Heads == [len : Nat, vld : 0..255, scn : Nat, low : Nat, nxt : Nat]
LwnCtxs == [low : Nat, nxt : Nat]

ASSUME NoLwnAssumption == NoLwn \notin LwnCtxs

Bounds == [len : Nat, next_blocks : Nat, next_offset : Nat, info : Heads]

\* The offsets at which the twelve leading header bytes lie inside the block.
Readable == BLOCK_HEAD .. BlockSz - PEEK

\* read_BoundInfo0 answers the header at this offset (otherwise: nothing).
is_bound(b, offset) ==
  /\ offset \in Readable \cap DOMAIN b.heads
  /\ LET h == b.heads[offset] IN
       /\ h.len % 4 = 0
       /\ h.len >= MIN_RECORD
       /\ h.len <= MAX_RECORD_LEN
       /\ LowScn <= h.scn /\ h.scn <= NxtScn
       /\ ~ bad_vld(h.vld)

\* Mutant: the partial block is not counted.
Bound_of_no_partial(info, offset) ==
  LET needs == info.len - (BlockSz - offset)
  IN [ len |-> info.len,
       info |-> info,
       next_blocks |-> IF needs = 0 THEN 1 ELSE needs \div body_sz,
       next_offset |-> IF needs < 0 THEN offset + info.len
                       ELSE BLOCK_HEAD + (needs % body_sz) ]

\* Mutant: the end is counted from the start of the block.
Bound_of_from_zero(info, offset) ==
  LET needs == info.len - (BlockSz - offset)
  IN [ len |-> info.len,
       info |-> info,
       next_blocks |-> IF needs < 0 THEN 0 ELSE (needs \div body_sz) + 1,
       next_offset |-> IF needs < 0 THEN info.len
                       ELSE BLOCK_HEAD + (needs % body_sz) ]

\* Where a record that starts at offset ends: next_blocks blocks further, its
\* successor at next_offset. A record that exactly fills a block ends at the
\* start of the next block's body.
Bound_of(info, offset) ==
  LET room0 == BlockSz - offset
      needs == info.len - room0
  IN [ len |-> info.len,
       info |-> info,
       next_blocks |->
         CASE needs < 0 -> 0
           [] needs = 0 -> 1
           [] OTHER -> (needs \div body_sz) + 1,
       next_offset |->
         CASE needs < 0 -> offset + info.len
           [] needs = 0 -> BLOCK_HEAD
           [] OTHER -> BLOCK_HEAD + (needs % body_sz) ]

\* bound_candidates: follow next_offset from the block's offset until a header
\* is not a bound, a record leaves the block, or the limit is reached.
bound_candidates(b) ==
  LET scan[n \in 0 .. BOUND_LIMIT] ==
        IF n = 0 THEN << >>
        ELSE LET s == scan[n - 1]
                 offset == IF s = << >> THEN b.offset ELSE s[Len(s)].next_offset
             IN IF /\ Len(s) = n - 1
                   /\ s = << >> \/ s[Len(s)].next_blocks = 0
                   /\ is_bound(b, offset)
                THEN Append(s, Bound_of(b.heads[offset], offset))
                ELSE s
  IN scan[BOUND_LIMIT]

\* The offset at which the i-th boundary of a block is read.
BoundStart(b, s, i) == IF i = 1 THEN b.offset ELSE s[i - 1].next_offset

\* What bound_candidates promises its callers about the list it returns.
IsBoundChain(b, s) ==
  /\ s \in Seq(Bounds)
  /\ Len(s) <= BOUND_LIMIT
  /\ \A i \in 1 .. Len(s) :
       /\ is_bound(b, BoundStart(b, s, i))
       /\ s[i] = Bound_of(b.heads[BoundStart(b, s, i)], BoundStart(b, s, i))
       /\ i < Len(s) => s[i].next_blocks = 0

\* Block::set_bounds, called by drain on every block it decodes.
set_bounds(b) == [b EXCEPT !.bounds = bound_candidates(b)]

-----------------------------------------------------------------------------
(* Judging a boundary against the current log-writer note.                  *)

fairBound(bound, lwn) ==
  lwn # NoLwn =>
    /\ bound.info.scn >= lwn.low
    /\ dependBit_on(bound.info.vld) \/ bound.info.scn - lwn.nxt < LWN_SLACK

\* The bounds of a block that suit the note, in their order.
fairBounds(b, lwn) ==
  LET fair[n \in 0 .. Len(b.bounds)] ==
        IF n = 0 THEN << >>
        ELSE IF fairBound(b.bounds[n], lwn) THEN Append(fair[n - 1], b.bounds[n])
        ELSE fair[n - 1]
  IN fair[Len(b.bounds)]

\* prefer_new: does the record that starts in the next block (b1) replace the
\* one being assembled (b0)?
prefer_new(b0, b1, lwn) ==
  LET choice == choose_new_vld(b0.info.vld, b1.info.vld)
      s0 == b0.info.scn
      s1 == b1.info.scn
  IN CASE choice # "none" -> choice = "new"
       [] choice = "none" /\ lwn = NoLwn -> s0 < s1
       [] OTHER ->
            CASE s0 = s1 -> b0.len > b1.len
              [] lwn.nxt > s0 /\ lwn.nxt > s1 -> s1 >= s0
              [] OTHER -> s1 <= s0

\* choose_new, asked once, of the first continuation block: only a block whose
\* offset is the very start of its body can hold a rival record.
choose_new(b0, b, fbs, lwn) ==
  /\ b.offset # 0
  /\ b.offset <= BLOCK_HEAD
  /\ Len(fbs) # 0
  /\ Len(fbs) = 1 => prefer_new(b0, fbs[1], lwn)
=============================================================================
