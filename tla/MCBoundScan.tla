---------------------------- MODULE MCBoundScan ----------------------------
(***************************************************************************)
(* Blocks for BoundScan: every fourth byte decodes to a header, one kind   *)
(* of header in the first half of the block and another in the second; the *)
(* header offset points anywhere, also outside the block.                  *)
(***************************************************************************)
EXTENDS BoundScan

MCLowScn == 10
MCNxtScn == 20

Offsets == {0, 8, 16, 20, 18, 260, BlockSz - 24, BlockSz - 12, BlockSz - 11,
            BlockSz, 2^15 - 1}

Header(len, vld, scn) == [len |-> len, vld |-> vld, scn |-> scn,
                          low |-> scn, nxt |-> scn]

GoodHeaders == {Header(l, 1, 15) : l \in {24, 28, 64, 236, 248, 496, 500, 1500}}
BadHeaders ==
  {Header(0, 1, 15), Header(26, 1, 15), Header(20, 1, 15),
   Header(MAX_RECORD_LEN + 4, 1, 15), Header(24, 1, 9), Header(24, 1, 21),
   Header(24, 24, 15), Header(24, 64, 15), Header(24, 0, 10)}

Positions == {o \in Readable : o % 4 = 0} \cup {18, 42}

MCBlocks ==
  {[offset |-> o,
    heads |-> [p \in Positions |-> IF p < BlockSz \div 2 THEN h1 ELSE h2]] :
     o \in Offsets, h1 \in GoodHeaders \cup BadHeaders,
     h2 \in GoodHeaders \cup BadHeaders}
=============================================================================
