--------------------------- MODULE MCRecordSource ---------------------------
(***************************************************************************)
(* Log files for RecordSource: every file of up to MaxBlocks blocks, each  *)
(* of them one of a few shapes that between them hold whole records, split *)
(* records, records that end with the block, rivals at the start of a body *)
(* and offsets that point at nothing.                                      *)
(***************************************************************************)
EXTENDS RecordSource

CONSTANT MaxBlocks

MCLowScn == 10
MCNxtScn == 9000
MCLsn == 7

Info(len, vld, scn, low, nxt) ==
  [len |-> len, vld |-> vld, scn |-> scn, low |-> low, nxt |-> nxt]
Plain(len, scn) == Info(len, KCR_valid, scn, 0, 0)
Note(len, low, nxt) == Info(len, KCR_valid + KCR_depend, low, low, nxt)

Shape(lsn, offset, heads) ==
  set_bounds([lsn |-> lsn, no |-> 2, offset |-> offset, heads |-> heads,
              bounds |-> << >>])

At(o, h) == [x \in {o} |-> h]
At2(o, h, p, k) == [x \in {o, p} |-> IF x = o THEN h ELSE k]

Shapes ==
  << Shape(MCLsn, 0, << >>),
    Shape(3, 16, At(16, Plain(24, 100))),
    Shape(MCLsn, 16, At2(16, Plain(24, 100), 40, Plain(24, 90))),
    Shape(MCLsn, 16, At2(16, Plain(24, 100), 40, Plain(28, 200))),
    Shape(MCLsn, 16, At(16, Plain(1492, 100))),
    Shape(MCLsn, 16, At(16, Note(520, 100, 200))),
    Shape(MCLsn, 20, At(20, Plain(24, 2300))),
    Shape(MCLsn, 40, At(40, Note(1464, 90, 250))),
    Shape(MCLsn, 40, At(40, Info(968, KCR_commit, 100, 0, 0))),
    Shape(MCLsn, 40, At(40, Info(24, KCR_depend, 120, 100, 110))),
    Shape(MCLsn, 16, At(16, Info(496, KCR_void, 95, 0, 0))),
    Shape(MCLsn, 16, At(16, Info(508, KCR_depend, 100, 100, 110))) >>

LONG == 5      \* the shape that begins a record of four blocks

LogFile(f, tail) ==
  [blocks |-> [i \in DOMAIN f |-> [f[i] EXCEPT !.no = i + 1]], tail |-> tail]

\* A void record that is split, and a rival at the start of the next body.
MCRivalLogs ==
  {LogFile(<<Shape(MCLsn, 40, At(40, Info(968, KCR_void, 100, 0, 0))),
          Shape(MCLsn, 16, At(16, Info(24, v, 100, 100, 110)))>>, FALSE) :
     v \in {KCR_valid, KCR_commit, KCR_oldMark}}
=============================================================================
