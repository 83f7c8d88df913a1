----------------------------- MODULE Extractor -----------------------------
(***************************************************************************)
(* shows() of src/main.cpp: the loop that takes the records of one log     *)
(* from the record source, reports missing blocks and judges at the end    *)
(* whether the log was read to its next available block (nab).             *)
(*                                                                         *)
(* Showing a record prints it; what is printed is left out, that it was    *)
(* shown is kept. A log has one more field here, nab.                      *)
(***************************************************************************)
EXTENDS RecordSource

CONSTANTS
  ShowLimit,      \* 1000
  NoNab           \* 0xffffffff: the log is still being written

ASSUME ShowLimitAssumption == ShowLimit \in Nat
ASSUME NabAssumption == \A l \in Logs : l.nab \in Nat

VARIABLES
  only1000,    \* the program runs with --s
  last,        \* end_block of the record shown last, -1 at first
  shown,       \* the records shown; nr is their number
  missing,     \* the ranges of block numbers reported missing
  verdict      \* "none" before the end, then what is printed: "true" or "false"

loopVars == <<only1000, last, shown, missing, verdict>>
extractorVars == <<vars, loopVars>>

ExtractorInit ==
  /\ Init
  /\ only1000 \in BOOLEAN
  /\ last = -1
  /\ shown = << >>
  /\ missing = << >>
  /\ verdict = "none"

BlockNo(r) == Block(r.blk).no
EndBlockFirst(r) == BlockNo(r)      \* mutant: of several blocks, the first
EndBlock(r) == BlockNo(r) + r.bound.next_blocks

Looping == verdict = "none"
LimitReached == only1000 /\ Len(shown) > ShowLimit

\* Mutant: a log read beyond nab counts as complete.
VerdictBeyond ==
  verdict' = IF log.nab = NoNab \/ last >= log.nab - 1 THEN "true" ELSE "false"

\* Mutant: nab is taken for the last block.
VerdictAtNab ==
  verdict' = IF log.nab = NoNab \/ last = log.nab THEN "true" ELSE "false"

\* What the program prints when the loop is left.
Verdict ==
  verdict' = IF log.nab = NoNab \/ last = log.nab - 1 THEN "true" ELSE "false"

\* Mutant: the first record is compared with no record, the range starts early.
ShowRecordFirst ==
  /\ Looping
  /\ ~ LimitReached
  /\ Deliver
  /\ LET r == out_buffer[1] IN
       /\ missing' = IF BlockNo(r) > last + 1
                     THEN Append(missing, [from |-> last, to |-> BlockNo(r) - 1])
                     ELSE missing
       /\ last' = EndBlock(r)
       /\ shown' = Append(shown, r)
  /\ UNCHANGED <<only1000, verdict>>

\* Mutant: the next block counts as a gap.
ShowRecordTight ==
  /\ Looping
  /\ ~ LimitReached
  /\ Deliver
  /\ LET r == out_buffer[1] IN
       /\ missing' = IF last # -1 /\ BlockNo(r) > last
                     THEN Append(missing, [from |-> last + 1,
                                           to |-> BlockNo(r) - 1])
                     ELSE missing
       /\ last' = EndBlock(r)
       /\ shown' = Append(shown, r)
  /\ UNCHANGED <<only1000, verdict>>

ShowRecord ==
  /\ Looping
  /\ ~ LimitReached
  /\ Deliver
  /\ LET r == out_buffer[1] IN
       /\ missing' = IF last # -1 /\ BlockNo(r) > last + 1
                     THEN Append(missing, [from |-> last + 1,
                                           to |-> BlockNo(r) - 1])
                     ELSE missing
       /\ last' = EndBlock(r)
       /\ shown' = Append(shown, r)
  /\ UNCHANGED <<only1000, verdict>>

\* The record fetched last is dropped: its successor is not even looked for.
Break ==
  /\ Looping
  /\ LimitReached
  /\ Deliver
  /\ Verdict
  /\ UNCHANGED <<only1000, last, shown, missing>>

NoMoreRecords ==
  /\ Looping
  /\ EndOfFile
  /\ Verdict
  /\ UNCHANGED <<only1000, last, shown, missing>>

Fetch == Looping /\ (Fill \/ Throw) /\ UNCHANGED loopVars

ExtractorStep == ShowRecord \/ Break \/ NoMoreRecords \/ Fetch

Exited ==
  /\ ~ Looping \/ pc = "thrown"
  /\ UNCHANGED extractorVars

ExtractorNext == ExtractorStep \/ Exited

ExtractorSpec ==
  ExtractorInit /\ [][ExtractorNext]_extractorVars /\ WF_extractorVars(ExtractorStep)
-----------------------------------------------------------------------------
ExtractorTypeOK ==
  /\ only1000 \in BOOLEAN
  /\ last \in Int
  /\ shown \in Seq(RecordType)
  /\ missing \in Seq([from : Nat, to : Nat])
  /\ verdict \in {"none", "true", "false"}

Reported == UNION {missing[k].from .. missing[k].to : k \in 1 .. Len(missing)}

FillsItsBlock(r) == LastSlice(r).from + LastSlice(r).size = BlockSz

\* The last block number a record holds on to: its own last block or, when it
\* fills that block to the end, the one behind.
Hold(r) == Block(LastSlice(r).blk).no + (IF FillsItsBlock(r) THEN 1 ELSE 0)

\* main.cpp:47-58 against RecordSource.cpp:116-190: the block numbers reported
\* missing are exactly those passed over between two records, as their slices
\* tell it. Of records reaching across a gap (own blocks between foreign ones,
\* dropped with their chunk) nothing is said: the loop counts blocks, not gaps.
ReportsSkipped ==
  (\A k \in 1 .. Len(shown) : Unbroken(shown[k])) =>
    Reported = UNION {Hold(shown[k]) + 1 .. BlockNo(shown[k + 1]) - 1 :
                        k \in 1 .. Len(shown) - 1}

\* main.cpp:44 and 62-66: "true" is printed only when the last record shown ends
\* in the last block before nab, or fills the block before that one. Of a log
\* without a record it is printed when nab is 0: last is then -1, and so is
\* nab - 1.
VerdictSound ==
  verdict = "true" /\ log.nab # NoNab =>
    IF shown = << >> THEN log.nab = 0
    ELSE LET r == shown[Len(shown)]
             behind == log.nab - Block(LastSlice(r).blk).no
         IN Unbroken(r) => behind = 1 \/ (behind = 2 /\ FillsItsBlock(r))

\* main.cpp:49-55: on a whole log nothing is ever reported missing.
NoFalseAlarm == missing = << >>

\* main.cpp:65: a whole log read to its end is called complete unless its last
\* record fills the last block.
VerdictOnWhole ==
  pc = "eof" /\ log.nab # NoNab =>
    (verdict = "true" <=> ~ FillsItsBlock(shown[Len(shown)]))

\* main.cpp:47, "check missing block in records": a block of the log that is not
\* in the file, and lies between two records shown, is reported.
MissingReported ==
  \A m \in 2 .. log.nab - 1 :
    /\ \A i \in 1 .. FileSize : Block(i).no # m
    /\ \E j, k \in 1 .. Len(shown) : BlockNo(shown[j]) < m /\ m < BlockNo(shown[k])
    => m \in Reported

-----------------------------------------------------------------------------
(* What is promised of a log that is whole: written lists its records in    *)
(* their order.                                                             *)

Place(r) == [blk |-> r.blk, offset |-> r.offset, bound |-> r.bound]

\* With --s the loop is left behind one record more than the limit.
Wanted ==
  IF only1000 /\ Len(log.written) > ShowLimit
  THEN SubSeq(log.written, 1, ShowLimit + 1)
  ELSE log.written

Reader == INSTANCE LogReader WITH
            written <- Wanted,
            out <- [k \in 1 .. Len(shown) |-> Place(shown[k])],
            ended <- verdict # "none"

\* RecordSource.cpp:98-213 and main.cpp:42-60 on a log that is whole: every record
\* written is shown, once, in order, and then comes the verdict; with --s those up
\* to the limit. Whatever the records' sizes, the chunk size, the stale block
\* offsets and the blocks of an earlier log behind the last one.
ImplementsLogReader == Reader!Spec
=============================================================================
