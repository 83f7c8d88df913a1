--------------------------- MODULE Program_proofs ---------------------------
(***************************************************************************)
(* The whole program, for every command line and every set of files: what  *)
(* is proved of one record source holds of each file listed, whatever was  *)
(* listed before it and however its listing ended.                         *)
(***************************************************************************)
EXTENDS Program, RecordSource_proofs, WellFoundedInduction

-----------------------------------------------------------------------------
(* The heads                                                                *)

\* layout_RedoHead.h:166: the sections of the redo head follow one another, and
\* the payload of the smallest legal block holds them all.
RedoHeadInside ==
  \A b \in LegalBlockSizes, pad \in BOOLEAN :
    LET head == RedoHeadReads(pad) IN
      /\ head.source.end <= head.write.at /\ head.write.end <= head.thread.at
      /\ head.thread.end <= head.state.at /\ head.state.end <= head.key.at
      /\ head.key.end <= b - BLOCK_HEAD

\* layout_RedoHead.h:166, "don't need check size": decode_redo_head reads no
\* byte behind the second head block, whatever block size was accepted.
THEOREM RedoHeadInsideHolds == RedoHeadInside
  BY DEF RedoHeadInside, LegalBlockSizes, RedoHeadReads, BLOCK_HEAD

-----------------------------------------------------------------------------
(* The inductive invariant                                                  *)

\* The record source has not been asked yet: under --ob it never is, while the
\* block source comes to its end.
Unasked ==
  /\ pc = "idle"
  /\ out_buffer = << >> /\ delivered = << >>
  /\ lwn_ctx = NoLwn /\ latest_block = 0
  /\ cur = 0 /\ idx = 1 /\ start = 0
  /\ rec = NoRec /\ need = 0 /\ first = FALSE

\* It is asked for records.
Asked == IInv /\ ReadInv

\* What is proved of the sources of one log.
Sources ==
  /\ SourceInv /\ LossInv /\ OfferInv /\ FairInv /\ AdjacentInv
  /\ Asked \/ Unasked

PInv ==
  /\ session \in Sessions
  /\ Sources
  /\ phase = "records" => Asked
  /\ phase = "blocks" => Unasked

LEMMA InitSources == Init => Sources /\ Asked /\ Unasked
  <1>1. Init => Unasked
    BY DEF Init, Unasked
  <1>2. Init => SourceInv /\ LossInv /\ OfferInv
    BY InitSourceInv, InitLossInv, InitOfferInv DEF Init
  <1> QED
    BY <1>1, <1>2, InitIInv, InitFairInv, InitAdjacent, InitRead DEF Sources, Asked

LEMMA InitPInv == ProgramInit => PInv
  <1> SUFFICES ASSUME ProgramInit PROVE PInv
    OBVIOUS
  <1>1. Init /\ session \in Sessions /\ phase = "start"
    BY DEF ProgramInit
  <1> QED
    BY <1>1, InitSources DEF PInv

-----------------------------------------------------------------------------
(* The steps                                                                *)

LEMMA InitSourcesNext == Init' => Sources' /\ Asked' /\ Unasked'
  BY InitSources, PTL

LEMMA UnaskedAdjacent == Unasked => AdjacentInv
  <1> SUFFICES ASSUME Unasked PROVE AdjacentInv
    OBVIOUS
  <1>1. pc = "idle" /\ latest_block = 0 /\ Len(Produced) = 0
    BY DEF Unasked, Produced
  <1> QED
    BY <1>1 DEF AdjacentInv, AllInFile, AllUnbroken

LEMMA UnaskedAdjacentNext == Unasked' => AdjacentInv'
  BY UnaskedAdjacent, PTL

LEMMA UnaskedStutter == Unasked /\ UNCHANGED recordVars => Unasked'
  BY DEF Unasked, recordVars, fillVars

LEMMA FileLog ==
  ASSUME session \in Sessions, NEW name, Opens(File(name))
  PROVE  File(name).log \in Logs
  <1>1. File(name) # NoFile
    BY DEF Opens
  <1>2. name \in DOMAIN session.disk /\ File(name) = session.disk[name]
    BY <1>1 DEF File
  <1> QED
    BY <1>1, <1>2, DisksAssumption

\* Whatever the file listed before has left behind, the sources start anew.
LEMMA OpenStep == PInv /\ OpenFile => PInv'
  <1> SUFFICES ASSUME PInv, OpenFile PROVE PInv'
    OBVIOUS
  <1>1. /\ FreshSource(File(argv[arg]).log) /\ FreshRecords /\ lwn_ctx' = NoLwn
        /\ session \in Sessions /\ session' = session
        /\ File(argv[arg]).log \in Logs
    BY FileLog DEF OpenFile, PInv
  <1>2. chunk' \in ChunkSizes
    BY <1>1, ReadBlocksAssumption DEF FreshSource
  <1>3. SourceInit'
    BY <1>1, <1>2 DEF FreshSource, SourceInit
  <1>4. Init'
    BY <1>1, <1>3 DEF FreshRecords, Init
  <1> QED
    BY <1>1, <1>4, InitSourcesNext DEF PInv

LEMMA ListBlocksStep == PInv /\ ListBlocks => PInv'
  <1> SUFFICES ASSUME PInv, ListBlocks PROVE PInv'
    OBVIOUS
  <1>1. /\ phase = "blocks" /\ phase' = "blocks" /\ session' = session
        /\ TakeBlock \/ TakeNone \/ TakeThrow
        /\ UNCHANGED recordVars
    BY DEF ListBlocks, mainVars
  <1>2. SourceInv'
    BY <1>1, ServeStep, EndStep
    DEF PInv, Sources, TakeBlock, TakeNone, TakeThrow, Running
  <1>3. LossInv' /\ OfferInv'
    BY <1>1, LossMove, OfferMove DEF PInv, Sources, SourceNext
  <1>4. Unasked'
    BY <1>1, UnaskedStutter DEF PInv
  <1>5. FairInv' /\ AdjacentInv'
    BY <1>1, <1>4, FairStutter, UnaskedAdjacentNext DEF PInv, Sources
  <1> QED
    BY <1>1, <1>2, <1>3, <1>4, <1>5 DEF PInv, Sources

LEMMA SourcesStep == Sources /\ Asked /\ Step => Sources' /\ Asked'
  <1> SUFFICES ASSUME Sources, Asked, Step PROVE Sources' /\ Asked'
    OBVIOUS
  <1>1. /\ IInv /\ SourceInv /\ LossInv /\ OfferInv
        /\ FairInv /\ AdjacentInv /\ ReadInv
    BY DEF Sources, Asked
  <1>2. IInv' /\ SourceInv'
    BY <1>1, StepKeeps DEF IInv
  <1>3. LossInv' /\ OfferInv'
    BY <1>1, SourceMoves, LossMove, OfferMove DEF Next
  <1>4. FairInv' /\ AdjacentInv' /\ ReadInv'
    BY <1>1, FairStep, AdjacentStep, ReadStep
  <1> QED
    BY <1>2, <1>3, <1>4 DEF Sources, Asked

LEMMA SourcesStutter == Sources /\ UNCHANGED vars => Sources' /\ (Asked => Asked')
  <1> SUFFICES ASSUME Sources, UNCHANGED vars PROVE Sources' /\ (Asked => Asked')
    OBVIOUS
  <1>1. UNCHANGED <<sourceVars, recordVars>>
    BY DEF vars
  <1>2. SourceInv' /\ LossInv' /\ OfferInv' /\ FairInv'
    BY <1>1, SourceStutter, LossMove, OfferMove, FairStutter DEF Sources
  <1>3. Unasked => Unasked'
    BY <1>1, UnaskedStutter
  <1>4. Asked => Asked' /\ AdjacentInv'
    BY StutterKeeps, AdjacentStutter, ReadStutter DEF Sources, Asked
  <1> QED
    BY <1>2, <1>3, <1>4, UnaskedAdjacentNext DEF Sources

\* Each turn of the loop in shows is a step of the record source.
LEMMA LoopStep == ExtractorStep => Step
  BY DEF ExtractorStep, ShowRecord, Break, NoMoreRecords, Fetch, Step

LEMMA ListRecordsStep == PInv /\ ListRecords => PInv'
  <1> SUFFICES ASSUME PInv, ListRecords PROVE PInv'
    OBVIOUS
  <1>1. /\ phase = "records" /\ phase' = "records" /\ session' = session
        /\ ExtractorStep
    BY DEF ListRecords, mainVars
  <1>2. Sources' /\ Asked'
    BY <1>1, LoopStep, SourcesStep DEF PInv
  <1> QED
    BY <1>1, <1>2 DEF PInv

\* The steps of main that touch no file.
LEMMA MainStep ==
  ASSUME PInv, UNCHANGED <<vars, session>>, phase' \in {phase, "start", "args", "exit",
                                                       "usage", "aborted"}
  PROVE  PInv'
  <1>1. UNCHANGED <<sourceVars, recordVars>>
    BY DEF vars
  <1> QED
    BY <1>1, SourcesStutter, UnaskedStutter DEF PInv

\* The steps of main that open no file and list nothing.
Between ==
  Usage \/ ParseOptions \/ SkipOption \/ OpenThrows \/ Exit \/ Return \/ Abort

LEMMA BetweenSteps ==
  ASSUME Between
  PROVE  /\ UNCHANGED <<vars, session>>
         /\ phase' \in {phase, "args", "exit", "usage", "aborted"}
  BY DEF Between, Usage, ParseOptions, SkipOption, OpenThrows, Exit, Return, Abort,
         extractorVars

LEMMA ProgramInvariance == ProgramSpec => []PInv
  <1>1. PInv /\ [ProgramNext]_programVars => PInv'
    <2> SUFFICES ASSUME PInv, [ProgramNext]_programVars PROVE PInv'
      OBVIOUS
    <2>1. CASE OpenFile
      BY <2>1, OpenStep
    <2>2. CASE ListBlocks
      BY <2>2, ListBlocksStep
    <2>3. CASE ListRecords
      BY <2>3, ListRecordsStep
    <2>4. CASE Between
      BY <2>4, BetweenSteps, MainStep
    <2>5. CASE UNCHANGED programVars
      BY <2>5, MainStep DEF programVars, mainVars, extractorVars
    <2> QED
      BY <2>1, <2>2, <2>3, <2>4, <2>5 DEF ProgramNext, ProgramStep, Between
  <1> QED
    BY InitPInv, <1>1, PTL DEF ProgramSpec

-----------------------------------------------------------------------------
\* RecordSource.cpp:108-191 and main.cpp:110: in every file of the command line
\* each record has the bytes its length field says, and no byte is in two
\* records of a file.
THEOREM EveryFileAssembled == ProgramSpec => [](AllAssembled /\ NoOverlap)
  <1>1. Asked => AllAssembled /\ NoOverlap
    BY DEF Asked, IInv, Sound, AssembledIn, DisjointIn, AllAssembled, NoOverlap
  <1>2. Unasked => AllAssembled /\ NoOverlap
    <2> SUFFICES ASSUME Unasked PROVE Len(Produced) = 0
      BY DEF AllAssembled, NoOverlap
    <2> QED
      BY DEF Unasked, Produced
  <1> QED
    BY <1>1, <1>2, ProgramInvariance, PTL DEF PInv, Sources

\* RecordSource.cpp:136-213: in every file a record being assembled lacks what it
\* has not got, and an exception loses records of one block only.
THEOREM EveryFileKept == ProgramSpec => [](LossOnThrow /\ Remaining)
  <1>1. Asked => LossOnThrow /\ Remaining
    BY NoRecAssumption DEF Asked, IInv, OneBlock, LossOnThrow, InBody, Begun, Remaining
  <1>2. Unasked => LossOnThrow /\ Remaining
    BY DEF Unasked, LossOnThrow, Remaining
  <1> QED
    BY <1>1, <1>2, ProgramInvariance, PTL DEF PInv, Sources

\* RecordSource.cpp:108-190 and main.cpp:110: in every file each record suits the
\* nearest log-writer note before it in the same file, and none in another one.
THEOREM EveryFileFair == ProgramSpec => []FairInOrder
  <1>1. PInv => FairInOrder
    BY DEF PInv, Sources, FairInv, JudgedIn, FairInOrder
  <1> QED
    BY <1>1, ProgramInvariance, PTL

\* BlockSource.cpp:95-119 and main.cpp:110: of every file, listed by blocks or by
\* records, a block of the log that is not served stands behind a foreign one of
\* its chunk or behind a chunk that begins with one, or shares its chunk with the
\* partial block drain threw at.
THEOREM EveryFileLoss == ProgramSpec => []LossExplained
  <1>1. PInv => LossExplained
    BY LossReasons DEF PInv, Sources
  <1> QED
    BY <1>1, ProgramInvariance, PTL

\* RecordSource.cpp:131-172 and main.cpp:110: in every file numbered without a gap
\* the slices of a record lie in blocks numbered one after the other.
THEOREM EveryFileUnbroken == ProgramSpec => [](Tidy => AllUnbroken)
  <1>1. PInv => (Tidy => AllUnbroken)
    BY DEF PInv, Sources, AdjacentInv
  <1> QED
    BY <1>1, ProgramInvariance, PTL

-----------------------------------------------------------------------------
(* The loop in shows                                                        *)

\* The block numbers the loop passes over, as it counts them.
Passed(s) ==
  UNION {EndBlock(s[k]) + 1 .. BlockNo(s[k + 1]) - 1 : k \in 1 .. Len(s) - 1}

\* What is shown was handed out, in the same order; the one record fetched and
\* not shown is the one the loop breaks at.
ShowInv ==
  /\ ExtractorTypeOK
  /\ Len(shown) <= Len(delivered)
  /\ \A k \in 1 .. Len(shown) : shown[k] = delivered[k]
  /\ verdict = "none" => shown = delivered
  /\ last = IF shown = << >> THEN -1 ELSE EndBlock(shown[Len(shown)])
  /\ Reported = Passed(shown)
  /\ \A k \in 1 .. Len(missing) : missing[k].from <= missing[k].to
  /\ verdict = "true" => log.nab = NoNab \/ last = log.nab - 1
  /\ pc = "eof" => /\ shown = delivered /\ out_buffer = << >>
                   /\ verdict = "true" <=> log.nab = NoNab \/ last = log.nab - 1

\* The records handed out lie in the file.
Known ==
  /\ delivered \in Seq(RecordType)
  /\ \A k \in 1 .. Len(delivered) :
       BlockNo(delivered[k]) \in Nat /\ EndBlock(delivered[k]) \in Nat

LEMMA AllKnown == Sources => Known
  <1> SUFFICES ASSUME Sources PROVE Known
    OBVIOUS
  <1>1. /\ delivered \in Seq(RecordType) /\ out_buffer \in Seq(RecordType)
        /\ log \in Logs
    <2>1. log \in Logs
      BY DEF Sources, SourceInv
    <2>2. CASE Asked
      BY <2>1, <2>2 DEF Asked, IInv, TypeOK
    <2>3. CASE Unasked
      <3>1. << >> \in Seq(RecordType)
        OBVIOUS
      <3> QED
        BY <2>1, <2>3, <3>1 DEF Unasked
    <2> QED
      BY <2>2, <2>3 DEF Sources
  <1>2. ASSUME NEW k \in 1 .. Len(delivered)
        PROVE  BlockNo(delivered[k]) \in Nat /\ EndBlock(delivered[k]) \in Nat
    <2>1. Produced[k] = delivered[k] /\ k \in 1 .. Len(Produced)
      BY <1>1 DEF Produced
    <2>2. delivered[k].blk \in 1 .. FileSize
      BY <2>1 DEF Sources, AdjacentInv, AllInFile
    <2>3. Block(delivered[k].blk).no \in Nat
      BY <1>1, <2>2, LogsAssumption DEF FileSize, Block
    <2>4. delivered[k].bound.next_blocks \in Nat
      <3>1. delivered[k] \in RecordType
        BY <1>1, ElementOfSeq
      <3> QED
        BY <3>1 DEF RecordType, Bounds
    <2> QED
      BY <2>3, <2>4 DEF BlockNo, EndBlock
  <1> QED
    BY <1>1, <1>2 DEF Known

LEMMA AllKnownNext == Sources' => Known'
  BY AllKnown, PTL

\* One more range.
LEMMA ReportedGrows ==
  ASSUME missing \in Seq([from : Nat, to : Nat]), NEW a \in Nat, NEW b \in Nat,
         missing' = Append(missing, [from |-> a, to |-> b])
  PROVE  Reported' = Reported \cup (a .. b)
  <1>1. /\ Len(missing) \in Nat /\ Len(missing') = Len(missing) + 1
        /\ missing'[Len(missing) + 1] = [from |-> a, to |-> b]
        /\ \A k \in 1 .. Len(missing) : missing'[k] = missing[k]
    OBVIOUS
  <1>2. \A k : k \in 1 .. Len(missing') <=> k \in 1 .. Len(missing) \/ k = Len(missing) + 1
    BY <1>1
  <1>3. \A x : x \in Reported' <=>
               \E k \in 1 .. Len(missing') : x \in missing'[k].from .. missing'[k].to
    BY DEF Reported
  <1>4. \A x : x \in Reported <=>
               \E k \in 1 .. Len(missing) : x \in missing[k].from .. missing[k].to
    BY DEF Reported
  <1>5. missing'[Len(missing) + 1].from = a /\ missing'[Len(missing) + 1].to = b
    BY <1>1
  <1>6. \A x : x \in Reported' <=> x \in Reported \/ x \in a .. b
    BY <1>1, <1>2, <1>3, <1>4, <1>5, Zenon
  <1> QED
    BY <1>6

\* One more record.
LEMMA PassedGrows ==
  ASSUME NEW s \in Seq(RecordType), s # << >>, NEW r
  PROVE  Passed(Append(s, r)) =
           Passed(s) \cup (EndBlock(s[Len(s)]) + 1 .. BlockNo(r) - 1)
  <1> DEFINE n == Len(s)
             t == Append(s, r)
  <1>1. n \in Nat \ {0}
    BY EmptySeq, Zenon
  <1>2. /\ Len(t) - 1 = n /\ t[n + 1] = r /\ \A k \in 1 .. n : t[k] = s[k]
    BY <1>1
  <1> HIDE DEF t
  <1>3. \A x : x \in Passed(t) <=>
               \E k \in 1 .. n : x \in EndBlock(t[k]) + 1 .. BlockNo(t[k + 1]) - 1
    BY <1>2 DEF Passed
  <1>4. \A x : x \in Passed(s) <=>
               \E k \in 1 .. n - 1 : x \in EndBlock(s[k]) + 1 .. BlockNo(s[k + 1]) - 1
    BY DEF Passed
  <1> HIDE DEF n
  <1>5. \A k : k \in 1 .. n <=> k \in 1 .. n - 1 \/ k = n
    BY <1>1
  <1>6. \A k \in 1 .. n - 1 : t[k] = s[k] /\ t[k + 1] = s[k + 1]
    BY <1>1, <1>2
  <1>7. t[n] = s[n] /\ t[n + 1] = r
    BY <1>1, <1>2
  <1>8. \A x : x \in Passed(t) <=>
               x \in Passed(s) \/ x \in EndBlock(s[n]) + 1 .. BlockNo(r) - 1
    BY <1>3, <1>4, <1>5, <1>6, <1>7, Zenon
  <1>9. Passed(t) = Passed(s) \cup (EndBlock(s[n]) + 1 .. BlockNo(r) - 1)
    BY <1>8
  <1> QED
    BY <1>9 DEF t, n

\* Without a record nothing is passed over, and a first one passes over nothing.
LEMMA PassedNone == Passed(<< >>) = {} /\ \A r : Passed(Append(<< >>, r)) = {}
  <1>1. Passed(<< >>) = {}
    BY DEF Passed
  <1>2. ASSUME NEW r
        PROVE  Passed(Append(<< >>, r)) = {}
    <2>1. Len(Append(<< >>, r)) = 1
      OBVIOUS
    <2> QED
      BY <2>1 DEF Passed
  <1> QED
    BY <1>1, <1>2

LEMMA InitShowInv == ProgramInit => ShowInv
  <1> SUFFICES ASSUME ProgramInit PROVE ShowInv
    OBVIOUS
  <1>1. /\ only1000 = FALSE /\ last = -1 /\ shown = << >> /\ missing = << >>
        /\ verdict = "none" /\ delivered = << >> /\ pc = "idle"
    BY DEF ProgramInit, Init
  <1>2. << >> \in Seq(RecordType) /\ << >> \in Seq([from : Nat, to : Nat]) /\ -1 \in Int
    OBVIOUS
  <1>3. ExtractorTypeOK
    BY <1>1, <1>2, Zenon DEF ExtractorTypeOK
  <1>4. Reported = {}
    BY <1>1 DEF Reported
  <1> QED
    BY <1>1, <1>3, <1>4, PassedNone DEF ShowInv

LEMMA ShowStutter ==
  ASSUME ShowInv, UNCHANGED <<log, delivered, last, shown, missing, verdict>>,
         only1000' \in BOOLEAN, pc' = "eof" => pc = "eof" /\ out_buffer' = out_buffer
  PROVE  ShowInv'
  <1>1. UNCHANGED <<Reported, Passed(shown)>>
        /\ EndBlock(shown[Len(shown)])' = EndBlock(shown[Len(shown)])
    BY DEF Reported, Passed, EndBlock, BlockNo, Block
  <1>2. ExtractorTypeOK'
    BY DEF ShowInv, ExtractorTypeOK
  <1> QED
    BY <1>1, <1>2 DEF ShowInv

\* Another file.
LEMMA ShowOpen == ShowInv /\ OpenFile => ShowInv'
  <1> SUFFICES ASSUME ShowInv, OpenFile PROVE ShowInv'
    OBVIOUS
  <1>1. /\ only1000' = only1000 /\ last' = -1 /\ shown' = << >> /\ missing' = << >>
        /\ verdict' = "none" /\ delivered' = << >> /\ pc' = "idle"
    BY DEF OpenFile, FreshLoop, FreshRecords
  <1>2. << >> \in Seq(RecordType) /\ << >> \in Seq([from : Nat, to : Nat])
    OBVIOUS
  <1>3. ExtractorTypeOK'
    BY <1>1, <1>2 DEF ShowInv, ExtractorTypeOK
  <1>4. Reported' = {} /\ Passed(shown)' = {}
    BY <1>1 DEF Reported, Passed
  <1> QED
    BY <1>1, <1>3, <1>4 DEF ShowInv

LEMMA ShowRecordStep ==
  ASSUME ShowInv, Known, Known', ShowRecord
  PROVE  ShowInv'
  <1> DEFINE r == out_buffer[1]
             n == Len(shown)
  <1>1. /\ verdict = "none" /\ verdict' = "none" /\ only1000' = only1000
        /\ delivered' = Append(delivered, r) /\ shown' = Append(shown, r)
        /\ last' = EndBlock(r) /\ log' = log /\ pc' = "idle"
        /\ missing' = IF last # -1 /\ BlockNo(r) > last + 1
                      THEN Append(missing, [from |-> last + 1, to |-> BlockNo(r) - 1])
                      ELSE missing
    BY DEF ShowRecord, Looping, Deliver, sourceVars
  <1> HIDE DEF r
  <1>2. shown = delivered /\ shown \in Seq(RecordType) /\ n \in Nat
    BY <1>1 DEF ShowInv, Known
  <1>3. shown' = delivered' /\ Len(shown') = n + 1 /\ shown'[n + 1] = r /\ shown' # << >>
    BY <1>1, <1>2
  <1>5. BlockNo(r) \in Nat /\ EndBlock(r) \in Nat /\ shown' \in Seq(RecordType)
    <2>1. PICK k \in 1 .. Len(delivered') : k = n + 1
      BY <1>2, <1>3
    <2>2. delivered'[k] = r
      BY <1>3, <2>1
    <2>3. BlockNo(delivered[k])' \in Nat /\ EndBlock(delivered[k])' \in Nat
      BY <2>1 DEF Known
    <2>4. BlockNo(delivered[k])' = BlockNo(r) /\ EndBlock(delivered[k])' = EndBlock(r)
      BY <1>1, <2>2 DEF BlockNo, EndBlock, Block
    <2> QED
      BY <1>3, <2>3, <2>4 DEF Known
  <1>6. shown # << >> => last = EndBlock(shown[n]) /\ last \in Nat
    <2>1. shown # << >> => n \in 1 .. Len(delivered)
      BY <1>2
    <2> QED
      BY <1>2, <2>1 DEF ShowInv, Known
  <1>7. shown = << >> => last = -1
    BY DEF ShowInv
  <1>8. Passed(shown)' = Passed(shown')
    BY <1>1 DEF Passed, EndBlock, BlockNo, Block
  <1>9. /\ missing' \in Seq([from : Nat, to : Nat])
        /\ Reported' = Passed(shown')
        /\ \A k \in 1 .. Len(missing') : missing'[k].from <= missing'[k].to
    <2>1. /\ missing \in Seq([from : Nat, to : Nat]) /\ Reported = Passed(shown)
          /\ \A k \in 1 .. Len(missing) : missing[k].from <= missing[k].to
      BY DEF ShowInv, ExtractorTypeOK
    <2>1a. shown # << >> =>
             Passed(shown') = Passed(shown) \cup (EndBlock(shown[n]) + 1 .. BlockNo(r) - 1)
      BY <1>1, <1>2, PassedGrows
    <2>2. CASE shown = << >>
      <3>1. missing' = missing
        BY <1>1, <1>7, <2>2
      <3>2. Reported' = Reported
        BY <3>1 DEF Reported
      <3> QED
        BY <1>1, <2>1, <2>2, <3>1, <3>2, PassedNone
    <2>3. CASE shown # << >> /\ BlockNo(r) > last + 1
      <3>1. /\ missing' = Append(missing, [from |-> last + 1, to |-> BlockNo(r) - 1])
            /\ last + 1 \in Nat /\ BlockNo(r) - 1 \in Nat
        BY <1>1, <1>5, <1>6, <2>3
      <3>2. Reported' = Reported \cup (last + 1 .. BlockNo(r) - 1)
        BY <2>1, <3>1, ReportedGrows
      <3>3. [from |-> last + 1, to |-> BlockNo(r) - 1] \in [from : Nat, to : Nat]
        BY <3>1
      <3>4. last + 1 <= BlockNo(r) - 1
        BY <1>5, <1>6, <2>3
      <3>5. \A k \in 1 .. Len(missing') : missing'[k].from <= missing'[k].to
        BY <2>1, <3>1, <3>3, <3>4
      <3> QED
        BY <1>6, <2>1, <2>1a, <2>3, <3>1, <3>2, <3>3, <3>5
    <2>4. CASE shown # << >> /\ ~ (BlockNo(r) > last + 1)
      <3>1. missing' = missing
        BY <1>1, <2>4
      <3>2. Reported' = Reported
        BY <3>1 DEF Reported
      <3>3. EndBlock(shown[n]) + 1 .. BlockNo(r) - 1 = {}
        BY <1>5, <1>6, <2>4
      <3> QED
        BY <2>1, <2>1a, <2>4, <3>1, <3>2, <3>3
    <2> QED
      BY <2>2, <2>3, <2>4
  <1>10. ExtractorTypeOK'
    BY <1>1, <1>5, <1>9 DEF ShowInv, ExtractorTypeOK
  <1>11. last' = EndBlock(shown[Len(shown)])'
    BY <1>1, <1>3 DEF EndBlock, BlockNo, Block
  <1>12. Len(shown') <= Len(delivered')
    BY <1>2, <1>3
  <1> QED
    BY <1>1, <1>3, <1>8, <1>9, <1>10, <1>11, <1>12 DEF ShowInv

\* The ways out of the loop.
LEMMA LeaveStep ==
  ASSUME ShowInv, Known, Break \/ NoMoreRecords
  PROVE  ShowInv'
  <1>1. /\ verdict = "none" /\ Verdict /\ log' = log
        /\ UNCHANGED <<only1000, last, shown, missing>>
    BY DEF Break, NoMoreRecords, Looping, Deliver, EndOfFile, ServeNone, sourceVars
  <1>2. /\ verdict' \in {"true", "false"}
        /\ verdict' = "true" => log.nab = NoNab \/ last = log.nab - 1
    BY <1>1 DEF Verdict
  <1>3. shown = delivered /\ delivered \in Seq(RecordType)
    BY <1>1 DEF ShowInv, Known
  <1>4. /\ Len(shown) <= Len(delivered')
        /\ \A k \in 1 .. Len(shown) : shown[k] = delivered'[k]
        /\ pc' = "eof" => /\ shown = delivered' /\ out_buffer' = << >>
                          /\ verdict' = "true" <=> log.nab = NoNab \/ last = log.nab - 1
    <2>0. pc' = "eof" => /\ delivered' = delivered /\ out_buffer' = << >>
      BY DEF Break, NoMoreRecords, Deliver, EndOfFile
    <2>1. delivered' = delivered \/ delivered' = Append(delivered, out_buffer[1])
      BY DEF Break, NoMoreRecords, Deliver, EndOfFile
    <2> QED
      BY <1>1, <1>3, <2>0, <2>1 DEF Verdict
  <1>5. ExtractorTypeOK'
    BY <1>1, <1>2 DEF ShowInv, ExtractorTypeOK
  <1>6. UNCHANGED <<Reported, Passed(shown)>>
        /\ EndBlock(shown[Len(shown)])' = EndBlock(shown[Len(shown)])
    BY <1>1 DEF Reported, Passed, EndBlock, BlockNo, Block
  <1> QED
    BY <1>1, <1>2, <1>4, <1>5, <1>6 DEF ShowInv

LEMMA FetchStep == ShowInv /\ Fetch => ShowInv'
  <1> SUFFICES ASSUME ShowInv, Fetch PROVE ShowInv'
    OBVIOUS
  <1>1. Fill \/ Throw
    BY DEF Fetch
  <1>2. UNCHANGED delivered /\ pc' # "eof"
    BY <1>1
    DEF Fill, Throw, EnterLatest, EnterNext, Enter, LeaveBounds, WholeRecord,
        SplitRecord, GiveUp, Continue, Complete, SourceThrows, BadWholeRecord,
        NotEnoughBlocks, InterimRival, BadCompletion, AtBound
  <1>3. UNCHANGED log
    BY <1>1
    DEF Fill, Throw, EnterLatest, EnterNext, Enter, LeaveBounds, WholeRecord,
        SplitRecord, GiveUp, Continue, Complete, SourceThrows, BadWholeRecord,
        NotEnoughBlocks, InterimRival, BadCompletion, Serve, ServeQueued,
        ServeDrained, ServeNone, ServeThrow, sourceVars
  <1>4. UNCHANGED <<last, shown, missing, verdict, only1000>>
    BY DEF Fetch, loopVars
  <1> QED
    BY <1>2, <1>3, <1>4, ShowStutter DEF ShowInv, ExtractorTypeOK

LEMMA ShowInvariance == ProgramSpec => []ShowInv
  <1>1. PInv /\ PInv' /\ ShowInv /\ [ProgramNext]_programVars => ShowInv'
    <2> SUFFICES ASSUME PInv, PInv', ShowInv, [ProgramNext]_programVars PROVE ShowInv'
      OBVIOUS
    <2>1. Known /\ Known'
      BY AllKnown, AllKnownNext DEF PInv
    <2>2. CASE OpenFile
      BY <2>2, ShowOpen
    <2>3. CASE ListRecords
      BY <2>1, <2>3, ShowRecordStep, LeaveStep, FetchStep
      DEF ListRecords, ExtractorStep
    <2>4. CASE ListBlocks
      <3>1. UNCHANGED <<log, delivered, last, shown, missing, verdict, only1000, pc,
                        out_buffer>>
        BY <2>4 DEF ListBlocks, TakeBlock, TakeNone, TakeThrow, Serve, ServeQueued,
                    ServeDrained, ServeNone, ServeThrow, recordVars, loopVars
      <3> QED
        BY <3>1, ShowStutter DEF ShowInv, ExtractorTypeOK
    <2>5. CASE Between \/ UNCHANGED programVars
      <3>1. /\ UNCHANGED <<log, delivered, last, shown, missing, verdict, pc,
                           out_buffer>>
            /\ only1000' = only1000 \/ only1000' = Given("--s")
        BY <2>5 DEF Between, Usage, ParseOptions, SkipOption, OpenThrows, Exit,
                    Return, Abort, programVars, extractorVars, vars, sourceVars,
                    recordVars, loopVars
      <3>2. Given("--s") \in BOOLEAN
        BY DEF Given
      <3> QED
        BY <3>1, <3>2, ShowStutter DEF ShowInv, ExtractorTypeOK
    <2> QED
      BY <2>2, <2>3, <2>4, <2>5 DEF ProgramNext, ProgramStep, Between
  <1> QED
    BY ProgramInvariance, InitShowInv, <1>1, PTL DEF ProgramSpec

\* What the loop takes for the last block of a record is the last block its
\* slices hold on to.
LEMMA HoldIs ==
  ASSUME NEW r \in RecordType, Assembled(r), Unbroken(r), BlockNo(r) \in Nat
  PROVE  Hold(r) = EndBlock(r)
  <1> DEFINE k == Len(r.raw)
  <1>1. r.raw \in Seq(SliceType) /\ r.bound.next_blocks \in Nat
    BY DEF RecordType, Bounds
  <1>2. k \in Nat /\ k >= 1
    BY <1>1 DEF Assembled, Sliced
  <1>3. Block(LastSlice(r).blk).no = BlockNo(r) + (k - 1)
    BY <1>2 DEF Unbroken, LastSlice, BlockNo
  <1>4. r.bound.next_blocks = IF FillsItsBlock(r) THEN k ELSE k - 1
    BY DEF Assembled, FillsItsBlock, LastSlice
  <1> HIDE DEF k
  <1> QED
    BY <1>1, <1>2, <1>3, <1>4 DEF Hold, EndBlock

\* A record shown is a whole record of the file.
LEMMA ShownWhole ==
  ASSUME PInv, ShowInv, AllAssembled, NEW k \in 1 .. Len(shown)
  PROVE  shown[k] \in RecordType /\ Assembled(shown[k]) /\ BlockNo(shown[k]) \in Nat
  <1>1. Known
    BY AllKnown DEF PInv
  <1>2. /\ shown \in Seq(RecordType) /\ delivered \in Seq(RecordType)
        /\ k \in 1 .. Len(delivered) /\ shown[k] = delivered[k]
    BY <1>1 DEF ShowInv, ExtractorTypeOK, Known
  <1>3. Produced[k] = shown[k] /\ k \in 1 .. Len(Produced)
    <2>1. CASE Asked
      <3>1. out_buffer \in Seq(RecordType)
        BY <2>1 DEF Asked, IInv, TypeOK
      <3> QED
        BY <1>2, <3>1 DEF Produced
    <2>2. CASE Unasked
      <3>1. delivered = << >>
        BY <2>2 DEF Unasked
      <3> QED
        BY <1>2, <3>1
    <2> QED
      BY <2>1, <2>2 DEF PInv, Sources
  <1>4. shown[k] \in RecordType
    BY <1>2, ElementOfSeq
  <1> QED
    BY <1>1, <1>2, <1>3, <1>4 DEF Known, AllAssembled

\* main.cpp:47-58 with RecordSource.cpp:116-190: the block numbers reported missing
\* are those passed over between two records.
THEOREM ReportsSkippedHolds == ProgramSpec => []ReportsSkipped
  <1>1. PInv /\ ShowInv /\ AllAssembled => ReportsSkipped
    <2> SUFFICES ASSUME PInv, ShowInv, AllAssembled,
                        \A k \in 1 .. Len(shown) : Unbroken(shown[k])
                 PROVE  Reported = UNION {Hold(shown[k]) + 1 .. BlockNo(shown[k + 1]) - 1 :
                                            k \in 1 .. Len(shown) - 1}
      BY DEF ReportsSkipped
    <2>1. Len(shown) \in Nat
      BY DEF ShowInv, ExtractorTypeOK
    <2>2. \A k \in 1 .. Len(shown) : Hold(shown[k]) = EndBlock(shown[k])
      BY ShownWhole, HoldIs
    <2>3. \A k \in 1 .. Len(shown) - 1 : Hold(shown[k]) = EndBlock(shown[k])
      BY <2>1, <2>2
    <2>4. Reported = Passed(shown)
      BY DEF ShowInv
    <2> QED
      BY <2>3, <2>4 DEF Passed
  <1>2. ProgramSpec => []AllAssembled
    BY EveryFileAssembled, PTL
  <1> QED
    BY <1>1, <1>2, ProgramInvariance, ShowInvariance, PTL

\* main.cpp:44 and 62-66: "true" is printed only of a log read to the block before
\* its next available one.
THEOREM VerdictSoundHolds == ProgramSpec => []VerdictSound
  <1>1. PInv /\ ShowInv /\ AllAssembled => VerdictSound
    <2> SUFFICES ASSUME PInv, ShowInv, AllAssembled, verdict = "true",
                        log.nab # NoNab
                 PROVE  IF shown = << >> THEN log.nab = 0
                        ELSE LET r == shown[Len(shown)]
                                 behind == log.nab - Block(LastSlice(r).blk).no
                             IN Unbroken(r) =>
                                  behind = 1 \/ (behind = 2 /\ FillsItsBlock(r))
      BY DEF VerdictSound
    <2>1. last = log.nab - 1 /\ log.nab \in Nat
      BY NabAssumption DEF ShowInv, PInv, Sources, SourceInv
    <2>2. CASE shown = << >>
      <3>1. last = -1
        BY <2>2 DEF ShowInv
      <3> QED
        BY <2>1, <2>2, <3>1
    <2>3. ASSUME shown # << >>, NEW r, r = shown[Len(shown)], Unbroken(r)
          PROVE  LET behind == log.nab - Block(LastSlice(r).blk).no
                 IN  behind = 1 \/ (behind = 2 /\ FillsItsBlock(r))
      <3>1. Len(shown) \in 1 .. Len(shown)
        <4>1. shown \in Seq(RecordType)
          BY DEF ShowInv, ExtractorTypeOK
        <4>2. Len(shown) \in Nat \ {0}
          BY <2>3, <4>1, EmptySeq, Zenon
        <4> QED
          BY <4>2
      <3>2. /\ r \in RecordType /\ Assembled(r) /\ BlockNo(r) \in Nat
            /\ last = EndBlock(r)
        BY <2>3, <3>1, ShownWhole DEF ShowInv
      <3>3. last = Hold(r)
        BY <2>3, <3>2, HoldIs
      <3>4. Block(LastSlice(r).blk).no \in Int
        <4>1. r.raw \in Seq(SliceType) /\ Len(r.raw) >= 1
          BY <3>2 DEF RecordType, Assembled, Sliced
        <4>2. Block(LastSlice(r).blk).no = BlockNo(r) + (Len(r.raw) - 1)
          BY <2>3, <4>1 DEF Unbroken, LastSlice, BlockNo
        <4> QED
          BY <3>2, <4>1, <4>2
      <3> QED
        BY <2>1, <3>3, <3>4 DEF Hold
    <2> QED
      BY <2>2, <2>3
  <1>2. ProgramSpec => []AllAssembled
    BY EveryFileAssembled, PTL
  <1> QED
    BY <1>1, <1>2, ProgramInvariance, ShowInvariance, PTL

-----------------------------------------------------------------------------
(* Whole logs                                                               *)

\* What was shown are the first records written, as the loop counts them.
LEMMA ShownWritten ==
  ASSUME Sources, Asked, ShowInv, Whole(log)
  PROVE  LET w == log.written
         IN /\ Len(shown) \in Nat /\ Len(w) \in Nat /\ Len(shown) <= Len(w)
            /\ \A k \in 1 .. Len(shown) :
                 /\ shown[k] \in RecordType /\ Assembled(shown[k])
                 /\ PlacedAt(shown[k], w[k]) /\ w[k].blk \in Nat
                 /\ EndBlk(w[k]) \in Nat
                 /\ BlockNo(shown[k]) = w[k].blk + 1
                 /\ EndBlock(shown[k]) = EndBlk(w[k]) + 1
  <1> DEFINE w == log.written
  <1>1. /\ shown \in Seq(RecordType) /\ Len(shown) \in Nat
        /\ Len(shown) <= Len(delivered)
        /\ \A k \in 1 .. Len(shown) : shown[k] = delivered[k]
    BY DEF ShowInv, ExtractorTypeOK
  <1>2. /\ delivered \in Seq(RecordType) /\ out_buffer \in Seq(RecordType)
        /\ IInv /\ ReadInv /\ AllInFile
    BY DEF Asked, IInv, TypeOK, Sources, AdjacentInv
  <1>3. /\ Len(delivered) \in Nat /\ Len(delivered) <= Len(Produced)
        /\ \A k \in 1 .. Len(delivered) : Produced[k] = delivered[k]
    BY <1>2 DEF Produced
  <1>4. /\ Len(Produced) \in Nat /\ Len(w) \in Nat /\ Len(Produced) <= Len(w)
        /\ \A k \in 1 .. Len(Produced) : PlacedAt(Produced[k], w[k])
    BY <1>2, Basics, WholeRecords DEF ReadInv
  <1>5. ASSUME NEW k \in 1 .. Len(shown)
        PROVE  /\ shown[k] \in RecordType /\ Assembled(shown[k])
               /\ PlacedAt(shown[k], w[k]) /\ w[k].blk \in Nat
               /\ EndBlk(w[k]) \in Nat
               /\ BlockNo(shown[k]) = w[k].blk + 1
               /\ EndBlock(shown[k]) = EndBlk(w[k]) + 1
    <2> DEFINE r == shown[k]
    <2>1. k \in 1 .. Len(Produced) /\ r = Produced[k]
      BY <1>1, <1>3
    <2>2. /\ r \in RecordType /\ Assembled(r) /\ PlacedAt(r, w[k])
          /\ r.blk \in 1 .. FileSize
      <3>1. r \in RecordType
        BY <1>1, ElementOfSeq
      <3> QED
        BY <1>2, <1>4, <2>1, <3>1 DEF IInv, Sound, AssembledIn, AllInFile
    <2>3. r.blk \in Nat /\ r.bound.next_blocks \in Nat
      BY <2>2 DEF RecordType, Bounds
    <2>4. BlockNo(r) = r.blk + 1
      BY <1>2, <2>2, Basics, WholeBlocks DEF BlockNo
    <2>5. w[k].blk = r.blk /\ EndBlk(w[k]) = r.blk + r.bound.next_blocks
      BY <2>2 DEF PlacedAt, EndBlk
    <2> HIDE DEF r, w
    <2> QED
      BY <2>2, <2>3, <2>4, <2>5 DEF EndBlock, r
  <1> QED
    BY <1>1, <1>3, <1>4, <1>5

\* Where nothing is passed over, nothing is reported.
LEMMA NothingReported ==
  ASSUME ShowInv, Passed(shown) = {}
  PROVE  missing = << >>
  <1> SUFFICES ASSUME missing # << >> PROVE FALSE
    OBVIOUS
  <1>1. /\ missing \in Seq([from : Nat, to : Nat]) /\ Reported = {}
        /\ \A k \in 1 .. Len(missing) : missing[k].from <= missing[k].to
    BY DEF ShowInv, ExtractorTypeOK
  <1>2. Len(missing) \in Nat \ {0}
    BY <1>1, EmptySeq, Zenon
  <1>3. 1 \in 1 .. Len(missing)
    BY <1>2
  <1>4. missing[1] \in [from : Nat, to : Nat]
    BY <1>1, <1>3, ElementOfSeq
  <1>5. missing[1].from \in missing[1].from .. missing[1].to
    BY <1>1, <1>3, <1>4
  <1> QED
    BY <1>1, <1>3, <1>5 DEF Reported

LEMMA WholeNoAlarm ==
  ASSUME Sources, Asked, ShowInv, Whole(log)
  PROVE  NoFalseAlarm
  <1> DEFINE w == log.written
             n == Len(shown)
  <1>1. ASSUME NEW k \in 1 .. n - 1
        PROVE  EndBlock(shown[k]) + 1 .. BlockNo(shown[k + 1]) - 1 = {}
    <2>1. /\ n \in Nat /\ Len(w) \in Nat /\ n <= Len(w)
      BY ShownWritten
    <2>2. k \in 1 .. n /\ k + 1 \in 1 .. n /\ k \in 1 .. Len(w) - 1
      <3> HIDE DEF n, w
      <3> QED
        BY <2>1
    <2>3. /\ EndBlock(shown[k]) = EndBlk(w[k]) + 1 /\ EndBlk(w[k]) \in Nat
          /\ BlockNo(shown[k + 1]) = w[k + 1].blk + 1 /\ w[k + 1].blk \in Nat
      BY <2>2, ShownWritten
    <2>4. w[k + 1].blk <= EndBlk(w[k]) + 1
      BY <2>2, WholeRecords
    <2> HIDE DEF n, w
    <2> QED
      BY <2>3, <2>4
  <1>2. Passed(shown) = {}
    BY <1>1 DEF Passed
  <1> QED
    BY <1>2, NothingReported DEF NoFalseAlarm

\* Whether a record fills its last block is written in its bound.
LEMMA FillsIs ==
  ASSUME NEW r \in RecordType, Assembled(r), LastSlice(r).size > 0
  PROVE  FillsItsBlock(r) <=> r.bound.next_offset = BLOCK_HEAD
  <1>1. LastSlice(r).from \in Nat /\ LastSlice(r).size \in Nat
    BY LastPlace
  <1>2. LastSlice(r).from >= BLOCK_HEAD
    <2>1. r.raw \in Seq(SliceType) /\ Len(r.raw) >= 1
      BY DEF RecordType, Assembled, Sliced
    <2>2. Len(r.raw) \in 1 .. Len(r.raw)
      BY <2>1
    <2> QED
      BY <2>2 DEF Assembled, Sliced, LastSlice
  <1>3. IF LastSlice(r).from + LastSlice(r).size = BlockSz
        THEN r.bound.next_offset = BLOCK_HEAD
        ELSE r.bound.next_offset = LastSlice(r).from + LastSlice(r).size
    BY DEF Assembled, LastSlice
  <1> QED
    BY <1>1, <1>2, <1>3, Sizes DEF FillsItsBlock

LEMMA WholeVerdict ==
  ASSUME Sources, Asked, ShowInv, Whole(log)
  PROVE  VerdictOnWhole
  <1> SUFFICES ASSUME pc = "eof", log.nab # NoNab
               PROVE  verdict = "true" <=> ~ FillsItsBlock(shown[Len(shown)])
    BY DEF VerdictOnWhole
  <1> DEFINE w == log.written
             n == Len(shown)
             r == shown[n]
  <1>1. /\ shown = delivered /\ out_buffer = << >>
        /\ verdict = "true" <=> last = log.nab - 1
    BY DEF ShowInv
  <1>2. n = Len(w) /\ Len(w) \in Nat \ {0}
    <2>1. delivered \in Seq(RecordType)
      BY DEF Asked, IInv, TypeOK
    <2>2. Len(Produced) = n
      BY <1>1, <2>1 DEF Produced
    <2> QED
      BY <2>2, WholeRecords DEF Asked, ReadInv
  <1>3. n \in 1 .. n /\ shown # << >>
    BY <1>2
  <1>4. /\ r \in RecordType /\ Assembled(r) /\ PlacedAt(r, w[n])
        /\ EndBlk(w[n]) \in Nat /\ last = EndBlk(w[n]) + 1
    BY <1>3, ShownWritten DEF ShowInv
  <1>5. FillsItsBlock(r) <=> w[n].bound.next_offset = BLOCK_HEAD
    BY <1>4, FillsIs DEF PlacedAt
  <1>6. EndsIn(w[n]) = log.nab - 2
    BY <1>2, WholeRecords
  <1>7. log.nab \in Nat
    BY NabAssumption DEF Sources, SourceInv
  <1> QED
    BY <1>1, <1>4, <1>5, <1>6, <1>7 DEF EndsIn

LEMMA WholePromises ==
  Sources /\ ShowInv => (Whole(log) => NeverThrows /\ NoFalseAlarm /\ VerdictOnWhole)
  <1> SUFFICES ASSUME Sources, ShowInv, Whole(log)
               PROVE  NeverThrows /\ NoFalseAlarm /\ VerdictOnWhole
    OBVIOUS
  <1>1. CASE Asked
    BY <1>1, WholeNoAlarm, WholeVerdict DEF Asked, ReadInv, NeverThrows
  <1>2. CASE Unasked
    <2>1. pc = "idle" /\ delivered = << >>
      BY <1>2 DEF Unasked
    <2>2. Passed(shown) = {}
      <3>1. shown \in Seq(RecordType) /\ Len(shown) <= 0
        BY <2>1 DEF ShowInv, ExtractorTypeOK
      <3> QED
        BY <3>1 DEF Passed
    <2> QED
      BY <2>1, <2>2, NothingReported DEF NeverThrows, NoFalseAlarm, VerdictOnWhole
  <1> QED
    BY <1>1, <1>2 DEF Sources

\* RecordSource.cpp:98-190 and main.cpp:44-66, for each file of the command line:
\* listing a whole log throws nothing and reports no block missing, and the log is
\* called complete unless its last record fills its last block.
THEOREM EveryWholeFile ==
  ProgramSpec => [](Whole(log) => NeverThrows /\ NoFalseAlarm /\ VerdictOnWhole)
  <1>1. PInv => Sources
    BY DEF PInv
  <1> QED
    BY <1>1, WholePromises, ProgramInvariance, ShowInvariance, PTL

-----------------------------------------------------------------------------
(* One log, listed by itself: the loop implements the reader of a log       *)

\* With --s the loop shows one record more than the limit.
Within == only1000 => Len(shown) <= ShowLimit + 1

EInv == Sources /\ Asked /\ ShowInv /\ Within

LEMMA InitEInv == ExtractorInit => EInv
  <1> SUFFICES ASSUME ExtractorInit PROVE EInv
    OBVIOUS
  <1>1. /\ Init /\ only1000 \in BOOLEAN /\ last = -1 /\ shown = << >>
        /\ missing = << >> /\ verdict = "none" /\ delivered = << >> /\ pc = "idle"
    BY DEF ExtractorInit, Init
  <1>2. << >> \in Seq(RecordType) /\ << >> \in Seq([from : Nat, to : Nat]) /\ -1 \in Int
    OBVIOUS
  <1>3. ExtractorTypeOK
    BY <1>1, <1>2, Zenon DEF ExtractorTypeOK
  <1>4. Reported = {} /\ Len(shown) = 0
    BY <1>1 DEF Reported
  <1>5. ShowInv
    BY <1>1, <1>3, <1>4, PassedNone DEF ShowInv
  <1>6. Within
    BY <1>4, ShowLimitAssumption DEF Within
  <1> QED
    BY <1>1, <1>5, <1>6, InitSources DEF EInv

LEMMA ExtractorInvariance == ExtractorSpec => []EInv
  <1>1. EInv /\ [ExtractorNext]_extractorVars => EInv'
    <2> SUFFICES ASSUME EInv, [ExtractorNext]_extractorVars PROVE EInv'
      OBVIOUS
    <2>1. CASE ExtractorStep
      <3>1. Sources' /\ Asked'
        BY <2>1, LoopStep, SourcesStep DEF EInv
      <3>2. Known /\ Known'
        BY <3>1, AllKnown, AllKnownNext DEF EInv
      <3>3. ShowInv'
        BY <2>1, <3>2, ShowRecordStep, LeaveStep, FetchStep DEF EInv, ExtractorStep
      <3>4. Within'
        <4>1. shown \in Seq(RecordType) /\ Len(shown) \in Nat
          BY DEF EInv, ShowInv, ExtractorTypeOK
        <4>2. CASE ShowRecord
          <5>1. /\ shown' = Append(shown, out_buffer[1]) /\ only1000' = only1000
                /\ ~ LimitReached
            BY <4>2 DEF ShowRecord
          <5>2. Len(shown') = Len(shown) + 1
            BY <4>1, <5>1
          <5> QED
            BY <4>1, <5>1, <5>2, ShowLimitAssumption DEF LimitReached, Within
        <4>3. CASE Break \/ NoMoreRecords \/ Fetch
          BY <4>3 DEF Break, NoMoreRecords, Fetch, loopVars, EInv, Within
        <4> QED
          BY <2>1, <4>2, <4>3 DEF ExtractorStep
      <3> QED
        BY <3>1, <3>3, <3>4 DEF EInv
    <2>2. CASE UNCHANGED extractorVars
      <3>1. UNCHANGED vars /\ UNCHANGED loopVars
        BY <2>2 DEF extractorVars
      <3>2. UNCHANGED <<log, delivered, last, shown, missing, verdict, only1000, pc,
                        out_buffer>>
        BY <3>1 DEF vars, sourceVars, recordVars, loopVars
      <3>3. ShowInv'
        BY <3>2, ShowStutter DEF EInv, ShowInv, ExtractorTypeOK
      <3>4. Sources' /\ Asked'
        BY <3>1, SourcesStutter DEF EInv
      <3> QED
        BY <3>2, <3>3, <3>4 DEF EInv, Within
    <2> QED
      BY <2>1, <2>2 DEF ExtractorNext, Exited
  <1> QED
    BY InitEInv, <1>1, PTL DEF ExtractorSpec

\* main.cpp:42-66: the same of one log listed by itself, with --s or without.
THEOREM WholeListing ==
  ExtractorSpec => [](Whole(log) => NeverThrows /\ NoFalseAlarm /\ VerdictOnWhole)
  <1>1. EInv => (Whole(log) => NeverThrows /\ NoFalseAlarm /\ VerdictOnWhole)
    BY WholePromises DEF EInv
  <1> QED
    BY <1>1, ExtractorInvariance, PTL

\* The records wanted are the first of those written, up to the limit.
LEMMA WantedIs ==
  ASSUME Whole(log), Within, Len(shown) \in Nat, Len(shown) <= Len(log.written)
  PROVE  /\ Len(shown) < Len(log.written) /\ ~ LimitReached =>
              /\ Len(shown) < Len(Wanted)
              /\ Wanted[Len(shown) + 1] = log.written[Len(shown) + 1]
         /\ Len(shown) = Len(log.written) \/ LimitReached => Len(shown) = Len(Wanted)
  <1> DEFINE w == log.written
             n == Len(shown)
  <1>1. w \in Seq(Places) /\ Len(w) \in Nat
    BY DEF Whole
  <1>2. CASE only1000 /\ Len(w) > ShowLimit
    <2>1. Wanted = SubSeq(w, 1, ShowLimit + 1)
      BY <1>2 DEF Wanted
    <2>2. /\ Len(Wanted) = ShowLimit + 1
          /\ \A k \in 1 .. ShowLimit + 1 : Wanted[k] = w[k]
      BY <1>1, <1>2, <2>1, ShowLimitAssumption
    <2>3. n <= ShowLimit + 1
      BY <1>2 DEF Within
    <2> HIDE DEF w, n
    <2> QED
      BY <1>1, <1>2, <2>2, <2>3, ShowLimitAssumption DEF LimitReached, w, n
  <1>3. CASE ~ (only1000 /\ Len(w) > ShowLimit)
    <2>1. Wanted = w
      BY <1>3 DEF Wanted
    <2> QED
      BY <1>1, <1>3, <2>1, ShowLimitAssumption DEF LimitReached
  <1> QED
    BY <1>2, <1>3

\* What is shown begins where the records written begin.
ShownPlaced ==
  /\ Len(shown) <= Len(log.written)
  /\ \A k \in 1 .. Len(shown) : PlacedAt(shown[k], log.written[k])

LEMMA ReaderInit == ExtractorInit => Reader!Init
  <1> SUFFICES ASSUME ExtractorInit PROVE Reader!Init
    OBVIOUS
  <1>1. Len(shown) = 0 /\ verdict = "none"
    BY DEF ExtractorInit
  <1> QED
    BY <1>1 DEF Reader!Init

LEMMA AllPlaced == EInv => (Whole(log) => ShownPlaced)
  BY ShownWritten DEF EInv, ShownPlaced

LEMMA AllPlacedNext == EInv' => (Whole(log)' => ShownPlaced')
  BY AllPlaced, PTL

\* A record shown is the next of those wanted.
LEMMA ReaderRead ==
  ASSUME EInv, EInv', Whole(log), ShowRecord
  PROVE  Reader!Read
  <1> DEFINE w == log.written
             n == Len(shown)
             r == out_buffer[1]
  <1>1. /\ log' = log /\ only1000' = only1000 /\ verdict' = verdict
        /\ shown' = Append(shown, r) /\ ~ LimitReached
    BY DEF ShowRecord, Deliver, sourceVars
  <1>2. Whole(log)'
    BY <1>1, SameWhole
  <1>3. /\ Len(shown') <= Len(w)
        /\ \A k \in 1 .. Len(shown') : PlacedAt(shown'[k], w[k])
    BY <1>1, <1>2, AllPlacedNext DEF ShownPlaced, PlacedAt
  <1>4. shown \in Seq(RecordType) /\ n \in Nat
    BY DEF EInv, ShowInv, ExtractorTypeOK
  <1>5. /\ Len(shown') = n + 1 /\ shown'[n + 1] = r
        /\ \A k \in 1 .. n : shown'[k] = shown[k]
    BY <1>1, <1>4
  <1>6. n < Len(w) /\ PlacedAt(r, w[n + 1]) /\ n + 1 \in 1 .. Len(w)
    <2>1. w \in Seq(Places) /\ Len(w) \in Nat
      BY DEF Whole
    <2> HIDE DEF w, n, r
    <2> QED
      BY <1>3, <1>4, <1>5, <2>1
  <1>7. Place(r) = w[n + 1]
    <2>1. w[n + 1] \in Places
      BY <1>6, ElementOfSeq DEF Whole
    <2>2. w[n + 1] = [blk |-> w[n + 1].blk, offset |-> w[n + 1].offset,
                      bound |-> w[n + 1].bound]
      BY <2>1 DEF Places
    <2> QED
      BY <1>6, <2>2 DEF Place, PlacedAt
  <1>8. n < Len(Wanted) /\ Wanted[n + 1] = w[n + 1]
    BY <1>1, <1>4, <1>6, WantedIs DEF EInv
  <1>9. [k \in 1 .. Len(shown') |-> Place(shown'[k])] =
          Append([k \in 1 .. n |-> Place(shown[k])], Wanted[n + 1])
    <2> HIDE DEF w, n, r
    <2>1. Place(shown'[n + 1]) = Wanted[n + 1]
      BY <1>5, <1>7, <1>8
    <2> QED
      BY <1>4, <1>5, <2>1
  <1>10. UNCHANGED Wanted
    BY <1>1 DEF Wanted
  <1>11. \A x : Place(x)' = Place(x)
    OBVIOUS
  <1> QED
    BY <1>1, <1>4, <1>8, <1>9, <1>10, <1>11 DEF Reader!Read

LEMMA ReaderEnd ==
  ASSUME EInv, EInv', Whole(log), Break \/ NoMoreRecords
  PROVE  Reader!End
  <1> DEFINE w == log.written
  <1>1. /\ log' = log /\ only1000' = only1000 /\ shown' = shown
        /\ verdict = "none" /\ verdict' # "none"
    BY DEF Break, NoMoreRecords, Deliver, EndOfFile, ServeNone, sourceVars, Verdict,
           Looping
  <1>2. Len(shown) \in Nat /\ Len(shown) <= Len(w)
    BY ShownWritten DEF EInv
  <1>3. Len(shown) = Len(w) \/ LimitReached
    <2>1. CASE Break
      BY <2>1 DEF Break
    <2>2. CASE NoMoreRecords
      <3>1. pc' = "eof" /\ Whole(log)'
        BY <1>1, <2>2, SameWhole DEF NoMoreRecords, EndOfFile
      <3>2. shown' = delivered' /\ out_buffer' = << >>
        BY <3>1 DEF EInv, ShowInv
      <3>3. Len(Produced)' = Len(log'.written)
        BY <3>1 DEF EInv, Asked, ReadInv
      <3>4. delivered' \in Seq(RecordType)
        BY DEF EInv, Asked, IInv, TypeOK
      <3> QED
        BY <1>1, <3>2, <3>3, <3>4 DEF Produced
    <2> QED
      BY <2>1, <2>2
  <1>4. Len(shown) = Len(Wanted)
    BY <1>2, <1>3, WantedIs DEF EInv
  <1>5. UNCHANGED Wanted
    BY <1>1 DEF Wanted
  <1>6. [k \in 1 .. Len(shown) |-> Place(shown[k])]' = [k \in 1 .. Len(shown) |-> Place(shown[k])]
    BY <1>1 DEF Place
  <1> QED
    BY <1>1, <1>2, <1>4, <1>5, <1>6 DEF Reader!End

LEMMA ReaderStep ==
  ASSUME EInv, EInv', Whole(log), [ExtractorNext]_extractorVars
  PROVE  [Reader!Next]_(Reader!vars)
  <1>1. CASE ShowRecord
    BY <1>1, ReaderRead DEF Reader!Next
  <1>2. CASE Break \/ NoMoreRecords
    BY <1>2, ReaderEnd DEF Reader!Next
  <1>3. CASE Fetch \/ UNCHANGED extractorVars
    <2>1. UNCHANGED <<log, only1000, shown, verdict>>
      <3>1. CASE UNCHANGED extractorVars
        BY <3>1 DEF extractorVars, vars, sourceVars, loopVars
      <3>2. CASE Fetch
        <4>1. UNCHANGED <<only1000, shown, verdict>>
          BY <3>2 DEF Fetch, loopVars
        <4>2. UNCHANGED log
          BY <3>2
          DEF Fetch, Fill, Throw, EnterLatest, EnterNext, Enter, LeaveBounds,
              WholeRecord, SplitRecord, GiveUp, Continue, Complete, SourceThrows,
              BadWholeRecord, NotEnoughBlocks, InterimRival, BadCompletion, Serve,
              ServeQueued, ServeDrained, ServeNone, ServeThrow, sourceVars
        <4> QED
          BY <4>1, <4>2
      <3> QED
        BY <1>3, <3>1, <3>2
    <2> QED
      BY <2>1 DEF Reader!vars, Wanted, Place
  <1> QED
    BY <1>1, <1>2, <1>3 DEF ExtractorNext, ExtractorStep, Exited

LEMMA WholeStays ==
  EInv /\ Whole(log) /\ [ExtractorNext]_extractorVars => Whole(log)'
  <1> SUFFICES ASSUME EInv, Whole(log), [ExtractorNext]_extractorVars PROVE Whole(log)'
    OBVIOUS
  <1>1. CASE UNCHANGED extractorVars
    BY <1>1, SameWhole DEF extractorVars, vars, sourceVars
  <1>2. CASE ExtractorStep
    <2>1. Step /\ IInv
      BY <1>2, LoopStep DEF EInv, Asked
    <2>2. [SourceNext]_sourceVars
      BY <2>1, SourceMoves DEF Next
    <2>3. UNCHANGED log
      BY <2>2 DEF SourceNext, TakeBlock, TakeNone, TakeThrow, Stopped, Serve,
                  ServeQueued, ServeDrained, ServeNone, ServeThrow, sourceVars
    <2> QED
      BY <2>3, SameWhole
  <1> QED
    BY <1>1, <1>2 DEF ExtractorNext, Exited

\* RecordSource.cpp:98-213 and main.cpp:42-60: from a log that is whole the loop
\* shows every record written, each once and in order, and leaves only behind the
\* last of them or, with --s, behind the limit. That it does get there is left to
\* the model checker.
THEOREM WholeIsLogReader ==
  ExtractorSpec /\ Whole(log) => Reader!Init /\ [][Reader!Next]_(Reader!vars)
  <1>1. EInv /\ EInv' /\ Whole(log) /\ [ExtractorNext]_extractorVars
        => [Reader!Next]_(Reader!vars)
    BY ReaderStep
  <1> QED
    BY ReaderInit, ExtractorInvariance, WholeStays, <1>1, PTL DEF ExtractorSpec

-----------------------------------------------------------------------------
(* The command line                                                         *)

AllListed ==
  \A i \in 1 .. arg - 1 :
    ~ IsOption(argv[i]) => ListedAs(outcomes[Rank(i)], argv[i])

\* The file named by argv[arg] is open.
AtFile ==
  /\ arg \in 1 .. Len(argv) /\ ~ IsOption(argv[arg])
  /\ log = File(argv[arg]).log

\* The file named by argv[arg] cannot be listed to its end.
AtFault ==
  /\ arg \in 1 .. Len(argv) /\ ~ IsOption(argv[arg])
  /\ \/ ~ Opens(File(argv[arg]))
     \/ log = File(argv[arg]).log /\ (source = "thrown" \/ pc = "thrown")

\* As many files are listed as there are names before argv[arg].
CmdInv ==
  /\ phase \in {"start", "args", "blocks", "records", "exit", "usage", "aborted"}
  /\ arg \in 1 .. Len(argv) + 1
  /\ showReason \in BOOLEAN /\ onlyBlock \in BOOLEAN
  /\ outcomes \in Seq(OutcomeType) /\ Len(outcomes) = Rank(arg - 1)
  /\ phase = "start" => arg = 1
  /\ phase \notin {"start", "usage"} =>
       only1000 = Given("--s") /\ onlyBlock = Given("--ob")
  /\ phase = "exit" => arg = Len(argv) + 1
  /\ phase \in {"blocks", "records"} => AtFile
  /\ phase = "blocks" => onlyBlock /\ verdict = "none" /\ shown = << >>
  /\ phase = "records" =>
       /\ ~ onlyBlock
       /\ verdict # "none" => pc = "eof" \/ only1000
       /\ only1000 => Len(shown) <= ShowLimit + 1
  /\ phase = "aborted" => AtFault
  /\ AllListed

LEMMA ArgvLen == session \in Sessions => argv \in Seq(STRING) /\ Len(argv) \in Nat
  BY SessionsAssumption DEF argv

LEMMA SameCommand ==
  ASSUME session' = session
  PROVE  /\ argv' = argv
         /\ \A x : Given(x)' = Given(x) /\ File(x)' = File(x)
         /\ \A i : Rank(i)' = Rank(i)
         /\ \A o, x : ListedAs(o, x)' = ListedAs(o, x)
  BY DEF argv, Given, File, Rank, ListedAs

\* The names among the first i words.
LEMMA NamesFinite ==
  ASSUME NEW i \in Nat
  PROVE  /\ IsFiniteSet({j \in 1 .. i : ~ IsOption(argv[j])})
         /\ Rank(i) \in Nat /\ Rank(i) <= i
  <1> DEFINE S == {j \in 1 .. i : ~ IsOption(argv[j])}
  <1>1. S \in SUBSET (1 .. i)
    OBVIOUS
  <1>2. IsFiniteSet(1 .. i) /\ Cardinality(1 .. i) = i
    BY FS_Interval
  <1> HIDE DEF S
  <1>3. IsFiniteSet(S) /\ Cardinality(S) <= Cardinality(1 .. i)
    BY <1>1, <1>2, FS_Subset
  <1>4. Cardinality(S) \in Nat
    BY <1>3, FS_CardinalityType
  <1> QED
    BY <1>2, <1>3, <1>4 DEF S, Rank

LEMMA RankNext ==
  ASSUME NEW i \in Nat
  PROVE  Rank(i + 1) = Rank(i) + (IF IsOption(argv[i + 1]) THEN 0 ELSE 1)
  <1> DEFINE S == {j \in 1 .. i : ~ IsOption(argv[j])}
             T == {j \in 1 .. i + 1 : ~ IsOption(argv[j])}
  <1>1. IsFiniteSet(S) /\ Cardinality(S) \in Nat
    BY NamesFinite DEF Rank
  <1>2. CASE IsOption(argv[i + 1])
    <2>1. \A j : j \in 1 .. i + 1 <=> j \in 1 .. i \/ j = i + 1
      OBVIOUS
    <2>2. T = S
      BY <1>2, <2>1
    <2> HIDE DEF S, T
    <2> QED
      BY <1>1, <1>2, <2>2 DEF S, T, Rank
  <1>3. CASE ~ IsOption(argv[i + 1])
    <2>1. \A j : j \in 1 .. i + 1 <=> j \in 1 .. i \/ j = i + 1
      OBVIOUS
    <2>2. T = S \cup {i + 1} /\ i + 1 \notin S
      BY <1>3, <2>1
    <2> HIDE DEF S, T
    <2>3. Cardinality(T) = Cardinality(S) + 1
      BY <1>1, <2>2, FS_AddElement
    <2> QED
      BY <1>3, <2>3 DEF S, T, Rank
  <1> QED
    BY <1>2, <1>3

LEMMA RankUpTo ==
  ASSUME NEW i \in Nat, NEW j \in Nat, i <= j
  PROVE  /\ Rank(i) <= Rank(j)
         /\ i < j /\ ~ IsOption(argv[j]) => Rank(i) < Rank(j)
  <1> DEFINE S == {k \in 1 .. i : ~ IsOption(argv[k])}
             T == {k \in 1 .. j : ~ IsOption(argv[k])}
  <1>1. IsFiniteSet(T) /\ Cardinality(T) \in Nat /\ Cardinality(S) \in Nat
    BY NamesFinite DEF Rank
  <1>2. S \in SUBSET T
    OBVIOUS
  <1>3. i < j /\ ~ IsOption(argv[j]) => j \in T /\ j \notin S
    OBVIOUS
  <1> HIDE DEF S, T
  <1>4. Cardinality(S) <= Cardinality(T) /\ (Cardinality(S) = Cardinality(T) => S = T)
    BY <1>1, <1>2, FS_Subset
  <1>5. i < j /\ ~ IsOption(argv[j]) => Cardinality(S) < Cardinality(T)
    BY <1>1, <1>3, <1>4
  <1> QED
    BY <1>4, <1>5 DEF S, T, Rank

LEMMA InitCmdInv == ProgramInit => CmdInv
  <1> SUFFICES ASSUME ProgramInit PROVE CmdInv
    OBVIOUS
  <1>1. /\ session \in Sessions /\ phase = "start" /\ arg = 1
        /\ showReason = FALSE /\ onlyBlock = FALSE /\ outcomes = << >>
    BY DEF ProgramInit
  <1>2. Len(argv) \in Nat
    BY <1>1, ArgvLen
  <1>3. Rank(0) = 0
    <2>1. Rank(0) \in Nat /\ Rank(0) <= 0
      BY NamesFinite, 0 \in Nat, Zenon
    <2> QED
      BY <2>1
  <1>4. arg - 1 = 0 /\ arg \in 1 .. Len(argv) + 1
    BY <1>1, <1>2
  <1>5. outcomes \in Seq(OutcomeType) /\ Len(outcomes) = Rank(arg - 1)
    BY <1>1, <1>3, <1>4
  <1>6. AllListed
    BY <1>4 DEF AllListed
  <1> QED
    BY <1>1, <1>4, <1>5, <1>6 DEF CmdInv

LEMMA ListedSame ==
  ASSUME session' = session,
         \A i \in 1 .. arg' - 1 :
           ~ IsOption(argv[i]) => ListedAs(outcomes'[Rank(i)], argv[i])
  PROVE  AllListed'
  BY DEF AllListed, argv, Given, Rank, ListedAs

\* The steps of main that list nothing.
LEMMA CmdBetween ==
  ASSUME PInv, CmdInv, Usage \/ ParseOptions \/ SkipOption \/ OpenThrows \/ Exit \/ Abort
  PROVE  CmdInv'
  <1>1. /\ session' = session /\ argv' = argv /\ Len(argv) \in Nat /\ outcomes' = outcomes
        /\ \A x : Given(x)' = Given(x) /\ File(x)' = File(x)
        /\ \A i : Rank(i)' = Rank(i)
        /\ UNCHANGED <<log, source, pc>>
    <2>1. UNCHANGED <<session, outcomes, vars>>
      BY DEF Usage, ParseOptions, SkipOption, OpenThrows, Exit, Abort, extractorVars
    <2> QED
      BY <2>1, SameCommand, ArgvLen DEF PInv, vars, sourceVars, recordVars
  <1>2. CASE arg' = arg
    <2>1. AllListed'
      BY <1>1, <1>2, ListedSame DEF CmdInv, AllListed
    <2>2. AtFault <=> AtFault'
      BY <1>1, <1>2 DEF AtFault, Opens
    <2>3. CASE Usage \/ Exit
      BY <1>1, <1>2, <2>1, <2>3
      DEF CmdInv, Usage, Exit, extractorVars, loopVars
    <2>4. CASE ParseOptions
      BY <1>1, <1>2, <2>1, <2>4 DEF CmdInv, ParseOptions, Given
    <2>5. CASE OpenThrows
      <3>1. AtFault
        BY <1>1, <2>5 DEF CmdInv, OpenThrows, AtWord, AtFault
      <3> QED
        BY <1>1, <1>2, <2>1, <2>2, <2>5, <3>1
        DEF CmdInv, OpenThrows, AtWord, extractorVars, loopVars
    <2>6. CASE Abort
      <3>1. AtFault
        BY <2>6 DEF CmdInv, Abort, AtFile, AtFault
      <3> QED
        BY <1>1, <1>2, <2>1, <2>2, <2>6, <3>1 DEF CmdInv, Abort, extractorVars, loopVars
    <2>7. CASE SkipOption
      BY <1>1, <1>2, <2>7 DEF SkipOption, AtWord, CmdInv
    <2> QED
      BY <2>3, <2>4, <2>5, <2>6, <2>7
  <1>3. CASE SkipOption
    <2>1. /\ arg' = arg + 1 /\ IsOption(argv[arg]) /\ phase = "args" /\ phase' = "args"
          /\ arg <= Len(argv)
          /\ UNCHANGED <<showReason, onlyBlock, only1000>>
      BY <1>3 DEF SkipOption, AtWord, extractorVars, loopVars
    <2>2. arg \in Nat /\ arg - 1 \in Nat /\ (arg - 1) + 1 = arg
      BY <1>1 DEF CmdInv
    <2>3. Rank(arg) = Rank(arg - 1) + 0
      BY <2>1, <2>2, RankNext
    <2>4. Rank(arg) = Rank(arg - 1)
      <3>1. Rank(arg - 1) \in Nat
        BY <2>2, NamesFinite, Zenon
      <3> QED
        BY <2>3, <3>1
    <2>5. AllListed'
      <3>1. \A i \in 1 .. arg' - 1 : i \in 1 .. arg - 1 \/ i = arg
        BY <2>1, <2>2
      <3> QED
        BY <1>1, <2>1, <3>1, ListedSame DEF CmdInv, AllListed
    <2>6. arg' - 1 = arg /\ arg' \in 1 .. Len(argv) + 1
      BY <1>1, <2>1, <2>2
    <2> QED
      BY <1>1, <2>1, <2>4, <2>5, <2>6 DEF CmdInv
  <1>4. ~ SkipOption => arg' = arg
    BY DEF Usage, ParseOptions, OpenThrows, Exit, Abort
  <1> QED
    BY <1>2, <1>3, <1>4

LEMMA CmdOpen == PInv /\ CmdInv /\ OpenFile => CmdInv'
  <1> SUFFICES ASSUME PInv, CmdInv, OpenFile PROVE CmdInv'
    OBVIOUS
  <1>1. /\ phase = "args" /\ arg <= Len(argv) /\ ~ IsOption(argv[arg])
        /\ log' = File(argv[arg]).log /\ verdict' = "none" /\ shown' = << >>
        /\ phase' = IF onlyBlock THEN "blocks" ELSE "records"
        /\ UNCHANGED <<session, arg, showReason, onlyBlock, outcomes, only1000>>
    BY DEF OpenFile, AtWord, FreshSource, FreshLoop
  <1>2. /\ argv' = argv /\ Len(argv) \in Nat
        /\ \A x : Given(x)' = Given(x) /\ File(x)' = File(x)
        /\ \A i : Rank(i)' = Rank(i)
    BY <1>1, SameCommand, ArgvLen DEF PInv
  <1>3. AllListed'
    BY <1>1, <1>2, ListedSame DEF CmdInv, AllListed
  <1>4. AtFile'
    BY <1>1, <1>2 DEF CmdInv, AtFile
  <1>5. Len(shown') = 0 /\ 0 <= ShowLimit + 1
    BY <1>1, ShowLimitAssumption
  <1> QED
    BY <1>1, <1>2, <1>3, <1>4, <1>5 DEF CmdInv

LEMMA CmdListBlocks == CmdInv /\ ListBlocks => CmdInv'
  <1> SUFFICES ASSUME CmdInv, ListBlocks PROVE CmdInv'
    OBVIOUS
  <1>1. /\ phase = "blocks" /\ log' = log
        /\ UNCHANGED <<session, phase, arg, showReason, onlyBlock, outcomes, only1000,
                       verdict, shown>>
    BY DEF ListBlocks, TakeBlock, TakeNone, TakeThrow, Serve, ServeQueued,
           ServeDrained, ServeNone, ServeThrow, loopVars, mainVars
  <1>2. /\ argv' = argv
        /\ \A x : Given(x)' = Given(x) /\ File(x)' = File(x)
        /\ \A i : Rank(i)' = Rank(i)
    BY <1>1, SameCommand
  <1>3. AllListed'
    BY <1>1, <1>2, ListedSame DEF CmdInv, AllListed
  <1>4. AtFile'
    BY <1>1, <1>2 DEF CmdInv, AtFile
  <1> QED
    BY <1>1, <1>2, <1>3, <1>4 DEF CmdInv

\* With --s the loop shows one record more than the limit, and only with --s does
\* it end before the records do.
LEMMA CmdListRecords == PInv /\ ShowInv /\ CmdInv /\ ListRecords => CmdInv'
  <1> SUFFICES ASSUME PInv, ShowInv, CmdInv, ListRecords PROVE CmdInv'
    OBVIOUS
  <1>1. /\ phase = "records" /\ verdict = "none" /\ ExtractorStep
        /\ UNCHANGED <<session, phase, arg, showReason, onlyBlock, outcomes, only1000>>
    BY DEF ListRecords, mainVars, ExtractorStep, ShowRecord, Break, NoMoreRecords,
           Fetch, Looping, loopVars
  <1>2. log' = log
    <2>1. Step /\ IInv
      BY <1>1, LoopStep DEF PInv, Asked
    <2>2. [SourceNext]_sourceVars
      BY <2>1, SourceMoves DEF Next
    <2> QED
      BY <2>2 DEF SourceNext, TakeBlock, TakeNone, TakeThrow, Stopped, Serve,
                  ServeQueued, ServeDrained, ServeNone, ServeThrow, sourceVars
  <1>3. /\ argv' = argv
        /\ \A x : Given(x)' = Given(x) /\ File(x)' = File(x)
        /\ \A i : Rank(i)' = Rank(i)
    BY <1>1, SameCommand
  <1>4. AllListed'
    BY <1>1, <1>3, ListedSame DEF CmdInv, AllListed
  <1>5. AtFile'
    BY <1>1, <1>2, <1>3 DEF CmdInv, AtFile
  <1>6. /\ verdict' # "none" => pc' = "eof" \/ only1000'
        /\ only1000' => Len(shown') <= ShowLimit + 1
    <2>1. shown \in Seq(RecordType) /\ Len(shown) \in Nat
      BY DEF ShowInv, ExtractorTypeOK
    <2>2. CASE ShowRecord
      <3>1. shown' = Append(shown, out_buffer[1]) /\ verdict' = "none" /\ ~ LimitReached
        BY <1>1, <2>2 DEF ShowRecord
      <3>2. Len(shown') = Len(shown) + 1
        BY <2>1, <3>1
      <3> QED
        BY <1>1, <2>1, <3>1, <3>2, ShowLimitAssumption DEF LimitReached
    <2>3. CASE Break
      BY <1>1, <2>3 DEF Break, LimitReached, CmdInv
    <2>4. CASE NoMoreRecords
      BY <1>1, <2>4 DEF NoMoreRecords, EndOfFile, CmdInv
    <2>5. CASE Fetch
      BY <1>1, <2>5 DEF Fetch, loopVars, CmdInv
    <2> QED
      BY <1>1, <2>2, <2>3, <2>4, <2>5 DEF ExtractorStep
  <1> QED
    BY <1>1, <1>3, <1>4, <1>5, <1>6 DEF CmdInv

\* One more outcome, of the file named by argv[arg].
LEMMA CmdReturn == PInv /\ ShowInv /\ CmdInv /\ Return => CmdInv'
  <1> SUFFICES ASSUME PInv, ShowInv, CmdInv, Return PROVE CmdInv'
    OBVIOUS
  <1> DEFINE o == Outcome(argv[arg])
  <1>1. /\ phase \in {"blocks", "records"} /\ Listed /\ phase' = "args"
        /\ outcomes' = Append(outcomes, o) /\ arg' = arg + 1
        /\ UNCHANGED <<session, showReason, onlyBlock, only1000>>
    BY DEF Return, extractorVars, loopVars
  <1>2. /\ argv' = argv /\ argv \in Seq(STRING) /\ Len(argv) \in Nat
        /\ \A x : Given(x)' = Given(x)
        /\ \A i : Rank(i)' = Rank(i)
    BY <1>1, SameCommand, ArgvLen DEF PInv
  <1>3. arg \in 1 .. Len(argv) /\ ~ IsOption(argv[arg])
    BY <1>1 DEF CmdInv, AtFile
  <1>4. o \in OutcomeType
    <2>1. argv[arg] \in STRING
      BY <1>2, <1>3, ElementOfSeq
    <2>2. served \in Seq(Nat)
      <3>1. served \in Seq(1 .. FileSize)
        BY DEF PInv, Sources, SourceInv, SourceTypeOK
      <3>2. \A k \in 1 .. Len(served) : served[k] \in 1 .. FileSize
        BY <3>1, ElementOfSeq
      <3> QED
        BY <3>1, <3>2
    <2>3. pc \in {"idle", "bounds", "body", "eof", "thrown"}
      BY DEF PInv, Sources, Asked, IInv, TypeOK, Unasked
    <2> QED
      BY <2>1, <2>2, <2>3 DEF Outcome, OutcomeType, ShowInv, ExtractorTypeOK
  <1>5. ListedAs(o, argv[arg])
    <2>1. /\ o.name = argv[arg] /\ o.verdict = verdict /\ o.records = shown
          /\ o.end = pc
      BY DEF Outcome
    <2>2. only1000 = Given("--s") /\ onlyBlock = Given("--ob")
      BY <1>1 DEF CmdInv
    <2>3. Given("--s") \in BOOLEAN /\ Given("--ob") \in BOOLEAN
      BY DEF Given
    <2>4. CASE phase = "blocks"
      <3>1. onlyBlock /\ verdict = "none" /\ shown = << >>
        BY <2>4 DEF CmdInv
      <3>2. Len(shown) <= ShowLimit + 1
        BY <3>1, ShowLimitAssumption
      <3> QED
        BY <2>1, <2>2, <2>3, <3>1, <3>2 DEF ListedAs
    <2>5. CASE phase = "records"
      <3>1. /\ ~ onlyBlock /\ verdict # "none" /\ (pc = "eof" \/ only1000)
            /\ only1000 => Len(shown) <= ShowLimit + 1
        BY <1>1, <2>5 DEF CmdInv, Listed
      <3> QED
        BY <2>1, <2>2, <2>3, <3>1 DEF ListedAs
    <2> QED
      BY <1>1, <2>4, <2>5
  <1> HIDE DEF o
  <1>6. arg \in Nat /\ arg - 1 \in Nat /\ (arg - 1) + 1 = arg /\ arg' - 1 = arg
    BY <1>1, <1>3
  <1>7. /\ outcomes \in Seq(OutcomeType) /\ Len(outcomes) = Rank(arg - 1)
        /\ Rank(arg - 1) \in Nat /\ Rank(arg) = Rank(arg - 1) + 1
    <2>1. Rank(arg - 1) \in Nat
      BY <1>6, NamesFinite, Zenon
    <2>2. Rank((arg - 1) + 1) = Rank(arg - 1) + (IF IsOption(argv[(arg - 1) + 1]) THEN 0 ELSE 1)
      BY <1>6, RankNext, Zenon
    <2> QED
      BY <1>3, <1>6, <2>1, <2>2 DEF CmdInv
  <1>8. /\ outcomes' \in Seq(OutcomeType) /\ Len(outcomes') = Rank(arg)
        /\ outcomes'[Rank(arg)] = o
        /\ \A k \in 1 .. Rank(arg - 1) : outcomes'[k] = outcomes[k]
    BY <1>1, <1>4, <1>7
  <1>9. ASSUME NEW i \in 1 .. arg, ~ IsOption(argv[i])
        PROVE  ListedAs(outcomes'[Rank(i)], argv[i])
    <2>1. CASE i = arg
      BY <1>5, <1>8, <2>1
    <2>2. CASE i \in 1 .. arg - 1
      <3>0. i \in Nat /\ i <= arg - 1 /\ 0 < i /\ 0 <= i /\ 0 \in Nat
        BY <1>6, <2>2
      <3>1. Rank(i) <= Rank(arg - 1) /\ Rank(i) \in Nat
        BY <1>6, <3>0, RankUpTo, NamesFinite, Zenon
      <3>2. 0 < Rank(i)
        <4>1. Rank(0) < Rank(i) /\ Rank(0) \in Nat
          BY <1>9, <3>0, RankUpTo, NamesFinite, Zenon
        <4> QED
          BY <3>1, <4>1
      <3>3. outcomes'[Rank(i)] = outcomes[Rank(i)]
        BY <1>7, <1>8, <3>1, <3>2
      <3> QED
        BY <1>9, <2>2, <3>3 DEF CmdInv, AllListed
    <2> QED
      BY <1>6, <2>1, <2>2
  <1>10. AllListed'
    BY <1>1, <1>6, <1>9, ListedSame
  <1> QED
    BY <1>1, <1>2, <1>3, <1>6, <1>8, <1>10 DEF CmdInv

LEMMA CmdInvariance == ProgramSpec => []CmdInv
  <1>1. PInv /\ ShowInv /\ CmdInv /\ [ProgramNext]_programVars => CmdInv'
    <2> SUFFICES ASSUME PInv, ShowInv, CmdInv, [ProgramNext]_programVars PROVE CmdInv'
      OBVIOUS
    <2>1. CASE UNCHANGED programVars
      <3>1. UNCHANGED <<session, phase, arg, showReason, onlyBlock, outcomes, only1000,
                        verdict, shown, log, source, pc>>
        BY <2>1 DEF programVars, mainVars, extractorVars, vars, sourceVars,
                    recordVars, loopVars
      <3>2. /\ argv' = argv
            /\ \A x : Given(x)' = Given(x) /\ File(x)' = File(x)
            /\ \A i : Rank(i)' = Rank(i)
        BY <3>1, SameCommand
      <3>3. AllListed'
        BY <3>1, <3>2, ListedSame DEF CmdInv, AllListed
      <3> QED
        BY <3>1, <3>2, <3>3 DEF CmdInv, AtFile, AtFault, Opens
    <2> QED
      BY <2>1, CmdBetween, CmdOpen, CmdListBlocks, CmdListRecords, CmdReturn
      DEF ProgramNext, ProgramStep
  <1> QED
    BY ProgramInvariance, ShowInvariance, InitCmdInv, <1>1, PTL DEF ProgramSpec

\* main.cpp:93-111: every file is listed in its turn and the way the options ask
\* for, and the program ends early only at a file that cannot be listed.
THEOREM AsCommandedHolds == ProgramSpec => []AsCommanded
  <1>1. PInv /\ CmdInv => AsCommanded
    <2> SUFFICES ASSUME PInv, CmdInv PROVE AsCommanded
      OBVIOUS
    <2>1. /\ Len(argv) \in Nat /\ arg \in 1 .. Len(argv) + 1
          /\ arg - 1 \in Nat /\ arg - 1 <= Len(argv)
      BY ArgvLen DEF PInv, CmdInv
    <2>2. Len(outcomes) = Rank(arg - 1) /\ Rank(arg - 1) \in Nat
      BY <2>1, NamesFinite DEF CmdInv
    <2>3. Rank(arg - 1) <= Rank(Len(argv))
      BY <2>1, RankUpTo
    <2>4. ASSUME NEW i \in 1 .. Len(argv), ~ IsOption(argv[i]), Rank(i) <= Rank(arg - 1)
          PROVE  ListedAs(outcomes[Rank(i)], argv[i])
      <3>0. i \in Nat
        OBVIOUS
      <3>1. i \in Nat /\ Rank(i) \in Nat
        BY <3>0, NamesFinite, Zenon
      <3>2. CASE i > arg - 1
        <4>1. Rank(arg - 1) < Rank(i)
          BY <2>1, <2>4, <3>1, <3>2, RankUpTo
        <4> QED
          BY <2>2, <2>4, <3>1, <4>1
      <3>3. CASE i <= arg - 1
        BY <2>1, <2>4, <3>1, <3>3 DEF CmdInv, AllListed
      <3> QED
        BY <2>1, <3>1, <3>2, <3>3
    <2>5. phase = "exit" => Rank(arg - 1) = Rank(Len(argv))
      <3>1. phase = "exit" => arg - 1 = Len(argv)
        BY <2>1 DEF CmdInv
      <3> QED
        BY <3>1
    <2>6. ASSUME phase = "aborted"
          PROVE  \E i \in 1 .. Len(argv) :
                   /\ ~ IsOption(argv[i]) /\ Rank(i) = Rank(arg - 1) + 1
                   /\ LET f == File(argv[i]) IN
                        \/ ~ Opens(f)
                        \/ log = f.log /\ (source = "thrown" \/ pc = "thrown")
      <3>1. AtFault
        BY <2>6 DEF CmdInv
      <3>2. Rank((arg - 1) + 1) =
              Rank(arg - 1) + (IF IsOption(argv[(arg - 1) + 1]) THEN 0 ELSE 1)
        BY <2>1, RankNext, Zenon
      <3>3. (arg - 1) + 1 = arg
        BY <2>1
      <3> QED
        BY <3>1, <3>2, <3>3 DEF AtFault
    <2> QED
      BY <2>2, <2>3, <2>4, <2>5, <2>6 DEF AsCommanded
  <1> QED
    BY <1>1, ProgramInvariance, CmdInvariance, PTL

\* Every variable of the program keeps its type: those of a listing when the next
\* file is opened, and the outcomes of the listings before.
THEOREM ProgramTypeCorrect == ProgramSpec => []ProgramTypeOK
  <1>1. PInv => TypeOK
    <2> SUFFICES ASSUME PInv, Unasked PROVE TypeOK
      BY DEF PInv, Sources, Asked, IInv
    <2>1. SourceTypeOK /\ FileSize \in Nat
      BY SizeNat DEF PInv, Sources, SourceInv
    <2>2. << >> \in Seq(RecordType) /\ 0 \in 0 .. FileSize /\ 1 \in Nat \ {0} /\ 0 \in Nat
      BY <2>1
    <2> QED
      BY <2>1, <2>2, Zenon DEF Unasked, TypeOK
  <1>2. PInv /\ CmdInv => Len(outcomes) < arg
    <2> SUFFICES ASSUME PInv, CmdInv PROVE Len(outcomes) < arg
      OBVIOUS
    <2>1. arg - 1 \in Nat /\ arg \in Nat
      BY ArgvLen DEF PInv, CmdInv
    <2>2. Rank(arg - 1) \in Nat /\ Rank(arg - 1) <= arg - 1
      BY <2>1, NamesFinite, Zenon
    <2> QED
      BY <2>1, <2>2 DEF CmdInv
  <1>3. PInv /\ ShowInv /\ CmdInv => ProgramTypeOK
    BY <1>1, <1>2 DEF ProgramTypeOK, CmdInv, ShowInv
  <1> QED
    BY <1>3, ProgramInvariance, ShowInvariance, CmdInvariance, PTL

-----------------------------------------------------------------------------
(* The program comes to an end: the words of the command line are counted, *)
(* and within the listing of one file what that file has left.             *)

RankOf(p) ==
  IF p = "start" THEN 3
  ELSE IF p = "args" THEN 2
  ELSE IF p \in {"blocks", "records"} THEN 1 ELSE 0

WordsLeft == 2 * (Len(argv) + 1 - arg) + RankOf(phase)

FileLeft ==
  IF phase = "blocks" THEN SourceLeft
  ELSE IF phase = "records" THEN StepsLeft ELSE 0

LEMMA WordsLeftTyped == PInv /\ CmdInv => WordsLeft \in Nat
  <1> SUFFICES ASSUME PInv, CmdInv PROVE WordsLeft \in Nat
    OBVIOUS
  <1>1. RankOf(phase) \in Nat
    BY DEF RankOf
  <1>2. Len(argv) \in Nat /\ arg \in 1 .. Len(argv) + 1
    BY ArgvLen DEF PInv, CmdInv
  <1> QED
    BY <1>1, <1>2 DEF WordsLeft

LEMMA FileLeftTyped == PInv => FileLeft \in Nat
  <1> SUFFICES ASSUME PInv PROVE FileLeft \in Nat
    OBVIOUS
  <1>1. SourceLeft \in Nat /\ (phase = "records" => StepsLeft \in Nat)
    BY SourceLeftTyped, StepsLeftTyped DEF PInv, Sources, Asked
  <1> QED
    BY <1>1 DEF FileLeft

\* A step of the listing of one file.
LEMMA ListFalls ==
  ASSUME PInv, ListBlocks \/ ListRecords
  PROVE  WordsLeft' = WordsLeft /\ FileLeft' < FileLeft
  <1>1. /\ UNCHANGED <<session, phase, arg>>
        /\ ListBlocks => phase = "blocks"
        /\ ListRecords => phase = "records"
    BY DEF ListBlocks, ListRecords, mainVars
  <1>2. WordsLeft' = WordsLeft
    BY <1>1 DEF WordsLeft, argv
  <1>3. CASE ListBlocks
    <2>1. SourceLeft' < SourceLeft
      BY <1>3, SourceLeftFalls DEF ListBlocks, PInv, Sources
    <2> QED
      BY <1>1, <1>2, <1>3, <2>1 DEF FileLeft
  <1>4. CASE ListRecords
    <2>1. IInv /\ Step
      BY <1>1, <1>4, LoopStep DEF ListRecords, PInv, Asked
    <2>2. StepsLeft' < StepsLeft
      BY <2>1, StepLighter
    <2> QED
      BY <1>1, <1>2, <1>4, <2>2 DEF FileLeft
  <1> QED
    BY <1>3, <1>4

\* A step of main between two listings.
LEMMA MainFalls ==
  ASSUME PInv, CmdInv,
         \/ Usage \/ ParseOptions \/ SkipOption \/ OpenFile \/ OpenThrows
         \/ Exit \/ Return \/ Abort
  PROVE  WordsLeft' < WordsLeft
  <1>1. PICK n : n = Len(argv)
    OBVIOUS
  <1>2. n \in Nat /\ arg \in Nat
    BY <1>1, ArgvLen DEF PInv, CmdInv
  <1>3. argv' = argv
    BY DEF argv, Usage, ParseOptions, SkipOption, OpenFile, OpenThrows, Exit, Return,
           Abort
  <1>4. \/ arg' = arg /\ RankOf(phase') < RankOf(phase)
        \/ arg' = arg + 1 /\ RankOf(phase') <= RankOf(phase) + 1
    <2>1. CASE Usage \/ ParseOptions \/ OpenThrows \/ Exit \/ Abort
      BY <2>1 DEF Usage, ParseOptions, OpenThrows, AtWord, Exit, Abort, RankOf
    <2>2. CASE OpenFile
      BY <2>2 DEF OpenFile, AtWord, RankOf
    <2>3. CASE SkipOption \/ Return
      BY <2>3 DEF SkipOption, AtWord, Return, RankOf
    <2> QED
      BY <2>1, <2>2, <2>3
  <1>5. PICK r, s : r = RankOf(phase) /\ s = RankOf(phase')
    OBVIOUS
  <1>6. r \in Nat /\ s \in Nat
    BY <1>5 DEF RankOf
  <1>7. WordsLeft = 2 * (n + 1 - arg) + r /\ WordsLeft' = 2 * (n + 1 - arg') + s
    BY <1>1, <1>3, <1>5 DEF WordsLeft
  <1>8. \/ arg' = arg /\ s < r
        \/ arg' = arg + 1 /\ s <= r + 1
    BY <1>4, <1>5
  <1>9. 2 * (n + 1 - arg') + s < 2 * (n + 1 - arg) + r
    BY <1>2, <1>6, <1>8
  <1> QED
    BY <1>7, <1>9

Progress == WordsLeft' < WordsLeft \/ (WordsLeft' = WordsLeft /\ FileLeft' < FileLeft)

LEMMA InitWordsLeft == ProgramInit => WordsLeft = 2 * Len(argv) + 3
  <1> SUFFICES ASSUME ProgramInit PROVE WordsLeft = 2 * Len(argv) + 3
    OBVIOUS
  <1>1. PICK n : n = Len(argv)
    OBVIOUS
  <1>2. n \in Nat /\ arg = 1 /\ phase = "start"
    BY <1>1, ArgvLen DEF ProgramInit
  <1>3. WordsLeft = 2 * (n + 1 - arg) + 3
    BY <1>1, <1>2 DEF WordsLeft, RankOf
  <1> QED
    BY <1>1, <1>2, <1>3

LEMMA ProgramProgress == PInv /\ CmdInv /\ [ProgramNext]_programVars => [Progress]_programVars
  BY ListFalls, MainFalls DEF ProgramNext, ProgramStep, Progress

\* main.cpp:24-111: whatever is on the command line and in the files, every step
\* brings the program nearer to its end. A word of the command line once passed
\* is never looked at again, and between two words the listing of a file only
\* uses up what the file has left.
THEOREM ProgramProgresses ==
  ProgramSpec => /\ WordsLeft = 2 * Len(argv) + 3
                 /\ [](WordsLeft \in Nat /\ FileLeft \in Nat)
                 /\ [][Progress]_programVars
  BY ProgramInvariance, CmdInvariance, InitWordsLeft, WordsLeftTyped, FileLeftTyped,
     ProgramProgress, PTL DEF ProgramSpec

-----------------------------------------------------------------------------
(* Progress cannot go on for ever: it falls in a well-founded order.        *)

NatLess == OpToRel(<, Nat)
Falling == LexPairOrdering(NatLess, NatLess, Nat, Nat)
LeftFalls == <<<<WordsLeft', FileLeft'>>, <<WordsLeft, FileLeft>>>> \in Falling

LEMMA FallingIs ==
  ASSUME NEW a \in Nat, NEW b \in Nat, NEW c \in Nat, NEW d \in Nat,
         a < c \/ (a = c /\ b < d)
  PROVE  <<<<a, b>>, <<c, d>>>> \in Falling
  <1>1. NatLess = {ss \in Nat \X Nat : ss[1] < ss[2]}
    BY DEF NatLess, OpToRel
  <1>2. <<a, c>> \in NatLess \/ (a = c /\ <<b, d>> \in NatLess)
    BY <1>1
  <1> QED
    BY <1>2 DEF Falling, LexPairOrdering

\* main.cpp:24-111: no run of the program takes infinitely many steps. The pairs
\* of what is left fall at every step, in an order in which nothing falls for
\* ever.
THEOREM ProgramWellFounded ==
  /\ IsWellFoundedOn(Falling, Nat \X Nat)
  /\ ProgramSpec => [][LeftFalls]_programVars
  <1>1. IsWellFoundedOn(Falling, Nat \X Nat)
    <2>1. IsWellFoundedOn(NatLess, Nat)
      BY NatLessThanWellFounded DEF NatLess
    <2> QED
      BY <2>1, WFLexPairOrdering DEF Falling
  <1>2. /\ WordsLeft \in Nat /\ FileLeft \in Nat
        /\ (WordsLeft \in Nat /\ FileLeft \in Nat)'
        /\ [Progress]_programVars
        => [LeftFalls]_programVars
    BY FallingIs DEF Progress, LeftFalls
  <1> QED
    BY <1>1, <1>2, ProgramProgresses, PTL

-----------------------------------------------------------------------------
(* The listing of a file as a function. A state of the program holds one    *)
(* listing and Repeatable compares two, so what a listing does is stated    *)
(* without the variables: f is what it depends on (a log, the chunk size    *)
(* and the two options that steer it), s its state, and After(f, s) the     *)
(* state one step later. ListGoes proves that the steps of the program are  *)
(* those of After.                                                          *)

SourceState(at, bad, waiting, gone, is) ==
  [pos |-> at, failed |-> bad, queue |-> waiting, served |-> gone, source |-> is]
FillState(i, k, o, r, n, b) ==
  [cur |-> i, idx |-> k, start |-> o, rec |-> r, need |-> n, first |-> b]
LoopState(n, rs, gaps, v) ==
  [last |-> n, shown |-> rs, missing |-> gaps, verdict |-> v]
ListingState(src, at, out, lwn, again, fill, loop) ==
  [src |-> src, pc |-> at, out |-> out, lwn |-> lwn, again |-> again,
   fill |-> fill, loop |-> loop]

BlockOf(f, i) == f.log.blocks[i]
SizeOf(f) == Len(f.log.blocks)

\* One call of the block source, whose state is s.
ChunkTo(f, s) == IF s.pos + f.chunk <= SizeOf(f) THEN s.pos + f.chunk ELSE SizeOf(f)
ShortFor(f, s) == s.pos + f.chunk > SizeOf(f)
BadFor(f, s) == ~ s.failed /\ ShortFor(f, s) /\ f.log.tail
DrainsFor(f, s) ==
  /\ ~ s.failed /\ s.pos < SizeOf(f) /\ ~ BadFor(f, s)
  /\ BlockOf(f, s.pos + 1).lsn = Lsn
OwnFor(f, s, n) ==
  /\ \A i \in 1 .. n : BlockOf(f, s.pos + i).lsn = Lsn
  /\ s.pos + n < ChunkTo(f, s) => BlockOf(f, s.pos + n + 1).lsn # Lsn
OwnCount(f, s) == CHOOSE n \in 1 .. ChunkTo(f, s) - s.pos : OwnFor(f, s, n)

AfterCall(f, s) ==
  IF s.queue # << >> THEN
    SourceState(s.pos, s.failed, Tail(s.queue), Append(s.served, s.queue[1]), s.source)
  ELSE IF DrainsFor(f, s) THEN
    SourceState(ChunkTo(f, s), ShortFor(f, s),
                [k \in 1 .. OwnCount(f, s) - 1 |-> (s.pos + 1) + k],
                Append(s.served, s.pos + 1), s.source)
  ELSE IF BadFor(f, s) THEN
    SourceState(ChunkTo(f, s), TRUE, s.queue, s.served, "thrown")
  ELSE
    SourceState(IF s.failed THEN s.pos ELSE ChunkTo(f, s), s.failed \/ ShortFor(f, s),
                s.queue, s.served, "ended")

LastOf(s) == s.served[Len(s.served)]

\* A record waits for the loop of shows.
VerdictFor(f, n) == IF f.log.nab = NoNab \/ n = f.log.nab - 1 THEN "true" ELSE "false"

AfterShow(f, l, r) ==
  IF f.only1000 /\ Len(l.shown) > ShowLimit
  THEN LoopState(l.last, l.shown, l.missing, VerdictFor(f, l.last))
  ELSE LoopState(BlockOf(f, r.blk).no + r.bound.next_blocks, Append(l.shown, r),
                 IF l.last # -1 /\ BlockOf(f, r.blk).no > l.last + 1
                 THEN Append(l.missing, [from |-> l.last + 1,
                                         to |-> BlockOf(f, r.blk).no - 1])
                 ELSE l.missing,
                 l.verdict)

AfterDeliver(f, s) ==
  ListingState(s.src, s.pc, Tail(s.out), s.lwn, s.again, s.fill,
               AfterShow(f, s.loop, s.out[1]))

\* Between two blocks.
AfterEnter(f, s, src, i) ==
  ListingState(src, "bounds", s.out, s.lwn, 0,
               FillState(i, 1, BlockOf(f, i).offset, s.fill.rec, s.fill.need, s.fill.first),
               s.loop)

AfterNext(f, s, src) ==
  IF src.source = "open" THEN AfterEnter(f, s, src, LastOf(src))
  ELSE IF src.source = "thrown" THEN
    ListingState(src, "thrown", s.out, s.lwn, s.again, s.fill, s.loop)
  ELSE
    ListingState(src, "eof", s.out, s.lwn, s.again, s.fill,
                 LoopState(s.loop.last, s.loop.shown, s.loop.missing,
                           VerdictFor(f, s.loop.last)))

AfterIdle(f, s) ==
  IF s.out # << >> THEN AfterDeliver(f, s)
  ELSE IF s.again # 0 THEN AfterEnter(f, s, s.src, s.again)
  ELSE AfterNext(f, s, AfterCall(f, s.src))

\* At a bound of the block in hand.
WaterFor(bound, lwn) ==
  IF dependBit_on(bound.info.vld) THEN [low |-> bound.info.low, nxt |-> bound.info.nxt]
  ELSE lwn

AfterBound(f, s, x, room) ==
  IF x.len > room THEN
    ListingState(s.src, "body", s.out, s.lwn, s.again,
                 FillState(s.fill.cur, s.fill.idx, s.fill.start,
                           Record(s.fill.cur, s.fill.start, x,
                                  <<Slice(s.fill.cur, s.fill.start, room)>>),
                           x.len - room, TRUE),
                 s.loop)
  ELSE IF HeadFits(x) THEN
    ListingState(s.src, s.pc,
                 Append(s.out, Record(s.fill.cur, s.fill.start, x,
                                      <<Slice(s.fill.cur, s.fill.start, x.len)>>)),
                 WaterFor(x, s.lwn), s.again,
                 FillState(s.fill.cur, s.fill.idx + 1, s.fill.start + x.len, s.fill.rec,
                           s.fill.need, s.fill.first),
                 s.loop)
  ELSE ListingState(s.src, "thrown", s.out, s.lwn, s.again, s.fill, s.loop)

AfterBounds(f, s) ==
  LET bs == BlockOf(f, s.fill.cur).bounds IN
    IF s.fill.idx <= Len(bs) /\ fairBound(bs[s.fill.idx], s.lwn)
    THEN AfterBound(f, s, bs[s.fill.idx], BlockSz - s.fill.start)
    ELSE ListingState(s.src, "idle", s.out, s.lwn, s.again, s.fill, s.loop)

FillWith(fill, r, n) == FillState(fill.cur, fill.idx, fill.start, r, n, FALSE)

\* At a continuation block, of which fbs suit the note.
AfterPart(s, src, i, offset, fbs, replaced) ==
  LET r == s.fill.rec
      n == s.fill.need
  IN IF replaced \/ (~ (n <= body_sz) /\ Len(fbs) > 1) THEN
       ListingState(src, "idle", s.out, s.lwn, i, FillWith(s.fill, NoRec, 0), s.loop)
     ELSE IF n <= body_sz /\ HeadFits(r.bound) THEN
       ListingState(src, "idle", Append(s.out, WithSlice(r, i, n)),
                    WaterFor(r.bound, s.lwn),
                    IF n = body_sz \/ offset < r.bound.next_offset THEN 0 ELSE i,
                    FillWith(s.fill, NoRec, 0), s.loop)
     ELSE IF n <= body_sz \/ (Len(fbs) = 1 /\ prefer_new(r.bound, fbs[1], s.lwn)) THEN
       ListingState(src, "thrown", s.out, s.lwn, s.again, FillWith(s.fill, r, n), s.loop)
     ELSE
       ListingState(src, s.pc, s.out, s.lwn, s.again,
                    FillWith(s.fill, WithSlice(r, i, body_sz), n - body_sz), s.loop)

AfterBlock(f, s, src, i) ==
  AfterPart(s, src, i, BlockOf(f, i).offset, fairBounds(BlockOf(f, i), s.lwn),
            /\ s.fill.first
            /\ choose_new(s.fill.rec.bound, BlockOf(f, i),
                          fairBounds(BlockOf(f, i), s.lwn), s.lwn))

AfterBody(f, s, src) ==
  IF src.source = "open" THEN AfterBlock(f, s, src, LastOf(src))
  ELSE ListingState(src, "thrown", s.out, s.lwn, s.again, s.fill, s.loop)

After(f, s) ==
  IF f.onlyBlock THEN
    ListingState(AfterCall(f, s.src), s.pc, s.out, s.lwn, s.again, s.fill, s.loop)
  ELSE IF s.pc = "idle" THEN AfterIdle(f, s)
  ELSE IF s.pc = "bounds" THEN AfterBounds(f, s)
  ELSE AfterBody(f, s, AfterCall(f, s.src))

\* What shows starts from, and when it is over.
Fresh ==
  ListingState(SourceState(0, FALSE, << >>, << >>, "open"), "idle", << >>, NoLwn, 0,
               FillState(0, 1, 0, NoRec, 0, FALSE), LoopState(-1, << >>, << >>, "none"))

Halted(f, s) ==
  IF f.onlyBlock THEN s.src.source # "open"
  ELSE s.loop.verdict # "none" \/ s.pc = "thrown"

\* What is in hand.
Source1 == SourceState(pos, failed, queue, served, source)
Fill1 == FillState(cur, idx, start, rec, need, first)
Loop1 == LoopState(last, shown, missing, verdict)
Now == ListingState(Source1, pc, out_buffer, lwn_ctx, latest_block, Fill1, Loop1)
Env == [log |-> log, chunk |-> chunk, only1000 |-> only1000, onlyBlock |-> onlyBlock]

-----------------------------------------------------------------------------
(* The calls of the block source are those of AfterCall.                    *)

LEMMA SourceIs ==
  /\ Source1.pos = pos /\ Source1.failed = failed /\ Source1.queue = queue
  /\ Source1.served = served /\ Source1.source = source
  BY DEF Source1, SourceState

LEMMA SourceIsNext ==
  /\ Source1'.served = served' /\ Source1'.source = source'
  BY DEF Source1, SourceState

LEMMA EnvIs ==
  /\ Env.log = log /\ Env.chunk = chunk
  /\ Env.only1000 = only1000 /\ Env.onlyBlock = onlyBlock
  /\ SizeOf(Env) = FileSize /\ \A i : BlockOf(Env, i) = Block(i)
  BY DEF Env, SizeOf, FileSize, BlockOf, Block

LEMMA ChunkIs ==
  /\ ChunkTo(Env, Source1) = ChunkEnd
  /\ ShortFor(Env, Source1) = ShortRead
  /\ BadFor(Env, Source1) = BadRead
  /\ DrainsFor(Env, Source1) = Drains
  /\ \A n : OwnFor(Env, Source1, n) = Own(n)
  <1>1. ChunkTo(Env, Source1) = ChunkEnd
    BY SourceIs, EnvIs DEF ChunkTo, ChunkEnd
  <1>2. ShortFor(Env, Source1) = ShortRead
    BY SourceIs, EnvIs DEF ShortFor, ShortRead
  <1>3. BadFor(Env, Source1) = BadRead
    BY <1>2, SourceIs, EnvIs DEF BadFor, BadRead
  <1>4. DrainsFor(Env, Source1) = Drains
    BY <1>3, SourceIs, EnvIs DEF DrainsFor, Drains
  <1>5. ASSUME NEW n PROVE OwnFor(Env, Source1, n) = Own(n)
    BY <1>1, SourceIs, EnvIs DEF OwnFor, Own
  <1> QED
    BY <1>1, <1>2, <1>3, <1>4, <1>5

\* Only one number of blocks comes before a foreign one.
LEMMA OwnOnce ==
  ASSUME SourceInv, NEW n \in 1 .. ChunkEnd - pos, Own(n)
  PROVE  OwnCount(Env, Source1) = n
  <1>1. pos \in Nat /\ ChunkEnd \in Nat
    BY SourceNats DEF ChunkEnd
  <1>2. ASSUME NEW m \in 1 .. ChunkEnd - pos, NEW k \in 1 .. ChunkEnd - pos,
               Own(m), Own(k), m < k
        PROVE  FALSE
    <2>1. m + 1 \in 1 .. k /\ pos + m < ChunkEnd /\ pos + (m + 1) = pos + m + 1
      BY <1>1, <1>2
    <2>2. Block(pos + (m + 1)).lsn = Lsn /\ Block(pos + m + 1).lsn # Lsn
      BY <1>2, <2>1, Zenon DEF Own
    <2> QED
      BY <2>1, <2>2
  <1>3. \A m \in 1 .. ChunkEnd - pos : Own(m) => m = n
    BY <1>1, <1>2
  <1>4. OwnCount(Env, Source1) = CHOOSE m \in 1 .. ChunkEnd - pos : Own(m)
    BY ChunkIs, SourceIs, Zenon DEF OwnCount
  <1> QED
    BY <1>3, <1>4

LEMMA ServeAfter ==
  ASSUME SourceInv, NEW i, Serve(i)
  PROVE  /\ Source1' = AfterCall(Env, Source1)
         /\ Source1'.source = source /\ LastOf(Source1') = i /\ UNCHANGED <<log, chunk>>
  <1>1. UNCHANGED <<log, chunk>>
    BY DEF Serve, ServeQueued, ServeDrained
  <1>2. served' = Append(served, i) /\ served \in Seq(1 .. FileSize)
    BY SourceNats DEF Serve, ServeQueued, ServeDrained
  <1>3. served'[Len(served')] = i
    BY <1>2
  <1>4. CASE ServeQueued(i)
    <2>1. Source1' = SourceState(pos, failed, Tail(queue), Append(served, queue[1]), source)
      BY <1>4 DEF ServeQueued, Source1
    <2>2. queue # << >> /\ source' = source
      BY <1>4 DEF ServeQueued
    <2> QED
      BY <1>1, <1>3, <2>1, <2>2, SourceIs, SourceIsNext DEF AfterCall, LastOf
  <1>5. CASE ServeDrained(i)
    <2>1. PICK n \in 1 .. ChunkEnd - pos : Own(n) /\ queue' = [k \in 1 .. n - 1 |-> i + k]
      BY <1>5 DEF ServeDrained
    <2>2. OwnCount(Env, Source1) = n
      BY <2>1, OwnOnce
    <2>3. queue = << >> /\ Drains /\ i = pos + 1 /\ source' = source
      BY <1>5 DEF ServeDrained
    <2>4. Source1' = SourceState(ChunkEnd, ShortRead, [k \in 1 .. n - 1 |-> (pos + 1) + k],
                                Append(served, pos + 1), source)
      BY <1>5, <2>1, <2>3 DEF ServeDrained, Source1
    <2> QED
      BY <1>1, <1>3, <2>2, <2>3, <2>4, SourceIs, SourceIsNext, ChunkIs DEF AfterCall, LastOf
  <1> QED
    BY <1>4, <1>5 DEF Serve

LEMMA NoneAfter ==
  ASSUME ServeNone
  PROVE  /\ Source1' = AfterCall(Env, Source1)
         /\ Source1'.source = "ended" /\ UNCHANGED <<log, chunk>>
  <1>1. UNCHANGED <<log, chunk>>
    BY DEF ServeNone
  <1>2. Source1' = SourceState(IF failed THEN pos ELSE ChunkEnd, failed \/ ShortRead,
                              queue, served, "ended")
    BY DEF ServeNone, Source1
  <1>3. queue = << >> /\ ~ Drains /\ ~ BadRead
    BY DEF ServeNone
  <1> QED
    BY <1>1, <1>2, <1>3, SourceIs, SourceIsNext, ChunkIs DEF AfterCall, SourceState

LEMMA ThrowAfter ==
  ASSUME ServeThrow
  PROVE  /\ Source1' = AfterCall(Env, Source1)
         /\ Source1'.source = "thrown" /\ UNCHANGED <<log, chunk>>
  <1>1. UNCHANGED <<log, chunk>>
    BY DEF ServeThrow
  <1>2. Source1' = SourceState(ChunkEnd, TRUE, queue, served, "thrown")
    BY DEF ServeThrow, Source1
  <1>3. queue = << >> /\ BadRead /\ ~ Drains
    BY DEF ServeThrow, Drains
  <1> QED
    BY <1>1, <1>2, <1>3, SourceIs, SourceIsNext, ChunkIs DEF AfterCall, SourceState

-----------------------------------------------------------------------------
(* The steps of the listing are those of After.                             *)

LEMMA NowIs ==
  /\ Now.src = Source1 /\ Now.pc = pc /\ Now.out = out_buffer /\ Now.lwn = lwn_ctx
  /\ Now.again = latest_block /\ Now.fill = Fill1 /\ Now.loop = Loop1
  BY DEF Now, ListingState

LEMMA FillIs ==
  /\ Fill1.cur = cur /\ Fill1.idx = idx /\ Fill1.start = start
  /\ Fill1.rec = rec /\ Fill1.need = need /\ Fill1.first = first
  BY DEF Fill1, FillState

LEMMA LoopIs ==
  /\ Loop1.last = last /\ Loop1.shown = shown
  /\ Loop1.missing = missing /\ Loop1.verdict = verdict
  BY DEF Loop1, LoopState

LEMMA NowNext ==
  Now' = ListingState(Source1', pc', out_buffer', lwn_ctx', latest_block', Fill1', Loop1')
  BY DEF Now

LEMMA SourceSame == UNCHANGED sourceVars => Source1' = Source1 /\ UNCHANGED <<log, chunk>>
  BY DEF sourceVars, Source1

LEMMA FillSame == UNCHANGED fillVars => Fill1' = Fill1
  BY DEF fillVars, Fill1

LEMMA LoopSame == UNCHANGED loopVars => Loop1' = Loop1 /\ only1000' = only1000
  BY DEF loopVars, Loop1

\* A step that leaves what the listing depends on as it is, and goes where After
\* says.
Goes == Now' = After(Env, Now) /\ UNCHANGED <<log, chunk, only1000>>

LEMMA AtIdleGoes ==
  ASSUME ~ onlyBlock, pc = "idle"
  PROVE  After(Env, Now) = AfterIdle(Env, Now)
  BY NowIs, EnvIs DEF After

LEMMA ShowGoes ==
  ASSUME ~ onlyBlock, ShowRecord \/ Break
  PROVE  Goes
  <1>1. /\ pc = "idle" /\ out_buffer # << >> /\ out_buffer' = Tail(out_buffer)
        /\ UNCHANGED <<pc, lwn_ctx, latest_block, only1000>>
        /\ UNCHANGED sourceVars /\ UNCHANGED fillVars
    BY DEF ShowRecord, Break, Deliver
  <1>2. Loop1' = AfterShow(Env, Loop1, out_buffer[1])
    <2>1. CASE ShowRecord
      <3>1. ~ (only1000 /\ Len(shown) > ShowLimit)
        BY <2>1 DEF ShowRecord, LimitReached
      <3>2. Loop1' = LoopState(EndBlock(out_buffer[1]), Append(shown, out_buffer[1]),
                               IF last # -1 /\ BlockNo(out_buffer[1]) > last + 1
                               THEN Append(missing, [from |-> last + 1,
                                                     to |-> BlockNo(out_buffer[1]) - 1])
                               ELSE missing,
                               verdict)
        BY <2>1 DEF ShowRecord, Loop1
      <3> QED
        BY <3>1, <3>2, LoopIs, EnvIs DEF AfterShow, EndBlock, BlockNo
    <2>2. CASE Break
      <3>1. only1000 /\ Len(shown) > ShowLimit
        BY <2>2 DEF Break, LimitReached
      <3>2. Loop1' = LoopState(last, shown, missing, VerdictFor(Env, last))
        BY <2>2, EnvIs DEF Break, Verdict, VerdictFor, Loop1
      <3> QED
        BY <3>1, <3>2, LoopIs, EnvIs DEF AfterShow
    <2> QED
      BY <2>1, <2>2
  <1>3. Now' = ListingState(Source1, pc, Tail(out_buffer), lwn_ctx, latest_block, Fill1,
                            AfterShow(Env, Loop1, out_buffer[1]))
    BY <1>1, <1>2, NowNext, SourceSame, FillSame
  <1>4. AfterIdle(Env, Now) = AfterDeliver(Env, Now)
    BY <1>1, NowIs DEF AfterIdle
  <1> QED
    BY <1>1, <1>3, <1>4, AtIdleGoes, NowIs, SourceSame DEF AfterDeliver, Goes

LEMMA EnterGoes ==
  ASSUME NEW i, Enter(i), UNCHANGED loopVars
  PROVE  Now' = AfterEnter(Env, Now, Source1', i)
  <1>1. /\ pc' = "bounds" /\ latest_block' = 0
        /\ UNCHANGED <<out_buffer, lwn_ctx>>
    BY DEF Enter
  <1>2. Fill1' = FillState(i, 1, Block(i).offset, rec, need, first)
    BY DEF Enter, Fill1
  <1>3. Now' = ListingState(Source1', "bounds", out_buffer, lwn_ctx, 0,
                            FillState(i, 1, Block(i).offset, rec, need, first), Loop1)
    BY <1>1, <1>2, NowNext, LoopSame
  <1> QED
    BY <1>3, NowIs, FillIs, EnvIs DEF AfterEnter

LEMMA EnterLatestGoes ==
  ASSUME ~ onlyBlock, EnterLatest, UNCHANGED loopVars
  PROVE  Goes
  <1>1. /\ pc = "idle" /\ out_buffer = << >> /\ latest_block # 0
        /\ Enter(latest_block) /\ Source1' = Source1 /\ UNCHANGED <<log, chunk, only1000>>
    BY SourceSame, LoopSame DEF EnterLatest, Enter
  <1>2. Now' = AfterEnter(Env, Now, Source1, latest_block)
    BY <1>1, EnterGoes
  <1> QED
    BY <1>1, <1>2, AtIdleGoes, NowIs DEF AfterIdle, Goes

LEMMA EnterNextGoes ==
  ASSUME IInv, ~ onlyBlock, EnterNext, UNCHANGED loopVars
  PROVE  Goes
  <1>1. PICK i \in 1 .. FileSize : Serve(i) /\ Enter(i)
    BY DEF EnterNext
  <1>2. pc = "idle" /\ out_buffer = << >> /\ latest_block = 0
    BY <1>1 DEF EnterNext, Enter
  <1>3. SourceInv /\ source = "open"
    BY <1>2 DEF IInv, StillOpen, Finished
  <1>4. /\ Source1' = AfterCall(Env, Source1) /\ UNCHANGED <<log, chunk>>
        /\ Source1'.source = "open" /\ LastOf(Source1') = i
    BY <1>1, <1>3, ServeAfter
  <1>5. Now' = AfterEnter(Env, Now, Source1', i)
    BY <1>1, EnterGoes
  <1>6. AfterIdle(Env, Now) = AfterNext(Env, Now, Source1')
    BY <1>2, <1>4, NowIs DEF AfterIdle
  <1> QED
    BY <1>2, <1>4, <1>5, <1>6, AtIdleGoes, LoopSame DEF AfterNext, Goes

LEMMA NoMoreGoes ==
  ASSUME ~ onlyBlock, NoMoreRecords
  PROVE  Goes
  <1>1. /\ pc = "idle" /\ out_buffer = << >> /\ latest_block = 0 /\ ServeNone
        /\ pc' = "eof" /\ UNCHANGED <<out_buffer, lwn_ctx, latest_block, only1000>>
        /\ UNCHANGED fillVars
    BY DEF NoMoreRecords, EndOfFile
  <1>2. Loop1' = LoopState(last, shown, missing, VerdictFor(Env, last))
    BY EnvIs DEF NoMoreRecords, Verdict, VerdictFor, Loop1
  <1>3. /\ Source1' = AfterCall(Env, Source1) /\ UNCHANGED <<log, chunk>>
        /\ Source1'.source = "ended"
    BY <1>1, NoneAfter
  <1>4. AfterIdle(Env, Now) = AfterNext(Env, Now, Source1')
    BY <1>1, <1>3, NowIs DEF AfterIdle
  <1>5. Now' = ListingState(Source1', "eof", out_buffer, lwn_ctx, latest_block, Fill1,
                            LoopState(last, shown, missing, VerdictFor(Env, last)))
    BY <1>1, <1>2, NowNext, FillSame
  <1> QED
    BY <1>1, <1>3, <1>4, <1>5, AtIdleGoes, NowIs, LoopIs DEF AfterNext, Goes

\* The step ends in an exception of the block source, or for want of blocks.
LEMMA SourceThrowsGoes ==
  ASSUME ~ onlyBlock, SourceThrows \/ NotEnoughBlocks, UNCHANGED loopVars
  PROVE  Goes
  <1>1. /\ pc' = "thrown" /\ UNCHANGED <<out_buffer, lwn_ctx, latest_block>>
        /\ UNCHANGED fillVars
    BY DEF SourceThrows, NotEnoughBlocks
  <1>2. /\ Source1' = AfterCall(Env, Source1) /\ UNCHANGED <<log, chunk>>
        /\ Source1'.source # "open"
        /\ pc = "idle" => Source1'.source = "thrown"
    BY NoneAfter, ThrowAfter DEF SourceThrows, NotEnoughBlocks
  <1>3. Now' = ListingState(Source1', "thrown", out_buffer, lwn_ctx, latest_block, Fill1,
                            Loop1)
    BY <1>1, NowNext, FillSame, LoopSame
  <1>4. CASE pc = "body"
    <2>1. After(Env, Now) = AfterBody(Env, Now, Source1')
      BY <1>2, <1>4, NowIs, EnvIs DEF After
    <2> QED
      BY <1>2, <1>3, <2>1, NowIs, LoopSame DEF AfterBody, Goes
  <1>5. CASE pc = "idle"
    <2>1. out_buffer = << >> /\ latest_block = 0
      BY <1>5 DEF SourceThrows, NotEnoughBlocks
    <2>2. AfterIdle(Env, Now) = AfterNext(Env, Now, Source1')
      BY <1>2, <2>1, NowIs DEF AfterIdle
    <2> QED
      BY <1>2, <1>3, <1>5, <2>2, AtIdleGoes, NowIs, LoopSame DEF AfterNext, Goes
  <1> QED
    BY <1>4, <1>5 DEF SourceThrows, NotEnoughBlocks

LEMMA AtBoundsGoes ==
  ASSUME ~ onlyBlock, pc = "bounds"
  PROVE  After(Env, Now) =
           IF Suits THEN AfterBound(Env, Now, Bound, Room0)
           ELSE ListingState(Source1, "idle", out_buffer, lwn_ctx, latest_block, Fill1, Loop1)
  <1>1. After(Env, Now) = AfterBounds(Env, Now)
    BY NowIs, EnvIs DEF After
  <1>2. /\ BlockOf(Env, Now.fill.cur) = Block(cur) /\ Now.fill.idx = idx
        /\ Now.fill.start = start /\ Now.lwn = lwn_ctx
    BY NowIs, FillIs, EnvIs
  <1> QED
    BY <1>1, <1>2, NowIs DEF AfterBounds, Suits, Bound, Room0

LEMMA LeaveBoundsGoes ==
  ASSUME ~ onlyBlock, LeaveBounds, UNCHANGED loopVars
  PROVE  Goes
  <1>1. /\ pc = "bounds" /\ ~ Suits
        /\ pc' = "idle" /\ UNCHANGED <<out_buffer, lwn_ctx, latest_block>>
        /\ UNCHANGED fillVars /\ UNCHANGED sourceVars
    BY DEF LeaveBounds
  <1>2. Now' = ListingState(Source1, "idle", out_buffer, lwn_ctx, latest_block, Fill1, Loop1)
    BY <1>1, NowNext, FillSame, LoopSame, SourceSame
  <1> QED
    BY <1>1, <1>2, AtBoundsGoes, LoopSame, SourceSame DEF Goes

\* The bound and the room left for it can be compared.
LEMMA BoundRoom == IInv /\ AtBound => Bound.len \in Nat /\ Room0 \in Int
  BY AtTheBound, BlockSzAssumption DEF Room0

LEMMA WholeRecordGoes ==
  ASSUME IInv, ~ onlyBlock, WholeRecord, UNCHANGED loopVars
  PROVE  Goes
  <1> DEFINE x == Bound
             r == Record(cur, start, x, <<Slice(cur, start, x.len)>>)
  <1>1. /\ pc = "bounds" /\ Suits /\ x.len <= Room0 /\ HeadFits(x)
        /\ out_buffer' = Append(out_buffer, r)
        /\ UNCHANGED <<pc, latest_block>> /\ UNCHANGED sourceVars
    BY DEF WholeRecord, AtBound
  <1>2. lwn_ctx' = WaterFor(x, lwn_ctx)
    BY DEF WholeRecord, Water, WaterFor
  <1>3. Fill1' = FillState(cur, idx + 1, start + x.len, rec, need, first)
    BY DEF WholeRecord, Fill1
  <1>6. After(Env, Now) = AfterBound(Env, Now, x, Room0)
    BY <1>1, AtBoundsGoes
  <1>7. x.len \in Nat /\ Room0 \in Int
    BY BoundRoom DEF WholeRecord
  <1> HIDE DEF x
  <1>4. Now' = ListingState(Source1, pc, Append(out_buffer, r), WaterFor(x, lwn_ctx),
                            latest_block,
                            FillState(cur, idx + 1, start + x.len, rec, need, first), Loop1)
    BY <1>1, <1>2, <1>3, NowNext, LoopSame, SourceSame
  <1>5. ~ (x.len > Room0)
    BY <1>1, <1>7
  <1> QED
    BY <1>1, <1>4, <1>5, <1>6, NowIs, FillIs, LoopSame, SourceSame DEF AfterBound, Goes

LEMMA BadWholeRecordGoes ==
  ASSUME IInv, ~ onlyBlock, BadWholeRecord, UNCHANGED loopVars
  PROVE  Goes
  <1> DEFINE x == Bound
  <1>1. /\ pc = "bounds" /\ Suits /\ x.len <= Room0 /\ ~ HeadFits(x)
        /\ pc' = "thrown" /\ UNCHANGED <<out_buffer, lwn_ctx, latest_block>>
        /\ UNCHANGED sourceVars /\ UNCHANGED fillVars
    BY DEF BadWholeRecord, AtBound
  <1>2. x.len \in Nat /\ Room0 \in Int
    BY BoundRoom DEF BadWholeRecord
  <1>3. After(Env, Now) = AfterBound(Env, Now, x, Room0)
    BY <1>1, AtBoundsGoes
  <1> HIDE DEF x
  <1>4. Now' = ListingState(Source1, "thrown", out_buffer, lwn_ctx, latest_block, Fill1, Loop1)
    BY <1>1, NowNext, FillSame, LoopSame, SourceSame
  <1>5. ~ (x.len > Room0)
    BY <1>1, <1>2
  <1> QED
    BY <1>1, <1>3, <1>4, <1>5, NowIs, LoopSame, SourceSame DEF AfterBound, Goes

LEMMA SplitRecordGoes ==
  ASSUME ~ onlyBlock, SplitRecord, UNCHANGED loopVars
  PROVE  Goes
  <1> DEFINE x == Bound
             r == Record(cur, start, x, <<Slice(cur, start, Room0)>>)
  <1>1. /\ pc = "bounds" /\ Suits /\ x.len > Room0
        /\ pc' = "body" /\ UNCHANGED <<out_buffer, lwn_ctx, latest_block>>
        /\ UNCHANGED sourceVars
    BY DEF SplitRecord, AtBound
  <1>2. Fill1' = FillState(cur, idx, start, r, x.len - Room0, TRUE)
    BY DEF SplitRecord, Fill1
  <1>3. After(Env, Now) = AfterBound(Env, Now, x, Room0)
    BY <1>1, AtBoundsGoes
  <1> HIDE DEF x
  <1>4. Now' = ListingState(Source1, "body", out_buffer, lwn_ctx, latest_block,
                            FillState(cur, idx, start, r, x.len - Room0, TRUE), Loop1)
    BY <1>1, <1>2, NowNext, LoopSame, SourceSame
  <1> QED
    BY <1>1, <1>3, <1>4, NowIs, FillIs, LoopSame, SourceSame DEF AfterBound, Goes

\* At the block read for the record in hand.
LEMMA AtBodyGoes ==
  ASSUME IInv, ~ onlyBlock, pc = "body", NEW i, Serve(i)
  PROVE  /\ After(Env, Now) =
              AfterPart(Now, Source1', i, Block(i).offset, Fbs(i), Replaced(i))
         /\ UNCHANGED <<log, chunk>>
  <1>1. SourceInv /\ source = "open"
    BY DEF IInv, StillOpen, Finished
  <1>2. /\ Source1' = AfterCall(Env, Source1) /\ UNCHANGED <<log, chunk>>
        /\ Source1'.source = "open" /\ LastOf(Source1') = i
    BY <1>1, ServeAfter
  <1>3. After(Env, Now) = AfterBlock(Env, Now, Source1', i)
    BY <1>2, NowIs, EnvIs DEF After, AfterBody
  <1>4. AfterBlock(Env, Now, Source1', i) =
          AfterPart(Now, Source1', i, Block(i).offset, Fbs(i), Replaced(i))
    <2>1. /\ BlockOf(Env, i) = Block(i) /\ Now.lwn = lwn_ctx
          /\ Now.fill.first = first /\ Now.fill.rec = rec
      BY NowIs, FillIs, EnvIs
    <2>2. fairBounds(BlockOf(Env, i), Now.lwn) = Fbs(i)
      BY <2>1, Zenon DEF Fbs
    <2>3. AfterBlock(Env, Now, Source1', i) =
            AfterPart(Now, Source1', i, BlockOf(Env, i).offset,
                      fairBounds(BlockOf(Env, i), Now.lwn),
                      /\ Now.fill.first
                      /\ choose_new(Now.fill.rec.bound, BlockOf(Env, i),
                                    fairBounds(BlockOf(Env, i), Now.lwn), Now.lwn))
      BY Zenon DEF AfterBlock
    <2> QED
      BY <2>1, <2>2, <2>3, Zenon DEF Replaced
  <1> QED
    BY <1>2, <1>3, <1>4

LEMMA FillWithIs ==
  ASSUME UNCHANGED <<cur, idx, start>>, first' = FALSE
  PROVE  Fill1' = FillWith(Fill1, rec', need')
  BY FillIs DEF Fill1, FillWith

LEMMA GiveUpGoes ==
  ASSUME IInv, ~ onlyBlock, NEW i, GiveUp(i), UNCHANGED loopVars
  PROVE  Goes
  <1>1. /\ pc = "body" /\ Serve(i)
        /\ Replaced(i) \/ (~ (need <= body_sz) /\ Len(Fbs(i)) > 1)
        /\ pc' = "idle" /\ latest_block' = i /\ rec' = NoRec /\ need' = 0
        /\ UNCHANGED <<out_buffer, lwn_ctx, cur, idx, start>> /\ first' = FALSE
    BY DEF GiveUp, Last
  <1>2. Now' = ListingState(Source1', "idle", out_buffer, lwn_ctx, i,
                            FillWith(Fill1, NoRec, 0), Loop1)
    BY <1>1, FillWithIs, NowNext, LoopSame
  <1>3. AfterPart(Now, Source1', i, Block(i).offset, Fbs(i), Replaced(i)) =
          ListingState(Source1', "idle", out_buffer, lwn_ctx, i,
                       FillWith(Fill1, NoRec, 0), Loop1)
    BY <1>1, NowIs, FillIs DEF AfterPart
  <1> QED
    BY <1>1, <1>2, <1>3, AtBodyGoes, LoopSame DEF Goes

\* The record's last bytes are in the block at i: taken, or judged unfit.
LEMMA CompleteGoes ==
  ASSUME IInv, ~ onlyBlock, NEW i, Complete(i), UNCHANGED loopVars
  PROVE  Goes
  <1> DEFINE again == IF need = body_sz \/ Block(i).offset < rec.bound.next_offset
                      THEN 0 ELSE i
  <1>1. /\ pc = "body" /\ Serve(i) /\ ~ Replaced(i) /\ need <= body_sz
        /\ HeadFits(rec.bound) /\ pc' = "idle" /\ rec' = NoRec /\ need' = 0
        /\ UNCHANGED <<cur, idx, start>> /\ first' = FALSE
    BY DEF Complete, Last
  <1>2. /\ out_buffer' = Append(out_buffer, WithSlice(rec, i, need))
        /\ lwn_ctx' = WaterFor(rec.bound, lwn_ctx) /\ latest_block' = again
    BY DEF Complete, Take, Water, WaterFor
  <1>3. Now' = ListingState(Source1', "idle", Append(out_buffer, WithSlice(rec, i, need)),
                            WaterFor(rec.bound, lwn_ctx), again,
                            FillWith(Fill1, NoRec, 0), Loop1)
    BY <1>1, <1>2, FillWithIs, NowNext, LoopSame
  <1>4. AfterPart(Now, Source1', i, Block(i).offset, Fbs(i), Replaced(i)) =
          ListingState(Source1', "idle", Append(out_buffer, WithSlice(rec, i, need)),
                       WaterFor(rec.bound, lwn_ctx), again,
                       FillWith(Fill1, NoRec, 0), Loop1)
    BY <1>1, NowIs, FillIs DEF AfterPart
  <1> QED
    BY <1>1, <1>3, <1>4, AtBodyGoes, LoopSame DEF Goes

\* Both ways the record in hand may be refused.
LEMMA RefusedGoes ==
  ASSUME IInv, ~ onlyBlock, NEW i, InterimRival(i) \/ BadCompletion(i), UNCHANGED loopVars
  PROVE  Goes
  <1>1. /\ pc = "body" /\ Serve(i) /\ ~ Replaced(i) /\ pc' = "thrown"
        /\ UNCHANGED <<out_buffer, lwn_ctx, latest_block, cur, idx, start, rec, need>>
        /\ first' = FALSE
    BY DEF InterimRival, BadCompletion
  <1>2. \/ ~ (need <= body_sz) /\ Len(Fbs(i)) = 1 /\ prefer_new(rec.bound, Fbs(i)[1], lwn_ctx)
        \/ need <= body_sz /\ ~ HeadFits(rec.bound)
    BY DEF InterimRival, BadCompletion, Last
  <1>3. Now' = ListingState(Source1', "thrown", out_buffer, lwn_ctx, latest_block,
                            FillWith(Fill1, rec, need), Loop1)
    BY <1>1, FillWithIs, NowNext, LoopSame
  <1>4. AfterPart(Now, Source1', i, Block(i).offset, Fbs(i), Replaced(i)) =
          ListingState(Source1', "thrown", out_buffer, lwn_ctx, latest_block,
                       FillWith(Fill1, rec, need), Loop1)
    <2>1. /\ ~ (need <= body_sz /\ HeadFits(rec.bound))
          /\ need <= body_sz \/ (Len(Fbs(i)) = 1 /\ prefer_new(rec.bound, Fbs(i)[1], lwn_ctx))
      BY <1>2
    <2>2. ~ (~ (need <= body_sz) /\ Len(Fbs(i)) > 1)
      <3>1. PICK n : n = Len(Fbs(i))
        OBVIOUS
      <3>2. need <= body_sz \/ n = 1
        BY <2>1, <3>1
      <3>3. need <= body_sz \/ ~ (n > 1)
        BY <3>2
      <3> QED
        BY <3>1, <3>3
    <2> QED
      BY <1>1, <2>1, <2>2, NowIs, FillIs DEF AfterPart
  <1> QED
    BY <1>1, <1>3, <1>4, AtBodyGoes, LoopSame DEF Goes

LEMMA ContinueGoes ==
  ASSUME IInv, ~ onlyBlock, NEW i, Continue(i), UNCHANGED loopVars
  PROVE  Goes
  <1>1. /\ pc = "body" /\ Serve(i) /\ ~ Replaced(i) /\ ~ (need <= body_sz)
        /\ UNCHANGED <<pc, out_buffer, lwn_ctx, latest_block, cur, idx, start>>
        /\ first' = FALSE
    BY DEF Continue, Last
  <1>2. rec' = WithSlice(rec, i, body_sz) /\ need' = need - body_sz
    BY DEF Continue, Take
  <1>3. /\ ~ (Len(Fbs(i)) > 1)
        /\ ~ (Len(Fbs(i)) = 1 /\ prefer_new(rec.bound, Fbs(i)[1], lwn_ctx))
    <2>1. PICK n : n = Len(Fbs(i))
      OBVIOUS
    <2>2. n # 0 => n = 1 /\ ~ prefer_new(rec.bound, Fbs(i)[1], lwn_ctx)
      BY <2>1 DEF Continue
    <2>3. ~ (n > 1)
      BY <2>2
    <2> QED
      BY <2>1, <2>2, <2>3
  <1>4. Now' = ListingState(Source1', pc, out_buffer, lwn_ctx, latest_block,
                            FillWith(Fill1, WithSlice(rec, i, body_sz), need - body_sz),
                            Loop1)
    BY <1>1, <1>2, FillWithIs, NowNext, LoopSame
  <1>5. AfterPart(Now, Source1', i, Block(i).offset, Fbs(i), Replaced(i)) =
          ListingState(Source1', pc, out_buffer, lwn_ctx, latest_block,
                       FillWith(Fill1, WithSlice(rec, i, body_sz), need - body_sz), Loop1)
    BY <1>1, <1>3, NowIs, FillIs DEF AfterPart
  <1> QED
    BY <1>1, <1>4, <1>5, AtBodyGoes, LoopSame DEF Goes

\* Every step of the listing of records.
LEMMA ListingGoes == IInv /\ ~ onlyBlock /\ ExtractorStep => Goes
  <1> SUFFICES ASSUME IInv, ~ onlyBlock, ExtractorStep PROVE Goes
    OBVIOUS
  <1>1. CASE ShowRecord \/ Break
    BY <1>1, ShowGoes
  <1>2. CASE NoMoreRecords
    BY <1>2, NoMoreGoes
  <1>3. CASE Fetch
    <2>1. UNCHANGED loopVars /\ (Fill \/ Throw)
      BY <1>3 DEF Fetch
    <2>2. CASE EnterLatest \/ EnterNext
      BY <2>1, <2>2, EnterLatestGoes, EnterNextGoes
    <2>3. CASE LeaveBounds \/ WholeRecord \/ SplitRecord \/ BadWholeRecord
      BY <2>1, <2>3, LeaveBoundsGoes, WholeRecordGoes, SplitRecordGoes, BadWholeRecordGoes
    <2>4. CASE \E i \in 1 .. FileSize :
                 \/ GiveUp(i) \/ Continue(i) \/ Complete(i)
                 \/ InterimRival(i) \/ BadCompletion(i)
      BY <2>1, <2>4, GiveUpGoes, ContinueGoes, CompleteGoes, RefusedGoes
    <2>5. CASE SourceThrows \/ NotEnoughBlocks
      BY <2>1, <2>5, SourceThrowsGoes
    <2> QED
      BY <2>1, <2>2, <2>3, <2>4, <2>5 DEF Fill, Throw
  <1> QED
    BY <1>1, <1>2, <1>3 DEF ExtractorStep

\* Every step of the listing of blocks.
LEMMA BlocksGo == SourceInv /\ onlyBlock /\ ListBlocks => Goes
  <1> SUFFICES ASSUME SourceInv, onlyBlock, ListBlocks PROVE Goes
    OBVIOUS
  <1>1. /\ TakeBlock \/ TakeNone \/ TakeThrow
        /\ UNCHANGED <<pc, out_buffer, lwn_ctx, latest_block>>
        /\ UNCHANGED fillVars /\ UNCHANGED loopVars
    BY DEF ListBlocks, recordVars
  <1>2. Source1' = AfterCall(Env, Source1) /\ UNCHANGED <<log, chunk>>
    BY <1>1, ServeAfter, NoneAfter, ThrowAfter DEF TakeBlock, TakeNone, TakeThrow
  <1>3. Now' = ListingState(Source1', pc, out_buffer, lwn_ctx, latest_block, Fill1, Loop1)
    BY <1>1, NowNext, FillSame, LoopSame
  <1> QED
    BY <1>1, <1>2, <1>3, NowIs, EnvIs, LoopSame DEF After, Goes

LEMMA HaltedIs ==
  Halted(Env, Now) = IF onlyBlock THEN source # "open" ELSE verdict # "none" \/ pc = "thrown"
  BY NowIs, EnvIs, SourceIs, LoopIs DEF Halted

LEMMA ListGoes ==
  PInv /\ CmdInv /\ (ListBlocks \/ ListRecords) => Goes /\ ~ Halted(Env, Now)
  <1> SUFFICES ASSUME PInv, CmdInv, ListBlocks \/ ListRecords PROVE Goes /\ ~ Halted(Env, Now)
    OBVIOUS
  <1>1. CASE ListBlocks
    <2>1. SourceInv /\ onlyBlock /\ source = "open"
      BY <1>1 DEF PInv, Sources, CmdInv, ListBlocks, TakeBlock, TakeNone, TakeThrow, Running
    <2> QED
      BY <1>1, <2>1, BlocksGo, HaltedIs
  <1>2. CASE ListRecords
    <2>1. IInv /\ ~ onlyBlock /\ ExtractorStep /\ pc # "thrown"
      BY <1>2 DEF PInv, Asked, CmdInv, ListRecords
    <2>2. verdict = "none"
      BY <2>1 DEF ExtractorStep, ShowRecord, Break, NoMoreRecords, Fetch, Looping
    <2> QED
      BY <2>1, <2>2, ListingGoes, HaltedIs
  <1> QED
    BY <1>1, <1>2

-----------------------------------------------------------------------------
(* Where the function leads: to one end at most.                            *)

IsTrace(f, t, n) ==
  /\ t[0] = Fresh
  /\ \A i \in Nat : i < n => ~ Halted(f, t[i]) /\ t[i + 1] = After(f, t[i])

Reaches(f, s) == \E n \in Nat : \E t : IsTrace(f, t, n) /\ t[n] = s

LEMMA ReachesFresh == \A f : Reaches(f, Fresh)
  <1> SUFFICES ASSUME NEW f PROVE Reaches(f, Fresh)
    OBVIOUS
  <1> DEFINE t == [i \in Nat |-> Fresh]
  <1>1. t[0] = Fresh
    OBVIOUS
  <1>2. \A i \in Nat : ~ (i < 0)
    OBVIOUS
  <1>3. IsTrace(f, t, 0)
    BY <1>1, <1>2 DEF IsTrace
  <1> QED
    BY <1>1, <1>3, 0 \in Nat, Zenon DEF Reaches

LEMMA ReachesOn ==
  ASSUME NEW f, NEW s, Reaches(f, s), ~ Halted(f, s)
  PROVE  Reaches(f, After(f, s))
  <1>0. PICK n \in Nat : \E t : IsTrace(f, t, n) /\ t[n] = s
    BY DEF Reaches
  <1>1. PICK t : IsTrace(f, t, n) /\ t[n] = s
    BY <1>0
  <1> DEFINE u == [i \in Nat |-> IF i <= n THEN t[i] ELSE After(f, s)]
  <1>2. u[0] = Fresh
    BY <1>1 DEF IsTrace
  <1>3. n + 1 \in Nat /\ ~ (n + 1 <= n)
    OBVIOUS
  <1>4. u[n + 1] = After(f, s)
    BY <1>3
  <1>5. ASSUME NEW i \in Nat, i < n + 1
        PROVE  ~ Halted(f, u[i]) /\ u[i + 1] = After(f, u[i])
    <2>1. u[i] = t[i]
      BY <1>5
    <2>2. CASE i < n
      <3>1. i + 1 \in Nat /\ i + 1 <= n
        BY <2>2
      <3>2. u[i + 1] = t[i + 1]
        BY <3>1
      <3> QED
        BY <1>1, <2>1, <2>2, <3>2 DEF IsTrace
    <2>3. CASE i = n
      BY <1>1, <1>4, <2>1, <2>3
    <2> QED
      BY <1>5, <2>2, <2>3
  <1> HIDE DEF u
  <1>6. IsTrace(f, u, n + 1)
    BY <1>2, <1>5 DEF IsTrace
  <1> QED
    BY <1>3, <1>4, <1>6, Zenon DEF Reaches

\* Two traces agree as far as both go: at the first place where they do not, one
\* state would have two successors.
LEMMA TracesAgree ==
  ASSUME NEW f, NEW t, NEW u, NEW n \in Nat, NEW m \in Nat,
         IsTrace(f, t, n), IsTrace(f, u, m)
  PROVE  \A i \in Nat : i <= n /\ i <= m => t[i] = u[i]
  <1> DEFINE apart == {i \in Nat : i <= n /\ i <= m /\ t[i] # u[i]}
  <1> SUFFICES ASSUME apart # {} PROVE FALSE
    OBVIOUS
  <1>1. IsWellFoundedOn(NatLess, Nat)
    BY NatLessThanWellFounded DEF NatLess
  <1>2. PICK x \in apart : \A y \in apart : ~ (<<y, x>> \in NatLess)
    <2>1. apart \subseteq Nat
      OBVIOUS
    <2> HIDE DEF apart
    <2> QED
      BY <1>1, <2>1, WFMin
  <1>3. x \in Nat /\ x <= n /\ x <= m /\ t[x] # u[x]
    OBVIOUS
  <1>4. x # 0
    BY <1>3 DEF IsTrace
  <1>5. x - 1 \in Nat /\ x - 1 < x /\ (x - 1) + 1 = x /\ x - 1 < n /\ x - 1 < m
    BY <1>3, <1>4
  <1>6. PICK y : y = x - 1
    OBVIOUS
  <1>7. <<y, x>> \in NatLess
    BY <1>3, <1>5, <1>6 DEF NatLess, OpToRel
  <1>8. t[y] = u[y]
    <2>1. y \notin apart
      BY <1>2, <1>7
    <2> QED
      BY <1>5, <1>6, <2>1
  <1>9. t[y + 1] = After(f, t[y]) /\ u[y + 1] = After(f, u[y])
    BY <1>5, <1>6 DEF IsTrace
  <1> QED
    BY <1>3, <1>5, <1>6, <1>8, <1>9

LEMMA OneEnd ==
  ASSUME NEW f, NEW s, NEW r, Reaches(f, s), Reaches(f, r), Halted(f, s), Halted(f, r)
  PROVE  s = r
  <1>0. PICK n \in Nat : \E t : IsTrace(f, t, n) /\ t[n] = s
    BY DEF Reaches
  <1>1. PICK t : IsTrace(f, t, n) /\ t[n] = s
    BY <1>0
  <1>2. PICK m \in Nat : \E u : IsTrace(f, u, m) /\ u[m] = r
    BY DEF Reaches
  <1>3. PICK u : IsTrace(f, u, m) /\ u[m] = r
    BY <1>2
  <1>4. \A i \in Nat : i <= n /\ i <= m => t[i] = u[i]
    BY <1>1, <1>3, TracesAgree
  <1>5. ~ (n < m)
    <2> SUFFICES ASSUME n < m PROVE FALSE
      OBVIOUS
    <2>1. t[n] = u[n] /\ ~ Halted(f, u[n])
      BY <1>3, <1>4 DEF IsTrace
    <2> QED
      BY <1>1, <2>1
  <1>6. ~ (m < n)
    <2> SUFFICES ASSUME m < n PROVE FALSE
      OBVIOUS
    <2>1. t[m] = u[m] /\ ~ Halted(f, t[m])
      BY <1>1, <1>4 DEF IsTrace
    <2> QED
      BY <1>3, <2>1
  <1>7. n = m
    BY <1>5, <1>6
  <1> QED
    BY <1>1, <1>3, <1>4, <1>7

-----------------------------------------------------------------------------
(* Every outcome is the end of the function for its file and the options.   *)

ChunkWanted == IF showReason THEN 1 ELSE ReadBlocks
EnvFor(l) ==
  [log |-> l, chunk |-> ChunkWanted, only1000 |-> only1000, onlyBlock |-> onlyBlock]

Ends(f, o) ==
  \E s : /\ Reaches(f, s) /\ Halted(f, s)
         /\ o = [name |-> o.name, blocks |-> s.src.served, records |-> s.loop.shown,
                 missing |-> s.loop.missing, verdict |-> s.loop.verdict, end |-> s.pc]

EndsAll == \A k \in 1 .. Len(outcomes) : Ends(EnvFor(File(outcomes[k].name).log), outcomes[k])

RepInv ==
  /\ phase \in {"blocks", "records"} => chunk = ChunkWanted /\ Reaches(Env, Now)
  /\ EndsAll

LEMMA InitRepInv == ProgramInit => RepInv
  BY DEF ProgramInit, RepInv, EndsAll

LEMMA EndsKept ==
  ASSUME UNCHANGED <<session, showReason, only1000, onlyBlock>>,
         \A k \in 1 .. Len(outcomes') :
           Ends(EnvFor(File(outcomes'[k].name).log), outcomes'[k])
  PROVE  EndsAll'
  BY DEF EndsAll, EnvFor, ChunkWanted, File

LEMMA EndsSame ==
  ASSUME EndsAll, UNCHANGED <<session, showReason, only1000, onlyBlock, outcomes>>
  PROVE  EndsAll'
  BY DEF EndsAll, EnvFor, ChunkWanted, File

LEMMA RepBetween ==
  ASSUME CmdInv, RepInv,
         Usage \/ ParseOptions \/ SkipOption \/ OpenThrows \/ Exit \/ Abort
  PROVE  RepInv'
  <1>1. phase' \notin {"blocks", "records"}
    BY DEF Usage, ParseOptions, SkipOption, OpenThrows, Exit, Abort, AtWord
  <1>2. CASE ParseOptions
    <2>1. arg - 1 = 0 /\ outcomes' = outcomes
      BY <1>2 DEF CmdInv, ParseOptions
    <2>2. Rank(0) = 0
      <3>1. Rank(0) \in Nat /\ Rank(0) <= 0
        BY NamesFinite, 0 \in Nat, Zenon
      <3> QED
        BY <3>1
    <2>3. Len(outcomes') = 0
      BY <2>1, <2>2 DEF CmdInv
    <2> QED
      BY <1>1, <2>3 DEF RepInv, EndsAll
  <1>3. CASE Usage \/ SkipOption \/ OpenThrows \/ Exit \/ Abort
    <2>1. UNCHANGED <<session, showReason, only1000, onlyBlock, outcomes>>
      BY <1>3 DEF Usage, SkipOption, OpenThrows, Exit, Abort, extractorVars, loopVars
    <2> QED
      BY <1>1, <2>1, EndsSame DEF RepInv
  <1> QED
    BY <1>2, <1>3

LEMMA RepOpen == RepInv /\ OpenFile => RepInv'
  <1> SUFFICES ASSUME RepInv, OpenFile PROVE RepInv'
    OBVIOUS
  <1>1. /\ UNCHANGED <<session, showReason, only1000, onlyBlock, outcomes>>
        /\ chunk' = ChunkWanted
    BY DEF OpenFile, FreshLoop, FreshSource, ChunkWanted
  <1>2. chunk' = ChunkWanted'
    BY <1>1 DEF ChunkWanted
  <1>3. /\ Source1' = SourceState(0, FALSE, << >>, << >>, "open")
        /\ Fill1' = FillState(0, 1, 0, NoRec, 0, FALSE)
        /\ Loop1' = LoopState(-1, << >>, << >>, "none")
        /\ pc' = "idle" /\ out_buffer' = << >> /\ lwn_ctx' = NoLwn /\ latest_block' = 0
    BY DEF OpenFile, FreshSource, FreshRecords, FreshLoop, Source1, Fill1, Loop1
  <1>4. Now' = Fresh
    BY <1>3, NowNext DEF Fresh
  <1>5. Reaches(Env', Now')
    BY <1>4, ReachesFresh
  <1> QED
    BY <1>1, <1>2, <1>5, EndsSame DEF RepInv

LEMMA RepList == PInv /\ CmdInv /\ RepInv /\ (ListBlocks \/ ListRecords) => RepInv'
  <1> SUFFICES ASSUME PInv, CmdInv, RepInv, ListBlocks \/ ListRecords PROVE RepInv'
    OBVIOUS
  <1>1. /\ phase \in {"blocks", "records"}
        /\ UNCHANGED <<session, phase, showReason, onlyBlock, outcomes>>
    BY DEF ListBlocks, ListRecords, mainVars
  <1>2. Now' = After(Env, Now) /\ UNCHANGED <<log, chunk, only1000>> /\ ~ Halted(Env, Now)
    BY ListGoes DEF Goes
  <1>3. Env' = Env
    BY <1>1, <1>2 DEF Env
  <1>4. Reaches(Env', Now')
    BY <1>1, <1>2, <1>3, ReachesOn DEF RepInv
  <1>5. chunk' = ChunkWanted'
    BY <1>1, <1>2 DEF RepInv, ChunkWanted
  <1> QED
    BY <1>1, <1>2, <1>4, <1>5, EndsSame DEF RepInv

LEMMA RepReturn == CmdInv /\ RepInv /\ Return => RepInv'
  <1> SUFFICES ASSUME CmdInv, RepInv, Return PROVE RepInv'
    OBVIOUS
  <1> DEFINE o == Outcome(argv[arg])
             f == File(argv[arg])
  <1>1. /\ phase \in {"blocks", "records"} /\ Listed /\ phase' = "args"
        /\ UNCHANGED <<session, showReason, only1000, onlyBlock>>
        /\ outcomes' = Append(outcomes, o) /\ outcomes \in Seq(OutcomeType)
    BY DEF Return, extractorVars, loopVars, CmdInv
  <1>2. Halted(Env, Now) /\ Reaches(Env, Now)
    BY <1>1, HaltedIs DEF Listed, CmdInv, RepInv
  <1>3. Env = EnvFor(f.log)
    BY <1>1 DEF Env, EnvFor, RepInv, CmdInv, AtFile
  <1>4. o = [name |-> argv[arg], blocks |-> Now.src.served, records |-> Now.loop.shown,
             missing |-> Now.loop.missing, verdict |-> Now.loop.verdict, end |-> Now.pc]
    BY NowIs, SourceIs, LoopIs DEF Outcome
  <1>5. o.name = argv[arg]
    BY <1>4
  <1>6. Ends(EnvFor(File(o.name).log), o)
    <2>1. Ends(Env, o)
      BY <1>2, <1>4, <1>5, Zenon DEF Ends
    <2> QED
      BY <1>3, <1>5, <2>1
  <1> HIDE DEF o, f
  <1>7. ASSUME NEW k \in 1 .. Len(outcomes')
        PROVE  Ends(EnvFor(File(outcomes'[k].name).log), outcomes'[k])
    <2>1. \/ k \in 1 .. Len(outcomes) /\ outcomes'[k] = outcomes[k]
          \/ outcomes'[k] = o
      BY <1>1, <1>7
    <2> QED
      BY <1>6, <2>1 DEF RepInv, EndsAll
  <1>8. EndsAll'
    BY <1>1, <1>7, EndsKept
  <1> QED
    BY <1>1, <1>8 DEF RepInv

\* main.cpp:42 and RecordSource.h:18-26: what is listed of a file depends on the
\* file and the options alone. However many files were listed before, and
\* however their listings ended, a file named twice is listed the same twice.
THEOREM RepeatableHolds == ProgramSpec => []Repeatable
  <1>1. PInv /\ CmdInv /\ RepInv /\ [ProgramNext]_programVars => RepInv'
    <2> SUFFICES ASSUME PInv, CmdInv, RepInv, [ProgramNext]_programVars PROVE RepInv'
      OBVIOUS
    <2>1. CASE UNCHANGED programVars
      <3>1. /\ UNCHANGED <<session, phase, showReason, onlyBlock, outcomes, only1000, log,
                           chunk, pc, out_buffer, lwn_ctx, latest_block>>
            /\ UNCHANGED sourceVars /\ UNCHANGED fillVars /\ UNCHANGED loopVars
        BY <2>1 DEF programVars, mainVars, extractorVars, vars, sourceVars,
                    recordVars, loopVars
      <3>2. Now' = Now
        BY <3>1, NowNext, SourceSame, FillSame, LoopSame DEF Now
      <3>3. Env' = Env /\ ChunkWanted' = ChunkWanted
        BY <3>1 DEF Env, ChunkWanted
      <3> QED
        BY <3>1, <3>2, <3>3, EndsSame DEF RepInv
    <2> QED
      BY <2>1, RepBetween, RepOpen, RepList, RepReturn DEF ProgramNext, ProgramStep
  <1>2. RepInv => Repeatable
    <2> SUFFICES ASSUME RepInv, NEW j \in 1 .. Len(outcomes), NEW k \in 1 .. Len(outcomes),
                        outcomes[j].name = outcomes[k].name
                 PROVE  outcomes[j] = outcomes[k]
      BY DEF Repeatable
    <2> DEFINE f == EnvFor(File(outcomes[j].name).log)
    <2>1. Ends(f, outcomes[j]) /\ Ends(f, outcomes[k])
      BY DEF RepInv, EndsAll
    <2> HIDE DEF f
    <2>2. PICK s : /\ Reaches(f, s) /\ Halted(f, s)
                   /\ outcomes[j] = [name |-> outcomes[j].name, blocks |-> s.src.served,
                        records |-> s.loop.shown, missing |-> s.loop.missing,
                        verdict |-> s.loop.verdict, end |-> s.pc]
      BY <2>1, Zenon DEF Ends
    <2>3. PICK r : /\ Reaches(f, r) /\ Halted(f, r)
                   /\ outcomes[k] = [name |-> outcomes[k].name, blocks |-> r.src.served,
                        records |-> r.loop.shown, missing |-> r.loop.missing,
                        verdict |-> r.loop.verdict, end |-> r.pc]
      BY <2>1, Zenon DEF Ends
    <2>4. s = r
      BY <2>2, <2>3, OneEnd
    <2> QED
      BY <2>2, <2>3, <2>4, Zenon
  <1> QED
    BY ProgramInvariance, CmdInvariance, InitRepInv, <1>1, <1>2, PTL DEF ProgramSpec
=============================================================================
