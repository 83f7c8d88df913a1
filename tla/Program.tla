------------------------------ MODULE Program ------------------------------
(***************************************************************************)
(* main() of src/main.cpp: the command line, one call of shows() per file  *)
(* named in it, and the constructor of FileBlockSource, which reads the    *)
(* file head and the redo head and refuses what is no redo log.            *)
(*                                                                         *)
(* A word of the command line is an option or a name; disk says what the   *)
(* names stand for. A file is given by what the constructor looks at:      *)
(* front, its bytes up to the end of the two head blocks, four fields of   *)
(* the file head, two SCNs of the redo head, and the log behind them.      *)
(* Nobody catches an exception: it ends the program.                       *)
(***************************************************************************)
EXTENDS Extractor

CONSTANTS
  Sessions,     \* what the program is started with: [argv, disk]
  NoFile,       \* a name without a readable file
  Dashed,       \* the words that begin with "--", known to the program or not
  ReadBlocks,   \* BLOCKS_PER_READ without --r: 8 MB worth of blocks
  UINT32        \* 2^32

FILE_HEAD == 256
KnownTypes == {\h22, \hA2, \hC2}      \* redo log, data file, control file
LegalBlockSizes == {512, 1024, 2048, 4096, 8192, 16384, 32768}

\* FileHead.block_sz has 16 bits, block_size in the file 32.
block_sz(f) == f.block_size % 2^16

\* Each of these holds of the files for which the function has no error.
decode_FileHead_lo(f) == f.magic \in {"little", "big"}

validate(f) == f.type \in KnownTypes /\ block_sz(f) \in LegalBlockSizes

read_FileHead(f) == f.front >= FILE_HEAD /\ decode_FileHead_lo(f) /\ validate(f)

read_RedoHead(f) == f.front >= 2 * block_sz(f)

Opens(f) == f # NoFile /\ read_FileHead(f) /\ read_RedoHead(f)

\* decode_redo_scn0l: from version 18 on the wrap stands behind a mark.
redo_scn(s) ==
  IF s.wrap = \h8000 THEN [s EXCEPT !.wrap = s.wrap_high, !.wrap_high = s.wrap]
  ELSE s

scn_to64(s) == s.wrap * UINT32 + s.base

\* What decode_redo_head reads of the payload, section by section; pad: a
\* big-endian head whose key starts with four bytes of padding.
RedoHeadReads(pad) ==
  [source |-> [at |-> 0, end |-> 140],
   write  |-> [at |-> 140, end |-> 188],
   thread |-> [at |-> 188, end |-> 216],
   state  |-> [at |-> 216, end |-> 236],
   key    |-> [at |-> 432, end |-> 432 + (IF pad THEN 4 ELSE 0) + 34]]

Scns == [base : Nat, wrap : 0 .. 2^16 - 1, wrap_high : 0 .. 2^16 - 1]

ASSUME DashedAssumption == {"--i", "--r", "--d", "--b", "--ob", "--s"} \subseteq Dashed
ASSUME UINT32Assumption == UINT32 \in Nat \ {0}
ASSUME ReadBlocksAssumption == {1, ReadBlocks} \subseteq ChunkSizes

\* All files that open have one block size and one range of SCNs: those are
\* constants of the modules below.
ASSUME SessionsAssumption ==
  \A s \in Sessions :
    /\ s.argv \in Seq(STRING)
    /\ \A name \in DOMAIN s.disk :
         LET f == s.disk[name] IN
           f # NoFile =>
             /\ f.front \in Nat /\ f.type \in Nat /\ f.block_size \in Nat
             /\ f.low \in Scns /\ f.next \in Scns
             /\ Opens(f) => /\ block_sz(f) = BlockSz
                            /\ scn_to64(redo_scn(f.low)) = LowScn
                            /\ scn_to64(redo_scn(f.next)) = NxtScn
ASSUME DisksAssumption ==
  LET logs == Logs IN
    \A s \in Sessions : \A name \in DOMAIN s.disk :
      s.disk[name] # NoFile => s.disk[name].log \in logs

VARIABLES
  session,      \* the command line and the files: never changes
  phase,        \* "start", "args": between two calls of shows; "blocks" and
                \* "records": in its loops; "exit", "usage", "aborted": over
  arg,          \* the word looked at
  showReason,   \* --r
  onlyBlock,    \* --ob
  outcomes      \* history: what each call of shows has listed

mainVars == <<session, phase, arg, showReason, onlyBlock, outcomes>>
programVars == <<extractorVars, mainVars>>

argv == session.argv
Given(option) == \E i \in 1 .. Len(argv) : argv[i] = option

\* opt.rfind("--", 0) == 0: an option the program does not know has no effect,
\* and is no name either.
IsOption(word) == word \in Dashed

File(name) == IF name \in DOMAIN session.disk THEN session.disk[name] ELSE NoFile

\* Before the first file is opened the variables of shows mean nothing.
ProgramInit ==
  /\ log = CHOOSE l \in Logs : TRUE
  /\ chunk = ReadBlocks
  /\ Init
  /\ only1000 = FALSE
  /\ last = -1 /\ shown = << >> /\ missing = << >> /\ verdict = "none"
  /\ session \in Sessions
  /\ phase = "start"
  /\ arg = 1
  /\ showReason = FALSE /\ onlyBlock = FALSE
  /\ outcomes = << >>

-----------------------------------------------------------------------------
(* main                                                                     *)

Usage ==
  /\ phase = "start"
  /\ argv = << >>
  /\ phase' = "usage"
  /\ UNCHANGED <<extractorVars, session, arg, showReason, onlyBlock, outcomes>>

\* Mutant: the options stop at the first name.
ParseLeading ==
  LET Leads(option) ==
        \E i \in 1 .. Len(argv) : argv[i] = option /\ \A j \in 1 .. i : IsOption(argv[j])
  IN /\ phase = "start"
     /\ argv # << >>
     /\ only1000' = Leads("--s")
     /\ onlyBlock' = Leads("--ob")
     /\ showReason' = Leads("--r")
     /\ phase' = "args"
     /\ UNCHANGED <<vars, last, shown, missing, verdict, session, arg, outcomes>>

\* The first loop over argv.
ParseOptions ==
  /\ phase = "start"
  /\ argv # << >>
  /\ only1000' = Given("--s")
  /\ onlyBlock' = Given("--ob")
  /\ showReason' = Given("--r")
  /\ phase' = "args"
  /\ UNCHANGED <<vars, last, shown, missing, verdict, session, arg, outcomes>>

\* The second loop.
AtWord == phase = "args" /\ arg <= Len(argv)

SkipOption ==
  /\ AtWord
  /\ IsOption(argv[arg])
  /\ arg' = arg + 1
  /\ UNCHANGED <<extractorVars, session, phase, showReason, onlyBlock, outcomes>>

\* The variables of a block source, a record source and a call of shows that
\* have just been made.
FreshSource(l) ==
  /\ log' = l
  /\ chunk' = IF showReason THEN 1 ELSE ReadBlocks
  /\ pos' = 0 /\ failed' = FALSE
  /\ queue' = << >> /\ served' = << >>
  /\ source' = "open"

FreshRecords ==
  /\ pc' = "idle"
  /\ out_buffer' = << >> /\ delivered' = << >>
  /\ latest_block' = 0
  /\ cur' = 0 /\ idx' = 1 /\ start' = 0
  /\ rec' = NoRec /\ need' = 0 /\ first' = FALSE

FreshLoop ==
  /\ last' = -1
  /\ shown' = << >> /\ missing' = << >>
  /\ verdict' = "none"
  /\ UNCHANGED only1000

\* Mutant: the log-writer note outlives its file.
OpenKeepsNote ==
  /\ AtWord
  /\ ~ IsOption(argv[arg])
  /\ Opens(File(argv[arg]))
  /\ FreshSource(File(argv[arg]).log)
  /\ FreshRecords
  /\ UNCHANGED lwn_ctx
  /\ FreshLoop
  /\ phase' = IF onlyBlock THEN "blocks" ELSE "records"
  /\ UNCHANGED <<session, arg, showReason, onlyBlock, outcomes>>

\* shows up to its loops.
OpenFile ==
  /\ AtWord
  /\ ~ IsOption(argv[arg])
  /\ Opens(File(argv[arg]))
  /\ FreshSource(File(argv[arg]).log)
  /\ FreshRecords
  /\ lwn_ctx' = NoLwn
  /\ FreshLoop
  /\ phase' = IF onlyBlock THEN "blocks" ELSE "records"
  /\ UNCHANGED <<session, arg, showReason, onlyBlock, outcomes>>

\* The constructor of FileBlockSource throws.
OpenThrows ==
  /\ AtWord
  /\ ~ IsOption(argv[arg])
  /\ ~ Opens(File(argv[arg]))
  /\ phase' = "aborted"
  /\ UNCHANGED <<extractorVars, session, arg, showReason, onlyBlock, outcomes>>

Exit ==
  /\ phase = "args"
  /\ arg > Len(argv)
  /\ phase' = "exit"
  /\ UNCHANGED <<extractorVars, session, arg, showReason, onlyBlock, outcomes>>

-----------------------------------------------------------------------------
(* shows                                                                    *)

\* The loop of --ob.
ListBlocks ==
  /\ phase = "blocks"
  /\ TakeBlock \/ TakeNone \/ TakeThrow
  /\ UNCHANGED <<recordVars, loopVars, mainVars>>

ListRecords ==
  /\ phase = "records"
  /\ pc # "thrown"
  /\ ExtractorStep
  /\ UNCHANGED mainVars

Listed == IF phase = "blocks" THEN source = "ended" ELSE verdict # "none"

Outcome(name) ==
  [name |-> name, blocks |-> served, records |-> shown, missing |-> missing,
   verdict |-> verdict, end |-> pc]

Return ==
  /\ phase \in {"blocks", "records"}
  /\ Listed
  /\ outcomes' = Append(outcomes, Outcome(argv[arg]))
  /\ arg' = arg + 1
  /\ phase' = "args"
  /\ UNCHANGED <<extractorVars, session, showReason, onlyBlock>>

\* The exception leaves shows and main.
Abort ==
  /\ \/ phase = "blocks" /\ source = "thrown"
     \/ phase = "records" /\ pc = "thrown"
  /\ phase' = "aborted"
  /\ UNCHANGED <<extractorVars, session, arg, showReason, onlyBlock, outcomes>>

-----------------------------------------------------------------------------
ProgramStep ==
  \/ Usage \/ ParseOptions \/ SkipOption \/ OpenFile \/ OpenThrows \/ Exit
  \/ ListBlocks \/ ListRecords \/ Return \/ Abort

Over == phase \in {"exit", "usage", "aborted"}

ProgramNext == ProgramStep \/ (Over /\ UNCHANGED programVars)

\* Nothing else runs.
ProgramSpec ==
  ProgramInit /\ [][ProgramNext]_programVars /\ WF_programVars(ProgramStep)
-----------------------------------------------------------------------------
OutcomeType ==
  [name : STRING, blocks : Seq(Nat), records : Seq(RecordType),
   missing : Seq([from : Nat, to : Nat]), verdict : {"none", "true", "false"},
   end : {"idle", "bounds", "body", "eof", "thrown"}]

ProgramTypeOK ==
  /\ TypeOK
  /\ ExtractorTypeOK
  /\ phase \in {"start", "args", "blocks", "records", "exit", "usage", "aborted"}
  /\ arg \in 1 .. Len(argv) + 1
  /\ showReason \in BOOLEAN /\ onlyBlock \in BOOLEAN
  /\ outcomes \in Seq(OutcomeType) /\ Len(outcomes) < arg

\* main.cpp:42 and RecordSource.h:18-26: nothing of a file is left when the next
\* one is listed. A file named twice is listed the same twice, whatever stands
\* between the two.
Repeatable ==
  \A j, k \in 1 .. Len(outcomes) :
    outcomes[j].name = outcomes[k].name => outcomes[j] = outcomes[k]

\* argv[i], when it is a name, is the one of this rank.
Rank(i) == Cardinality({j \in 1 .. i : ~ IsOption(argv[j])})

\* The outcome of a file, listed the way the options ask for.
ListedAs(o, name) ==
  /\ o.name = name
  /\ (o.verdict = "none") = Given("--ob")
  /\ Given("--ob") => o.records = << >>
  /\ Given("--s") => Len(o.records) <= ShowLimit + 1
  /\ o.end = "eof" \/ Given("--s") \/ Given("--ob")

\* main.cpp:93-111: the files are listed in the order they are named, words that
\* begin with "--" passed over whatever the disk holds under such a name, each the
\* way the options ask for wherever they stand in the command line; main ends by
\* itself only when all of them are listed, and an exception (nobody catches it)
\* means that the next one could not be listed to its end.
AsCommanded ==
  LET n == Len(outcomes) IN
    /\ n <= Rank(Len(argv))
    /\ \A i \in 1 .. Len(argv) :
         ~ IsOption(argv[i]) /\ Rank(i) <= n => ListedAs(outcomes[Rank(i)], argv[i])
    /\ phase = "exit" => n = Rank(Len(argv))
    /\ phase = "aborted" =>
         \E i \in 1 .. Len(argv) :
           /\ ~ IsOption(argv[i]) /\ Rank(i) = n + 1
           /\ LET f == File(argv[i]) IN
                \/ ~ Opens(f)
                \/ log = f.log /\ (source = "thrown" \/ pc = "thrown")

\* main comes to its end: the loops over a file end in a verdict, the end of its
\* blocks or an exception, and the command line has an end.
ProgramTerminates == <>Over
=============================================================================
