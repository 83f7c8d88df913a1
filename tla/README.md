# A verification development for TxLogExtractor

TxLogExtractor reads a file of an Oracle redo log and lists the redo records in
it, with the change vectors of each record. It is a single-threaded C++17
program of about 10 000 lines (`src/`); the sizes, offsets and flags it works
with come from the file, and a good part of them cannot be trusted
(`worknote.md`, `changes.md`). What is hard in it is therefore not concurrency
but **deciding where records begin and end**: block offsets that were not
updated, records that span blocks, records that compete for the same bytes,
garbage that looks like a record, files that end early. The modules here say
what the program does about that, step by step, and what it thereby guarantees.

All source paths below are relative to the repository; line numbers refer to it.

## 1. The system

```
 main() --> shows() for each file named
              |
 file --> FileBlockSource --> DefaultRecordSource --> the loop of shows()
          (two heads, then     (records over blocks)   (listing, gaps, verdict)
           chunks of blocks)
             |                     |                       |
          Block, set_bounds     fairBound, choose_new   Record::changes()
          (candidate records)   (rivals, log-writer     (change heads, length
                                 note)                   vectors, elements)
                                                            |
                                                        change parsers over a
                                                        span cursor, element
                                                        decoders
```

| component | files | state | operations | what makes it right |
|---|---|---|---|---|
| file and redo head | `blocks/FileHead.*`, `blocks/RedoHead.*`, `layout_*Head.h` | none after start | `FileHead_of`, `read_RedoHead` | what is no redo log is refused before a block is read; the redo head is read inside its block |
| record bounds | `blocks/RecordBound.*`, `blocks/Block.*` | per block: list of bounds | `bound_candidates`, `fairBound(s)`, `choose_new_vld` | bounds form a chain that tiles the block, the scan ends |
| block source | `blocks/BlockSource.*` | stream, chunk buffer, deque | `getNext`, `drain` | own blocks, in order, none lost without a reason |
| record source | `records/RecordSource.*` | deque of records, log-writer note (`lwn_ctx`), `latest_block` | `getNext`, `fill_Records` | records complete, disjoint, in order; on a whole log exactly those written |
| record | `records/Record.*`, `layout_RecordHead.h` | cached changes | `Record_of`, `changes()` | head fits its payload; every answer is the outcome of the one decoding |
| changes | `records/Change.*`, `layout_ChangeHead.h` | cursor over the payload | `Changes_of`, `decode_LengthVector` | changes tile the payload, elements in range |
| command line and listing | `main.cpp` | options; per file `last`, `nr` | `main`, `shows` | every file named is listed, in order and as the options ask, or the program says why it stops; nothing is left of one file in the next; gaps reported are gaps, verdict "true" is true |
| span cursor, change parsers | `coral_combinator.h`, `change/*.h` | index of the next element | `next`, `n_raws`, `raws_by`, one `parse` per operation code | each field is taken from its element |
| element decoders | `elements/*.h` | none | one `decode` per structure | no read beyond the element; the rows of a directly loaded block are those of its slots |
| names, printing | `records/ora_opCodes.*`, `coral_show.h`, `to_string` everywhere | none | | |

Components call one another directly and synchronously: the listing loop pulls
a record, the record source pulls blocks, the block source reads a chunk. Errors
travel as `Result` values up to `changes()`, and as exceptions above it; nobody
catches the exceptions (`RecordSource.cpp:204-207` has the handler commented
out), so an exception ends the program. There are no threads, no callbacks and
nothing is persisted.

The hazards this leaves, each with its line, are listed in `PROJECT.json`.

## 2. The modules

| module | models | main state | abstract specification |
|---|---|---|---|
| `RecordBound` | constants and pure functions of `RecordBound.cpp`, `Block.cpp`, and of `RecordSource.cpp:26-95` | none | |
| `BoundScan` | the loop of `bound_candidates` | `block offset result done` | `bound_candidates` as a recursive function |
| `FileBlockSource` | `FileBlockSource`, extends `RecordBound` | `log chunk pos failed queue served source` | `BlockStream` |
| `RecordSource` | `DefaultRecordSource` on top of `FileBlockSource` | plus `pc out_buffer lwn_ctx latest_block cur idx start rec need first delivered` | |
| `RedoLog` | which logs a writer leaves (external) | that of `RecordSource` | |
| `Extractor` | `shows()` on top of `RecordSource` | plus `only1000 last shown missing verdict` | `LogReader`, on whole logs |
| `Program` | `main()` on top of `Extractor`: options, the loop over files, the two heads of a file, what a call of `shows` starts from and how it ends | plus `session phase arg showReason onlyBlock outcomes` | |
| `Elements` | the decoders of `elements/*.h` and of the structs in `change/*.h`: size tests and extents of reads | none | |
| `DataBlock` | the rows of a directly loaded block: the last part of `DLB_D::decode`, and `Kd_row::decode`, extends `Elements` | `block pc slot at row rows` | |
| `ChangeParser` | `SpanCursor` and every `parse` reached from `Change::parse_to_show`, extends `Elements` | `change index stack got res` | |
| `Changes` | `Record::changes`, `Changes_of` and its decoders; `get_cls_usn` | `payload pc view base slot e_offset o_spans cache_changes cached answers` | |
| `*_proofs` | the theorems about the module they are named after | | |
| `MC*` | the inputs of the runs | | |

Composition follows the program: `Program` EXTENDS `Extractor` EXTENDS
`RecordSource` EXTENDS `FileBlockSource` EXTENDS `RecordBound`. The record source calls `getNext` of
the block source in the middle of its own steps, so the operations of
`FileBlockSource` are written as action fragments (`ServeQueued(i)`,
`ServeDrained(i)`, `ServeNone`, `ServeThrow`) that `RecordSource` conjoins with
its own. A client that only lists blocks (`--ob`, `main.cpp:33-38`) is the
specification `SourceSpec`, and in `Program` the phase "blocks". A step of
`Program` in the phase "records" is a step of `Extractor`, which is one of the
record source; `OpenFile` gives the variables of all of them the values they
have when their objects are made, so that one behaviour of `Program` lists
several files one after the other.

How state corresponds to code:

* **Blocks** are named by their position in the file. A block is a record
  `[lsn, no, offset, heads, bounds]`: sequence number, block number, the offset
  in its head, and for each offset at which twelve bytes would pass for the
  beginning of a record header, what they say (`heads`). Bytes that are no header
  are not kept. `set_bounds` computes `bounds` from `heads` as `Block::set_bounds`
  does.
* **A record** keeps the *slices* it was assembled from instead of its bytes:
  `[blk, from, size]` per block. Whether it has the right bytes is a question
  about slices.
* **`delivered`, `served`, `answers`** are history variables: what the callers
  have been given so far.
* `fill_Records` is one long function; each of its branches and early returns is
  an action (`EnterLatest`, `EnterNext`, `EndOfFile`, `LeaveBounds`,
  `WholeRecord`, `SplitRecord`, `GiveUp`, `Continue`, `Complete`) or, where it
  throws, `SourceThrows`, `BadWholeRecord`, `NotEnoughBlocks`, `InterimRival`,
  `BadCompletion`. An action spans the calls the branch makes, including those
  into the block source.
* **An element** of a change is `[kind, v, size]`: what the database wrote there,
  the values in it that steer a parser or a decoder, and how many bytes are left
  of it. Decoded as its own kind it shows its values, decoded as another kind it
  shows any of `AnyValue`. A **decoder** is the sequence of its size tests, each
  with the end of the reads behind it (`Must` refuses the element, `May` leaves
  fields out); `Accepts` and `Inside` are what follows from that for a size.
* **A parser** is a sequence of steps, one per call of a cursor method; a step
  says what the parser does when the call fails: return the error, return what it
  has (`return`), go on (`goon`), or use the result without a look (`unchecked`).
  Parsers that call each other are frames of `stack`; code that depends on a
  field read before is a body of its own (`UrpColumns`, `Marker`), looked up when
  that field is there. The actions are the cursor methods (`OneOf`, `AtLeastOf`,
  `OneArray`, `OneRawsBy`, `NRaws`, `RestRaws`, `RestOfKind`, `SkipEmptySpan`,
  `OutOfBounds`) and the steps of a call (`Enter`, `Return`, `Reject`). `Stray` and
  the outcome `undefined` are reads the language does not define; nothing is said
  of what follows them.
* `got` is a history variable: every field, with the element it was read from.
* **A file** of a command line is what the constructor of `FileBlockSource` looks
  at: how many bytes there are up to the end of the two head blocks (`front`),
  magic, type and block size of the file head, the two SCNs of the redo head as
  they stand there, and the log behind. A name may stand for no file. `session`
  holds the words and the files, `outcomes` (history) what each call of `shows`
  has listed; `phase` says which loop of `main` or `shows` is running.
* **A directly loaded block** is its size, byte order, the counts of its headers,
  and a function from offsets to bytes for those that matter; all others are
  `filler`. `written` says what the database has put into each slot, column by
  column and at which place (`places`); `AsTold` says that the bytes are those.
  Each early return of `Kd_row::decode` is an action that leaves the empty row.
* SCNs are natural numbers (a 48-bit number in the code, far from overflow);
  lengths are unbounded naturals up to the 16 MB the code accepts.

## 3. Runs

Every run is small enough for TLC and large enough that each branch is taken.

| run | checks | inputs and bounds |
|---|---|---|
| `bound_scan` | on any block the scan ends and returns a chain that tiles the block; the limit of 32 never decides in blocks up to 784 bytes | block of 512 bytes; headers of every interesting length (below 24, not a multiple of 4, to the end, over the end, above 16 MB) and SCN, stale header offsets |
| `file_block_source` | own blocks in order; an own block not served stands behind a foreign one of its chunk, behind a chunk that begins with one, or in the chunk of the partial block drain threw at; the source implements `BlockStream` | every file of up to 6 blocks, own or foreign, with or without a partial block, chunks of 1 to 4 blocks |
| `program` | in every file of a session: records assembled to length, no overlap, fair to the note, what an exception loses, reported gaps are the gaps between records, "true" is sound; over the session: a file named twice is listed the same twice, every file is listed as commanded or the program stops for it, and the program ends | one file of up to 3 blocks of 12 shapes (and of 4 that begin with a record of 4 blocks), with and without a partial block, in chunks of 3 and, under `--r`, of 1; one file of up to 2 blocks closed at every block, `nab` 0 included, with `--s` (limit 1) and without; two of 13 files listed one, two or three times, with options before, between and behind the names, among them a "--x" the program does not know, with and without a file of that name; nine names that stand for no redo log (absent, short, no magic, no type, a data file, illegal sizes) behind a log; no word, and options only |
| `whole_log` | the listing implements `LogReader`, with and without `--s`; never throws; no false gap; verdict exact | every log of up to 3 records of 7 kinds, flushed or not, each of them `Whole`, 3 kinds of stale offset, with and without old blocks behind; `ShowLimit` 1, so that `--s` stops before the third record |
| `changes` | changes tile the payload; spans in range; answers of `changes()`; at most 257; ends | payloads of up to 48 bytes with every length vector worth it, one payload of 257 and one of 258 empty changes, two calls |
| `change_parser` | read once and in order, inside the element; a row change without an error has its columns; whole changes, but for four named departures, are read as what they are; damaged ones are not misread; where behaviour is undefined | the 199 layouts of `changes.md` and of the parsers' comments, each whole and with one fault: cut after any element, one element shortened (to nothing, by one byte, to the least its decoder takes), or other values in one element; LOB blocks cut before byte 18 that look like data blocks; `UINT32` scaled to 4096, so that the map sizes wrap |
| `data_block` | columns lie in the block, behind one another; the k-th row is that of the k-th slot, as written up to its first column of 255 bytes; that the blocks are written as `AsTold` says is evaluated as `WrittenAssumption` | a block of 900 bytes with two rows of up to two columns, NULL or of 0, 3, 250, 251, 254, 255 or 256 bytes, in either byte order, with free slots and links of the free list before, between and behind them; rows that leave the block by their head, a length or their data; directories of 500 and 65535 slots; 4 values of the bytes between the rows, two of them length marks |
| `void_yields`, `missing_block`, `con_id`, `supplemental_kept`, `itls_of_block` | **expected violations**: see section 6 | |

Blocks have 512 bytes, the smallest legal size, but for `whole_log` and
`missing_block`, whose blocks of 64 bytes (no legal size; every operator takes
`BlockSz` as a constant) let each of a few small records span several of them. The
proofs hold for every block size.

In `program` the files of a session are all of one block size and one SCN range,
which are constants of the modules below. What could pass from one file to the
next (the note, the queue, the block to look at again, the loop's `last`) does
not depend on them.

Two faults at once are not taken: each parser looks at one element at a time
and at the values of at most two earlier ones, which the garbled values cover.

Bounds are named: `MaxBlocks`, `MaxRecords`, `MaxCalls`, `ShowLimit` (1000 in
the code), and the sets `Logs`, `Sessions`, `Blocks`, `Payloads`, `ChunkSizes`.

### Fairness and liveness

The program is one thread that never waits: as long as its next statement can
run it runs. So the specifications assume weak fairness of the one next step
(`WF_vars(Step)`, in `Program` `WF_programVars(ProgramStep)`) and nothing more.
Under it the scan of a block, the decoding of changes and the whole program end
(`Terminates`, `ProgramTerminates`). The interesting case is `latest_block`: a
block put back by one call of `fill_Records` is looked at again by the next, and
this must not become a loop. `DataBlock` states no fairness: its loops count.

That something must end is checked by TLC under this fairness. Why it ends is
proved, for every input and without fairness: a measure in the natural numbers
falls with every step (section 4, *Ends*).

## 4. Proofs

All proofs hold for every value of the constants that satisfies the named
assumptions (`BlockSzAssumption`, `LogsAssumption`, `NabAssumption`, `BlocksAssumption`,
`ChunkAssumption`, `PayloadsAssumption` and the like, each in the module that
declares the constant): any legal block size, any file, any chunk size, any
payload.

| module | theorems | argument |
|---|---|---|
| `BoundScan_proofs` | `TypeCorrect`, `ChainHolds`, `TiledHolds`, `LimitNeverBindsHolds`, `ComputesHolds`, `TurnsBounded` | invariant: the result is a chain, its last bound ends at `offset`, and k bounds take at least 24k bytes. `LimitNeverBinds` follows from the count: 32 records need 768 bytes behind the block head. `Computes` (`Followed`): after k turns the loop has what the recursive function has at k; where the loop leaves early the function stays, by the least k where it would not |
| `FileBlockSource_proofs` | `SourceTypeCorrect`, `ServedInOrderHolds`, `LossExplainedHolds`, `SourceIsBlockStream`, `TidyServed`, `CallsBounded` | invariant: the queue is an interval of own blocks behind everything served, and ends no later than `pos`. `LossInv`: of what was read, every block with no foreign one before it is held. `OfferInv`: a block is held exactly when nothing in its chunk and no first block of a chunk before it withholds it (`Withheld`); where the stream stands when the source stops says that nothing else is missing, which is `LossExplained`. The refinement follows by counting, since the blocks served are all different |
| `RecordSource_proofs` | `TypeCorrect`, `AllAssembledHolds`, `NoOverlapHolds`, `LossOnThrowHolds`, `RemainingHolds`, `LossExplainedOfRecords`, `FairInOrderHolds`, `UnbrokenHolds`, `NeverThrowsHolds`, `StepsBounded` | invariant `IInv`: types; `OneBlock` (records in the queue start in the current block); `InBounds`/`InBody` (`start` is where bound `idx` begins; the record in hand is sliced up to the block served last); `Sound` (records produced are assembled); `Ahead` (every place that can still become the start of a record lies at or behind the end of the last one produced). `NoOverlap` is not inductive without `Ahead`: that `latest_block` is put back only when its offset is at or behind the end of the record (`RecordSource.cpp:173`) is what keeps it. `FairInv`: the note in force is that of the last record produced that carries one, and the record in hand was judged by it. `AdjacentInv`: the block looked at is the one served last. `ReadInv` (below) |
| `Changes_proofs` | `TypeCorrect`, `InRangeHolds`, `TiledHolds`, `AnswersToldHolds`, `BoundedHolds`, `UndoClasses`, `StepsBounded` | invariant: `view` is the end of the last change and a multiple of 4, elements taken so far are laid out between head and `e_offset`. `InRange` needs the alignment: sizes are checked without their padding (`Change.cpp:91`), and it is only because payloads are multiples of four that the rounded offset stays inside |
| `Elements_proofs` | `DecodersInside` | a sequence of tests is *covered* if every test asks for at least what is read behind it; covered sequences concatenate, and behind them no read leaves the element. Every decoder is covered but `Skl`, `Cki` and a LOB map above 2^32 bytes, which `Overreads` names |
| `ChangeParser_proofs` | `ReadInOrderHolds`, `FieldsInsideHolds`, `UndefinedOnlyHolds`, `ColumnsCompleteHolds`, `TypeCorrect` | `IInv`: every field read lies at or before `index`, in order, and was read inside its element. Three lemmas say what a step may do (read nothing, read fields behind the cursor, read all that is left); each action is one of them. `FieldsInside` rests on `DecodersInside` and on the counts being numbers (`ParserAssumption`). The other three need `CInv` (below) |
| `DataBlock_proofs` | `TypeCorrect`, `ColumnsInsideHolds`, `RowsAsWrittenHolds`, `StepsBounded` | invariant: the columns of the row in hand end at or before `at`, and `at` lies in the block; the lengths read are bytes and words of the block, so that sums of them are natural numbers. `Reads`: the row in hand is that of its slot as far as it goes (`SoFar`): up to its first column of 255 bytes `at` is where the database began the next column |
| `Program_proofs` | `RedoHeadInsideHolds`, `ProgramTypeCorrect`, `EveryFileAssembled`, `EveryFileKept`, `EveryFileFair`, `EveryFileLoss`, `EveryFileUnbroken`, `ReportsSkippedHolds`, `VerdictSoundHolds`, `AsCommandedHolds`, `EveryWholeFile`, `WholeListing`, `WholeIsLogReader`, `ProgramProgresses`, `ProgramWellFounded`, `RepeatableHolds` | invariant `PInv`: the block source is sound and has what it should offer (`OfferInv`), and either the record source has not been asked since the last file was opened, or the invariants of `RecordSource_proofs` hold. A turn of the loop in `shows` is a step of the record source, which keeps them; `OpenFile` establishes them anew, whatever the file before has left; under `--ob` the block source may end while the record source is untouched, where `IInv` itself does not hold. `ShowInv`: what is shown is what was handed out, and the ranges reported are those the loop's count passes over; `HoldIs` says that the count is right for a record without a gap in it. `CmdInv`: as many files are listed as there are names before `argv[arg]`. `RepInv`: the listing in hand, and every outcome kept, is where the function `After` leads from the start of a listing |

`ReportsSkipped` and `VerdictSound` speak of records whose own blocks are
numbered without a gap (`Unbroken`): the loop adds `next_blocks` to the number of
a record's first block, and where the source has dropped a chunk from the middle
of a record, as it may (`ACROSS` in `MCProgram` is such a file), the sum is not
the number of its last block. `UnbrokenHolds` says when that cannot happen: if
the file's blocks of this log stand before the others and are numbered one after
the other (`Tidy`). Of such a file every block of the log is served, whatever the
chunk size (`TidyServed`).

**Parsers and their calls.** `UndefinedOnly` and `ColumnsComplete` compare what a
parser ends with to what it had read long before, in other frames of the stack, so
nothing about `got` and `index` alone is inductive for them. `CInv` follows the
control of the parsers:

* *Phases.* Every field is read in a phase (`PhaseOf`), and a call lasts from one
  phase to another (`CallStarts`, `CallEnds`): the transaction, the change undone,
  the block and the head of a row, its column numbers and sizes, its columns, what
  follows it, the check of layer 11, the rest. `Sorted` says that the steps that
  wait, over all frames, are in the order of their phases, and `GotBefore` that
  nothing read lies behind them. So the head of a row and its column numbers are
  read once (`NotTwice`), and a later step that looks them up finds those.
* *What a waiting step needs.* `AllFit` says it of each read and call by its name: a
  call of `UrpColumns` waits only when the row is an update, the columns that wait
  are as many as its head says, a row that waits begins where its head ends.
  `FramesPrepared`: what a parser looks up without a test was read by its caller.
* *What is still to come.* `KdoComes`, `RowComes`, `FromComes`: if a row, or the
  check of its type, is still to come, its head has been read or is to come; if the
  head has been, the row is complete or to come; in layer 11 the type has been
  checked, or will be, or the change is about to fail. At the end nothing is to
  come, which is `ColumnsComplete`.
* *Failures.* `Catches`: the only parser its caller goes on without is that of the
  supplemental, behind the row (`change_usp.h`); so what a failure cuts off the stack
  belongs to no row.

`Bodies` proves, parser by parser and for every value the elements may show, that the
steps of a parser lie between the phases of its call and fit. Each action then keeps
`CInv` (`OneOfKeeps` and so on) by one of four lemmas: a field read (`GotKeeps`), an
element passed over (`DropKeeps`), a failure (`RaisedKeeps`), a call (`EnterKeeps`).
Before it was proved, `CInv` was checked by TLC on the states of `change_parser` (with
`IsSeq` read as the shape of the domain). The proof found three things the constants
have to say and the code grants: the entries of a vector of `u16` are numbers, whole
or misread, and so is the count of new columns in a row head (`ParserAssumption`,
`Typed`).

**Whole logs.** Three theorems are about logs from which nothing is missing.
`Whole(l)` (in `RedoLog`) says what that means, of the file only: its blocks up to
`nab` are there, those behind belong to another log; the bounds `set_bounds`
finds in each block are the records that begin there, no more and no fewer;
each record lies behind the one before it, in the same block or in the next, its
head fits, and it suits the log-writer note before it. It leaves open the sizes
of records and blocks, padding between records, chunk size, and what an
unused block offset holds. That every log of the run `whole_log` is whole is
checked as `WholeAssumption` in `MCRedoLog`. A block with more than 32 records is not whole,
since `bound_candidates` stops there. The invariant is `ReadInv`: the records
produced are the first of those written and the one in hand is the next; between
two calls of `fill_Records` the records not produced yet are those that begin in
or behind the block that will be looked at, which is `latest_block` if one was put
back, and that is where the reader could lose or repeat a block. From it follow
that no exception leaves `getNext` (`NeverThrowsHolds`), that a listing reports
nothing missing and prints the right verdict (`EveryWholeFile` for every file of a
command line, `WholeListing` for one log), and that the loop implements
`LogReader` step by step (`WholeIsLogReader`).

**Rows.** `RowsAsWrittenHolds` is about blocks that hold what the database tells
(`AsTold(block)`): of a slot that is free the entry says so; of a row, whole or cut
off by the end of the block, the head and each column lie where `places` has them,
a column without data as one byte, and one with data behind a length of one byte or,
behind the mark 254, of two. Nothing is assumed of the other bytes, of the other
slots, or of the order of rows in the block. The proof found that the property has
to be read both ways round: behind a column of 255 bytes not only can a whole row be
taken for a damaged one, a row that leaves the block can be taken for a whole one
too, if the bytes of that column pass for the lengths of the columns behind it. The
inputs of `data_block` hold such rows since.

**Ends.** The loops of the program are driven by numbers from the file, so that it
is no matter of course that they end. For each a measure is defined, a natural
number that falls with every step, whatever the file holds:

| theorem | measure | at most |
|---|---|---|
| `TurnsBounded` (`BoundScan_proofs`) | bounds that may still be added, and the end | 33 |
| `CallsBounded` (`FileBlockSource_proofs`) | blocks behind the one served last, and the end | blocks of the file + 1 |
| `StepsBounded` (`RecordSource_proofs`) | 68 for each block not served, 66 for a block put back, two for each bound left in the block in hand, one for each record that waits | 68 for each block of the file, + 1 |
| `StepsBounded` (`Changes_proofs`) | bytes of the payload not looked at, slots of the length vector, calls | calls + bytes + 1 |
| `StepsBounded` (`DataBlock_proofs`) | 258 for each slot, columns of the row in hand | 258 for each slot, + 2 |
| `ProgramProgresses` (`Program_proofs`) | the words of the command line; then what the file in hand has left | a pair, in lexicographic order |

In the record source a block is served once (`ServedInOrder`), is put back only by a
step that has just served it, and is looked at again by a step that clears
`latest_block`: so it is entered at most twice, and 66 steps are what 32 bounds can
take. The files of a session have no common bound, so that of the program is a pair;
`ProgramWellFounded` says that the order in which it falls is well-founded. That
the program does stop follows with the fairness of section 3, since only a program
that is over has no step; this last part is `ProgramTerminates`, which TLC checks.

**Listing twice.** `RepeatableHolds` compares two listings, and a state of the
program holds one. What shows does is therefore stated once more without the
variables: `After(f, s)` is the state of a listing one step after `s`, where `f` is
all it may depend on, the log, the chunk size, `--s` and `--ob`. `ListGoes` proves
that every step of the program inside a listing is one of `After` and leaves `f` as
it is; that `drain` has no choice is `OwnOnce`, that the exceptions have none are
`SourceThrowsGoes` and `RefusedGoes`. `RepInv` is that the listing in hand is
reached by `After` from `Fresh`, and that every outcome is the end of such a chain
for its file; `RepOpen` is the step that a note, a queue or a block put back left
over from the file before would break. Two chains for one `f` agree as far as both
go (`TracesAgree`: take the first place where they do not), so that they have the
same end (`OneEnd`). The options are read before the first file and never change,
hence nothing but the file decides.

Not proved, but model-checked:

* liveness, with the fairness half of the two refinements
  (`ImplementsBlockStream`, `ImplementsLogReader`): out of this prover's reach;
* `IntactRead` and `DamageNotMisread`: they speak of the layouts `MCChangeParser`
  lists, one by one, `IntactRead` only of those without a departure (section 6).

## 5. What is assumed of the outside

* **Header test.** `Readable` leaves out offsets whose twelve bytes cross the end
  of the block, as `RecordBound.cpp:192` does. In a block of the file anything may
  stand behind an offset, so the runs take all combinations of a few headers.
* **The writer** (`RedoLog`, external): records lie one behind the other over
  block bodies, a header is not split (`worknote.md:20`, 16 bytes), the writer may
  leave the rest of a block unused, and a block head gives the offset of the first
  record that begins in it or, where none begins, an old value
  (`worknote.md:31-35`). SCNs may exceed the note by up to 1900 (`worknote.md`).
* **Payloads** are multiples of four bytes: record lengths are
  (`RecordBound.cpp:221`) and both head sizes are.
* **Layouts of changes**: `changes.md` 6.3.1 for undo, the comments of each parser
  for the rest. `MCChangeParser` gives them as constructors; that they are what a
  database writes is assumed. Which of the two kinds of block a change 19.1 holds
  the code tells by bytes 0 to 3 and 18 (`is_data_block`): `change.data` is what they
  say. It is assumed of a whole LOB block that they do not say "data".
* **Words of the command line** that begin with "--" are the constant `Dashed`, of
  which no more is assumed than that the known options are among them.
* **Record sizes**: `read_BoundInfo0` takes a length above 16 MB for garbage
  although the notes assume up to 32 MB (`worknote.md:21`); a record between the
  two sizes would end the scan of its block.

## 6. Where code and documentation part

Each is a run that is expected to be violated, with a finding in `PROJECT.json`.

* `void_yields`: `choose_new_vld` applies `vld & MASK != 0`, which tests bit 0 only.
* `missing_block`: a missing block can go unreported.
* `con_id`: the extension of a change head is decoded from offset 0.
* `supplemental_kept`: `n_raws` is asked for n elements and takes all that remain, so
  the supplemental of an insert, overwrite or update piece becomes a column where the
  columns are elements of their own.
* `itls_of_block`: the arguments of `decode_ktb_itlEntry24s` are in the wrong order.

Further places, without a run of their own, which the models have as the code does:

* `MCChangeParser` gives layouts the code is known not to read as documented a
  *departure*; `IntactRead` is about the layouts without one and says nothing of the
  others, of which there are four kinds: what stands behind columns that are elements
  of their own (the run `supplemental_kept` shows this one), the supplemental behind
  a row with fewer than two payloads (`changes.md` 6.3.1.3; `change_kdo.h:71-75`
  takes it for a payload), an update whose one element is split by column numbers
  instead of sizes (`change_kdo.h:174-180`), and the PDB as the second element of 5.2
  (`change_05_02.h:47` says "#2 or #3", `:117` has consumed it by then). The other
  properties hold of them all.
* The limit of `--s` (`main.cpp:45`) shows 1001 records where `main.cpp:78` says 1000.
* The block size is truncated to 16 bits (`FileHead.cpp:48`) before it is validated
  against "512B~32KB" (`FileHead.cpp:87`): 64 KB and 512 bytes pass for 512.
* `RedoHead.h:105` has a `validate` for the redo head whose result is only printed
  (`RedoHead.cpp:127`, from `main.cpp:31`): a head it finds fault with is read on all
  the same.
* A column of 255 bytes is taken for NULL (`layout_dlb_d.h:341`) although its length
  was read from three bytes; `RowsAsWritten` ends at such a column.
* A slot of the free list that holds the number of the next free slot
  (`layout_dlb_d.h:90-92`) is decoded as a row at that offset; `RowsAsWritten` asks
  of such a slot only that it leaves the others alone.
* `redo_version` is never given to the parsers (`records/Change.h:154`), so the
  fields of version 19 are never read (`coral_combinator.h:95`).

## 7. Not modelled

* Everything that formats or prints, the table of operation names, vendored
  headers. The options that only choose what is printed (`--i`, `--b`, `--d`) are
  words without effect.
* Fields of the two heads that are only printed.
* Field values that steer nothing, and the bytes of raw elements.

## 8. Plan

1. *(done)* bounds, block source, record source, listing loop, changes; type
   correctness and the main safety properties of four of them proved.
2. *(done)* span cursor, change parsers and the size tests of the decoders; that
   elements are read once, in order and inside their bounds is proved.
3. *(done)* the command line, sessions of several files, the two heads; rows of
   directly loaded blocks, with two theorems; that the record source keeps its
   properties in every file of a session.
4. *(done)* what the record source does to the log-writer note, what the block
   source loses and that it is a block stream; the listing loop and the command
   line; that a whole log is read in full.
5. *(done)* that the parsers are undefined in the named places only, and that a
   row they end well with is complete.
6. *(done)* that rows are read as the database writes them; that every loop ends,
   by measures that hold for every input; that a listing is a function of its file
   and the options.
