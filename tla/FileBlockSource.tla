-------------------------- MODULE FileBlockSource --------------------------
(***************************************************************************)
(* FileBlockSource (src/blocks/BlockSource.{h,cpp}): a redo-log file read  *)
(* in chunks of blocks into a deque, from which getNext serves its caller. *)
(*                                                                         *)
(* Blocks are named by their position in the file, counted after the two   *)
(* head blocks: position i is log.blocks[i]. A file may end in a partial   *)
(* block (log.tail). chunk is BLOCKS_PER_READ: one when the program runs   *)
(* with --r, and 8 MB worth of blocks otherwise.                           *)
(***************************************************************************)
EXTENDS RecordBound, FiniteSets

CONSTANTS
  Logs,        \* the redo-log files
  Lsn,         \* log_seq_no of the redo head
  ChunkSizes   \* the values of BLOCKS_PER_READ

ASSUME ChunkAssumption == ChunkSizes \subseteq Nat \ {0}
ASSUME LogsAssumption ==
  \A l \in Logs :
    /\ l.tail \in BOOLEAN
    /\ Len(l.blocks) \in Nat
    /\ \A i \in 1 .. Len(l.blocks) :
         LET b == l.blocks[i] IN
           /\ b.lsn \in Nat /\ b.no \in Nat
           /\ b.offset \in 0 .. 2^15 - 1
           /\ \A o \in DOMAIN b.heads : b.heads[o] \in Heads
           /\ IsBoundChain(b, b.bounds)

VARIABLES
  log,         \* the file that is read: never changes
  chunk,       \* BLOCKS_PER_READ: never changes
  pos,         \* whole blocks read from the stream so far
  failed,      \* the stream is in a failed state ("!file")
  queue,       \* out_buffer: positions of the decoded blocks not yet served
  served,      \* history: the positions getNext has returned, in order
  source       \* "open", "ended" (getNext answered nullopt) or "thrown"

sourceVars == <<log, chunk, pos, failed, queue, served, source>>

Block(i) == log.blocks[i]
FileSize == Len(log.blocks)

SourceInit ==
  /\ log \in Logs
  /\ chunk \in ChunkSizes
  /\ pos = 0
  /\ failed = FALSE
  /\ queue = << >>
  /\ served = << >>
  /\ source = "open"

-----------------------------------------------------------------------------
(* drain: one read of a chunk. Its last block is position ChunkEnd.         *)

ChunkEnd == IF pos + chunk <= FileSize THEN pos + chunk ELSE FileSize

\* The read meets the end of the file: gcount is short and the stream fails.
ShortRead == pos + chunk > FileSize

\* gcount is no multiple of the block size: drain throws.
BadRead == ~ failed /\ ShortRead /\ log.tail

\* n blocks of the chunk carry this log's sequence number before one does not.
Own(n) ==
  /\ \A i \in 1 .. n : Block(pos + i).lsn = Lsn
  /\ pos + n < ChunkEnd => Block(pos + n + 1).lsn # Lsn

\* Mutant: a short chunk at the end of the file is not decoded.
DrainsFullChunks ==
  ~ failed /\ pos < FileSize /\ ~ ShortRead /\ Block(pos + 1).lsn = Lsn

\* "return i != 0" at a foreign block, true at the end of the chunk.
Drains == ~ failed /\ pos < FileSize /\ ~ BadRead /\ Block(pos + 1).lsn = Lsn

-----------------------------------------------------------------------------
(* getNext. ServeQueued and ServeDrained return the block at position i,   *)
(* ServeNone returns nullopt and ServeThrow leaves by the exception.        *)

\* Mutant: the rest of the deque goes with the block served.
ServeQueuedClears(i) ==
  /\ queue # << >>
  /\ i = queue[1]
  /\ queue' = << >>
  /\ served' = Append(served, i)
  /\ UNCHANGED <<log, chunk, pos, failed, source>>

ServeQueued(i) ==
  /\ queue # << >>
  /\ i = queue[1]
  /\ queue' = Tail(queue)
  /\ served' = Append(served, i)
  /\ UNCHANGED <<log, chunk, pos, failed, source>>

\* Mutant: the sequence number is looked at in the first block only.
ServeDrainedUnchecked(i) ==
  /\ queue = << >>
  /\ Drains
  /\ i = pos + 1
  /\ queue' = [k \in 1 .. ChunkEnd - i |-> i + k]
  /\ pos' = ChunkEnd
  /\ failed' = ShortRead
  /\ served' = Append(served, i)
  /\ UNCHANGED <<log, chunk, source>>

ServeDrained(i) ==
  /\ queue = << >>
  /\ Drains
  /\ i = pos + 1
  /\ \E n \in 1 .. ChunkEnd - pos :
       /\ Own(n)
       /\ queue' = [k \in 1 .. n - 1 |-> i + k]
  /\ pos' = ChunkEnd
  /\ failed' = ShortRead
  /\ served' = Append(served, i)
  /\ UNCHANGED <<log, chunk, source>>

\* Mutant: a chunk is counted as read though the file is shorter.
ServeNoneUncut ==
  /\ queue = << >>
  /\ ~ Drains /\ ~ BadRead
  /\ pos' = IF failed THEN pos ELSE pos + chunk
  /\ failed' = (failed \/ ShortRead)
  /\ source' = "ended"
  /\ UNCHANGED <<log, chunk, queue, served>>

ServeNone ==
  /\ queue = << >>
  /\ ~ Drains /\ ~ BadRead
  /\ pos' = IF failed THEN pos ELSE ChunkEnd
  /\ failed' = (failed \/ ShortRead)
  /\ source' = "ended"
  /\ UNCHANGED <<log, chunk, queue, served>>

ServeThrow ==
  /\ queue = << >>
  /\ BadRead
  /\ pos' = ChunkEnd
  /\ failed' = TRUE
  /\ source' = "thrown"
  /\ UNCHANGED <<log, chunk, queue, served>>

Serve(i) == ServeQueued(i) \/ ServeDrained(i)

-----------------------------------------------------------------------------
(* The client of "--ob" (main.cpp:33-38): take blocks until there is none.  *)

Running == source = "open"

TakeBlock == Running /\ \E i \in 1 .. FileSize : Serve(i)
TakeNone == Running /\ ServeNone
TakeThrow == Running /\ ServeThrow
Stopped == ~ Running /\ UNCHANGED sourceVars

SourceNext == TakeBlock \/ TakeNone \/ TakeThrow \/ Stopped

SourceSpec ==
  /\ SourceInit
  /\ [][SourceNext]_sourceVars
  /\ WF_sourceVars(TakeBlock \/ TakeNone \/ TakeThrow)
-----------------------------------------------------------------------------
SourceTypeOK ==
  /\ chunk \in ChunkSizes
  /\ pos \in 0 .. FileSize
  /\ failed \in BOOLEAN
  /\ queue \in Seq(1 .. FileSize)
  /\ served \in Seq(1 .. FileSize)
  /\ source \in {"open", "ended", "thrown"}

LastServed == IF served = << >> THEN 0 ELSE served[Len(served)]

\* drain pushes at the back and getNext pops at the front (BlockSource.cpp:120,
\* 125-139): the caller sees the blocks of its own log only, each at most once
\* and in file order, across every chunk boundary.
ServedInOrder ==
  /\ \A k \in 1 .. Len(served) : Block(served[k]).lsn = Lsn
  /\ \A j, k \in 1 .. Len(served) : j < k => served[j] < served[k]

\* Blocks of one chunk: i and j are read from the file by the same drain.
SameChunk(i, j) == (i - 1) \div chunk = (j - 1) \div chunk

FirstOfChunk(j) == (j - 1) % chunk = 0

\* A foreign block at or before i is read by the same drain, or begins a chunk:
\* at the first one drain leaves its chunk, at the second one getNext ends.
BehindForeign(i) ==
  \E j \in 1 .. i : Block(j).lsn # Lsn /\ (SameChunk(i, j) \/ FirstOfChunk(j))

\* BlockSource.cpp:95-119: when the source has stopped, a block of this log was
\* not served only because a foreign one stands before it in its chunk, because
\* an earlier chunk begins with a foreign one, or because drain threw at the
\* partial block in its chunk. A foreign block elsewhere costs no block of a
\* later chunk.
LossExplained ==
  source # "open" =>
    \A i \in 1 .. FileSize :
      Block(i).lsn = Lsn =>
        \/ \E k \in 1 .. Len(served) : served[k] = i
        \/ BehindForeign(i)
        \/ source = "thrown" /\ SameChunk(i, FileSize + 1)

\* The blocks drain offers, chunk by chunk: those before the first foreign block
\* of their chunk, up to a chunk that begins with a foreign block or that reaches
\* a partial block.
Withheld(i) == BehindForeign(i) \/ (log.tail /\ SameChunk(i, FileSize + 1))
Offered == {i \in 1 .. FileSize : ~ Withheld(i)}

Stream == INSTANCE BlockStream WITH
            size <- Cardinality(Offered), n <- Len(served), ended <- source # "open"

\* BlockSource.cpp:79-139: whatever the file and the chunk size, the source is a
\* BlockStream of the blocks offered: none of them is skipped, repeated or kept
\* back, and then it ends.
ImplementsBlockStream == Stream!Spec
=============================================================================
