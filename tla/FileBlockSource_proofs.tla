----------------------- MODULE FileBlockSource_proofs -----------------------
(***************************************************************************)
(* The blocks that getNext serves, for every file, chunk size and block    *)
(* size: each at most once, in file order, of the own log only. The steps  *)
(* are proved one by one, for any client that takes them.                  *)
(***************************************************************************)
EXTENDS FileBlockSource, SequenceTheorems, FunctionTheorems, FiniteSetTheorems,
        TLAPS

\* The deque holds blocks of the own log that lie behind those served, in file
\* order, and all of them have been read from the stream.
Waiting ==
  /\ \A k \in 1 .. Len(queue) : queue[k] <= pos /\ Block(queue[k]).lsn = Lsn
  /\ \A j, k \in 1 .. Len(queue) : j < k => queue[j] < queue[k]
  /\ \A j \in 1 .. Len(served), k \in 1 .. Len(queue) : served[j] < queue[k]
  /\ \A k \in 1 .. Len(served) : served[k] <= pos

\* Nothing is left in the deque when the source has stopped.
DrainedAtEnd == source # "open" => queue = << >>

SourceInv ==
  /\ log \in Logs
  /\ SourceTypeOK /\ ServedInOrder /\ Waiting /\ DrainedAtEnd

LEMMA SizeNat == log \in Logs => FileSize \in Nat
  BY LogsAssumption DEF FileSize

LEMMA InitSourceInv == SourceInit => SourceInv
  <1> SUFFICES ASSUME SourceInit PROVE SourceInv
    OBVIOUS
  <1>1. /\ log \in Logs /\ chunk \in ChunkSizes /\ pos = 0 /\ failed = FALSE
        /\ queue = << >> /\ served = << >> /\ source = "open"
    BY DEF SourceInit
  <1>2. SourceTypeOK
    <2>1. << >> \in Seq(1 .. FileSize) /\ 0 \in 0 .. FileSize
      BY <1>1, SizeNat
    <2> QED
      BY <1>1, <2>1, Zenon DEF SourceTypeOK
  <1> QED
    BY <1>1, <1>2 DEF SourceInv, ServedInOrder, Waiting, DrainedAtEnd

\* Appending to served a block behind the others keeps the order.
LEMMA ServedGrows ==
  ASSUME SourceTypeOK, ServedInOrder, NEW i \in 1 .. FileSize,
         UNCHANGED log, served' = Append(served, i),
         Block(i).lsn = Lsn, \A k \in 1 .. Len(served) : served[k] < i
  PROVE  /\ ServedInOrder'
         /\ served' \in Seq(1 .. FileSize) /\ Len(served') = Len(served) + 1
         /\ \A k \in 1 .. Len(served) : served'[k] = served[k]
         /\ served'[Len(served) + 1] = i
  <1>1. served \in Seq(1 .. FileSize) /\ Len(served) \in Nat
    BY DEF SourceTypeOK
  <1>2. /\ served' \in Seq(1 .. FileSize) /\ Len(served') = Len(served) + 1
        /\ \A k \in 1 .. Len(served) : served'[k] = served[k]
        /\ served'[Len(served) + 1] = i
    BY <1>1
  <1>3. ASSUME NEW k \in 1 .. Len(served')
        PROVE  log.blocks[served'[k]].lsn = Lsn
    <2>1. k \in 1 .. Len(served) \/ k = Len(served) + 1
      BY <1>1, <1>2
    <2>2. CASE k \in 1 .. Len(served)
      BY <1>2, <2>2 DEF ServedInOrder, Block
    <2>3. CASE k = Len(served) + 1
      BY <1>2, <2>3 DEF Block
    <2> QED
      BY <2>1, <2>2, <2>3
  <1>4. \A j, k \in 1 .. Len(served') : j < k => served'[j] < served'[k]
    BY <1>1, <1>2 DEF ServedInOrder
  <1> QED
    BY <1>2, <1>3, <1>4 DEF ServedInOrder, Block

LEMMA QueuedStep ==
  ASSUME SourceInv, source = "open", NEW i, ServeQueued(i)
  PROVE  SourceInv' /\ i \in 1 .. FileSize
         /\ \A k \in 1 .. Len(served) : served[k] < i
  <1>1. /\ queue \in Seq(1 .. FileSize) /\ queue # << >> /\ i = queue[1]
        /\ queue' = Tail(queue) /\ served' = Append(served, i)
        /\ UNCHANGED <<log, chunk, pos, failed, source>>
    BY DEF ServeQueued, SourceInv, SourceTypeOK
  <1>2. Len(queue) \in Nat /\ Len(queue) > 0 /\ i \in 1 .. FileSize
    <2>1. Len(queue) \in Nat \ {0}
      BY <1>1, EmptySeq, Zenon
    <2>2. 1 \in 1 .. Len(queue)
      BY <2>1
    <2>3. queue[1] \in 1 .. FileSize
      BY <1>1, <2>2, ElementOfSeq, Zenon
    <2> QED
      BY <1>1, <2>1, <2>3
  <1>3. /\ queue' \in Seq(1 .. FileSize) /\ Len(queue') = Len(queue) - 1
        /\ \A k \in 1 .. Len(queue') : queue'[k] = queue[k + 1]
    BY <1>1, <1>2
  <1>4. /\ \A k \in 1 .. Len(served) : served[k] < i
        /\ Block(i).lsn = Lsn /\ i <= pos
        /\ \A k \in 1 .. Len(queue') : i < queue'[k]
    BY <1>1, <1>2, <1>3 DEF SourceInv, Waiting
  <1>5. /\ ServedInOrder'
        /\ served' \in Seq(1 .. FileSize) /\ Len(served') = Len(served) + 1
        /\ \A k \in 1 .. Len(served) : served'[k] = served[k]
        /\ served'[Len(served) + 1] = i
    BY <1>1, <1>2, <1>4, ServedGrows DEF SourceInv
  <1>6. SourceTypeOK'
    BY <1>1, <1>3, <1>5 DEF SourceInv, SourceTypeOK, FileSize
  <1>7. Waiting'
    <2>1. \A k \in 1 .. Len(queue') : queue'[k] <= pos /\ Block(queue'[k]).lsn = Lsn
      BY <1>2, <1>3 DEF SourceInv, Waiting
    <2>2. \A j, k \in 1 .. Len(queue') : j < k => queue'[j] < queue'[k]
      BY <1>2, <1>3 DEF SourceInv, Waiting
    <2>3. \A j \in 1 .. Len(served'), k \in 1 .. Len(queue') : served'[j] < queue'[k]
      BY <1>2, <1>3, <1>4, <1>5 DEF SourceInv, Waiting
    <2>4. \A k \in 1 .. Len(served') : served'[k] <= pos
      BY <1>4, <1>5 DEF SourceInv, Waiting
    <2> QED
      BY <1>1, <2>1, <2>2, <2>3, <2>4 DEF Waiting, Block
  <1>8. DrainedAtEnd'
    BY <1>1 DEF DrainedAtEnd
  <1> QED
    BY <1>1, <1>2, <1>4, <1>5, <1>6, <1>7, <1>8 DEF SourceInv

LEMMA DrainedStep ==
  ASSUME SourceInv, source = "open", NEW i, ServeDrained(i)
  PROVE  SourceInv' /\ i \in 1 .. FileSize
         /\ \A k \in 1 .. Len(served) : served[k] < i
  <1>1. /\ queue = << >> /\ Drains /\ i = pos + 1
        /\ pos' = ChunkEnd /\ failed' = ShortRead
        /\ served' = Append(served, i) /\ UNCHANGED <<log, chunk, source>>
    BY DEF ServeDrained
  <1>2. /\ FileSize \in Nat /\ chunk \in Nat \ {0}
        /\ pos \in 0 .. FileSize /\ pos < FileSize
    BY <1>1, SizeNat, ChunkAssumption DEF SourceInv, SourceTypeOK, Drains
  <1>3. i \in 1 .. FileSize /\ Block(i).lsn = Lsn
    BY <1>1, <1>2 DEF Drains
  <1>4. /\ ChunkEnd \in 0 .. FileSize /\ ChunkEnd >= i
        /\ ShortRead \in BOOLEAN
    BY <1>1, <1>2 DEF ChunkEnd, ShortRead
  <1>5. PICK n \in 1 .. ChunkEnd - pos :
          Own(n) /\ queue' = [k \in 1 .. n - 1 |-> i + k]
    BY DEF ServeDrained
  <1>6. /\ queue' \in Seq(1 .. FileSize) /\ Len(queue') = n - 1
        /\ \A k \in 1 .. n - 1 : queue'[k] = i + k
        /\ n \in Nat /\ n >= 1 /\ pos + n <= ChunkEnd
    BY <1>1, <1>2, <1>4, <1>5
  <1>7. \A k \in 1 .. Len(served) : served[k] < i
    BY <1>1, <1>2 DEF SourceInv, Waiting, SourceTypeOK
  <1>8. /\ ServedInOrder'
        /\ served' \in Seq(1 .. FileSize) /\ Len(served') = Len(served) + 1
        /\ \A k \in 1 .. Len(served) : served'[k] = served[k]
        /\ served'[Len(served) + 1] = i
    BY <1>1, <1>3, <1>7, ServedGrows DEF SourceInv
  <1>9. SourceTypeOK'
    BY <1>1, <1>4, <1>6, <1>8 DEF SourceInv, SourceTypeOK, FileSize
  <1>10. Waiting'
    <2>1. \A k \in 1 .. n : Block(pos + k).lsn = Lsn
      BY <1>5 DEF Own
    <2>2. \A k \in 1 .. n - 1 : queue'[k] = pos + (k + 1) /\ k + 1 \in 1 .. n
      BY <1>1, <1>2, <1>6
    <2>3. \A k \in 1 .. n - 1 : queue'[k] <= ChunkEnd /\ Block(queue'[k]).lsn = Lsn
      <3> SUFFICES ASSUME NEW k \in 1 .. n - 1
                   PROVE  queue'[k] <= ChunkEnd /\ Block(queue'[k]).lsn = Lsn
        OBVIOUS
      <3>1. queue'[k] = pos + (k + 1) /\ k + 1 \in 1 .. n
        BY <2>2
      <3>2. pos + (k + 1) <= pos + n
        BY <1>2, <1>6, <3>1
      <3>3. pos + (k + 1) <= ChunkEnd
        BY <1>2, <1>4, <1>6, <3>1, <3>2
      <3> QED
        BY <2>1, <3>1, <3>3
    <2>4. \A j, k \in 1 .. n - 1 : j < k => queue'[j] < queue'[k]
      BY <1>3, <1>6
    <2>5. ASSUME NEW j \in 1 .. Len(served')
          PROVE  served'[j] <= i /\ served'[j] \in 1 .. FileSize
      <3>1. served'[j] \in 1 .. FileSize
        <4>1. served' \in Seq(1 .. FileSize)
          BY <1>8
        <4> QED
          BY <4>1, ElementOfSeq, Zenon
      <3>2. j \in 1 .. Len(served) \/ j = Len(served) + 1
        BY <1>8
      <3>3. CASE j \in 1 .. Len(served)
        BY <1>3, <1>7, <1>8, <3>1, <3>3
      <3>4. CASE j = Len(served) + 1
        BY <1>3, <1>8, <3>4
      <3> QED
        BY <3>1, <3>2, <3>3, <3>4
    <2>6. \A j \in 1 .. Len(served'), k \in 1 .. n - 1 : served'[j] < queue'[k]
      <3> SUFFICES ASSUME NEW j \in 1 .. Len(served'), NEW k \in 1 .. n - 1
                   PROVE  served'[j] < queue'[k]
        OBVIOUS
      <3>1. queue'[k] = i + k /\ served'[j] <= i /\ served'[j] \in 1 .. FileSize
        BY <1>6, <2>5
      <3>2. k \in Nat \ {0}
        BY <1>6
      <3>3. i \in Nat /\ served'[j] \in Nat
        BY <1>2, <1>3, <3>1
      <3> QED
        BY <3>1, <3>2, <3>3
    <2>7. \A j \in 1 .. Len(served') : served'[j] <= ChunkEnd
      <3> SUFFICES ASSUME NEW j \in 1 .. Len(served')
                   PROVE  served'[j] <= ChunkEnd
        OBVIOUS
      <3> QED
        BY <1>2, <1>3, <1>4, <2>5
    <2> QED
      BY <1>1, <1>6, <2>3, <2>4, <2>6, <2>7 DEF Waiting, Block
  <1>11. DrainedAtEnd'
    BY <1>1 DEF DrainedAtEnd
  <1> QED
    BY <1>1, <1>3, <1>7, <1>8, <1>9, <1>10, <1>11 DEF SourceInv

\* The caller of getNext is given a block of its log behind all the others.
LEMMA ServeStep ==
  ASSUME SourceInv, source = "open", NEW i, Serve(i)
  PROVE  SourceInv' /\ i \in 1 .. FileSize
         /\ \A k \in 1 .. Len(served) : served[k] < i
  BY QueuedStep, DrainedStep DEF Serve

\* The end of the file, or a partial block at it.
LEMMA EndStep ==
  ASSUME SourceInv, ServeNone \/ ServeThrow
  PROVE  SourceInv'
  <1>1. /\ queue = << >> /\ UNCHANGED <<log, chunk, queue, served>>
        /\ pos' \in {pos, ChunkEnd} /\ failed' \in BOOLEAN
        /\ source' \in {"ended", "thrown"}
    BY DEF ServeNone, ServeThrow, SourceInv, SourceTypeOK, ShortRead
  <1>2. FileSize \in Nat /\ chunk \in Nat \ {0} /\ pos \in 0 .. FileSize
    BY SizeNat, ChunkAssumption DEF SourceInv, SourceTypeOK
  <1>3. ChunkEnd \in 0 .. FileSize /\ pos <= ChunkEnd
    BY <1>2 DEF ChunkEnd
  <1>4. pos' \in 0 .. FileSize /\ pos <= pos'
    BY <1>1, <1>2, <1>3
  <1>5. SourceTypeOK'
    BY <1>1, <1>4 DEF SourceInv, SourceTypeOK, FileSize
  <1>6. ServedInOrder' /\ DrainedAtEnd'
    BY <1>1 DEF SourceInv, ServedInOrder, DrainedAtEnd, Block
  <1>7. Waiting'
    BY <1>1, <1>2, <1>4 DEF SourceInv, SourceTypeOK, Waiting, Block
  <1> QED
    BY <1>1, <1>5, <1>6, <1>7 DEF SourceInv

LEMMA SourceStutter ==
  ASSUME SourceInv, UNCHANGED sourceVars
  PROVE  SourceInv'
  BY DEF SourceInv, sourceVars, SourceTypeOK, ServedInOrder, Waiting,
         DrainedAtEnd, FileSize, Block

LEMMA LastType == SourceInv => LastServed \in 0 .. FileSize /\ FileSize \in Nat
  <1> SUFFICES ASSUME SourceInv
               PROVE  LastServed \in 0 .. FileSize /\ FileSize \in Nat
    OBVIOUS
  <1>1. FileSize \in Nat /\ served \in Seq(1 .. FileSize)
    BY SizeNat DEF SourceInv, SourceTypeOK
  <1>2. CASE served = << >>
    BY <1>1, <1>2 DEF LastServed
  <1>3. CASE served # << >>
    <2>1. Len(served) \in Nat \ {0}
      BY <1>1, <1>3, EmptySeq, Zenon
    <2>2. served[Len(served)] \in 1 .. FileSize
      BY <1>1, <2>1, ElementOfSeq
    <2> QED
      BY <1>1, <1>3, <2>2 DEF LastServed
  <1> QED
    BY <1>2, <1>3

\* A block that getNext returns lies behind every block it returned before.
LEMMA LastGrows ==
  ASSUME SourceInv, source = "open", NEW i, Serve(i)
  PROVE  /\ SourceInv' /\ i \in 1 .. FileSize
         /\ LastServed < i /\ LastServed' = i
         /\ UNCHANGED <<log, source>> /\ FileSize' = FileSize
  <1>1. served \in Seq(1 .. FileSize)
    BY DEF SourceInv, SourceTypeOK
  <1>2. /\ SourceInv' /\ i \in 1 .. FileSize
        /\ \A k \in 1 .. Len(served) : served[k] < i
    BY ServeStep
  <1>3. served' = Append(served, i) /\ UNCHANGED <<log, source>>
    BY DEF Serve, ServeQueued, ServeDrained
  <1>4. LastServed < i
    <2>1. CASE served = << >>
      BY <1>2, <2>1 DEF LastServed
    <2>2. CASE served # << >>
      <3>1. Len(served) \in Nat \ {0}
        BY <1>1, <2>2, EmptySeq, Zenon
      <3> QED
        BY <1>2, <2>2, <3>1 DEF LastServed
    <2> QED
      BY <2>1, <2>2
  <1>5. LastServed' = i
    <2>1. Len(served') = Len(served) + 1 /\ served'[Len(served) + 1] = i
          /\ Len(served) \in Nat
      BY <1>1, <1>2, <1>3
    <2>2. served' # << >>
      BY <2>1
    <2> QED
      BY <2>1, <2>2 DEF LastServed
  <1> QED
    BY <1>2, <1>3, <1>4, <1>5 DEF FileSize

-----------------------------------------------------------------------------
LEMMA SourceInvariant == SourceSpec => []SourceInv
  <1>1. SourceInv /\ [SourceNext]_sourceVars => SourceInv'
    BY ServeStep, EndStep, SourceStutter
    DEF SourceNext, TakeBlock, TakeNone, TakeThrow, Stopped, Running
  <1> QED
    BY InitSourceInv, <1>1, PTL DEF SourceSpec

\* The variables of the source keep their types.
THEOREM SourceTypeCorrect == SourceSpec => []SourceTypeOK
  BY SourceInvariant, PTL DEF SourceInv

\* BlockSource.cpp:76-139: blocks of the own log, each once, in file order.
THEOREM ServedInOrderHolds == SourceSpec => []ServedInOrder
  BY SourceInvariant, PTL DEF SourceInv

-----------------------------------------------------------------------------
(* What is withheld: where the own blocks of the file went when the source *)
(* has stopped.                                                            *)

LEMMA QuotRem ==
  ASSUME NEW q \in Nat, NEW b \in Nat \ {0}, NEW r \in Nat, r < b
  PROVE  (q * b + r) \div b = q /\ (q * b + r) % b = r
  OBVIOUS

LEMMA Times ==
  ASSUME NEW q \in Int, NEW b \in Int
  PROVE  (q + 1) * b = q * b + b
  OBVIOUS

\* getNext has served the block at i, or will.
Held(i) ==
  \/ \E k \in 1 .. Len(served) : served[k] = i
  \/ \E k \in 1 .. Len(queue) : queue[k] = i

\* No foreign block stands before the end of the block at i.
Clear(i) == \A j \in 1 .. i : Block(j).lsn = Lsn

\* The stream is at the end of a chunk until it fails, which it does at the end
\* of the file. Of what was read, blocks with no foreign one before them are
\* held; when the source has stopped, so are all of them or all but those of the
\* chunk that was thrown away.
LossInv ==
  /\ ~ failed => \E q \in Nat : pos = q * chunk
  /\ failed => pos = FileSize
  /\ source = "open" => \A i \in 1 .. pos : Clear(i) => Held(i)
  /\ source = "ended" => \A i \in 1 .. FileSize : Clear(i) => Held(i)
  /\ source = "thrown" =>
       \A i \in 1 .. FileSize :
         Clear(i) => Held(i) \/ SameChunk(i, FileSize + 1)

LEMMA InitLossInv == SourceInit => LossInv
  <1> SUFFICES ASSUME SourceInit PROVE LossInv
    OBVIOUS
  <1>1. /\ pos = 0 /\ failed = FALSE /\ source = "open" /\ chunk \in Nat
    BY ChunkAssumption DEF SourceInit
  <1>2. pos = 0 * chunk /\ 0 \in Nat
    BY <1>1
  <1> QED
    BY <1>1, <1>2 DEF LossInv

LEMMA SourceNats ==
  ASSUME SourceInv
  PROVE  /\ FileSize \in Nat /\ chunk \in Nat \ {0} /\ pos \in 0 .. FileSize
         /\ failed \in BOOLEAN /\ pos \in Nat
         /\ served \in Seq(1 .. FileSize) /\ Len(served) \in Nat
         /\ queue \in Seq(1 .. FileSize) /\ Len(queue) \in Nat
  BY SizeNat, ChunkAssumption DEF SourceInv, SourceTypeOK

\* A chunk is read: the stream is at its end, or has failed.
LEMMA ChunkRead ==
  ASSUME SourceInv, LossInv, ~ failed
  PROVE  /\ ~ ShortRead => \E q \in Nat : ChunkEnd = q * chunk
         /\ ShortRead => ChunkEnd = FileSize
         /\ pos <= ChunkEnd /\ ChunkEnd \in 0 .. FileSize
         /\ ShortRead \in BOOLEAN
  <1>1. PICK q \in Nat : pos = q * chunk
    BY DEF LossInv
  <1>2. (q + 1) * chunk = pos + chunk /\ q + 1 \in Nat
    BY <1>1, SourceNats, Times
  <1>3. ~ ShortRead => ChunkEnd = pos + chunk
    BY SourceNats DEF ShortRead, ChunkEnd
  <1>4. ~ ShortRead => \E p \in Nat : ChunkEnd = p * chunk
    BY <1>2, <1>3
  <1> QED
    BY <1>4, SourceNats DEF ShortRead, ChunkEnd

\* The block served is the head of the deque, and stays held.
LEMMA QueuedHeld ==
  ASSUME SourceInv, NEW i, ServeQueued(i), NEW j
  PROVE  Held(j)' <=> Held(j)
  <1>1. /\ queue \in Seq(1 .. FileSize) /\ queue # << >> /\ i = queue[1]
        /\ queue' = Tail(queue) /\ served' = Append(served, i)
        /\ served \in Seq(1 .. FileSize) /\ Len(served) \in Nat
    BY SourceNats DEF ServeQueued
  <1>2. /\ Len(queue) \in Nat \ {0} /\ Len(queue') = Len(queue) - 1
        /\ \A k \in 1 .. Len(queue') : queue'[k] = queue[k + 1]
    <2>1. Len(queue) \in Nat \ {0}
      BY <1>1, EmptySeq, Zenon
    <2> QED
      BY <1>1, <2>1
  <1>3. /\ Len(served') = Len(served) + 1 /\ served'[Len(served) + 1] = i
        /\ \A k \in 1 .. Len(served) : served'[k] = served[k]
    BY <1>1
  <1>4. ASSUME Held(j)
        PROVE  Held(j)'
    <2>1. CASE \E k \in 1 .. Len(served) : served[k] = j
      <3>1. PICK k \in 1 .. Len(served) : served[k] = j
        BY <2>1
      <3>2. k \in 1 .. Len(served') /\ served'[k] = j
        BY <1>1, <1>3, <3>1
      <3> QED
        BY <3>2 DEF Held
    <2>2. CASE \E k \in 1 .. Len(queue) : queue[k] = j
      <3>1. PICK k \in 1 .. Len(queue) : queue[k] = j
        BY <2>2
      <3>2. CASE k = 1
        <4>1. Len(served) + 1 \in 1 .. Len(served') /\ served'[Len(served) + 1] = j
          BY <1>1, <1>3, <3>1, <3>2
        <4> QED
          BY <4>1 DEF Held
      <3>3. CASE k # 1
        <4>1. k - 1 \in 1 .. Len(queue') /\ queue'[k - 1] = j
          BY <1>2, <3>1, <3>3
        <4> QED
          BY <4>1 DEF Held
      <3> QED
        BY <3>2, <3>3
    <2> QED
      BY <1>4, <2>1, <2>2 DEF Held
  <1>5. ASSUME Held(j)'
        PROVE  Held(j)
    <2>1. CASE \E k \in 1 .. Len(served') : served'[k] = j
      <3>1. PICK k \in 1 .. Len(served') : served'[k] = j
        BY <2>1
      <3>2. CASE k \in 1 .. Len(served)
        BY <1>3, <3>1, <3>2 DEF Held
      <3>3. CASE k = Len(served) + 1
        <4>1. 1 \in 1 .. Len(queue) /\ queue[1] = j
          BY <1>1, <1>2, <1>3, <3>1, <3>3
        <4> QED
          BY <4>1 DEF Held
      <3> QED
        BY <1>1, <1>3, <3>2, <3>3
    <2>2. CASE \E k \in 1 .. Len(queue') : queue'[k] = j
      <3>1. PICK k \in 1 .. Len(queue') : queue'[k] = j
        BY <2>2
      <3>2. k + 1 \in 1 .. Len(queue) /\ queue[k + 1] = j
        BY <1>2, <3>1
      <3> QED
        BY <3>2 DEF Held
    <2> QED
      BY <1>5, <2>1, <2>2 DEF Held
  <1> QED
    BY <1>4, <1>5

\* The blocks that drain decodes are held from then on.
LEMMA DrainedHeld ==
  ASSUME SourceInv, NEW i, ServeDrained(i)
  PROVE  \E n \in 1 .. ChunkEnd - pos :
           /\ Own(n)
           /\ \A j \in Nat : Held(j)' <=> Held(j) \/ (pos < j /\ j <= pos + n)
  <1>1. /\ queue = << >> /\ i = pos + 1 /\ pos < FileSize
        /\ served' = Append(served, i)
    BY DEF ServeDrained, Drains
  <1>2. PICK n \in 1 .. ChunkEnd - pos :
          Own(n) /\ queue' = [k \in 1 .. n - 1 |-> i + k]
    BY DEF ServeDrained
  <1>3. /\ pos \in Nat /\ n \in Nat /\ n >= 1 /\ i \in Nat /\ FileSize \in Nat
        /\ served \in Seq(1 .. FileSize) /\ Len(served) \in Nat
    BY <1>1, <1>2, SourceNats DEF ChunkEnd
  <1>4. /\ Len(queue') = n - 1 /\ \A k \in 1 .. n - 1 : queue'[k] = i + k
        /\ Len(served') = Len(served) + 1 /\ served'[Len(served) + 1] = i
        /\ \A k \in 1 .. Len(served) : served'[k] = served[k]
    BY <1>1, <1>2, <1>3
  <1>5. ASSUME NEW j \in Nat, Held(j)
        PROVE  Held(j)'
    <2>1. PICK k \in 1 .. Len(served) : served[k] = j
      BY <1>1, <1>5 DEF Held
    <2>2. k \in 1 .. Len(served') /\ served'[k] = j
      BY <1>3, <1>4, <2>1
    <2> QED
      BY <2>2 DEF Held
  <1>6. ASSUME NEW j \in Nat, pos < j, j <= pos + n
        PROVE  Held(j)'
    <2>1. CASE j = i
      <3>1. Len(served) + 1 \in 1 .. Len(served') /\ served'[Len(served) + 1] = j
        BY <1>3, <1>4, <2>1
      <3> QED
        BY <3>1 DEF Held
    <2>2. CASE j # i
      <3>1. j - i \in 1 .. n - 1 /\ i + (j - i) = j
        BY <1>1, <1>3, <1>6, <2>2
      <3>2. j - i \in 1 .. Len(queue') /\ queue'[j - i] = j
        BY <1>4, <3>1
      <3> QED
        BY <3>2 DEF Held
    <2> QED
      BY <2>1, <2>2
  <1>7. ASSUME NEW j \in Nat, Held(j)'
        PROVE  Held(j) \/ (pos < j /\ j <= pos + n)
    <2>1. CASE \E k \in 1 .. Len(served') : served'[k] = j
      <3>1. PICK k \in 1 .. Len(served') : served'[k] = j
        BY <2>1
      <3>2. CASE k \in 1 .. Len(served)
        BY <1>4, <3>1, <3>2 DEF Held
      <3>3. CASE k = Len(served) + 1
        BY <1>1, <1>3, <1>4, <3>1, <3>3
      <3> QED
        BY <1>3, <1>4, <3>2, <3>3
    <2>2. CASE \E k \in 1 .. Len(queue') : queue'[k] = j
      <3>1. PICK k \in 1 .. Len(queue') : queue'[k] = j
        BY <2>2
      <3>2. j = i + k /\ k \in 1 .. n - 1
        BY <1>4, <3>1
      <3> QED
        BY <1>1, <1>3, <3>2
    <2> QED
      BY <1>7, <2>1, <2>2 DEF Held
  <1> QED
    BY <1>2, <1>5, <1>6, <1>7

LEMMA QueuedLoss ==
  ASSUME SourceInv, LossInv, source = "open", NEW i, ServeQueued(i)
  PROVE  LossInv'
  <1>1. UNCHANGED <<log, chunk, pos, failed, source>>
    BY DEF ServeQueued
  <1>2. UNCHANGED FileSize /\ \A j : Clear(j)' = Clear(j)
    BY <1>1 DEF FileSize, Clear, Block
  <1> QED
    BY <1>1, <1>2, QueuedHeld DEF LossInv

LEMMA DrainedLoss ==
  ASSUME SourceInv, LossInv, source = "open", NEW i, ServeDrained(i)
  PROVE  LossInv'
  <1>1. /\ pos' = ChunkEnd /\ failed' = ShortRead
        /\ UNCHANGED <<log, chunk, source>>
        /\ ~ failed /\ pos < FileSize
    BY DEF ServeDrained, Drains
  <1>2. PICK n \in 1 .. ChunkEnd - pos :
          /\ Own(n)
          /\ \A j \in Nat : Held(j)' <=> Held(j) \/ (pos < j /\ j <= pos + n)
    BY DrainedHeld
  <1>3. pos \in Nat /\ ChunkEnd \in Nat /\ n \in Nat
    BY <1>1, <1>2, SourceNats, ChunkRead
  <1>4. ASSUME NEW j \in 1 .. ChunkEnd, pos < j, Clear(j)
        PROVE  j <= pos + n
    <2> SUFFICES ASSUME j > pos + n PROVE FALSE
      BY <1>3
    <2>1. pos + n < ChunkEnd /\ pos + n + 1 \in 1 .. j
      BY <1>3
    <2> QED
      BY <1>2, <1>4, <2>1 DEF Own, Clear
  <1>5. \A j \in 1 .. pos' : Clear(j) => Held(j)'
    BY <1>1, <1>2, <1>3, <1>4 DEF LossInv
  <1>6. UNCHANGED FileSize /\ \A j : Clear(j)' = Clear(j)
    BY <1>1 DEF FileSize, Clear, Block
  <1> QED
    BY <1>1, <1>5, <1>6, ChunkRead DEF LossInv

LEMMA ServeLoss ==
  ASSUME SourceInv, LossInv, source = "open", NEW i, Serve(i)
  PROVE  LossInv'
  BY QueuedLoss, DrainedLoss DEF Serve

\* getNext answers nullopt: there is no chunk left, or the next one begins with
\* a foreign block.
LEMMA NoneLoss ==
  ASSUME SourceInv, LossInv, source = "open", ServeNone
  PROVE  LossInv'
  <1>1. /\ ~ Drains /\ ~ BadRead
        /\ pos' = IF failed THEN pos ELSE ChunkEnd
        /\ failed' = (failed \/ ShortRead)
        /\ source' = "ended"
        /\ UNCHANGED <<log, chunk, queue, served>>
    BY DEF ServeNone
  <1>2. UNCHANGED FileSize /\ \A j : Clear(j)' = Clear(j) /\ Held(j)' = Held(j)
    BY <1>1 DEF FileSize, Clear, Held, Block
  <1>3. ASSUME NEW i \in 1 .. FileSize, Clear(i)
        PROVE  Held(i)
    <2>1. CASE i <= pos
      BY <1>3, <2>1, SourceNats DEF LossInv
    <2>2. CASE pos < i
      <3>1. pos < FileSize /\ ~ failed /\ pos + 1 \in 1 .. i
        BY <2>2, SourceNats DEF LossInv
      <3>2. Block(pos + 1).lsn = Lsn
        BY <1>3, <3>1 DEF Clear
      <3> QED
        BY <1>1, <3>1, <3>2 DEF Drains
    <2> QED
      BY <2>1, <2>2, SourceNats
  <1>4. CASE failed
    BY <1>1, <1>2, <1>3, <1>4 DEF LossInv
  <1>5. CASE ~ failed
    <2>1. failed' = ShortRead /\ pos' = ChunkEnd
      BY <1>1, <1>5, ChunkRead
    <2> QED
      BY <1>1, <1>2, <1>3, <1>5, <2>1, ChunkRead DEF LossInv
  <1> QED
    BY <1>4, <1>5

\* drain throws: the chunk that reaches the partial block is lost.
LEMMA ThrowLoss ==
  ASSUME SourceInv, LossInv, source = "open", ServeThrow
  PROVE  LossInv'
  <1>1. /\ ~ failed /\ ShortRead
        /\ pos' = ChunkEnd /\ failed' = TRUE /\ source' = "thrown"
        /\ UNCHANGED <<log, chunk, queue, served>>
    BY DEF ServeThrow, BadRead
  <1>2. UNCHANGED FileSize
        /\ \A j : /\ Clear(j)' = Clear(j) /\ Held(j)' = Held(j)
                  /\ SameChunk(j, FileSize + 1)' = SameChunk(j, FileSize + 1)
    BY <1>1 DEF FileSize, Clear, Held, Block, SameChunk
  <1>3. PICK q \in Nat : pos = q * chunk
    BY <1>1 DEF LossInv
  <1>4. ASSUME NEW i \in 1 .. FileSize, pos < i
        PROVE  SameChunk(i, FileSize + 1)
    <2> DEFINE r == (i - 1) - pos
               s == FileSize - pos
    <2>1. /\ r \in Nat /\ r < chunk /\ s \in Nat /\ s < chunk
          /\ i - 1 = pos + r /\ (FileSize + 1) - 1 = pos + s
      BY <1>1, <1>4, SourceNats DEF ShortRead
    <2> HIDE DEF r, s
    <2>2. (q * chunk + r) \div chunk = q /\ (q * chunk + s) \div chunk = q
      BY <2>1, SourceNats, QuotRem
    <2> QED
      BY <1>3, <2>1, <2>2 DEF SameChunk
  <1>5. ASSUME NEW i \in 1 .. FileSize, Clear(i)
        PROVE  Held(i) \/ SameChunk(i, FileSize + 1)
    <2>1. CASE i <= pos
      BY <1>5, <2>1, SourceNats DEF LossInv
    <2> QED
      BY <1>4, <2>1, SourceNats
  <1>6. pos' = FileSize
    BY <1>1, ChunkRead
  <1> QED
    BY <1>1, <1>2, <1>5, <1>6 DEF LossInv

LEMMA LossStutter ==
  ASSUME LossInv, UNCHANGED sourceVars
  PROVE  LossInv'
  BY DEF LossInv, sourceVars, FileSize, Clear, Held, Block, SameChunk

LEMMA LossMove == SourceInv /\ LossInv /\ [SourceNext]_sourceVars => LossInv'
  BY ServeLoss, NoneLoss, ThrowLoss, LossStutter
  DEF SourceNext, TakeBlock, TakeNone, TakeThrow, Stopped, Running

LEMMA LossInvariant == SourceSpec => []LossInv
  BY InitLossInv, SourceInvariant, LossMove, PTL DEF SourceSpec

-----------------------------------------------------------------------------
(* FileBlockSource is a BlockStream of the blocks it offers: the initial    *)
(* state maps to an initial state, every step to a step or a stutter.       *)

\* What has been read and not withheld is held, and of a file whose source has
\* stopped nothing else is left; no chunk read began with a foreign block. Unless
\* the source has thrown, foreign blocks are the only reason.
OfferInv ==
  /\ \A i \in 1 .. FileSize : Held(i) <=> i <= pos /\ ~ Withheld(i)
  /\ source = "open" =>
       \A j \in 1 .. pos : FirstOfChunk(j) => Block(j).lsn = Lsn
  /\ source # "open" => \A i \in 1 .. FileSize : Held(i) <=> ~ Withheld(i)
  /\ source = "open" => \A i \in 1 .. pos : Withheld(i) => BehindForeign(i)
  /\ source = "ended" => \A i \in 1 .. FileSize : Withheld(i) => BehindForeign(i)

LEMMA DivIs ==
  ASSUME NEW x \in Nat, NEW b \in Nat \ {0}, NEW q \in Nat, x \div b = q
  PROVE  q * b <= x /\ x < q * b + b
  OBVIOUS

\* The positions of the chunk that is read next.
LEMMA NextChunk ==
  ASSUME SourceInv, LossInv, ~ failed, NEW i \in Nat \ {0}
  PROVE  /\ FirstOfChunk(pos + 1)
         /\ pos < i /\ i <= pos + chunk =>
              /\ i # pos + 1 => ~ FirstOfChunk(i)
              /\ \A j \in Nat \ {0} :
                   SameChunk(i, j) <=> pos < j /\ j <= pos + chunk
  <1>1. PICK q \in Nat : pos = q * chunk
    BY DEF LossInv
  <1>2. chunk \in Nat \ {0} /\ pos \in Nat
    BY SourceNats
  <1>3. FirstOfChunk(pos + 1)
    <2>1. (q * chunk + 0) % chunk = 0 /\ (pos + 1) - 1 = q * chunk + 0
      BY <1>1, <1>2, QuotRem
    <2> QED
      BY <2>1 DEF FirstOfChunk
  <1>4. ASSUME NEW j \in Nat \ {0}, pos < j, j <= pos + chunk
        PROVE  (j - 1) \div chunk = q /\ (j - 1) % chunk = (j - 1) - pos
    <2> DEFINE r == (j - 1) - pos
    <2>1. r \in Nat /\ r < chunk /\ j - 1 = pos + r
      BY <1>2, <1>4
    <2> HIDE DEF r
    <2>2. (q * chunk + r) \div chunk = q /\ (q * chunk + r) % chunk = r
      BY <1>2, <2>1, QuotRem
    <2>3. j - 1 = q * chunk + r
      BY <1>1, <2>1
    <2>4. (j - 1) % chunk = r
      BY <2>2, <2>3
    <2> QED
      BY <2>2, <2>3, <2>4 DEF r
  <1>5. ASSUME NEW j \in Nat \ {0}, (j - 1) \div chunk = q
        PROVE  pos < j /\ j <= pos + chunk
    <2> DEFINE x == j - 1
    <2>1. x \in Nat
      OBVIOUS
    <2>2. q * chunk <= x /\ x < q * chunk + chunk
      BY <1>2, <1>5, <2>1, DivIs
    <2> QED
      BY <1>1, <1>2, <2>2
  <1>6. ASSUME pos < i, i <= pos + chunk, NEW j \in Nat \ {0}
        PROVE  SameChunk(i, j) <=> pos < j /\ j <= pos + chunk
    BY <1>4, <1>5, <1>6 DEF SameChunk
  <1>7. ASSUME pos < i, i <= pos + chunk, i # pos + 1
        PROVE  ~ FirstOfChunk(i)
    BY <1>2, <1>4, <1>7 DEF FirstOfChunk
  <1> QED
    BY <1>3, <1>6, <1>7

LEMMA InitOfferInv == SourceInit => OfferInv
  <1> SUFFICES ASSUME SourceInit PROVE OfferInv
    OBVIOUS
  <1>1. pos = 0 /\ queue = << >> /\ served = << >> /\ source = "open"
    BY DEF SourceInit
  <1> QED
    BY <1>1 DEF OfferInv, Held

LEMMA OfferSame ==
  ASSUME UNCHANGED <<log, chunk>>
  PROVE  /\ UNCHANGED <<FileSize, Offered>>
         /\ \A i : /\ Withheld(i)' = Withheld(i) /\ FirstOfChunk(i)' = FirstOfChunk(i)
                   /\ BehindForeign(i)' = BehindForeign(i) /\ Block(i)' = Block(i)
  BY DEF FileSize, Offered, Withheld, BehindForeign, SameChunk, FirstOfChunk, Block

\* The steps of the source, for what it offers.
LEMMA QueuedOffer ==
  ASSUME SourceInv, OfferInv, source = "open", NEW i, ServeQueued(i)
  PROVE  OfferInv'
  <1>1. UNCHANGED <<log, chunk, pos, source>>
    BY DEF ServeQueued
  <1> QED
    BY <1>1, QueuedHeld, OfferSame DEF OfferInv

LEMMA DrainedOffer ==
  ASSUME SourceInv, LossInv, OfferInv, source = "open", NEW i, ServeDrained(i)
  PROVE  OfferInv'
  <1>1. /\ pos' = ChunkEnd /\ UNCHANGED <<log, chunk, source>>
        /\ ~ failed /\ pos < FileSize /\ ~ BadRead /\ Block(pos + 1).lsn = Lsn
    BY DEF ServeDrained, Drains
  <1>2. PICK n \in 1 .. ChunkEnd - pos :
          /\ Own(n)
          /\ \A j \in Nat : Held(j)' <=> Held(j) \/ (pos < j /\ j <= pos + n)
    BY DrainedHeld
  <1>3. /\ pos \in Nat /\ ChunkEnd \in Nat /\ n \in Nat /\ n >= 1
        /\ chunk \in Nat \ {0} /\ FileSize \in Nat
        /\ ChunkEnd <= FileSize /\ ChunkEnd <= pos + chunk /\ pos + n <= ChunkEnd
    BY <1>1, <1>2, SourceNats, ChunkRead DEF ChunkEnd
  <1>4. ASSUME NEW j \in 1 .. FileSize, pos < j, j <= ChunkEnd
        PROVE  ~ (log.tail /\ SameChunk(j, FileSize + 1))
    <2>1. ASSUME SameChunk(j, FileSize + 1)
          PROVE  ShortRead
      BY <1>1, <1>3, <1>4, <2>1, NextChunk DEF ShortRead
    <2> QED
      BY <1>1, <2>1 DEF BadRead
  <1>5. ASSUME NEW j \in 1 .. FileSize, pos < j, j <= pos + n
        PROVE  ~ Withheld(j)
    <2>1. ASSUME NEW k \in 1 .. j, Block(k).lsn # Lsn
          PROVE  ~ SameChunk(j, k) /\ ~ FirstOfChunk(k)
      <3>1. k <= pos
        <4> SUFFICES ASSUME pos < k PROVE FALSE
          BY <1>3
        <4>1. k - pos \in 1 .. n /\ pos + (k - pos) = k
          BY <1>3, <1>5
        <4> QED
          BY <1>2, <2>1, <4>1 DEF Own
      <3>2. ~ FirstOfChunk(k)
        BY <1>3, <2>1, <3>1 DEF OfferInv
      <3>3. ~ SameChunk(j, k)
        BY <1>1, <1>3, <1>5, <3>1, NextChunk
      <3> QED
        BY <3>2, <3>3
    <2>2. ~ BehindForeign(j)
      BY <2>1 DEF BehindForeign
    <2> QED
      BY <1>3, <1>5, <1>4, <2>2 DEF Withheld
  <1>6. ASSUME NEW j \in 1 .. FileSize, pos + n < j, j <= ChunkEnd
        PROVE  Withheld(j)
    <2>1. pos + n + 1 \in 1 .. j /\ Block(pos + n + 1).lsn # Lsn
      BY <1>2, <1>3, <1>6 DEF Own
    <2>2. SameChunk(j, pos + n + 1)
      BY <1>1, <1>3, <1>6, NextChunk
    <2> QED
      BY <2>1, <2>2 DEF Withheld, BehindForeign
  <1>7. \A j \in 1 .. FileSize : Held(j)' <=> j <= pos' /\ ~ Withheld(j)
    <2> SUFFICES ASSUME NEW j \in 1 .. FileSize
                 PROVE  Held(j)' <=> j <= ChunkEnd /\ ~ Withheld(j)
      BY <1>1
    <2>1. /\ Held(j) <=> j <= pos /\ ~ Withheld(j)
          /\ Held(j)' <=> Held(j) \/ (pos < j /\ j <= pos + n)
      BY <1>2 DEF OfferInv
    <2>2. CASE j <= pos
      BY <1>3, <2>1, <2>2
    <2>3. CASE pos < j /\ j <= pos + n
      BY <1>3, <1>5, <2>1, <2>3
    <2>4. CASE pos + n < j
      BY <1>3, <1>6, <2>1, <2>4
    <2> QED
      BY <1>3, <2>2, <2>3, <2>4
  <1>8. \A j \in 1 .. pos' : FirstOfChunk(j) => Block(j).lsn = Lsn
    <2> SUFFICES ASSUME NEW j \in 1 .. ChunkEnd, FirstOfChunk(j)
                 PROVE  Block(j).lsn = Lsn
      BY <1>1
    <2>1. CASE j <= pos
      BY <1>3, <2>1 DEF OfferInv
    <2>2. CASE pos < j
      BY <1>1, <1>3, <2>2, NextChunk
    <2> QED
      BY <1>3, <2>1, <2>2
  <1>9. \A j \in 1 .. pos' : Withheld(j) => BehindForeign(j)
    <2> SUFFICES ASSUME NEW j \in 1 .. ChunkEnd, Withheld(j), pos < j
                 PROVE  BehindForeign(j)
      BY <1>1, <1>3 DEF OfferInv
    <2> QED
      BY <1>3, <1>4 DEF Withheld
  <1> QED
    BY <1>1, <1>7, <1>8, <1>9, OfferSame DEF OfferInv

\* Either end of the source: what it has not read it does not offer.
LEMMA EndOffer ==
  ASSUME SourceInv, LossInv, OfferInv, source = "open", ServeNone \/ ServeThrow
  PROVE  OfferInv'
  <1>1. /\ UNCHANGED <<log, chunk, queue, served>> /\ source' \in {"ended", "thrown"}
        /\ pos' = pos \/ (~ failed /\ pos' = ChunkEnd)
    BY DEF ServeNone, ServeThrow, BadRead
  <1>2. /\ FileSize \in Nat /\ pos \in Nat /\ pos <= FileSize
        /\ pos' \in Nat /\ pos <= pos'
    BY <1>1, SourceNats, ChunkRead
  <1>3. ASSUME NEW i \in 1 .. FileSize, pos < i
        PROVE  Withheld(i) /\ (ServeNone => BehindForeign(i))
    <2>1. ~ failed /\ pos < FileSize
      BY <1>2, <1>3 DEF LossInv
    <2>2. CASE BadRead
      <3>1. log.tail /\ FileSize < pos + chunk
        BY <2>2, SourceNats DEF BadRead, ShortRead
      <3>2. SameChunk(i, FileSize + 1)
        <4>1. /\ i <= pos + chunk /\ FileSize + 1 <= pos + chunk
              /\ pos < FileSize + 1 /\ FileSize + 1 \in Nat \ {0} /\ i \in Nat \ {0}
          BY <1>2, <2>1, <3>1, SourceNats
        <4> QED
          BY <1>3, <2>1, <4>1, NextChunk
      <3> QED
        BY <2>2, <3>1, <3>2 DEF Withheld, ServeNone
    <2>3. CASE ~ BadRead
      <3>1. Block(pos + 1).lsn # Lsn
        BY <2>1, <2>3 DEF ServeNone, ServeThrow, Drains
      <3>2. FirstOfChunk(pos + 1)
        BY <2>1, NextChunk, 1 \in Nat \ {0}
      <3>3. pos + 1 \in 1 .. i
        BY <1>2, <1>3
      <3> QED
        BY <3>1, <3>2, <3>3 DEF Withheld, BehindForeign
    <2> QED
      BY <2>2, <2>3
  <1>4. \A i \in 1 .. FileSize : Held(i) <=> ~ Withheld(i)
    BY <1>2, <1>3 DEF OfferInv
  <1>5. \A i \in 1 .. FileSize : Held(i) <=> i <= pos' /\ ~ Withheld(i)
    <2> SUFFICES ASSUME NEW i \in 1 .. FileSize, Held(i) PROVE i <= pos'
      BY <1>4
    <2> QED
      BY <1>2 DEF OfferInv
  <1>6. \A i : Held(i)' = Held(i)
    BY <1>1 DEF Held
  <1>7. source' = "ended" => \A i \in 1 .. FileSize : Withheld(i) => BehindForeign(i)
    <2> SUFFICES ASSUME ServeNone, NEW i \in 1 .. FileSize, Withheld(i)
                 PROVE  BehindForeign(i)
      BY DEF ServeThrow
    <2> QED
      BY <1>2, <1>3 DEF OfferInv
  <1> QED
    BY <1>1, <1>4, <1>5, <1>6, <1>7, OfferSame DEF OfferInv

LEMMA OfferStutter ==
  ASSUME OfferInv, UNCHANGED sourceVars
  PROVE  OfferInv'
  <1>1. UNCHANGED <<log, chunk, pos, queue, served, source>>
    BY DEF sourceVars
  <1>2. \A i : Held(i)' = Held(i)
    BY <1>1 DEF Held
  <1> QED
    BY <1>1, <1>2, OfferSame DEF OfferInv

LEMMA OfferMove ==
  SourceInv /\ LossInv /\ OfferInv /\ [SourceNext]_sourceVars => OfferInv'
  BY QueuedOffer, DrainedOffer, EndOffer, OfferStutter
  DEF SourceNext, TakeBlock, TakeNone, TakeThrow, Stopped, Running, Serve

LEMMA OfferInvariant == SourceSpec => []OfferInv
  BY InitOfferInv, SourceInvariant, LossInvariant, OfferMove, PTL DEF SourceSpec

\* What has stopped holds what it has served only.
LEMMA LossReasons == SourceInv /\ OfferInv => LossExplained
  <1> SUFFICES ASSUME SourceInv, OfferInv, source # "open",
                      NEW i \in 1 .. FileSize, ~ BehindForeign(i),
                      ~ (source = "thrown" /\ SameChunk(i, FileSize + 1))
               PROVE  \E k \in 1 .. Len(served) : served[k] = i
    BY DEF LossExplained
  <1>1. queue = << >> /\ source \in {"ended", "thrown"}
    BY DEF SourceInv, DrainedAtEnd, SourceTypeOK
  <1>2. ~ Withheld(i)
    BY <1>1 DEF OfferInv, Withheld
  <1> QED
    BY <1>1, <1>2 DEF OfferInv, Held

\* BlockSource.cpp:95-119: for every file and chunk size, a block of this log that
\* is not served stands behind a foreign one of its chunk or behind a chunk that
\* begins with one, or shares its chunk with the partial block drain threw at.
THEOREM LossExplainedHolds == SourceSpec => []LossExplained
  BY SourceInvariant, OfferInvariant, LossReasons, PTL

ServedSet == {served[k] : k \in 1 .. Len(served)}

\* As many blocks as there are positions in served, each at most once.
LEMMA ServedCount == SourceInv => Cardinality(ServedSet) = Len(served)
  <1> SUFFICES ASSUME SourceInv PROVE Cardinality(ServedSet) = Len(served)
    OBVIOUS
  <1> DEFINE n == Len(served)
             S == {served[k] : k \in 1 .. n}
  <1>1. /\ n \in Nat /\ served \in [1 .. n -> 1 .. FileSize] /\ FileSize \in Nat
        /\ \A j, k \in 1 .. n : j < k => served[j] < served[k]
    BY SourceNats DEF SourceInv, ServedInOrder
  <1>2. served \in [1 .. n -> S]
    BY <1>1
  <1>3. \A j, k \in 1 .. n : served[j] = served[k] => j = k
    <2> SUFFICES ASSUME NEW j \in 1 .. n, NEW k \in 1 .. n,
                        served[j] = served[k], j # k
                 PROVE  FALSE
      OBVIOUS
    <2>1. served[j] \in Int /\ (j < k \/ k < j)
      BY <1>1
    <2> QED
      BY <1>1, <2>1
  <1>4. \A x \in S : \E k \in 1 .. n : served[k] = x
    OBVIOUS
  <1> HIDE DEF S
  <1>5. served \in Bijection(1 .. n, S)
    BY <1>2, <1>3, <1>4, Fun_IsBij
  <1>6. ExistsBijection(1 .. n, S)
    BY <1>5 DEF ExistsBijection
  <1> HIDE DEF n
  <1>7. Cardinality(S) = n
    BY <1>1, <1>6, FS_CountingElements
  <1> QED
    BY <1>7 DEF S, n, ServedSet

LEMMA OfferedFinite == SourceInv => IsFiniteSet(Offered) /\ Cardinality(Offered) \in Nat
  <1> SUFFICES ASSUME SourceInv PROVE IsFiniteSet(Offered) /\ Cardinality(Offered) \in Nat
    OBVIOUS
  <1>1. IsFiniteSet(1 .. FileSize)
    BY SourceNats, FS_Interval
  <1>2. Offered \in SUBSET (1 .. FileSize)
    BY DEF Offered
  <1> QED
    BY <1>1, <1>2, FS_Subset, FS_CardinalityType

\* What is served is offered; all of it is, when the source has stopped.
LEMMA ServedOffered ==
  SourceInv /\ OfferInv =>
    /\ ServedSet \in SUBSET Offered
    /\ source # "open" => ServedSet = Offered
  <1> SUFFICES ASSUME SourceInv, OfferInv
               PROVE  /\ ServedSet \in SUBSET Offered
                      /\ source # "open" => ServedSet = Offered
    OBVIOUS
  <1>1. \A k \in 1 .. Len(served) : served[k] \in 1 .. FileSize
    BY SourceNats, ElementOfSeq
  <1>2. \A k \in 1 .. Len(served) : Held(served[k])
    BY DEF Held
  <1>3. \A k \in 1 .. Len(served) : served[k] \in Offered
    BY <1>1, <1>2 DEF OfferInv, Offered
  <1>4. ASSUME source # "open", NEW i \in Offered
        PROVE  \E k \in 1 .. Len(served) : served[k] = i
    <2>1. Held(i) /\ queue = << >>
      BY <1>4 DEF OfferInv, Offered, SourceInv, DrainedAtEnd
    <2> QED
      BY <2>1 DEF Held
  <1> QED
    BY <1>3, <1>4 DEF ServedSet

\* n of the abstract stream counts blocks offered, in the end all of them.
Counted ==
  /\ Cardinality(ServedSet) = Len(served) /\ IsFiniteSet(Offered)
  /\ ServedSet \in SUBSET Offered
  /\ source # "open" => ServedSet = Offered

LEMMA Counts == SourceInv /\ OfferInv => Counted
  BY ServedCount, ServedOffered, OfferedFinite DEF Counted

LEMMA CountsNext == SourceInv' /\ OfferInv' => Counted'
  BY Counts, PTL

LEMMA StreamInit == SourceInit => Stream!Init
  <1> SUFFICES ASSUME SourceInit PROVE Stream!Init
    OBVIOUS
  <1>1. Len(served) = 0 /\ source = "open"
    BY DEF SourceInit
  <1> QED
    BY <1>1, InitSourceInv, OfferedFinite DEF Stream!Init

LEMMA StreamStep ==
  ASSUME SourceInv, OfferInv, SourceInv', OfferInv', [SourceNext]_sourceVars
  PROVE  [Stream!Next]_(Stream!vars)
  <1>1. CASE TakeBlock
    <2>1. PICK i \in 1 .. FileSize : Serve(i)
      BY <1>1 DEF TakeBlock
    <2>2. /\ served' = Append(served, i) /\ UNCHANGED <<log, chunk, source>>
          /\ source = "open"
      BY <1>1, <2>1 DEF TakeBlock, Running, Serve, ServeQueued, ServeDrained
    <2>3. Len(served') = Len(served) + 1 /\ Len(served) \in Nat
      BY <2>2, SourceNats
    <2>4. Cardinality(Offered)' = Cardinality(Offered)
      BY <2>2, OfferSame
    <2>5. Len(served') <= Cardinality(Offered)
      <3>1. /\ Cardinality(ServedSet') = Len(served') /\ IsFiniteSet(Offered')
            /\ ServedSet' \in SUBSET Offered'
        BY CountsNext DEF Counted
      <3> QED
        BY <2>4, <3>1, FS_Subset
    <2>6. Len(served) < Cardinality(Offered)
      BY <2>3, <2>5, OfferedFinite
    <2> QED
      BY <2>2, <2>3, <2>4, <2>6 DEF Stream!Next, Stream!Give
  <1>2. CASE TakeNone \/ TakeThrow
    <2>1. UNCHANGED <<log, chunk, served>> /\ source' # "open"
      BY <1>2 DEF TakeNone, TakeThrow, ServeNone, ServeThrow
    <2>2. Cardinality(Offered)' = Cardinality(Offered) /\ Len(served)' = Len(served)
      BY <2>1, OfferSame
    <2>3. Len(served') = Cardinality(Offered')
      BY <2>1, CountsNext DEF Counted
    <2> QED
      BY <2>1, <2>2, <2>3 DEF Stream!Next, Stream!End
  <1>3. CASE Stopped \/ UNCHANGED sourceVars
    <2>1. UNCHANGED <<log, chunk, served, source>>
      BY <1>3 DEF Stopped, sourceVars
    <2> QED
      BY <2>1, OfferSame DEF Stream!vars
  <1> QED
    BY <1>1, <1>2, <1>3 DEF SourceNext

\* The blocks of this log come first in the file and are numbered without a gap.
Tidy ==
  \A i \in 1 .. FileSize : \A j \in 1 .. i :
    /\ Block(i).lsn = Lsn => Block(j).lsn = Lsn
    /\ Block(i).no = Block(j).no + (i - j)

\* BlockSource.cpp:103-120: of such a file that does not end inside a block, every
\* block of this log is served, whatever is read at a time.
THEOREM TidyServed ==
  SourceSpec => [](Tidy /\ ~ log.tail /\ source # "open"
                   => ServedSet = {i \in 1 .. FileSize : Block(i).lsn = Lsn})
  <1>1. SourceInv /\ OfferInv /\ Tidy /\ ~ log.tail /\ source # "open"
        => ServedSet = {i \in 1 .. FileSize : Block(i).lsn = Lsn}
    <2> SUFFICES ASSUME SourceInv, OfferInv, Tidy, ~ log.tail, source # "open"
                 PROVE  ServedSet = {i \in 1 .. FileSize : Block(i).lsn = Lsn}
      OBVIOUS
    <2>1. ASSUME NEW i \in 1 .. FileSize
          PROVE  Withheld(i) <=> Block(i).lsn # Lsn
      <3>1. Withheld(i) => \E j \in 1 .. i : Block(j).lsn # Lsn
        BY DEF Withheld, BehindForeign
      <3>2. Block(i).lsn # Lsn => Withheld(i)
        BY SourceNats, i \in 1 .. i DEF Withheld, BehindForeign, SameChunk
      <3> QED
        BY <3>1, <3>2 DEF Tidy
    <2> QED
      BY <2>1, ServedOffered DEF Offered
  <1> QED
    BY SourceInvariant, OfferInvariant, <1>1, PTL

\* BlockSource.cpp:79-139: the safety part of ImplementsBlockStream, for every
\* file and every chunk size.
THEOREM SourceIsBlockStream == SourceSpec => Stream!Init /\ [][Stream!Next]_(Stream!vars)
  <1>1. /\ SourceInv /\ OfferInv /\ SourceInv' /\ OfferInv' /\ [SourceNext]_sourceVars
        => [Stream!Next]_(Stream!vars)
    BY StreamStep
  <1> QED
    BY StreamInit, SourceInvariant, OfferInvariant, <1>1, PTL DEF SourceSpec

-----------------------------------------------------------------------------
(* The calls of getNext are counted by the file, not by what it answers.    *)

\* The blocks behind the one served last, and with the end of the source.
BlocksLeft == FileSize - LastServed
SourceLeft == BlocksLeft + (IF source = "open" THEN 1 ELSE 0)

LEMMA BlocksLeftTyped == SourceInv => BlocksLeft \in Nat /\ BlocksLeft <= FileSize
  BY LastType DEF BlocksLeft

LEMMA BlocksLeftFalls ==
  ASSUME SourceInv, source = "open", NEW i, Serve(i)
  PROVE  BlocksLeft' \in Nat /\ BlocksLeft' < BlocksLeft
  <1>1. /\ i \in 1 .. FileSize /\ LastServed < i /\ LastServed' = i
        /\ FileSize' = FileSize
    BY LastGrows
  <1> QED
    BY <1>1, LastType DEF BlocksLeft

LEMMA BlocksLeftSame == UNCHANGED <<log, served>> => BlocksLeft' = BlocksLeft
  BY DEF BlocksLeft, FileSize, LastServed

LEMMA SourceLeftTyped ==
  SourceInv => SourceLeft \in Nat /\ SourceLeft <= FileSize + 1
  BY BlocksLeftTyped, LastType DEF SourceLeft

LEMMA SourceLeftFalls ==
  ASSUME SourceInv, TakeBlock \/ TakeNone \/ TakeThrow
  PROVE  SourceLeft' < SourceLeft
  <1>1. CASE TakeBlock
    <2>1. source = "open"
      BY <1>1 DEF TakeBlock, Running
    <2>2. PICK i \in 1 .. FileSize : Serve(i)
      BY <1>1 DEF TakeBlock
    <2>3. source' = source
      BY <2>2 DEF Serve, ServeQueued, ServeDrained
    <2>4. PICK b, c : b = BlocksLeft /\ c = BlocksLeft'
      OBVIOUS
    <2>5. b \in Nat /\ c \in Nat /\ c < b
      BY <2>1, <2>2, <2>4, BlocksLeftFalls, BlocksLeftTyped
    <2>6. SourceLeft = b + 1 /\ SourceLeft' = c + 1
      BY <2>1, <2>3, <2>4 DEF SourceLeft
    <2> QED
      BY <2>5, <2>6
  <1>2. CASE TakeNone \/ TakeThrow
    <2>1. /\ source = "open" /\ source' # "open" /\ UNCHANGED <<log, served>>
      BY <1>2 DEF TakeNone, TakeThrow, Running, ServeNone, ServeThrow
    <2>2. BlocksLeft' = BlocksLeft /\ BlocksLeft \in Nat
      BY <2>1, BlocksLeftSame, BlocksLeftTyped
    <2>3. SourceLeft = BlocksLeft + 1
      BY <2>1 DEF SourceLeft
    <2>4. SourceLeft' = BlocksLeft' + 0
      BY <2>1 DEF SourceLeft
    <2> QED
      BY <2>2, <2>3, <2>4
  <1> QED
    BY <1>1, <1>2

\* BlockSource.cpp:76-139: whatever the file holds, every call of getNext brings
\* its end nearer, and after at most one call more than the file has blocks the
\* source has ended or thrown.
THEOREM CallsBounded ==
  SourceSpec =>
    /\ SourceLeft <= FileSize + 1
    /\ [](SourceLeft \in Nat)
    /\ [][SourceLeft' < SourceLeft]_sourceVars
  <1>1. SourceInv /\ [SourceNext]_sourceVars => [SourceLeft' < SourceLeft]_sourceVars
    BY SourceLeftFalls DEF SourceNext, Stopped
  <1>2. SourceInit => SourceLeft <= FileSize + 1
    BY InitSourceInv, SourceLeftTyped
  <1> QED
    BY <1>1, <1>2, SourceInvariant, SourceLeftTyped, PTL DEF SourceSpec
=============================================================================
