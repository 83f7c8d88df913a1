-------------------------- MODULE BoundScan_proofs --------------------------
(***************************************************************************)
(* What the loop of bound_candidates keeps, for every block size, every    *)
(* SCN range and every content of the block.                               *)
(***************************************************************************)
EXTENDS BoundScan, WellFoundedInduction, TLAPS

LEMMA DivMod ==
  ASSUME NEW a \in Nat, NEW b \in Nat \ {0}
  PROVE  a \div b \in Nat /\ a % b \in Nat /\ a % b < b
  OBVIOUS

LEMMA BodyPositive == body_sz \in Nat \ {0}
  BY BlockSzAssumption DEF body_sz, BLOCK_HEAD, MIN_RECORD

\* Bound_of (RecordBound.cpp:147-166): a well-typed bound whose record stays in
\* the block exactly when next_blocks is zero, and then ends at next_offset.
LEMMA BoundOf ==
  ASSUME NEW info \in Heads, NEW o \in Readable
  PROVE  /\ Bound_of(info, o) \in Bounds
         /\ Bound_of(info, o).len = info.len
         /\ Bound_of(info, o).next_blocks = 0 =>
              /\ Bound_of(info, o).next_offset = o + info.len
              /\ o + info.len < BlockSz
  <1> DEFINE needs == info.len - (BlockSz - o)
  <1>1. o \in Nat /\ o <= BlockSz /\ info.len \in Nat /\ BlockSz \in Nat
    BY BlockSzAssumption DEF Heads, Readable, BLOCK_HEAD, PEEK
  <1>2. needs \in Int
    BY <1>1
  <1>3. CASE needs < 0
    BY <1>1, <1>3 DEF Bound_of, Bounds
  <1>4. CASE needs = 0
    BY <1>1, <1>4 DEF Bound_of, Bounds, BLOCK_HEAD
  <1>5. CASE needs > 0
    <2>1. needs \div body_sz \in Nat /\ needs % body_sz \in Nat
      BY <1>2, <1>5, BodyPositive, DivMod
    <2>2. Bound_of(info, o) =
            [len |-> info.len, info |-> info,
             next_blocks |-> (needs \div body_sz) + 1,
             next_offset |-> BLOCK_HEAD + (needs % body_sz)]
      BY <1>2, <1>5 DEF Bound_of
    <2> QED
      BY <1>1, <2>1, <2>2 DEF Bounds, BLOCK_HEAD
  <1> QED
    BY <1>2, <1>3, <1>4, <1>5

-----------------------------------------------------------------------------
(* The inductive invariant                                                  *)

\* The last record found ends inside the block, so that another may follow.
Open == Len(result) > 0 => result[Len(result)].next_blocks = 0

\* Where the scan stands: behind the last record, while one may follow.
Cursor ==
  /\ ~ done => Open
  /\ Open => offset = BoundStart(block, result, Len(result) + 1)
  /\ done => ~ Open \/ ~ is_bound(block, offset) \/ Len(result) = BOUND_LIMIT

\* Each record has at least the 24 bytes that read_BoundInfo0 asks for, so that
\* the n-th cannot begin before the others have had room.
Floor ==
  \A i \in 1 .. Len(result) :
    BoundStart(block, result, i) >= BLOCK_HEAD + MIN_RECORD * (i - 1)

IInv == block \in Blocks /\ TypeOK /\ Chain /\ Cursor /\ Tiled /\ Floor

LEMMA InitIInv == Init => IInv
  <1> SUFFICES ASSUME Init PROVE IInv
    OBVIOUS
  <1>1. block \in Blocks /\ offset \in Nat /\ result = << >> /\ done = FALSE
    BY BlocksAssumption DEF Init
  <1>2. TypeOK
    <2>1. << >> \in Seq(Bounds)
      OBVIOUS
    <2> QED
      BY <1>1, <2>1 DEF TypeOK
  <1>3. Cursor
    <2>1. Len(result) + 1 = 1
      BY <1>1
    <2> QED
      BY <1>1, <2>1 DEF Init, Cursor, Open, BoundStart
  <1>4. Chain /\ Tiled /\ Floor
    BY <1>1 DEF Chain, IsBoundChain, Tiled, Floor, BOUND_LIMIT
  <1> QED
    BY <1>1, <1>2, <1>3, <1>4 DEF IInv

\* One turn of the loop lengthens the chain by a record that begins where the
\* last one ends.
LEMMA PushIInv == IInv /\ Push => IInv'
  <1> SUFFICES ASSUME IInv, Push PROVE IInv'
    OBVIOUS
  <1> DEFINE bound == Bound_of(block.heads[offset], offset)
             n == Len(result)
  <1>1. /\ block \in Blocks /\ block' = block
        /\ result \in Seq(Bounds) /\ n \in Nat /\ n < BOUND_LIMIT
        /\ result' = Append(result, bound)
        /\ ~ done /\ Open
        /\ offset = BoundStart(block, result, n + 1)
        /\ is_bound(block, offset)
    BY DEF IInv, TypeOK, Cursor, Push
  <1>2. /\ offset \in Readable
        /\ block.heads[offset] \in Heads
        /\ block.heads[offset].len >= MIN_RECORD
    BY <1>1, BlocksAssumption DEF is_bound
  <1>3. offset \in Nat /\ BLOCK_HEAD <= offset /\ offset + PEEK <= BlockSz
    BY <1>2, BlockSzAssumption DEF Readable, BLOCK_HEAD, PEEK
  <1>4. /\ bound \in Bounds
        /\ bound.len = block.heads[offset].len
        /\ bound.next_blocks = 0 => bound.next_offset = offset + bound.len
    BY <1>2, BoundOf
  <1>5. /\ result' \in Seq(Bounds) /\ Len(result') = n + 1
        /\ \A i \in 1 .. n : result'[i] = result[i]
        /\ result'[n + 1] = bound
    BY <1>1, <1>4
  <1>6. \A i \in 1 .. n + 1 :
          BoundStart(block, result', i) = BoundStart(block, result, i)
    BY <1>1, <1>5 DEF BoundStart
  <1>7. TypeOK'
    BY <1>3, <1>4, <1>5 DEF TypeOK, Push, Bounds, IInv
  <1>8. Chain'
    <2>1. n > 0 => result[n].next_blocks = 0
      BY <1>1 DEF Open
    <2>2. \A i \in 1 .. n : i < n + 1 => result[i].next_blocks = 0
      BY <1>1, <2>1 DEF IInv, Chain, IsBoundChain
    <2>3. \A i \in 1 .. n + 1 :
            /\ is_bound(block, BoundStart(block, result, i))
            /\ result'[i] = Bound_of(block.heads[BoundStart(block, result, i)],
                                     BoundStart(block, result, i))
      BY <1>1, <1>5 DEF IInv, Chain, IsBoundChain
    <2> QED
      BY <1>1, <1>5, <1>6, <2>2, <2>3 DEF Chain, IsBoundChain, BOUND_LIMIT
  <1>9. Cursor'
    <2>1. Open' <=> bound.next_blocks = 0
      BY <1>1, <1>5 DEF Open
    <2>2. BoundStart(block, result', n + 2) = bound.next_offset
      BY <1>1, <1>5 DEF BoundStart
    <2>3. bound.next_blocks \in Nat
      BY <1>4 DEF Bounds
    <2>4. CASE bound.next_blocks > 0
      BY <2>1, <2>3, <2>4 DEF Cursor, Push
    <2>5. CASE bound.next_blocks = 0
      <3>1. Len(result') + 1 = n + 2
        BY <1>1, <1>5
      <3>2. offset' = bound.next_offset /\ done' = FALSE
        BY <2>5 DEF Push
      <3>3. offset' = BoundStart(block, result', Len(result') + 1)
        BY <2>2, <3>1, <3>2
      <3> QED
        BY <1>1, <2>1, <2>5, <3>2, <3>3 DEF Cursor
    <2> QED
      BY <2>3, <2>4, <2>5
  <1>10. n > 0 => offset = BoundStart(block, result, n) + result[n].len
    <2> SUFFICES ASSUME n > 0
                 PROVE  offset = BoundStart(block, result, n) + result[n].len
      OBVIOUS
    <2> DEFINE o == BoundStart(block, result, n)
    <2>1. /\ is_bound(block, o) /\ result[n] = Bound_of(block.heads[o], o)
          /\ result[n].next_blocks = 0
      BY <1>1 DEF IInv, Chain, IsBoundChain, Open
    <2>2. o \in Readable /\ block.heads[o] \in Heads
      BY <1>1, <2>1, BlocksAssumption DEF is_bound
    <2>3. result[n].next_offset = o + result[n].len
      BY <2>1, <2>2, BoundOf
    <2> QED
      BY <1>1, <2>3 DEF BoundStart
  <1>11. \A i \in 1 .. n :
           BoundStart(block, result, i) \in Nat /\ result[i].len \in Nat
    <2> SUFFICES ASSUME NEW i \in 1 .. n
                 PROVE  /\ BoundStart(block, result, i) \in Nat
                        /\ result[i].len \in Nat
      OBVIOUS
    <2>1. is_bound(block, BoundStart(block, result, i)) /\ result[i] \in Bounds
      BY <1>1 DEF IInv, Chain, IsBoundChain
    <2> QED
      BY <2>1, BlockSzAssumption
      DEF is_bound, Readable, Bounds, BLOCK_HEAD, PEEK
  <1>12. Tiled'
    <2> SUFFICES ASSUME NEW i \in 1 .. n, NEW j \in 1 .. n + 1, i < j
                 PROVE  /\ BoundStart(block, result, i) >= BLOCK_HEAD
                        /\ BoundStart(block, result, i) + result[i].len
                             <= BoundStart(block, result, j)
                        /\ BoundStart(block, result, j) + PEEK <= BlockSz
      BY <1>1, <1>5, <1>6 DEF Tiled
    <2>1. CASE j <= n
      BY <1>1, <2>1 DEF IInv, Tiled
    <2>2. CASE j = n + 1
      <3>1. BoundStart(block, result, n) >= BLOCK_HEAD
        BY <1>1, <2>2 DEF IInv, Floor, BLOCK_HEAD, MIN_RECORD, TypeOK, Chain,
                          IsBoundChain, is_bound, Readable
      <3>2. CASE i = n
        BY <1>1, <1>3, <1>10, <2>2, <3>1, <3>2
      <3>3. CASE i < n
        <4>1. /\ BoundStart(block, result, i) >= BLOCK_HEAD
              /\ BoundStart(block, result, i) + result[i].len
                   <= BoundStart(block, result, n)
          BY <1>1, <3>3 DEF IInv, Tiled
        <4> QED
          BY <1>1, <1>3, <1>10, <1>11, <2>2, <4>1, BlockSzAssumption
      <3> QED
        BY <3>2, <3>3
    <2> QED
      BY <2>1, <2>2
  <1>13. Floor'
    <2>1. BoundStart(block, result, n + 1) >= BLOCK_HEAD + MIN_RECORD * n
      <3>1. CASE n = 0
        BY <1>1, <1>3, <3>1 DEF MIN_RECORD, BLOCK_HEAD
      <3>2. CASE n > 0
        <4>1. BoundStart(block, result, n) >= BLOCK_HEAD + MIN_RECORD * (n - 1)
          BY <1>1, <3>2 DEF IInv, Floor
        <4>2. result[n].len >= MIN_RECORD
          <5> DEFINE o == BoundStart(block, result, n)
          <5>1. is_bound(block, o) /\ result[n] = Bound_of(block.heads[o], o)
            BY <1>1, <3>2 DEF IInv, Chain, IsBoundChain
          <5>2. o \in Readable /\ block.heads[o] \in Heads
                /\ block.heads[o].len >= MIN_RECORD
            BY <1>1, <5>1, BlocksAssumption DEF is_bound
          <5> QED
            BY <5>1, <5>2, BoundOf
        <4> QED
          BY <1>1, <1>10, <1>11, <3>2, <4>1, <4>2 DEF MIN_RECORD, BLOCK_HEAD
      <3> QED
        BY <1>1, <3>1, <3>2
    <2> QED
      BY <1>1, <1>5, <1>6, <2>1 DEF IInv, Floor
  <1> QED
    BY <1>1, <1>7, <1>8, <1>9, <1>12, <1>13 DEF IInv

LEMMA NextIInv == IInv /\ [Next]_vars => IInv'
  <1> SUFFICES ASSUME IInv, [Next]_vars PROVE IInv'
    OBVIOUS
  <1>1. CASE Push
    BY <1>1, PushIInv
  <1>2. CASE Leave
    BY <1>2 DEF IInv, Leave, TypeOK, Chain, Cursor, Open, Tiled, Floor
  <1>3. CASE UNCHANGED vars
    BY <1>3 DEF IInv, vars, TypeOK, Chain, Cursor, Open, Tiled, Floor
  <1> QED
    BY <1>1, <1>2, <1>3 DEF Next, Terminated

LEMMA Invariant == Spec => []IInv
  BY InitIInv, NextIInv, PTL DEF Spec

-----------------------------------------------------------------------------
\* The variables of the loop keep their types.
THEOREM TypeCorrect == Spec => []TypeOK
  BY Invariant, PTL DEF IInv

\* bound_candidates (RecordBound.cpp:243-254) returns a chain of bounds, on any
\* block whatsoever.
THEOREM ChainHolds == Spec => []Chain
  BY Invariant, PTL DEF IInv

\* No two bounds of a block claim the same byte, and none the block head.
THEOREM TiledHolds == Spec => []Tiled
  BY Invariant, PTL DEF IInv

\* RecordBound.cpp:243: in blocks of up to 784 bytes "limit < 32" drops nothing.
THEOREM LimitNeverBindsHolds == Spec => []LimitNeverBinds
  <1>1. IInv => LimitNeverBinds
    <2> SUFFICES ASSUME IInv, done, BlockSz <= 784, is_bound(block, offset),
                        ~ (Len(result) > 0 /\ result[Len(result)].next_blocks > 0)
                 PROVE  FALSE
      BY DEF LimitNeverBinds
    <2>a. result \in Seq(Bounds)
      BY DEF IInv, TypeOK
    <2>b. Len(result) > 0 => result[Len(result)].next_blocks \in Nat
      <3>1. Len(result) > 0 => result[Len(result)] \in Bounds
        BY <2>a
      <3> QED
        BY <3>1 DEF Bounds
    <2>c. Open
      BY <2>b DEF Open
    <2>1. Len(result) = 32 /\ Len(result) + 1 = 33
      <3>1. Len(result) = BOUND_LIMIT
        BY <2>c DEF IInv, Cursor
      <3> QED
        BY <3>1 DEF BOUND_LIMIT
    <2>d. offset = BoundStart(block, result, 33)
      BY <2>1, <2>c DEF IInv, Cursor
    <2> DEFINE o == BoundStart(block, result, 32)
    <2>2. /\ o >= BLOCK_HEAD + MIN_RECORD * 31
          /\ is_bound(block, o) /\ result[32] = Bound_of(block.heads[o], o)
          /\ result[32].next_blocks = 0
      <3>1. 32 \in 1 .. Len(result) /\ 32 - 1 = 31 /\ Len(result) > 0
        BY <2>1, <2>a
      <3> QED
        BY <2>1, <2>c, <3>1 DEF IInv, Floor, Chain, IsBoundChain, Open
    <2>3. o \in Readable /\ block.heads[o] \in Heads
          /\ block.heads[o].len >= MIN_RECORD
      BY <2>2, BlocksAssumption DEF is_bound, IInv
    <2>4. offset = o + block.heads[o].len
      BY <2>d, <2>2, <2>3, BoundOf DEF BoundStart
    <2>5. offset \in Readable
      BY DEF is_bound
    <2> QED
      BY <2>2, <2>3, <2>4, <2>5, BlockSzAssumption
      DEF Readable, BLOCK_HEAD, MIN_RECORD, PEEK, Heads
  <1> QED
    BY <1>1, Invariant, PTL

-----------------------------------------------------------------------------
(* The loop computes what bound_candidates is defined to be                 *)

\* The step of the definition: the list after the n-th turn.
Turn(b, f, n) ==
  IF n = 0 THEN << >>
  ELSE LET s == f[n - 1]
           o == IF s = << >> THEN b.offset ELSE s[Len(s)].next_offset
       IN IF /\ Len(s) = n - 1
             /\ s = << >> \/ s[Len(s)].next_blocks = 0
             /\ is_bound(b, o)
          THEN Append(s, Bound_of(b.heads[o], o))
          ELSE s

Turns(b, f, k) == f = [n \in 0 .. k |-> Turn(b, f, n)]
Scan(b) == CHOOSE f : Turns(b, f, BOUND_LIMIT)

\* Every non-empty set of naturals has a least element: what the inductions
\* below are made of.
LEMMA LeastOf ==
  ASSUME NEW S, S \subseteq Nat, S # {}
  PROVE  \E n \in S : \A m \in S : n <= m
  <1>1. PICK n \in S : \A m \in S : ~ (<<m, n>> \in OpToRel(<, Nat))
    BY NatLessThanWellFounded, WFMin
  <1>2. \A m \in S : ~ (m < n)
    BY <1>1 DEF OpToRel
  <1> QED
    BY <1>2

\* The definition determines a list for every number of turns.
LEMMA TurnsExist == ASSUME NEW b PROVE \A k \in Nat : \E f : Turns(b, f, k)
  <1> DEFINE Bad == {k \in Nat : ~ \E f : Turns(b, f, k)}
  <1> SUFFICES ASSUME Bad # {} PROVE FALSE
    OBVIOUS
  <1>1. PICK k \in Bad : \A m \in Bad : k <= m
    BY LeastOf
  <1>2. CASE k = 0
    <2> DEFINE f == [n \in 0 .. 0 |-> << >>]
    <2>1. Turns(b, f, 0)
      BY DEF Turns, Turn
    <2> QED
      BY <1>1, <1>2, <2>1
  <1>3. CASE k # 0
    <2>1. k - 1 \in Nat /\ k - 1 \notin Bad
      BY <1>1, <1>3
    <2>2. PICK f : Turns(b, f, k - 1)
      BY <2>1
    <2> DEFINE g == [n \in 0 .. k |-> IF n = k THEN Turn(b, f, k) ELSE f[n]]
    <2>3. ASSUME NEW n \in 0 .. k PROVE g[n] = Turn(b, g, n)
      <3>1. n # 0 => n - 1 \in 0 .. k /\ g[n - 1] = f[n - 1]
        BY <2>1
      <3>2. Turn(b, g, n) = Turn(b, f, n)
        <4> HIDE DEF g
        <4> QED
          BY <3>1 DEF Turn
      <3>3. CASE n = k
        BY <3>2, <3>3
      <3>4. CASE n # k
        <4>1. n \in 0 .. k - 1
          BY <2>1, <3>4
        <4>2. f[n] = Turn(b, f, n)
          BY <2>2, <4>1, Zenon DEF Turns
        <4> QED
          BY <3>2, <3>4, <4>2
      <3> QED
        BY <3>3, <3>4
    <2>4. g = [n \in 0 .. k |-> g[n]]
      OBVIOUS
    <2> HIDE DEF g
    <2>5. Turns(b, g, k)
      BY <2>3, <2>4 DEF Turns
    <2> QED
      BY <1>1, <2>5
  <1> QED
    BY <1>2, <1>3

LEMMA ScanTurns ==
  ASSUME NEW b
  PROVE  /\ bound_candidates(b) = Scan(b)[BOUND_LIMIT]
         /\ \A n \in 0 .. BOUND_LIMIT : Scan(b)[n] = Turn(b, Scan(b), n)
  <1>1. bound_candidates(b) = Scan(b)[BOUND_LIMIT]
    BY DEF bound_candidates, Scan, Turns, Turn
  <1>2. Turns(b, Scan(b), BOUND_LIMIT)
    BY TurnsExist DEF Scan, BOUND_LIMIT
  <1> QED
    BY <1>1, <1>2 DEF Turns

\* The loop has done as many turns as it has found bounds.
Followed == result = Scan(block)[Len(result)]

LEMMA FollowedInit == Init => Followed
  <1>1. Scan(block)[0] = << >>
    BY ScanTurns DEF Turn, BOUND_LIMIT
  <1> QED
    BY <1>1 DEF Init, Followed

LEMMA FollowedNext == IInv /\ Followed /\ [Next]_vars => Followed'
  <1> SUFFICES ASSUME IInv, Followed, [Next]_vars PROVE Followed'
    OBVIOUS
  <1>1. CASE Push
    <2> DEFINE n == Len(result)
               bound == Bound_of(block.heads[offset], offset)
    <2>1. /\ block' = block
          /\ result \in Seq(Bounds) /\ n \in Nat /\ n < BOUND_LIMIT
          /\ result' = Append(result, bound)
          /\ Open
          /\ offset = BoundStart(block, result, n + 1)
          /\ is_bound(block, offset)
      BY <1>1 DEF IInv, TypeOK, Cursor, Push
    <2>2. n + 1 \in 0 .. BOUND_LIMIT /\ (n + 1) - 1 = n /\ n + 1 # 0
      <3>1. n \in Nat /\ n < 32
        BY <2>1 DEF BOUND_LIMIT
      <3> HIDE DEF n
      <3> QED
        BY <3>1 DEF BOUND_LIMIT
    <2>3. result = << >> <=> n = 0
      BY <2>1
    <2>4. offset = IF result = << >> THEN block.offset
                                     ELSE result[Len(result)].next_offset
      BY <2>1, <2>3 DEF BoundStart
    <2>5. result = << >> \/ result[n].next_blocks = 0
      BY <2>1, <2>3 DEF Open
    <2>6. Turn(block, Scan(block), n + 1) = Append(result, bound)
      BY <2>1, <2>2, <2>4, <2>5 DEF Turn, Followed
    <2>7. Scan(block)[n + 1] = Append(result, bound)
      BY <2>2, <2>6, ScanTurns
    <2>8. Len(result') = n + 1
      <3>1. result' \in Seq(Bounds \cup {bound}) /\ Len(result') = n + 1
        BY <2>1
      <3> QED
        BY <3>1
    <2> QED
      BY <2>1, <2>7, <2>8 DEF Followed
  <1>2. CASE Leave \/ Terminated \/ UNCHANGED vars
    BY <1>2 DEF Leave, Terminated, vars, Followed
  <1> QED
    BY <1>1, <1>2 DEF Next

\* Once the loop is left, further turns of the definition add nothing.
LEMMA NothingMore == IInv /\ Followed /\ done => result = Scan(block)[BOUND_LIMIT]
  <1> SUFFICES ASSUME IInv, Followed, done,
                      NEW S, S = Scan(block), result # S[BOUND_LIMIT]
               PROVE  FALSE
    OBVIOUS
  <1> DEFINE Bad == {m \in Nat : /\ Len(result) <= m
                                 /\ m <= BOUND_LIMIT
                                 /\ result # S[m]}
  <1>1. result \in Seq(Bounds) /\ Len(result) \in Nat /\ Len(result) <= BOUND_LIMIT
    BY DEF IInv, TypeOK, Chain, IsBoundChain
  <1>2. BOUND_LIMIT \in Bad
    BY <1>1 DEF BOUND_LIMIT
  <1>3. PICK m \in Bad : \A k \in Bad : m <= k
    <2>1. Bad \subseteq Nat /\ Bad # {}
      BY <1>2
    <2> HIDE DEF Bad
    <2> QED
      BY <2>1, LeastOf
  <1>4. m \in Nat /\ Len(result) < m /\ m <= BOUND_LIMIT /\ result # S[m]
    BY <1>1, <1>3 DEF Followed
  <1>5. m - 1 \in Nat /\ Len(result) <= m - 1 /\ m - 1 <= BOUND_LIMIT /\ m # 0
    BY <1>1, <1>4 DEF BOUND_LIMIT
  <1>6. S[m - 1] = result
    BY <1>3, <1>4, <1>5
  <1>7. S[m] = Turn(block, S, m)
    <2>1. m \in 0 .. BOUND_LIMIT
      BY <1>4 DEF BOUND_LIMIT
    <2> QED
      BY <2>1, ScanTurns
  <1>8. ~ (/\ Len(result) = m - 1
           /\ result = << >> \/ result[Len(result)].next_blocks = 0
           /\ is_bound(block, IF result = << >> THEN block.offset
                                                ELSE result[Len(result)].next_offset))
    <2> SUFFICES ASSUME Len(result) = m - 1,
                        result = << >> \/ result[Len(result)].next_blocks = 0
                 PROVE  ~ is_bound(block, IF result = << >> THEN block.offset
                                          ELSE result[Len(result)].next_offset)
      OBVIOUS
    <2>1. result = << >> <=> Len(result) = 0
      BY <1>1
    <2>2. Open /\ Len(result) # BOUND_LIMIT
      BY <1>1, <1>4, <2>1 DEF Open, BOUND_LIMIT
    <2>3. offset = BoundStart(block, result, Len(result) + 1) /\ ~ is_bound(block, offset)
      BY <2>2 DEF IInv, Cursor
    <2>4. Len(result) + 1 = 1 <=> Len(result) = 0
      BY <1>1
    <2>5. (Len(result) + 1) - 1 = Len(result)
      BY <1>1
    <2> QED
      BY <2>1, <2>3, <2>4, <2>5 DEF BoundStart
  <1> QED
    BY <1>4, <1>5, <1>6, <1>7, <1>8 DEF Turn

\* The loop of bound_candidates (RecordBound.cpp:243-254) returns what the
\* recursive definition says, for every block: the definition the other modules
\* take bounds from is the loop of the code.
THEOREM ComputesHolds == Spec => []Computes
  <1>1. IInv /\ Followed => Computes
    BY NothingMore, ScanTurns DEF Computes
  <1> QED
    BY <1>1, InitIInv, NextIInv, FollowedInit, FollowedNext, PTL DEF Spec

-----------------------------------------------------------------------------
(* How long it takes. That the loop comes to an end is Terminates, which   *)
(* TLC checks; what is proved is the part of it that needs no fairness: a  *)
(* natural number that every turn makes smaller.                           *)

TurnsLeft == (BOUND_LIMIT - Len(result)) + (IF done THEN 0 ELSE 1)

LEMMA TurnsLeftTyped == IInv => TurnsLeft \in 0 .. BOUND_LIMIT + 1
  <1> SUFFICES ASSUME IInv PROVE TurnsLeft \in 0 .. BOUND_LIMIT + 1
    OBVIOUS
  <1>1. result \in Seq(Bounds) /\ Len(result) \in Nat /\ Len(result) <= 32
    BY DEF IInv, TypeOK, Chain, IsBoundChain, BOUND_LIMIT
  <1>2. TurnsLeft \in Int /\ 0 <= TurnsLeft /\ TurnsLeft <= 33
    BY <1>1 DEF TurnsLeft, BOUND_LIMIT
  <1> QED
    BY <1>2 DEF BOUND_LIMIT

LEMMA TurnsLeftFalls == IInv /\ [Next]_vars => [TurnsLeft' < TurnsLeft]_vars
  <1> SUFFICES ASSUME IInv, [Next]_vars, ~ UNCHANGED vars PROVE TurnsLeft' < TurnsLeft
    OBVIOUS
  <1>1. result \in Seq(Bounds) /\ Len(result) \in Nat /\ Len(result) <= 32
    BY DEF IInv, TypeOK, Chain, IsBoundChain, BOUND_LIMIT
  <1>2. CASE Push
    <2>1. PICK bound : result' = Append(result, bound)
      BY <1>2 DEF Push
    <2>2. Len(result') = Len(result) + 1
      <3>1. result \in Seq(Bounds \cup {bound})
        BY <1>1
      <3> QED
        BY <2>1, <3>1
    <2>3. ~ done
      BY <1>2 DEF Push
    <2> QED
      BY <1>1, <2>2, <2>3 DEF TurnsLeft, BOUND_LIMIT
  <1>3. CASE Leave
    BY <1>1, <1>3 DEF Leave, TurnsLeft, BOUND_LIMIT
  <1> QED
    BY <1>2, <1>3 DEF Next, Terminated

\* RecordBound.cpp:243-252: whatever the offset and the bytes of a block are, every
\* turn of the loop brings its end nearer, and there are at most 33 of them.
THEOREM TurnsBounded ==
  Spec => [](TurnsLeft \in 0 .. BOUND_LIMIT + 1) /\ [][TurnsLeft' < TurnsLeft]_vars
  BY Invariant, TurnsLeftTyped, TurnsLeftFalls, PTL DEF Spec
=============================================================================
