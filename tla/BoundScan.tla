----------------------------- MODULE BoundScan -----------------------------
(***************************************************************************)
(* The loop of bound_candidates (src/blocks/RecordBound.cpp), one action   *)
(* per turn, over any block of Blocks: the offset in the block header may  *)
(* be stale and the bytes it points at may be anything.                    *)
(***************************************************************************)
EXTENDS RecordBound

CONSTANT Blocks

ASSUME BlocksAssumption ==
  \A b \in Blocks :
    /\ b.offset \in 0 .. 2^15 - 1
    /\ \A o \in DOMAIN b.heads : b.heads[o] \in Heads

VARIABLES
  block,     \* the block whose bounds are computed
  offset,    \* where the next header is read
  result,    \* the bounds found so far; "limit" is its length
  done       \* the loop was left

vars == <<block, offset, result, done>>

Init ==
  /\ block \in Blocks
  /\ offset = block.offset
  /\ result = << >>
  /\ done = FALSE

\* Mutant: the scan goes on behind a record that leaves the block.
PushOn ==
  /\ ~ done
  /\ Len(result) < BOUND_LIMIT
  /\ is_bound(block, offset)
  /\ LET bound == Bound_of(block.heads[offset], offset) IN
       result' = Append(result, bound) /\ offset' = bound.next_offset
  /\ UNCHANGED <<block, done>>

\* Mutant: a record that leaves the block is not stored.
PushInside ==
  /\ ~ done
  /\ Len(result) < BOUND_LIMIT
  /\ is_bound(block, offset)
  /\ LET bound == Bound_of(block.heads[offset], offset) IN
       IF bound.next_blocks > 0
       THEN done' = TRUE /\ UNCHANGED <<result, offset>>
       ELSE /\ result' = Append(result, bound)
            /\ offset' = bound.next_offset
            /\ UNCHANGED done
  /\ UNCHANGED block

\* One turn of the loop: the header at offset is a bound and is stored; a
\* record that leaves the block ends the loop.
Push ==
  /\ ~ done
  /\ Len(result) < BOUND_LIMIT
  /\ is_bound(block, offset)
  /\ LET bound == Bound_of(block.heads[offset], offset) IN
       /\ result' = Append(result, bound)
       /\ IF bound.next_blocks > 0
          THEN done' = TRUE /\ UNCHANGED offset
          ELSE done' = FALSE /\ offset' = bound.next_offset
  /\ UNCHANGED block

\* Mutant: the loop is left only when it has found something.
LeaveFull ==
  /\ ~ done
  /\ ~ is_bound(block, offset) \/ Len(result) = BOUND_LIMIT
  /\ done' = (Len(result) > 0)
  /\ UNCHANGED <<block, offset, result>>

\* The loop condition fails.
Leave ==
  /\ ~ done
  /\ ~ is_bound(block, offset) \/ Len(result) = BOUND_LIMIT
  /\ done' = TRUE
  /\ UNCHANGED <<block, offset, result>>

Terminated == done /\ UNCHANGED vars

Next == Push \/ Leave \/ Terminated

Spec == Init /\ [][Next]_vars /\ WF_vars(Push \/ Leave)

-----------------------------------------------------------------------------
TypeOK ==
  /\ offset \in Nat
  /\ result \in Seq(Bounds)
  /\ done \in BOOLEAN

\* bound_candidates (RecordBound.cpp:243-254): the list is a chain. Every bound
\* is read where its predecessor ends, and only the last one may leave the block.
Chain == IsBoundChain(block, result)

\* The records of a block lie one behind the other inside its body: no two
\* bounds claim the same byte, whatever the header offset and the garbage say.
Tiled ==
  \A i, j \in 1 .. Len(result) :
    i < j => /\ BoundStart(block, result, i) >= BLOCK_HEAD
             /\ BoundStart(block, result, i) + result[i].len
                  <= BoundStart(block, result, j)
             /\ BoundStart(block, result, j) + PEEK <= BlockSz

\* RecordBound.cpp:243, "limit < 32": in a block of at most 784 = 16 + 32 * 24
\* bytes the limit is never what ends the scan, so it drops no record of the
\* block. The legal sizes 1024 and 4096 are larger: there it can.
LimitNeverBinds ==
  done /\ BlockSz <= 784 =>
    \/ Len(result) > 0 /\ result[Len(result)].next_blocks > 0
    \/ ~ is_bound(block, offset)

\* When the loop ends it has computed what bound_candidates is defined to be.
Computes == done => result = bound_candidates(block)

\* The loop ends on every block.
Terminates == <>done
=============================================================================
