------------------------------ MODULE Changes ------------------------------
(***************************************************************************)
(* The changes of one record: Record::changes() (src/records/Record.h) and *)
(* Changes_of with decode_ChangeHead and decode_LengthVector               *)
(* (src/records/Change.cpp).                                               *)
(*                                                                         *)
(* A payload is what follows the record header. Of its bytes only the      *)
(* uint16 words of the length vectors and the bytes of two head fields are *)
(* told apart: words and bytes give them by offset, and are zero elsewhere.*)
(* Offsets are counted from the start of the payload, so a span of the     *)
(* code is an interval [from, from + size) here.                           *)
(***************************************************************************)
EXTENDS Integers, Sequences

CONSTANTS
  Payloads,    \* [size, isVoid, over12c, words, bytes]
  MaxCalls     \* how often changes() is called for one record

MAX_INDEX == 256           \* "idx > 256": too much changes
BASE_LO == 24              \* sizeof(ChangeHead_base_lo)
EXT_LO == 8                \* sizeof(ChangeHead_ext_lo)
LV_MIN == 4                \* at least 4 bytes, even if lv0 = 0

\* A record length is a multiple of four (RecordBound.cpp, no_len), and so are
\* both header sizes, 24 and 68.
ASSUME PayloadsAssumption ==
  \A p \in Payloads :
    /\ p.size \in Nat /\ p.size % 4 = 0
    /\ p.isVoid \in BOOLEAN /\ p.over12c \in BOOLEAN
    /\ \A o \in DOMAIN p.words : p.words[o] \in 0 .. 2^16 - 1
    /\ \A o \in DOMAIN p.bytes : p.bytes[o] \in 0 .. 255

ASSUME MaxCallsAssumption == MaxCalls \in Nat

VARIABLES
  payload,      \* the payload of the record: never changes
  pc,           \* "idle"; "loop": Changes_of before the next change; "vector"
                \* and "slots": in decode_LengthVector, before and in its loop
  view,         \* where the bytes not yet decoded begin
  base,         \* where the length vector begins, e_offset counts from it
  slot,         \* the length that is read next
  e_offset,     \* where the element that is read next begins
  o_spans,      \* the elements of this vector so far
  cache_changes,
  cached,
  answers       \* history: what the calls of changes() returned

decodeVars == <<view, base, slot, e_offset, o_spans>>
vars == <<payload, pc, decodeVars, cache_changes, cached, answers>>

Init ==
  /\ payload \in Payloads
  /\ pc = "idle"
  /\ view = 0 /\ base = 0 /\ slot = 1 /\ e_offset = 0
  /\ o_spans = << >>
  /\ cache_changes = << >>
  /\ cached = FALSE
  /\ answers = << >>

-----------------------------------------------------------------------------
Word(o) == IF o \in DOMAIN payload.words THEN payload.words[o] ELSE 0
Byte(o) == IF o \in DOMAIN payload.bytes THEN payload.bytes[o] ELSE 0

align_up4(n) == ((n + 3) \div 4) * 4

HeadSz == BASE_LO + (IF payload.over12c THEN EXT_LO ELSE 0)

\* raw_sz of decode_LengthVector.
RawSz == payload.size - base
lv0 == Word(base)
Slots == lv0 \div 2
Length(i) == Word(base + 2 * i)

\* decode_ChangeHead: the extension is decoded from the buffer of the base
\* part, so con_id is read at offset 0 and not at 24.
ChangeHead(o) ==
  [ at |-> o,
    opLayer |-> Byte(o),
    con_id |-> IF payload.over12c THEN <<Byte(o)>> ELSE << >> ]

Change(o, spans, end) ==
  [head |-> ChangeHead(o), spans |-> spans, end |-> end]

-----------------------------------------------------------------------------
(* Record::changes()                                                        *)

Answer(a) == answers' = Append(answers, a) /\ pc' = "idle"

\* A later call: whatever the first one met, the cache is the answer.
CallCached ==
  /\ pc = "idle" /\ Len(answers) < MaxCalls
  /\ cached
  /\ Answer([ok |-> TRUE, changes |-> Len(cache_changes)])
  /\ UNCHANGED <<payload, decodeVars, cache_changes, cached>>

CallVoid ==
  /\ pc = "idle" /\ Len(answers) < MaxCalls
  /\ ~ cached /\ payload.isVoid
  /\ cached' = TRUE
  /\ Answer([ok |-> TRUE, changes |-> 0])
  /\ UNCHANGED <<payload, decodeVars, cache_changes>>

\* Mutant: the flag is not set.
CallDecodeUncached ==
  /\ pc = "idle" /\ Len(answers) < MaxCalls
  /\ ~ cached /\ ~ payload.isVoid
  /\ view' = 0
  /\ pc' = "loop"
  /\ UNCHANGED <<payload, base, slot, e_offset, o_spans, cache_changes, cached,
                 answers>>

CallDecode ==
  /\ pc = "idle" /\ Len(answers) < MaxCalls
  /\ ~ cached /\ ~ payload.isVoid
  /\ cached' = TRUE
  /\ view' = 0
  /\ pc' = "loop"
  /\ UNCHANGED <<payload, base, slot, e_offset, o_spans, cache_changes, answers>>

-----------------------------------------------------------------------------
(* Changes_of                                                               *)

Decoded ==
  /\ pc = "loop"
  /\ view = payload.size
  /\ Answer([ok |-> TRUE, changes |-> Len(cache_changes)])
  /\ UNCHANGED <<payload, decodeVars, cache_changes, cached>>

TooManyNever == FALSE              \* mutant: no limit
TooMany == Len(cache_changes) > MAX_INDEX
NoHead == payload.size - view < HeadSz

\* decode_LengthVector before its loop.
BadVector ==
  \/ RawSz < LV_MIN
  \/ lv0 # 0 /\ (lv0 > RawSz \/ lv0 % 2 # 0)

SlotLeft == slot < Slots
BadSlotAlone == Length(slot) > RawSz     \* mutant: its offset is forgotten
BadSlot == e_offset + Length(slot) > RawSz

Fail ==
  /\ \/ pc = "loop" /\ view # payload.size /\ (TooMany \/ NoHead)
     \/ pc = "vector" /\ BadVector
     \/ pc = "slots" /\ SlotLeft /\ BadSlot
  /\ Answer([ok |-> FALSE, changes |-> 0])
  /\ UNCHANGED <<payload, decodeVars, cache_changes, cached>>

DecodeHead ==
  /\ pc = "loop"
  /\ view # payload.size
  /\ ~ TooMany /\ ~ NoHead
  /\ base' = view + HeadSz
  /\ pc' = "vector"
  /\ UNCHANGED <<payload, view, slot, e_offset, o_spans, cache_changes, cached,
                 answers>>

Push(spans, end) ==
  /\ cache_changes' = Append(cache_changes, Change(view, spans, end))
  /\ view' = end
  /\ pc' = "loop"

EmptyVector ==
  /\ pc = "vector"
  /\ ~ BadVector /\ lv0 = 0
  /\ Push(<< >>, base + LV_MIN)
  /\ UNCHANGED <<payload, base, slot, e_offset, o_spans, cached, answers>>

\* Mutant: lv0 counts as the length of an element.
OpenVectorAtZero ==
  /\ pc = "vector"
  /\ ~ BadVector /\ lv0 # 0
  /\ slot' = 0
  /\ e_offset' = align_up4(lv0)
  /\ o_spans' = << >>
  /\ pc' = "slots"
  /\ UNCHANGED <<payload, view, base, cache_changes, cached, answers>>

OpenVector ==
  /\ pc = "vector"
  /\ ~ BadVector /\ lv0 # 0
  /\ slot' = 1
  /\ e_offset' = align_up4(lv0)
  /\ o_spans' = << >>
  /\ pc' = "slots"
  /\ UNCHANGED <<payload, view, base, cache_changes, cached, answers>>

\* Mutant: an empty element is skipped, and the loop stays where it is.
ElementSkipsEmpty ==
  /\ pc = "slots"
  /\ SlotLeft /\ ~ BadSlot
  /\ o_spans' = IF Length(slot) = 0 THEN o_spans
                ELSE Append(o_spans, [from |-> base + e_offset,
                                      size |-> Length(slot)])
  /\ e_offset' = e_offset + align_up4(Length(slot))
  /\ slot' = IF Length(slot) = 0 THEN slot ELSE slot + 1
  /\ UNCHANGED <<payload, pc, view, base, cache_changes, cached, answers>>

Element ==
  /\ pc = "slots"
  /\ SlotLeft /\ ~ BadSlot
  /\ o_spans' = Append(o_spans, [from |-> base + e_offset, size |-> Length(slot)])
  /\ e_offset' = e_offset + align_up4(Length(slot))
  /\ slot' = slot + 1
  /\ UNCHANGED <<payload, pc, view, base, cache_changes, cached, answers>>

\* Mutant: the next change is looked for behind the vector, not its elements.
CloseVectorEarly ==
  /\ pc = "slots"
  /\ ~ SlotLeft
  /\ Push(o_spans, base + align_up4(lv0))
  /\ UNCHANGED <<payload, base, slot, e_offset, o_spans, cached, answers>>

CloseVector ==
  /\ pc = "slots"
  /\ ~ SlotLeft
  /\ Push(o_spans, base + e_offset)
  /\ UNCHANGED <<payload, base, slot, e_offset, o_spans, cached, answers>>

-----------------------------------------------------------------------------
Step ==
  \/ CallCached
  \/ CallVoid
  \/ CallDecode
  \/ Decoded
  \/ Fail
  \/ DecodeHead
  \/ EmptyVector
  \/ OpenVector
  \/ Element
  \/ CloseVector

Terminated ==
  /\ pc = "idle" /\ Len(answers) = MaxCalls
  /\ UNCHANGED vars

Next == Step \/ Terminated

Spec == Init /\ [][Next]_vars /\ WF_vars(Step)
-----------------------------------------------------------------------------
SpanType == [from : Nat, size : Nat]
HeadType == [at : Nat, opLayer : 0 .. 255,
             con_id : {<< >>} \cup {<<n>> : n \in 0 .. 255}]
ChangeType == [head : HeadType, spans : Seq(SpanType), end : Nat]
AnswerType == [ok : BOOLEAN, changes : Nat]

TypeOK ==
  /\ pc \in {"idle", "loop", "vector", "slots"}
  /\ view \in Nat /\ base \in Nat /\ slot \in Nat \ {0} /\ e_offset \in Nat
  /\ o_spans \in Seq(SpanType)
  /\ cache_changes \in Seq(ChangeType)
  /\ cached \in BOOLEAN
  /\ answers \in Seq(AnswerType)

\* The spans lie one behind the other from lo on, each of them below hi.
Laid(spans, lo, hi) ==
  /\ \A i \in 1 .. Len(spans) :
       /\ lo <= spans[i].from
       /\ spans[i].from + spans[i].size <= hi
  /\ \A i, j \in 1 .. Len(spans) :
       i < j => spans[i].from + spans[i].size <= spans[j].from

\* Change.cpp:87-104 and 140: no subspan is ever taken out of range. An offset
\* rounded up to four stays inside the bytes that were checked without rounding,
\* because the payload ends on such a boundary.
InRange ==
  /\ view <= payload.size
  /\ pc = "vector" => base <= payload.size
  /\ pc = "slots" => base + e_offset <= payload.size

\* Change.cpp:116-143: the changes of a record tile it. Each begins where the
\* one before it ends, its elements lie one behind the other between its head
\* and its end, and no two changes share a byte.
Tiled ==
  \A k \in 1 .. Len(cache_changes) :
    LET c == cache_changes[k] IN
      /\ c.head.at = (IF k = 1 THEN 0 ELSE cache_changes[k - 1].end)
      /\ c.head.at + HeadSz + LV_MIN <= c.end
      /\ c.end <= payload.size
      /\ Laid(c.spans, c.head.at + HeadSz, c.end)

End == IF Len(cache_changes) = 0 THEN 0 ELSE cache_changes[Len(cache_changes)].end

\* Record.h:76-90: the first answer is a success only if the changes cover the
\* payload to its last byte; every later answer is a success, and after an error
\* it passes off the changes in front of the bad one as those of the record.
AnswersTold ==
  \A k \in 1 .. Len(answers) :
    /\ answers[k].ok => answers[k].changes = Len(cache_changes)
    /\ k = 1 /\ ~ payload.isVoid => (answers[k].ok <=> End = payload.size)
    /\ k > 1 => answers[k].ok

\* Change.cpp:119: at most 257 changes are kept, and a record of 257 succeeds.
Bounded == Len(cache_changes) <= MAX_INDEX + 1

\* layout_ChangeHead.h:28-31: con_id is the container of the change, stored in
\* the extension behind the 24 bytes of the base part.
ConIdOfExtension ==
  \A k \in 1 .. Len(cache_changes) :
    LET h == cache_changes[k].head IN
      payload.over12c => h.con_id = <<Byte(h.at + BASE_LO)>>

\* Every call of changes() returns.
Terminates == <>[](pc = "idle" /\ Len(answers) = MaxCalls)

-----------------------------------------------------------------------------
(* The class word of a change head (src/records/Change.h)                   *)

\* get_cls_usn: the class, folded to 17 (undo header) or 18 (undo block) for the
\* undo segments, and the undo segment number. Class 0 and others are "Unknown".
get_cls_usn(c) ==
  [ cls |-> IF c < 17 THEN c ELSE 18 - (c % 2),
    usn |-> IF c < 17 THEN 0 ELSE (c - 15) \div 2 ]
=============================================================================
