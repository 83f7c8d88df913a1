--------------------------- MODULE Changes_proofs ---------------------------
(***************************************************************************)
(* Decoding the changes of a record, for every payload whose size is a     *)
(* multiple of four: nothing is read out of range, the changes tile the    *)
(* payload, and what changes() answers is what was decoded.                *)
(***************************************************************************)
EXTENDS Changes, TLAPS

-----------------------------------------------------------------------------
(* Lemmas about the operators                                               *)

\* align_up4 (coral_decode.h:108-110).
LEMMA AlignUp ==
  ASSUME NEW n \in Nat
  PROVE  /\ align_up4(n) \in Nat
         /\ align_up4(n) % 4 = 0
         /\ n <= align_up4(n)
         /\ n > 0 => align_up4(n) >= 4
  BY DEF align_up4

\* Rounding up to four does not cross a boundary that is a multiple of four.
LEMMA AlignStays ==
  ASSUME NEW a \in Nat, NEW n \in Nat, NEW b \in Nat,
         a % 4 = 0, b % 4 = 0, a + n <= b
  PROVE  a + align_up4(n) <= b /\ (a + align_up4(n)) % 4 = 0
  BY DEF align_up4

LEMMA PayloadFacts ==
  ASSUME payload \in Payloads
  PROVE  /\ payload.size \in Nat /\ payload.size % 4 = 0
         /\ \A o : Word(o) \in Nat /\ Byte(o) \in 0 .. 255
         /\ HeadSz \in Nat /\ HeadSz % 4 = 0 /\ HeadSz >= 24
         /\ payload.isVoid \in BOOLEAN
  BY PayloadsAssumption DEF Word, Byte, HeadSz, BASE_LO, EXT_LO

\* A change head has its type.
LEMMA HeadTyped ==
  ASSUME payload \in Payloads, NEW o \in Nat
  PROVE  ChangeHead(o) \in HeadType
  BY PayloadFacts DEF ChangeHead, HeadType

\* get_cls_usn against the table of Change.h:61-71: the classes 15 + 2u and
\* 16 + 2u are the header and the block of undo segment u, folded to 17 and 18.
THEOREM UndoClasses ==
  \A u \in Nat \ {0} :
    /\ get_cls_usn(15 + 2 * u) = [cls |-> 17, usn |-> u]
    /\ get_cls_usn(16 + 2 * u) = [cls |-> 18, usn |-> u]
  <1> SUFFICES ASSUME NEW u \in Nat \ {0}
               PROVE  /\ get_cls_usn(15 + 2 * u) = [cls |-> 17, usn |-> u]
                      /\ get_cls_usn(16 + 2 * u) = [cls |-> 18, usn |-> u]
    OBVIOUS
  <1>1. /\ ~ (15 + 2 * u < 17) /\ ~ (16 + 2 * u < 17)
        /\ (15 + 2 * u) % 2 = 1 /\ (16 + 2 * u) % 2 = 0
        /\ (15 + 2 * u - 15) \div 2 = u /\ (16 + 2 * u - 15) \div 2 = u
    OBVIOUS
  <1> QED
    BY <1>1 DEF get_cls_usn

-----------------------------------------------------------------------------
(* The inductive invariant                                                  *)

\* Every position is a multiple of four, which is what keeps InRange.
Aligned4 == view % 4 = 0 /\ base % 4 = 0 /\ e_offset % 4 = 0

\* Where decode_LengthVector stands between its head and its elements.
Place ==
  /\ view = End
  /\ pc \in {"vector", "slots"} =>
       base = view + HeadSz /\ Len(cache_changes) <= MAX_INDEX
  /\ pc = "slots" => e_offset >= LV_MIN /\ Laid(o_spans, base, base + e_offset)

\* Decoding is done by the first call only.
FirstCall ==
  /\ ~ cached => pc = "idle" /\ Len(cache_changes) = 0 /\ Len(answers) = 0
  /\ pc # "idle" => Len(answers) = 0 /\ ~ payload.isVoid
  /\ cached /\ pc = "idle" => Len(answers) > 0
  /\ payload.isVoid => Len(cache_changes) = 0

IInv ==
  /\ payload \in Payloads
  /\ TypeOK /\ Aligned4 /\ InRange /\ Place /\ FirstCall
  /\ Tiled /\ AnswersTold /\ Bounded

LEMMA InitIInv == Init => IInv
  <1> SUFFICES ASSUME Init PROVE IInv
    OBVIOUS
  <1>1. /\ payload \in Payloads /\ pc = "idle" /\ cached = FALSE
        /\ view = 0 /\ base = 0 /\ slot = 1 /\ e_offset = 0
        /\ o_spans = << >> /\ cache_changes = << >> /\ answers = << >>
        /\ Len(cache_changes) = 0 /\ Len(answers) = 0
    BY DEF Init
  <1>2. TypeOK
    <2>1. /\ << >> \in Seq(SpanType) /\ << >> \in Seq(ChangeType)
          /\ << >> \in Seq(AnswerType)
      OBVIOUS
    <2>2. 0 \in Nat /\ 1 \in Nat \ {0}
      OBVIOUS
    <2> QED
      BY <1>1, <2>1, <2>2, Zenon DEF TypeOK
  <1>3. Aligned4 /\ InRange /\ Place
    BY <1>1, PayloadFacts DEF Aligned4, InRange, Place, End
  <1>4. FirstCall /\ Tiled /\ AnswersTold /\ Bounded
    BY <1>1 DEF FirstCall, Tiled, AnswersTold, Bounded, MAX_INDEX
  <1> QED
    BY <1>1, <1>2, <1>3, <1>4 DEF IInv

-----------------------------------------------------------------------------
(* The steps                                                                *)

\* A call that answers without decoding leaves the changes alone.
LEMMA AnswerStep ==
  ASSUME IInv, UNCHANGED <<payload, decodeVars, cache_changes>>,
         NEW a \in AnswerType, Answer(a), cached',
         a.ok => a.changes = Len(cache_changes),
         Len(answers) = 0 /\ ~ payload.isVoid => (a.ok <=> End = payload.size),
         Len(answers) > 0 => a.ok
  PROVE  IInv'
  <1>1. /\ answers \in Seq(AnswerType) /\ answers' = Append(answers, a)
        /\ pc' = "idle"
    BY DEF IInv, TypeOK, Answer
  <1>2. /\ answers' \in Seq(AnswerType) /\ Len(answers') = Len(answers) + 1
        /\ \A k \in 1 .. Len(answers) : answers'[k] = answers[k]
        /\ answers'[Len(answers) + 1] = a
        /\ Len(answers) \in Nat
    BY <1>1
  <1>3. TypeOK'
    BY <1>1, <1>2 DEF IInv, TypeOK, decodeVars
  <1>4. /\ End' = End /\ HeadSz' = HeadSz /\ Aligned4' /\ InRange' /\ Place'
    BY <1>1 DEF IInv, Aligned4, InRange, Place, decodeVars, End, HeadSz
  <1>5. FirstCall'
    BY <1>1, <1>2 DEF IInv, FirstCall
  <1>6. Tiled' /\ Bounded'
    BY <1>4 DEF IInv, Tiled, Laid, Bounded
  <1>7. AnswersTold'
    BY <1>2, <1>4 DEF IInv, AnswersTold
  <1> QED
    BY <1>3, <1>4, <1>5, <1>6, <1>7 DEF IInv

LEMMA CallsIInv == IInv /\ (CallCached \/ CallVoid \/ Decoded \/ Fail) => IInv'
  <1> SUFFICES ASSUME IInv, CallCached \/ CallVoid \/ Decoded \/ Fail
               PROVE  IInv'
    OBVIOUS
  <1>1. /\ Len(cache_changes) \in Nat /\ Len(answers) \in Nat
        /\ payload.size \in Nat /\ view \in Nat /\ base \in Nat
        /\ HeadSz >= 24 /\ HeadSz \in Nat
    BY PayloadFacts DEF IInv, TypeOK
  <1>2. CASE CallCached
    <2> DEFINE a == [ok |-> TRUE, changes |-> Len(cache_changes)]
    <2>1. a \in AnswerType /\ a.ok /\ a.changes = Len(cache_changes)
      BY <1>1 DEF AnswerType
    <2>2. Len(answers) > 0
      BY <1>2 DEF IInv, FirstCall, CallCached
    <2> QED
      BY <1>2, <2>1, <2>2, AnswerStep DEF CallCached
  <1>3. CASE CallVoid
    <2> DEFINE a == [ok |-> TRUE, changes |-> 0]
    <2>1. a \in AnswerType /\ a.ok /\ a.changes = 0
      BY DEF AnswerType
    <2>2. Len(cache_changes) = 0 /\ payload.isVoid
      BY <1>3 DEF IInv, FirstCall, CallVoid
    <2> QED
      BY <1>3, <2>1, <2>2, AnswerStep DEF CallVoid
  <1>4. CASE Decoded
    <2> DEFINE a == [ok |-> TRUE, changes |-> Len(cache_changes)]
    <2>1. a \in AnswerType /\ a.ok /\ a.changes = Len(cache_changes)
      BY <1>1 DEF AnswerType
    <2>2. End = payload.size /\ cached'
      BY <1>4 DEF IInv, Place, FirstCall, Decoded, TypeOK
    <2> QED
      BY <1>4, <2>1, <2>2, AnswerStep DEF Decoded
  <1>5. CASE Fail
    <2> DEFINE a == [ok |-> FALSE, changes |-> 0]
    <2>1. a \in AnswerType /\ ~ a.ok
      BY DEF AnswerType
    <2>2. Len(answers) = 0 /\ cached'
      BY <1>5 DEF IInv, FirstCall, Fail, TypeOK
    <2>3. End # payload.size
      <3>1. CASE pc = "loop"
        BY <1>5, <3>1 DEF IInv, Place, Fail
      <3>2. CASE pc = "vector"
        BY <1>1, <3>2 DEF IInv, Place, InRange
      <3>3. CASE pc = "slots"
        BY <1>1, <3>3 DEF IInv, Place, InRange, LV_MIN, TypeOK
      <3> QED
        BY <1>5, <3>1, <3>2, <3>3 DEF Fail
    <2> QED
      BY <1>1, <1>5, <2>1, <2>2, <2>3, AnswerStep DEF Fail
  <1> QED
    BY <1>2, <1>3, <1>4, <1>5

-----------------------------------------------------------------------------
LEMMA CallDecodeIInv == IInv /\ CallDecode => IInv'
  <1> SUFFICES ASSUME IInv, CallDecode PROVE IInv'
    OBVIOUS
  <1>1. /\ Len(cache_changes) = 0 /\ Len(answers) = 0 /\ ~ payload.isVoid
        /\ view' = 0 /\ cached' = TRUE /\ pc' = "loop"
        /\ UNCHANGED <<payload, base, slot, e_offset, o_spans, cache_changes,
                       answers>>
    BY DEF IInv, FirstCall, CallDecode
  <1>2. TypeOK'
    <2>1. 0 \in Nat
      OBVIOUS
    <2> QED
      BY <1>1, <2>1, Zenon DEF IInv, TypeOK
  <1>3. End' = End /\ HeadSz' = HeadSz /\ End = 0
    BY <1>1 DEF End, HeadSz
  <1>4. Aligned4' /\ InRange' /\ Place' /\ FirstCall'
    BY <1>1, <1>3, PayloadFacts DEF IInv, Aligned4, InRange, Place, FirstCall
  <1>5. Tiled' /\ AnswersTold' /\ Bounded'
    BY <1>1, <1>3 DEF IInv, Tiled, Laid, AnswersTold, Bounded
  <1> QED
    BY <1>1, <1>2, <1>4, <1>5 DEF IInv

\* Steps inside decode_LengthVector change neither the changes nor the answers.
LEMMA InsideVector ==
  ASSUME IInv, pc # "idle", pc' \in {"vector", "slots"},
         UNCHANGED <<payload, view, cache_changes, cached, answers>>,
         TypeOK', Aligned4', InRange', Place'
  PROVE  IInv'
  <1>1. End' = End /\ HeadSz' = HeadSz
    BY DEF End, HeadSz
  <1>2. FirstCall'
    BY DEF IInv, FirstCall
  <1>3. Tiled' /\ AnswersTold' /\ Bounded'
    BY <1>1 DEF IInv, Tiled, Laid, AnswersTold, Bounded
  <1> QED
    BY <1>2, <1>3 DEF IInv

LEMMA DecodeHeadIInv == IInv /\ DecodeHead => IInv'
  <1> SUFFICES ASSUME IInv, DecodeHead PROVE IInv'
    OBVIOUS
  <1>1. /\ payload.size \in Nat /\ payload.size % 4 = 0
        /\ HeadSz \in Nat /\ HeadSz % 4 = 0
        /\ view \in Nat /\ view % 4 = 0 /\ Len(cache_changes) \in Nat
    BY PayloadFacts DEF IInv, TypeOK, Aligned4
  <1>2. /\ base' = view + HeadSz /\ pc' = "vector" /\ pc = "loop"
        /\ base' <= payload.size /\ Len(cache_changes) <= MAX_INDEX
        /\ UNCHANGED <<payload, view, slot, e_offset, o_spans, cache_changes,
                       cached, answers>>
    <2>1. /\ ~ TooMany /\ ~ NoHead
          /\ base' = view + HeadSz /\ pc' = "vector" /\ pc = "loop"
          /\ UNCHANGED <<payload, view, slot, e_offset, o_spans, cache_changes,
                         cached, answers>>
      BY DEF DecodeHead
    <2>2. view + HeadSz <= payload.size
      BY <1>1, <2>1 DEF NoHead
    <2>3. Len(cache_changes) <= MAX_INDEX
      BY <1>1, <2>1 DEF TooMany, MAX_INDEX
    <2> QED
      BY <2>1, <2>2, <2>3
  <1>3. base' \in Nat /\ base' % 4 = 0
    BY <1>1, <1>2
  <1>4. TypeOK'
    BY <1>2, <1>3, Zenon DEF IInv, TypeOK
  <1>5. Aligned4' /\ InRange' /\ Place'
    BY <1>1, <1>2, <1>3 DEF IInv, Aligned4, InRange, Place, End, HeadSz
  <1> QED
    BY <1>2, <1>4, <1>5, InsideVector

LEMMA OpenVectorIInv == IInv /\ OpenVector => IInv'
  <1> SUFFICES ASSUME IInv, OpenVector PROVE IInv'
    OBVIOUS
  <1>1. /\ payload.size \in Nat /\ payload.size % 4 = 0
        /\ lv0 \in Nat /\ lv0 > 0
        /\ base \in Nat /\ base % 4 = 0 /\ base <= payload.size
    BY PayloadFacts DEF IInv, TypeOK, Aligned4, InRange, OpenVector, lv0
  <1>2. base + lv0 <= payload.size
    BY <1>1 DEF OpenVector, BadVector, RawSz
  <1>3. /\ slot' = 1 /\ e_offset' = align_up4(lv0) /\ o_spans' = << >>
        /\ pc' = "slots" /\ pc = "vector"
        /\ UNCHANGED <<payload, view, base, cache_changes, cached, answers>>
    BY DEF OpenVector
  <1>4. /\ e_offset' \in Nat /\ e_offset' % 4 = 0 /\ e_offset' >= LV_MIN
        /\ base + e_offset' <= payload.size
    BY <1>1, <1>2, <1>3, AlignUp, AlignStays DEF LV_MIN
  <1>5. TypeOK'
    <2>1. << >> \in Seq(SpanType) /\ 1 \in Nat \ {0}
      OBVIOUS
    <2> QED
      BY <1>3, <1>4, <2>1, Zenon DEF IInv, TypeOK
  <1>6. Laid(o_spans, base, base + e_offset)'
    BY <1>3 DEF Laid
  <1>7. Aligned4' /\ InRange' /\ Place'
    BY <1>1, <1>3, <1>4, <1>6 DEF IInv, Aligned4, InRange, Place, End, HeadSz
  <1> QED
    BY <1>3, <1>5, <1>7, InsideVector

LEMMA ElementIInv == IInv /\ Element => IInv'
  <1> SUFFICES ASSUME IInv, Element PROVE IInv'
    OBVIOUS
  <1> DEFINE len == Length(slot)
             span == [from |-> base + e_offset, size |-> len]
  <1>1. /\ payload.size \in Nat /\ payload.size % 4 = 0
        /\ len \in Nat /\ slot \in Nat \ {0}
        /\ base \in Nat /\ base % 4 = 0
        /\ e_offset \in Nat /\ e_offset % 4 = 0 /\ e_offset >= LV_MIN
        /\ o_spans \in Seq(SpanType)
        /\ Laid(o_spans, base, base + e_offset)
    BY PayloadFacts DEF IInv, TypeOK, Aligned4, Place, Element, Length
  <1>2. base + e_offset + len <= payload.size
    <2>1. ~ BadSlot
      BY DEF Element
    <2>2. ~ (e_offset + len > payload.size - base)
      BY <2>1 DEF BadSlot, RawSz
    <2> HIDE DEF len
    <2> QED
      BY <1>1, <2>2
  <1>3. /\ o_spans' = Append(o_spans, span)
        /\ e_offset' = e_offset + align_up4(len) /\ slot' = slot + 1
        /\ pc' = "slots" /\ pc = "slots"
        /\ UNCHANGED <<payload, view, base, cache_changes, cached, answers>>
    BY DEF Element
  <1>4. align_up4(len) \in Nat /\ align_up4(len) % 4 = 0 /\ len <= align_up4(len)
    BY <1>1, AlignUp
  <1>5. /\ e_offset' \in Nat /\ e_offset' % 4 = 0 /\ e_offset' >= LV_MIN
        /\ slot' \in Nat \ {0}
    <2> HIDE DEF len
    <2>1. slot' \in Nat \ {0}
      BY <1>1, <1>3
    <2>2. \A a, b \in Nat : a % 4 = 0 /\ b % 4 = 0 => (a + b) % 4 = 0
      OBVIOUS
    <2>3. e_offset' \in Nat /\ e_offset' >= LV_MIN
      BY <1>1, <1>3, <1>4 DEF LV_MIN
    <2> QED
      BY <1>1, <1>3, <1>4, <2>1, <2>2, <2>3
  <1>6. base + e_offset' <= payload.size
    <2>1. (base + e_offset) \in Nat /\ (base + e_offset) % 4 = 0
      BY <1>1
    <2>2. (base + e_offset) + align_up4(len) <= payload.size
      BY <1>1, <1>2, <2>1, AlignStays
    <2> QED
      BY <1>1, <1>3, <1>4, <2>2
  <1>7. /\ o_spans' \in Seq(SpanType) /\ Len(o_spans') = Len(o_spans) + 1
        /\ \A i \in 1 .. Len(o_spans) :
             o_spans'[i] = o_spans[i] /\ o_spans[i] \in SpanType
        /\ o_spans'[Len(o_spans) + 1] = span
        /\ Len(o_spans) \in Nat
    <2>1. span \in SpanType
      BY <1>1 DEF SpanType
    <2> QED
      BY <1>1, <1>3, <2>1
  <1>8. TypeOK'
    BY <1>3, <1>5, <1>7, Zenon DEF IInv, TypeOK
  <1>9. Laid(o_spans, base, base + e_offset)'
    <2> HIDE DEF len
    <2> DEFINE n == Len(o_spans)
    <2>1. \A i \in 1 .. n :
            /\ o_spans[i].from \in Nat /\ o_spans[i].size \in Nat
            /\ base <= o_spans[i].from
            /\ o_spans[i].from + o_spans[i].size <= base + e_offset
      BY <1>1, <1>7 DEF Laid, SpanType
    <2>2. ASSUME NEW i \in 1 .. n + 1
          PROVE  /\ base <= o_spans'[i].from
                 /\ o_spans'[i].from + o_spans'[i].size <= base + e_offset'
      <3>1. CASE i = n + 1
        BY <1>1, <1>3, <1>4, <1>7, <3>1
      <3>2. CASE i \in 1 .. n
        <4>1. /\ o_spans'[i].from \in Nat /\ o_spans'[i].size \in Nat
              /\ base <= o_spans'[i].from
              /\ o_spans'[i].from + o_spans'[i].size <= base + e_offset
          BY <1>7, <2>1, <3>2
        <4>2. e_offset <= e_offset' /\ e_offset' \in Nat
          BY <1>1, <1>3, <1>4
        <4>3. o_spans'[i].from + o_spans'[i].size \in Nat
          BY <4>1
        <4> QED
          BY <1>1, <4>1, <4>2, <4>3
      <3> QED
        BY <1>7, <3>1, <3>2
    <2>3. ASSUME NEW i \in 1 .. n + 1, NEW j \in 1 .. n + 1, i < j
          PROVE  o_spans'[i].from + o_spans'[i].size <= o_spans'[j].from
      <3>1. i \in 1 .. n
        BY <1>7, <2>3
      <3>2. CASE j = n + 1
        BY <1>7, <2>1, <3>1, <3>2
      <3>3. CASE j \in 1 .. n
        <4>1. o_spans[i].from + o_spans[i].size <= o_spans[j].from
          BY <1>1, <2>3, <3>1, <3>3 DEF Laid
        <4> QED
          BY <1>7, <3>1, <3>3, <4>1
      <3> QED
        BY <1>7, <3>2, <3>3
    <2>4. Len(o_spans') = n + 1 /\ base' = base
      BY <1>3, <1>7
    <2> QED
      BY <2>2, <2>3, <2>4 DEF Laid
  <1>10. Aligned4' /\ InRange' /\ Place'
    BY <1>1, <1>3, <1>5, <1>6, <1>9
    DEF IInv, Aligned4, InRange, Place, End, HeadSz
  <1> QED
    BY <1>3, <1>8, <1>10, InsideVector

-----------------------------------------------------------------------------
\* A change is stored: it begins where the one before it ended.
LEMMA PushStep ==
  ASSUME IInv, pc \in {"vector", "slots"}, NEW spans \in Seq(SpanType),
         NEW end \in Nat, Push(spans, end),
         UNCHANGED <<payload, base, slot, e_offset, o_spans, cached, answers>>,
         end % 4 = 0, end <= payload.size, base + LV_MIN <= end,
         Laid(spans, base, end)
  PROVE  IInv'
  <1> DEFINE n == Len(cache_changes)
             c == Change(view, spans, end)
  <1>1. /\ payload.size \in Nat /\ HeadSz \in Nat
        /\ view \in Nat /\ view = End /\ base = view + HeadSz /\ base \in Nat
        /\ n \in Nat /\ n <= MAX_INDEX
        /\ cache_changes \in Seq(ChangeType)
        /\ ~ payload.isVoid /\ Len(answers) = 0 /\ cached
    BY PayloadFacts DEF IInv, TypeOK, Place, FirstCall
  <1>2. c \in ChangeType /\ c.end = end /\ c.head.at = view /\ c.spans = spans
    BY <1>1, HeadTyped DEF IInv, Change, ChangeType, ChangeHead
  <1>3. /\ cache_changes' = Append(cache_changes, c)
        /\ view' = end /\ pc' = "loop"
    BY DEF Push
  <1>4. /\ cache_changes' \in Seq(ChangeType) /\ Len(cache_changes') = n + 1
        /\ \A k \in 1 .. n : cache_changes'[k] = cache_changes[k]
        /\ cache_changes'[n + 1] = c
    BY <1>1, <1>2, <1>3
  <1>5. TypeOK'
    BY <1>3, <1>4, Zenon DEF IInv, TypeOK
  <1>6. End' = end /\ HeadSz' = HeadSz
    BY <1>1, <1>2, <1>4 DEF End, HeadSz
  <1>7. Aligned4' /\ InRange' /\ Place' /\ FirstCall'
    BY <1>1, <1>3, <1>6 DEF IInv, Aligned4, InRange, Place, FirstCall
  <1>8. Tiled'
    <2> SUFFICES ASSUME NEW k \in 1 .. n + 1
                 PROVE  LET d == cache_changes'[k] IN
                          /\ d.head.at = (IF k = 1 THEN 0
                                          ELSE cache_changes'[k - 1].end)
                          /\ d.head.at + HeadSz + LV_MIN <= d.end
                          /\ d.end <= payload.size
                          /\ Laid(d.spans, d.head.at + HeadSz, d.end)
      BY <1>4, <1>6 DEF Tiled, Laid
    <2>1. CASE k \in 1 .. n
      <3>1. k # 1 => cache_changes'[k - 1] = cache_changes[k - 1]
        BY <1>1, <1>4, <2>1
      <3> QED
        BY <1>4, <2>1, <3>1 DEF IInv, Tiled
    <2>2. CASE k = n + 1
      <3>1. c.head.at = (IF k = 1 THEN 0 ELSE cache_changes'[k - 1].end)
        BY <1>1, <1>2, <1>4, <2>2 DEF End
      <3>2. /\ c.head.at + HeadSz = base
            /\ c.head.at + HeadSz + LV_MIN <= c.end /\ c.end <= payload.size
        BY <1>1, <1>2
      <3>3. Laid(c.spans, c.head.at + HeadSz, c.end)
        BY <1>2, <3>2
      <3> QED
        BY <1>4, <2>2, <3>1, <3>2, <3>3
    <2> QED
      BY <1>1, <2>1, <2>2
  <1>9. AnswersTold' /\ Bounded'
    BY <1>1, <1>4 DEF IInv, AnswersTold, Bounded, MAX_INDEX
  <1> QED
    BY <1>5, <1>7, <1>8, <1>9 DEF IInv

LEMMA PushIInv == IInv /\ (EmptyVector \/ CloseVector) => IInv'
  <1> SUFFICES ASSUME IInv, EmptyVector \/ CloseVector PROVE IInv'
    OBVIOUS
  <1>1. /\ payload.size \in Nat /\ payload.size % 4 = 0
        /\ base \in Nat /\ base % 4 = 0
        /\ e_offset \in Nat /\ e_offset % 4 = 0
        /\ o_spans \in Seq(SpanType)
    BY PayloadFacts DEF IInv, TypeOK, Aligned4
  <1>2. CASE EmptyVector
    <2>1. << >> \in Seq(SpanType) /\ Laid(<< >>, base, base + LV_MIN)
      BY DEF Laid
    <2>2. /\ pc = "vector" /\ ~ BadVector /\ Push(<< >>, base + LV_MIN)
          /\ UNCHANGED <<payload, base, slot, e_offset, o_spans, cached, answers>>
      BY <1>2 DEF EmptyVector
    <2>3. base + LV_MIN <= payload.size
      BY <1>1, <2>2 DEF BadVector, RawSz, LV_MIN
    <2>4. (base + LV_MIN) \in Nat /\ (base + LV_MIN) % 4 = 0
      BY <1>1 DEF LV_MIN
    <2>5. base + LV_MIN <= base + LV_MIN
      BY <2>4
    <2> QED
      BY <2>1, <2>2, <2>3, <2>4, <2>5, PushStep
  <1>3. CASE CloseVector
    <2>1. /\ pc = "slots" /\ Push(o_spans, base + e_offset)
          /\ UNCHANGED <<payload, base, slot, e_offset, o_spans, cached, answers>>
      BY <1>3 DEF CloseVector
    <2>2. /\ base + e_offset <= payload.size
          /\ e_offset >= LV_MIN
          /\ Laid(o_spans, base, base + e_offset)
      BY <2>1 DEF IInv, InRange, Place
    <2>3. (base + e_offset) \in Nat /\ (base + e_offset) % 4 = 0
          /\ base + LV_MIN <= base + e_offset
      BY <1>1, <2>2 DEF LV_MIN
    <2> QED
      BY <1>1, <2>1, <2>2, <2>3, PushStep
  <1> QED
    BY <1>2, <1>3

LEMMA NextIInv == IInv /\ [Next]_vars => IInv'
  <1> SUFFICES ASSUME IInv, [Next]_vars PROVE IInv'
    OBVIOUS
  <1>1. CASE CallCached \/ CallVoid \/ Decoded \/ Fail
    BY <1>1, CallsIInv
  <1>2. CASE CallDecode
    BY <1>2, CallDecodeIInv
  <1>3. CASE DecodeHead
    BY <1>3, DecodeHeadIInv
  <1>4. CASE EmptyVector \/ CloseVector
    BY <1>4, PushIInv
  <1>5. CASE OpenVector
    BY <1>5, OpenVectorIInv
  <1>6. CASE Element
    BY <1>6, ElementIInv
  <1>7. CASE UNCHANGED vars
    <2>1. End' = End /\ HeadSz' = HeadSz
      BY <1>7 DEF vars, End, HeadSz
    <2>2. TypeOK' /\ Aligned4' /\ InRange' /\ Place' /\ FirstCall'
      BY <1>7, <2>1
      DEF IInv, vars, decodeVars, TypeOK, Aligned4, InRange, Place, FirstCall
    <2>3. Tiled' /\ AnswersTold' /\ Bounded'
      BY <1>7, <2>1 DEF IInv, vars, decodeVars, Tiled, Laid, AnswersTold, Bounded
    <2> QED
      BY <1>7, <2>2, <2>3 DEF IInv, vars
  <1> QED
    BY <1>1, <1>2, <1>3, <1>4, <1>5, <1>6, <1>7 DEF Next, Step, Terminated

LEMMA Invariant == Spec => []IInv
  BY InitIInv, NextIInv, PTL DEF Spec

-----------------------------------------------------------------------------
\* The variables of the decoder keep their types.
THEOREM TypeCorrect == Spec => []TypeOK
  BY Invariant, PTL DEF IInv

\* Change.cpp:87-104: no subspan is taken out of range.
THEOREM InRangeHolds == Spec => []InRange
  BY Invariant, PTL DEF IInv

\* Change.cpp:116-143: the changes of a record tile it.
THEOREM TiledHolds == Spec => []Tiled
  BY Invariant, PTL DEF IInv

\* Record.h:76-90: what the first call and the later ones answer.
THEOREM AnswersToldHolds == Spec => []AnswersTold
  BY Invariant, PTL DEF IInv

\* Change.cpp:119: never more than 257 changes.
THEOREM BoundedHolds == Spec => []Bounded
  BY Invariant, PTL DEF IInv

-----------------------------------------------------------------------------
(* How long it takes. That every call returns is Terminates, which TLC     *)
(* checks; what is proved is the part of it that needs no fairness: a      *)
(* natural number that every step makes smaller.                           *)

CallsInv == Len(answers) <= MaxCalls /\ (pc # "idle" => cached /\ Len(answers) < MaxCalls)

SlotsLeft == IF slot < Slots THEN Slots - slot ELSE 0

\* The bytes not yet decoded, and what is still to be read of a vector.
BytesLeft ==
  CASE pc = "idle" -> IF cached THEN 0 ELSE payload.size + 1
    [] pc = "loop" -> payload.size - view
    [] pc = "vector" -> (payload.size - base) + 3
    [] pc = "slots" -> (payload.size - (base + e_offset)) + SlotsLeft + 1

StepsLeft == (MaxCalls - Len(answers)) + BytesLeft

LEMMA CallsInitially == Init => CallsInv
  BY MaxCallsAssumption DEF Init, CallsInv

LEMMA CallsPreserved == IInv /\ CallsInv /\ [Next]_vars => CallsInv'
  <1> SUFFICES ASSUME IInv, CallsInv, [Next]_vars PROVE CallsInv'
    OBVIOUS
  <1>1. Len(answers) \in Nat /\ MaxCalls \in Nat /\ answers \in Seq(AnswerType)
    BY MaxCallsAssumption DEF IInv, TypeOK
  <1>2. ASSUME NEW a, answers' = Append(answers, a)
        PROVE  Len(answers') = Len(answers) + 1
    <2>1. answers \in Seq(AnswerType \cup {a})
      BY <1>1
    <2> QED
      BY <1>2, <2>1
  <1>3. CASE CallCached \/ CallVoid \/ Decoded \/ Fail
    <2>1. pc' = "idle" /\ \E a : answers' = Append(answers, a)
      BY <1>3 DEF CallCached, CallVoid, Decoded, Fail, Answer
    <2>2. Len(answers) < MaxCalls
      BY <1>3 DEF CallCached, CallVoid, Decoded, Fail, CallsInv
    <2> QED
      BY <1>1, <1>2, <2>1, <2>2 DEF CallsInv
  <1>4. CASE CallDecode
    BY <1>1, <1>4 DEF CallDecode, CallsInv
  <1>5. CASE DecodeHead \/ EmptyVector \/ OpenVector \/ Element \/ CloseVector
    <2>1. UNCHANGED <<answers, cached>> /\ pc # "idle"
      BY <1>5 DEF DecodeHead, EmptyVector, OpenVector, Element, CloseVector
    <2> QED
      BY <2>1 DEF CallsInv
  <1>6. CASE UNCHANGED vars
    BY <1>6 DEF vars, CallsInv
  <1> QED
    BY <1>3, <1>4, <1>5, <1>6 DEF Next, Step, Terminated

LEMMA SlotsTyped ==
  ASSUME IInv
  PROVE  Slots \in Nat /\ SlotsLeft \in Nat /\ 2 * Slots <= lv0 /\ lv0 \in Nat
  <1>1. lv0 \in Nat
    BY PayloadFacts DEF IInv, lv0
  <1> QED
    BY <1>1 DEF Slots, SlotsLeft, IInv, TypeOK

LEMMA StepsLeftTyped ==
  IInv /\ CallsInv => StepsLeft \in Nat /\ BytesLeft \in Nat /\ MaxCalls - Len(answers) \in Nat
  <1> SUFFICES ASSUME IInv, CallsInv
               PROVE  StepsLeft \in Nat /\ BytesLeft \in Nat /\ MaxCalls - Len(answers) \in Nat
    OBVIOUS
  <1>1. /\ payload.size \in Nat /\ view \in Nat /\ base \in Nat /\ e_offset \in Nat
        /\ view <= payload.size /\ SlotsLeft \in Nat
        /\ pc \in {"idle", "loop", "vector", "slots"}
    BY PayloadFacts, SlotsTyped DEF IInv, TypeOK, InRange
  <1>2. (pc = "vector" => base <= payload.size)
        /\ (pc = "slots" => base + e_offset <= payload.size)
    BY DEF IInv, InRange
  <1>3. MaxCalls - Len(answers) \in Nat
    BY MaxCallsAssumption DEF IInv, TypeOK, CallsInv
  <1>4. BytesLeft \in Nat
    BY <1>1, <1>2 DEF BytesLeft
  <1> QED
    BY <1>3, <1>4 DEF StepsLeft

LEMMA StepsLeftFalls == IInv /\ CallsInv /\ [Next]_vars => [StepsLeft' < StepsLeft]_vars
  <1> SUFFICES ASSUME IInv, CallsInv, Next, ~ UNCHANGED vars
               PROVE  StepsLeft' < StepsLeft
    OBVIOUS
  <1>1. /\ payload.size \in Nat /\ view \in Nat /\ base \in Nat /\ e_offset \in Nat
        /\ HeadSz \in Nat /\ HeadSz >= 24 /\ slot \in Nat
        /\ Len(answers) \in Nat /\ MaxCalls \in Nat /\ answers \in Seq(AnswerType)
        /\ view <= payload.size
    BY PayloadFacts, MaxCallsAssumption DEF IInv, TypeOK, InRange
  <1>2. ASSUME NEW a, answers' = Append(answers, a)
        PROVE  Len(answers') = Len(answers) + 1
    <2>1. answers \in Seq(AnswerType \cup {a})
      BY <1>1
    <2> QED
      BY <1>2, <2>1
  <1>3. StepsLeft \in Nat /\ BytesLeft \in Nat /\ MaxCalls - Len(answers) \in Nat
    BY StepsLeftTyped
  <1>a. ASSUME UNCHANGED answers, BytesLeft' \in Int, BytesLeft' < BytesLeft
        PROVE  StepsLeft' < StepsLeft
    BY <1>1, <1>3, <1>a DEF StepsLeft
  <1>4. CASE CallCached \/ CallVoid \/ Decoded \/ Fail
    <2>1. pc' = "idle" /\ cached' /\ \E a : answers' = Append(answers, a)
      BY <1>4 DEF CallCached, CallVoid, Decoded, Fail, Answer, CallsInv
    <2>2. BytesLeft' = 0
      BY <2>1 DEF BytesLeft
    <2>3. Len(answers') = Len(answers) + 1
      BY <1>2, <2>1
    <2> QED
      BY <1>1, <1>3, <2>2, <2>3 DEF StepsLeft
  <1>5. CASE CallDecode
    <2>1. /\ pc = "idle" /\ ~ cached /\ pc' = "loop" /\ view' = 0
          /\ UNCHANGED <<payload, answers>>
      BY <1>5 DEF CallDecode
    <2>2. BytesLeft = payload.size + 1 /\ BytesLeft' = payload.size - 0
      BY <2>1 DEF BytesLeft
    <2> QED
      BY <1>1, <2>1, <2>2 DEF StepsLeft
  <1>6. CASE DecodeHead
    <2>1. /\ pc = "loop" /\ pc' = "vector" /\ base' = view + HeadSz
          /\ UNCHANGED <<payload, answers>>
      BY <1>6 DEF DecodeHead
    <2>2. BytesLeft = payload.size - view
          /\ BytesLeft' = (payload.size - (view + HeadSz)) + 3
      BY <2>1 DEF BytesLeft
    <2> QED
      BY <1>1, <2>1, <2>2 DEF StepsLeft
  <1>7. CASE EmptyVector
    <2>1. /\ pc = "vector" /\ pc' = "loop" /\ view' = base + 4
          /\ UNCHANGED <<payload, answers>>
      BY <1>7 DEF EmptyVector, Push, LV_MIN
    <2>2. BytesLeft = (payload.size - base) + 3 /\ BytesLeft' = payload.size - (base + 4)
      BY <2>1 DEF BytesLeft
    <2> QED
      BY <1>1, <2>1, <2>2 DEF StepsLeft
  <1>8. CASE OpenVector
    <2>1. /\ pc = "vector" /\ pc' = "slots" /\ slot' = 1 /\ e_offset' = align_up4(lv0)
          /\ UNCHANGED <<payload, base, answers>> /\ lv0 # 0
      BY <1>8 DEF OpenVector
    <2>2. /\ lv0 \in Nat /\ Slots \in Nat /\ 2 * Slots <= lv0 /\ align_up4(lv0) \in Nat
          /\ lv0 <= align_up4(lv0)
      BY SlotsTyped, AlignUp
    <2>3. Slots' = Slots
      BY <2>1 DEF Slots, lv0, Word
    <2>4. SlotsLeft' <= Slots /\ SlotsLeft' \in Nat
      BY <2>1, <2>2, <2>3 DEF SlotsLeft
    <2>5. BytesLeft = (payload.size - base) + 3
          /\ BytesLeft' = (payload.size - (base + align_up4(lv0))) + SlotsLeft' + 1
      BY <2>1 DEF BytesLeft
    <2>6. payload.size - (base + align_up4(lv0)) + SlotsLeft' + 1
            < (payload.size - base) + 3
      <3> PICK a, n : a = align_up4(lv0) /\ n = lv0
        OBVIOUS
      <3> QED
        BY <1>1, <2>1, <2>2, <2>4
    <2>7. BytesLeft' \in Int
      BY <1>1, <2>2, <2>4, <2>5
    <2> QED
      BY <1>a, <2>1, <2>5, <2>6, <2>7
  <1>9. CASE Element
    <2>1. /\ pc = "slots" /\ pc' = "slots" /\ slot' = slot + 1 /\ slot < Slots
          /\ e_offset' = e_offset + align_up4(Length(slot))
          /\ UNCHANGED <<payload, base, answers>>
      BY <1>9 DEF Element, SlotLeft
    <2>2. Slots \in Nat /\ Length(slot) \in Nat /\ align_up4(Length(slot)) \in Nat
      BY PayloadFacts, SlotsTyped, AlignUp DEF Length, IInv
    <2>3. Slots' = Slots
      BY <2>1 DEF Slots, lv0, Word
    <2>4. SlotsLeft' = SlotsLeft - 1 /\ SlotsLeft \in Nat
      BY <1>1, <2>1, <2>2, <2>3 DEF SlotsLeft
    <2>5. BytesLeft = (payload.size - (base + e_offset)) + SlotsLeft + 1
          /\ BytesLeft' = (payload.size - (base + e_offset')) + SlotsLeft' + 1
      BY <2>1 DEF BytesLeft
    <2>6. e_offset' \in Nat /\ e_offset' >= e_offset
      BY <1>1, <2>1, <2>2
    <2>7. BytesLeft' \in Int /\ BytesLeft' < BytesLeft
      <3> PICK m, n, o : m = SlotsLeft /\ n = SlotsLeft' /\ o = e_offset'
        OBVIOUS
      <3>1. m \in Nat /\ n = m - 1 /\ o \in Nat /\ o >= e_offset
        BY <2>4, <2>6
      <3>2. BytesLeft = (payload.size - (base + e_offset)) + m + 1
            /\ BytesLeft' = (payload.size - (base + o)) + n + 1
        BY <2>5
      <3>3. (payload.size - (base + o)) + n + 1 < (payload.size - (base + e_offset)) + m + 1
        BY <1>1, <3>1
      <3>4. (payload.size - (base + o)) + n + 1 \in Int
        BY <1>1, <3>1
      <3> QED
        BY <3>2, <3>3, <3>4
    <2> QED
      BY <1>a, <2>1, <2>7
  <1>10. CASE CloseVector
    <2>1. /\ pc = "slots" /\ pc' = "loop" /\ view' = base + e_offset
          /\ UNCHANGED <<payload, answers>>
      BY <1>10 DEF CloseVector, Push
    <2>2. BytesLeft = (payload.size - (base + e_offset)) + SlotsLeft + 1
          /\ BytesLeft' = payload.size - (base + e_offset)
      BY <2>1 DEF BytesLeft
    <2>3. SlotsLeft \in Nat
      BY SlotsTyped
    <2> QED
      BY <1>1, <2>1, <2>2, <2>3 DEF StepsLeft
  <1> QED
    BY <1>4, <1>5, <1>6, <1>7, <1>8, <1>9, <1>10 DEF Next, Step, Terminated

\* Change.cpp:74-146 and Record.h:76-90: whatever the lengths of a payload say, no
\* step goes round: all the calls of changes() together take no more steps than
\* the payload has bytes, one for each call and one more.
THEOREM StepsBounded ==
  Spec => /\ StepsLeft <= MaxCalls + payload.size + 1
          /\ [](StepsLeft \in Nat)
          /\ [][StepsLeft' < StepsLeft]_vars
  <1>1. Init => StepsLeft <= MaxCalls + payload.size + 1
    <2> SUFFICES ASSUME Init PROVE StepsLeft <= MaxCalls + payload.size + 1
      OBVIOUS
    <2>1. payload.size \in Nat /\ MaxCalls \in Nat
      BY PayloadFacts, MaxCallsAssumption DEF Init
    <2>2. BytesLeft = payload.size + 1 /\ Len(answers) = 0
      BY DEF Init, BytesLeft
    <2> QED
      BY <2>1, <2>2 DEF StepsLeft
  <1>2. IInv /\ CallsInv => StepsLeft \in Nat
    BY StepsLeftTyped
  <1> QED
    BY <1>1, <1>2, InitIInv, NextIInv, CallsInitially, CallsPreserved, StepsLeftFalls,
       PTL DEF Spec
=============================================================================
