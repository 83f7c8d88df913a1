------------------------ MODULE ChangeParser_proofs ------------------------
(***************************************************************************)
(* Whatever elements a change has, in whatever state they are, and         *)
(* whatever a parser does with them: they are read once and in order, and  *)
(* nothing outside them is read. And what a parser that ends well has: the *)
(* row it names, with all its columns; behaviour is undefined in the four  *)
(* places UndefinedOnly names.                                             *)
(*                                                                         *)
(* The first half needs the cursor and the fields alone (IInv). The second *)
(* follows the parsers through their calls (CInv): every step that waits   *)
(* on the stack belongs to a phase of the parsing, and the phases come in  *)
(* order.                                                                  *)
(***************************************************************************)
EXTENDS ChangeParser, Elements_proofs, FiniteSetTheorems, WellFoundedInduction

IsSeq(s) == s \in Seq({s[k] : k \in 1 .. Len(s)})

\* A read field lies behind the cursor and is read inside its element.
GoodEntry(e) ==
  /\ e.at \in 1 .. index
  /\ e.inside \/ Overreads(e.as, e.v, change.spans[e.at].size)

Ordered(s) == \A j, k \in 1 .. Len(s) : j < k => s[j].at < s[k].at

IInv ==
  /\ change \in Changes
  /\ index \in 0 .. Len(change.spans)
  /\ IsSeq(got)
  /\ \A k \in 1 .. Len(got) : GoodEntry(got[k])
  /\ Ordered(got)

-----------------------------------------------------------------------------
(* Sequences                                                                *)

LEMMA ConcatIsSeq ==
  ASSUME NEW s, NEW t, IsSeq(s), IsSeq(t)
  PROVE  /\ IsSeq(s \o t)
         /\ Len(s) \in Nat /\ Len(t) \in Nat
         /\ Len(s \o t) = Len(s) + Len(t)
         /\ \A k \in 1 .. Len(s \o t) :
              (s \o t)[k] = IF k <= Len(s) THEN s[k] ELSE t[k - Len(s)]
  <1> DEFINE R == {s[k] : k \in 1 .. Len(s)} \cup {t[k] : k \in 1 .. Len(t)}
  <1>1. s \in Seq(R) /\ t \in Seq(R)
    <2>1. ASSUME NEW S, NEW T, NEW x \in Seq(S), S \subseteq T PROVE x \in Seq(T)
      BY <2>1
    <2> QED  BY <2>1 DEF IsSeq
  <1> HIDE DEF R
  <1>2. /\ s \o t \in Seq(R) /\ Len(s \o t) = Len(s) + Len(t)
        /\ \A k \in 1 .. Len(s) + Len(t) :
             (s \o t)[k] = IF k <= Len(s) THEN s[k] ELSE t[k - Len(s)]
    BY <1>1, ConcatProperties, Zenon
  <1>3. IsSeq(s \o t)
    <2>1. ASSUME NEW x \in Seq(R) PROVE IsSeq(x)
      <3> DEFINE S == {x[k] : k \in 1 .. Len(x)}
      <3>1. Len(x) \in Nat /\ x \in [1 .. Len(x) -> S]
        BY <2>1
      <3> HIDE DEF S
      <3>2. x \in Seq(S)
        BY <3>1, SeqDef
      <3> QED  BY <3>2 DEF IsSeq, S
    <2> QED  BY <1>2, <2>1
  <1> QED  BY <1>1, <1>2, <1>3

-----------------------------------------------------------------------------
(* The three things a step does to what has been read                       *)

\* It reads nothing; the cursor stays or moves on.
LEMMA ReadsNothing ==
  ASSUME IInv, change' = change, got' = got, index' \in index .. Len(change.spans)
  PROVE  IInv'
  <1>1. index \in Nat /\ index' \in Nat /\ index' \in 0 .. Len(change.spans)
    <2>1. Len(change.spans) \in Nat  BY ParserAssumption DEF IInv
    <2> QED  BY <2>1 DEF IInv
  <1>2. ASSUME NEW e, GoodEntry(e) PROVE GoodEntry(e)'
    BY <1>1, <1>2 DEF GoodEntry
  <1> QED  BY <1>1, <1>2 DEF IInv, IsSeq, Ordered

\* It reads fields behind the cursor, in order, and moves the cursor behind them.
LEMMA ReadsFields ==
  ASSUME IInv, change' = change, index' \in index .. Len(change.spans),
         NEW es, IsSeq(es), got' = got \o es,
         \A k \in 1 .. Len(es) : GoodEntry(es[k])' /\ es[k].at > index,
         Ordered(es)
  PROVE  IInv'
  <1>1. index \in Nat /\ index' \in Nat /\ index' \in 0 .. Len(change.spans)
    <2>1. Len(change.spans) \in Nat  BY ParserAssumption DEF IInv
    <2> QED  BY <2>1 DEF IInv
  <1>2. /\ IsSeq(got') /\ Len(got) \in Nat /\ Len(es) \in Nat
        /\ Len(got') = Len(got) + Len(es)
        /\ \A k \in 1 .. Len(got') :
             got'[k] = IF k <= Len(got) THEN got[k] ELSE es[k - Len(got)]
    BY ConcatIsSeq DEF IInv
  <1>3. ASSUME NEW e, GoodEntry(e) PROVE GoodEntry(e)'
    BY <1>1, <1>3 DEF GoodEntry
  <1>4. ASSUME NEW e, NEW k \in 1 .. Len(got'), e = got'[k] PROVE GoodEntry(e)'
    <2>1. CASE k <= Len(got)
      BY <1>2, <1>3, <1>4, <2>1 DEF IInv
    <2>2. CASE k > Len(got)
      <3>1. k - Len(got) \in 1 .. Len(es) /\ e = es[k - Len(got)]
        BY <1>2, <1>4, <2>2
      <3> QED  BY <3>1
    <2> QED  BY <1>2, <2>1, <2>2
  <1>5. ASSUME NEW j \in 1 .. Len(got'), NEW k \in 1 .. Len(got'), j < k
        PROVE  got'[j].at < got'[k].at
    <2>1. CASE k <= Len(got)
      BY <1>2, <1>5, <2>1 DEF IInv, Ordered
    <2>2. CASE j <= Len(got) /\ k > Len(got)
      <3>1. got'[j] = got[j] /\ got[j].at \in 1 .. index
        BY <1>2, <2>2 DEF IInv, GoodEntry
      <3>2. got'[k] = es[k - Len(got)] /\ k - Len(got) \in 1 .. Len(es)
        BY <1>2, <2>2
      <3>3. got'[k].at > index /\ got'[k].at \in 1 .. index'
        BY <3>2 DEF GoodEntry
      <3> QED  BY <1>1, <3>1, <3>3
    <2>3. CASE j > Len(got)
      <3>1. /\ j - Len(got) \in 1 .. Len(es) /\ k - Len(got) \in 1 .. Len(es)
            /\ j - Len(got) < k - Len(got)
        BY <1>2, <1>5, <2>3
      <3>2. got'[j] = es[j - Len(got)] /\ got'[k] = es[k - Len(got)]
        BY <1>2, <1>5, <2>3
      <3> QED  BY <3>1, <3>2 DEF Ordered
    <2> QED  BY <1>2, <2>1, <2>2, <2>3
  <1> QED  BY <1>1, <1>2, <1>4, <1>5 DEF IInv, Ordered

-----------------------------------------------------------------------------
(* Decoding                                                                 *)

\* Whatever an element shows to a decoder is typed.
LEMMA ShownTyped ==
  ASSUME change \in Changes, NEW n \in 1 .. Len(change.spans),
         NEW as, NEW v \in Shown(as, change.spans[n])
  PROVE  Typed(as, v)
  <1>1. CASE change.spans[n].kind = as
    BY <1>1, ParserAssumption DEF Shown
  <1>2. CASE change.spans[n].kind # as /\ as \in Steered
    BY <1>2, ParserAssumption DEF Shown
  <1>3. CASE as \notin Steered
    BY <1>3 DEF Typed, Steered
  <1> QED  BY <1>1, <1>2, <1>3

LEMMA OneIsSeq == ASSUME NEW e PROVE IsSeq(<<e>>) /\ Len(<<e>>) = 1 /\ <<e>>[1] = e
BY DEF IsSeq

\* The element behind the cursor, decoded or refused, keeps the invariant.
LEMMA DecodeKeeps ==
  ASSUME IInv, Remaining > 0, change' = change, index' = index + 1,
         NEW v \in Shown(Step.as, Peek),
         got' = got \o <<Entry(index + 1, v, Inside(Tests(Step.as, v, IsLittle), Peek.size))>>
  PROVE  IInv'
  <1> DEFINE inside == Inside(Tests(Step.as, v, IsLittle), Peek.size)
             e == Entry(index + 1, v, inside)
  <1>1. /\ index \in Nat /\ Len(change.spans) \in Nat
        /\ index + 1 \in 1 .. Len(change.spans)
        /\ index' \in index .. Len(change.spans)
    <2>1. Len(change.spans) \in Nat  BY ParserAssumption DEF IInv
    <2> QED  BY <2>1 DEF IInv, Remaining
  <1>2. Peek.size \in Nat /\ Typed(Step.as, v)
    <2>1. Typed(Step.as, v)
      BY <1>1, ShownTyped DEF IInv, Peek
    <2> QED  BY <1>1, <2>1, ParserAssumption DEF IInv, Peek
  <1>3. inside \/ Overreads(Step.as, v, Peek.size)
    BY <1>2, DecodersInside
  <1> HIDE DEF inside
  <1>4. e.at = index + 1 /\ e.as = Step.as /\ e.v = v /\ e.inside = inside
    BY DEF Entry
  <1>5. got' = got \o <<e>>
    BY DEF inside
  <1> HIDE DEF e
  <1>6. PICK f : f = e
    OBVIOUS
  <1>7. GoodEntry(f)' /\ f.at > index
    BY <1>1, <1>3, <1>4, <1>6 DEF GoodEntry, Peek
  <1>8. PICK es : es = <<f>>
    OBVIOUS
  <1>9. IsSeq(es) /\ Len(es) = 1 /\ es[1] = f
    BY <1>8, OneIsSeq
  <1>10. Ordered(es)
    BY <1>9 DEF Ordered
  <1>11. ASSUME NEW k \in 1 .. Len(es) PROVE GoodEntry(es[k])' /\ es[k].at > index
    <2>1. k = 1  BY <1>9
    <2> QED  BY <1>7, <1>9, <2>1
  <1>12. got' = got \o es
    BY <1>5, <1>6, <1>8
  <1> QED  BY <1>1, <1>9, <1>10, <1>11, <1>12, ReadsFields

\* One raw field at the cursor; its size is all the decoder knows.
LEMMA RawKeeps ==
  ASSUME IInv, Remaining > 0, change' = change, index' = index + 1,
         NEW v, got' = got \o <<Entry(index + 1, v, TRUE)>>
  PROVE  IInv'
  <1> DEFINE e == Entry(index + 1, v, TRUE)
  <1>1. /\ index \in Nat /\ Len(change.spans) \in Nat
        /\ index' \in index .. Len(change.spans)
    <2>1. Len(change.spans) \in Nat  BY ParserAssumption DEF IInv
    <2> QED  BY <2>1 DEF IInv, Remaining
  <1>2. e.at = index + 1 /\ e.inside = TRUE
    BY DEF Entry
  <1> HIDE DEF e
  <1>3. PICK f : f = e
    OBVIOUS
  <1>4. PICK es : es = <<f>>
    OBVIOUS
  <1>5. IsSeq(es) /\ Len(es) = 1 /\ es[1] = f
    BY <1>4, OneIsSeq
  <1>6. Ordered(es)
    BY <1>5 DEF Ordered
  <1>7. ASSUME NEW k \in 1 .. Len(es) PROVE GoodEntry(es[k])' /\ es[k].at > index
    <2>1. k = 1  BY <1>5
    <2> QED  BY <1>1, <1>2, <1>3, <1>5, <2>1 DEF GoodEntry
  <1>8. got' = got \o es
    BY <1>3, <1>4 DEF e
  <1> QED  BY <1>1, <1>5, <1>6, <1>7, <1>8, ReadsFields

\* All elements that are left, taken raw.
LEMMA RestKeeps ==
  ASSUME IInv, change' = change, index' = Len(change.spans), got' = got \o AllLeft
  PROVE  IInv'
  <1>1. /\ index \in Nat /\ Len(change.spans) \in Nat
        /\ Remaining \in Nat /\ index + Remaining = Len(change.spans)
        /\ index' \in index .. Len(change.spans)
    <2>1. Len(change.spans) \in Nat  BY ParserAssumption DEF IInv
    <2> QED  BY <2>1 DEF IInv, Remaining
  <1>2. PICK es : es = AllLeft
    OBVIOUS
  <1>3. IsSeq(es) /\ Len(es) = Remaining
    <2> DEFINE S == {es[k] : k \in 1 .. Remaining}
    <2>1. es \in [1 .. Remaining -> S]
      BY <1>2 DEF AllLeft
    <2> HIDE DEF S
    <2>2. es \in Seq(S) /\ Len(es) = Remaining
      BY <1>1, <2>1, SeqDef
    <2> QED  BY <2>2 DEF IsSeq, S
  <1>4. ASSUME NEW k \in 1 .. Len(es)
        PROVE  es[k].at = index + k /\ es[k].inside = TRUE
    BY <1>2, <1>3, <1>4 DEF AllLeft, Entry
  <1>5. ASSUME NEW k \in 1 .. Len(es) PROVE GoodEntry(es[k])' /\ es[k].at > index
    <2>1. k \in 1 .. Remaining /\ es[k].at = index + k /\ es[k].inside = TRUE
      BY <1>3, <1>4
    <2>2. index + k \in 1 .. Len(change.spans) /\ index + k > index
      BY <1>1, <2>1
    <2> QED  BY <2>1, <2>2 DEF GoodEntry
  <1>6. Ordered(es)
    <2>1. ASSUME NEW j \in 1 .. Len(es), NEW k \in 1 .. Len(es), j < k
          PROVE  es[j].at < es[k].at
      <3>1. j \in Int /\ k \in Int
        BY <1>1, <1>3
      <3>2. es[j].at = index + j
        BY <1>4
      <3>3. es[k].at = index + k
        BY <1>4
      <3> QED  BY <1>1, <2>1, <3>1, <3>2, <3>3
    <2> QED  BY <2>1 DEF Ordered
  <1> QED  BY <1>1, <1>2, <1>3, <1>5, <1>6, ReadsFields

-----------------------------------------------------------------------------
(* The invariant                                                            *)

LEMMA InitKeeps == Init => IInv
  <1> SUFFICES ASSUME Init PROVE IInv
    OBVIOUS
  <1>1. Len(change.spans) \in Nat
    BY ParserAssumption DEF Init
  <1>2. IsSeq(<< >>)
    BY DEF IsSeq
  <1> QED  BY <1>1, <1>2 DEF Init, IInv, Ordered

LEMMA NextKeeps == IInv /\ [Next]_vars => IInv'
  <1> SUFFICES ASSUME IInv, [Next]_vars PROVE IInv'
    OBVIOUS
  <1>0. /\ index \in Nat /\ Len(change.spans) \in Nat /\ Remaining \in Nat
        /\ index <= Len(change.spans)
        /\ index \in index .. Len(change.spans)
        /\ Remaining > 0 => index + 1 \in index .. Len(change.spans)
    <2>1. Len(change.spans) \in Nat  BY ParserAssumption DEF IInv
    <2> QED  BY <2>1 DEF IInv, Remaining
  <1>1. CASE OneOf
    <2>1. change' = change /\ index' = index + 1 /\ Remaining > 0 /\ Decode(Peek)
      BY <1>1 DEF OneOf
    <2>2. CASE got' = got
      BY <1>0, <2>1, <2>2, ReadsNothing
    <2>3. CASE got' # got
      <3>1. PICK v \in Shown(Step.as, Peek) :
              got' = got \o <<Entry(index + 1, v, Inside(Tests(Step.as, v, IsLittle), Peek.size))>>
        BY <2>1, <2>3 DEF Decode, Got
      <3> QED  BY <2>1, <3>1, DecodeKeeps
    <2> QED  BY <2>2, <2>3
  <1>2. CASE AtLeastOf
    <2>1. change' = change /\ Remaining > 0
      BY <1>2 DEF AtLeastOf
    <2>2. CASE got' = got
      BY <1>0, <1>2, <2>1, <2>2, ReadsNothing DEF AtLeastOf
    <2>3. CASE got' # got
      <3>1. index' = index + 1 /\ Decode(Peek)
        BY <1>2, <2>3 DEF AtLeastOf
      <3>2. PICK v \in Shown(Step.as, Peek) :
              got' = got \o <<Entry(index + 1, v, Inside(Tests(Step.as, v, IsLittle), Peek.size))>>
        BY <2>3, <3>1 DEF Decode, Got
      <3> QED  BY <2>1, <3>1, <3>2, DecodeKeeps
    <2> QED  BY <2>2, <2>3
  <1>3. CASE OneArray
    <2>1. change' = change /\ Remaining > 0
      BY <1>3 DEF OneArray
    <2>2. CASE Peek.size >= 2 * Step.n
      <3>1. index' = index + 1
        BY <1>3, <2>2 DEF OneArray
      <3>2. PICK v : got' = got \o <<Entry(index + 1, v, TRUE)>>
        BY <1>3, <2>2 DEF OneArray, Got
      <3> QED  BY <2>1, <3>1, <3>2, RawKeeps
    <2>3. CASE ~ (Peek.size >= 2 * Step.n)
      BY <1>0, <1>3, <2>1, <2>3, ReadsNothing DEF OneArray
    <2> QED  BY <2>2, <2>3
  <1>4. CASE OneRawsBy
    <2>1. change' = change /\ Remaining > 0 /\ index' = index + 1
      BY <1>4 DEF OneRawsBy
    <2>2. got' = got \/ got' = got \o <<Entry(index + 1, Step.sizes, TRUE)>>
      BY <1>4 DEF OneRawsBy, Got
    <2> QED  BY <1>0, <2>1, <2>2, ReadsNothing, RawKeeps
  <1>5. CASE NRaws
    <2>1. change' = change  BY <1>5 DEF NRaws
    <2>2. CASE Step.n > Remaining
      BY <1>0, <1>5, <2>1, <2>2, ReadsNothing DEF NRaws
    <2>3. CASE ~ (Step.n > Remaining)
      BY <1>5, <2>1, <2>3, RestKeeps DEF NRaws, Got
    <2> QED  BY <2>2, <2>3
  <1>6. CASE RestRaws
    BY <1>6, RestKeeps DEF RestRaws, Got
  <1>7. CASE RestOfKind
    <2>1. change' = change  BY <1>7 DEF RestOfKind
    <2>2. CASE Remaining = 0
      BY <1>0, <1>7, <2>1, <2>2, ReadsNothing DEF RestOfKind
    <2>3. CASE Remaining > 0
      <3>1. index' = index + 1
        BY <1>7, <2>3 DEF RestOfKind
      <3>2. CASE got' = got
        BY <1>0, <2>1, <2>3, <3>1, <3>2, ReadsNothing
      <3>3. CASE got' # got
        <4>1. PICK v \in Shown(Step.as, Peek) :
                got' = Append(got, Entry(index + 1, v, Inside(Tests(Step.as, v, IsLittle), Peek.size)))
          BY <1>7, <2>3, <3>3 DEF RestOfKind
        <4>2. ASSUME NEW s, NEW S, s \in Seq(S), NEW e PROVE Append(s, e) = s \o <<e>>
          <5>1. s \in Seq(S \cup {e})  BY <4>2
          <5> QED  BY <5>1, AppendIsConcat
        <4>3. got' = got \o <<Entry(index + 1, v, Inside(Tests(Step.as, v, IsLittle), Peek.size))>>
          BY <4>1, <4>2 DEF IInv, IsSeq
        <4> QED  BY <2>1, <2>3, <3>1, <4>3, DecodeKeeps
      <3> QED  BY <3>2, <3>3
    <2> QED  BY <1>0, <2>2, <2>3
  <1>8. CASE SkipEmptySpan
    BY <1>0, <1>8, ReadsNothing DEF SkipEmptySpan
  <1>9. CASE OutOfBounds \/ Enter \/ Reject \/ Stray \/ Return \/ Parsed \/ UNCHANGED vars
    <2>1. change' = change /\ index' = index /\ got' = got
      BY <1>9 DEF OutOfBounds, Enter, Reject, Stray, Return, Parsed, vars
    <2> QED  BY <1>0, <2>1, ReadsNothing
  <1> QED  BY <1>1, <1>2, <1>3, <1>4, <1>5, <1>6, <1>7, <1>8, <1>9 DEF Next

LEMMA Invariant == Spec => []IInv
BY InitKeeps, NextKeeps, PTL DEF Spec

\* For every change, every value an element may show and every failure: no element
\* is read twice, none out of order, none ahead of the cursor (SpanCursor).
THEOREM ReadInOrderHolds == Spec => []ReadInOrder
  <1>1. IInv => ReadInOrder
    <2> SUFFICES ASSUME IInv PROVE ReadInOrder
      OBVIOUS
    <2>1. DOMAIN got = 1 .. Len(got)  BY DEF IInv, IsSeq
    <2> QED  BY <2>1 DEF IInv, GoodEntry, Ordered, ReadInOrder
  <1> QED  BY <1>1, Invariant, PTL

\* For every change and every value: no byte outside an element is read, but for
\* the exceptions Overreads names.
THEOREM FieldsInsideHolds == Spec => []FieldsInside
  <1>1. IInv => FieldsInside
    <2> SUFFICES ASSUME IInv PROVE FieldsInside
      OBVIOUS
    <2>1. DOMAIN got = 1 .. Len(got)  BY DEF IInv, IsSeq
    <2> QED  BY <2>1 DEF IInv, GoodEntry, FieldsInside
  <1> QED  BY <1>1, Invariant, PTL

-----------------------------------------------------------------------------
(* Sequences of steps and of frames                                         *)

LEMMA EmptyIsSeq == IsSeq(<< >>) /\ Len(<< >>) = 0
  BY DEF IsSeq

LEMMA FunIsSeq ==
  ASSUME NEW n \in Nat, NEW d, d = [k \in 1 .. n |-> d[k]]
  PROVE  IsSeq(d) /\ Len(d) = n
  <1> DEFINE R == {d[k] : k \in 1 .. n}
  <1>1. d \in [1 .. n -> R]
    <2>1. DOMAIN d = 1 .. n
      OBVIOUS
    <2>2. \A k \in 1 .. n : d[k] \in R
      OBVIOUS
    <2> HIDE DEF R
    <2> QED
      BY <2>1, <2>2, Zenon
  <1> HIDE DEF R
  <1>2. d \in Seq(R)
    BY <1>1, SeqDef
  <1>3. Len(d) = n
    BY <1>1, <1>2
  <1> QED
    BY <1>2, <1>3 DEF IsSeq, R

\* The first step, and those behind it.
LEMMA SplitSeq ==
  ASSUME NEW s, IsSeq(s)
  PROVE  /\ Len(s) \in Nat /\ DOMAIN s = 1 .. Len(s)
         /\ s # << >> =>
              /\ Len(s) \in Nat \ {0} /\ Head(s) = s[1]
              /\ IsSeq(Tail(s)) /\ Len(Tail(s)) = Len(s) - 1
              /\ \A k \in 1 .. Len(s) - 1 : Tail(s)[k] = s[k + 1]
  <1> DEFINE S == {s[k] : k \in 1 .. Len(s)}
             t == Tail(s)
  <1>1. s \in Seq(S)
    BY DEF IsSeq
  <1> HIDE DEF S
  <1>2. Len(s) \in Nat /\ DOMAIN s = 1 .. Len(s)
    BY <1>1
  <1>3. CASE s # << >>
    <2>1. Len(s) # 0
      BY <1>1, <1>3, EmptySeq, Zenon
    <2>2. /\ t \in Seq(S) /\ Len(t) = Len(s) - 1
          /\ \A k \in 1 .. Len(s) - 1 : t[k] = s[k + 1]
      BY <1>1, <1>3, HeadTailProperties, Zenon
    <2> HIDE DEF t
    <2>3. Len(t) \in Nat /\ t = [k \in 1 .. Len(t) |-> t[k]]
      BY <2>2
    <2>4. IsSeq(t)
      BY <2>3, FunIsSeq
    <2>5. Head(s) = s[1]
      OBVIOUS
    <2> QED
      BY <1>2, <2>1, <2>2, <2>4, <2>5 DEF t
  <1> QED
    BY <1>2, <1>3

LEMMA Cons ==
  ASSUME NEW x, NEW t, IsSeq(t)
  PROVE  LET s == <<x>> \o t IN
           /\ IsSeq(s) /\ s # << >> /\ Len(s) = Len(t) + 1
           /\ Head(s) = x /\ Tail(s) = t
           /\ \A k \in 1 .. Len(s) : s[k] = IF k = 1 THEN x ELSE t[k - 1]
  <1> DEFINE s == <<x>> \o t
  <1>1. /\ IsSeq(s) /\ Len(t) \in Nat /\ Len(s) = 1 + Len(t)
        /\ \A k \in 1 .. Len(s) : s[k] = IF k <= 1 THEN <<x>>[k] ELSE t[k - 1]
    BY OneIsSeq, ConcatIsSeq
  <1> HIDE DEF s
  <1>2. s # << >>
    BY <1>1
  <1>3. \A k \in 1 .. Len(s) : s[k] = IF k = 1 THEN x ELSE t[k - 1]
    <2>1. <<x>>[1] = x
      OBVIOUS
    <2> QED
      BY <1>1, <2>1
  <1>4. Head(s) = x
    BY <1>1, <1>2, <1>3, SplitSeq
  <1>5. Tail(s) = t
    <2>1. /\ IsSeq(Tail(s)) /\ Len(Tail(s)) = Len(t)
          /\ \A k \in 1 .. Len(t) : Tail(s)[k] = t[k]
      <3>1. /\ IsSeq(Tail(s)) /\ Len(Tail(s)) = Len(s) - 1
            /\ \A k \in 1 .. Len(s) - 1 : Tail(s)[k] = s[k + 1]
        BY <1>1, <1>2, SplitSeq
      <3> QED
        BY <1>1, <1>3, <3>1
    <2>2. DOMAIN Tail(s) = 1 .. Len(t) /\ DOMAIN t = 1 .. Len(t)
      BY <2>1, SplitSeq
    <2>3. Tail(s) = [k \in 1 .. Len(t) |-> Tail(s)[k]] /\ t = [k \in 1 .. Len(t) |-> t[k]]
      <3>1. ASSUME NEW u, IsSeq(u) PROVE u = [k \in DOMAIN u |-> u[k]]
        BY <3>1 DEF IsSeq
      <3> QED
        BY <2>1, <2>2, <3>1
    <2> QED
      BY <2>1, <2>3
  <1> QED
    BY <1>1, <1>2, <1>3, <1>4, <1>5 DEF s

LEMMA Single ==
  ASSUME NEW x
  PROVE  /\ IsSeq(<<x>>) /\ <<x>> # << >> /\ Len(<<x>>) = 1 /\ <<x>>[1] = x
         /\ Head(<<x>>) = x /\ Tail(<<x>>) = << >>
  BY OneIsSeq

-----------------------------------------------------------------------------
\* A step that takes an element says what to do when it cannot.
WellFormed(x) ==
  /\ x.take \in Takes
  /\ x.take \notin {"skip", "err", "undefined", "call"} => x.fail \in Fails

Formed(s) == IsSeq(s) /\ \A j \in 1 .. Len(s) : WellFormed(s[j])

\* A parser on the stack: its steps, and whether its caller goes on without it.
IsFrame(f) ==
  /\ f = [steps |-> f.steps, catch |-> f.catch]
  /\ f.catch \in BOOLEAN
  /\ Formed(f.steps)

Frames(s) == IsSeq(s) /\ \A k \in 1 .. Len(s) : IsFrame(s[k])

LEMMA FormedOne == ASSUME NEW x, WellFormed(x) PROVE Formed(<<x>>)
  BY Single DEF Formed

LEMMA FormedConcat ==
  ASSUME NEW s, NEW t, Formed(s), Formed(t) PROVE Formed(s \o t)
  <1>1. /\ IsSeq(s \o t) /\ Len(s) \in Nat /\ Len(t) \in Nat
        /\ Len(s \o t) = Len(s) + Len(t)
        /\ \A k \in 1 .. Len(s \o t) :
             (s \o t)[k] = IF k <= Len(s) THEN s[k] ELSE t[k - Len(s)]
    BY ConcatIsSeq DEF Formed
  <1>2. ASSUME NEW k \in 1 .. Len(s \o t) PROVE WellFormed((s \o t)[k])
    <2>1. CASE k <= Len(s)
      BY <1>1, <2>1 DEF Formed
    <2>2. CASE k > Len(s)
      <3>1. k - Len(s) \in 1 .. Len(t) /\ (s \o t)[k] = t[k - Len(s)]
        BY <1>1, <2>2
      <3> QED
        BY <3>1 DEF Formed
    <2> QED
      BY <1>1, <2>1, <2>2
  <1> QED
    BY <1>1, <1>2 DEF Formed

LEMMA FormedTail ==
  ASSUME NEW s, Formed(s), s # << >> PROVE Formed(Tail(s)) /\ WellFormed(Head(s))
  <1>1. /\ Len(s) \in Nat \ {0} /\ IsSeq(Tail(s)) /\ Len(Tail(s)) = Len(s) - 1
        /\ \A k \in 1 .. Len(s) - 1 : Tail(s)[k] = s[k + 1]
        /\ Head(s) = s[1]
    BY SplitSeq DEF Formed
  <1>2. \A k \in 1 .. Len(s) - 1 : k + 1 \in 1 .. Len(s)
    BY <1>1
  <1>3. 1 \in 1 .. Len(s)
    BY <1>1
  <1> QED
    BY <1>1, <1>2, <1>3 DEF Formed

\* Other steps for the innermost parser.
WithTop(s, x) == [s EXCEPT ![Len(s)].steps = x]

LEMMA TopSet ==
  ASSUME NEW s, Frames(s), s # << >>, NEW x, Formed(x),
         NEW d, d = WithTop(s, x)
  PROVE  /\ Frames(d) /\ d # << >> /\ Len(d) = Len(s) /\ Len(s) \in Nat \ {0}
         /\ \A k \in 1 .. Len(s) - 1 : d[k] = s[k]
         /\ d[Len(s)].steps = x /\ d[Len(s)].catch = s[Len(s)].catch
         /\ \A k \in 1 .. Len(s) : d[k].catch = s[k].catch
  <1> DEFINE n == Len(s)
  <1>1. n \in Nat \ {0} /\ DOMAIN s = 1 .. n
    BY SplitSeq DEF Frames
  <1>2. s = [k \in 1 .. n |-> s[k]]
    BY <1>1 DEF Frames, IsSeq
  <1>3. s[n] = [steps |-> s[n].steps, catch |-> s[n].catch] /\ s[n].catch \in BOOLEAN
    BY <1>1 DEF Frames, IsFrame
  <1>4. d = [k \in 1 .. n |-> IF k = n THEN [s[n] EXCEPT !.steps = x] ELSE s[k]]
    BY <1>1, <1>2 DEF WithTop
  <1>5. [s[n] EXCEPT !.steps = x] = [steps |-> x, catch |-> s[n].catch]
    BY <1>3
  <1> HIDE DEF n
  <1>6. d = [k \in 1 .. n |-> IF k = n THEN [steps |-> x, catch |-> s[n].catch] ELSE s[k]]
    BY <1>4, <1>5
  <1>8. Len(d) = n /\ IsSeq(d)
    <2>1. d = [k \in 1 .. n |-> d[k]]
      BY <1>6
    <2> QED
      BY <1>1, <2>1, FunIsSeq
  <1>9. /\ \A k \in 1 .. n - 1 : d[k] = s[k]
        /\ d[n] = [steps |-> x, catch |-> s[n].catch]
    BY <1>1, <1>6
  <1>10. IsFrame(d[n])
    BY <1>3, <1>9 DEF IsFrame
  <1>11. ASSUME NEW k \in 1 .. n PROVE IsFrame(d[k]) /\ d[k].catch = s[k].catch
    <2>1. CASE k = n
      BY <1>9, <1>10, <2>1
    <2>2. CASE k # n
      <3>1. k \in 1 .. n - 1
        BY <1>1, <2>2
      <3> QED
        BY <1>9, <3>1 DEF Frames, n
    <2> QED
      BY <2>1, <2>2
  <1>12. d # << >>
    BY <1>1, <1>8
  <1>13. d[n].steps = x /\ d[n].catch = s[n].catch
    BY <1>9
  <1>14. Frames(d)
    BY <1>8, <1>11 DEF Frames
  <1> QED
    BY <1>1, <1>8, <1>9, <1>11, <1>12, <1>13, <1>14 DEF n

\* The outermost parsers only.
LEMMA CutTo ==
  ASSUME NEW s, Frames(s), NEW m \in 0 .. Len(s), NEW d, d = SubSeq(s, 1, m)
  PROVE  Frames(d) /\ Len(d) = m /\ \A k \in 1 .. m : d[k] = s[k]
  <1>1. s \in Seq({s[k] : k \in 1 .. Len(s)}) /\ Len(s) \in Nat /\ m \in Nat
    BY SplitSeq DEF Frames, IsSeq
  <1>2. Len(d) = m /\ \A k \in 1 .. m : d[k] = s[k]
    BY <1>1
  <1>3. IsSeq(d)
    <2>1. d = [k \in 1 .. m |-> d[k]]
      BY <1>1
    <2> QED
      BY <1>1, <2>1, FunIsSeq
  <1>4. \A k \in 1 .. m : k \in 1 .. Len(s)
    BY <1>1
  <1> QED
    BY <1>2, <1>3, <1>4 DEF Frames

\* One more parser.
LEMMA PutOn ==
  ASSUME NEW s, Frames(s), NEW x, Formed(x), NEW c, c \in BOOLEAN,
         NEW d, d = Append(s, [steps |-> x, catch |-> c])
  PROVE  /\ Frames(d) /\ d # << >> /\ Len(d) = Len(s) + 1 /\ Len(s) \in Nat
         /\ \A k \in 1 .. Len(s) : d[k] = s[k]
         /\ d[Len(s) + 1].steps = x /\ d[Len(s) + 1].catch = c
  <1> DEFINE f == [steps |-> x, catch |-> c]
             R == {s[k] : k \in 1 .. Len(s)}
  <1>1. s \in Seq(R) /\ Len(s) \in Nat
    BY SplitSeq DEF Frames, IsSeq
  <1>2. f.steps = x /\ f.catch = c /\ IsFrame(f)
    BY DEF IsFrame
  <1> HIDE DEF f, R
  <1>3. d = Append(s, f)
    BY DEF f
  <1>4. s \in Seq(R \cup {f})
    BY <1>1
  <1>5. /\ Len(d) = Len(s) + 1 /\ d[Len(s) + 1] = f
        /\ \A k \in 1 .. Len(s) : d[k] = s[k]
        /\ d \in Seq(R \cup {f})
    BY <1>3, <1>4
  <1>6. IsSeq(d)
    <2>1. d = [k \in 1 .. Len(d) |-> d[k]] /\ Len(d) \in Nat
      BY <1>5
    <2> QED
      BY <2>1, FunIsSeq
  <1>7. ASSUME NEW k \in 1 .. Len(d) PROVE IsFrame(d[k])
    <2>1. k \in 1 .. Len(s) \/ k = Len(s) + 1
      BY <1>1, <1>5
    <2> QED
      BY <1>2, <1>5, <2>1 DEF Frames
  <1>8. d # << >>
    BY <1>1, <1>5
  <1> QED
    BY <1>1, <1>2, <1>5, <1>6, <1>7, <1>8 DEF Frames

-----------------------------------------------------------------------------
(* Phases                                                                  *)

\* The kinds of steps.
Final(x) == x.take \in {"err", "undefined"}
Calls(x, fns) == x.take = "call" /\ x.fn \in fns
Reads(x) == x.take \notin {"skip", "err", "undefined", "call"}
ReadsOf(x, names) == Reads(x) /\ x.name \in names

\* The order in which a change is parsed. A field is read in the phase of its name;
\* the call of a parser lasts from one phase to another. The transaction is in phase
\* 1; the change undone begins in 2; the head of a row is read in 6, after its block
\* (3 to 5); column numbers and sizes in 8, columns in 10, what follows the row in 11;
\* the check of layer 11 is in 12; all else comes last.
PhaseOf(name) ==
  CASE name \in {"udb", "ubu"} -> 1
    [] name = "ktb" -> 5
    [] name = "kdo" -> 6
    [] name \in {"ids", "sizes"} -> 8
    [] name \in {"rows", "columns", "packed"} -> 10
    [] name \in {"dscn", "p0", "p1", "usp", "uspIds", "uspSizes", "uspColumns"} -> 11
    [] OTHER -> 13

CallStarts(fn) ==
  CASE fn = "Change" -> 0
    [] fn = "Before" -> 2
    [] fn = "Kdop" -> 3
    [] fn = "DoH" -> 4
    [] fn = "Row" -> 7
    [] fn \in {"UrpColumns", "QmiRows"} -> 9
    [] fn \in {"Usp", "UspColumns"} -> 11
    [] fn = "From" -> 12
    [] OTHER -> 13
CallEnds(fn) ==
  CASE fn \in {"Change", "Before"} -> 13
    [] fn \in {"Kdop", "Row", "UrpColumns"} -> 11
    [] fn = "DoH" -> 6
    [] fn = "QmiRows" -> 10
    [] OTHER -> CallStarts(fn)

Starts(x) ==
  CASE x.take = "call" -> CallStarts(x.fn)
    [] x.take = "skip" -> 5
    [] OTHER -> PhaseOf(x.name)
Ends(x) == IF x.take = "call" THEN CallEnds(x.fn) ELSE Starts(x)

\* Phase q may come after phase p: a phase repeats only where it may be read again.
Follows(p, q) == p < q \/ (p = q /\ p \in {1, 5, 11, 13})
InOrder(x, y) == Final(x) \/ Follows(Ends(x), Starts(y))

\* The head of the row has been read, and the row is of one of these types.
KdoIs(types) == HasRead("kdo") /\ Field("kdo").type \in types

Fns == {"Change", "DoH", "Row", "UrpColumns", "QmiRows", "Kdop", "From", "Usp",
        "UspColumns", "Before", "Ucf", "KeySizes", "RowSlots", "Marker"}

\* The parsers above those of a row: that of the change and, for undo, that of the
\* operation undone.
Outer == IF change.opc[1] = 5 THEN 3 ELSE 2

\* What is known of a call that waits in parser k of the stack.
CallFits(k, x) ==
  /\ x.fn \in Fns
  /\ x.catch \in BOOLEAN
  /\ x.catch => x.fn = "Usp" /\ KdoIs({"Cfa", "Lmn"})
  /\ x.fn = "Change" => k = 1
  /\ x.fn = "From" => k = 2 /\ change.opc[1] = 11
  /\ x.fn = "Before" => k = 2 /\ change.opc[1] = 5
  /\ x.fn = "Kdop" => k >= Outer
  /\ x.fn \in {"DoH", "Row"} => k > Outer
  /\ x.fn \in {"KeySizes", "RowSlots"} => change.opc = <<10, 2>>
  /\ x.fn = "Row" /\ HasRead("kdo") => index = At("kdo").at
  /\ x.fn = "UrpColumns" => KdoIs({"Urp"})
  /\ x.fn = "QmiRows" => KdoIs({"Qmi"})

\* The pieces of the columns, and how they are taken.
ColumnsFit(x) ==
  /\ x.fail = "error" /\ KdoIs({"Irp", "Orp", "Urp"})
  /\ Field("kdo").type = "Urp" => HasRead("ids")
  /\ IF Field("kdo").type = "Urp" /\ Field("kdo").kdom2
       THEN x.take = "split" /\ x.sizes = Field("ids")
       ELSE /\ x.take = "raws"
            /\ x.n = IF Field("kdo").type = "Urp" THEN Field("kdo").nnew ELSE Field("kdo").n

\* What is known of a read that waits, by the name of the field.
ReadFits(x) ==
  /\ x.fail = "return" => PhaseOf(x.name) = 13
  /\ x.take = "restof" => PhaseOf(x.name) = 13
  /\ x.fail = "unchecked" => x.name = "rows"
  /\ x.take = "split" => x.name \in {"rows", "columns"}
  /\ x.name = "kdo" => x.take = "one" /\ x.as = "KdoVector" /\ x.fail = "error"
  /\ x.name = "keySizes" => x.take = "array" /\ x.fail = "return" /\ change.opc = <<10, 2>>
  /\ x.name = "sizes" => x.take = "array" /\ x.fail = "error"
  /\ x.name = "ids" => x.take = "array" /\ x.fail = "error" /\ x.n \in Nat
  /\ x.name = "packed" => x.take = "one" /\ x.fail = "error" /\ KdoIs({"Irp", "Orp"})
  /\ x.name = "rows" =>
       x.take = "split" /\ x.fail = "unchecked" /\ KdoIs({"Qmi"}) /\ HasRead("sizes")
  /\ x.name = "columns" => ColumnsFit(x)

\* A step that waits, and is no failure.
Fits(k, x) ==
  /\ WellFormed(x) /\ ~Final(x)
  /\ x.take = "call" => CallFits(k, x)
  /\ Reads(x) => ReadFits(x) /\ (x.name = "kdo" => k > Outer)

\* Two of the places UndefinedOnly names: those a parser reaches by a step that is
\* undefined whatever it meets.
Strays ==
  \/ change.opc = <<19, 1>> /\ change.spans[1].size < 19
  \/ change.opc = <<10, 2>> /\ HasRead("keySizes") /\ 2 * KeyCount > SizeOf("slots")

\* What is called behind a field is called in the parser that reads it, later.
Prepared(s, name, fn) ==
  \A j \in 1 .. Len(s) :
    Calls(s[j], {fn}) =>
      HasRead(name) \/ \E i \in 1 .. Len(s) : i < j /\ ReadsOf(s[i], {name})
AllPrepared(s) ==
  Prepared(s, "keySizes", "RowSlots") /\ Prepared(s, "ids", "UrpColumns")
    /\ Prepared(s, "sizes", "QmiRows")

\* The steps of one parser are in the order of their phases.
SortedIn(s) == \A i, j \in 1 .. Len(s) : i < j => InOrder(s[i], s[j])

\* Steps for a parser at depth k, in the phases from lo to hi.
Piece(s, lo, hi, k) ==
  /\ Formed(s) /\ SortedIn(s) /\ AllPrepared(s) /\ lo <= hi
  /\ \A j \in 1 .. Len(s) : Fits(k, s[j]) /\ lo <= Starts(s[j]) /\ Ends(s[j]) <= hi
Late(s, k) == Piece(s, 13, 13, k)

-----------------------------------------------------------------------------
LEMMA Phases ==
  /\ \A name : PhaseOf(name) \in 0 .. 13
  /\ \A fn : CallStarts(fn) \in 0 .. 13 /\ CallEnds(fn) \in 0 .. 13 /\ CallStarts(fn) <= CallEnds(fn)
  /\ \A x : Starts(x) \in 0 .. 13 /\ Ends(x) \in 0 .. 13 /\ Starts(x) <= Ends(x)
  <1>1. ASSUME NEW name PROVE PhaseOf(name) \in 0 .. 13
    BY DEF PhaseOf
  <1>2. ASSUME NEW fn PROVE CallStarts(fn) \in 0 .. 13
    BY DEF CallStarts
  <1>3. ASSUME NEW fn PROVE CallEnds(fn) \in 0 .. 13 /\ CallStarts(fn) <= CallEnds(fn)
    <2>1. CASE fn \in {"Change", "Before", "Kdop", "Row", "UrpColumns", "DoH", "QmiRows"}
      BY <2>1 DEF CallStarts, CallEnds
    <2>2. CASE fn \notin {"Change", "Before", "Kdop", "Row", "UrpColumns", "DoH", "QmiRows"}
      <3>1. CallEnds(fn) = CallStarts(fn)
        BY <2>2 DEF CallEnds
      <3> QED
        BY <1>2, <3>1
    <2> QED
      BY <2>1, <2>2
  <1>4. ASSUME NEW x PROVE Starts(x) \in 0 .. 13
    BY <1>1, <1>2 DEF Starts
  <1>5. ASSUME NEW x PROVE Ends(x) \in 0 .. 13 /\ Starts(x) <= Ends(x)
    <2>1. CASE x.take = "call"
      <3>1. Ends(x) = CallEnds(x.fn) /\ Starts(x) = CallStarts(x.fn)
        BY <2>1 DEF Starts, Ends
      <3> QED
        BY <1>3, <3>1
    <2>2. CASE x.take # "call"
      <3>1. Ends(x) = Starts(x)
        BY <2>2 DEF Ends
      <3> QED
        BY <1>4, <3>1
    <2> QED
      BY <2>1, <2>2
  <1> QED
    BY <1>1, <1>2, <1>3, <1>4, <1>5

\* What follows the end of a band of phases follows all of it.
LEMMA FollowsBand ==
  /\ \A p, q, r \in 0 .. 13 : Follows(p, q) /\ q <= r => Follows(p, r)
  /\ \A p, q, r \in 0 .. 13 : p <= q /\ Follows(q, r) => Follows(p, r)
  /\ \A p, q \in 0 .. 13 : Follows(p, q) => p <= q
  BY DEF Follows

LEMMA PieceEmpty ==
  ASSUME NEW k, NEW lo \in 0 .. 13, NEW hi \in 0 .. 13, lo <= hi
  PROVE  Piece(<< >>, lo, hi, k)
  BY EmptyIsSeq DEF Piece, Formed, SortedIn, AllPrepared, Prepared

LEMMA PieceOne ==
  ASSUME NEW k, NEW x, Fits(k, x), NEW lo \in 0 .. 13, NEW hi \in 0 .. 13,
         lo <= Starts(x), Ends(x) <= hi,
         ~Calls(x, {"RowSlots", "UrpColumns", "QmiRows"})
  PROVE  Piece(<<x>>, lo, hi, k)
  <1> DEFINE s == <<x>>
  <1>1. IsSeq(s) /\ Len(s) = 1 /\ s[1] = x /\ 1 .. Len(s) = {1}
    BY Single
  <1> HIDE DEF s
  <1>2. lo <= hi
    BY Phases
  <1>3. Formed(s)
    BY <1>1 DEF Formed, Fits
  <1>4. SortedIn(s)
    BY <1>1 DEF SortedIn
  <1>5. AllPrepared(s)
    BY <1>1 DEF AllPrepared, Prepared, Calls
  <1> QED
    BY <1>1, <1>2, <1>3, <1>4, <1>5 DEF Piece, s

LEMMA PieceConcat ==
  ASSUME NEW k, NEW s, NEW t,
         NEW a \in 0 .. 13, NEW b \in 0 .. 13, NEW c \in 0 .. 13, NEW d \in 0 .. 13,
         Piece(s, a, b, k), Piece(t, c, d, k), Follows(b, c)
  PROVE  Piece(s \o t, a, d, k)
  <1> DEFINE st == s \o t
  <1>1. /\ Formed(st) /\ Len(s) \in Nat /\ Len(t) \in Nat
        /\ Len(st) = Len(s) + Len(t)
        /\ \A j \in 1 .. Len(st) : st[j] = IF j <= Len(s) THEN s[j] ELSE t[j - Len(s)]
    BY FormedConcat, ConcatIsSeq DEF Piece, Formed
  <1> HIDE DEF st
  <1>2. a <= c /\ b <= c /\ b <= d /\ a <= d
    BY FollowsBand DEF Piece
  <1>3. ASSUME NEW j \in 1 .. Len(st)
        PROVE  \/ j \in 1 .. Len(s) /\ st[j] = s[j]
               \/ j - Len(s) \in 1 .. Len(t) /\ j > Len(s) /\ st[j] = t[j - Len(s)]
    BY <1>1
  <1>4. ASSUME NEW j \in 1 .. Len(st)
        PROVE  Fits(k, st[j]) /\ a <= Starts(st[j]) /\ Ends(st[j]) <= d
    <2>1. Starts(st[j]) \in 0 .. 13 /\ Ends(st[j]) \in 0 .. 13
      BY Phases
    <2>2. CASE j \in 1 .. Len(s) /\ st[j] = s[j]
      <3>1. Fits(k, s[j]) /\ a <= Starts(s[j]) /\ Ends(s[j]) <= b
        BY <2>2 DEF Piece
      <3>2. Fits(k, st[j]) /\ a <= Starts(st[j]) /\ Ends(st[j]) <= b
        BY <2>2, <3>1, Zenon
      <3> QED
        BY <1>2, <2>1, <3>2
    <2>3. CASE j - Len(s) \in 1 .. Len(t) /\ st[j] = t[j - Len(s)]
      <3>1. Fits(k, t[j - Len(s)]) /\ c <= Starts(t[j - Len(s)]) /\ Ends(t[j - Len(s)]) <= d
        BY <2>3 DEF Piece
      <3>2. Fits(k, st[j]) /\ c <= Starts(st[j]) /\ Ends(st[j]) <= d
        BY <2>3, <3>1, Zenon
      <3> QED
        BY <1>2, <2>1, <3>2
    <2> QED
      BY <1>3, <2>2, <2>3
  <1>5. SortedIn(st)
    <2>1. SUFFICES ASSUME NEW i \in 1 .. Len(st), NEW j \in 1 .. Len(st), i < j
                   PROVE  InOrder(st[i], st[j])
      BY DEF SortedIn
    <2>2. CASE j \in 1 .. Len(s)
      <3>1. i \in 1 .. Len(s)
        BY <1>1, <2>1, <2>2
      <3>2. st[i] = s[i] /\ st[j] = s[j]
        BY <1>1, <2>2, <3>1
      <3> QED
        BY <2>1, <2>2, <3>1, <3>2 DEF Piece, SortedIn
    <2>3. CASE i - Len(s) \in 1 .. Len(t) /\ i > Len(s)
      <3>1. j - Len(s) \in 1 .. Len(t) /\ i - Len(s) < j - Len(s) /\ j > Len(s)
        BY <1>1, <2>1, <2>3
      <3>2. st[i] = t[i - Len(s)] /\ st[j] = t[j - Len(s)]
        BY <1>1, <2>3, <3>1
      <3> QED
        BY <2>3, <3>1, <3>2 DEF Piece, SortedIn
    <2>4. CASE i \in 1 .. Len(s) /\ j - Len(s) \in 1 .. Len(t) /\ j > Len(s)
      <3>1. st[i] = s[i] /\ st[j] = t[j - Len(s)]
        BY <1>1, <2>4
      <3>2. Ends(st[i]) \in 0 .. 13 /\ Starts(st[j]) \in 0 .. 13
        BY Phases
      <3>3. Ends(st[i]) <= b /\ c <= Starts(st[j])
        BY <2>4, <3>1 DEF Piece
      <3>4. Follows(Ends(st[i]), Starts(st[j]))
        BY <3>2, <3>3, FollowsBand
      <3> QED
        BY <3>4 DEF InOrder
    <2> QED
      BY <1>3, <2>2, <2>3, <2>4
  <1>6. ASSUME NEW name, NEW fn, Prepared(s, name, fn), Prepared(t, name, fn)
        PROVE  Prepared(st, name, fn)
    <2>1. SUFFICES ASSUME NEW j \in 1 .. Len(st), Calls(st[j], {fn}), ~HasRead(name)
                   PROVE  \E i \in 1 .. Len(st) : i < j /\ ReadsOf(st[i], {name})
      BY DEF Prepared
    <2>2. CASE j \in 1 .. Len(s) /\ st[j] = s[j]
      <3>1. PICK i \in 1 .. Len(s) : i < j /\ ReadsOf(s[i], {name})
        BY <1>6, <2>1, <2>2 DEF Prepared
      <3>2. i \in 1 .. Len(st) /\ st[i] = s[i]
        BY <1>1
      <3> QED
        BY <3>1, <3>2
    <2>3. CASE j - Len(s) \in 1 .. Len(t) /\ st[j] = t[j - Len(s)]
      <3>1. PICK i \in 1 .. Len(t) : i < j - Len(s) /\ ReadsOf(t[i], {name})
        BY <1>6, <2>1, <2>3 DEF Prepared
      <3>2. i + Len(s) \in 1 .. Len(st) /\ st[i + Len(s)] = t[i] /\ i + Len(s) < j
        <4>1. i + Len(s) \in 1 .. Len(st) /\ ~(i + Len(s) <= Len(s)) /\ (i + Len(s)) - Len(s) = i
          BY <1>1
        <4>2. i + Len(s) < j
          BY <1>1, <3>1
        <4> QED
          BY <1>1, <4>1, <4>2
      <3> QED
        BY <3>1, <3>2
    <2> QED
      BY <1>3, <2>2, <2>3
  <1>7. AllPrepared(st)
    BY <1>6 DEF AllPrepared, Piece
  <1> QED
    BY <1>1, <1>2, <1>4, <1>5, <1>7 DEF Piece, st

LEMMA PieceWiden ==
  ASSUME NEW k, NEW s, NEW a \in 0 .. 13, NEW b \in 0 .. 13, Piece(s, a, b, k),
         NEW lo \in 0 .. 13, NEW hi \in 0 .. 13, lo <= a, b <= hi
  PROVE  Piece(s, lo, hi, k)
  <1>1. lo <= hi
    BY DEF Piece
  <1>2. ASSUME NEW j \in 1 .. Len(s)
        PROVE  Fits(k, s[j]) /\ lo <= Starts(s[j]) /\ Ends(s[j]) <= hi
    <2>1. Starts(s[j]) \in 0 .. 13 /\ Ends(s[j]) \in 0 .. 13
      BY Phases
    <2>2. Fits(k, s[j]) /\ a <= Starts(s[j]) /\ Ends(s[j]) <= b
      BY DEF Piece
    <2>3. lo <= Starts(s[j]) /\ Ends(s[j]) <= hi
      <3>1. \A p, q \in 0 .. 13 : (a <= p => lo <= p) /\ (q <= b => q <= hi)
        OBVIOUS
      <3> QED
        BY <2>1, <2>2, <3>1, Zenon
    <2> QED
      BY <2>2, <2>3
  <1> QED
    BY <1>1, <1>2 DEF Piece

LEMMA LateConcat ==
  ASSUME NEW k, NEW s, NEW t, Late(s, k), Late(t, k) PROVE Late(s \o t, k)
  <1>1. Follows(13, 13) /\ 13 \in 0 .. 13
    BY DEF Follows
  <1>2. Piece(s \o t, 13, 13, k)
    BY <1>1, PieceConcat DEF Late
  <1> QED
    BY <1>2 DEF Late

-----------------------------------------------------------------------------
(* Steps that read and steps that call                                     *)

LEMMA ReadPiece ==
  ASSUME NEW k, NEW x, Reads(x), WellFormed(x), ReadFits(x), x.name = "kdo" => k > Outer,
         NEW p, p = PhaseOf(x.name)
  PROVE  Piece(<<x>>, p, p, k)
  <1>1. ~Final(x) /\ x.take # "call" /\ x.take # "skip"
    BY DEF Reads, Final
  <1>2. Fits(k, x)
    BY <1>1 DEF Fits
  <1>3. Starts(x) = p /\ Ends(x) = p
    BY <1>1 DEF Starts, Ends
  <1>4. p \in 0 .. 13
    BY Phases
  <1>5. ~Calls(x, {"RowSlots", "UrpColumns", "QmiRows"})
    BY <1>1 DEF Calls
  <1> QED
    BY <1>2, <1>3, <1>4, <1>5, PieceOne

LEMMA CallPiece ==
  ASSUME NEW k, NEW x, x.take = "call", CallFits(k, x),
         x.fn \notin {"RowSlots", "UrpColumns", "QmiRows"},
         NEW lo \in 0 .. 13, NEW hi \in 0 .. 13, lo <= CallStarts(x.fn), CallEnds(x.fn) <= hi
  PROVE  Piece(<<x>>, lo, hi, k)
  <1>1. ~Final(x) /\ ~Reads(x) /\ WellFormed(x)
    BY DEF Reads, Final, WellFormed, Takes
  <1>2. Fits(k, x)
    BY <1>1 DEF Fits
  <1>3. Starts(x) = CallStarts(x.fn) /\ Ends(x) = CallEnds(x.fn)
    BY DEF Starts, Ends
  <1>4. ~Calls(x, {"RowSlots", "UrpColumns", "QmiRows"})
    BY DEF Calls
  <1> QED
    BY <1>2, <1>3, <1>4, PieceOne

\* The fields whose reading something else depends on.
Special == {"kdo", "keySizes", "sizes", "ids", "packed", "rows", "columns"}

LEMMA PlainRead ==
  ASSUME NEW k, NEW x, x.take \in {"one", "least", "array", "raws", "rest", "restof"},
         x.name \notin Special, x.fail \in {"error", "goon", "return"},
         NEW p, p = PhaseOf(x.name),
         p = 13 \/ (x.fail # "return" /\ x.take # "restof")
  PROVE  Piece(<<x>>, p, p, k)
  <1>1. Reads(x) /\ WellFormed(x)
    BY DEF Reads, WellFormed, Takes, Fails
  <1>2. ReadFits(x) /\ x.name # "kdo"
    BY DEF ReadFits, Special
  <1> QED
    BY <1>1, <1>2, ReadPiece

\* The fields read before the last phase.
Early ==
  {"udb", "ubu", "ktb", "kdo", "ids", "sizes", "rows", "columns", "packed", "dscn",
   "p0", "p1", "usp", "uspIds", "uspSizes", "uspColumns", "keySizes"}

LEMMA LateRead ==
  ASSUME NEW k, NEW x, x.take \in {"one", "least", "array", "raws", "rest", "restof"},
         x.name \notin Early, x.fail \in {"error", "goon", "return"}
  PROVE  Late(<<x>>, k)
  <1>1. x.name \notin Special /\ PhaseOf(x.name) = 13
    BY DEF Special, Early, PhaseOf
  <1> QED
    BY <1>1, PlainRead DEF Late

LEMMA LateOne ==
  ASSUME NEW k, NEW name, name \notin Early, NEW as, NEW fail \in {"error", "goon", "return"}
  PROVE  Late(One(name, as, fail), k)
  <1> DEFINE x == [take |-> "one", name |-> name, as |-> as, fail |-> fail]
  <1>1. x.take = "one" /\ x.name = name /\ x.fail = fail
    OBVIOUS
  <1> HIDE DEF x
  <1>2. Late(<<x>>, k)
    BY <1>1, LateRead
  <1> QED
    BY <1>2 DEF x, One

LEMMA LateRaw ==
  ASSUME NEW k, NEW name, name \notin Early, NEW fail \in {"error", "goon", "return"}
  PROVE  Late(Raw(name, fail), k)
  BY LateOne DEF Raw

LEMMA LateLeast ==
  ASSUME NEW k, NEW name, name \notin Early, NEW as, NEW n,
         NEW fail \in {"error", "goon", "return"}
  PROVE  Late(AtLeast(name, as, n, fail), k)
  <1> DEFINE x == [take |-> "least", name |-> name, as |-> as, n |-> n, fail |-> fail]
  <1>1. x.take = "least" /\ x.name = name /\ x.fail = fail
    OBVIOUS
  <1> HIDE DEF x
  <1>2. Late(<<x>>, k)
    BY <1>1, LateRead
  <1> QED
    BY <1>2 DEF x, AtLeast

LEMMA LateRest ==
  ASSUME NEW k, NEW name, name \notin Early
  PROVE  Late(Rest(name), k)
  <1> DEFINE x == [take |-> "rest", name |-> name, as |-> "Raw", fail |-> "goon"]
  <1>1. x.take = "rest" /\ x.name = name /\ x.fail = "goon"
    OBVIOUS
  <1> HIDE DEF x
  <1>2. Late(<<x>>, k)
    BY <1>1, LateRead
  <1> QED
    BY <1>2 DEF x, Rest

LEMMA LateRestOf ==
  ASSUME NEW k, NEW name, name \notin Early, NEW as
  PROVE  Late(RestOf(name, as), k)
  <1> DEFINE x == [take |-> "restof", name |-> name, as |-> as, fail |-> "goon"]
  <1>1. x.take = "restof" /\ x.name = name /\ x.fail = "goon"
    OBVIOUS
  <1> HIDE DEF x
  <1>2. Late(<<x>>, k)
    BY <1>1, LateRead
  <1> QED
    BY <1>2 DEF x, RestOf

\* One field or one call in a phase of its own.
LEMMA OnePiece ==
  ASSUME NEW k, NEW name, name \notin Special, NEW as, NEW fail \in {"error", "goon"},
         NEW p, p = PhaseOf(name)
  PROVE  Piece(One(name, as, fail), p, p, k)
  <1> DEFINE x == [take |-> "one", name |-> name, as |-> as, fail |-> fail]
  <1>1. x.take = "one" /\ x.name = name /\ x.fail = fail
    OBVIOUS
  <1> HIDE DEF x
  <1>2. Piece(<<x>>, p, p, k)
    BY <1>1, PlainRead
  <1> QED
    BY <1>2 DEF x, One

LEMMA CallsPiece ==
  ASSUME NEW k, NEW fn \in Fns \ {"RowSlots", "UrpColumns", "QmiRows", "Change", "From",
                                   "Before", "KeySizes"},
         fn = "Kdop" => k >= Outer, fn \in {"DoH", "Row"} => k > Outer,
         fn = "Row" /\ HasRead("kdo") => index = At("kdo").at,
         NEW lo \in 0 .. 13, NEW hi \in 0 .. 13, lo <= CallStarts(fn), CallEnds(fn) <= hi
  PROVE  Piece(Call(fn, FALSE), lo, hi, k)
  <1> DEFINE x == [take |-> "call", fn |-> fn, catch |-> FALSE]
  <1>1. x.take = "call" /\ x.fn = fn /\ x.catch = FALSE
    OBVIOUS
  <1> HIDE DEF x
  <1>2. CallFits(k, x)
    BY <1>1 DEF CallFits, Fns
  <1>3. Piece(<<x>>, lo, hi, k)
    BY <1>1, <1>2, CallPiece DEF Fns
  <1> QED
    BY <1>3 DEF x, Call
-----------------------------------------------------------------------------
LEMMA LateCall ==
  ASSUME NEW k, NEW fn \in {"Ucf", "Marker"} PROVE Late(Call(fn, FALSE), k)
  <1>1. fn \in Fns \ {"RowSlots", "UrpColumns", "QmiRows", "Change", "From",
                     "Before", "KeySizes"}
    BY DEF Fns
  <1>2. 13 <= CallStarts(fn) /\ CallEnds(fn) <= 13
    <2>1. CallStarts(fn) = 13 /\ CallEnds(fn) = 13
      BY DEF CallStarts, CallEnds
    <2> QED
      BY <2>1
  <1>3. 13 \in 0 .. 13
    OBVIOUS
  <1>4. Piece(Call(fn, FALSE), 13, 13, k)
    BY <1>1, <1>2, <1>3, CallsPiece
  <1> QED
    BY <1>4 DEF Late

LEMMA SkipPiece == ASSUME NEW k PROVE Piece(Skip, 5, 5, k)
  <1> DEFINE x == [take |-> "skip"]
  <1>1. x.take = "skip"
    OBVIOUS
  <1> HIDE DEF x
  <1>2. Fits(k, x) /\ Starts(x) = 5 /\ Ends(x) = 5
    BY <1>1 DEF Fits, WellFormed, Takes, Final, Reads, Starts, Ends
  <1>3. ~Calls(x, {"RowSlots", "UrpColumns", "QmiRows"})
    BY <1>1 DEF Calls
  <1>4. Piece(<<x>>, 5, 5, k)
    BY <1>2, <1>3, PieceOne
  <1> QED
    BY <1>4 DEF x, Skip

LEMMA PhaseRange ==
  /\ 0 \in 0 .. 13 /\ 1 \in 0 .. 13 /\ 2 \in 0 .. 13 /\ 3 \in 0 .. 13 /\ 4 \in 0 .. 13
  /\ 5 \in 0 .. 13 /\ 6 \in 0 .. 13 /\ 7 \in 0 .. 13 /\ 8 \in 0 .. 13 /\ 9 \in 0 .. 13
  /\ 10 \in 0 .. 13 /\ 11 \in 0 .. 13 /\ 12 \in 0 .. 13 /\ 13 \in 0 .. 13
  OBVIOUS

\* Steps that begin in phase p and end among the late ones.
LEMMA ThenLate ==
  ASSUME NEW k, NEW s, NEW t, NEW p \in 0 .. 12, Piece(s, p, p, k), Late(t, k)
  PROVE  Piece(s \o t, p, 13, k)
  <1>1. Follows(p, 13) /\ p \in 0 .. 13
    BY DEF Follows
  <1> QED
    BY <1>1, PhaseRange, PieceConcat DEF Late

\* More late steps behind those.
LEMMA MoreLate ==
  ASSUME NEW k, NEW s, NEW t, NEW p \in 0 .. 13, Piece(s, p, 13, k), Late(t, k)
  PROVE  Piece(s \o t, p, 13, k)
  <1>1. Follows(13, 13)
    BY DEF Follows
  <1> QED
    BY <1>1, PhaseRange, PieceConcat DEF Late

LEMMA LatePieces ==
  ASSUME NEW k, NEW s, Late(s, k), NEW p \in 0 .. 13
  PROVE  Piece(s, p, 13, k)
  BY PieceWiden DEF Late

LEMMA PhasesOfNames ==
  /\ PhaseOf("udb") = 1 /\ PhaseOf("ubu") = 1 /\ PhaseOf("ktb") = 5 /\ PhaseOf("kdo") = 6
  /\ PhaseOf("ids") = 8 /\ PhaseOf("sizes") = 8
  /\ PhaseOf("rows") = 10 /\ PhaseOf("columns") = 10 /\ PhaseOf("packed") = 10
  /\ PhaseOf("dscn") = 11 /\ PhaseOf("p0") = 11 /\ PhaseOf("p1") = 11 /\ PhaseOf("usp") = 11
  /\ PhaseOf("uspIds") = 11 /\ PhaseOf("uspSizes") = 11 /\ PhaseOf("uspColumns") = 11
  /\ PhaseOf("keySizes") = 13
  BY DEF PhaseOf

\* The transactions.
LEMMA Bodies05 ==
  ASSUME NEW k
  PROVE  /\ change.opc = <<5, 1>> /\ k = 2 => Piece(Change_0501, 0, 13, k)
         /\ Late(Change_0502, k) /\ Late(Change_0504, k)
         /\ Piece(Change_0506, 0, 13, k) /\ Piece(Change_0511, 0, 13, k)
         /\ Late(Change_0512, k) /\ Late(Change_0519, k) /\ Late(Change_0520, k)
         /\ Late(Change_0530, k)
  <1>1. ASSUME change.opc = <<5, 1>>, k = 2 PROVE Piece(Change_0501, 0, 13, k)
    <2>1. Piece(Call("Before", FALSE), 2, 13, k)
      <3> DEFINE x == [take |-> "call", fn |-> "Before", catch |-> FALSE]
      <3>1. x.take = "call" /\ x.fn = "Before" /\ x.catch = FALSE
        OBVIOUS
      <3> HIDE DEF x
      <3>2. CallFits(k, x)
        <4>1. change.opc[1] = 5
          BY <1>1
        <4> QED
          BY <1>1, <3>1, <4>1 DEF CallFits, Fns
      <3>3. CallStarts("Before") = 2 /\ CallEnds("Before") = 13
        BY DEF CallStarts, CallEnds
      <3>4. Piece(<<x>>, 2, 13, k)
        BY <3>1, <3>2, <3>3, CallPiece
      <3> QED
        BY <3>4 DEF x, Call
    <2>2. Piece(One("udb", "Ktudb", "error"), 1, 1, k) /\ Piece(One("ubu", "Ktubu", "error"), 1, 1, k)
      BY OnePiece, PhasesOfNames DEF Special
    <2>3. Follows(1, 1) /\ Follows(1, 2)
      BY DEF Follows
    <2>4. Piece(One("udb", "Ktudb", "error") \o One("ubu", "Ktubu", "error"), 1, 1, k)
      BY <2>2, <2>3, PhaseRange, PieceConcat
    <2>5. Piece(Change_0501, 1, 13, k)
      BY <2>1, <2>3, <2>4, PhaseRange, PieceConcat DEF Change_0501
    <2> QED
      BY <2>5, PieceWiden
  <1>2. Late(Change_0502, k)
    <2>1. Late(One("udh", "Ktudh", "error"), k)
      BY LateOne DEF Early
    <2>2. Late(<< >>, k)
      BY PieceEmpty DEF Late
    <2>3. /\ Late(One("eop", "Kteop", "error"), k) /\ Late(Raw("second", "return"), k)
          /\ Late(One("pdb", "PdbInfo", "return"), k)
      BY LateOne, LateRaw DEF Early
    <2>4. Late((IF change.spans[index + 2].size >= 36
                  THEN One("eop", "Kteop", "error") ELSE Raw("second", "return"))
                 \o One("pdb", "PdbInfo", "return"), k)
      BY <2>3, LateConcat
    <2>5. Late(IF Remaining < 2 THEN << >>
               ELSE (IF change.spans[index + 2].size >= 36
                       THEN One("eop", "Kteop", "error") ELSE Raw("second", "return"))
                      \o One("pdb", "PdbInfo", "return"), k)
      BY <2>2, <2>4
    <2> QED
      BY <2>1, <2>5, LateConcat DEF Change_0502
  <1>3. Late(Change_0504, k)
    <2>1. Late(One("ucm", "Ktucm", "error"), k)
      BY LateOne DEF Early
    <2>3. Late(Call("Ucf", FALSE), k)
      BY LateCall
    <2> QED
      BY <2>1, <2>3, LateConcat DEF Change_0504
  <1>4. Piece(Change_0506, 0, 13, k)
    <2>1. Piece(One("ubu", "Ktubl", "error"), 1, 1, k)
      BY OnePiece, PhasesOfNames DEF Special
    <2>2. Late(One("voff", "Ktuxvoff", "return"), k)
      BY LateOne DEF Early
    <2>3. Piece(Change_0506, 1, 13, k)
      BY <2>1, <2>2, ThenLate DEF Change_0506
    <2> QED
      BY <2>3, PieceWiden
  <1>5. Piece(Change_0511, 0, 13, k)
    <2>1. Piece(One("ubu", "Ktubu", "error"), 1, 1, k)
      BY OnePiece, PhasesOfNames DEF Special
    <2>2. Late(One("ubrb", "Ktubrb", "return"), k)
      BY LateOne DEF Early
    <2>3. Piece(Change_0511, 1, 13, k)
      BY <2>1, <2>2, ThenLate DEF Change_0511
    <2> QED
      BY <2>3, PieceWiden
  <1>6. Late(Change_0512, k)
    BY LateOne, LateLeast, LateConcat DEF Early, Change_0512
  <1>7. Late(Change_0519, k)
    <2> DEFINE a == One("session", "Session", "return") \o Raw("user", "return")
                 \o Raw("login", "return") \o Raw("client", "return")
                 \o Raw("osUser", "return") \o Raw("machine", "return")
                 \o Raw("terminal", "return") \o Raw("process", "return")
               b == a \o Raw("program", "return") \o Raw("transaction", "return")
                 \o One("flags", "AuditFlags", "return")
    <2>1. Late(a, k)
      BY LateOne, LateRaw, LateConcat DEF Early
    <2> HIDE DEF a
    <2>2. Late(b, k)
      BY <2>1, LateOne, LateRaw, LateConcat DEF Early
    <2> HIDE DEF b
    <2>3. Late(b \o AtLeast("version", "Raw", 4, "return") \o AtLeast("auditId", "Raw", 4, "return")
               \o Raw("clientId", "return") \o Raw("globalId", "goon"), k)
      BY <2>2, LateLeast, LateRaw, LateConcat DEF Early
    <2> QED
      BY <2>3 DEF a, b, Change_0519
  <1>8. Late(Change_0520, k)
    BY LateOne, LateRaw, LateConcat DEF Early, Change_0520
  <1>9. Late(Change_0530, k)
    BY LateOne, LateRaw, LateConcat DEF Early, Change_0530
  <1> QED
    BY <1>1, <1>2, <1>3, <1>4, <1>5, <1>6, <1>7, <1>8, <1>9

\* The indexes.
LEMMA Bodies10 ==
  ASSUME NEW k
  PROVE  /\ change.opc = <<10, 2>> => Piece(Change_1002, 0, 13, k)
         /\ Piece(Change_1008, 0, 13, k) /\ Piece(Change_1018, 0, 13, k)
  <1>1. Piece(One("ktb", "KtbVector", "error"), 5, 5, k)
    BY OnePiece, PhasesOfNames DEF Special
  <1>2. ASSUME change.opc = <<10, 2>> PROVE Piece(Change_1002, 0, 13, k)
    <2>1. Late(Call("KeySizes", FALSE), k)
      <3> DEFINE x == [take |-> "call", fn |-> "KeySizes", catch |-> FALSE]
      <3>1. x.take = "call" /\ x.fn = "KeySizes" /\ x.catch = FALSE
        OBVIOUS
      <3> HIDE DEF x
      <3>2. CallFits(k, x)
        BY <1>2, <3>1 DEF CallFits, Fns
      <3>3. CallStarts("KeySizes") = 13 /\ CallEnds("KeySizes") = 13
        BY DEF CallStarts, CallEnds
      <3>4. Piece(<<x>>, 13, 13, k)
        BY <3>1, <3>2, <3>3, CallPiece
      <3> QED
        BY <3>4 DEF x, Call, Late
    <2>2. /\ Late(One("xle", "Kdxle", "return"), k) /\ Late(Raw("keys", "return"), k)
          /\ Late(Raw("slots", "return"), k)
      BY LateOne, LateRaw DEF Early
    <2>4. Piece(One("ktb", "KtbVector", "error") \o One("xle", "Kdxle", "return"), 5, 13, k)
      BY <1>1, <2>2, ThenLate
    <2>6. Piece(Change_1002, 5, 13, k)
      BY <2>1, <2>2, <2>4, PhaseRange, MoreLate DEF Change_1002
    <2> QED
      BY <2>6, PieceWiden
  <1>3. Piece(Change_1008, 0, 13, k)
    <2>1. /\ Late(One("hdr", "Kdxln", "return"), k) /\ Late(One("hdr", "Kdxlnext", "return"), k)
          /\ Late(Raw("slots", "goon"), k) /\ Late(Raw("keys", "goon"), k)
      BY LateOne, LateRaw DEF Early
    <2>2. Piece(IF Peek.size > 0
                  THEN One("ktb", "KtbVector", "error") \o One("hdr", "Kdxln", "return")
                  ELSE Skip \o One("hdr", "Kdxlnext", "return"), 5, 13, k)
      BY <1>1, <2>1, SkipPiece, ThenLate
    <2>5. Piece((IF Peek.size > 0
                   THEN One("ktb", "KtbVector", "error") \o One("hdr", "Kdxln", "return")
                   ELSE Skip \o One("hdr", "Kdxlnext", "return"))
                  \o Raw("slots", "goon") \o Raw("keys", "goon"), 5, 13, k)
      BY <2>1, <2>2, PhaseRange, MoreLate
    <2>6. Piece((IF Peek.size > 0
                   THEN One("ktb", "KtbVector", "error") \o One("hdr", "Kdxln", "return")
                   ELSE Skip \o One("hdr", "Kdxlnext", "return"))
                  \o Raw("slots", "goon") \o Raw("keys", "goon"), 0, 13, k)
      BY <2>5, PieceWiden
    <2>7. Piece(<< >>, 0, 13, k)
      BY PieceEmpty
    <2> QED
      BY <2>6, <2>7 DEF Change_1008
  <1>4. Piece(Change_1018, 0, 13, k)
    <2>1. Late(One("hdr", "Kdxlup", "return"), k) /\ Late(Raw("keys", "goon"), k)
      BY LateOne, LateRaw DEF Early
    <2>2. Piece(One("ktb", "KtbVector", "error") \o One("hdr", "Kdxlup", "return"), 5, 13, k)
      BY <1>1, <2>1, ThenLate
    <2>4. Piece(Change_1018, 5, 13, k)
      BY <2>1, <2>2, PhaseRange, MoreLate DEF Change_1018
    <2> QED
      BY <2>4, PieceWiden
  <1> QED
    BY <1>2, <1>3, <1>4

-----------------------------------------------------------------------------
(* What the parsers of the changes do                                      *)

\* The steps a parser is called with.
BodyFits(b, lo, hi, k) ==
  \/ b = Err
  \/ b = Undefined /\ Strays
  \/ Piece(b, lo, hi, k)

LEMMA RowCall ==
  ASSUME NEW k, k > Outer, HasRead("kdo") => index = At("kdo").at
  PROVE  Piece(Call("Row", FALSE), 7, 11, k)
  <1> DEFINE x == [take |-> "call", fn |-> "Row", catch |-> FALSE]
  <1>1. x.take = "call" /\ x.fn = "Row" /\ x.catch = FALSE
    OBVIOUS
  <1> HIDE DEF x
  <1>2. CallFits(k, x)
    BY <1>1 DEF CallFits, Fns
  <1>3. CallStarts("Row") = 7 /\ CallEnds("Row") = 11
    BY DEF CallStarts, CallEnds
  <1>4. Piece(<<x>>, 7, 11, k)
    BY <1>1, <1>2, <1>3, CallPiece
  <1> QED
    BY <1>4 DEF x, Call

LEMMA FromCall ==
  ASSUME NEW k, k = 2, change.opc[1] = 11
  PROVE  Piece(Call("From", FALSE), 12, 12, k)
  <1> DEFINE x == [take |-> "call", fn |-> "From", catch |-> FALSE]
  <1>1. x.take = "call" /\ x.fn = "From" /\ x.catch = FALSE
    OBVIOUS
  <1> HIDE DEF x
  <1>2. CallFits(k, x)
    BY <1>1 DEF CallFits, Fns
  <1>3. CallStarts("From") = 12 /\ CallEnds("From") = 12
    BY DEF CallStarts, CallEnds
  <1>4. Piece(<<x>>, 12, 12, k)
    BY <1>1, <1>2, <1>3, CallPiece
  <1> QED
    BY <1>4 DEF x, Call

\* Calls that fit wherever they stand.
LEMMA FreeCalls ==
  ASSUME NEW k
  PROVE  /\ k >= Outer => Piece(Call("Kdop", FALSE), 3, 11, k)
         /\ k > Outer => Piece(Call("DoH", FALSE), 4, 6, k)
         /\ Piece(Call("Usp", FALSE), 11, 11, k) /\ Piece(Call("UspColumns", FALSE), 11, 11, k)
  <1>1. /\ CallStarts("Kdop") = 3 /\ CallEnds("Kdop") = 11
        /\ CallStarts("DoH") = 4 /\ CallEnds("DoH") = 6
        /\ CallStarts("Usp") = 11 /\ CallEnds("Usp") = 11
        /\ CallStarts("UspColumns") = 11 /\ CallEnds("UspColumns") = 11
    BY DEF CallStarts, CallEnds
  <1>2. {"Kdop", "DoH", "Usp", "UspColumns"} \subseteq
          Fns \ {"RowSlots", "UrpColumns", "QmiRows", "Change", "From",
                 "Before", "KeySizes"}
    BY DEF Fns
  <1>3. ASSUME NEW fn \in {"Kdop", "DoH", "Usp", "UspColumns"},
               fn = "Kdop" => k >= Outer, fn = "DoH" => k > Outer
        PROVE  Piece(Call(fn, FALSE), CallStarts(fn), CallEnds(fn), k)
    <2>1. /\ CallStarts(fn) \in 0 .. 13 /\ CallEnds(fn) \in 0 .. 13
          /\ CallStarts(fn) <= CallStarts(fn) /\ CallEnds(fn) <= CallEnds(fn)
      BY Phases
    <2> QED
      BY <1>2, <1>3, <2>1, CallsPiece
  <1> QED
    BY <1>1, <1>3

LEMMA KdopBody ==
  ASSUME NEW k, k > Outer, HasRead("kdo") => index = At("kdo").at PROVE Piece(Kdop, 3, 11, k)
  <1>1. Follows(6, 7)
    BY DEF Follows
  <1>2. Piece(Call("DoH", FALSE), 4, 6, k) /\ Piece(Call("Row", FALSE), 7, 11, k)
    BY FreeCalls, RowCall
  <1>3. Piece(Kdop, 4, 11, k)
    BY <1>1, <1>2, PhaseRange, PieceConcat DEF Kdop
  <1> QED
    BY <1>3, PhaseRange, PieceWiden

LEMMA DoHBody == ASSUME NEW k, k > Outer PROVE DoH = Err \/ Piece(DoH, 4, 6, k)
  <1>1. Piece(One("kdo", "KdoVector", "error"), 6, 6, k)
    <2> DEFINE x == [take |-> "one", name |-> "kdo", as |-> "KdoVector", fail |-> "error"]
    <2>1. x.take = "one" /\ x.name = "kdo" /\ x.as = "KdoVector" /\ x.fail = "error"
      OBVIOUS
    <2> HIDE DEF x
    <2>2. Reads(x) /\ WellFormed(x) /\ ReadFits(x) /\ PhaseOf(x.name) = 6
      BY <2>1, PhasesOfNames DEF Reads, WellFormed, Takes, Fails, ReadFits
    <2>3. Piece(<<x>>, 6, 6, k)
      BY <2>2, ReadPiece
    <2> QED
      BY <2>3 DEF x, One
  <1>2. Piece(One("ktb", "KtbVector", "error"), 5, 5, k) /\ Piece(Skip, 5, 5, k)
    BY OnePiece, SkipPiece, PhasesOfNames DEF Special
  <1>3. Piece(IF Peek.size > 0 THEN One("ktb", "KtbVector", "error") ELSE Skip, 5, 5, k)
    BY <1>2
  <1>4. Follows(5, 6)
    BY DEF Follows
  <1>5. Piece((IF Peek.size > 0 THEN One("ktb", "KtbVector", "error") ELSE Skip)
                \o One("kdo", "KdoVector", "error"), 5, 6, k)
    BY <1>1, <1>3, <1>4, PhaseRange, PieceConcat
  <1>6. Piece((IF Peek.size > 0 THEN One("ktb", "KtbVector", "error") ELSE Skip)
                \o One("kdo", "KdoVector", "error"), 4, 6, k)
    BY <1>5, PhaseRange, PieceWiden
  <1> QED
    BY <1>6 DEF DoH

\* Layer 11 is entered at depth 2.
LEMMA Body11 ==
  ASSUME change.opc[1] = 11, HasRead("kdo") => index = At("kdo").at
  PROVE  Piece(Change_11, 0, 13, 2)
  <1>1. Follows(11, 12)
    BY DEF Follows
  <1>0. 2 >= Outer
    BY DEF Outer
  <1>2. Piece(Call("Kdop", FALSE), 3, 11, 2) /\ Piece(Call("From", FALSE), 12, 12, 2)
    BY <1>0, FreeCalls, FromCall
  <1>3. Piece(Change_11, 3, 12, 2)
    BY <1>1, <1>2, PhaseRange, PieceConcat DEF Change_11
  <1> QED
    BY <1>3, PhaseRange, PieceWiden

\* Rows, markers, directly loaded blocks, DDL, LOBs.
LEMMA BodiesOthers ==
  ASSUME NEW k
  PROVE  /\ Late(Change_1727, k) /\ Late(Change_2401, k) /\ Late(Change_2404, k)
         /\ Late(Change_2406, k) /\ Piece(Change_2602, 0, 13, k) /\ Late(Change_2606, k)
         /\ change \in Changes /\ change.opc = <<19, 1>> /\ index = 0 =>
              BodyFits(Change_1901, 0, 13, k)
  <1>1. Late(Change_1727, k) /\ Late(Change_2406, k)
    BY LateOne DEF Early, Change_1727, Change_2406
  <1>2. Late(Change_2401, k)
    BY LateOne, LateRest, LateConcat DEF Early, Change_2401
  <1>3. Late(Change_2404, k)
    BY LateOne, LateCall, LateConcat DEF Early, Change_2404
  <1>4. Late(Change_2606, k)
    BY LateOne, LateLeast, LateRestOf, LateConcat DEF Early, Change_2606
  <1>5. Piece(Change_2602, 0, 13, k)
    <2>1. Piece(One("ktb", "KtbVector", "error"), 5, 5, k)
      BY OnePiece, PhasesOfNames DEF Special
    <2>2. Late(One("head", "KdliHead", "error"), k) /\ Late(RestOf("elems", "KdliElem"), k)
      BY LateOne, LateRestOf DEF Early
    <2>3. Piece(One("ktb", "KtbVector", "error") \o One("head", "KdliHead", "error"), 5, 13, k)
      BY <2>1, <2>2, ThenLate
    <2>4. Piece(Change_2602, 5, 13, k)
      BY <2>2, <2>3, PhaseRange, MoreLate DEF Change_2602
    <2> QED
      BY <2>4, PhaseRange, PieceWiden
  <1>6. ASSUME change \in Changes, change.opc = <<19, 1>>, index = 0
        PROVE  BodyFits(Change_1901, 0, 13, k)
    <2>1. Remaining = Len(change.spans) /\ Len(change.spans) \in Nat /\ Peek = change.spans[1]
      BY <1>6, ParserAssumption DEF Remaining, Peek
    <2>2. CASE Remaining = 0
      BY <2>2 DEF Change_1901, BodyFits
    <2>3. CASE Remaining > 0 /\ Peek.size < 19 /\ (change.data \/ Peek.size = 0)
      <3>1. Change_1901 = Undefined
        BY <2>1, <2>3 DEF Change_1901
      <3>2. change.spans[1].size < 19
        BY <2>1, <2>3
      <3> QED
        BY <1>6, <3>1, <3>2 DEF BodyFits, Strays
    <2>4. CASE Remaining # 0 /\ ~ (Remaining > 0 /\ Peek.size < 19 /\ (change.data \/ Peek.size = 0))
      <3> DEFINE kind == IF change.data THEN "DLB_D" ELSE "DLB_L"
      <3>1. Change_1901 = One("block", kind, "error") \o Rest("fields")
        BY <2>4 DEF Change_1901
      <3> HIDE DEF kind
      <3>2. Late(Change_1901, k)
        BY <3>1, LateOne, LateRest, LateConcat DEF Early
      <3>3. Piece(Change_1901, 0, 13, k)
        BY <3>2, PhaseRange, LatePieces
      <3> QED
        BY <3>3 DEF BodyFits
    <2> QED
      BY <2>2, <2>3, <2>4
  <1> QED
    BY <1>1, <1>2, <1>3, <1>4, <1>5, <1>6

\* Whatever the operation is.
LEMMA ChangeBody ==
  ASSUME change \in Changes, index = 0, HasRead("kdo") => index = At("kdo").at
  PROVE  BodyFits(parse_to_show, 0, 13, 2)
  <1>1. ASSUME NEW b, Late(b, 2) PROVE BodyFits(b, 0, 13, 2)
    BY <1>1, PhaseRange, LatePieces DEF BodyFits
  <1>2. ASSUME NEW b, Piece(b, 0, 13, 2) PROVE BodyFits(b, 0, 13, 2)
    BY <1>2 DEF BodyFits
  <1>3. BodyFits(<< >>, 0, 13, 2)
    BY <1>2, PieceEmpty
  <1>4. CASE change.opc = <<5, 1>>
    BY <1>2, <1>4, Bodies05 DEF parse_to_show
  <1>5. CASE change.opc \in {<<5, 2>>, <<5, 4>>, <<5, 6>>, <<5, 11>>, <<5, 12>>, <<5, 19>>, <<5, 20>>, <<5, 30>>}
    BY <1>1, <1>2, <1>5, Bodies05 DEF parse_to_show
  <1>6. CASE change.opc = <<10, 2>>
    BY <1>2, <1>6, Bodies10 DEF parse_to_show
  <1>7. CASE change.opc \in {<<10, 8>>, <<10, 18>>}
    BY <1>2, <1>7, Bodies10 DEF parse_to_show
  <1>8. CASE change.opc \in {11} \X {2, 3, 4, 5, 6, 7, 8, 11, 12, 16, 22}
    <2>1. change.opc[1] = 11
      BY <1>8
    <2>2. parse_to_show = Change_11
      BY <1>8 DEF parse_to_show
    <2> QED
      BY <1>2, <2>1, <2>2, Body11
  <1>9. CASE change.opc \in {<<17, 15>>, <<17, 27>>, <<24, 1>>, <<24, 4>>, <<24, 6>>, <<26, 2>>, <<26, 6>>}
    BY <1>1, <1>2, <1>3, <1>9, BodiesOthers DEF parse_to_show, Change_1715
  <1>10. CASE change.opc = <<19, 1>>
    BY <1>10, BodiesOthers DEF parse_to_show
  <1>11. CASE change.opc \notin
           {<<5, 1>>, <<5, 2>>, <<5, 4>>, <<5, 6>>, <<5, 11>>, <<5, 12>>, <<5, 19>>, <<5, 20>>, <<5, 30>>,
            <<10, 2>>, <<10, 8>>, <<10, 18>>, <<17, 15>>, <<17, 27>>, <<24, 1>>, <<24, 4>>,
            <<24, 6>>, <<26, 2>>, <<26, 6>>, <<19, 1>>}
           \cup ({11} \X {2, 3, 4, 5, 6, 7, 8, 11, 12, 16, 22})
    BY <1>3, <1>11 DEF parse_to_show
  <1> QED
    BY <1>4, <1>5, <1>6, <1>7, <1>8, <1>9, <1>10, <1>11

-----------------------------------------------------------------------------
(* What the parsers of a row do                                            *)

\* A call or a field of these is among the steps.
Has(s, fns, names) ==
  \E j \in 1 .. Len(s) : Calls(s[j], fns) \/ ReadsOf(s[j], names)

LEMMA HasConcat ==
  ASSUME NEW s, NEW t, IsSeq(s), IsSeq(t), NEW fns, NEW names
  PROVE  Has(s \o t, fns, names) <=> Has(s, fns, names) \/ Has(t, fns, names)
  <1> DEFINE st == s \o t
  <1>1. /\ Len(s) \in Nat /\ Len(t) \in Nat /\ Len(st) = Len(s) + Len(t)
        /\ \A k \in 1 .. Len(st) : st[k] = IF k <= Len(s) THEN s[k] ELSE t[k - Len(s)]
    BY ConcatIsSeq
  <1> HIDE DEF st
  <1>2. ASSUME Has(s, fns, names) PROVE Has(st, fns, names)
    <2>1. PICK j \in 1 .. Len(s) : Calls(s[j], fns) \/ ReadsOf(s[j], names)
      BY <1>2 DEF Has
    <2>2. j \in 1 .. Len(st) /\ st[j] = s[j]
      BY <1>1
    <2> QED
      BY <2>1, <2>2 DEF Has
  <1>3. ASSUME Has(t, fns, names) PROVE Has(st, fns, names)
    <2>1. PICK j \in 1 .. Len(t) : Calls(t[j], fns) \/ ReadsOf(t[j], names)
      BY <1>3 DEF Has
    <2>2. j + Len(s) \in 1 .. Len(st) /\ ~(j + Len(s) <= Len(s)) /\ (j + Len(s)) - Len(s) = j
      BY <1>1
    <2>3. st[j + Len(s)] = t[j]
      BY <1>1, <2>2
    <2> QED
      BY <2>1, <2>2, <2>3 DEF Has
  <1>4. ASSUME Has(st, fns, names) PROVE Has(s, fns, names) \/ Has(t, fns, names)
    <2>1. PICK j \in 1 .. Len(st) : Calls(st[j], fns) \/ ReadsOf(st[j], names)
      BY <1>4 DEF Has
    <2>2. CASE j <= Len(s)
      <3>1. j \in 1 .. Len(s) /\ st[j] = s[j]
        BY <1>1, <2>2
      <3> QED
        BY <2>1, <3>1 DEF Has
    <2>3. CASE ~(j <= Len(s))
      <3>1. j - Len(s) \in 1 .. Len(t) /\ st[j] = t[j - Len(s)]
        BY <1>1, <2>3
      <3> QED
        BY <2>1, <3>1 DEF Has
    <2> QED
      BY <2>2, <2>3
  <1> QED
    BY <1>2, <1>3, <1>4 DEF st

LEMMA HasOne ==
  ASSUME NEW x, NEW fns, NEW names
  PROVE  Has(<<x>>, fns, names) <=> Calls(x, fns) \/ ReadsOf(x, names)
  <1> DEFINE s == <<x>>
  <1>1. Len(s) = 1 /\ s[1] = x /\ 1 .. Len(s) = {1}
    BY Single
  <1> HIDE DEF s
  <1> QED
    BY <1>1 DEF Has, s

\* A field, and the parser of what follows it.
LEMMA PairPiece ==
  ASSUME NEW k, NEW x, NEW c, Fits(k, x), Fits(k, c), InOrder(x, c), Reads(x),
         NEW lo \in 0 .. 13, NEW hi \in 0 .. 13, lo <= Starts(x), Ends(c) <= hi,
         Ends(x) <= Starts(c), c.take = "call",
         c.fn = "RowSlots" => x.name = "keySizes",
         c.fn = "UrpColumns" => x.name = "ids",
         c.fn = "QmiRows" => x.name = "sizes"
  PROVE  Piece(<<x>> \o <<c>>, lo, hi, k)
  <1> DEFINE s == <<x>> \o <<c>>
  <1>1. IsSeq(s) /\ Len(s) = 2 /\ s[1] = x /\ s[2] = c
    <2>1. IsSeq(<<x>>) /\ IsSeq(<<c>>) /\ Len(<<x>>) = 1 /\ Len(<<c>>) = 1
          /\ <<x>>[1] = x /\ <<c>>[1] = c
      BY Single
    <2>2. /\ IsSeq(s) /\ Len(s) = 2
          /\ \A j \in 1 .. Len(s) : s[j] = IF j <= 1 THEN <<x>>[j] ELSE <<c>>[j - 1]
      BY <2>1, ConcatIsSeq
    <2> QED
      BY <2>1, <2>2
  <1> HIDE DEF s
  <1>2. 1 .. Len(s) = {1, 2}
    BY <1>1
  <1>3. /\ Starts(x) \in 0 .. 13 /\ Ends(x) \in 0 .. 13 /\ Starts(x) <= Ends(x)
        /\ Starts(c) \in 0 .. 13 /\ Ends(c) \in 0 .. 13 /\ Starts(c) <= Ends(c)
    BY Phases
  <1>4. lo <= hi /\ Ends(x) <= hi /\ lo <= Starts(c)
    BY <1>3
  <1>5. Formed(s)
    BY <1>1, <1>2 DEF Formed, Fits
  <1>6. SortedIn(s)
    BY <1>1, <1>2 DEF SortedIn
  <1>7. ~Calls(x, Fns) /\ \A fn : ~Calls(x, {fn})
    BY DEF Calls, Reads
  <1>8. AllPrepared(s)
    BY <1>1, <1>2, <1>7 DEF AllPrepared, Prepared, Calls, ReadsOf
  <1>9. ASSUME NEW j \in 1 .. Len(s) PROVE Fits(k, s[j]) /\ lo <= Starts(s[j]) /\ Ends(s[j]) <= hi
    <2>1. CASE s[j] = x
      BY <1>4, <2>1
    <2>2. CASE s[j] = c
      BY <1>4, <2>2
    <2> QED
      BY <1>1, <1>2, <2>1, <2>2
  <1> QED
    BY <1>4, <1>5, <1>6, <1>8, <1>9 DEF Piece, s

\* The columns of the row are still to be read.
RowsAhead(s) == Has(s, {"Row", "UrpColumns", "QmiRows"}, {"packed", "columns", "rows"})

\* The row has what its type asks for (ColumnsComplete).
RowDone ==
  LET kdo == Field("kdo") IN
    /\ kdo.type \in {"Irp", "Orp"} =>
         \/ At("kdo").at = Len(change.spans)
         \/ HasRead("packed")
         \/ CountRead("columns") >= kdo.n
    /\ kdo.type = "Urp" =>
         /\ HasRead("ids")
         /\ IF kdo.kdom2 THEN HasRead("columns") ELSE CountRead("columns") >= kdo.nnew
    /\ kdo.type = "Qmi" => HasRead("rows")

LEMMA DscnPiece == ASSUME NEW k, NEW kdo PROVE Piece(Dscn(kdo), 11, 11, k)
  <1>1. Piece(One("dscn", "Scn8", "goon"), 11, 11, k) /\ Piece(<< >>, 11, 11, k)
    BY OnePiece, PieceEmpty, PhasesOfNames, PhaseRange DEF Special
  <1> QED
    BY <1>1 DEF Dscn

\* Columns, taken one by one or cut from one element.
LEMMA ColumnsPiece ==
  ASSUME NEW k, NEW x, x.take \in {"raws", "split"}, x.name = "columns", ColumnsFit(x)
  PROVE  Piece(<<x>>, 10, 10, k) /\ RowsAhead(<<x>>)
  <1>1. Reads(x) /\ WellFormed(x) /\ PhaseOf(x.name) = 10
    BY PhasesOfNames DEF Reads, WellFormed, Takes, Fails, ColumnsFit
  <1>2. ReadFits(x)
    BY <1>1 DEF ReadFits, ColumnsFit
  <1>3. Piece(<<x>>, 10, 10, k)
    BY <1>1, <1>2, ReadPiece
  <1>4. ReadsOf(x, {"packed", "columns", "rows"})
    BY <1>1 DEF ReadsOf
  <1> QED
    BY <1>3, <1>4, HasOne DEF RowsAhead

LEMMA ThenDscn ==
  ASSUME NEW k, NEW s, Piece(s, 10, 10, k), RowsAhead(s), NEW kdo
  PROVE  Piece(s \o Dscn(kdo), 9, 11, k) /\ RowsAhead(s \o Dscn(kdo))
  <1>1. Follows(10, 11)
    BY DEF Follows
  <1>2. Piece(Dscn(kdo), 11, 11, k)
    BY DscnPiece
  <1>3. Piece(s \o Dscn(kdo), 10, 11, k)
    BY <1>1, <1>2, PhaseRange, PieceConcat
  <1>4. IsSeq(s) /\ IsSeq(Dscn(kdo))
    BY <1>2 DEF Piece, Formed
  <1> QED
    BY <1>3, <1>4, PhaseRange, PieceWiden, HasConcat DEF RowsAhead

LEMMA IrpBody ==
  ASSUME NEW k, KdoIs({"Irp", "Orp"}), index = At("kdo").at, change \in Changes,
         index \in 0 .. Len(change.spans)
  PROVE  /\ Piece(Irp(Field("kdo")), 7, 11, k)
         /\ RowDone \/ RowsAhead(Irp(Field("kdo")))
  <1> DEFINE kdo == Field("kdo")
  <1>1. kdo.type \in {"Irp", "Orp"} /\ HasRead("kdo")
    BY DEF KdoIs
  <1>2. CASE Remaining = 0
    <2>1. Piece(Irp(kdo), 7, 11, k)
      BY <1>2, PieceEmpty, PhaseRange DEF Irp
    <2>2. At("kdo").at = Len(change.spans)
      BY <1>2, ParserAssumption DEF Remaining
    <2> QED
      BY <1>1, <2>1, <2>2 DEF RowDone
  <1>3. CASE Remaining # 0
    <2> DEFINE cols == IF Compressed(kdo) THEN Raw("packed", "error")
                                          ELSE Raws("columns", kdo.n, "error")
    <2>1. Irp(kdo) = cols \o Dscn(kdo)
      BY <1>3 DEF Irp
    <2>2. Piece(Raw("packed", "error"), 10, 10, k) /\ RowsAhead(Raw("packed", "error"))
      <3> DEFINE x == [take |-> "one", name |-> "packed", as |-> "Raw", fail |-> "error"]
      <3>1. x.take = "one" /\ x.name = "packed" /\ x.fail = "error"
        OBVIOUS
      <3> HIDE DEF x
      <3>2. Reads(x) /\ WellFormed(x) /\ PhaseOf(x.name) = 10
        BY <3>1, PhasesOfNames DEF Reads, WellFormed, Takes, Fails
      <3>3. ReadFits(x)
        BY <3>1, <3>2 DEF ReadFits
      <3>4. Piece(<<x>>, 10, 10, k)
        BY <3>1, <3>2, <3>3, ReadPiece
      <3>5. RowsAhead(<<x>>)
        BY <3>1, <3>2, HasOne DEF RowsAhead, ReadsOf
      <3> QED
        BY <3>4, <3>5 DEF x, Raw, One
    <2>3. Piece(Raws("columns", kdo.n, "error"), 10, 10, k) /\ RowsAhead(Raws("columns", kdo.n, "error"))
      <3> DEFINE x == [take |-> "raws", name |-> "columns", as |-> "Raw", n |-> kdo.n, fail |-> "error"]
      <3>1. x.take = "raws" /\ x.name = "columns" /\ x.fail = "error" /\ x.n = kdo.n
        OBVIOUS
      <3> HIDE DEF x
      <3>2. ColumnsFit(x)
        BY <1>1, <3>1 DEF ColumnsFit, KdoIs
      <3>3. Piece(<<x>>, 10, 10, k) /\ RowsAhead(<<x>>)
        BY <3>1, <3>2, ColumnsPiece
      <3> QED
        BY <3>3 DEF x, Raws
    <2>4. Piece(cols, 10, 10, k) /\ RowsAhead(cols)
      BY <2>2, <2>3
    <2> HIDE DEF cols
    <2>5. Piece(Irp(kdo), 9, 11, k) /\ RowsAhead(Irp(kdo))
      BY <2>1, <2>4, ThenDscn
    <2> QED
      BY <2>5, PhaseRange, PieceWiden
  <1> QED
    BY <1>2, <1>3

LEMMA UrpBody ==
  ASSUME NEW k, KdoIs({"Urp"}), Field("kdo").nnew \in Nat
  PROVE  Piece(Urp(Field("kdo")), 7, 11, k) /\ RowsAhead(Urp(Field("kdo")))
  <1> DEFINE kdo == Field("kdo")
             x == [take |-> "array", name |-> "ids", as |-> "U16s", n |-> kdo.nnew, fail |-> "error"]
             c == [take |-> "call", fn |-> "UrpColumns", catch |-> FALSE]
  <1>1. /\ x.take = "array" /\ x.name = "ids" /\ x.fail = "error" /\ x.n \in Nat
        /\ c.take = "call" /\ c.fn = "UrpColumns" /\ c.catch = FALSE
    OBVIOUS
  <1>2. Urp(kdo) = <<x>> \o <<c>>
    BY DEF Urp, Array, Call
  <1> HIDE DEF x, c
  <1>3. Reads(x) /\ WellFormed(x) /\ ~Final(x) /\ x.take # "call" /\ x.take # "skip"
    BY <1>1 DEF Reads, WellFormed, Takes, Fails, Final
  <1>4. Fits(k, x)
    BY <1>1, <1>3 DEF Fits, ReadFits
  <1>5. ~Final(c) /\ ~Reads(c) /\ WellFormed(c)
    BY <1>1 DEF Reads, Final, WellFormed, Takes
  <1>6. Fits(k, c)
    BY <1>1, <1>5 DEF Fits, CallFits, Fns
  <1>7. Starts(x) = 8 /\ Ends(x) = 8
    BY <1>1, <1>3, PhasesOfNames DEF Starts, Ends
  <1>8. Starts(c) = 9 /\ Ends(c) = 11
    BY <1>1 DEF Starts, Ends, CallStarts, CallEnds
  <1>9. InOrder(x, c)
    BY <1>7, <1>8 DEF InOrder, Follows
  <1>10. Piece(<<x>> \o <<c>>, 7, 11, k)
    BY <1>1, <1>3, <1>4, <1>6, <1>7, <1>8, <1>9, PairPiece
  <1>11. RowsAhead(<<x>> \o <<c>>)
    <2>1. RowsAhead(<<c>>)
      BY <1>1, HasOne DEF RowsAhead, Calls
    <2>2. IsSeq(<<x>>) /\ IsSeq(<<c>>)
      BY Single
    <2> QED
      BY <2>1, <2>2, HasConcat DEF RowsAhead
  <1> QED
    BY <1>2, <1>10, <1>11

LEMMA QmiBody ==
  ASSUME NEW k, KdoIs({"Qmi"})
  PROVE  Piece(Qmi(Field("kdo")), 7, 11, k) /\ RowsAhead(Qmi(Field("kdo")))
  <1> DEFINE kdo == Field("kdo")
             x == [take |-> "array", name |-> "sizes", as |-> "U16s", n |-> kdo.n, fail |-> "error"]
             c == [take |-> "call", fn |-> "QmiRows", catch |-> FALSE]
  <1>1. /\ x.take = "array" /\ x.name = "sizes" /\ x.fail = "error"
        /\ c.take = "call" /\ c.fn = "QmiRows" /\ c.catch = FALSE
    OBVIOUS
  <1>2. Qmi(kdo) = <<x>> \o <<c>>
    BY DEF Qmi, Array, Call
  <1> HIDE DEF x, c
  <1>3. Reads(x) /\ WellFormed(x) /\ ~Final(x) /\ x.take # "call" /\ x.take # "skip"
    BY <1>1 DEF Reads, WellFormed, Takes, Fails, Final
  <1>4. Fits(k, x)
    BY <1>1, <1>3 DEF Fits, ReadFits
  <1>5. ~Final(c) /\ ~Reads(c) /\ WellFormed(c)
    BY <1>1 DEF Reads, Final, WellFormed, Takes
  <1>6. Fits(k, c)
    BY <1>1, <1>5 DEF Fits, CallFits, Fns
  <1>7. Starts(x) = 8 /\ Ends(x) = 8
    BY <1>1, <1>3, PhasesOfNames DEF Starts, Ends
  <1>8. Starts(c) = 9 /\ Ends(c) = 10
    BY <1>1 DEF Starts, Ends, CallStarts, CallEnds
  <1>9. InOrder(x, c)
    BY <1>7, <1>8 DEF InOrder, Follows
  <1>10. Piece(<<x>> \o <<c>>, 7, 11, k)
    BY <1>1, <1>3, <1>4, <1>6, <1>7, <1>8, <1>9, PairPiece
  <1>11. RowsAhead(<<x>> \o <<c>>)
    <2>1. RowsAhead(<<c>>)
      BY <1>1, HasOne DEF RowsAhead, Calls
    <2>2. IsSeq(<<x>>) /\ IsSeq(<<c>>)
      BY Single
    <2> QED
      BY <2>1, <2>2, HasConcat DEF RowsAhead
  <1> QED
    BY <1>2, <1>10, <1>11

\* The row of a change, by the type its head has shown.
LEMMA RowBody ==
  ASSUME NEW k, HasRead("kdo"), index = At("kdo").at, change \in Changes,
         index \in 0 .. Len(change.spans), Field("kdo").nnew \in Nat
  PROVE  /\ BodyFits(Row, 7, 11, k)
         /\ RowDone \/ RowsAhead(Row)
  <1> DEFINE kdo == Field("kdo")
  <1>1. CASE kdo.type \in {"Irp", "Orp"}
    <2>1. Row = Irp(kdo)
      BY <1>1 DEF Row, Orp
    <2>2. KdoIs({"Irp", "Orp"})
      BY <1>1 DEF KdoIs
    <2> QED
      BY <2>1, <2>2, IrpBody DEF BodyFits
  <1>2. CASE kdo.type = "Urp"
    <2>1. Row = Urp(kdo)
      BY <1>2 DEF Row
    <2>2. KdoIs({"Urp"})
      BY <1>2 DEF KdoIs
    <2> QED
      BY <2>1, <2>2, UrpBody DEF BodyFits
  <1>3. CASE kdo.type = "Qmi"
    <2>1. Row = Qmi(kdo)
      BY <1>3 DEF Row
    <2>2. KdoIs({"Qmi"})
      BY <1>3 DEF KdoIs
    <2> QED
      BY <2>1, <2>2, QmiBody DEF BodyFits
  <1>4. CASE kdo.type \notin {"Irp", "Orp", "Urp", "Qmi"}
    <2>1. RowDone
      BY <1>4 DEF RowDone
    <2>2. CASE kdo.type \in {"Lkr", "Qmd", "Cki", "Skl", "Dsc"}
      <3>1. Row = << >>
        BY <2>2 DEF Row
      <3> QED
        BY <2>1, <3>1, PieceEmpty, PhaseRange DEF BodyFits
    <2>3. CASE kdo.type \in {"Mfc", "Cmp"}
      <3>1. Row = Payloads
        BY <2>3 DEF Row
      <3>2. /\ Piece(Raw("p0", "goon"), 11, 11, k) /\ Piece(Raw("p1", "goon"), 11, 11, k)
            /\ Piece(<< >>, 11, 11, k)
        BY OnePiece, PieceEmpty, PhasesOfNames, PhaseRange DEF Special, Raw
      <3>3. Follows(11, 11)
        BY DEF Follows
      <3>4. Piece(Raw("p0", "goon") \o Raw("p1", "goon"), 11, 11, k)
        BY <3>2, <3>3, PhaseRange, PieceConcat
      <3>5. Piece(Payloads, 11, 11, k)
        BY <3>2, <3>4 DEF Payloads
      <3>6. Piece(Payloads, 7, 11, k)
        BY <3>5, PhaseRange, PieceWiden
      <3> QED
        BY <2>1, <3>1, <3>6 DEF BodyFits
    <2>4. CASE kdo.type \in {"Cfa", "Lmn"}
      <3> DEFINE c == [take |-> "call", fn |-> "Usp", catch |-> TRUE]
      <3>1. c.take = "call" /\ c.fn = "Usp" /\ c.catch = TRUE
        OBVIOUS
      <3>2. Row = <<c>>
        BY <2>4 DEF Row, OwnUsp, Call
      <3> HIDE DEF c
      <3>3. CallFits(k, c)
        BY <2>4, <3>1 DEF CallFits, KdoIs, Fns
      <3>4. CallStarts("Usp") = 11 /\ CallEnds("Usp") = 11
        BY DEF CallStarts, CallEnds
      <3>5. Piece(<<c>>, 7, 11, k)
        BY <3>1, <3>3, <3>4, CallPiece
      <3> QED
        BY <2>1, <3>2, <3>5 DEF BodyFits
    <2>5. CASE kdo.type = "Drp"
      <3>1. Row = Dscn(kdo)
        BY <2>5 DEF Row
      <3>2. Piece(Dscn(kdo), 7, 11, k)
        BY DscnPiece, PhaseRange, PieceWiden
      <3> QED
        BY <2>1, <3>1, <3>2 DEF BodyFits
    <2>6. CASE kdo.type \notin {"Lkr", "Qmd", "Cki", "Skl", "Dsc", "Mfc", "Cmp", "Cfa", "Lmn", "Drp"}
      <3>1. Row = Err
        BY <1>4, <2>6 DEF Row
      <3> QED
        BY <2>1, <3>1 DEF BodyFits
    <2> QED
      BY <2>2, <2>3, <2>4, <2>5, <2>6
  <1> QED
    BY <1>1, <1>2, <1>3, <1>4

-----------------------------------------------------------------------------
(* What the other parsers called do                                        *)

LEMMA UrpColumnsBody ==
  ASSUME NEW k, KdoIs({"Urp"}), HasRead("ids")
  PROVE  Piece(UrpColumns, 9, 11, k) /\ RowsAhead(UrpColumns)
  <1> DEFINE kdo == Field("kdo")
             x == [take |-> "split", name |-> "columns", as |-> "Raw",
                   sizes |-> Field("ids"), fail |-> "error"]
             y == [take |-> "raws", name |-> "columns", as |-> "Raw",
                   n |-> kdo.nnew, fail |-> "error"]
             cols == IF kdo.kdom2 THEN <<x>> ELSE <<y>>
  <1>1. /\ x.take = "split" /\ x.name = "columns" /\ x.sizes = Field("ids") /\ x.fail = "error"
        /\ y.take = "raws" /\ y.name = "columns" /\ y.n = kdo.nnew /\ y.fail = "error"
    OBVIOUS
  <1>2. UrpColumns = cols \o Dscn(kdo)
    BY DEF UrpColumns, Split, Raws
  <1> HIDE DEF x, y
  <1>3. kdo.type = "Urp"
    BY DEF KdoIs
  <1>4. CASE kdo.kdom2
    <2>1. ColumnsFit(x)
      BY <1>1, <1>3, <1>4 DEF ColumnsFit, KdoIs
    <2>2. Piece(<<x>>, 10, 10, k) /\ RowsAhead(<<x>>)
      BY <1>1, <2>1, ColumnsPiece
    <2>3. UrpColumns = <<x>> \o Dscn(kdo)
      BY <1>2, <1>4
    <2> QED
      BY <2>2, <2>3, ThenDscn
  <1>5. CASE ~kdo.kdom2
    <2>1. ColumnsFit(y)
      BY <1>1, <1>3, <1>5 DEF ColumnsFit, KdoIs
    <2>2. Piece(<<y>>, 10, 10, k) /\ RowsAhead(<<y>>)
      BY <1>1, <2>1, ColumnsPiece
    <2>3. UrpColumns = <<y>> \o Dscn(kdo)
      BY <1>2, <1>5
    <2> QED
      BY <2>2, <2>3, ThenDscn
  <1> QED
    BY <1>4, <1>5

LEMMA QmiRowsBody ==
  ASSUME NEW k, KdoIs({"Qmi"}), HasRead("sizes")
  PROVE  Piece(QmiRows, 9, 10, k) /\ RowsAhead(QmiRows)
  <1> DEFINE x == [take |-> "split", name |-> "rows", as |-> "Raw",
                   sizes |-> Field("sizes"), fail |-> "unchecked"]
  <1>1. x.take = "split" /\ x.name = "rows" /\ x.fail = "unchecked"
    OBVIOUS
  <1>2. QmiRows = <<x>>
    BY DEF QmiRows, Split
  <1> HIDE DEF x
  <1>3. Reads(x) /\ WellFormed(x) /\ PhaseOf(x.name) = 10
    BY <1>1, PhasesOfNames DEF Reads, WellFormed, Takes, Fails
  <1>4. ReadFits(x)
    BY <1>1, <1>3 DEF ReadFits
  <1>5. Piece(<<x>>, 10, 10, k)
    BY <1>1, <1>3, <1>4, ReadPiece
  <1>6. RowsAhead(<<x>>)
    BY <1>1, <1>3, HasOne DEF RowsAhead, ReadsOf
  <1> QED
    BY <1>2, <1>5, <1>6, PhaseRange, PieceWiden

LEMMA FromBody ==
  ASSUME NEW k
  PROVE  \/ From = Err
         \/ Piece(From, 12, 12, k) /\ Field("kdo").type = Expected(change.opc[2])
  BY PieceEmpty, PhaseRange DEF From

LEMMA UspBody == ASSUME NEW k PROVE Piece(Usp, 11, 11, k)
  <1>1. Follows(11, 11)
    BY DEF Follows
  <1>2. Piece(<< >>, 11, 11, k) /\ Piece(One("usp", "Ktusp", "error"), 11, 11, k)
    BY OnePiece, PieceEmpty, PhasesOfNames, PhaseRange DEF Special
  <1>3. Piece(Call("UspColumns", FALSE), 11, 11, k)
    BY FreeCalls
  <1>4. Piece(One("usp", "Ktusp", "error") \o Call("UspColumns", FALSE), 11, 11, k)
    BY <1>1, <1>2, <1>3, PhaseRange, PieceConcat
  <1> QED
    BY <1>2, <1>4 DEF Usp

LEMMA UspColumnsBody == ASSUME NEW k PROVE Piece(UspColumns, 11, 11, k)
  <1> DEFINE cc == Field("usp").cc
             x == [take |-> "array", name |-> "uspIds", as |-> "U16s", n |-> cc, fail |-> "error"]
             y == [take |-> "array", name |-> "uspSizes", as |-> "U16s", n |-> cc, fail |-> "error"]
             z == [take |-> "raws", name |-> "uspColumns", as |-> "Raw", n |-> cc, fail |-> "error"]
  <1>1. /\ x.take = "array" /\ x.name = "uspIds" /\ x.fail = "error"
        /\ y.take = "array" /\ y.name = "uspSizes" /\ y.fail = "error"
        /\ z.take = "raws" /\ z.name = "uspColumns" /\ z.fail = "error"
    OBVIOUS
  <1>2. UspColumns = <<x>> \o <<y>> \o <<z>>
    BY DEF UspColumns, Array, Raws
  <1> HIDE DEF x, y, z
  <1>3. Piece(<<x>>, 11, 11, k) /\ Piece(<<y>>, 11, 11, k) /\ Piece(<<z>>, 11, 11, k)
    BY <1>1, PlainRead, PhasesOfNames DEF Special
  <1>4. Follows(11, 11)
    BY DEF Follows
  <1>5. Piece(<<x>> \o <<y>>, 11, 11, k)
    BY <1>3, <1>4, PhaseRange, PieceConcat
  <1>6. Piece(<<x>> \o <<y>> \o <<z>>, 11, 11, k)
    BY <1>3, <1>4, <1>5, PhaseRange, PieceConcat
  <1> QED
    BY <1>2, <1>6

LEMMA BeforeBody == ASSUME change.opc[1] = 5, NEW k, k = 3 PROVE Piece(Before, 2, 13, k)
  <1>1. Piece(KdoUndo, 2, 13, k)
    <2>0. k >= Outer
      BY DEF Outer
    <2>1. Follows(11, 11)
      BY DEF Follows
    <2>2. Piece(KdoUndo, 3, 11, k)
      BY <2>0, <2>1, FreeCalls, PhaseRange, PieceConcat DEF KdoUndo
    <2> QED
      BY <2>2, PhaseRange, PieceWiden
  <1>2. Piece(One("ktb", "KtbVector", "error"), 5, 5, k)
    BY OnePiece, PhasesOfNames DEF Special
  <1>3. Piece(LobUndo, 2, 13, k)
    <2>1. /\ Late(One("head", "KdliHead", "error"), k) /\ Late(One("elem", "KdliElem", "error"), k)
          /\ Late(Rest("rest"), k)
      BY LateOne, LateRest DEF Early
    <2>2. Piece(One("ktb", "KtbVector", "error") \o One("head", "KdliHead", "error"), 5, 13, k)
      BY <1>2, <2>1, ThenLate
    <2>3. Piece(LobUndo, 5, 13, k)
      BY <2>1, <2>2, PhaseRange, MoreLate DEF LobUndo
    <2> QED
      BY <2>3, PhaseRange, PieceWiden
  <1>4. Piece(IdxUndo, 2, 13, k)
    <2>1. /\ Late(One("kdi", "Kdxlk", "error"), k)
          /\ Late(AtLeast("key", "Raw", 1, "return"), k)
          /\ Late(AtLeast("keyData", "Raw", 1, "return"), k)
          /\ Late(AtLeast("selfLock", "Raw", 1, "return"), k)
          /\ Late(Raw("bitmap", "goon"), k)
      BY LateOne, LateRaw, LateLeast DEF Early
    <2>2. Piece(One("ktb", "KtbVector", "error") \o One("kdi", "Kdxlk", "error"), 5, 13, k)
      BY <1>2, <2>1, ThenLate
    <2>3. Piece(IdxUndo, 5, 13, k)
      BY <2>1, <2>2, PhaseRange, MoreLate DEF IdxUndo
    <2> QED
      BY <2>3, PhaseRange, PieceWiden
  <1>5. Piece(Rest("rest"), 2, 13, k) /\ Piece(<< >>, 2, 13, k)
    <2>1. Late(Rest("rest"), k)
      BY LateRest DEF Early
    <2> QED
      BY <2>1, LatePieces, PieceEmpty, PhaseRange
  <1> QED
    BY <1>1, <1>3, <1>4, <1>5 DEF Before

LEMMA KeySizesBody ==
  ASSUME NEW k, change.opc = <<10, 2>> PROVE Late(KeySizes, k)
  <1>1. Late(<< >>, k)
    BY PieceEmpty, PhaseRange DEF Late
  <1>2. Late(Array("keySizes", KeyCount, "return") \o Call("RowSlots", FALSE), k)
    <2> DEFINE x == [take |-> "array", name |-> "keySizes", as |-> "U16s", n |-> KeyCount, fail |-> "return"]
               c == [take |-> "call", fn |-> "RowSlots", catch |-> FALSE]
    <2>1. /\ x.take = "array" /\ x.name = "keySizes" /\ x.fail = "return"
          /\ c.take = "call" /\ c.fn = "RowSlots" /\ c.catch = FALSE
      OBVIOUS
    <2>2. Array("keySizes", KeyCount, "return") \o Call("RowSlots", FALSE) = <<x>> \o <<c>>
      BY DEF Array, Call
    <2> HIDE DEF x, c
    <2>3. Reads(x) /\ WellFormed(x) /\ ~Final(x) /\ x.take # "call" /\ x.take # "skip"
      BY <2>1 DEF Reads, WellFormed, Takes, Fails, Final
    <2>4. Fits(k, x)
      BY <2>1, <2>3, PhasesOfNames DEF Fits, ReadFits
    <2>5. ~Final(c) /\ ~Reads(c) /\ WellFormed(c)
      BY <2>1 DEF Reads, Final, WellFormed, Takes
    <2>6. Fits(k, c)
      BY <2>1, <2>5 DEF Fits, CallFits, Fns
    <2>7. Starts(x) = 13 /\ Ends(x) = 13
      BY <2>1, <2>3, PhasesOfNames DEF Starts, Ends
    <2>8. Starts(c) = 13 /\ Ends(c) = 13
      BY <2>1 DEF Starts, Ends, CallStarts, CallEnds
    <2>9. InOrder(x, c)
      BY <2>7, <2>8 DEF InOrder, Follows
    <2>10. Piece(<<x>> \o <<c>>, 13, 13, k)
      BY <2>1, <2>3, <2>4, <2>6, <2>7, <2>8, <2>9, PairPiece
    <2> QED
      BY <2>2, <2>10 DEF Late
  <1> QED
    BY <1>1, <1>2 DEF KeySizes

LEMMA RowSlotsBody ==
  ASSUME NEW k, change.opc = <<10, 2>>, HasRead("keySizes") PROVE BodyFits(RowSlots, 13, 13, k)
  <1>1. Piece(<< >>, 13, 13, k)
    BY PieceEmpty, PhaseRange
  <1> QED
    BY <1>1 DEF RowSlots, BodyFits, Strays

LEMMA UcfBody == ASSUME NEW k PROVE BodyFits(Ucf, 13, 13, k)
  <1>1. Late(One("ucf", "Ktucf", "goon"), k)
    BY LateOne DEF Early
  <1> QED
    BY <1>1 DEF Ucf, BodyFits, Late

LEMMA MarkerBody == ASSUME NEW k PROVE Late(Marker, k)
  <1>1. /\ Late(<< >>, k) /\ Late(One("ptx", "Ktptx", "error"), k)
        /\ Late(One("txs", "Kttxs", "error"), k) /\ Late(Raw("unknown", "error"), k)
        /\ Late(One("startScn", "Scn8", "goon"), k) /\ Late(One("minActScn", "Scn8", "error"), k)
        /\ Late(Rest("raws"), k)
    <2>1. Late(<< >>, k)
      BY PieceEmpty, PhaseRange DEF Late
    <2> QED
      BY <2>1, LateOne, LateRaw, LateRest DEF Early
  <1>2. Late(One("txs", "Kttxs", "error") \o Raw("unknown", "error") \o One("startScn", "Scn8", "goon"), k)
    BY <1>1, LateConcat
  <1>3. CASE Remaining = 0
    BY <1>1, <1>3 DEF Marker
  <1>4. CASE Remaining # 0 /\ Remaining > 0
    BY <1>1, <1>2, <1>4 DEF Marker
  <1>5. CASE Remaining # 0 /\ ~(Remaining > 0)
    BY <1>1, <1>5 DEF Marker
  <1> QED
    BY <1>3, <1>4, <1>5

-----------------------------------------------------------------------------
\* What the steps of a call need when it is made.
Ready(fn, k) ==
  /\ fn \in Fns /\ change \in Changes /\ index \in 0 .. Len(change.spans)
  /\ HasRead("kdo") => Field("kdo").nnew \in Nat
  /\ fn = "Change" => k = 2 /\ index = 0
  /\ fn \in {"Change", "Kdop"} => ~HasRead("kdo")
  /\ fn \in {"Kdop", "DoH"} => k > Outer
  /\ fn = "Before" => k = 3 /\ change.opc[1] = 5
  /\ fn = "Row" => HasRead("kdo") /\ index = At("kdo").at
  /\ fn = "UrpColumns" => KdoIs({"Urp"}) /\ HasRead("ids")
  /\ fn = "QmiRows" => KdoIs({"Qmi"}) /\ HasRead("sizes")
  /\ fn \in {"KeySizes", "RowSlots"} => change.opc = <<10, 2>>
  /\ fn = "RowSlots" => HasRead("keySizes")

\* The steps of a call fit, and lie between the phases of the call.
LEMMA Bodies ==
  ASSUME NEW k, NEW fn, Ready(fn, k)
  PROVE  BodyFits(Body(fn), CallStarts(fn), CallEnds(fn), k)
  <1>1. ASSUME NEW b, NEW lo, NEW hi, Piece(b, lo, hi, k) PROVE BodyFits(b, lo, hi, k)
    BY <1>1 DEF BodyFits
  <1>2. CASE fn = "Change"
    <2>1. k = 2 /\ BodyFits(parse_to_show, 0, 13, 2)
      BY <1>2, ChangeBody DEF Ready
    <2>2. Body(fn) = parse_to_show /\ CallStarts(fn) = 0 /\ CallEnds(fn) = 13
      BY <1>2 DEF Body, CallStarts, CallEnds
    <2> QED
      BY <2>1, <2>2
  <1>3. CASE fn = "DoH"
    <2>1. Body(fn) = DoH /\ CallStarts(fn) = 4 /\ CallEnds(fn) = 6
      BY <1>3 DEF Body, CallStarts, CallEnds
    <2> QED
      BY <1>3, <2>1, DoHBody DEF BodyFits, Ready
  <1>4. CASE fn = "Row"
    <2>1. Body(fn) = Row /\ CallStarts(fn) = 7 /\ CallEnds(fn) = 11
      BY <1>4 DEF Body, CallStarts, CallEnds
    <2> QED
      BY <1>4, <2>1, RowBody DEF Ready
  <1>5. CASE fn = "UrpColumns"
    <2>1. Body(fn) = UrpColumns /\ CallStarts(fn) = 9 /\ CallEnds(fn) = 11
      BY <1>5 DEF Body, CallStarts, CallEnds
    <2> QED
      BY <1>1, <1>5, <2>1, UrpColumnsBody DEF Ready
  <1>6. CASE fn = "QmiRows"
    <2>1. Body(fn) = QmiRows /\ CallStarts(fn) = 9 /\ CallEnds(fn) = 10
      BY <1>6 DEF Body, CallStarts, CallEnds
    <2> QED
      BY <1>1, <1>6, <2>1, QmiRowsBody DEF Ready
  <1>7. CASE fn = "Kdop"
    <2>1. Body(fn) = Kdop /\ CallStarts(fn) = 3 /\ CallEnds(fn) = 11
      BY <1>7 DEF Body, CallStarts, CallEnds
    <2> QED
      BY <1>1, <1>7, <2>1, KdopBody DEF Ready
  <1>8. CASE fn = "From"
    <2>1. Body(fn) = From /\ CallStarts(fn) = 12 /\ CallEnds(fn) = 12
      BY <1>8 DEF Body, CallStarts, CallEnds
    <2> QED
      BY <2>1, FromBody DEF BodyFits
  <1>9. CASE fn \in {"Usp", "UspColumns"}
    <2>1. /\ Body(fn) = IF fn = "Usp" THEN Usp ELSE UspColumns
          /\ CallStarts(fn) = 11 /\ CallEnds(fn) = 11
      BY <1>9 DEF Body, CallStarts, CallEnds
    <2> QED
      BY <1>1, <1>9, <2>1, UspBody, UspColumnsBody
  <1>10. CASE fn = "Before"
    <2>1. Body(fn) = Before /\ CallStarts(fn) = 2 /\ CallEnds(fn) = 13
      BY <1>10 DEF Body, CallStarts, CallEnds
    <2> QED
      BY <1>1, <1>10, <2>1, BeforeBody DEF Ready
  <1>11. CASE fn \in {"Ucf", "KeySizes", "RowSlots", "Marker"}
    <2>1. CallStarts(fn) = 13 /\ CallEnds(fn) = 13
      BY <1>11 DEF CallStarts, CallEnds
    <2>2. CASE fn = "Ucf"
      BY <2>1, <2>2, UcfBody DEF Body
    <2>3. CASE fn = "KeySizes"
      BY <1>1, <2>1, <2>3, KeySizesBody DEF Body, Late, Ready
    <2>4. CASE fn = "RowSlots"
      BY <2>1, <2>4, RowSlotsBody DEF Body, Ready
    <2>5. CASE fn = "Marker"
      BY <1>1, <2>1, <2>5, MarkerBody DEF Body, Late
    <2> QED
      BY <1>11, <2>2, <2>3, <2>4, <2>5
  <1> QED
    BY <1>2, <1>3, <1>4, <1>5, <1>6, <1>7, <1>8, <1>9, <1>10, <1>11 DEF Ready, Fns

-----------------------------------------------------------------------------
(* The control invariant                                                   *)

\* A call or a field of these is still to be made or read.
Pending(s, fns, names) == \E k \in 1 .. Len(s) : Has(s[k].steps, fns, names)

\* Every step that waits fits; a failure is the next step, or there is none.
AllFit ==
  \A k \in 1 .. Len(stack) : \A j \in 1 .. Len(stack[k].steps) :
    LET x == stack[k].steps[j] IN
      \/ Fits(k, x)
      \/ Final(x) /\ k = Len(stack) /\ j = 1 /\ (x.take = "undefined" => Strays)

\* The steps of the inner parsers come first.
SortedStack(s) ==
  /\ \A k \in 1 .. Len(s) : SortedIn(s[k].steps)
  /\ \A m, k \in 1 .. Len(s) :
       m < k => \A i \in 1 .. Len(s[k].steps) : \A j \in 1 .. Len(s[m].steps) :
                  InOrder(s[k].steps[i], s[m].steps[j])
Sorted == SortedStack(stack)

\* What has been read is not behind what is still to be read.
GotBefore ==
  \A g \in 1 .. Len(got) : \A k \in 1 .. Len(stack) : \A j \in 1 .. Len(stack[k].steps) :
    \/ Final(stack[k].steps[j])
    \/ Follows(PhaseOf(got[g].name), Starts(stack[k].steps[j]))

\* The outermost parser has nothing to do but to call the one of the change.
FirstFrame ==
  stack # << >> /\ stack[1].steps # << >> =>
    /\ Len(stack) = 1 /\ Len(stack[1].steps) = 1 /\ index = 0
    /\ Calls(stack[1].steps[1], {"Change"})

\* Only the parser of a supplemental is left out when it fails.
Catches == \A k \in 1 .. Len(stack) : stack[k].catch => k >= 3 /\ KdoIs({"Cfa", "Lmn"})

\* A parser that needs a field is called by the one that reads it.
FramesPrepared == \A k \in 1 .. Len(stack) : AllPrepared(stack[k].steps)

\* The next step is a failure.
ErrTop == Taking({"err"})

\* A row, or the check of its type, waits: its head has been or will be read.
KdoComes ==
  Pending(stack, {"Row", "From"}, {}) =>
    HasRead("kdo") \/ Pending(stack, {"Kdop", "DoH"}, {"kdo"}) \/ ErrTop

\* The head of the row has been or will be read: the row is there or will be.
RowComes ==
  res = "parsing" /\ (HasRead("kdo") \/ Pending(stack, {"DoH"}, {"kdo"})) =>
    \/ HasRead("kdo") /\ RowDone
    \/ Pending(stack, {"Row", "UrpColumns", "QmiRows"}, {"packed", "columns", "rows"})

\* In layer 11 the type of a row is checked against the code of the change, or nothing
\* comes of the row.
FromComes ==
  res = "parsing" /\ change.opc[1] = 11
      /\ (HasRead("kdo") \/ Pending(stack, {"Kdop", "DoH"}, {"kdo"})) =>
    \/ HasRead("kdo") /\ Field("kdo").type = Expected(change.opc[2])
    \/ Pending(stack, {"From"}, {})
    \/ ErrTop /\ \A k \in 1 .. Len(stack) : ~stack[k].catch

\* The numbers read that later steps count with.
GotTyped ==
  \A g \in 1 .. Len(got) :
    /\ got[g].inside \in BOOLEAN
    /\ got[g].name = "kdo" => got[g].v.n \in Nat /\ got[g].v.nnew \in Nat
    /\ got[g].name = "ids" => got[g].v \in Seq(Nat)

\* What the theorems are about.
Outcome ==
  /\ res \in {"parsing", "ok", "error", "undefined"}
  /\ res # "parsing" => stack = << >>
  /\ UndefinedOnly /\ ColumnsComplete

CInv ==
  /\ IInv
  /\ Frames(stack) /\ AllFit /\ Sorted /\ GotBefore /\ FirstFrame /\ Catches
  /\ FramesPrepared /\ KdoComes /\ RowComes /\ FromComes /\ GotTyped /\ Outcome

-----------------------------------------------------------------------------
\* The stack with its innermost steps behind the first z, or cut short.
Shift(k, z) == IF k = Len(stack) THEN z ELSE 0
Kept(d, z) ==
  /\ Frames(d) /\ Len(d) <= Len(stack)
  /\ \A k \in 1 .. Len(d) :
       /\ d[k].catch = stack[k].catch
       /\ Len(d[k].steps) + Shift(k, z) <= Len(stack[k].steps)
       /\ \A j \in 1 .. Len(d[k].steps) : d[k].steps[j] = stack[k].steps[j + Shift(k, z)]

LEMMA TopIs ==
  ASSUME Frames(stack), stack # << >>
  PROVE  /\ Len(stack) \in Nat \ {0} /\ Len(stack) \in 1 .. Len(stack)
         /\ Top = stack[Len(stack)] /\ Formed(Top.steps) /\ IsFrame(Top)
         /\ Top.steps # << >> =>
              /\ Len(Top.steps) \in Nat \ {0} /\ 1 \in 1 .. Len(Top.steps)
              /\ Step = Top.steps[1] /\ WellFormed(Step)
  <1>1. Len(stack) \in Nat \ {0}
    BY SplitSeq DEF Frames
  <1>2. Len(stack) \in 1 .. Len(stack) /\ Top = stack[Len(stack)]
    BY <1>1 DEF Top
  <1>3. IsFrame(Top) /\ Formed(Top.steps)
    BY <1>2 DEF Frames, IsFrame
  <1>4. ASSUME Top.steps # << >>
        PROVE  /\ Len(Top.steps) \in Nat \ {0} /\ 1 \in 1 .. Len(Top.steps)
               /\ Step = Top.steps[1] /\ WellFormed(Step)
    <2>1. Len(Top.steps) \in Nat \ {0} /\ Head(Top.steps) = Top.steps[1]
      BY <1>3, <1>4, SplitSeq DEF Formed
    <2>2. 1 \in 1 .. Len(Top.steps)
      BY <2>1
    <2> QED
      BY <1>3, <2>1, <2>2 DEF Formed, Step
  <1> QED
    BY <1>1, <1>2, <1>3, <1>4

LEMMA DoneIs ==
  ASSUME Frames(stack), stack # << >>, Top.steps # << >>
  PROVE  /\ Kept(Done, 1) /\ Len(Done) = Len(stack) /\ Done # << >>
         /\ \A k \in 1 .. Len(stack) - 1 : Done[k] = stack[k]
         /\ Done[Len(stack)].steps = Tail(Top.steps)
         /\ Len(Tail(Top.steps)) = Len(Top.steps) - 1
         /\ \A j \in 1 .. Len(Top.steps) - 1 : Tail(Top.steps)[j] = Top.steps[j + 1]
  <1> DEFINE d == Done
             t == Tail(Top.steps)
             n == Len(stack)
  <1>1. n \in Nat \ {0} /\ Top = stack[n] /\ Formed(Top.steps)
    BY TopIs
  <1>2. /\ Formed(t) /\ Len(t) = Len(Top.steps) - 1 /\ Len(Top.steps) \in Nat \ {0}
        /\ \A j \in 1 .. Len(Top.steps) - 1 : t[j] = Top.steps[j + 1]
    BY <1>1, FormedTail, SplitSeq DEF Formed
  <1>3. d = WithTop(stack, t)
    BY <1>1 DEF Done, WithTop
  <1> HIDE DEF d, t
  <1>4. /\ Frames(d) /\ d # << >> /\ Len(d) = n
        /\ \A k \in 1 .. n - 1 : d[k] = stack[k]
        /\ d[n].steps = t
        /\ \A k \in 1 .. n : d[k].catch = stack[k].catch
    BY <1>2, <1>3, TopSet
  <1> HIDE DEF n
  <1>5. ASSUME NEW k \in 1 .. n
        PROVE  /\ Len(d[k].steps) + Shift(k, 1) <= Len(stack[k].steps)
               /\ \A j \in 1 .. Len(d[k].steps) : d[k].steps[j] = stack[k].steps[j + Shift(k, 1)]
    <2>1. CASE k = n
      <3>1. Shift(k, 1) = 1
        BY <2>1 DEF Shift, n
      <3>2. d[k].steps = t /\ stack[k].steps = Top.steps
        BY <1>1, <1>4, <2>1
      <3> QED
        BY <1>2, <3>1, <3>2
    <2>2. CASE k # n
      <3>1. k \in 1 .. n - 1 /\ k \in 1 .. Len(stack)
        BY <1>1, <2>2 DEF n
      <3>2. Shift(k, 1) = 0
        BY <2>2 DEF Shift, n
      <3>3. d[k].steps = stack[k].steps /\ Len(stack[k].steps) \in Nat
        BY <1>4, <3>1, SplitSeq DEF Frames, IsFrame, Formed
      <3>4. PICK s : s = stack[k].steps
        OBVIOUS
      <3>5. Len(s) + 0 <= Len(s) /\ \A j \in 1 .. Len(s) : j + 0 = j
        BY <3>3, <3>4
      <3> QED
        BY <3>2, <3>3, <3>4, <3>5
    <2> QED
      BY <2>1, <2>2
  <1>6. Len(d) <= n
    BY <1>1, <1>4
  <1>7. Kept(d, 1)
    BY <1>4, <1>5, <1>6 DEF Kept, n
  <1> QED
    BY <1>2, <1>4, <1>7 DEF d, t, n

LEMMA ReturnedIs ==
  ASSUME Frames(stack), stack # << >>
  PROVE  /\ Kept(Returned, 1) \/ Top.steps = << >>
         /\ Len(Returned) = Len(stack) /\ Returned # << >>
         /\ \A k \in 1 .. Len(stack) - 1 : Returned[k] = stack[k]
         /\ Returned[Len(stack)].steps = << >>
  <1> DEFINE d == Returned
             n == Len(stack)
  <1>1. n \in Nat \ {0} /\ Top = stack[n] /\ Formed(Top.steps)
    BY TopIs
  <1>2. Formed(<< >>) /\ Len(<< >>) = 0
    BY EmptyIsSeq DEF Formed
  <1>3. d = WithTop(stack, << >>)
    BY <1>1 DEF Returned, WithTop
  <1> HIDE DEF d
  <1>4. /\ Frames(d) /\ d # << >> /\ Len(d) = n
        /\ \A k \in 1 .. n - 1 : d[k] = stack[k]
        /\ d[n].steps = << >>
        /\ \A k \in 1 .. n : d[k].catch = stack[k].catch
    BY <1>2, <1>3, TopSet
  <1> HIDE DEF n
  <1>5. ASSUME NEW k \in 1 .. n, Top.steps # << >>
        PROVE  /\ Len(d[k].steps) + Shift(k, 1) <= Len(stack[k].steps)
               /\ \A j \in 1 .. Len(d[k].steps) : d[k].steps[j] = stack[k].steps[j + Shift(k, 1)]
    <2>1. CASE k = n
      <3>1. Shift(k, 1) = 1
        BY <2>1 DEF Shift, n
      <3>2. Len(stack[k].steps) \in Nat \ {0}
        BY <1>1, <1>5, <2>1, SplitSeq DEF Formed
      <3>3. Len(d[k].steps) = 0
        BY <1>2, <1>4, <2>1
      <3>4. 0 + 1 <= Len(stack[k].steps) /\ 1 .. 0 = {}
        BY <3>2
      <3> QED
        BY <3>1, <3>3, <3>4
    <2>2. CASE k # n
      <3>1. k \in 1 .. n - 1 /\ k \in 1 .. Len(stack)
        BY <1>1, <2>2 DEF n
      <3>2. Shift(k, 1) = 0
        BY <2>2 DEF Shift, n
      <3>3. d[k].steps = stack[k].steps /\ Len(stack[k].steps) \in Nat
        BY <1>4, <3>1, SplitSeq DEF Frames, IsFrame, Formed
      <3>4. PICK s : s = stack[k].steps
        OBVIOUS
      <3>5. Len(s) + 0 <= Len(s) /\ \A j \in 1 .. Len(s) : j + 0 = j
        BY <3>3, <3>4
      <3> QED
        BY <3>2, <3>3, <3>4, <3>5
    <2> QED
      BY <2>1, <2>2
  <1>6. Len(d) <= n
    BY <1>1, <1>4
  <1>7. Kept(d, 1) \/ Top.steps = << >>
    BY <1>4, <1>5, <1>6 DEF Kept, n
  <1> QED
    BY <1>4, <1>7 DEF d, n

LEMMA CutIs ==
  ASSUME Frames(stack), stack # << >>, NEW m \in 0 .. Len(stack) - 1,
         NEW d, d = SubSeq(stack, 1, m)
  PROVE  /\ Kept(d, 1) /\ Len(d) = m
         /\ \A k \in 1 .. m : d[k] = stack[k]
  <1>1. Len(stack) \in Nat \ {0}
    BY TopIs
  <1>2. m \in 0 .. Len(stack)
    BY <1>1
  <1>3. Frames(d) /\ Len(d) = m /\ \A k \in 1 .. m : d[k] = stack[k]
    BY <1>2, CutTo
  <1>4. ASSUME NEW k \in 1 .. m
        PROVE  /\ Len(d[k].steps) + Shift(k, 1) <= Len(stack[k].steps)
               /\ \A j \in 1 .. Len(d[k].steps) : d[k].steps[j] = stack[k].steps[j + Shift(k, 1)]
    <2>1. k \in 1 .. Len(stack) /\ k # Len(stack)
      BY <1>1
    <2>2. Shift(k, 1) = 0
      BY <2>1 DEF Shift
    <2>3. d[k].steps = stack[k].steps /\ Len(stack[k].steps) \in Nat
      BY <1>3, <2>1, SplitSeq DEF Frames, IsFrame, Formed
    <2>4. PICK s : s = stack[k].steps
      OBVIOUS
    <2>5. Len(s) + 0 <= Len(s) /\ \A j \in 1 .. Len(s) : j + 0 = j
      BY <2>3, <2>4
    <2> QED
      BY <2>2, <2>3, <2>4, <2>5
  <1>5. Len(d) <= Len(stack)
    BY <1>1, <1>3
  <1> QED
    BY <1>3, <1>4, <1>5 DEF Kept

LEMMA StackIs ==
  ASSUME Frames(stack) PROVE Kept(stack, 0)
  <1>1. Len(stack) \in Nat
    BY SplitSeq DEF Frames
  <1>2. ASSUME NEW k \in 1 .. Len(stack)
        PROVE  /\ Len(stack[k].steps) + Shift(k, 0) <= Len(stack[k].steps)
               /\ \A j \in 1 .. Len(stack[k].steps) : stack[k].steps[j] = stack[k].steps[j + Shift(k, 0)]
    <2>1. Shift(k, 0) = 0
      BY DEF Shift
    <2>2. PICK s : s = stack[k].steps
      OBVIOUS
    <2>3. Len(s) \in Nat
      BY <2>2, SplitSeq DEF Frames, IsFrame, Formed
    <2>4. Len(s) + 0 <= Len(s) /\ \A j \in 1 .. Len(s) : j + 0 = j
      BY <2>3
    <2> QED
      BY <2>1, <2>2, <2>4
  <1> QED
    BY <1>1, <1>2 DEF Kept

-----------------------------------------------------------------------------
(* Least and greatest numbers                                              *)

\* Every non-empty set of naturals has a least element.
LEMMA LeastOf ==
  ASSUME NEW S, S \subseteq Nat, S # {}
  PROVE  \E n \in S : \A m \in S : n <= m
  <1>1. PICK n \in S : \A m \in S : ~ (<<m, n>> \in OpToRel(<, Nat))
    BY NatLessThanWellFounded, WFMin
  <1>2. \A m \in S : ~ (m < n)
    BY <1>1 DEF OpToRel
  <1> QED
    BY <1>2

LEMMA GreatestOf ==
  ASSUME NEW n \in Nat, NEW S, S \subseteq 1 .. n, S # {}
  PROVE  \E k \in S : \A j \in S : j <= k
  <1> DEFINE T == {n - k : k \in S}
  <1>1. T \subseteq Nat /\ T # {}
    <2>1. ASSUME NEW k \in S PROVE n - k \in Nat
      BY <2>1
    <2>2. PICK k : k \in S
      OBVIOUS
    <2>3. n - k \in T
      BY <2>2
    <2> QED
      BY <2>1, <2>3
  <1>2. PICK m \in T : \A i \in T : m <= i
    <2> HIDE DEF T
    <2> QED
      BY <1>1, LeastOf
  <1>3. PICK k \in S : m = n - k
    BY <1>2
  <1>4. ASSUME NEW j \in S PROVE j <= k
    <2>1. n - j \in T
      OBVIOUS
    <2>2. n - k <= n - j
      BY <1>2, <1>3, <2>1
    <2> QED
      BY <2>2
  <1> QED
    BY <1>4

-----------------------------------------------------------------------------
(* Sums                                                                     *)

\* The running sum of a sequence.
Sums(s, f, n) == f = [k \in 0 .. n |-> IF k = 0 THEN 0 ELSE f[k - 1] + s[k]]

LEMMA SumsExist ==
  ASSUME NEW s \in Seq(Nat)
  PROVE  \A n \in 0 .. Len(s) : \E f : Sums(s, f, n)
  <1> DEFINE Bad == {n \in 0 .. Len(s) : ~ \E f : Sums(s, f, n)}
  <1> SUFFICES ASSUME Bad # {} PROVE FALSE
    OBVIOUS
  <1>0. Len(s) \in Nat
    OBVIOUS
  <1>1. PICK n \in Bad : \A m \in Bad : n <= m
    <2>1. Bad \subseteq Nat
      OBVIOUS
    <2> HIDE DEF Bad
    <2> QED
      BY <2>1, LeastOf
  <1>2. CASE n = 0
    <2> DEFINE f == [k \in 0 .. 0 |-> 0]
    <2>1. Sums(s, f, 0)
      BY DEF Sums
    <2> QED
      BY <1>1, <1>2, <2>1
  <1>3. CASE n # 0
    <2>1. n - 1 \in 0 .. Len(s) /\ n - 1 \notin Bad
      BY <1>0, <1>1, <1>3
    <2>2. PICK f : Sums(s, f, n - 1)
      BY <2>1
    <2> DEFINE g == [k \in 0 .. n |-> IF k = n THEN f[n - 1] + s[n] ELSE f[k]]
    <2>3. ASSUME NEW k \in 0 .. n PROVE g[k] = IF k = 0 THEN 0 ELSE g[k - 1] + s[k]
      <3>1. k # 0 => k - 1 \in 0 .. n /\ g[k - 1] = f[k - 1]
        BY <2>1
      <3>2. CASE k = n
        BY <1>3, <3>1, <3>2
      <3>3. CASE k # n
        <4>1. k \in 0 .. n - 1
          BY <2>1, <3>3
        <4>2. f[k] = IF k = 0 THEN 0 ELSE f[k - 1] + s[k]
          BY <2>2, <4>1, Zenon DEF Sums
        <4> QED
          BY <3>1, <3>3, <4>2
      <3> QED
        BY <3>2, <3>3
    <2>4. g = [k \in 0 .. n |-> g[k]]
      OBVIOUS
    <2> HIDE DEF g
    <2>5. Sums(s, g, n)
      BY <2>3, <2>4 DEF Sums
    <2> QED
      BY <1>1, <2>5
  <1> QED
    BY <1>2, <1>3

LEMMA SumIsNat == ASSUME NEW s \in Seq(Nat) PROVE SumOf(s) \in Nat
  <1> DEFINE f == CHOOSE f : Sums(s, f, Len(s))
  <1>0. Len(s) \in Nat
    OBVIOUS
  <1>1. SumOf(s) = f[Len(s)]
    BY DEF SumOf, Sums
  <1>2. Sums(s, f, Len(s))
    BY <1>0, SumsExist
  <1> HIDE DEF f
  <1>3. \A k \in 0 .. Len(s) : f[k] = IF k = 0 THEN 0 ELSE f[k - 1] + s[k]
    BY <1>2, Zenon DEF Sums
  <1> DEFINE Bad == {k \in 0 .. Len(s) : f[k] \notin Nat}
  <1>4. CASE Bad = {}
    BY <1>0, <1>1, <1>4
  <1>5. CASE Bad # {}
    <2>1. Bad \subseteq Nat
      OBVIOUS
    <2>2. PICK k \in Bad : \A m \in Bad : k <= m
      <3> HIDE DEF Bad
      <3> QED
        BY <1>5, <2>1, LeastOf
    <2>3. k # 0
      BY <1>3, <2>2
    <2>4. k - 1 \in 0 .. Len(s) /\ k - 1 \notin Bad
      BY <1>0, <2>2, <2>3
    <2>5. f[k - 1] \in Nat /\ s[k] \in Nat
      BY <2>2, <2>3, <2>4
    <2> QED
      BY <1>3, <2>2, <2>3, <2>5
  <1> QED
    BY <1>4, <1>5

-----------------------------------------------------------------------------
(* The fields that have been read                                           *)

\* A field has the name, and the last that has.
Named(s, name) == \E k \in DOMAIN s : s[k].name = name
LastPlace(s, name) ==
  CHOOSE k \in DOMAIN s :
    s[k].name = name /\ \A j \in DOMAIN s : s[j].name = name => j <= k

LEMMA LastPlaceIs ==
  ASSUME NEW s, IsSeq(s), NEW name, Named(s, name)
  PROVE  /\ LastPlace(s, name) \in 1 .. Len(s)
         /\ s[LastPlace(s, name)].name = name
         /\ \A j \in 1 .. Len(s) : s[j].name = name => j <= LastPlace(s, name)
  <1>1. DOMAIN s = 1 .. Len(s) /\ Len(s) \in Nat
    BY SplitSeq
  <1> DEFINE S == {k \in 1 .. Len(s) : s[k].name = name}
  <1>2. PICK k \in S : \A j \in S : j <= k
    <2>1. S \subseteq 1 .. Len(s) /\ S # {}
      BY <1>1 DEF Named
    <2> HIDE DEF S
    <2> QED
      BY <1>1, <2>1, GreatestOf
  <1>3. \E i \in DOMAIN s :
          s[i].name = name /\ \A j \in DOMAIN s : s[j].name = name => j <= i
    BY <1>1, <1>2
  <1> QED
    BY <1>1, <1>3 DEF LastPlace

LEMMA FieldsByPlace ==
  /\ \A name : (HasRead(name) <=> Named(got, name)) /\ At(name) = got[LastPlace(got, name)]
  /\ \A name : (HasRead(name)' <=> Named(got', name)) /\ At(name)' = got'[LastPlace(got', name)]
  BY DEF HasRead, Named, At, LastPlace

\* More fields: the earlier ones stay, and a name that is not read again keeps
\* its last field.
LEMMA FieldsMore ==
  ASSUME NEW s, IsSeq(s), NEW es, IsSeq(es), NEW name
  PROVE  /\ Named(s \o es, name) <=> Named(s, name) \/ Named(es, name)
         /\ Named(s, name) /\ ~Named(es, name) =>
              (s \o es)[LastPlace(s \o es, name)] = s[LastPlace(s, name)]
         /\ Named(es, name) =>
              (s \o es)[LastPlace(s \o es, name)] = es[LastPlace(es, name)]
  <1> DEFINE t == s \o es
  <1>1. /\ IsSeq(t) /\ Len(s) \in Nat /\ Len(es) \in Nat /\ Len(t) = Len(s) + Len(es)
        /\ \A k \in 1 .. Len(t) : t[k] = IF k <= Len(s) THEN s[k] ELSE es[k - Len(s)]
    BY ConcatIsSeq
  <1>2. DOMAIN s = 1 .. Len(s) /\ DOMAIN es = 1 .. Len(es) /\ DOMAIN t = 1 .. Len(t)
    <2> HIDE DEF t
    <2> QED
      BY <1>1, SplitSeq
  <1> HIDE DEF t
  <1>3. \A k \in 1 .. Len(s) : k \in 1 .. Len(t) /\ t[k] = s[k]
    BY <1>1
  <1>4. ASSUME NEW k \in 1 .. Len(es)
        PROVE  k + Len(s) \in 1 .. Len(t) /\ t[k + Len(s)] = es[k]
    <2>1. k + Len(s) \in 1 .. Len(t) /\ ~(k + Len(s) <= Len(s)) /\ (k + Len(s)) - Len(s) = k
      BY <1>1
    <2> QED
      BY <1>1, <2>1
  <1>5. ASSUME NEW k \in 1 .. Len(t)
        PROVE  k \in 1 .. Len(s) \/ (k > Len(s) /\ k - Len(s) \in 1 .. Len(es) /\ t[k] = es[k - Len(s)])
    BY <1>1
  <1>6. Named(t, name) <=> Named(s, name) \/ Named(es, name)
    <2>1. ASSUME Named(t, name) PROVE Named(s, name) \/ Named(es, name)
      <3>1. PICK k \in 1 .. Len(t) : t[k].name = name
        BY <1>2, <2>1 DEF Named
      <3>2. CASE k \in 1 .. Len(s)
        BY <1>2, <1>3, <3>1, <3>2 DEF Named
      <3>3. CASE k \notin 1 .. Len(s)
        <4>1. k - Len(s) \in 1 .. Len(es) /\ t[k] = es[k - Len(s)]
          BY <1>5, <3>3
        <4> QED
          BY <1>2, <3>1, <4>1 DEF Named
      <3> QED
        BY <3>2, <3>3
    <2>2. ASSUME Named(s, name) PROVE Named(t, name)
      BY <1>2, <1>3, <2>2 DEF Named
    <2>3. ASSUME Named(es, name) PROVE Named(t, name)
      <3>1. PICK k \in 1 .. Len(es) : es[k].name = name
        BY <1>2, <2>3 DEF Named
      <3>2. k + Len(s) \in 1 .. Len(t) /\ t[k + Len(s)].name = name
        BY <1>4, <3>1
      <3> QED
        BY <1>2, <3>2 DEF Named
    <2> QED
      BY <2>1, <2>2, <2>3
  <1>7. ASSUME Named(s, name), ~Named(es, name)
        PROVE  t[LastPlace(t, name)] = s[LastPlace(s, name)]
    <2> DEFINE k == LastPlace(t, name)
               i == LastPlace(s, name)
    <2>1. /\ k \in 1 .. Len(t) /\ t[k].name = name
          /\ \A j \in 1 .. Len(t) : t[j].name = name => j <= k
      BY <1>1, <1>6, <1>7, LastPlaceIs
    <2>2. /\ i \in 1 .. Len(s) /\ s[i].name = name
          /\ \A j \in 1 .. Len(s) : s[j].name = name => j <= i
      BY <1>7, LastPlaceIs
    <2> HIDE DEF k, i
    <2>3. k \in 1 .. Len(s)
      BY <1>2, <1>5, <1>7, <2>1 DEF Named
    <2>4. k <= i /\ i <= k
      BY <1>3, <2>1, <2>2, <2>3
    <2>5. k = i
      BY <1>1, <2>2, <2>3, <2>4
    <2> QED
      BY <1>3, <2>3, <2>5 DEF k, i
  <1>8. ASSUME Named(es, name)
        PROVE  t[LastPlace(t, name)] = es[LastPlace(es, name)]
    <2> DEFINE k == LastPlace(t, name)
               i == LastPlace(es, name)
    <2>1. /\ k \in 1 .. Len(t) /\ t[k].name = name
          /\ \A j \in 1 .. Len(t) : t[j].name = name => j <= k
      BY <1>1, <1>6, <1>8, LastPlaceIs
    <2>2. /\ i \in 1 .. Len(es) /\ es[i].name = name
          /\ \A j \in 1 .. Len(es) : es[j].name = name => j <= i
      BY <1>8, LastPlaceIs
    <2> HIDE DEF k, i
    <2>3. i + Len(s) \in 1 .. Len(t) /\ t[i + Len(s)] = es[i]
      BY <1>4, <2>2
    <2>4. i + Len(s) <= k
      BY <2>1, <2>2, <2>3
    <2>5. k > Len(s) /\ k - Len(s) \in 1 .. Len(es) /\ t[k] = es[k - Len(s)]
      BY <1>1, <1>5, <2>1, <2>2, <2>4
    <2>6. k - Len(s) <= i
      BY <2>1, <2>2, <2>5
    <2>7. k - Len(s) = i
      <3>1. PICK n : n = Len(s)
        OBVIOUS
      <3>2. n \in Nat /\ k \in Nat /\ i \in Nat /\ i + n <= k /\ k - n <= i
        BY <1>1, <2>1, <2>2, <2>4, <2>6, <3>1
      <3>3. k - n = i
        BY <3>2
      <3> QED
        BY <3>1, <3>3
    <2> QED
      BY <2>5, <2>7 DEF k, i
  <1> QED
    BY <1>6, <1>7, <1>8 DEF t

-----------------------------------------------------------------------------
(* What has been read stays                                                *)

\* What has been read stays; the head of the row and the column numbers are read
\* once.
Grown ==
  /\ change' = change
  /\ \A name : HasRead(name) => HasRead(name)'
  /\ HasRead("kdo") => At("kdo")' = At("kdo")
  /\ HasRead("ids") => At("ids")' = At("ids")
  /\ CountRead("columns")' >= CountRead("columns")
  /\ CountRead("columns") \in Nat /\ CountRead("columns")' \in Nat

LEMMA KdoKept ==
  ASSUME Grown, NEW types, KdoIs(types)
  PROVE  KdoIs(types)' /\ Field("kdo")' = Field("kdo")
  BY DEF Grown, KdoIs, Field

LEMMA CallFitsKept ==
  ASSUME Grown, NEW k, NEW x, CallFits(k, x),
         x.fn = "Row" /\ HasRead("kdo")' => index' = At("kdo")'.at
  PROVE  CallFits(k, x)'
  <1>1. \A types : KdoIs(types) => KdoIs(types)'
    BY KdoKept
  <1>2. change' = change /\ Outer' = Outer
    BY DEF Grown, Outer
  <1> QED
    BY <1>1, <1>2 DEF CallFits

LEMMA ReadFitsKept ==
  ASSUME Grown, NEW x, ReadFits(x) PROVE ReadFits(x)'
  <1>1. \A types : KdoIs(types) => KdoIs(types)'
    BY KdoKept
  <1>2. change' = change /\ \A name : HasRead(name) => HasRead(name)'
    BY DEF Grown
  <1>3. ColumnsFit(x) => ColumnsFit(x)'
    <2> SUFFICES ASSUME ColumnsFit(x) PROVE ColumnsFit(x)'
      OBVIOUS
    <2>1. Field("kdo")' = Field("kdo") /\ KdoIs({"Irp", "Orp", "Urp"})'
      BY KdoKept DEF ColumnsFit
    <2>2. HasRead("ids") => HasRead("ids")' /\ Field("ids")' = Field("ids")
      BY DEF Grown, Field
    <2> QED
      BY <2>1, <2>2 DEF ColumnsFit
  <1> QED
    BY <1>1, <1>2, <1>3 DEF ReadFits

LEMMA FitsKept ==
  ASSUME Grown, NEW k, NEW x, Fits(k, x),
         Calls(x, {"Row"}) /\ HasRead("kdo")' => index' = At("kdo")'.at
  PROVE  Fits(k, x)'
  <1>1. x.take = "call" => CallFits(k, x)'
    BY CallFitsKept DEF Fits, Calls
  <1>2. Reads(x) => ReadFits(x)'
    BY ReadFitsKept DEF Fits
  <1>3. Outer' = Outer
    BY DEF Grown, Outer
  <1> QED
    BY <1>1, <1>2, <1>3 DEF Fits

LEMMA RowDoneKept ==
  ASSUME Grown, HasRead("kdo"), RowDone,
         Field("kdo").n \in Nat, Field("kdo").nnew \in Nat
  PROVE  RowDone'
  <1> DEFINE kdo == Field("kdo")
             c == CountRead("columns")
  <1>1. Field("kdo")' = kdo /\ At("kdo")' = At("kdo") /\ change' = change
    BY DEF Grown, Field
  <1>2. \A name : HasRead(name) => HasRead(name)'
    BY DEF Grown
  <1>3. (c >= kdo.n => c' >= kdo.n) /\ (c >= kdo.nnew => c' >= kdo.nnew)
    <2> HIDE DEF c, kdo
    <2>1. c' >= c /\ c \in Nat /\ c' \in Nat
      BY DEF Grown, c
    <2>2. kdo.n \in Nat /\ kdo.nnew \in Nat
      BY DEF kdo
    <2> QED
      BY <2>1, <2>2
  <1> QED
    BY <1>1, <1>2, <1>3 DEF RowDone

-----------------------------------------------------------------------------
(* A step that reads nothing, and one that reads                            *)

\* How many fields have a name.
LEMMA Counted ==
  ASSUME NEW s, IsSeq(s), NEW name
  PROVE  IsFiniteSet({k \in DOMAIN s : s[k].name = name})
         /\ Cardinality({k \in DOMAIN s : s[k].name = name}) \in Nat
  <1> DEFINE S == {k \in DOMAIN s : s[k].name = name}
  <1>1. DOMAIN s = 1 .. Len(s) /\ Len(s) \in Nat
    BY SplitSeq
  <1>2. IsFiniteSet(1 .. Len(s))
    BY <1>1, FS_Interval
  <1>3. S \subseteq 1 .. Len(s)
    BY <1>1
  <1> HIDE DEF S
  <1>4. IsFiniteSet(S)
    BY <1>2, <1>3, FS_Subset
  <1> QED
    BY <1>4, FS_CardinalityType DEF S

LEMMA GotSame ==
  ASSUME IInv, change' = change, got' = got
  PROVE  /\ Grown
         /\ \A name : (HasRead(name)' <=> HasRead(name)) /\ At(name)' = At(name)
         /\ \A name : Field(name)' = Field(name)
  <1>1. \A name : (HasRead(name)' <=> HasRead(name)) /\ At(name)' = At(name)
    BY DEF HasRead, At
  <1>2. CountRead("columns")' = CountRead("columns") /\ CountRead("columns") \in Nat
    <2>1. IsSeq(got)
      BY DEF IInv
    <2>2. CountRead("columns")' = CountRead("columns")
      BY DEF CountRead
    <2>3. CountRead("columns") \in Nat
      BY <2>1, Counted DEF CountRead
    <2> QED
      BY <2>2, <2>3
  <1>3. CountRead("columns")' >= CountRead("columns")
    BY <1>2
  <1> QED
    BY <1>1, <1>2, <1>3 DEF Grown, Field

\* Fields of one name, which is read for the first time if it is one of those two.
LEMMA GotMore ==
  ASSUME IInv, change' = change, NEW es, IsSeq(es), got' = got \o es, NEW nm,
         \A i \in 1 .. Len(es) : es[i].name = nm,
         nm = "kdo" => ~HasRead("kdo"), nm = "ids" => ~HasRead("ids")
  PROVE  /\ Grown
         /\ \A name : HasRead(name)' => HasRead(name) \/ name = nm
         /\ Len(es) > 0 => HasRead(nm)' /\ At(nm)' = es[Len(es)]
         /\ nm = "columns" => CountRead("columns")' >= Len(es)
  <1>1. IsSeq(got) /\ DOMAIN es = 1 .. Len(es) /\ Len(es) \in Nat
    BY SplitSeq DEF IInv
  <1>2. ASSUME NEW name
        PROVE  HasRead(name)' <=> HasRead(name) \/ Named(es, name)
    BY <1>1, FieldsByPlace, FieldsMore
  <1>3. ASSUME NEW name, Named(es, name) PROVE name = nm
    BY <1>1, <1>3 DEF Named
  <1>4. ASSUME NEW name, HasRead(name), ~Named(es, name) PROVE At(name)' = At(name)
    BY <1>1, <1>4, FieldsByPlace, FieldsMore
  <1>5. ASSUME Len(es) > 0 PROVE HasRead(nm)' /\ At(nm)' = es[Len(es)]
    <2>1. Len(es) \in 1 .. Len(es)
      BY <1>1, <1>5
    <2>2. Named(es, nm)
      BY <1>1, <2>1 DEF Named
    <2>3. At(nm)' = es[LastPlace(es, nm)]
      BY <1>1, <2>2, FieldsByPlace, FieldsMore
    <2>4. LastPlace(es, nm) \in 1 .. Len(es) /\ Len(es) <= LastPlace(es, nm)
      BY <2>1, <2>2, LastPlaceIs
    <2>5. LastPlace(es, nm) = Len(es)
      BY <1>1, <2>4
    <2> QED
      BY <1>2, <2>2, <2>3, <2>5
  <1>6. /\ CountRead("columns") \in Nat /\ CountRead("columns")' \in Nat
        /\ CountRead("columns")' >= CountRead("columns")
        /\ nm = "columns" => CountRead("columns")' >= Len(es)
    <2> DEFINE t == got'
               S == {k \in DOMAIN got : got[k].name = "columns"}
               T == {k \in DOMAIN t : t[k].name = "columns"}
    <2>1. /\ IsSeq(t) /\ Len(got) \in Nat /\ Len(t) = Len(got) + Len(es)
          /\ \A k \in 1 .. Len(t) : t[k] = IF k <= Len(got) THEN got[k] ELSE es[k - Len(got)]
      BY <1>1, ConcatIsSeq
    <2>2. CountRead("columns") = Cardinality(S) /\ CountRead("columns")' = Cardinality(T)
      BY DEF CountRead
    <2> HIDE DEF t
    <2>3. DOMAIN t = 1 .. Len(t) /\ DOMAIN got = 1 .. Len(got)
      BY <1>1, <2>1, SplitSeq
    <2>4. IsFiniteSet(S) /\ IsFiniteSet(T) /\ Cardinality(S) \in Nat /\ Cardinality(T) \in Nat
      BY <1>1, <2>1, Counted
    <2>5. S \subseteq T
      <3>1. ASSUME NEW k \in S PROVE k \in T
        <4>1. k \in 1 .. Len(t) /\ k <= Len(got) /\ got[k].name = "columns"
          BY <1>1, <2>1, <2>3
        <4> QED
          BY <2>1, <2>3, <4>1
      <3> QED
        BY <3>1
    <2>6. ASSUME nm = "columns" PROVE Cardinality(T) >= Len(es)
      <3> DEFINE I == Len(got) + 1 .. Len(got) + Len(es)
      <3>1. ASSUME NEW k \in I PROVE k \in T
        <4>1. k \in 1 .. Len(t) /\ ~(k <= Len(got)) /\ k - Len(got) \in 1 .. Len(es)
          BY <1>1, <2>1
        <4>2. t[k] = es[k - Len(got)]
          BY <2>1, <4>1
        <4> QED
          BY <2>3, <2>6, <4>1, <4>2
      <3>2. I \subseteq T
        BY <3>1
      <3>3. Cardinality(I) = Len(es)
        <4>1. PICK a, b : a = Len(got) + 1 /\ b = Len(got) + Len(es)
          OBVIOUS
        <4>2. a \in Int /\ b \in Int
          BY <1>1, <2>1, <4>1
        <4>3. Cardinality(a .. b) = IF a > b THEN 0 ELSE b - a + 1
          BY <4>2, FS_Interval
        <4>4. (IF a > b THEN 0 ELSE b - a + 1) = Len(es)
          BY <1>1, <2>1, <4>1
        <4> QED
          BY <4>1, <4>3, <4>4
      <3> HIDE DEF I, T
      <3>4. Cardinality(I) <= Cardinality(T)
        BY <2>4, <3>2, FS_Subset
      <3> QED
        BY <1>1, <2>4, <3>3, <3>4
    <2> HIDE DEF S, T
    <2>7. Cardinality(S) <= Cardinality(T)
      BY <2>4, <2>5, FS_Subset
    <2> QED
      BY <2>2, <2>4, <2>6, <2>7
  <1>7. \A name : HasRead(name) => HasRead(name)'
    BY <1>2
  <1>8. \A name : HasRead(name)' => HasRead(name) \/ name = nm
    BY <1>2, <1>3
  <1>9. (HasRead("kdo") => At("kdo")' = At("kdo")) /\ (HasRead("ids") => At("ids")' = At("ids"))
    BY <1>3, <1>4
  <1> QED
    BY <1>5, <1>6, <1>7, <1>8, <1>9 DEF Grown

-----------------------------------------------------------------------------
(* The steps that wait                                                     *)

\* The place of a step in the stack, and that it is not the next one.
Place(k, i) == k \in 1 .. Len(stack) /\ i \in 1 .. Len(stack[k].steps)
Later(k, i) == Place(k, i) /\ ~(k = Len(stack) /\ i = 1)

LEMMA Places ==
  ASSUME Frames(stack), NEW k, NEW i, Place(k, i)
  PROVE  /\ stack # << >> /\ Len(stack) \in Nat \ {0} /\ k \in Nat \ {0} /\ i \in Nat \ {0}
         /\ k <= Len(stack) /\ Len(stack[k].steps) \in Nat /\ i <= Len(stack[k].steps)
         /\ WellFormed(stack[k].steps[i])
  <1>1. Len(stack) \in Nat /\ k \in 1 .. Len(stack) /\ i \in 1 .. Len(stack[k].steps)
    BY SplitSeq DEF Frames, Place
  <1>2. Formed(stack[k].steps)
    BY <1>1 DEF Frames, IsFrame
  <1>3. Len(stack[k].steps) \in Nat
    BY <1>2, SplitSeq DEF Formed
  <1>4. WellFormed(stack[k].steps[i])
    BY <1>1, <1>2 DEF Formed
  <1>5. stack # << >>
    BY <1>1, EmptyIsSeq
  <1> QED
    BY <1>1, <1>3, <1>4, <1>5

\* The next step comes before every other.
LEMMA HeadFirst ==
  ASSUME Frames(stack), Sorted, Top.steps # << >>, NEW k, NEW i, Later(k, i)
  PROVE  InOrder(Step, stack[k].steps[i])
  <1> DEFINE n == Len(stack)
  <1>1. stack # << >> /\ n \in Nat \ {0} /\ k \in Nat \ {0} /\ i \in Nat \ {0} /\ k <= n
        /\ i \in 1 .. Len(stack[k].steps)
    BY Places DEF Later, Place
  <1>2. n \in 1 .. n /\ Top = stack[n] /\ 1 \in 1 .. Len(Top.steps) /\ Step = Top.steps[1]
    BY <1>1, TopIs
  <1>3. CASE k = n
    <2>1. 1 < i
      BY <1>1, <1>3 DEF Later
    <2>2. SortedIn(stack[n].steps)
      BY <1>2 DEF Sorted, SortedStack
    <2> QED
      BY <1>1, <1>2, <1>3, <2>1, <2>2 DEF SortedIn
  <1>4. CASE k # n
    <2>1. k < n /\ k \in 1 .. n
      BY <1>1, <1>4
    <2> QED
      BY <1>1, <1>2, <2>1 DEF Sorted, SortedStack
  <1> QED
    BY <1>3, <1>4

LEMMA LaterFits ==
  ASSUME Frames(stack), AllFit, NEW k, NEW i, Later(k, i)
  PROVE  Fits(k, stack[k].steps[i]) /\ ~Final(stack[k].steps[i])
  <1>1. Fits(k, stack[k].steps[i])
    BY DEF AllFit, Later, Place
  <1> QED
    BY <1>1 DEF Fits

LEMMA HeadFits ==
  ASSUME Frames(stack), AllFit, stack # << >>, Top.steps # << >>
  PROVE  /\ Place(Len(stack), 1) /\ Step = stack[Len(stack)].steps[1]
         /\ Fits(Len(stack), Step) \/ (Final(Step) /\ (Step.take = "undefined" => Strays))
         /\ ~Final(Step) => Fits(Len(stack), Step)
  <1>1. /\ Place(Len(stack), 1) /\ Step = stack[Len(stack)].steps[1]
    BY TopIs DEF Place
  <1>2. Fits(Len(stack), Step) \/ (Final(Step) /\ (Step.take = "undefined" => Strays))
    BY <1>1 DEF AllFit, Place
  <1> QED
    BY <1>1, <1>2

\* Where the steps that are kept were.
LEMMA KeptAt ==
  ASSUME Frames(stack), NEW z \in {0, 1}, NEW d, Kept(d, z), NEW k \in 1 .. Len(d), NEW j \in 1 .. Len(d[k].steps)
  PROVE  /\ Place(k, j + Shift(k, z))
         /\ d[k].steps[j] = stack[k].steps[j + Shift(k, z)]
         /\ z = 1 => Later(k, j + Shift(k, z))
  <1>1. Len(stack) \in Nat /\ Len(d) \in Nat /\ Len(d) <= Len(stack)
    BY SplitSeq DEF Kept, Frames
  <1>2. k \in 1 .. Len(stack)
    BY <1>1
  <1>3. Len(stack[k].steps) \in Nat /\ Len(d[k].steps) \in Nat
    BY <1>2, SplitSeq DEF Kept, Frames, IsFrame, Formed
  <1>4. PICK h : h = Shift(k, z)
    OBVIOUS
  <1>5. h \in Nat /\ (z = 1 /\ k = Len(stack) => h = 1)
    BY <1>4 DEF Shift
  <1>6. Len(d[k].steps) + h <= Len(stack[k].steps) /\ d[k].steps[j] = stack[k].steps[j + h]
    BY <1>4 DEF Kept
  <1>7. j + h \in 1 .. Len(stack[k].steps) /\ (h = 1 => j + h # 1)
    BY <1>3, <1>5, <1>6
  <1> QED
    BY <1>2, <1>4, <1>5, <1>6, <1>7 DEF Place, Later

\* A step behind a late one is late as well.
LEMMA LateHead ==
  ASSUME Frames(stack), Sorted, Top.steps # << >>, ~Final(Step), Ends(Step) = 13,
         NEW k, NEW i, Later(k, i)
  PROVE  Starts(stack[k].steps[i]) = 13
  <1>1. Follows(13, Starts(stack[k].steps[i]))
    BY HeadFirst DEF InOrder
  <1>2. Starts(stack[k].steps[i]) \in 0 .. 13
    BY Phases
  <1>3. PICK q : q = Starts(stack[k].steps[i])
    OBVIOUS
  <1> QED
    BY <1>1, <1>2, <1>3 DEF Follows

\* The phase of a step that reads.
LEMMA ReadPhase ==
  ASSUME NEW x, Reads(x) PROVE Starts(x) = PhaseOf(x.name) /\ Ends(x) = PhaseOf(x.name)
  BY DEF Reads, Starts, Ends

LEMMA CallPhase ==
  ASSUME NEW x, NEW fn, Calls(x, {fn}) PROVE Starts(x) = CallStarts(fn) /\ Ends(x) = CallEnds(fn)
  BY DEF Calls, Starts, Ends

\* The head of a row is read after what precedes the row and before the row.
LEMMA RowBehind ==
  ASSUME Frames(stack), Sorted, GotBefore, IInv, Top.steps # << >>, ~Final(Step), Step.take # "call",
         NEW k, NEW i, Later(k, i), Calls(stack[k].steps[i], {"Row"})
  PROVE  ~HasRead("kdo")
  <1> SUFFICES ASSUME HasRead("kdo") PROVE FALSE
    OBVIOUS
  <1>1. stack # << >>
    BY Places DEF Later
  <1>2. /\ Len(stack) \in 1 .. Len(stack) /\ 1 \in 1 .. Len(stack[Len(stack)].steps)
        /\ Step = stack[Len(stack)].steps[1]
    BY <1>1, TopIs
  <1>3. PICK g \in 1 .. Len(got) : got[g].name = "kdo"
    BY SplitSeq DEF HasRead, IInv
  <1>4. Follows(6, Starts(Step))
    BY <1>2, <1>3, PhasesOfNames DEF GotBefore
  <1>5. Starts(stack[k].steps[i]) = 7
    BY CallPhase DEF CallStarts
  <1>6. Follows(Ends(Step), 7)
    BY <1>5, HeadFirst DEF InOrder
  <1>7. Ends(Step) = Starts(Step) /\ Starts(Step) \in 0 .. 13
    BY Phases DEF Ends
  <1>8. PICK p : p = Starts(Step)
    OBVIOUS
  <1>9. p \in 0 .. 13 /\ Follows(6, p) /\ Follows(p, 7)
    BY <1>4, <1>6, <1>7, <1>8
  <1> QED
    BY <1>9 DEF Follows

-----------------------------------------------------------------------------
(* What is kept of the stack keeps its place                                *)

\* Nothing of the stack is left but what was behind the next step, or the step
\* reads on.
Stays(z) == z = 1 \/ (z = 0 /\ Top.steps # << >> /\ Step.take = "restof")

\* A row that waits begins where its head ends.
RowPlace ==
  \A k \in 1 .. Len(stack') : \A j \in 1 .. Len(stack'[k].steps) :
    Calls(stack'[k].steps[j], {"Row"}) /\ HasRead("kdo")' => index' = At("kdo")'.at

LEMMA CarryFit ==
  ASSUME Frames(stack), AllFit, Grown, NEW z, Stays(z), Kept(stack', z), RowPlace
  PROVE  AllFit'
  <1>1. ASSUME NEW k \in 1 .. Len(stack'), NEW j \in 1 .. Len(stack'[k].steps),
               NEW x, x = stack'[k].steps[j]
        PROVE  Fits(k, x)'
    <2>0. z \in {0, 1}
      BY DEF Stays
    <2>1. /\ Place(k, j + Shift(k, z)) /\ x = stack[k].steps[j + Shift(k, z)]
          /\ z = 1 => Later(k, j + Shift(k, z))
      BY <1>1, <2>0, KeptAt
    <2>2. Fits(k, x)
      <3>1. CASE Later(k, j + Shift(k, z))
        BY <2>1, <3>1, LaterFits
      <3>2. CASE ~Later(k, j + Shift(k, z))
        <4>1. Top.steps # << >> /\ Step.take = "restof" /\ k = Len(stack) /\ j + Shift(k, z) = 1
          BY <2>1, <3>2 DEF Stays, Later
        <4>2. stack # << >>
          BY <2>1, Places
        <4>3. x = Step /\ ~Final(Step)
          BY <2>1, <4>1, <4>2, HeadFits DEF Final
        <4> QED
          BY <4>1, <4>2, <4>3, HeadFits
      <3> QED
        BY <3>1, <3>2
    <2>3. Calls(x, {"Row"}) /\ HasRead("kdo")' => index' = At("kdo")'.at
      BY <1>1 DEF RowPlace
    <2> QED
      BY <2>2, <2>3, FitsKept
  <1> QED
    BY <1>1 DEF AllFit

LEMMA CarrySorted ==
  ASSUME Frames(stack), Sorted, NEW z \in {0, 1}, NEW d, Kept(d, z)
  PROVE  SortedStack(d)
  <1>1. ASSUME NEW k \in 1 .. Len(d) PROVE SortedIn(d[k].steps)
    <2>1. SUFFICES ASSUME NEW i \in 1 .. Len(d[k].steps), NEW j \in 1 .. Len(d[k].steps), i < j
                   PROVE  InOrder(d[k].steps[i], d[k].steps[j])
      BY DEF SortedIn
    <2>2. PICK h : h = Shift(k, z)
      OBVIOUS
    <2>3. /\ Place(k, i + h) /\ d[k].steps[i] = stack[k].steps[i + h]
          /\ Place(k, j + h) /\ d[k].steps[j] = stack[k].steps[j + h]
      BY <2>2, KeptAt
    <2>4. h \in Nat
      BY <2>2 DEF Shift
    <2>5. i + h < j + h
      <3>1. i \in Int /\ j \in Int
        OBVIOUS
      <3> QED
        BY <2>1, <2>4, <3>1
    <2>6. SortedIn(stack[k].steps)
      BY <2>3 DEF Sorted, SortedStack, Place
    <2> QED
      BY <2>3, <2>5, <2>6 DEF SortedIn, Place
  <1>2. ASSUME NEW m \in 1 .. Len(d), NEW k \in 1 .. Len(d), m < k,
               NEW i \in 1 .. Len(d[k].steps), NEW j \in 1 .. Len(d[m].steps)
        PROVE  InOrder(d[k].steps[i], d[m].steps[j])
    <2>1. Place(k, i + Shift(k, z)) /\ d[k].steps[i] = stack[k].steps[i + Shift(k, z)]
      BY KeptAt
    <2>2. Place(m, j + Shift(m, z)) /\ d[m].steps[j] = stack[m].steps[j + Shift(m, z)]
      BY KeptAt
    <2> QED
      BY <1>2, <2>1, <2>2 DEF Sorted, SortedStack, Place
  <1> QED
    BY <1>1, <1>2 DEF SortedStack

LEMMA CarryCatches ==
  ASSUME Frames(stack), Catches, Grown, NEW z \in {0, 1}, Kept(stack', z)
  PROVE  Catches'
  <1>1. ASSUME NEW k \in 1 .. Len(stack'), stack'[k].catch PROVE k >= 3 /\ KdoIs({"Cfa", "Lmn"})'
    <2>1. k \in 1 .. Len(stack) /\ stack'[k].catch = stack[k].catch
      BY SplitSeq DEF Kept, Frames
    <2>2. k >= 3 /\ KdoIs({"Cfa", "Lmn"})
      BY <1>1, <2>1 DEF Catches
    <2> QED
      BY <2>2, KdoKept
  <1> QED
    BY <1>1 DEF Catches

LEMMA CarryFirst ==
  ASSUME Frames(stack), FirstFrame, NEW z, Stays(z), NEW d, Kept(d, z), d # << >>
  PROVE  d[1].steps = << >>
  <1> SUFFICES ASSUME d[1].steps # << >> PROVE FALSE
    OBVIOUS
  <1>0. z \in {0, 1}
    BY DEF Stays
  <1>1. Len(d) \in Nat \ {0} /\ 1 \in 1 .. Len(d)
    BY SplitSeq DEF Kept, Frames
  <1>2. Len(d[1].steps) \in Nat \ {0} /\ 1 \in 1 .. Len(d[1].steps)
    BY <1>1, SplitSeq DEF Kept, Frames, IsFrame, Formed
  <1>3. Place(1, 1 + Shift(1, z)) /\ (z = 1 => Later(1, 1 + Shift(1, z)))
    BY <1>0, <1>1, <1>2, KeptAt
  <1>4. stack # << >> /\ stack[1].steps # << >>
    BY <1>3, Places, EmptyIsSeq DEF Place
  <1>5. Len(stack) = 1 /\ Len(stack[1].steps) = 1 /\ Calls(stack[1].steps[1], {"Change"})
    BY <1>4 DEF FirstFrame
  <1>6. 1 + Shift(1, z) = 1
    BY <1>3, <1>5 DEF Place
  <1>7. z = 0
    BY <1>0, <1>3, <1>5, <1>6 DEF Later
  <1>8. Top.steps # << >> /\ Step.take = "restof"
    BY <1>7 DEF Stays
  <1>9. Step = stack[1].steps[1]
    BY <1>4, <1>5, <1>8, TopIs
  <1> QED
    BY <1>5, <1>8, <1>9 DEF Calls

-----------------------------------------------------------------------------
(* What the steps that wait need                                           *)

\* What a step reads comes before what is still to be read.
LEMMA CarryBefore ==
  ASSUME Frames(stack), AllFit, Sorted, GotBefore, NEW z, Stays(z), Kept(stack', z),
         IsSeq(got), IsSeq(got'),
         \A g \in 1 .. Len(got') :
           \/ g \in 1 .. Len(got) /\ got'[g] = got[g]
           \/ Top.steps # << >> /\ Reads(Step) /\ got'[g].name = Step.name
  PROVE  GotBefore'
  <1>1. ASSUME NEW g \in 1 .. Len(got'), NEW k \in 1 .. Len(stack'),
               NEW j \in 1 .. Len(stack'[k].steps), NEW x, x = stack'[k].steps[j]
        PROVE  Final(x) \/ Follows(PhaseOf(got'[g].name), Starts(x))
    <2>0. z \in {0, 1}
      BY DEF Stays
    <2>1. /\ Place(k, j + Shift(k, z)) /\ x = stack[k].steps[j + Shift(k, z)]
          /\ z = 1 => Later(k, j + Shift(k, z))
      BY <1>1, <2>0, KeptAt
    <2>2. CASE g \in 1 .. Len(got) /\ got'[g] = got[g]
      BY <2>1, <2>2 DEF GotBefore, Place
    <2>3. CASE Top.steps # << >> /\ Reads(Step) /\ got'[g].name = Step.name
      <3>1. ~Final(Step) /\ Ends(Step) = PhaseOf(Step.name)
        BY <2>3, ReadPhase DEF Reads, Final
      <3>2. CASE Later(k, j + Shift(k, z))
        <4>1. InOrder(Step, x)
          BY <2>1, <2>3, <3>2, HeadFirst
        <4> QED
          BY <2>3, <3>1, <4>1 DEF InOrder
      <3>3. CASE ~Later(k, j + Shift(k, z))
        <4>1. Step.take = "restof" /\ k = Len(stack) /\ j + Shift(k, z) = 1
          BY <2>1, <3>3 DEF Stays, Later
        <4>2. stack # << >>
          BY <2>1, Places
        <4>3. x = Step /\ Fits(Len(stack), Step)
          BY <2>1, <2>3, <3>1, <4>1, <4>2, HeadFits
        <4>4. PhaseOf(Step.name) = 13 /\ Starts(x) = 13
          BY <2>3, <4>1, <4>3, ReadPhase DEF Fits, ReadFits
        <4>5. Follows(13, 13)
          BY DEF Follows
        <4> QED
          BY <2>3, <4>4, <4>5
      <3> QED
        BY <3>2, <3>3
    <2> QED
      BY <2>2, <2>3
  <1> QED
    BY <1>1 DEF GotBefore

\* A field that a later call needs has been read if it is read next.
ReadNow ==
  \A name \in {"keySizes", "ids", "sizes"} : ReadsOf(Step, {name}) => HasRead(name)'

\* A field that a later call needs is still to be read, or has been read.
LEMMA CarryPrepared ==
  ASSUME Frames(stack), AllFit, FramesPrepared, Grown, NEW z, Stays(z), NEW d, Kept(d, z),
         \/ z = 0
         \/ Len(d) < Len(stack)
         \/ Top.steps = << >>
         \/ d = Returned
         \/ d = Done /\ ReadNow
  PROVE  \A k \in 1 .. Len(d) : AllPrepared(d[k].steps)'
  <1>0. z \in {0, 1}
    BY DEF Stays
  <1>1. ASSUME NEW name \in {"keySizes", "ids", "sizes"}, NEW fn, NEW k \in 1 .. Len(d),
               NEW s, s = stack[k].steps, NEW t, t = d[k].steps, Prepared(s, name, fn)
        PROVE  Prepared(t, name, fn)'
    <2>1. SUFFICES ASSUME NEW j \in 1 .. Len(t), Calls(t[j], {fn}), ~HasRead(name)'
                   PROVE  \E i \in 1 .. Len(t) : i < j /\ ReadsOf(t[i], {name})
      BY DEF Prepared
    <2>2. PICK h : h = Shift(k, z)
      OBVIOUS
    <2>3. h \in {0, 1} /\ (h = 1 => k = Len(stack) /\ z = 1)
      BY <1>0, <2>2 DEF Shift
    <2>4. k \in 1 .. Len(stack) /\ j + h \in 1 .. Len(s) /\ t[j] = s[j + h]
      BY <1>0, <1>1, <2>2, KeptAt DEF Place
    <2>5. ~HasRead(name)
      BY <2>1 DEF Grown
    <2>6. PICK i \in 1 .. Len(s) : i < j + h /\ ReadsOf(s[i], {name})
      BY <1>1, <2>1, <2>4, <2>5 DEF Prepared
    <2>7. Len(t) \in Nat /\ Len(s) \in Nat /\ Len(t) + h <= Len(s)
      <3>1. Formed(s) /\ Formed(t)
        BY <1>1, <2>4 DEF Kept, Frames, IsFrame
      <3> QED
        BY <1>1, <2>2, <3>1, SplitSeq DEF Kept, Formed
    <2>8. CASE i > h
      <3>1. i - h \in 1 .. Len(t) /\ i - h < j /\ (i - h) + h = i
        <4>1. j \in Nat /\ i \in Nat /\ j <= Len(t)
          BY <2>7
        <4> QED
          BY <2>3, <2>6, <2>7, <2>8, <4>1
      <3>2. t[i - h] = s[i]
        BY <1>0, <1>1, <2>2, <3>1, KeptAt
      <3> QED
        BY <2>6, <3>1, <3>2
    <2>9. CASE ~(i > h)
      <3>1. h = 1 /\ i = 1 /\ k = Len(stack) /\ z = 1
        BY <2>3, <2>7, <2>9
      <3>2. stack # << >> /\ Top = stack[k]
        <4>1. stack # << >>
          BY <2>4, EmptyIsSeq
        <4> QED
          BY <3>1, <4>1, TopIs
      <3>3. Top.steps # << >> /\ Step = s[1]
        <4>1. Top.steps # << >>
          BY <1>1, <2>4, <3>2, EmptyIsSeq
        <4> QED
          BY <1>1, <3>1, <3>2, <4>1, TopIs
      <3>4. ReadsOf(Step, {name})
        BY <2>6, <3>1, <3>3
      <3>5. Len(d) = Len(stack)
        BY <3>1, SplitSeq DEF Kept, Frames
      <3>6. CASE d = Returned
        <4>1. Len(t) = 0
          BY <1>1, <3>1, <3>2, <3>6, ReturnedIs, EmptyIsSeq
        <4> QED
          BY <4>1
      <3>7. CASE ReadNow
        BY <2>1, <3>4, <3>7 DEF ReadNow
      <3>8. Len(stack) \in Nat
        BY SplitSeq DEF Frames
      <3>9. ~(Len(d) < Len(stack)) /\ z # 0
        <4>1. PICK m : m = Len(stack)
          OBVIOUS
        <4>2. m \in Nat /\ Len(d) = m /\ ~(m < m)
          BY <3>5, <3>8, <4>1
        <4> QED
          BY <3>1, <4>1, <4>2
      <3>10. d = Returned \/ ReadNow
        BY <3>3, <3>9
      <3> QED
        BY <3>6, <3>7, <3>10, Zenon
    <2> QED
      BY <2>8, <2>9
  <1>2. ASSUME NEW k \in 1 .. Len(d), NEW t, t = d[k].steps PROVE AllPrepared(t)'
    <2>1. k \in 1 .. Len(stack)
      BY SplitSeq DEF Kept, Frames
    <2>2. AllPrepared(stack[k].steps)
      BY <2>1 DEF FramesPrepared
    <2>3. /\ Prepared(stack[k].steps, "keySizes", "RowSlots")
          /\ Prepared(stack[k].steps, "ids", "UrpColumns")
          /\ Prepared(stack[k].steps, "sizes", "QmiRows")
      BY <2>2 DEF AllPrepared
    <2>4. /\ Prepared(t, "keySizes", "RowSlots")'
          /\ Prepared(t, "ids", "UrpColumns")'
          /\ Prepared(t, "sizes", "QmiRows")'
      BY <1>1, <1>2, <2>3
    <2> QED
      BY <2>4 DEF AllPrepared
  <1> QED
    BY <1>2

-----------------------------------------------------------------------------
(* What is still to come                                                    *)

\* One of these, and one of these behind the next step.
Wanted(x, fns, names) == Calls(x, fns) \/ ReadsOf(x, names)
Behind(fns, names) ==
  \E k \in 1 .. Len(stack) : \E i \in 1 .. Len(stack[k].steps) :
    Later(k, i) /\ Wanted(stack[k].steps[i], fns, names)

LEMMA PendingIs ==
  ASSUME Frames(stack), NEW fns, NEW names
  PROVE  /\ Behind(fns, names) => Pending(stack, fns, names)
         /\ Pending(stack, fns, names) /\ stack # << >> =>
              Behind(fns, names) \/ (Top.steps # << >> /\ Wanted(Step, fns, names))
         /\ stack # << >> /\ Top.steps # << >> /\ Wanted(Step, fns, names) => Pending(stack, fns, names)
  <1>1. Behind(fns, names) => Pending(stack, fns, names)
    BY DEF Behind, Pending, Has, Wanted
  <1>2. ASSUME Pending(stack, fns, names), stack # << >>, ~Behind(fns, names)
        PROVE  Top.steps # << >> /\ Wanted(Step, fns, names)
    <2>1. PICK k \in 1 .. Len(stack) : \E i \in 1 .. Len(stack[k].steps) :
                 Wanted(stack[k].steps[i], fns, names)
      BY <1>2 DEF Pending, Has, Wanted
    <2>2. PICK i \in 1 .. Len(stack[k].steps) : Wanted(stack[k].steps[i], fns, names)
      BY <2>1
    <2>3. k = Len(stack) /\ i = 1
      BY <1>2, <2>2 DEF Behind, Later, Place
    <2>4. Top = stack[k]
      BY <1>2, <2>3, TopIs
    <2>5. Top.steps # << >>
      BY <2>2, <2>4, EmptyIsSeq
    <2> QED
      BY <1>2, <2>2, <2>3, <2>4, <2>5, TopIs
  <1>3. ASSUME stack # << >>, Top.steps # << >>, Wanted(Step, fns, names) PROVE Pending(stack, fns, names)
    <2>1. /\ Len(stack) \in 1 .. Len(stack) /\ 1 \in 1 .. Len(stack[Len(stack)].steps)
          /\ Step = stack[Len(stack)].steps[1]
      BY <1>3, TopIs
    <2> QED
      BY <1>3, <2>1 DEF Pending, Has, Wanted
  <1> QED
    BY <1>1, <1>2, <1>3

\* What is kept was there.
LEMMA PendingBack ==
  ASSUME Frames(stack), NEW z \in {0, 1}, NEW d, Kept(d, z), NEW fns, NEW names, Pending(d, fns, names)
  PROVE  Pending(stack, fns, names) /\ (z = 1 => Behind(fns, names))
  <1>1. PICK k \in 1 .. Len(d) : \E j \in 1 .. Len(d[k].steps) : Wanted(d[k].steps[j], fns, names)
    BY DEF Pending, Has, Wanted
  <1>2. PICK j \in 1 .. Len(d[k].steps) : Wanted(d[k].steps[j], fns, names)
    BY <1>1
  <1>3. PICK i : i = j + Shift(k, z)
    OBVIOUS
  <1>4. Place(k, i) /\ (z = 1 => Later(k, i)) /\ Wanted(stack[k].steps[i], fns, names)
    BY <1>2, <1>3, KeptAt
  <1> QED
    BY <1>4 DEF Pending, Has, Wanted, Behind, Place

LEMMA TheyWant ==
  ASSUME NEW d, NEW fns, NEW names, NEW k \in 1 .. Len(d), NEW j \in 1 .. Len(d[k].steps),
         Wanted(d[k].steps[j], fns, names)
  PROVE  Pending(d, fns, names)
  BY DEF Pending, Has, Wanted

\* A step done takes nothing with it.
LEMMA PendingDone ==
  ASSUME Frames(stack), stack # << >>, Top.steps # << >>, NEW fns, NEW names, Behind(fns, names)
  PROVE  Pending(Done, fns, names)
  <1> DEFINE d == Done
             n == Len(stack)
  <1>1. PICK k \in 1 .. n : \E i \in 1 .. Len(stack[k].steps) :
              Later(k, i) /\ Wanted(stack[k].steps[i], fns, names)
    BY DEF Behind
  <1>2. PICK i \in 1 .. Len(stack[k].steps) : Later(k, i) /\ Wanted(stack[k].steps[i], fns, names)
    BY <1>1
  <1>3. /\ Len(d) = n /\ n \in Nat \ {0} /\ Top = stack[n] /\ Len(Top.steps) \in Nat \ {0}
        /\ \A m \in 1 .. n - 1 : d[m] = stack[m]
        /\ Len(d[n].steps) = Len(Top.steps) - 1
        /\ \A j \in 1 .. Len(Top.steps) - 1 : d[n].steps[j] = Top.steps[j + 1]
    BY DoneIs, TopIs
  <1> HIDE DEF d
  <1>4. ASSUME k = n PROVE Pending(d, fns, names)
    <2>1. i - 1 \in 1 .. Len(d[n].steps) /\ (i - 1) + 1 = i
      BY <1>2, <1>3, <1>4 DEF Later
    <2>2. d[n].steps[i - 1] = stack[k].steps[i]
      BY <1>3, <1>4, <2>1
    <2> QED
      BY <1>2, <1>3, <1>4, <2>1, <2>2, TheyWant
  <1>5. ASSUME k # n PROVE Pending(d, fns, names)
    <2>1. k \in 1 .. n - 1
      BY <1>3, <1>5
    <2>2. d[k] = stack[k]
      BY <1>3, <2>1
    <2> QED
      BY <1>2, <1>3, <2>2, TheyWant
  <1>6. Pending(d, fns, names)
    BY <1>4, <1>5
  <1> QED
    BY <1>6 DEF d

\* Nothing of the row is behind a late step.
LEMMA NothingBehind ==
  ASSUME Frames(stack), Sorted, Top.steps # << >>, ~Final(Step), Ends(Step) = 13,
         NEW fns, NEW names, \A fn \in fns : CallStarts(fn) # 13, \A name \in names : PhaseOf(name) # 13
  PROVE  ~Behind(fns, names)
  <1> SUFFICES ASSUME Behind(fns, names) PROVE FALSE
    OBVIOUS
  <1>1. PICK k \in 1 .. Len(stack) : \E i \in 1 .. Len(stack[k].steps) :
              Later(k, i) /\ Wanted(stack[k].steps[i], fns, names)
    BY DEF Behind
  <1>2. PICK i \in 1 .. Len(stack[k].steps) : Later(k, i) /\ Wanted(stack[k].steps[i], fns, names)
    BY <1>1
  <1>3. PICK x : x = stack[k].steps[i]
    OBVIOUS
  <1>4. Starts(x) = 13
    BY <1>2, <1>3, LateHead
  <1>5. CASE Calls(x, fns)
    <2>1. Starts(x) = CallStarts(x.fn) /\ x.fn \in fns
      BY <1>5 DEF Calls, Starts
    <2> QED
      BY <1>4, <2>1
  <1>6. CASE ReadsOf(x, names)
    <2>1. Starts(x) = PhaseOf(x.name) /\ x.name \in names
      BY <1>6, ReadPhase DEF ReadsOf
    <2> QED
      BY <1>4, <2>1
  <1> QED
    BY <1>2, <1>3, <1>5, <1>6 DEF Wanted

-----------------------------------------------------------------------------
(* What is still to come, after a step                                     *)

LEMMA PendingEmpty == ASSUME NEW fns, NEW names PROVE ~Pending(<< >>, fns, names)
  BY EmptyIsSeq DEF Pending

\* A step that is done or goes on leaves what is behind it.
LEMMA PendingForth ==
  ASSUME Frames(stack), stack # << >>, Top.steps # << >>, stack' = Done \/ stack' = stack,
         NEW fns, NEW names
  PROVE  /\ Behind(fns, names) => Pending(stack', fns, names)
         /\ Pending(stack', fns, names) => Pending(stack, fns, names)
  <1>1. Behind(fns, names) => Pending(stack', fns, names)
    BY PendingDone, PendingIs
  <1>2. CASE stack' = Done
    <2>1. Kept(Done, 1)
      BY DoneIs
    <2> QED
      BY <1>1, <1>2, <2>1, PendingBack
  <1>3. CASE stack' = stack
    BY <1>1, <1>3
  <1> QED
    BY <1>2, <1>3

\* What a step must have done to the row when it is behind us.
HeadDone ==
  /\ \A name : HasRead(name)' => HasRead(name) \/ ReadsOf(Step, {name})
  /\ ReadsOf(Step, {"kdo"}) => HasRead("kdo")'
  /\ ReadsOf(Step, {"packed", "columns", "rows"}) => HasRead("kdo") /\ RowDone'

\* The counts in the head of a row are numbers.
RowTyped == HasRead("kdo") => Field("kdo").n \in Nat /\ Field("kdo").nnew \in Nat

LEMMA ComesDone ==
  ASSUME Frames(stack), KdoComes, RowComes, FromComes, RowTyped, Grown,
         stack # << >>, Top.steps # << >>, Step.take # "call", ~Final(Step),
         stack' = Done \/ stack' = stack, res = "parsing", HeadDone
  PROVE  KdoComes' /\ RowComes' /\ FromComes'
  <1>1. ~ErrTop
    BY DEF ErrTop, Taking, Final
  <1>2. \A fns : ~Calls(Step, fns)
    BY DEF Calls
  <1>3. ASSUME NEW fns, NEW names
        PROVE  /\ Behind(fns, names) => Pending(stack', fns, names)
               /\ Pending(stack', fns, names) => Pending(stack, fns, names)
               /\ Pending(stack, fns, names) => Behind(fns, names) \/ ReadsOf(Step, names)
    BY <1>2, PendingForth, PendingIs DEF Wanted
  <1>4. \A name : HasRead(name) => HasRead(name)'
    BY DEF Grown
  <1>5. KdoComes'
    <2> SUFFICES ASSUME Pending(stack', {"Row", "From"}, {})
                 PROVE  HasRead("kdo")' \/ Pending(stack', {"Kdop", "DoH"}, {"kdo"})
      BY DEF KdoComes
    <2>1. HasRead("kdo") \/ Pending(stack, {"Kdop", "DoH"}, {"kdo"})
      BY <1>1, <1>3 DEF KdoComes
    <2> QED
      BY <1>3, <1>4, <2>1 DEF HeadDone
  <1>6. HasRead("kdo")' => HasRead("kdo") \/ Pending(stack, {}, {"kdo"})
    <2>1. ReadsOf(Step, {"kdo"}) => Pending(stack, {}, {"kdo"})
      BY PendingIs DEF Wanted
    <2> QED
      BY <2>1 DEF HeadDone
  <1>7. ASSUME NEW fns, Pending(stack, {}, {"kdo"}) PROVE Pending(stack, fns, {"kdo"})
    BY <1>7 DEF Pending, Has, Calls
  <1>8. RowComes'
    <2> DEFINE fns == {"Row", "UrpColumns", "QmiRows"}
               names == {"packed", "columns", "rows"}
    <2> SUFFICES ASSUME HasRead("kdo")' \/ Pending(stack', {"DoH"}, {"kdo"})
                 PROVE  (HasRead("kdo") /\ RowDone)' \/ Pending(stack', fns, names)
      BY DEF RowComes
    <2>1. HasRead("kdo") \/ Pending(stack, {"DoH"}, {"kdo"})
      BY <1>3, <1>6, <1>7
    <2>2. (HasRead("kdo") /\ RowDone) \/ Pending(stack, fns, names)
      BY <2>1 DEF RowComes
    <2>3. CASE HasRead("kdo") /\ RowDone
      BY <1>4, <2>3, RowDoneKept DEF RowTyped
    <2>4. CASE Pending(stack, fns, names)
      <3>1. Behind(fns, names) \/ ReadsOf(Step, names)
        BY <1>3, <2>4
      <3> QED
        BY <1>3, <1>4, <3>1 DEF HeadDone
    <2> QED
      BY <2>2, <2>3, <2>4
  <1>9. FromComes'
    <2> SUFFICES ASSUME change.opc[1] = 11,
                        HasRead("kdo")' \/ Pending(stack', {"Kdop", "DoH"}, {"kdo"})
                 PROVE  \/ (HasRead("kdo") /\ Field("kdo").type = Expected(change.opc[2]))'
                        \/ Pending(stack', {"From"}, {})
      BY DEF FromComes, Grown
    <2>1. HasRead("kdo") \/ Pending(stack, {"Kdop", "DoH"}, {"kdo"})
      BY <1>3, <1>6, <1>7
    <2>2. \/ HasRead("kdo") /\ Field("kdo").type = Expected(change.opc[2])
          \/ Pending(stack, {"From"}, {})
      BY <1>1, <2>1 DEF FromComes
    <2>3. CASE HasRead("kdo") /\ Field("kdo").type = Expected(change.opc[2])
      BY <2>3 DEF Grown, Field, Expected
    <2>4. CASE Pending(stack, {"From"}, {})
      <3>1. ~ReadsOf(Step, {})
        BY DEF ReadsOf
      <3> QED
        BY <1>3, <2>4, <3>1
    <2> QED
      BY <2>2, <2>3, <2>4
  <1> QED
    BY <1>5, <1>8, <1>9

\* A late step that ends its parser ends nothing of the row.
LEMMA ComesReturned ==
  ASSUME Frames(stack), Sorted, KdoComes, RowComes, FromComes, RowTyped, IInv,
         change' = change, got' = got,
         stack # << >>, Top.steps # << >>, Reads(Step), PhaseOf(Step.name) = 13,
         stack' = Returned, res = "parsing"
  PROVE  KdoComes' /\ RowComes' /\ FromComes'
  <1>1. ~Final(Step) /\ Ends(Step) = 13 /\ ~ErrTop /\ \A fns : ~Calls(Step, fns)
    BY ReadPhase DEF Reads, Final, ErrTop, Taking, Calls
  <1>2. Grown /\ \A name : HasRead(name)' <=> HasRead(name)
    BY GotSame
  <1>3. Kept(stack', 1)
    BY ReturnedIs
  <1>4. /\ CallStarts("Row") # 13 /\ CallStarts("From") # 13 /\ CallStarts("Kdop") # 13
        /\ CallStarts("DoH") # 13 /\ CallStarts("UrpColumns") # 13 /\ CallStarts("QmiRows") # 13
    BY DEF CallStarts
  <1>5. ASSUME NEW fns, NEW names, \A fn \in fns : CallStarts(fn) # 13, \A name \in names : PhaseOf(name) # 13
        PROVE  ~Pending(stack', fns, names) /\ ~Pending(stack, fns, names)
    <2>1. ~Behind(fns, names)
      BY <1>1, <1>5, NothingBehind
    <2>2. ~ReadsOf(Step, names)
      BY <1>5 DEF ReadsOf
    <2> QED
      BY <1>1, <1>3, <2>1, <2>2, PendingBack, PendingIs DEF Wanted
  <1>6. /\ ~Pending(stack', {"Row", "From"}, {})
        /\ ~Pending(stack', {"DoH"}, {"kdo"}) /\ ~Pending(stack', {"Kdop", "DoH"}, {"kdo"})
        /\ ~Pending(stack, {"Row", "UrpColumns", "QmiRows"}, {"packed", "columns", "rows"})
        /\ ~Pending(stack, {"From"}, {})
    BY <1>4, <1>5, PhasesOfNames
  <1>7. KdoComes'
    BY <1>6 DEF KdoComes
  <1>8. RowComes'
    <2>1. HasRead("kdo") => RowDone
      BY <1>6 DEF RowComes
    <2>2. HasRead("kdo") => HasRead("kdo")' /\ RowDone'
      BY <1>2, <2>1, RowDoneKept DEF RowTyped
    <2> QED
      BY <1>2, <1>6, <2>2 DEF RowComes
  <1>9. FromComes'
    <2>1. HasRead("kdo") /\ change.opc[1] = 11 => Field("kdo").type = Expected(change.opc[2])
      BY <1>1, <1>6 DEF FromComes
    <2>2. HasRead("kdo") /\ change.opc[1] = 11 => (Field("kdo").type = Expected(change.opc[2]))'
      BY <2>1 DEF Grown, Field, At, Expected
    <2> QED
      BY <1>2, <1>6, <2>2 DEF FromComes
  <1> QED
    BY <1>7, <1>8, <1>9

\* The outermost parsers keep what is still to come there.
LEMMA PendingCut ==
  ASSUME Frames(stack), NEW m \in 0 .. Len(stack), NEW d, d = SubSeq(stack, 1, m),
         NEW fns, NEW names, NEW k \in 1 .. m, NEW i \in 1 .. Len(stack[k].steps),
         Wanted(stack[k].steps[i], fns, names)
  PROVE  Pending(d, fns, names)
  <1>1. Len(d) = m /\ d[k] = stack[k]
    BY CutTo
  <1> QED
    BY <1>1, TheyWant

\* A parser whose caller goes on without it is that of a supplemental.
LEMMA ComesCaught ==
  ASSUME Frames(stack), AllFit, Catches, FromComes, IInv, change' = change, got' = got,
         res = "parsing", NEW c \in 1 .. Len(stack), stack[c].catch, stack' = SubSeq(stack, 1, c - 1)
  PROVE  KdoComes' /\ RowComes' /\ FromComes'
  <1>1. Grown /\ \A name : HasRead(name)' <=> HasRead(name)
    BY GotSame
  <1>2. c >= 3 /\ KdoIs({"Cfa", "Lmn"})
    BY DEF Catches
  <1>3. KdoIs({"Cfa", "Lmn"})' /\ HasRead("kdo")'
    BY <1>1, <1>2, KdoKept DEF KdoIs
  <1>4. RowDone'
    BY <1>3 DEF KdoIs, RowDone
  <1>5. FromComes'
    <2> SUFFICES ASSUME change.opc[1] = 11
                 PROVE  \/ (HasRead("kdo") /\ Field("kdo").type = Expected(change.opc[2]))'
                        \/ Pending(stack', {"From"}, {})
      BY DEF FromComes
    <2>1. \/ Field("kdo").type = Expected(change.opc[2])
          \/ Pending(stack, {"From"}, {})
      BY <1>2 DEF FromComes, KdoIs
    <2>2. CASE Field("kdo").type = Expected(change.opc[2])
      BY <1>3, <2>2 DEF Field, At, Expected
    <2>3. CASE Pending(stack, {"From"}, {})
      <3>1. PICK k \in 1 .. Len(stack) : \E i \in 1 .. Len(stack[k].steps) :
                   Wanted(stack[k].steps[i], {"From"}, {})
        BY <2>3 DEF Pending, Has, Wanted
      <3>2. PICK i \in 1 .. Len(stack[k].steps) : Wanted(stack[k].steps[i], {"From"}, {})
        BY <3>1
      <3>3. PICK x : x = stack[k].steps[i]
        OBVIOUS
      <3>4. Calls(x, {"From"}) /\ ~Final(x)
        BY <3>2, <3>3 DEF Wanted, ReadsOf, Calls, Final
      <3>5. Fits(k, x)
        BY <3>3, <3>4 DEF AllFit
      <3>6. k = 2
        BY <3>4, <3>5 DEF Fits, CallFits, Calls
      <3>7. c - 1 \in 0 .. Len(stack) /\ k \in 1 .. c - 1
        BY <1>2, <3>6, SplitSeq DEF Frames
      <3> QED
        BY <3>2, <3>7, PendingCut
    <2> QED
      BY <2>1, <2>2, <2>3
  <1> QED
    BY <1>3, <1>4, <1>5 DEF KdoComes, RowComes

\* A parser that has nothing left to do takes nothing with it.
LEMMA ComesReturn ==
  ASSUME Frames(stack), KdoComes, RowComes, FromComes, RowTyped, IInv, change' = change, got' = got,
         stack # << >>, Top.steps = << >>, stack' = SubSeq(stack, 1, Len(stack) - 1),
         res = "parsing"
  PROVE  KdoComes' /\ RowComes' /\ FromComes'
  <1>1. Grown /\ \A name : HasRead(name)' <=> HasRead(name)
    BY GotSame
  <1>2. ~ErrTop
    BY DEF ErrTop, Taking
  <1>3. Len(stack) \in Nat \ {0} /\ Top = stack[Len(stack)]
    BY TopIs
  <1>4. Len(stack) - 1 \in 0 .. Len(stack) - 1
    BY <1>3
  <1>5. Kept(stack', 1)
    BY <1>4, CutIs
  <1>6. ASSUME NEW fns, NEW names
        PROVE  Pending(stack', fns, names) <=> Pending(stack, fns, names)
    <2>1. ASSUME Pending(stack, fns, names) PROVE Pending(stack', fns, names)
      <3>1. PICK k \in 1 .. Len(stack) : \E i \in 1 .. Len(stack[k].steps) :
                   Wanted(stack[k].steps[i], fns, names)
        BY <2>1 DEF Pending, Has, Wanted
      <3>2. PICK i \in 1 .. Len(stack[k].steps) : Wanted(stack[k].steps[i], fns, names)
        BY <3>1
      <3>3. k # Len(stack)
        BY <1>3, <3>2, EmptyIsSeq
      <3>4. Len(stack) - 1 \in 0 .. Len(stack) /\ k \in 1 .. Len(stack) - 1
        BY <1>3, <3>3
      <3> QED
        BY <3>2, <3>4, PendingCut
    <2> QED
      BY <1>5, <2>1, PendingBack
  <1>7. KdoComes'
    BY <1>1, <1>2, <1>6 DEF KdoComes
  <1>8. RowComes'
    <2>1. HasRead("kdo") /\ RowDone => HasRead("kdo")' /\ RowDone'
      BY <1>1, RowDoneKept DEF RowTyped
    <2> QED
      BY <1>1, <1>6, <2>1 DEF RowComes
  <1>9. FromComes'
    <2>1. HasRead("kdo") /\ Field("kdo").type = Expected(change.opc[2]) =>
            (HasRead("kdo") /\ Field("kdo").type = Expected(change.opc[2]))'
      BY <1>1 DEF Grown, Field, Expected
    <2> QED
      BY <1>1, <1>2, <1>6, <2>1 DEF FromComes
  <1> QED
    BY <1>7, <1>8, <1>9

-----------------------------------------------------------------------------
(* What a call needs is there                                              *)

LEMMA LastOne ==
  ASSUME CInv, NEW name, HasRead(name)
  PROVE  \E g \in 1 .. Len(got) : got[g].name = name /\ At(name) = got[g]
  <1>1. IsSeq(got)
    BY DEF CInv, IInv
  <1> QED
    BY <1>1, FieldsByPlace, LastPlaceIs

LEMMA KdoTyped == ASSUME CInv PROVE RowTyped
  BY LastOne DEF CInv, GotTyped, RowTyped, Field

\* What is called next has what its parser needs.
LEMMA EnterReady ==
  ASSUME CInv, Taking({"call"})
  PROVE  /\ Ready(Step.fn, Len(stack) + 1)
         /\ CallFits(Len(stack), Step)
         /\ stack # << >> /\ Top.steps # << >> /\ ~Final(Step)
  <1> DEFINE fn == Step.fn
             n == Len(stack)
  <1>1. /\ Frames(stack) /\ AllFit /\ Sorted /\ FirstFrame /\ FramesPrepared /\ KdoComes /\ GotBefore /\ IInv
        /\ stack # << >> /\ Top.steps # << >> /\ Step.take = "call"
    BY DEF CInv, Taking
  <1>2. ~Final(Step) /\ Calls(Step, {fn})
    BY <1>1 DEF Final, Calls
  <1>3. /\ n \in Nat \ {0} /\ n \in 1 .. n /\ Top = stack[n]
        /\ 1 \in 1 .. Len(stack[n].steps) /\ Step = stack[n].steps[1] /\ ~ErrTop
    BY <1>1, TopIs DEF ErrTop, Taking
  <1>4. CallFits(n, Step)
    BY <1>1, <1>2, HeadFits DEF Fits
  <1>5. RowTyped
    BY KdoTyped
  <1>6. fn = "Change" => n + 1 = 2 /\ index = 0
    <2>1. ASSUME fn = "Change" PROVE n = 1
      BY <1>4, <2>1 DEF CallFits
    <2>2. ASSUME n = 1 PROVE index = 0
      BY <1>1, <1>3, <2>2 DEF FirstFrame
    <2>3. n = 1 => n + 1 = 2
      BY <1>3
    <2> QED
      BY <2>1, <2>2, <2>3
  <1>7. fn \in {"Change", "Kdop"} => ~HasRead("kdo")
    <2> SUFFICES ASSUME fn \in {"Change", "Kdop"}, HasRead("kdo") PROVE FALSE
      OBVIOUS
    <2>1. PICK g \in 1 .. Len(got) : got[g].name = "kdo"
      BY LastOne
    <2>2. Follows(6, Starts(Step))
      BY <1>1, <1>2, <1>3, <2>1, PhasesOfNames DEF GotBefore
    <2>3. Starts(Step) \in {0, 3}
      BY <1>2, CallPhase DEF CallStarts
    <2> QED
      BY <2>2, <2>3 DEF Follows
  <1>8. fn = "Kdop" => n + 1 > Outer
    BY <1>3, <1>4 DEF CallFits, Outer
  <1>9. fn \in {"DoH", "Row"} => n + 1 > Outer
    BY <1>3, <1>4 DEF CallFits, Outer
  <1>10. fn = "Before" => n + 1 = 3 /\ change.opc[1] = 5
    <2>1. fn = "Before" => n = 2 /\ change.opc[1] = 5
      BY <1>4 DEF CallFits
    <2>2. n = 2 => n + 1 = 3
      BY <1>3
    <2> QED
      BY <2>1, <2>2
  <1>11. fn = "Row" => HasRead("kdo") /\ index = At("kdo").at
    <2> SUFFICES ASSUME fn = "Row" PROVE HasRead("kdo")
      BY <1>4 DEF CallFits
    <2> SUFFICES ASSUME ~HasRead("kdo") PROVE FALSE
      OBVIOUS
    <2>1. Pending(stack, {"Row", "From"}, {})
      BY <1>1, <1>2, PendingIs DEF Wanted, Calls
    <2>2. Pending(stack, {"Kdop", "DoH"}, {"kdo"})
      BY <1>1, <1>3, <2>1 DEF KdoComes
    <2>3. Behind({"Kdop", "DoH"}, {"kdo"})
      <3>1. ~Wanted(Step, {"Kdop", "DoH"}, {"kdo"})
        BY <1>1 DEF Wanted, Calls, ReadsOf, Reads
      <3> QED
        BY <1>1, <2>2, <3>1, PendingIs
    <2>4. PICK k \in 1 .. Len(stack) : \E i \in 1 .. Len(stack[k].steps) :
                 Later(k, i) /\ Wanted(stack[k].steps[i], {"Kdop", "DoH"}, {"kdo"})
      BY <2>3 DEF Behind
    <2>5. PICK i \in 1 .. Len(stack[k].steps) :
                 Later(k, i) /\ Wanted(stack[k].steps[i], {"Kdop", "DoH"}, {"kdo"})
      BY <2>4
    <2>6. PICK x : x = stack[k].steps[i]
      OBVIOUS
    <2>7. Follows(11, Starts(x))
      <3>1. Ends(Step) = 11
        BY <1>2, CallPhase DEF CallEnds
      <3> QED
        BY <1>1, <1>2, <2>5, <2>6, <3>1, HeadFirst DEF InOrder
    <2>8. Starts(x) \in {3, 4, 6}
      <3>1. CASE Calls(x, {"Kdop", "DoH"})
        BY <3>1 DEF Calls, Starts, CallStarts
      <3>2. CASE ReadsOf(x, {"kdo"})
        BY <3>2, ReadPhase, PhasesOfNames DEF ReadsOf
      <3> QED
        BY <2>5, <2>6, <3>1, <3>2 DEF Wanted
    <2> QED
      BY <2>7, <2>8 DEF Follows
  <1>12. ASSUME NEW name, Prepared(stack[n].steps, name, fn) PROVE HasRead(name)
    <2> SUFFICES ASSUME ~HasRead(name) PROVE FALSE
      OBVIOUS
    <2>1. PICK i \in 1 .. Len(stack[n].steps) : i < 1
      BY <1>2, <1>3, <1>12 DEF Prepared
    <2>2. Len(stack[n].steps) \in Nat
      BY <1>1, <1>3, SplitSeq DEF Frames, IsFrame, Formed
    <2> QED
      BY <2>1, <2>2
  <1>13. AllPrepared(stack[n].steps)
    BY <1>1, <1>3 DEF FramesPrepared
  <1>14. /\ fn = "UrpColumns" => HasRead("ids")
         /\ fn = "QmiRows" => HasRead("sizes")
         /\ fn = "RowSlots" => HasRead("keySizes")
    BY <1>12, <1>13 DEF AllPrepared
  <1>15. /\ change \in Changes /\ index \in 0 .. Len(change.spans)
         /\ HasRead("kdo") => Field("kdo").nnew \in Nat
    BY <1>1, <1>5 DEF IInv, RowTyped
  <1>16. /\ fn \in Fns
         /\ fn = "UrpColumns" => KdoIs({"Urp"})
         /\ fn = "QmiRows" => KdoIs({"Qmi"})
         /\ fn \in {"KeySizes", "RowSlots"} => change.opc = <<10, 2>>
    BY <1>4 DEF CallFits
  <1>17. Ready(fn, n + 1)
    BY <1>6, <1>7, <1>8, <1>9, <1>10, <1>11, <1>14, <1>15, <1>16 DEF Ready
  <1> QED
    BY <1>1, <1>2, <1>4, <1>17

-----------------------------------------------------------------------------
(* What the bodies hold                                                     *)

LEMMA KdopHas == Has(Kdop, {"DoH"}, {}) /\ Has(Kdop, {"Row"}, {})
  <1> DEFINE x == [take |-> "call", fn |-> "DoH", catch |-> FALSE]
             y == [take |-> "call", fn |-> "Row", catch |-> FALSE]
  <1>1. x.take = "call" /\ x.fn = "DoH" /\ y.take = "call" /\ y.fn = "Row"
    OBVIOUS
  <1>2. Kdop = <<x>> \o <<y>>
    BY DEF Kdop, Call
  <1> HIDE DEF x, y
  <1>3. Has(<<x>>, {"DoH"}, {}) /\ Has(<<y>>, {"Row"}, {})
    BY <1>1, HasOne DEF Calls
  <1>4. IsSeq(<<x>>) /\ IsSeq(<<y>>)
    BY Single
  <1> QED
    BY <1>2, <1>3, <1>4, HasConcat

LEMMA DoHHas == DoH = Err \/ Has(DoH, {}, {"kdo"})
  <1> DEFINE x == [take |-> "one", name |-> "kdo", as |-> "KdoVector", fail |-> "error"]
             b == IF Peek.size > 0 THEN One("ktb", "KtbVector", "error") ELSE Skip
  <1>1. x.take = "one" /\ x.name = "kdo"
    OBVIOUS
  <1>2. DoH = Err \/ DoH = b \o <<x>>
    BY DEF DoH, One
  <1>3. IsSeq(b)
    BY Single DEF One, Skip
  <1> HIDE DEF x, b
  <1>4. Has(<<x>>, {}, {"kdo"})
    BY <1>1, HasOne DEF ReadsOf, Reads
  <1>5. IsSeq(<<x>>)
    BY Single
  <1> QED
    <2>1. Has(b \o <<x>>, {}, {"kdo"})
      BY <1>3, <1>4, <1>5, HasConcat
    <2> QED
      BY <1>2, <2>1

LEMMA ChangeHas ==
  ASSUME change.opc[1] = 11
  PROVE  \/ parse_to_show = << >>
         \/ Has(parse_to_show, {"Kdop"}, {}) /\ Has(parse_to_show, {"From"}, {})
  <1>1. parse_to_show \in {Change_11, << >>}
    <2>1. ASSUME NEW a, NEW b, change.opc = <<a, b>> PROVE a = 11
      BY <2>1
    <2>2. CASE change.opc \in {11} \X {2, 3, 4, 5, 6, 7, 8, 11, 12, 16, 22}
      BY <2>2 DEF parse_to_show
    <2>3. CASE change.opc \notin {11} \X {2, 3, 4, 5, 6, 7, 8, 11, 12, 16, 22}
      <3>1. change.opc \notin
              {<<5, 1>>, <<5, 2>>, <<5, 4>>, <<5, 6>>, <<5, 11>>, <<5, 12>>, <<5, 19>>, <<5, 20>>, <<5, 30>>,
               <<10, 2>>, <<10, 8>>, <<10, 18>>, <<17, 15>>, <<17, 27>>, <<24, 1>>, <<24, 4>>,
               <<24, 6>>, <<26, 2>>, <<26, 6>>, <<19, 1>>}
        BY <2>1
      <3> QED
        BY <2>3, <3>1 DEF parse_to_show
    <2> QED
      BY <2>2, <2>3
  <1> DEFINE x == [take |-> "call", fn |-> "Kdop", catch |-> FALSE]
             y == [take |-> "call", fn |-> "From", catch |-> FALSE]
  <1>2. x.take = "call" /\ x.fn = "Kdop" /\ y.take = "call" /\ y.fn = "From"
    OBVIOUS
  <1>3. Change_11 = <<x>> \o <<y>>
    BY DEF Change_11, Call
  <1> HIDE DEF x, y
  <1>4. Has(<<x>>, {"Kdop"}, {}) /\ Has(<<y>>, {"From"}, {})
    BY <1>2, HasOne DEF Calls
  <1>5. IsSeq(<<x>>) /\ IsSeq(<<y>>)
    BY Single
  <1>6. Has(Change_11, {"Kdop"}, {}) /\ Has(Change_11, {"From"}, {})
    BY <1>3, <1>4, <1>5, HasConcat
  <1> QED
    BY <1>1, <1>6

\* What a body holds fits, and lies between the phases of the call.
LEMMA InBody ==
  ASSUME NEW b, NEW lo, NEW hi, NEW k, BodyFits(b, lo, hi, k), NEW fns, NEW names, Has(b, fns, names)
  PROVE  \E x : Wanted(x, fns, names) /\ Fits(k, x) /\ lo <= Starts(x) /\ Ends(x) <= hi
  <1>1. PICK j \in 1 .. Len(b) : Wanted(b[j], fns, names)
    BY DEF Has, Wanted
  <1>2. ASSUME NEW x, x.take \in {"err", "undefined"}, b = <<x>> PROVE FALSE
    <2>1. b[j] = x
      BY <1>2, Single
    <2> QED
      BY <1>1, <1>2, <2>1 DEF Wanted, Calls, ReadsOf, Reads
  <1>3. b # Err /\ b # Undefined
    BY <1>2 DEF Err, Undefined
  <1>4. Piece(b, lo, hi, k)
    BY <1>3 DEF BodyFits
  <1> QED
    BY <1>1, <1>4 DEF Piece

\* Which calls can bring the head of a row, or the row.
LEMMA BringsKdo ==
  ASSUME NEW fn, NEW k, Ready(fn, k), Has(Body(fn), {"DoH"}, {"kdo"})
  PROVE  fn \in {"Kdop", "DoH"}
  <1>1. BodyFits(Body(fn), CallStarts(fn), CallEnds(fn), k)
    BY Bodies
  <1>2. PICK x : /\ Wanted(x, {"DoH"}, {"kdo"}) /\ Fits(k, x)
                 /\ CallStarts(fn) <= Starts(x) /\ Ends(x) <= CallEnds(fn)
    BY <1>1, InBody
  <1>3. Starts(x) \in {4, 6} /\ k > Outer
    <2>1. CASE Calls(x, {"DoH"})
      BY <1>2, <2>1, CallPhase DEF CallStarts, Fits, CallFits, Calls
    <2>2. CASE ReadsOf(x, {"kdo"})
      BY <1>2, <2>2, ReadPhase, PhasesOfNames DEF ReadsOf, Fits
    <2> QED
      BY <1>2, <2>1, <2>2 DEF Wanted
  <1>4. CallStarts(fn) <= 6
    BY <1>2, <1>3, Phases
  <1>5. fn # "Change" /\ fn # "Before"
    BY <1>3 DEF Ready, Outer
  <1>6. fn \in Fns
    BY DEF Ready
  <1> QED
    BY <1>4, <1>5, <1>6 DEF CallStarts, Fns

LEMMA BringsHead ==
  ASSUME NEW fn, NEW k, Ready(fn, k), change.opc[1] = 11, Has(Body(fn), {"Kdop", "DoH"}, {"kdo"})
  PROVE  fn \in {"Change", "Kdop", "DoH"}
  <1>1. BodyFits(Body(fn), CallStarts(fn), CallEnds(fn), k)
    BY Bodies
  <1>2. PICK x : /\ Wanted(x, {"Kdop", "DoH"}, {"kdo"}) /\ Fits(k, x)
                 /\ CallStarts(fn) <= Starts(x) /\ Ends(x) <= CallEnds(fn)
    BY <1>1, InBody
  <1>3. Starts(x) \in {3, 4, 6}
    <2>1. CASE Calls(x, {"Kdop", "DoH"})
      BY <2>1 DEF Calls, Starts, CallStarts
    <2>2. CASE ReadsOf(x, {"kdo"})
      BY <2>2, ReadPhase, PhasesOfNames DEF ReadsOf
    <2> QED
      BY <1>2, <2>1, <2>2 DEF Wanted
  <1>4. CallStarts(fn) <= 6
    BY <1>2, <1>3, Phases
  <1>5. fn # "Before" /\ fn \in Fns
    BY DEF Ready
  <1> QED
    BY <1>4, <1>5 DEF CallStarts, Fns

LEMMA BringsRow ==
  ASSUME NEW fn, NEW k, Ready(fn, k), Has(Body(fn), {"Row", "From"}, {})
  PROVE  fn \in {"Kdop", "Row"} \/ (k = 2 /\ change.opc[1] = 11)
  <1>1. BodyFits(Body(fn), CallStarts(fn), CallEnds(fn), k)
    BY Bodies
  <1>2. PICK x : /\ Wanted(x, {"Row", "From"}, {}) /\ Fits(k, x)
                 /\ CallStarts(fn) <= Starts(x) /\ Ends(x) <= CallEnds(fn)
    BY <1>1, InBody
  <1>3. CASE Calls(x, {"From"})
    BY <1>2, <1>3 DEF Fits, CallFits, Calls
  <1>4. CASE Calls(x, {"Row"})
    <2>1. Starts(x) = 7 /\ Ends(x) = 11 /\ k > Outer
      BY <1>2, <1>4, CallPhase DEF CallStarts, CallEnds, Fits, CallFits, Calls
    <2>2. CallStarts(fn) <= 7 /\ 11 <= CallEnds(fn)
      BY <1>2, <2>1, Phases
    <2>3. fn # "Change" /\ fn # "Before"
      BY <2>1 DEF Ready, Outer
    <2>4. fn \in Fns
      BY DEF Ready
    <2> QED
      BY <2>2, <2>3, <2>4 DEF CallStarts, CallEnds, Fns
  <1> QED
    BY <1>2, <1>3, <1>4 DEF Wanted, Calls, ReadsOf

-----------------------------------------------------------------------------
(* A body put on the stack                                                 *)

LEMMA FitsSame ==
  ASSUME IInv, change' = change, index' = index, got' = got, NEW k, NEW x, Fits(k, x)
  PROVE  Fits(k, x)'
  <1>1. /\ Grown
        /\ \A name : (HasRead(name)' <=> HasRead(name)) /\ At(name)' = At(name)
    BY GotSame
  <1>2. ASSUME Calls(x, {"Row"}), HasRead("kdo")' PROVE index' = At("kdo")'.at
    <2>1. HasRead("kdo") /\ At("kdo")' = At("kdo")
      BY <1>1, <1>2
    <2>2. CallFits(k, x) /\ x.fn = "Row"
      BY <1>2 DEF Fits, Calls
    <2>3. index = At("kdo").at
      BY <2>1, <2>2 DEF CallFits
    <2> QED
      BY <2>1, <2>3
  <1> QED
    BY <1>1, <1>2, FitsKept

LEMMA StraysSame ==
  ASSUME IInv, change' = change, got' = got, Strays PROVE Strays'
  <1>1. /\ \A name : (HasRead(name)' <=> HasRead(name)) /\ At(name)' = At(name)
        /\ \A name : Field(name)' = Field(name)
    BY GotSame
  <1>2. \A name : SizeOf(name)' = SizeOf(name)
    BY <1>1 DEF SizeOf
  <1>3. KeyCount' = KeyCount
    BY <1>1, <1>2 DEF KeyCount
  <1> QED
    BY <1>1, <1>2, <1>3 DEF Strays

LEMMA PreparedSame ==
  ASSUME IInv, change' = change, got' = got, NEW s, AllPrepared(s) PROVE AllPrepared(s)'
  <1>1. \A name : HasRead(name)' <=> HasRead(name)
    BY GotSame
  <1>2. ASSUME NEW name, NEW fn, Prepared(s, name, fn) PROVE Prepared(s, name, fn)'
    BY <1>1, <1>2 DEF Prepared
  <1> QED
    BY <1>2 DEF AllPrepared

LEMMA OutcomeParsing ==
  ASSUME res' = "parsing" PROVE Outcome'
  BY DEF Outcome, UndefinedOnly, ColumnsComplete

\* The head of the innermost parser is a call, and the body of the function has
\* been put on the stack.
Put(b) ==
  /\ Frames(stack') /\ Len(stack') = Len(stack) + 1 /\ Len(stack) \in Nat \ {0}
  /\ \A k \in 1 .. Len(stack) : stack'[k] = Done[k]
  /\ stack'[Len(stack) + 1].steps = b /\ stack'[Len(stack) + 1].catch = Step.catch

LEMMA PutIs ==
  ASSUME Frames(stack), stack # << >>, Top.steps # << >>, NEW b, Formed(b),
         Step.catch \in BOOLEAN,
         stack' = Append(Done, [steps |-> b, catch |-> Step.catch])
  PROVE  Put(b)
  <1> DEFINE d == Done
             n == Len(stack)
             c == Step.catch
  <1>1. Kept(d, 1) /\ Len(d) = n
    BY DoneIs
  <1>2. n \in Nat \ {0}
    BY TopIs
  <1>3. Frames(d) /\ c \in BOOLEAN /\ stack' = Append(d, [steps |-> b, catch |-> c])
    BY <1>1 DEF Kept
  <1> HIDE DEF d, c, n
  <1>5. PICK t : t = Append(d, [steps |-> b, catch |-> c])
    OBVIOUS
  <1>6. /\ Frames(t) /\ Len(t) = Len(d) + 1
        /\ \A k \in 1 .. Len(d) : t[k] = d[k]
        /\ t[Len(d) + 1].steps = b /\ t[Len(d) + 1].catch = c
    <2>1. PICK e, q : e = d /\ q = c
      OBVIOUS
    <2>2. Frames(e) /\ q \in BOOLEAN /\ t = Append(e, [steps |-> b, catch |-> q])
      BY <1>3, <1>5, <2>1
    <2>3. Frames(t)
      BY <2>2, PutOn
    <2>4. Len(t) = Len(e) + 1 /\ \A k \in 1 .. Len(e) : t[k] = e[k]
      BY <2>2, PutOn
    <2>5. t[Len(e) + 1].steps = b
      BY <2>2, PutOn
    <2>6. t[Len(e) + 1].catch = q
      BY <2>2, PutOn
    <2> QED
      BY <2>1, <2>3, <2>4, <2>5, <2>6, Zenon
  <1>7. t = stack'
    BY <1>3, <1>5
  <1>4. /\ Frames(stack') /\ Len(stack') = n + 1
        /\ \A k \in 1 .. n : stack'[k] = d[k]
        /\ stack'[n + 1].steps = b /\ stack'[n + 1].catch = c
    BY <1>1, <1>6, <1>7
  <1> QED
    BY <1>2, <1>4 DEF Put, d, n, c

LEMMA PutPlaces ==
  ASSUME NEW b, Put(b), NEW k \in 1 .. Len(stack')
  PROVE  \/ k \in 1 .. Len(stack) /\ stack'[k] = Done[k]
         \/ k = Len(stack) + 1 /\ stack'[k].steps = b /\ stack'[k].catch = Step.catch
  <1>1. k \in 1 .. Len(stack) \/ k = Len(stack) + 1
    BY DEF Put
  <1> QED
    BY <1>1 DEF Put

LEMMA PendingPut ==
  ASSUME NEW b, Put(b), Frames(stack), stack # << >>, Top.steps # << >>, NEW fns, NEW names
  PROVE  /\ Pending(stack', fns, names) => Behind(fns, names) \/ Has(b, fns, names)
         /\ Behind(fns, names) \/ Has(b, fns, names) => Pending(stack', fns, names)
  <1> DEFINE d == Done
             t == stack'
             n == Len(stack)
  <1>1. /\ Kept(d, 1) /\ Len(d) = n
        /\ Behind(fns, names) => Pending(d, fns, names)
    BY DoneIs, PendingDone
  <1>2. n \in Nat \ {0} /\ Len(t) = n + 1 /\ t[n + 1].steps = b
    BY DEF Put
  <1>3. \A k \in 1 .. n : t[k] = d[k]
    BY DEF Put
  <1> HIDE DEF d, t, n
  <1>4. ASSUME Pending(t, fns, names) PROVE Behind(fns, names) \/ Has(b, fns, names)
    <2>1. PICK k \in 1 .. Len(t) : Has(t[k].steps, fns, names)
      BY <1>4 DEF Pending
    <2>2. CASE k = n + 1
      BY <1>2, <2>1, <2>2
    <2>3. CASE k # n + 1
      <3>1. k \in 1 .. n
        BY <1>2, <2>3
      <3>2. k \in 1 .. Len(d) /\ Has(d[k].steps, fns, names)
        BY <1>1, <1>3, <2>1, <3>1
      <3>3. Pending(d, fns, names)
        BY <3>2 DEF Pending
      <3> QED
        BY <1>1, <3>3, PendingBack
    <2> QED
      BY <2>2, <2>3
  <1>5. ASSUME Behind(fns, names) PROVE Pending(t, fns, names)
    <2>1. PICK k \in 1 .. Len(d) : Has(d[k].steps, fns, names)
      BY <1>1, <1>5 DEF Pending
    <2>2. k \in 1 .. n /\ k \in 1 .. Len(t)
      BY <1>1, <1>2
    <2>3. Has(t[k].steps, fns, names)
      BY <1>3, <2>1, <2>2
    <2> QED
      BY <2>2, <2>3 DEF Pending
  <1>6. ASSUME Has(b, fns, names) PROVE Pending(t, fns, names)
    <2>1. n + 1 \in 1 .. Len(t)
      BY <1>2
    <2> QED
      BY <1>2, <1>6, <2>1 DEF Pending
  <1> QED
    BY <1>4, <1>5, <1>6 DEF t

LEMMA PutFits ==
  ASSUME CInv, Taking({"call"}), NEW b, b = Body(Step.fn), Put(b),
         BodyFits(b, CallStarts(Step.fn), CallEnds(Step.fn), Len(stack) + 1),
         change' = change, index' = index, got' = got
  PROVE  AllFit'
  <1>1. IInv /\ Frames(stack) /\ AllFit /\ stack # << >> /\ Top.steps # << >>
    BY DEF CInv, Taking
  <1> DEFINE d == Done
             n == Len(stack)
  <1>2. Kept(d, 1) /\ Len(d) = n
    BY <1>1, DoneIs
  <1>3. Len(stack') = n + 1 /\ n \in Nat \ {0}
    BY DEF Put
  <1>4. SUFFICES ASSUME NEW k \in 1 .. Len(stack'), NEW t, t = stack'[k].steps, NEW j \in 1 .. Len(t)
                 PROVE  \/ Fits(k, t[j])'
                        \/ /\ Final(t[j]) /\ k = Len(stack') /\ j = 1
                           /\ (t[j].take = "undefined" => Strays')
    <2>1. ASSUME NEW k \in 1 .. Len(stack'), NEW j \in 1 .. Len(stack'[k].steps)
          PROVE  LET x == stack[k].steps[j] IN
                   (\/ Fits(k, x)
                    \/ Final(x) /\ k = Len(stack) /\ j = 1 /\ (x.take = "undefined" => Strays))'
      <3>1. PICK t : t = stack'[k].steps
        OBVIOUS
      <3>2. j \in 1 .. Len(t)
        BY <3>1
      <3>3. \/ Fits(k, t[j])'
            \/ /\ Final(t[j]) /\ k = Len(stack') /\ j = 1
               /\ (t[j].take = "undefined" => Strays')
        BY <1>4, <3>1, <3>2
      <3> QED
        BY <3>1, <3>3
    <2> QED
      BY <2>1 DEF AllFit
  <1>5. CASE k \in 1 .. n
    <2>1. stack'[k] = d[k] /\ k \in 1 .. Len(d)
      BY <1>2, <1>5 DEF Put
    <2>2. t = d[k].steps
      BY <1>4, <2>1
    <2> HIDE DEF d
    <2>3. /\ Later(k, j + Shift(k, 1)) /\ t[j] = stack[k].steps[j + Shift(k, 1)]
      BY <1>1, <1>2, <1>4, <2>1, <2>2, KeptAt
    <2>4. PICK x : x = t[j]
      OBVIOUS
    <2>5. Fits(k, x)
      BY <1>1, <2>3, <2>4, LaterFits
    <2>6. Fits(k, x)'
      BY <1>1, <2>5, FitsSame
    <2> QED
      BY <2>4, <2>6
  <1>6. CASE k = n + 1
    <2>1. t = b
      BY <1>4, <1>6 DEF Put
    <2>2. CASE b = Err
      <3>1. Len(t) = 1 /\ Final(t[1])
        BY <2>1, <2>2, Single DEF Err, Final
      <3>2. j = 1 /\ t[1].take # "undefined"
        BY <2>1, <2>2, <3>1, Single DEF Err
      <3> QED
        BY <1>3, <1>6, <3>1, <3>2
    <2>3. CASE b = Undefined /\ Strays
      <3>1. Len(t) = 1 /\ Final(t[1])
        BY <2>1, <2>3, Single DEF Undefined, Final
      <3>2. j = 1 /\ Strays'
        BY <1>1, <2>3, <3>1, StraysSame
      <3> QED
        BY <1>3, <1>6, <3>1, <3>2
    <2>4. CASE Piece(b, CallStarts(Step.fn), CallEnds(Step.fn), n + 1)
      <3>1. PICK x : x = t[j]
        OBVIOUS
      <3>2. Fits(k, x)
        BY <1>6, <2>1, <2>4, <3>1 DEF Piece
      <3>3. Fits(k, x)'
        BY <1>1, <3>2, FitsSame
      <3> QED
        BY <3>1, <3>3
    <2> QED
      BY <2>2, <2>3, <2>4 DEF BodyFits
  <1> QED
    BY <1>3, <1>5, <1>6

-----------------------------------------------------------------------------
(* The body lies where its call lay                                        *)

\* What a body brings lies between the phases of its call.
LEMMA BodyBand ==
  ASSUME NEW b, NEW fn, NEW k, BodyFits(b, CallStarts(fn), CallEnds(fn), k)
  PROVE  /\ Formed(b) /\ SortedIn(b)
         /\ \A j \in 1 .. Len(b) :
              \/ Final(b[j])
              \/ CallStarts(fn) <= Starts(b[j]) /\ Ends(b[j]) <= CallEnds(fn)
  <1>1. CASE b = Err \/ b = Undefined
    <2>1. PICK x : b = <<x>> /\ Final(x) /\ WellFormed(x)
      BY <1>1 DEF Err, Undefined, Final, WellFormed, Takes
    <2>2. Len(b) = 1 /\ b[1] = x
      BY <2>1, Single
    <2>3. Formed(b)
      BY <2>1, FormedOne
    <2>4. SortedIn(b)
      BY <2>2 DEF SortedIn
    <2> QED
      BY <2>1, <2>2, <2>3, <2>4
  <1>2. CASE Piece(b, CallStarts(fn), CallEnds(fn), k)
    BY <1>2 DEF Piece
  <1> QED
    BY <1>1, <1>2 DEF BodyFits

LEMMA PutSorted ==
  ASSUME CInv, Taking({"call"}), NEW b, Put(b), NEW fn, fn = Step.fn,
         BodyFits(b, CallStarts(fn), CallEnds(fn), Len(stack) + 1)
  PROVE  Sorted'
  <1>1. IInv /\ Frames(stack) /\ Sorted /\ stack # << >> /\ Top.steps # << >> /\ Step.take = "call"
    BY DEF CInv, Taking
  <1> DEFINE d == Done
             n == Len(stack)
  <1>2. Kept(d, 1) /\ Len(d) = n /\ SortedStack(d)
    <2>1. Kept(d, 1) /\ Len(d) = n
      BY <1>1, DoneIs
    <2> HIDE DEF d
    <2>2. PICK e : e = d
      OBVIOUS
    <2> QED
      BY <1>1, <2>1, CarrySorted
  <1>3. /\ Formed(b) /\ SortedIn(b)
        /\ \A j \in 1 .. Len(b) :
             Final(b[j]) \/ (CallStarts(fn) <= Starts(b[j]) /\ Ends(b[j]) <= CallEnds(fn))
    BY BodyBand
  <1> HIDE DEF d
  <1>4. SUFFICES ASSUME NEW t, t = stack' PROVE SortedStack(t)
    BY DEF Sorted, SortedStack
  <1>5. /\ n \in Nat \ {0} /\ Len(t) = n + 1 /\ t[n + 1].steps = b
        /\ \A k \in 1 .. n : t[k] = d[k]
    BY <1>4 DEF Put, d
  <1> HIDE DEF n
  <1>6. ASSUME NEW k \in 1 .. Len(t) PROVE k \in 1 .. n \/ k = n + 1
    BY <1>5
  <1>7. ASSUME NEW k \in 1 .. Len(t) PROVE SortedIn(t[k].steps)
    <2>1. CASE k \in 1 .. n
      BY <1>2, <1>5, <2>1 DEF SortedStack
    <2>2. CASE k = n + 1
      BY <1>3, <1>5, <2>2
    <2> QED
      BY <1>6, <2>1, <2>2
  <1>8. ASSUME NEW m \in 1 .. Len(t), NEW k \in 1 .. Len(t), m < k,
               NEW i \in 1 .. Len(t[k].steps), NEW j \in 1 .. Len(t[m].steps)
        PROVE  InOrder(t[k].steps[i], t[m].steps[j])
    <2>1. m \in 1 .. n
      BY <1>5, <1>8
    <2>2. t[m] = d[m] /\ m \in 1 .. Len(d)
      BY <1>2, <1>5, <2>1
    <2>3. CASE k \in 1 .. n
      <3>1. t[k] = d[k] /\ k \in 1 .. Len(d)
        BY <1>2, <1>5, <2>3
      <3> QED
        BY <1>2, <1>8, <2>2, <3>1 DEF SortedStack
    <2>4. CASE k = n + 1
      <3>1. t[k].steps = b
        BY <1>5, <2>4
      <3>2. PICK x, y : x = b[i] /\ y = t[m].steps[j]
        OBVIOUS
      <3>3. i \in 1 .. Len(b) /\ j \in 1 .. Len(d[m].steps)
        BY <1>8, <2>2, <3>1
      <3>4. Later(m, j + Shift(m, 1)) /\ y = stack[m].steps[j + Shift(m, 1)]
        BY <1>1, <1>2, <2>2, <3>2, <3>3, KeptAt
      <3>5. InOrder(Step, y)
        BY <1>1, <3>4, HeadFirst
      <3>6. ~Final(Step) /\ Ends(Step) = CallEnds(fn)
        BY <1>1 DEF Final, Ends
      <3>7. Follows(CallEnds(fn), Starts(y))
        BY <3>5, <3>6 DEF InOrder
      <3>8. Final(x) \/ Ends(x) <= CallEnds(fn)
        BY <1>3, <3>2, <3>3
      <3>9. Final(x) \/ Follows(Ends(x), Starts(y))
        <4>1. Ends(x) \in 0 .. 13 /\ Starts(y) \in 0 .. 13 /\ CallEnds(fn) \in 0 .. 13
          BY Phases
        <4> QED
          BY <3>7, <3>8, <4>1, FollowsBand
      <3> QED
        BY <3>1, <3>2, <3>9 DEF InOrder
    <2> QED
      BY <1>6, <2>3, <2>4
  <1> QED
    BY <1>7, <1>8 DEF SortedStack

LEMMA PutBefore ==
  ASSUME CInv, Taking({"call"}), NEW b, Put(b), NEW fn, fn = Step.fn,
         BodyFits(b, CallStarts(fn), CallEnds(fn), Len(stack) + 1), got' = got
  PROVE  GotBefore'
  <1>1. /\ IInv /\ Frames(stack) /\ GotBefore /\ stack # << >> /\ Top.steps # << >>
        /\ Step.take = "call"
    BY DEF CInv, Taking
  <1> DEFINE d == Done
             n == Len(stack)
  <1>2. Kept(d, 1) /\ Len(d) = n
    BY <1>1, DoneIs
  <1>3. \A j \in 1 .. Len(b) :
          Final(b[j]) \/ (CallStarts(fn) <= Starts(b[j]) /\ Ends(b[j]) <= CallEnds(fn))
    BY BodyBand
  <1>4. SUFFICES ASSUME NEW g \in 1 .. Len(got), NEW t, t = stack', NEW k \in 1 .. Len(t),
                        NEW j \in 1 .. Len(t[k].steps)
                 PROVE  \/ Final(t[k].steps[j])
                        \/ Follows(PhaseOf(got[g].name), Starts(t[k].steps[j]))
    BY DEF GotBefore
  <1>5. CASE k \in 1 .. n
    <2>1. t[k] = d[k] /\ k \in 1 .. Len(d)
      BY <1>2, <1>4, <1>5 DEF Put
    <2> HIDE DEF d
    <2>2. /\ Later(k, j + Shift(k, 1)) /\ t[k].steps[j] = stack[k].steps[j + Shift(k, 1)]
      BY <1>1, <1>2, <1>4, <2>1, KeptAt
    <2>3. PICK i : i = j + Shift(k, 1)
      OBVIOUS
    <2>4. k \in 1 .. Len(stack) /\ i \in 1 .. Len(stack[k].steps) /\ t[k].steps[j] = stack[k].steps[i]
      BY <2>2, <2>3 DEF Later, Place
    <2> QED
      BY <1>1, <2>4 DEF GotBefore
  <1>6. CASE k = n + 1
    <2>1. t[k].steps = b
      BY <1>4, <1>6 DEF Put
    <2>2. PICK x : x = b[j]
      OBVIOUS
    <2>3. Final(x) \/ CallStarts(fn) <= Starts(x)
      BY <1>3, <1>4, <2>1, <2>2
    <2>4. Follows(PhaseOf(got[g].name), CallStarts(fn))
      <3>1. n \in 1 .. n /\ Step = stack[n].steps[1] /\ 1 \in 1 .. Len(stack[n].steps)
        BY <1>1, TopIs
      <3>2. ~Final(Step) /\ Starts(Step) = CallStarts(fn)
        BY <1>1 DEF Final, Starts
      <3>3. Final(Step) \/ Follows(PhaseOf(got[g].name), Starts(Step))
        BY <1>1, <3>1 DEF GotBefore
      <3> QED
        BY <3>2, <3>3
    <2>5. Final(x) \/ Follows(PhaseOf(got[g].name), Starts(x))
      <3>1. PhaseOf(got[g].name) \in 0 .. 13 /\ Starts(x) \in 0 .. 13 /\ CallStarts(fn) \in 0 .. 13
        BY Phases
      <3> QED
        BY <2>3, <2>4, <3>1, FollowsBand
    <2> QED
      BY <2>1, <2>2, <2>5
  <1>7. k \in 1 .. n \/ k = n + 1
    BY <1>4 DEF Put
  <1> QED
    BY <1>5, <1>6, <1>7

\* The first frame has only the call of the parser.
LEMMA OnlyCall ==
  ASSUME CInv, Taking({"call"}), Len(stack) = 1 PROVE Step.fn = "Change"
  <1>1. Frames(stack) /\ FirstFrame /\ stack # << >> /\ Top.steps # << >>
    BY DEF CInv, Taking
  <1>2. Top = stack[1] /\ Step = Top.steps[1]
    BY <1>1, TopIs
  <1>3. Calls(Step, {"Change"})
    BY <1>1, <1>2 DEF FirstFrame
  <1> QED
    BY <1>3 DEF Calls

LEMMA PutOthers ==
  ASSUME CInv, Taking({"call"}), NEW b, Put(b), NEW fn, fn = Step.fn,
         BodyFits(b, CallStarts(fn), CallEnds(fn), Len(stack) + 1),
         change' = change, index' = index, got' = got
  PROVE  FirstFrame' /\ Catches' /\ FramesPrepared'
  <1>1. /\ IInv /\ Frames(stack) /\ AllFit /\ FirstFrame /\ Catches /\ FramesPrepared
        /\ stack # << >> /\ Top.steps # << >> /\ Step.take = "call"
    BY DEF CInv, Taking
  <1> DEFINE d == Done
             n == Len(stack)
  <1>2. Kept(d, 1) /\ Len(d) = n /\ d # << >>
    BY <1>1, DoneIs
  <1>3. Grown
    BY <1>1, GotSame
  <1>4. CallFits(n, Step)
    BY EnterReady
  <1>5. /\ n \in Nat \ {0} /\ Len(stack') = n + 1
        /\ \A k \in 1 .. n : stack'[k] = d[k]
        /\ stack'[n + 1].steps = b /\ stack'[n + 1].catch = Step.catch
    BY DEF Put
  <1>6. FirstFrame'
    <2>1. Stays(1)
      BY DEF Stays
    <2> HIDE DEF d
    <2>2. d[1].steps = << >>
      BY <1>1, <1>2, <2>1, CarryFirst
    <2>3. stack'[1].steps = << >>
      BY <1>5, <2>2
    <2> QED
      BY <2>3 DEF FirstFrame
  <1>7. Catches'
    <2>1. SUFFICES ASSUME NEW k \in 1 .. Len(stack'), stack'[k].catch
                   PROVE  k >= 3 /\ KdoIs({"Cfa", "Lmn"})
      <3>1. ASSUME NEW k \in 1 .. Len(stack'), stack'[k].catch PROVE k >= 3 /\ KdoIs({"Cfa", "Lmn"})'
        BY <1>3, <2>1, <3>1, KdoKept
      <3> QED
        BY <3>1 DEF Catches
    <2>2. CASE k \in 1 .. n
      <3>1. stack'[k] = d[k] /\ k \in 1 .. Len(d)
        BY <1>2, <1>5, <2>2
      <3>2. stack[k].catch
        <4> HIDE DEF d
        <4>1. d[k].catch = stack[k].catch
          BY <1>2, <3>1 DEF Kept
        <4> QED
          BY <2>1, <3>1, <4>1
      <3> QED
        BY <1>1, <2>2, <3>2 DEF Catches
    <2>3. CASE k = n + 1
      <3>1. Step.catch
        BY <1>5, <2>1, <2>3
      <3>2. Step.fn = "Usp" /\ KdoIs({"Cfa", "Lmn"})
        BY <1>4, <3>1 DEF CallFits
      <3>3. n # 1
        BY <3>2, OnlyCall
      <3>4. n + 1 >= 3
        <4>1. \A m \in Nat \ {0} : m # 1 => m + 1 >= 3
          OBVIOUS
        <4> HIDE DEF n
        <4> QED
          BY <1>5, <3>3, <4>1 DEF n
      <3> QED
        BY <2>3, <3>2, <3>4
    <2> QED
      BY <1>5, <2>1, <2>2, <2>3
  <1>8. FramesPrepared'
    <2>1. ReadNow
      BY <1>1 DEF ReadNow, ReadsOf, Reads
    <2>2. PICK e : e = Done
      OBVIOUS
    <2>7. /\ Kept(e, 1) /\ Len(e) = n
          /\ \A k \in 1 .. n : stack'[k] = e[k]
      BY <1>2, <1>5, <2>2
    <2> HIDE DEF d
    <2>8. \A k \in 1 .. Len(e) : AllPrepared(e[k].steps)'
      <3>2. Stays(1)
        BY DEF Stays
      <3> QED
        BY <1>1, <1>3, <2>1, <2>2, <2>7, <3>2, CarryPrepared
    <2>3. AllPrepared(b)
      <3>1. CASE b = Err \/ b = Undefined
        <4>1. PICK x : b = <<x>> /\ x.take # "call"
          BY <3>1 DEF Err, Undefined
        <4>2. Len(b) = 1 /\ b[1] = x
          BY <4>1, Single
        <4> QED
          BY <4>1, <4>2 DEF AllPrepared, Prepared, Calls
      <3>2. CASE Piece(b, CallStarts(fn), CallEnds(fn), n + 1)
        BY <3>2 DEF Piece
      <3> QED
        BY <3>1, <3>2 DEF BodyFits
    <2>4. AllPrepared(b)'
      BY <1>1, <2>3, PreparedSame
    <2> SUFFICES ASSUME NEW k \in 1 .. Len(stack'), NEW t, t = stack'[k].steps
                 PROVE  AllPrepared(t)'
      <3>1. ASSUME NEW k \in 1 .. Len(stack') PROVE AllPrepared(stack[k].steps)'
        BY <3>1
      <3> QED
        BY <3>1 DEF FramesPrepared
    <2>5. CASE k \in 1 .. n
      <3>1. t = e[k].steps /\ k \in 1 .. Len(e)
        BY <2>5, <2>7
      <3> QED
        BY <2>8, <3>1
    <2>6. CASE k = n + 1
      BY <1>5, <2>4, <2>6
    <2> QED
      BY <1>5, <2>5, <2>6
  <1> QED
    BY <1>6, <1>7, <1>8

-----------------------------------------------------------------------------
(* What the body brings                                                    *)

LEMMA HasMore ==
  ASSUME NEW s, NEW fns, NEW names, Has(s, fns, names),
         NEW moreFns, NEW moreNames, fns \subseteq moreFns, names \subseteq moreNames
  PROVE  Has(s, moreFns, moreNames)
  BY DEF Has, Calls, ReadsOf

LEMMA BehindMore ==
  ASSUME NEW fns, NEW names, Behind(fns, names),
         NEW moreFns, NEW moreNames, fns \subseteq moreFns, names \subseteq moreNames
  PROVE  Behind(moreFns, moreNames)
  BY DEF Behind, Wanted, Calls, ReadsOf

LEMMA CallWanted ==
  ASSUME Step.take = "call", NEW fns, NEW names
  PROVE  Wanted(Step, fns, names) <=> Step.fn \in fns
  BY DEF Wanted, Calls, ReadsOf, Reads

LEMMA ErrPut ==
  ASSUME NEW b, b = Err, Put(b) PROVE ErrTop'
  <1>1. PICK x : b = <<x>> /\ x.take = "err"
    BY DEF Err
  <1>2. b # << >> /\ Head(b) = x
    BY <1>1, Single
  <1>3. PICK t : t = stack'
    OBVIOUS
  <1>4. Len(t) = Len(stack) + 1 /\ Len(stack) \in Nat \ {0} /\ t[Len(stack) + 1].steps = b
    BY <1>3 DEF Put
  <1>5. t # << >>
    BY <1>4, EmptyIsSeq
  <1>6. t[Len(t)].steps = b
    BY <1>4
  <1>7. Top'.steps = b /\ Step' = Head(b)
    BY <1>3, <1>6 DEF Top, Step
  <1> QED
    BY <1>1, <1>2, <1>3, <1>5, <1>7 DEF ErrTop, Taking

LEMMA PutKdoComes ==
  ASSUME CInv, Taking({"call"}), NEW b, Put(b), NEW fn, fn = Step.fn, b = Body(fn),
         change' = change, got' = got
  PROVE  KdoComes'
  <1>1. /\ IInv /\ Frames(stack) /\ KdoComes /\ stack # << >> /\ Top.steps # << >>
        /\ Step.take = "call" /\ ~ErrTop
    BY DEF CInv, Taking, ErrTop
  <1> DEFINE n == Len(stack)
  <1>2. Ready(fn, n + 1) /\ n \in Nat \ {0}
    BY <1>1, TopIs, EnterReady
  <1>3. \A name : HasRead(name)' <=> HasRead(name)
    BY <1>1, GotSame
  <1>4. SUFFICES ASSUME NEW t, t = stack', Pending(t, {"Row", "From"}, {}), ~HasRead("kdo")
                 PROVE  Pending(t, {"Kdop", "DoH"}, {"kdo"}) \/ ErrTop'
    BY <1>3 DEF KdoComes, Pending
  <1>5. \A fns, names : Behind(fns, names) \/ Has(b, fns, names) => Pending(t, fns, names)
    BY <1>1, <1>4, PendingPut
  <1>6. Behind({"Row", "From"}, {}) \/ Has(b, {"Row", "From"}, {})
    BY <1>1, <1>4, PendingPut
  <1>7. ASSUME Has(b, {"Row", "From"}, {}) PROVE Pending(t, {"Kdop", "DoH"}, {"kdo"})
    <2>1. fn \in {"Kdop", "Row"} \/ (n + 1 = 2 /\ change.opc[1] = 11)
      <3> HIDE DEF n
      <3> QED
        BY <1>2, <1>7, BringsRow
    <2>2. CASE fn = "Kdop"
      <3>1. Has(b, {"DoH"}, {})
        BY <2>2, KdopHas DEF Body
      <3>2. Has(b, {"Kdop", "DoH"}, {"kdo"})
        BY <3>1, HasMore
      <3> QED
        BY <1>5, <3>2
    <2>3. fn # "Row"
      BY <1>2, <1>4 DEF Ready
    <2>4. CASE n + 1 = 2 /\ change.opc[1] = 11
      <3>1. n = 1
        <4> HIDE DEF n
        <4> QED
          BY <1>2, <2>4
      <3>2. fn = "Change"
        BY <3>1, OnlyCall
      <3>3. b = parse_to_show
        BY <3>2 DEF Body
      <3>4. b # << >>
        BY <1>7, EmptyIsSeq DEF Has
      <3>5. Has(b, {"Kdop"}, {})
        BY <2>4, <3>3, <3>4, ChangeHas
      <3>6. Has(b, {"Kdop", "DoH"}, {"kdo"})
        BY <3>5, HasMore
      <3> QED
        BY <1>5, <3>6
    <2> QED
      BY <2>1, <2>2, <2>3, <2>4
  <1>8. ASSUME Behind({"Row", "From"}, {}) PROVE Pending(t, {"Kdop", "DoH"}, {"kdo"}) \/ ErrTop'
    <2>1. Pending(stack, {"Row", "From"}, {})
      BY <1>1, <1>8, PendingIs
    <2>2. Pending(stack, {"Kdop", "DoH"}, {"kdo"})
      BY <1>1, <1>4, <2>1 DEF KdoComes
    <2>3. Behind({"Kdop", "DoH"}, {"kdo"}) \/ Wanted(Step, {"Kdop", "DoH"}, {"kdo"})
      BY <1>1, <2>2, PendingIs
    <2>4. CASE Wanted(Step, {"Kdop", "DoH"}, {"kdo"})
      <3>1. fn \in {"Kdop", "DoH"}
        BY <1>1, <2>4, CallWanted
      <3>2. CASE fn = "Kdop"
        <4>1. Has(b, {"DoH"}, {})
          BY <3>2, KdopHas DEF Body
        <4>2. Has(b, {"Kdop", "DoH"}, {"kdo"})
          BY <4>1, HasMore
        <4> QED
          BY <1>5, <4>2
      <3>3. CASE fn = "DoH"
        <4>1. b = DoH
          BY <3>3 DEF Body
        <4>2. CASE Has(b, {}, {"kdo"})
          <5>1. Has(b, {"Kdop", "DoH"}, {"kdo"})
            BY <4>2, HasMore
          <5> QED
            BY <1>5, <5>1
        <4>3. CASE b = Err
          BY <4>3, ErrPut
        <4> QED
          BY <4>1, <4>2, <4>3, DoHHas
      <3> QED
        BY <3>1, <3>2, <3>3
    <2> QED
      BY <1>5, <2>3, <2>4
  <1> QED
    BY <1>6, <1>7, <1>8

LEMMA PutRowComes ==
  ASSUME CInv, Taking({"call"}), NEW b, Put(b), NEW fn, fn = Step.fn, b = Body(fn),
         change' = change, got' = got, res' = res
  PROVE  RowComes'
  <1>1. /\ IInv /\ Frames(stack) /\ RowComes /\ RowTyped /\ stack # << >> /\ Top.steps # << >>
        /\ Step.take = "call"
    BY KdoTyped DEF CInv, Taking
  <1> DEFINE n == Len(stack)
             Fs == {"Row", "UrpColumns", "QmiRows"}
             Ns == {"packed", "columns", "rows"}
  <1>2. Ready(fn, n + 1)
    BY EnterReady
  <1>3. Grown /\ \A name : HasRead(name)' <=> HasRead(name)
    BY <1>1, GotSame
  <1>4. SUFFICES ASSUME NEW t, t = stack', res = "parsing",
                        HasRead("kdo") \/ Pending(t, {"DoH"}, {"kdo"})
                 PROVE  (HasRead("kdo") /\ RowDone) \/ Pending(t, Fs, Ns)
    <2>1. ASSUME HasRead("kdo"), RowDone PROVE RowDone'
      BY <1>1, <1>3, <2>1, RowDoneKept DEF RowTyped
    <2> QED
      BY <1>3, <1>4, <2>1 DEF RowComes
  <1>5. \A fns, names : Behind(fns, names) \/ Has(b, fns, names) => Pending(t, fns, names)
    BY <1>1, <1>4, PendingPut
  <1>6. \/ HasRead("kdo") \/ Pending(stack, {"DoH"}, {"kdo"})
        \/ Has(b, {"DoH"}, {"kdo"})
    <2>1. CASE Pending(t, {"DoH"}, {"kdo"})
      <3>1. Behind({"DoH"}, {"kdo"}) \/ Has(b, {"DoH"}, {"kdo"})
        BY <1>1, <1>4, <2>1, PendingPut
      <3> QED
        BY <1>1, <3>1, PendingIs
    <2> QED
      BY <1>4, <2>1
  <1>7. CASE HasRead("kdo") \/ Pending(stack, {"DoH"}, {"kdo"})
    <2>1. (HasRead("kdo") /\ RowDone) \/ Pending(stack, Fs, Ns)
      BY <1>1, <1>4, <1>7 DEF RowComes
    <2> HIDE DEF Fs, Ns
    <2>2. CASE Pending(stack, Fs, Ns)
      <3>1. Behind(Fs, Ns) \/ Wanted(Step, Fs, Ns)
        BY <1>1, <2>2, PendingIs
      <3>2. CASE Wanted(Step, Fs, Ns)
        <4>1. fn \in Fs
          BY <1>1, <3>2, CallWanted
        <4>2. CASE fn = "Row"
          <5>1. /\ HasRead("kdo") /\ index = At("kdo").at /\ change \in Changes
                /\ index \in 0 .. Len(change.spans) /\ Field("kdo").nnew \in Nat
            BY <1>2, <4>2 DEF Ready
          <5>2. RowDone \/ RowsAhead(Row)
            BY <5>1, RowBody
          <5>3. b = Row
            BY <4>2 DEF Body
          <5>4. RowDone \/ Has(b, Fs, Ns)
            BY <5>2, <5>3 DEF RowsAhead, Fs, Ns
          <5> QED
            BY <1>5, <5>1, <5>4
        <4>3. CASE fn = "UrpColumns"
          <5>1. KdoIs({"Urp"}) /\ HasRead("ids")
            BY <1>2, <4>3 DEF Ready
          <5>2. RowsAhead(UrpColumns)
            BY <5>1, UrpColumnsBody
          <5>3. Has(b, Fs, Ns)
            BY <4>3, <5>2 DEF RowsAhead, Body, Fs, Ns
          <5> QED
            BY <1>5, <5>3
        <4>4. CASE fn = "QmiRows"
          <5>1. KdoIs({"Qmi"}) /\ HasRead("sizes")
            BY <1>2, <4>4 DEF Ready
          <5>2. RowsAhead(QmiRows)
            BY <5>1, QmiRowsBody
          <5>3. Has(b, Fs, Ns)
            BY <4>4, <5>2 DEF RowsAhead, Body, Fs, Ns
          <5> QED
            BY <1>5, <5>3
        <4> QED
          BY <4>1, <4>2, <4>3, <4>4 DEF Fs
      <3> QED
        BY <1>5, <3>1, <3>2
    <2> QED
      BY <2>1, <2>2
  <1>8. CASE Has(b, {"DoH"}, {"kdo"})
    <2>1. fn \in {"Kdop", "DoH"}
      <3> HIDE DEF n
      <3> QED
        BY <1>2, <1>8, BringsKdo
    <2>2. CASE fn = "Kdop"
      <3>1. Has(b, {"Row"}, {})
        BY <2>2, KdopHas DEF Body
      <3>2. Has(b, Fs, Ns)
        BY <3>1, HasMore
      <3> QED
        BY <1>5, <3>2
    <2>3. CASE fn = "DoH"
      <3>1. Wanted(Step, {"DoH"}, {"kdo"})
        BY <1>1, <2>3, CallWanted
      <3>2. Pending(stack, {"DoH"}, {"kdo"})
        BY <1>1, <3>1, PendingIs
      <3> QED
        BY <1>7, <3>2
    <2> QED
      BY <2>1, <2>2, <2>3
  <1> QED
    BY <1>6, <1>7, <1>8

-----------------------------------------------------------------------------
(* A call keeps the control invariant                                      *)

LEMMA PutFromComes ==
  ASSUME CInv, Taking({"call"}), NEW b, Put(b), NEW fn, fn = Step.fn, b = Body(fn),
         change' = change, got' = got, res' = res
  PROVE  FromComes'
  <1>1. /\ IInv /\ Frames(stack) /\ Sorted /\ Catches /\ KdoComes /\ FromComes
        /\ stack # << >> /\ Top.steps # << >> /\ Step.take = "call" /\ ~ErrTop
    BY DEF CInv, Taking, ErrTop
  <1> DEFINE n == Len(stack)
             Hs == {"Kdop", "DoH"}
  <1>2. Ready(fn, n + 1) /\ CallFits(n, Step)
    BY EnterReady
  <1>3. /\ \A name : HasRead(name)' <=> HasRead(name)
        /\ Field("kdo")' = Field("kdo")
    BY <1>1, GotSame
  <1>4. SUFFICES ASSUME NEW t, t = stack', res = "parsing", change.opc[1] = 11,
                        HasRead("kdo") \/ Pending(t, Hs, {"kdo"})
                 PROVE  \/ HasRead("kdo") /\ Field("kdo").type = Expected(change.opc[2])
                        \/ Pending(t, {"From"}, {})
                        \/ ErrTop' /\ \A k \in 1 .. Len(t) : ~t[k].catch
    BY <1>3 DEF FromComes
  <1>5. \A fns, names : Behind(fns, names) \/ Has(b, fns, names) => Pending(t, fns, names)
    BY <1>1, <1>4, PendingPut
  <1> HIDE DEF Hs
  <1>6. \/ HasRead("kdo") \/ Pending(stack, Hs, {"kdo"})
        \/ Has(b, Hs, {"kdo"})
    <2>1. CASE Pending(t, Hs, {"kdo"})
      <3>1. Behind(Hs, {"kdo"}) \/ Has(b, Hs, {"kdo"})
        BY <1>1, <1>4, <2>1, PendingPut
      <3> QED
        BY <1>1, <3>1, PendingIs
    <2> QED
      BY <1>4, <2>1
  <1>7. CASE HasRead("kdo") \/ Pending(stack, Hs, {"kdo"})
    <2>1. \/ HasRead("kdo") /\ Field("kdo").type = Expected(change.opc[2])
          \/ Pending(stack, {"From"}, {})
      BY <1>1, <1>4, <1>7 DEF FromComes, Hs
    <2>2. CASE Pending(stack, {"From"}, {})
      <3>1. Behind({"From"}, {}) \/ Wanted(Step, {"From"}, {})
        BY <1>1, <2>2, PendingIs
      <3>2. CASE Wanted(Step, {"From"}, {})
        <4>1. fn = "From"
          BY <1>1, <3>2, CallWanted
        <4>2. b = From
          BY <4>1 DEF Body
        <4>3. CASE b = Err
          <5>1. ErrTop'
            BY <4>3, ErrPut
          <5>2. ASSUME NEW k \in 1 .. Len(t), t[k].catch PROVE FALSE
            <6>1. n = 2 /\ (Step.catch => Step.fn = "Usp")
              BY <1>2, <4>1 DEF CallFits
            <6>2. k \in 1 .. n \/ k = n + 1
              BY <1>4, <5>2, PutPlaces
            <6>3. CASE k = n + 1
              BY <1>4, <4>1, <5>2, <6>1, <6>3 DEF Put
            <6>4. CASE k \in 1 .. n
              <7>1. PICK d : d = Done
                OBVIOUS
              <7>2. t[k] = d[k]
                BY <1>4, <6>4, <7>1 DEF Put
              <7>3. Kept(d, 1) /\ Len(d) = n
                BY <1>1, <7>1, DoneIs
              <7>4. stack[k].catch
                <8>1. d[k].catch = stack[k].catch
                  BY <6>4, <7>3 DEF Kept
                <8> QED
                  BY <5>2, <7>2, <8>1
              <7>5. k >= 3
                BY <1>1, <6>4, <7>4 DEF Catches
              <7>6. k \in 1 .. 2
                BY <6>1, <6>4
              <7> QED
                BY <7>5, <7>6
            <6> QED
              BY <6>2, <6>3, <6>4
          <5> QED
            BY <5>1, <5>2
        <4>4. CASE Field("kdo").type = Expected(change.opc[2])
          <5>1. HasRead("kdo")
            <6>1. Wanted(Step, {"Row", "From"}, {})
              BY <1>1, <4>1, CallWanted
            <6>2. Pending(stack, {"Row", "From"}, {})
              BY <1>1, <6>1, PendingIs
            <6>3. HasRead("kdo") \/ Pending(stack, Hs, {"kdo"})
              BY <1>1, <6>2 DEF KdoComes, Hs
            <6>4. ~Wanted(Step, Hs, {"kdo"})
              BY <1>1, <4>1, CallWanted DEF Hs
            <6>5. ~Behind(Hs, {"kdo"})
              <7>1. SUFFICES ASSUME NEW k, NEW i, Later(k, i), Wanted(stack[k].steps[i], Hs, {"kdo"})
                             PROVE  FALSE
                BY DEF Behind
              <7>2. PICK y : y = stack[k].steps[i]
                OBVIOUS
              <7>3. InOrder(Step, y)
                BY <1>1, <7>1, <7>2, HeadFirst
              <7>4. ~Final(Step) /\ Ends(Step) = 12
                BY <1>1, <4>1 DEF Final, Ends, CallEnds, CallStarts
              <7>5. Starts(y) \in {3, 4, 6}
                <8>1. CASE Calls(y, Hs)
                  BY <8>1 DEF Calls, Hs, Starts, CallStarts
                <8>2. CASE ReadsOf(y, {"kdo"})
                  BY <8>2, ReadPhase DEF ReadsOf, PhaseOf
                <8> QED
                  BY <7>1, <7>2, <8>1, <8>2 DEF Wanted
              <7>6. Follows(12, Starts(y))
                BY <7>3, <7>4 DEF InOrder
              <7> QED
                BY <7>5, <7>6 DEF Follows
            <6> QED
              BY <1>1, <6>3, <6>4, <6>5, PendingIs
          <5> QED
            BY <4>4, <5>1
        <4> QED
          BY <4>2, <4>3, <4>4, FromBody
      <3> QED
        BY <1>5, <3>1, <3>2
    <2> QED
      BY <2>1, <2>2
  <1>8. CASE Has(b, Hs, {"kdo"})
    <2>1. fn \in {"Change", "Kdop", "DoH"}
      <3> HIDE DEF n
      <3> QED
        BY <1>2, <1>4, <1>8, BringsHead DEF Hs
    <2>2. CASE fn = "Change"
      <3>1. b = parse_to_show
        BY <2>2 DEF Body
      <3>2. b # << >>
        BY <1>8, EmptyIsSeq DEF Has
      <3>3. Has(b, {"From"}, {})
        BY <1>4, <3>1, <3>2, ChangeHas
      <3> QED
        BY <1>5, <3>3
    <2>3. CASE fn \in Hs
      <3>1. Wanted(Step, Hs, {"kdo"})
        BY <1>1, <2>3, CallWanted
      <3>2. Pending(stack, Hs, {"kdo"})
        BY <1>1, <3>1, PendingIs
      <3> QED
        BY <1>7, <3>2
    <2> QED
      BY <2>1, <2>2, <2>3 DEF Hs
  <1> QED
    BY <1>6, <1>7, <1>8

LEMMA GotTypedSame ==
  ASSUME GotTyped, got' = got PROVE GotTyped'
  BY DEF GotTyped

LEMMA Parsing ==
  ASSUME CInv, stack # << >> PROVE res = "parsing"
  BY DEF CInv, Outcome

LEMMA EnterKeeps ==
  ASSUME CInv, Enter PROVE CInv'
  <1>1. /\ Taking({"call"}) /\ change' = change /\ index' = index /\ got' = got /\ res' = res
        /\ stack' = Append(Done, [steps |-> Body(Step.fn), catch |-> Step.catch])
    BY DEF Enter
  <1>2. Frames(stack) /\ IInv /\ GotTyped /\ stack # << >> /\ Top.steps # << >>
    BY <1>1 DEF CInv, Taking
  <1>3. Ready(Step.fn, Len(stack) + 1) /\ CallFits(Len(stack), Step)
    BY <1>1, EnterReady
  <1>4. PICK fn, b, k : fn = Step.fn /\ b = Body(fn) /\ k = Len(stack) + 1
    OBVIOUS
  <1>5. BodyFits(b, CallStarts(fn), CallEnds(fn), k)
    BY <1>3, <1>4, Bodies
  <1>6. Formed(b)
    BY <1>5, BodyBand
  <1>7. Put(b)
    <2>1. Step.catch \in BOOLEAN
      BY <1>3 DEF CallFits
    <2>2. stack' = Append(Done, [steps |-> b, catch |-> Step.catch])
      BY <1>1, <1>4
    <2> QED
      BY <1>2, <1>6, <2>1, <2>2, PutIs
  <1>8. BodyFits(b, CallStarts(fn), CallEnds(fn), Len(stack) + 1)
    BY <1>4, <1>5
  <1>9. IInv'
    BY <1>2, NextKeeps DEF Next
  <1>10. Frames(stack')
    BY <1>7 DEF Put
  <1>11. AllFit'
    BY <1>1, <1>4, <1>7, <1>8, PutFits
  <1>12. Sorted' /\ GotBefore'
    BY <1>1, <1>4, <1>7, <1>8, PutSorted, PutBefore
  <1>13. FirstFrame' /\ Catches' /\ FramesPrepared'
    BY <1>1, <1>4, <1>7, <1>8, PutOthers
  <1>14. KdoComes' /\ RowComes' /\ FromComes'
    BY <1>1, <1>4, <1>7, PutKdoComes, PutRowComes, PutFromComes
  <1>15. GotTyped' /\ Outcome'
    BY <1>1, <1>2, Parsing, OutcomeParsing, GotTypedSame
  <1> QED
    BY <1>9, <1>10, <1>11, <1>12, <1>13, <1>14, <1>15 DEF CInv, Frames

-----------------------------------------------------------------------------
(* Fields read in their phase                                              *)

\* There is a next step.
AtStep == stack # << >> /\ Top.steps # << >>

\* A field that is read once is not read again.
LEMMA NotTwice ==
  ASSUME CInv, AtStep, Reads(Step), PhaseOf(Step.name) \in {6, 8, 10}
  PROVE  ~HasRead(Step.name)
  <1> SUFFICES ASSUME HasRead(Step.name) PROVE FALSE
    OBVIOUS
  <1>1. Frames(stack) /\ GotBefore /\ IInv /\ AtStep
    BY DEF CInv
  <1>2. PICK nm, p : nm = Step.name /\ p = PhaseOf(nm)
    OBVIOUS
  <1>3. PICK g \in 1 .. Len(got) : got[g].name = nm
    <2>1. HasRead(nm)
      BY <1>2
    <2> QED
      BY <2>1, LastOne
  <1>4. /\ Len(stack) \in 1 .. Len(stack) /\ 1 \in 1 .. Len(stack[Len(stack)].steps)
        /\ Step = stack[Len(stack)].steps[1]
    BY <1>1, TopIs DEF AtStep
  <1>5. ~Final(Step) /\ Starts(Step) = p
    BY <1>2, ReadPhase DEF Final, Reads
  <1>6. Follows(p, p)
    BY <1>1, <1>2, <1>3, <1>4, <1>5 DEF GotBefore
  <1>7. p \in {6, 8, 10}
    BY <1>2
  <1> QED
    BY <1>6, <1>7 DEF Follows

\* As long as a row is to be parsed, its head ends at the cursor.
LEMMA RowStays ==
  ASSUME CInv, change' = change, index' = index, got' = got,
         NEW z \in {0, 1}, Kept(stack', z), stack # << >>, z = 1 \/ Step.take = "restof"
  PROVE  RowPlace
  <1>1. Frames(stack) /\ AllFit /\ IInv
    BY DEF CInv
  <1>2. PICK t : t = stack'
    OBVIOUS
  <1>3. SUFFICES ASSUME NEW k \in 1 .. Len(t), NEW j \in 1 .. Len(t[k].steps),
                        Calls(t[k].steps[j], {"Row"}), HasRead("kdo")'
                 PROVE  index' = At("kdo")'.at
    BY <1>2 DEF RowPlace
  <1>4. PICK i : i = j + Shift(k, z)
    OBVIOUS
  <1>5. Kept(t, z)
    BY <1>2
  <1>6. Place(k, i) /\ t[k].steps[j] = stack[k].steps[i] /\ (z = 1 => Later(k, i))
    BY <1>1, <1>3, <1>4, <1>5, KeptAt
  <1>7. PICK x : x = stack[k].steps[i]
    OBVIOUS
  <1>8. Calls(x, {"Row"})
    BY <1>3, <1>6, <1>7
  <1>9. Fits(k, x)
    <2>1. ~Final(x)
      BY <1>8 DEF Calls, Final
    <2> QED
      BY <1>1, <1>6, <1>7, <2>1 DEF AllFit, Place
  <1>10. x.fn = "Row" /\ CallFits(k, x)
    BY <1>8, <1>9 DEF Fits, Calls
  <1>11. HasRead("kdo") /\ At("kdo")' = At("kdo")
    BY <1>1, <1>3, GotSame
  <1>12. index = At("kdo").at
    BY <1>10, <1>11 DEF CallFits
  <1> QED
    BY <1>11, <1>12

LEMMA RowMoves ==
  ASSUME CInv, AtStep, Step.take # "call", ~Final(Step),
         NEW z \in {0, 1}, Kept(stack', z),
         HasRead("kdo")' => HasRead("kdo") \/ index' = At("kdo")'.at
  PROVE  RowPlace
  <1>1. Frames(stack) /\ AllFit /\ IInv /\ Sorted /\ GotBefore /\ stack # << >> /\ Top.steps # << >>
    BY DEF CInv, AtStep
  <1>2. PICK t : t = stack'
    OBVIOUS
  <1>3. SUFFICES ASSUME NEW k \in 1 .. Len(t), NEW j \in 1 .. Len(t[k].steps),
                        Calls(t[k].steps[j], {"Row"}), HasRead("kdo")'
                 PROVE  index' = At("kdo")'.at
    BY <1>2 DEF RowPlace
  <1>4. PICK i : i = j + Shift(k, z)
    OBVIOUS
  <1>5. Kept(t, z)
    BY <1>2
  <1>6. Place(k, i) /\ t[k].steps[j] = stack[k].steps[i]
    BY <1>1, <1>3, <1>4, <1>5, KeptAt
  <1>7. Calls(stack[k].steps[i], {"Row"})
    BY <1>3, <1>6
  <1>8. Later(k, i)
    <2>1. ASSUME k = Len(stack), i = 1 PROVE FALSE
      <3>1. stack[k].steps[i] = Step
        BY <1>1, <2>1, TopIs
      <3> QED
        BY <1>7, <3>1 DEF Calls
    <2> QED
      BY <1>6, <2>1 DEF Later
  <1>9. ~HasRead("kdo")
    BY <1>1, <1>7, <1>8, RowBehind
  <1> QED
    BY <1>3, <1>9

\* What the steps that are left need, they keep.
Carried ==
  /\ Frames(stack)' /\ AllFit' /\ Sorted' /\ GotBefore' /\ FirstFrame' /\ Catches' /\ FramesPrepared'

LEMMA Carry ==
  ASSUME CInv, Grown, stack # << >>, NEW z, Stays(z), NEW d, d = stack', Kept(d, z), RowPlace,
         IsSeq(got'),
         \A g \in 1 .. Len(got') :
           \/ g \in 1 .. Len(got) /\ got'[g] = got[g]
           \/ Top.steps # << >> /\ Reads(Step) /\ got'[g].name = Step.name,
         \/ z = 0
         \/ Len(d) < Len(stack)
         \/ Top.steps = << >>
         \/ d = Returned
         \/ d = Done /\ ReadNow
  PROVE  Carried
  <1>1. /\ Frames(stack) /\ AllFit /\ IInv /\ Sorted /\ GotBefore /\ FirstFrame /\ Catches
        /\ FramesPrepared /\ IsSeq(got) /\ Kept(stack', z) /\ z \in {0, 1}
    BY DEF CInv, IInv, Stays
  <1>2. Frames(stack)'
    BY <1>1 DEF Kept, Frames
  <1>3. AllFit'
    BY <1>1, CarryFit
  <1>4. Sorted'
    <2>1. SortedStack(d)
      BY <1>1, CarrySorted
    <2> QED
      BY <2>1 DEF Sorted, SortedStack
  <1>5. GotBefore'
    BY <1>1, CarryBefore
  <1>6. FirstFrame'
    <2>1. d # << >> => d[1].steps = << >>
      BY <1>1, CarryFirst
    <2> QED
      BY <2>1 DEF FirstFrame
  <1>7. Catches'
    BY <1>1, CarryCatches
  <1>8. FramesPrepared'
    <2>1. \A k \in 1 .. Len(d) : AllPrepared(d[k].steps)'
      BY <1>1, CarryPrepared
    <2>2. ASSUME NEW k \in 1 .. Len(stack') PROVE AllPrepared(stack[k].steps)'
      <3>1. PICK s : s = stack'[k].steps
        OBVIOUS
      <3>2. AllPrepared(s)'
        BY <2>1, <2>2, <3>1
      <3> QED
        BY <3>1, <3>2
    <2> QED
      BY <2>2 DEF FramesPrepared
  <1> QED
    BY <1>2, <1>3, <1>4, <1>5, <1>6, <1>7, <1>8 DEF Carried

LEMMA GotKept ==
  ASSUME got' = got, IsSeq(got)
  PROVE  /\ IsSeq(got')
         /\ \A g \in 1 .. Len(got') :
              \/ g \in 1 .. Len(got) /\ got'[g] = got[g]
              \/ Top.steps # << >> /\ Reads(Step) /\ got'[g].name = Step.name
  OBVIOUS

LEMMA Together ==
  ASSUME IInv', Carried, KdoComes' /\ RowComes' /\ FromComes', GotTyped', Outcome'
  PROVE  CInv'
  BY DEF Carried, CInv

\* The parsers have ended.
LEMMA EndedKeeps ==
  ASSUME IInv', stack' = << >>, res' # "parsing", GotTyped', Outcome'
  PROVE  CInv'
  <1>1. Len(stack') = 0 /\ 1 .. Len(stack') = {} /\ IsSeq(stack')
    BY EmptyIsSeq
  <1>2. Frames(stack)' /\ AllFit' /\ Sorted' /\ GotBefore' /\ FirstFrame' /\ Catches' /\ FramesPrepared'
    BY <1>1 DEF Frames, AllFit, Sorted, SortedStack, GotBefore, FirstFrame, Catches, FramesPrepared
  <1>3. KdoComes'
    BY <1>1 DEF KdoComes, Pending
  <1>4. RowComes' /\ FromComes'
    BY DEF RowComes, FromComes
  <1> QED
    BY <1>2, <1>3, <1>4 DEF CInv

-----------------------------------------------------------------------------
(* A field read keeps the control invariant                                *)

\* The fields that a step has read: all of its name, as many as it asks for.
FieldsFit(es) ==
  /\ IsSeq(es)
  /\ \A i \in 1 .. Len(es) : es[i].name = Step.name /\ es[i].inside \in BOOLEAN
  /\ Step.take \notin {"raws", "rest"} => Len(es) = 1
  /\ Step.take = "raws" /\ Step.n \in Nat => Len(es) >= Step.n
  /\ Step.name = "kdo" =>
       \A i \in 1 .. Len(es) : es[i].at = index' /\ es[i].v.n \in Nat /\ es[i].v.nnew \in Nat
  /\ Step.name = "ids" => \A i \in 1 .. Len(es) : es[i].v \in Seq(Nat)

LEMMA GotMoreFields ==
  ASSUME CInv, AtStep, Reads(Step), change' = change, NEW es, FieldsFit(es), got' = got \o es,
         NEW nm, nm = Step.name
  PROVE  /\ Grown /\ Fits(Len(stack), Step) /\ ReadFits(Step)
         /\ \A name : HasRead(name)' => HasRead(name) \/ name = nm
         /\ Len(es) \in Nat
         /\ Len(es) > 0 => HasRead(nm)' /\ At(nm)' = es[Len(es)]
         /\ nm = "columns" => CountRead("columns")' >= Len(es)
  <1>1. IInv /\ Frames(stack) /\ AllFit /\ stack # << >> /\ Top.steps # << >>
    BY DEF CInv, AtStep
  <1>2. Fits(Len(stack), Step) /\ ReadFits(Step)
    <2>1. ~Final(Step)
      BY DEF Reads, Final
    <2>2. Fits(Len(stack), Step)
      BY <1>1, <2>1, HeadFits
    <2> QED
      BY <2>2 DEF Fits
  <1>4. nm \in {"kdo", "ids"} => ~HasRead(nm)
    BY NotTwice, PhasesOfNames
  <1>5. IsSeq(es) /\ \A i \in 1 .. Len(es) : es[i].name = nm
    BY DEF FieldsFit
  <1>6. /\ Grown
        /\ \A name : HasRead(name)' => HasRead(name) \/ name = nm
        /\ Len(es) > 0 => HasRead(nm)' /\ At(nm)' = es[Len(es)]
        /\ nm = "columns" => CountRead("columns")' >= Len(es)
    BY <1>1, <1>4, <1>5, GotMore
  <1>7. Len(es) \in Nat
    BY <1>5, SplitSeq
  <1> QED
    BY <1>2, <1>6, <1>7

\* A row whose columns have just been read is complete.
LEMMA RowNowDone ==
  ASSUME CInv, AtStep, Reads(Step), change' = change, NEW es, FieldsFit(es), got' = got \o es,
         Step.name \in {"packed", "columns", "rows"}
  PROVE  HasRead("kdo") /\ RowDone'
  <1>0. PICK nm : nm = Step.name
    OBVIOUS
  <1>1. /\ Grown /\ ReadFits(Step) /\ Len(es) \in Nat
        /\ Len(es) > 0 => HasRead(nm)'
        /\ nm = "columns" => CountRead("columns")' >= Len(es)
    BY <1>0, GotMoreFields
  <1>2. /\ Step.take \notin {"raws", "rest"} => Len(es) = 1
        /\ Step.take = "raws" /\ Step.n \in Nat => Len(es) >= Step.n
    BY DEF FieldsFit
  <1>3. CASE Step.name = "packed"
    <2>1. Step.take = "one" /\ KdoIs({"Irp", "Orp"})
      BY <1>1, <1>3 DEF ReadFits
    <2>2. HasRead("packed")'
      <3>1. Len(es) > 0 /\ nm = "packed"
        <4>1. Step.take = "one"
          BY <2>1
        <4>2. Len(es) = 1
          BY <1>2, <4>1
        <4>3. nm = "packed"
          BY <1>0, <1>3
        <4> QED
          BY <4>2, <4>3
      <3>2. HasRead(nm)'
        BY <1>1, <3>1
      <3> QED
        BY <3>1, <3>2 DEF HasRead
    <2>3. KdoIs({"Irp", "Orp"})'
      BY <1>1, <2>1, KdoKept
    <2> QED
      BY <2>1, <2>2, <2>3 DEF KdoIs, RowDone
  <1>4. CASE Step.name = "rows"
    <2>1. Step.take = "split" /\ KdoIs({"Qmi"})
      BY <1>1, <1>4 DEF ReadFits
    <2>2. HasRead("rows")'
      <3>1. Len(es) > 0 /\ nm = "rows"
        <4>1. Step.take = "split"
          BY <2>1
        <4>2. Len(es) = 1
          BY <1>2, <4>1
        <4>3. nm = "rows"
          BY <1>0, <1>4
        <4> QED
          BY <4>2, <4>3
      <3>2. HasRead(nm)'
        BY <1>1, <3>1
      <3> QED
        BY <3>1, <3>2 DEF HasRead
    <2>3. KdoIs({"Qmi"})'
      BY <1>1, <2>1, KdoKept
    <2> QED
      BY <2>1, <2>2, <2>3 DEF KdoIs, RowDone
  <1>5. CASE Step.name = "columns"
    <2>1. ColumnsFit(Step)
      BY <1>1, <1>5 DEF ReadFits
    <2>2. KdoIs({"Irp", "Orp", "Urp"}) /\ RowTyped
      BY <2>1, KdoTyped DEF ColumnsFit
    <2>3. KdoIs({"Irp", "Orp", "Urp"})' /\ Field("kdo")' = Field("kdo")
      BY <1>1, <2>2, KdoKept
    <2>4. PICK c : c = CountRead("columns")'
      OBVIOUS
    <2>5. c \in Nat /\ c >= Len(es)
      BY <1>0, <1>1, <1>5, <2>4 DEF Grown
    <2>6. CASE Field("kdo").type = "Urp"
      <3>1. HasRead("ids")'
        BY <1>1, <2>1, <2>6 DEF ColumnsFit, Grown
      <3>2. CASE Field("kdo").kdom2
        <4>1. Step.take = "split"
          BY <2>1, <2>6, <3>2 DEF ColumnsFit
        <4>2. HasRead("columns")'
          <5>1. Len(es) > 0 /\ nm = "columns"
            <6>1. Step.take = "split"
              BY <4>1
            <6>2. Len(es) = 1
              BY <1>2, <6>1
            <6>3. nm = "columns"
              BY <1>0, <1>5
            <6> QED
              BY <6>2, <6>3
          <5>2. HasRead(nm)'
            BY <1>1, <5>1
          <5> QED
            BY <5>1, <5>2 DEF HasRead
        <4> QED
          BY <2>2, <2>3, <2>6, <3>1, <3>2, <4>2 DEF KdoIs, RowDone
      <3>3. CASE ~Field("kdo").kdom2
        <4>1. Step.take = "raws" /\ Step.n = Field("kdo").nnew
          BY <2>1, <2>6, <3>3 DEF ColumnsFit
        <4>3. Field("kdo").nnew \in Nat
          BY <2>2 DEF RowTyped, KdoIs
        <4>2. Len(es) >= Field("kdo").nnew
          BY <1>2, <4>1, <4>3
        <4>4. c >= Field("kdo").nnew
          BY <1>1, <2>5, <4>2, <4>3
        <4>5. CountRead("columns")' >= Field("kdo")'.nnew
          BY <2>3, <2>4, <4>4
        <4> QED
          BY <2>2, <2>3, <2>6, <3>1, <3>3, <4>5 DEF KdoIs, RowDone
      <3> QED
        BY <3>2, <3>3
    <2>7. CASE Field("kdo").type # "Urp"
      <3>1. Step.take = "raws" /\ Step.n = Field("kdo").n
        BY <2>1, <2>7 DEF ColumnsFit
      <3>3. Field("kdo").n \in Nat
        BY <2>2 DEF RowTyped, KdoIs
      <3>2. Len(es) >= Field("kdo").n
        BY <1>2, <3>1, <3>3
      <3>4. c >= Field("kdo").n
        BY <1>1, <2>5, <3>2, <3>3
      <3>5. CountRead("columns")' >= Field("kdo")'.n
        BY <2>3, <2>4, <3>4
      <3>6. Field("kdo").type \in {"Irp", "Orp"}
        BY <2>2, <2>7 DEF KdoIs
      <3> QED
        BY <2>2, <2>3, <3>5, <3>6 DEF KdoIs, RowDone
    <2> QED
      BY <2>6, <2>7
  <1> QED
    BY <1>3, <1>4, <1>5

LEMMA GotTypedMore ==
  ASSUME CInv, NEW es, FieldsFit(es), got' = got \o es PROVE GotTyped'
  <1>1. IsSeq(got) /\ GotTyped /\ IsSeq(es)
    BY DEF CInv, IInv, FieldsFit
  <1>2. PICK s : s = got'
    OBVIOUS
  <1>3. /\ Len(got) \in Nat /\ Len(es) \in Nat /\ Len(s) = Len(got) + Len(es)
        /\ \A k \in 1 .. Len(s) : s[k] = IF k <= Len(got) THEN got[k] ELSE es[k - Len(got)]
    BY <1>1, <1>2, ConcatIsSeq
  <1>4. SUFFICES ASSUME NEW g \in 1 .. Len(s)
                 PROVE  /\ s[g].inside \in BOOLEAN
                        /\ s[g].name = "kdo" => s[g].v.n \in Nat /\ s[g].v.nnew \in Nat
                        /\ s[g].name = "ids" => s[g].v \in Seq(Nat)
    BY <1>2 DEF GotTyped
  <1>5. CASE g <= Len(got)
    <2>1. g \in 1 .. Len(got) /\ s[g] = got[g]
      BY <1>3, <1>5
    <2> QED
      BY <1>1, <2>1 DEF GotTyped
  <1>6. CASE g > Len(got)
    <2>1. g - Len(got) \in 1 .. Len(es) /\ s[g] = es[g - Len(got)]
      BY <1>3, <1>6
    <2>2. PICK i \in 1 .. Len(es) : s[g] = es[i]
      BY <2>1
    <2> QED
      BY <2>2 DEF FieldsFit
  <1> QED
    BY <1>3, <1>5, <1>6

LEMMA GotKeeps ==
  ASSUME CInv, AtStep, Reads(Step), IInv', change' = change, res' = res,
         NEW es, FieldsFit(es), got' = got \o es,
         stack' = Done \/ (stack' = stack /\ Step.take = "restof")
  PROVE  CInv'
  <1>1. /\ IInv /\ Frames(stack) /\ AllFit /\ Sorted /\ KdoComes /\ RowComes /\ FromComes
        /\ stack # << >> /\ Top.steps # << >> /\ Step.take # "call" /\ ~Final(Step)
    BY DEF CInv, AtStep, Reads, Final
  <1>0. PICK nm : nm = Step.name
    OBVIOUS
  <1>2. /\ Grown /\ Fits(Len(stack), Step) /\ ReadFits(Step)
        /\ \A name : HasRead(name)' => HasRead(name) \/ name = nm
        /\ Len(es) \in Nat
        /\ Len(es) > 0 => HasRead(nm)' /\ At(nm)' = es[Len(es)]
    BY <1>0, GotMoreFields
  <1>3. /\ IsSeq(es) /\ \A i \in 1 .. Len(es) : es[i].name = Step.name
        /\ Step.take \notin {"raws", "rest"} => Len(es) = 1
        /\ Step.name = "kdo" => \A i \in 1 .. Len(es) : es[i].at = index'
    BY DEF FieldsFit
  <1>4. RowTyped
    BY KdoTyped
  <1>5. PICK z : Stays(z) /\ Kept(stack', z) /\ (z = 0 \/ stack' = Done)
    <2>1. CASE stack' = Done
      <3>1. Kept(Done, 1) /\ Stays(1)
        BY <1>1, DoneIs DEF Stays
      <3> QED
        BY <2>1, <3>1
    <2>2. CASE stack' = stack /\ Step.take = "restof"
      <3>1. Kept(stack, 0) /\ Stays(0)
        BY <1>1, <2>2, StackIs DEF Stays
      <3> QED
        BY <2>2, <3>1
    <2> QED
      BY <2>1, <2>2
  <1>6. HasRead("kdo")' => HasRead("kdo") \/ index' = At("kdo")'.at
    <2>1. SUFFICES ASSUME HasRead("kdo")', ~HasRead("kdo") PROVE index' = At("kdo")'.at
      OBVIOUS
    <2>2. Step.name = "kdo"
      BY <1>0, <1>2, <2>1
    <2>3. Len(es) = 1
      BY <1>2, <1>3, <2>2 DEF ReadFits
    <2>4. At("kdo")' = es[1] /\ es[1].at = index'
      BY <1>0, <1>2, <1>3, <2>2, <2>3
    <2> QED
      BY <2>4
  <1>7. RowPlace
    <2>1. z \in {0, 1}
      BY <1>5 DEF Stays
    <2> QED
      BY <1>1, <1>5, <1>6, <2>1, RowMoves
  <1>8. ReadNow
    <2>1. SUFFICES ASSUME NEW name \in {"keySizes", "ids", "sizes"}, ReadsOf(Step, {name})
                   PROVE  HasRead(name)'
      BY DEF ReadNow
    <2>2. Step.name = name /\ Step.take = "array"
      BY <1>2, <2>1 DEF ReadsOf, ReadFits
    <2> QED
      BY <1>0, <1>2, <1>3, <2>2
  <1>9. HeadDone
    <2>1. \A name : HasRead(name)' => HasRead(name) \/ ReadsOf(Step, {name})
      BY <1>0, <1>2 DEF ReadsOf
    <2>2. ReadsOf(Step, {"kdo"}) => HasRead("kdo")'
      <3>1. SUFFICES ASSUME ReadsOf(Step, {"kdo"}) PROVE HasRead("kdo")'
        OBVIOUS
      <3>2. nm = "kdo" /\ Len(es) > 0
        <4>1. Step.name = "kdo"
          BY <3>1 DEF ReadsOf
        <4>2. Step.take = "one"
          BY <1>2, <4>1 DEF ReadFits
        <4>3. Len(es) = 1
          BY <1>3, <4>2
        <4> QED
          BY <1>0, <4>1, <4>3
      <3>3. HasRead(nm)'
        BY <1>2, <3>2
      <3> QED
        BY <3>2, <3>3 DEF HasRead
    <2>3. ReadsOf(Step, {"packed", "columns", "rows"}) => HasRead("kdo") /\ RowDone'
      BY RowNowDone DEF ReadsOf
    <2> QED
      BY <2>1, <2>2, <2>3 DEF HeadDone
  <1>10. /\ IsSeq(got')
         /\ \A g \in 1 .. Len(got') :
              \/ g \in 1 .. Len(got) /\ got'[g] = got[g]
              \/ Top.steps # << >> /\ Reads(Step) /\ got'[g].name = Step.name
    <2>1. /\ IsSeq(got') /\ Len(got) \in Nat /\ Len(got') = Len(got) + Len(es)
          /\ \A k \in 1 .. Len(got') : got'[k] = IF k <= Len(got) THEN got[k] ELSE es[k - Len(got)]
      BY <1>1, <1>3, ConcatIsSeq DEF IInv
    <2>2. ASSUME NEW g \in 1 .. Len(got'), ~(g \in 1 .. Len(got) /\ got'[g] = got[g])
          PROVE  got'[g].name = Step.name
      <3>1. PICK m : m = Len(got)
        OBVIOUS
      <3>2. ~(g <= m) /\ g - m \in 1 .. Len(es)
        BY <1>2, <2>1, <2>2, <3>1
      <3>3. got'[g] = es[g - m]
        BY <2>1, <3>1, <3>2
      <3> QED
        BY <1>3, <3>2, <3>3
    <2> QED
      BY <1>1, <2>1, <2>2
  <1>11. Carried
    <2>1. PICK d : d = stack'
      OBVIOUS
    <2>2. z = 0 \/ (d = Done /\ ReadNow)
      BY <1>5, <1>8, <2>1
    <2> QED
      BY <1>1, <1>2, <1>5, <1>7, <1>10, <2>1, <2>2, Carry
  <1>12. res = "parsing"
    BY <1>1, Parsing
  <1>13. KdoComes' /\ RowComes' /\ FromComes'
    BY <1>1, <1>2, <1>4, <1>9, <1>12, ComesDone
  <1>14. GotTyped' /\ Outcome'
    BY <1>12, GotTypedMore, OutcomeParsing
  <1> QED
    BY <1>11, <1>13, <1>14, Together

-----------------------------------------------------------------------------
(* So do the other ways a step ends                                        *)

LEMMA NothingRead ==
  ASSUME CInv, change' = change, got' = got
  PROVE  /\ Grown /\ GotTyped'
         /\ \A name : HasRead(name)' <=> HasRead(name)
         /\ IsSeq(got')
         /\ \A g \in 1 .. Len(got') :
              \/ g \in 1 .. Len(got) /\ got'[g] = got[g]
              \/ Top.steps # << >> /\ Reads(Step) /\ got'[g].name = Step.name
  BY GotSame, GotKept, GotTypedSame DEF CInv, IInv

LEMMA HeadReads ==
  ASSUME CInv, AtStep, Reads(Step)
  PROVE  ReadFits(Step) /\ Step.fail \in Fails /\ Step.take # "call" /\ ~Final(Step)
  <1>1. Frames(stack) /\ AllFit /\ stack # << >> /\ Top.steps # << >>
    BY DEF CInv, AtStep
  <1>2. ~Final(Step) /\ Step.take # "call"
    BY DEF Reads, Final
  <1>3. Fits(Len(stack), Step)
    BY <1>1, <1>2, HeadFits
  <1> QED
    BY <1>2, <1>3 DEF Fits, WellFormed, Reads

\* The parser goes on without the field, or behind an empty element.
LEMMA DropKeeps ==
  ASSUME CInv, AtStep, IInv', change' = change, got' = got, res' = res, stack' = Done,
         Step.take \in {"skip", "restof"} \/ (Reads(Step) /\ Step.fail = "goon")
  PROVE  CInv'
  <1>1. /\ IInv /\ Frames(stack) /\ KdoComes /\ RowComes /\ FromComes
        /\ stack # << >> /\ Top.steps # << >> /\ Step.take # "call" /\ ~Final(Step)
    BY DEF CInv, AtStep, Reads, Final
  <1>2. /\ Grown /\ GotTyped'
        /\ \A name : HasRead(name)' <=> HasRead(name)
        /\ IsSeq(got')
        /\ \A g \in 1 .. Len(got') :
             \/ g \in 1 .. Len(got) /\ got'[g] = got[g]
             \/ Top.steps # << >> /\ Reads(Step) /\ got'[g].name = Step.name
    BY NothingRead
  <1>3. \A name \in Special : ~ReadsOf(Step, {name})
    <2>1. SUFFICES ASSUME NEW name \in Special, Reads(Step), Step.name = name PROVE FALSE
      BY DEF ReadsOf
    <2>2. ReadFits(Step)
      BY <2>1, HeadReads
    <2>3. Step.take = "restof" \/ Step.fail = "goon"
      BY <2>1 DEF Reads
    <2>4. CASE name \in {"kdo", "keySizes", "sizes", "ids"}
      BY <2>1, <2>2, <2>3, <2>4 DEF ReadFits
    <2>5. CASE name \in {"packed", "rows"}
      BY <2>1, <2>2, <2>3, <2>5 DEF ReadFits
    <2>6. CASE name = "columns"
      <3>1. Step.fail = "error" /\ Step.take \in {"split", "raws"}
        BY <2>1, <2>2, <2>6 DEF ReadFits, ColumnsFit
      <3> QED
        BY <2>3, <3>1
    <2> QED
      BY <2>1, <2>4, <2>5, <2>6 DEF Special
  <1>4. HeadDone
    <2>1. ~ReadsOf(Step, {"kdo"}) /\ ~ReadsOf(Step, {"packed", "columns", "rows"})
      BY <1>3 DEF Special, ReadsOf
    <2> QED
      BY <1>2, <2>1 DEF HeadDone
  <1>5. ReadNow
    BY <1>3 DEF ReadNow, Special
  <1>6. Kept(stack', 1) /\ Stays(1)
    BY <1>1, DoneIs DEF Stays
  <1>7. RowPlace
    <2>1. HasRead("kdo")' => HasRead("kdo") \/ index' = At("kdo")'.at
      BY <1>2
    <2> QED
      BY <1>1, <1>6, <2>1, RowMoves
  <1>8. Carried
    <2>1. PICK d : d = stack'
      OBVIOUS
    <2> QED
      BY <1>1, <1>2, <1>5, <1>6, <1>7, <2>1, Carry
  <1>9. res = "parsing" /\ RowTyped
    BY <1>1, Parsing, KdoTyped
  <1>10. KdoComes' /\ RowComes' /\ FromComes'
    BY <1>1, <1>2, <1>4, <1>9, ComesDone
  <1> QED
    BY <1>2, <1>8, <1>9, <1>10, OutcomeParsing, Together

\* The parser returns what it has.
LEMMA ReturnedKeeps ==
  ASSUME CInv, AtStep, IInv', change' = change, got' = got, res' = res, stack' = Returned,
         Reads(Step), Step.fail = "return"
  PROVE  CInv'
  <1>1. /\ IInv /\ Frames(stack) /\ Sorted /\ KdoComes /\ RowComes /\ FromComes
        /\ stack # << >> /\ Top.steps # << >> /\ Step.take # "call" /\ ~Final(Step)
    BY DEF CInv, AtStep, Reads, Final
  <1>2. /\ Grown /\ GotTyped'
        /\ \A name : HasRead(name)' <=> HasRead(name)
        /\ IsSeq(got')
        /\ \A g \in 1 .. Len(got') :
             \/ g \in 1 .. Len(got) /\ got'[g] = got[g]
             \/ Top.steps # << >> /\ Reads(Step) /\ got'[g].name = Step.name
    BY NothingRead
  <1>3. PhaseOf(Step.name) = 13
    BY HeadReads DEF ReadFits
  <1>6. Kept(stack', 1) /\ Stays(1)
    BY <1>1, ReturnedIs DEF Stays
  <1>7. RowPlace
    <2>1. HasRead("kdo")' => HasRead("kdo") \/ index' = At("kdo")'.at
      BY <1>2
    <2> QED
      BY <1>1, <1>6, <2>1, RowMoves
  <1>8. Carried
    <2>1. PICK d : d = stack'
      OBVIOUS
    <2> QED
      BY <1>1, <1>2, <1>6, <1>7, <2>1, Carry
  <1>9. res = "parsing" /\ RowTyped
    BY <1>1, Parsing, KdoTyped
  <1>10. KdoComes' /\ RowComes' /\ FromComes'
    BY <1>1, <1>3, <1>9, ComesReturned
  <1> QED
    BY <1>2, <1>8, <1>9, <1>10, OutcomeParsing, Together

LEMMA EndedWell ==
  ASSUME res' \in {"ok", "error", "undefined"}, stack' = << >>,
         res' = "undefined" => UndefinedOnly', res' = "ok" => ColumnsComplete'
  PROVE  Outcome' /\ res' # "parsing"
  BY DEF Outcome, UndefinedOnly, ColumnsComplete

\* An error goes up to the parser that does without, or ends the parsing.
LEMMA RaisedKeeps ==
  ASSUME CInv, AtStep, IInv', change' = change, got' = got, Raised,
         (Step.take = "err" /\ index' = index) \/ Reads(Step)
  PROVE  CInv'
  <1>1. /\ IInv /\ Frames(stack) /\ AllFit /\ Catches /\ FromComes
        /\ stack # << >> /\ Top.steps # << >>
    BY DEF CInv, AtStep
  <1>2. /\ Grown /\ GotTyped'
        /\ \A name : HasRead(name)' <=> HasRead(name)
        /\ IsSeq(got')
        /\ \A g \in 1 .. Len(got') :
             \/ g \in 1 .. Len(got) /\ got'[g] = got[g]
             \/ Top.steps # << >> /\ Reads(Step) /\ got'[g].name = Step.name
    BY NothingRead
  <1>3. CASE stack' = << >> /\ res' = "error"
    BY <1>2, <1>3, EndedWell, EndedKeeps
  <1>4. CASE ~(stack' = << >> /\ res' = "error")
    <2>1. /\ res' = res
          /\ \E k \in DOMAIN stack : stack[k].catch /\ stack' = SubSeq(stack, 1, k - 1)
      BY <1>4 DEF Raised
    <2>2. PICK c \in 1 .. Len(stack) : stack[c].catch /\ stack' = SubSeq(stack, 1, c - 1)
      BY <1>1, <2>1, SplitSeq DEF Frames
    <2>3. PICK d, m : d = stack' /\ m = c - 1
      OBVIOUS
    <2>4. Len(stack) \in Nat /\ m \in 0 .. Len(stack) - 1
      BY <1>1, <2>3, TopIs
    <2>5. Kept(d, 1) /\ Len(d) = m
      BY <1>1, <2>2, <2>3, <2>4, CutIs
    <2>6. Kept(stack', 1) /\ Stays(1) /\ Len(d) < Len(stack)
      BY <2>3, <2>4, <2>5 DEF Stays
    <2>7. RowPlace
      <3>1. CASE Step.take = "err" /\ index' = index
        BY <1>1, <2>6, <3>1, RowStays
      <3>2. CASE Reads(Step)
        <4>1. Step.take # "call" /\ ~Final(Step)
          BY <3>2, HeadReads
        <4>2. HasRead("kdo")' => HasRead("kdo") \/ index' = At("kdo")'.at
          BY <1>2
        <4> QED
          BY <2>6, <4>1, <4>2, RowMoves
      <3> QED
        BY <3>1, <3>2
    <2>8. Carried
      BY <1>1, <1>2, <2>3, <2>6, <2>7, Carry
    <2>9. res = "parsing"
      BY <1>1, Parsing
    <2>10. KdoComes' /\ RowComes' /\ FromComes'
      BY <1>1, <2>2, <2>9, ComesCaught
    <2> QED
      BY <1>2, <2>1, <2>8, <2>9, <2>10, OutcomeParsing, Together
  <1> QED
    BY <1>3, <1>4

\* A result is used that is not there, or bytes that are not there are read.
LEMMA UndefinedKeeps ==
  ASSUME CInv, IInv', change' = change, got' = got, stack' = << >>, res' = "undefined",
         \/ Strays
         \/ KdoIs({"Qmi"}) /\ HasRead("sizes") /\ ~HasRead("rows")
         \/ HasRead("ids") /\ Field("kdo").kdom2 /\ SumOf(Field("ids")) >= UINT16
  PROVE  CInv'
  <1>1. /\ \A name : HasRead(name)' <=> HasRead(name)
        /\ \A name : Field(name)' = Field(name)
    BY GotSame DEF CInv
  <1>2. UndefinedOnly'
    <2>1. CASE Strays
      <3>1. Strays'
        BY <2>1, StraysSame DEF CInv
      <3> QED
        BY <3>1 DEF Strays, UndefinedOnly
    <2>2. CASE KdoIs({"Qmi"}) /\ HasRead("sizes") /\ ~HasRead("rows")
      BY <1>1, <2>2 DEF KdoIs, UndefinedOnly
    <2>3. CASE HasRead("ids") /\ Field("kdo").kdom2 /\ SumOf(Field("ids")) >= UINT16
      <3>1. HasRead("ids")' /\ Field("kdo")'.kdom2 /\ SumOf(Field("ids")') >= UINT16
        BY <1>1, <2>3
      <3> QED
        BY <3>1 DEF UndefinedOnly
    <2> QED
      BY <2>1, <2>2, <2>3
  <1>3. GotTyped'
    BY NothingRead
  <1> QED
    BY <1>2, <1>3, EndedWell, EndedKeeps

-----------------------------------------------------------------------------
(* Failure and success of one decoding                                     *)

LEMMA FailedKeeps ==
  ASSUME CInv, AtStep, IInv', change' = change, got' = got, Failed, Reads(Step)
  PROVE  CInv'
  <1>1. ReadFits(Step) /\ Step.fail \in Fails
    BY HeadReads
  <1>2. CASE Step.fail = "error"
    BY <1>2, RaisedKeeps DEF Failed
  <1>3. CASE Step.fail = "return"
    BY <1>3, ReturnedKeeps DEF Failed
  <1>4. CASE Step.fail = "goon"
    BY <1>4, DropKeeps DEF Failed
  <1>5. CASE Step.fail = "unchecked"
    <2>1. stack' = << >> /\ res' = "undefined"
      BY <1>5 DEF Failed
    <2>2. Step.name = "rows" /\ KdoIs({"Qmi"}) /\ HasRead("sizes")
      BY <1>1, <1>5 DEF ReadFits
    <2>3. ~HasRead(Step.name)
      BY <2>2, NotTwice, PhasesOfNames
    <2>4. ~HasRead("rows")
      BY <2>2, <2>3
    <2> QED
      BY <2>1, <2>2, <2>4, UndefinedKeeps
  <1> QED
    BY <1>1, <1>2, <1>3, <1>4, <1>5 DEF Fails

LEMMA OneField ==
  ASSUME Step.take \notin {"raws", "rest"}, NEW e, e.name = Step.name, e.inside \in BOOLEAN,
         e.at = index',
         Step.name = "kdo" => e.v.n \in Nat /\ e.v.nnew \in Nat,
         Step.name = "ids" => e.v \in Seq(Nat)
  PROVE  FieldsFit(<<e>>)
  <1>1. PICK es : es = <<e>>
    OBVIOUS
  <1>2. IsSeq(es) /\ Len(es) = 1 /\ es[1] = e
    BY <1>1, Single
  <1>3. \A i \in 1 .. Len(es) : es[i] = e
    BY <1>2
  <1>4. FieldsFit(es)
    BY <1>2, <1>3 DEF FieldsFit
  <1> QED
    BY <1>1, <1>4

LEMMA TheRest ==
  ASSUME CInv, AtStep, Reads(Step), Step.take \in {"raws", "rest"},
         Step.take = "raws" => ~(Step.n > Remaining)
  PROVE  FieldsFit(AllLeft)
  <1>1. ReadFits(Step) /\ Remaining \in Nat
    <2>1. Len(change.spans) \in Nat /\ index \in 0 .. Len(change.spans)
      BY ParserAssumption DEF CInv, IInv
    <2> QED
      BY <2>1, HeadReads DEF Remaining
  <1>2. PICK es, r : es = AllLeft /\ r = Remaining
    OBVIOUS
  <1>3. es = [k \in 1 .. r |-> Entry(index + k, NoValue, TRUE)]
    BY <1>2 DEF AllLeft
  <1>4. IsSeq(es) /\ Len(es) = r
    <2>1. es = [k \in 1 .. r |-> es[k]]
      BY <1>3
    <2> QED
      BY <1>1, <1>2, <2>1, FunIsSeq
  <1>5. \A i \in 1 .. Len(es) : es[i].name = Step.name /\ es[i].inside \in BOOLEAN
    BY <1>3, <1>4 DEF Entry
  <1>6. Step.name \notin {"kdo", "ids"}
    BY <1>1 DEF ReadFits
  <1>7. Step.take = "raws" /\ Step.n \in Nat => Len(es) >= Step.n
    BY <1>1, <1>2, <1>4
  <1>8. FieldsFit(es)
    BY <1>4, <1>5, <1>6, <1>7 DEF FieldsFit
  <1> QED
    BY <1>2, <1>8

LEMMA DecodeKeepsAll ==
  ASSUME CInv, AtStep, IInv', change' = change, index' = index + 1, Remaining > 0, Decode(Peek),
         Step.take \in {"one", "least"}
  PROVE  CInv'
  <1>1. Reads(Step) /\ ReadFits(Step)
    <2>1. Reads(Step)
      BY DEF Reads
    <2> QED
      BY <2>1, HeadReads
  <1>2. PICK v \in Shown(Step.as, Peek) :
          LET tests == Tests(Step.as, v, IsLittle) IN
            IF Accepts(tests, Peek.size)
              THEN Got(<<Entry(index + 1, v, Inside(tests, Peek.size))>>)
              ELSE Failed /\ UNCHANGED got
    BY DEF Decode
  <1>3. CASE Accepts(Tests(Step.as, v, IsLittle), Peek.size)
    <2>1. PICK in : in = Inside(Tests(Step.as, v, IsLittle), Peek.size)
      OBVIOUS
    <2>2. PICK e : e = Entry(index + 1, v, in)
      OBVIOUS
    <2>3. Got(<<e>>)
      BY <1>2, <1>3, <2>1, <2>2
    <2>4. in \in BOOLEAN
      BY <2>1 DEF Inside
    <2>5. e.name = Step.name /\ e.at = index' /\ e.v = v /\ e.inside = in
      BY <2>2 DEF Entry
    <2>6. Step.name = "kdo" => e.v.n \in Nat /\ e.v.nnew \in Nat
      <3>1. SUFFICES ASSUME Step.name = "kdo" PROVE v.n \in Nat /\ v.nnew \in Nat
        BY <2>5
      <3>2. Step.as = "KdoVector"
        BY <1>1, <3>1 DEF ReadFits
      <3>3. index + 1 \in 1 .. Len(change.spans) /\ change \in Changes
        <4>1. Len(change.spans) \in Nat /\ index \in 0 .. Len(change.spans) /\ change \in Changes
          BY ParserAssumption DEF CInv, IInv
        <4> QED
          BY <4>1 DEF Remaining
      <3>4. Typed(Step.as, v)
        BY <3>3, ShownTyped DEF Peek
      <3> QED
        BY <3>2, <3>4 DEF Typed
    <2>7. Step.name # "ids"
      BY <1>1 DEF ReadFits
    <2>8. FieldsFit(<<e>>)
      BY <2>4, <2>5, <2>6, <2>7, OneField
    <2>9. PICK es : es = <<e>>
      OBVIOUS
    <2>10. got' = got \o es /\ stack' = Done /\ res' = res /\ FieldsFit(es)
      BY <2>3, <2>8, <2>9 DEF Got
    <2> QED
      BY <1>1, <2>10, GotKeeps
  <1>4. CASE ~Accepts(Tests(Step.as, v, IsLittle), Peek.size)
    <2>1. Failed /\ got' = got
      BY <1>2, <1>4
    <2> QED
      BY <1>1, <2>1, FailedKeeps
  <1> QED
    BY <1>3, <1>4

LEMMA NumbersAre ==
  ASSUME NEW n \in Nat, NEW element, element.kind = "U16s" => element.v \in Seq(Nat),
         NEW v \in Numbers(n, element)
  PROVE  v \in Seq(Nat)
  <1>1. CASE element.kind = "U16s" /\ n <= Len(element.v)
    <2>1. v = SubSeq(element.v, 1, n) /\ element.v \in Seq(Nat)
      BY <1>1 DEF Numbers
    <2> QED
      BY <1>1, <2>1
  <1>2. CASE ~(element.kind = "U16s" /\ n <= Len(element.v))
    <2>1. v \in [1 .. n -> AnyNumber]
      BY <1>2 DEF Numbers
    <2>2. v \in [1 .. n -> Nat]
      BY <2>1, ParserAssumption
    <2> QED
      BY <2>2, SeqDef
  <1> QED
    BY <1>1, <1>2

-----------------------------------------------------------------------------
(* The control invariant, action by action                                 *)

LEMMA HeadTaken ==
  ASSUME NEW takes, Taking(takes) PROVE AtStep /\ Step.take \in takes
  BY DEF Taking, AtStep

LEMMA OneOfKeeps == ASSUME CInv, OneOf, IInv' PROVE CInv'
  <1>1. /\ Taking({"one"}) /\ Remaining > 0 /\ index' = index + 1 /\ Decode(Peek)
        /\ change' = change
    BY DEF OneOf
  <1> QED
    BY <1>1, HeadTaken, DecodeKeepsAll

LEMMA AtLeastOfKeeps == ASSUME CInv, AtLeastOf, IInv' PROVE CInv'
  <1>1. /\ AtStep /\ Step.take = "least" /\ Remaining > 0 /\ change' = change
        /\ IF Peek.size >= Step.n
             THEN index' = index + 1 /\ Decode(Peek)
             ELSE Failed /\ UNCHANGED <<index, got>>
    BY HeadTaken DEF AtLeastOf
  <1>2. Reads(Step)
    BY <1>1 DEF Reads
  <1>3. CASE Peek.size >= Step.n
    BY <1>1, <1>3, DecodeKeepsAll
  <1>4. CASE ~(Peek.size >= Step.n)
    BY <1>1, <1>2, <1>4, FailedKeeps
  <1> QED
    BY <1>3, <1>4

LEMMA OneArrayKeeps == ASSUME CInv, OneArray, IInv' PROVE CInv'
  <1>1. /\ AtStep /\ Step.take = "array" /\ Remaining > 0 /\ change' = change
        /\ IF Peek.size >= 2 * Step.n
             THEN /\ index' = index + 1
                  /\ \E v \in Numbers(Step.n, Peek) : Got(<<Entry(index + 1, v, TRUE)>>)
             ELSE Failed /\ UNCHANGED <<index, got>>
    <2>1. Taking({"array"})
      BY DEF OneArray
    <2>2. AtStep /\ Step.take = "array"
      BY <2>1, HeadTaken
    <2> QED
      BY <2>2, Zenon DEF OneArray
  <1>2. Reads(Step)
    BY <1>1 DEF Reads
  <1>3. CASE Peek.size >= 2 * Step.n
    <2>1. PICK v \in Numbers(Step.n, Peek) : Got(<<Entry(index + 1, v, TRUE)>>)
      BY <1>1, <1>3
    <2>2. PICK e : e = Entry(index + 1, v, TRUE)
      OBVIOUS
    <2>3. e.name = Step.name /\ e.at = index' /\ e.v = v /\ e.inside \in BOOLEAN
      BY <1>1, <1>3, <2>2 DEF Entry
    <2>4. ReadFits(Step)
      BY <1>1, <1>2, HeadReads
    <2>5. Step.name # "kdo"
      BY <1>1, <2>4 DEF ReadFits
    <2>6. Step.name = "ids" => e.v \in Seq(Nat)
      <3>1. SUFFICES ASSUME Step.name = "ids" PROVE v \in Seq(Nat)
        BY <2>3
      <3>2. Step.n \in Nat
        BY <2>4, <3>1 DEF ReadFits
      <3>3. index + 1 \in 1 .. Len(change.spans) /\ change \in Changes
        <4>1. Len(change.spans) \in Nat /\ index \in 0 .. Len(change.spans) /\ change \in Changes
          BY ParserAssumption DEF CInv, IInv
        <4> QED
          BY <1>1, <4>1 DEF Remaining
      <3>4. Peek.kind = "U16s" => Peek.v \in Seq(Nat)
        BY <3>3, ParserAssumption DEF Peek
      <3>5. PICK n, el : n = Step.n /\ el = Peek
        OBVIOUS
      <3>6. n \in Nat /\ (el.kind = "U16s" => el.v \in Seq(Nat)) /\ v \in Numbers(n, el)
        BY <3>2, <3>4, <3>5
      <3> QED
        BY <3>6, NumbersAre
    <2>7. FieldsFit(<<e>>)
      BY <1>1, <2>3, <2>5, <2>6, OneField
    <2>8. PICK es : es = <<e>>
      OBVIOUS
    <2>9. got' = got \o es /\ stack' = Done /\ res' = res /\ FieldsFit(es)
      BY <2>1, <2>2, <2>7, <2>8 DEF Got
    <2> QED
      BY <1>1, <1>2, <2>9, GotKeeps
  <1>4. CASE ~(Peek.size >= 2 * Step.n)
    BY <1>1, <1>2, <1>4, FailedKeeps
  <1> QED
    BY <1>3, <1>4

LEMMA Wraps ==
  ASSUME NEW sum \in Nat, NEW m \in Nat \ {0}, NEW size \in Nat, sum % m <= size, size < sum
  PROVE  sum >= m
  <1> SUFFICES ASSUME sum < m PROVE FALSE
    OBVIOUS
  <1>1. sum % m = sum
    OBVIOUS
  <1> QED
    BY <1>1

LEMMA OneRawsByKeeps == ASSUME CInv, OneRawsBy, IInv' PROVE CInv'
  <1>1. /\ AtStep /\ Step.take = "split" /\ Remaining > 0 /\ change' = change /\ index' = index + 1
    BY HeadTaken DEF OneRawsBy
  <1>2. Reads(Step) /\ ReadFits(Step)
    <2>1. Reads(Step)
      BY <1>1 DEF Reads
    <2> QED
      BY <1>1, <2>1, HeadReads
  <1>3. PICK sum : sum = SumOf(Step.sizes)
    OBVIOUS
  <1>4. \/ Peek.size < sum % UINT16 /\ Failed /\ UNCHANGED got
        \/ /\ sum % UINT16 <= Peek.size /\ Peek.size < sum
           /\ stack' = << >> /\ res' = "undefined" /\ UNCHANGED got
        \/ sum <= Peek.size /\ Got(<<Entry(index + 1, Step.sizes, TRUE)>>)
    BY <1>3 DEF OneRawsBy
  <1>5. CASE Peek.size < sum % UINT16 /\ Failed /\ UNCHANGED got
    BY <1>1, <1>2, <1>5, FailedKeeps
  <1>6. CASE /\ sum % UINT16 <= Peek.size /\ Peek.size < sum
             /\ stack' = << >> /\ res' = "undefined" /\ UNCHANGED got
    <2>1. Step.name \in {"rows", "columns"}
      BY <1>1, <1>2 DEF ReadFits
    <2>2. CASE Step.name = "rows"
      <3>1. KdoIs({"Qmi"}) /\ HasRead("sizes")
        BY <1>2, <2>2 DEF ReadFits
      <3>2. ~HasRead(Step.name)
        BY <1>1, <1>2, <2>2, NotTwice, PhasesOfNames
      <3>3. ~HasRead("rows")
        BY <2>2, <3>2
      <3> QED
        BY <1>1, <1>6, <3>1, <3>3, UndefinedKeeps
    <2>3. CASE Step.name = "columns"
      <3>1. ColumnsFit(Step)
        BY <1>2, <2>3 DEF ReadFits
      <3>2. Field("kdo").type = "Urp" /\ Field("kdo").kdom2
        BY <1>1, <3>1 DEF ColumnsFit
      <3>3. HasRead("ids") /\ Step.sizes = Field("ids")
        BY <3>1, <3>2 DEF ColumnsFit
      <3>4. Field("ids") \in Seq(Nat)
        BY <3>3, LastOne DEF CInv, GotTyped, Field
      <3>5. PICK s : s = Field("ids")
        OBVIOUS
      <3>6. SumOf(s) \in Nat /\ sum = SumOf(s)
        BY <1>3, <3>3, <3>4, <3>5, SumIsNat
      <3>7. PICK size : size = Peek.size
        OBVIOUS
      <3>8. size \in Nat
        <4>1. index + 1 \in 1 .. Len(change.spans) /\ change \in Changes
          <5>1. Len(change.spans) \in Nat /\ index \in 0 .. Len(change.spans) /\ change \in Changes
            BY ParserAssumption DEF CInv, IInv
          <5> QED
            BY <1>1, <5>1 DEF Remaining
        <4> QED
          BY <3>7, <4>1, ParserAssumption DEF Peek
      <3>9. UINT16 \in Nat \ {0}
        BY ParserAssumption
      <3>10. sum \in Nat /\ sum % UINT16 <= size /\ size < sum
        BY <1>6, <3>6, <3>7
      <3>11. sum >= UINT16
        BY <3>8, <3>9, <3>10, Wraps
      <3>12. SumOf(Field("ids")) >= UINT16
        BY <3>5, <3>6, <3>11
      <3> QED
        BY <1>1, <1>6, <3>2, <3>3, <3>12, UndefinedKeeps
    <2> QED
      BY <2>1, <2>2, <2>3
  <1>7. CASE sum <= Peek.size /\ Got(<<Entry(index + 1, Step.sizes, TRUE)>>)
    <2>1. PICK e : e = Entry(index + 1, Step.sizes, TRUE)
      OBVIOUS
    <2>2. e.name = Step.name /\ e.at = index' /\ e.inside \in BOOLEAN
      BY <1>1, <2>1 DEF Entry
    <2>3. Step.name \notin {"kdo", "ids"}
      BY <1>1, <1>2 DEF ReadFits
    <2>4. FieldsFit(<<e>>)
      BY <1>1, <2>2, <2>3, OneField
    <2>5. PICK es : es = <<e>>
      OBVIOUS
    <2>6. got' = got \o es /\ stack' = Done /\ res' = res /\ FieldsFit(es)
      BY <1>7, <2>1, <2>4, <2>5 DEF Got
    <2> QED
      BY <1>1, <1>2, <2>6, GotKeeps
  <1> QED
    BY <1>4, <1>5, <1>6, <1>7

LEMMA NRawsKeeps == ASSUME CInv, NRaws, IInv' PROVE CInv'
  <1>1. /\ AtStep /\ Step.take = "raws" /\ change' = change
        /\ IF Step.n > Remaining
             THEN Failed /\ UNCHANGED <<index, got>>
             ELSE index' = Len(change.spans) /\ Got(AllLeft)
    BY HeadTaken DEF NRaws
  <1>2. Reads(Step)
    BY <1>1 DEF Reads
  <1>3. CASE Step.n > Remaining
    BY <1>1, <1>2, <1>3, FailedKeeps
  <1>4. CASE ~(Step.n > Remaining)
    <2>1. FieldsFit(AllLeft)
      BY <1>1, <1>2, <1>4, TheRest
    <2>2. PICK es : es = AllLeft
      OBVIOUS
    <2>3. got' = got \o es /\ stack' = Done /\ res' = res /\ FieldsFit(es)
      BY <1>1, <1>4, <2>1, <2>2 DEF Got
    <2> QED
      BY <1>1, <1>2, <2>3, GotKeeps
  <1> QED
    BY <1>3, <1>4

LEMMA RestRawsKeeps == ASSUME CInv, RestRaws, IInv' PROVE CInv'
  <1>1. /\ AtStep /\ Step.take = "rest" /\ change' = change /\ Got(AllLeft)
    BY HeadTaken DEF RestRaws
  <1>2. Reads(Step)
    BY <1>1 DEF Reads
  <1>3. FieldsFit(AllLeft)
    BY <1>1, <1>2, TheRest
  <1>4. PICK es : es = AllLeft
    OBVIOUS
  <1>5. got' = got \o es /\ stack' = Done /\ res' = res /\ FieldsFit(es)
    BY <1>1, <1>3, <1>4 DEF Got
  <1> QED
    BY <1>1, <1>2, <1>5, GotKeeps

LEMMA RestOfKindKeeps == ASSUME CInv, RestOfKind, IInv' PROVE CInv'
  <1>1. /\ AtStep /\ Step.take = "restof" /\ change' = change /\ res' = res
        /\ \/ Remaining = 0 /\ stack' = Done /\ UNCHANGED <<index, got>>
           \/ /\ Remaining > 0
              /\ index' = index + 1
              /\ \E v \in Shown(Step.as, Peek) :
                   LET tests == Tests(Step.as, v, IsLittle) IN
                     IF Accepts(tests, Peek.size)
                       THEN /\ got' = Append(got, Entry(index + 1, v, Inside(tests, Peek.size)))
                            /\ UNCHANGED stack
                       ELSE stack' = Done /\ UNCHANGED got
    BY HeadTaken DEF RestOfKind
  <1>2. Reads(Step)
    BY <1>1 DEF Reads
  <1>3. CASE stack' = Done /\ UNCHANGED got
    BY <1>1, <1>3, DropKeeps
  <1>4. CASE ~(stack' = Done /\ UNCHANGED got)
    <2>1. PICK v, in :
            /\ index' = index + 1
            /\ in \in BOOLEAN
            /\ got' = Append(got, Entry(index + 1, v, in)) /\ stack' = stack
      <3>1. PICK v \in Shown(Step.as, Peek) :
              LET tests == Tests(Step.as, v, IsLittle) IN
                /\ index' = index + 1
                /\ got' = Append(got, Entry(index + 1, v, Inside(tests, Peek.size)))
                /\ stack' = stack
        BY <1>1, <1>4
      <3>2. Inside(Tests(Step.as, v, IsLittle), Peek.size) \in BOOLEAN
        BY DEF Inside
      <3> QED
        BY <3>1, <3>2
    <2>2. PICK e : e = Entry(index + 1, v, in)
      OBVIOUS
    <2>3. e.name = Step.name /\ e.at = index' /\ e.inside \in BOOLEAN
      BY <2>1, <2>2 DEF Entry
    <2>4. Step.name \notin {"kdo", "ids"}
      <3>1. PhaseOf(Step.name) = 13
        BY <1>1, <1>2, HeadReads DEF ReadFits
      <3> QED
        BY <3>1, PhasesOfNames
    <2>5. FieldsFit(<<e>>)
      BY <1>1, <2>3, <2>4, OneField
    <2>6. PICK es : es = <<e>>
      OBVIOUS
    <2>7. got' = got \o es
      <3>1. ASSUME NEW s, NEW S, s \in Seq(S) PROVE Append(s, e) = s \o <<e>>
        <4>1. s \in Seq(S \cup {e})
          BY <3>1
        <4> QED
          BY <4>1, AppendIsConcat
      <3> QED
        BY <2>1, <2>2, <2>6, <3>1 DEF CInv, IInv, IsSeq
    <2>8. FieldsFit(es)
      BY <2>5, <2>6
    <2> QED
      BY <1>1, <1>2, <2>1, <2>7, <2>8, GotKeeps
  <1> QED
    BY <1>3, <1>4

LEMMA SkipKeeps == ASSUME CInv, SkipEmptySpan, IInv' PROVE CInv'
  <1>1. AtStep /\ Step.take = "skip" /\ stack' = Done /\ change' = change /\ got' = got /\ res' = res
    BY HeadTaken DEF SkipEmptySpan
  <1> QED
    BY <1>1, DropKeeps

LEMMA OutOfBoundsKeeps == ASSUME CInv, OutOfBounds, IInv' PROVE CInv'
  <1>1. /\ AtStep /\ Step.take \in {"one", "least", "array", "split"} /\ Failed
        /\ change' = change /\ got' = got
    BY HeadTaken DEF OutOfBounds
  <1>2. Reads(Step)
    BY <1>1 DEF Reads
  <1> QED
    BY <1>1, <1>2, FailedKeeps

LEMMA RejectKeeps == ASSUME CInv, Reject, IInv' PROVE CInv'
  <1>1. AtStep /\ Step.take = "err" /\ Raised /\ change' = change /\ index' = index /\ got' = got
    BY HeadTaken DEF Reject
  <1> QED
    BY <1>1, RaisedKeeps

LEMMA StrayKeeps == ASSUME CInv, Stray, IInv' PROVE CInv'
  <1>1. /\ AtStep /\ Step.take = "undefined" /\ stack' = << >> /\ res' = "undefined"
        /\ change' = change /\ got' = got
    BY HeadTaken DEF Stray
  <1>2. Frames(stack) /\ AllFit /\ stack # << >> /\ Top.steps # << >>
    BY <1>1 DEF CInv, AtStep
  <1>3. Strays
    <2>1. Fits(Len(stack), Step) \/ (Final(Step) /\ (Step.take = "undefined" => Strays))
      BY <1>2, HeadFits
    <2>2. ~Fits(Len(stack), Step)
      BY <1>1 DEF Fits, Final
    <2> QED
      BY <1>1, <2>1, <2>2
  <1> QED
    BY <1>1, <1>3, UndefinedKeeps

-----------------------------------------------------------------------------
(* The control invariant holds                                             *)

LEMMA SubSeqNone == ASSUME NEW s PROVE SubSeq(s, 1, 0) = << >>
  OBVIOUS

LEMMA ReturnKeeps == ASSUME CInv, Return, IInv' PROVE CInv'
  <1>1. /\ stack # << >> /\ Top.steps = << >>
        /\ stack' = SubSeq(stack, 1, Len(stack) - 1)
        /\ res' = IF Len(stack) = 1 THEN "ok" ELSE res
        /\ change' = change /\ index' = index /\ got' = got
    BY DEF Return
  <1>2. /\ IInv /\ Frames(stack) /\ KdoComes /\ RowComes /\ FromComes
    BY DEF CInv
  <1>3. /\ Grown /\ GotTyped'
        /\ \A name : HasRead(name)' <=> HasRead(name)
        /\ IsSeq(got')
        /\ \A g \in 1 .. Len(got') :
             \/ g \in 1 .. Len(got) /\ got'[g] = got[g]
             \/ Top.steps # << >> /\ Reads(Step) /\ got'[g].name = Step.name
    BY <1>1, NothingRead
  <1>4. Len(stack) \in Nat \ {0} /\ res = "parsing" /\ RowTyped
    BY <1>1, <1>2, TopIs, Parsing, KdoTyped
  <1>5. PICK d, m : d = stack' /\ m = Len(stack) - 1
    OBVIOUS
  <1>6. m \in 0 .. Len(stack) - 1 /\ d = SubSeq(stack, 1, m)
    BY <1>1, <1>4, <1>5
  <1>7. Kept(d, 1) /\ Len(d) = m
    BY <1>1, <1>2, <1>6, CutIs
  <1>8. CASE Len(stack) = 1
    <2>1. stack' = << >> /\ res' = "ok"
      <3>1. m = 0
        BY <1>5, <1>8
      <3> QED
        BY <1>1, <1>5, <1>6, <1>8, <3>1, SubSeqNone
    <2>2. \A fns, names : ~Pending(stack, fns, names)
      <3>1. ASSUME NEW fns, NEW names, Pending(stack, fns, names) PROVE FALSE
        <4>1. PICK k \in 1 .. Len(stack) : Has(stack[k].steps, fns, names)
          BY <3>1 DEF Pending
        <4>2. k = 1
          BY <1>8
        <4>3. stack[k].steps = << >>
          BY <1>1, <1>8, <4>2 DEF Top
        <4> QED
          BY <4>1, <4>3, EmptyIsSeq DEF Has
      <3> QED
        BY <3>1
    <2>3. ~ErrTop
      BY <1>1 DEF ErrTop, Taking
    <2>4. ColumnsComplete'
      <3>1. SUFFICES ASSUME HasRead("kdo") PROVE ColumnsComplete'
        BY <1>3 DEF ColumnsComplete
      <3>2. RowDone
        BY <1>2, <1>4, <2>2, <3>1 DEF RowComes
      <3>3. change.opc[1] = 11 => Field("kdo").type = Expected(change.opc[2])
        BY <1>2, <1>4, <2>2, <2>3, <3>1 DEF FromComes
      <3>4. RowDone'
        BY <1>3, <1>4, <3>1, <3>2, RowDoneKept DEF RowTyped
      <3>5. Field("kdo")' = Field("kdo")
        BY <1>1, <1>2, GotSame
      <3>6. (change.opc[1] = 11 => Field("kdo").type = Expected(change.opc[2]))'
        BY <1>1, <3>3, <3>5
      <3> QED
        BY <3>4, <3>6 DEF ColumnsComplete, RowDone
    <2> QED
      BY <1>3, <2>1, <2>4, EndedWell, EndedKeeps
  <1>9. CASE Len(stack) # 1
    <2>1. Kept(stack', 1) /\ Stays(1)
      BY <1>5, <1>7 DEF Stays
    <2>2. RowPlace
      BY <1>1, <2>1, RowStays
    <2>3. Carried
      BY <1>1, <1>3, <1>5, <1>7, <2>1, <2>2, Carry
    <2>4. KdoComes' /\ RowComes' /\ FromComes'
      BY <1>1, <1>2, <1>4, ComesReturn
    <2>5. res' = res
      BY <1>1, <1>9
    <2> QED
      BY <1>3, <1>4, <2>3, <2>4, <2>5, OutcomeParsing, Together
  <1> QED
    BY <1>8, <1>9

LEMMA StutterKeeps == ASSUME CInv, UNCHANGED vars, IInv' PROVE CInv'
  <1>1. /\ change' = change /\ index' = index /\ stack' = stack /\ got' = got /\ res' = res
    BY DEF vars
  <1>2. /\ IInv /\ Frames(stack) /\ AllFit /\ Sorted /\ GotBefore /\ FirstFrame /\ Catches
        /\ FramesPrepared /\ KdoComes /\ RowComes /\ FromComes /\ GotTyped /\ Outcome
    BY DEF CInv
  <1>3. /\ Grown
        /\ \A name : (HasRead(name)' <=> HasRead(name)) /\ At(name)' = At(name)
        /\ \A name : Field(name)' = Field(name)
    BY <1>1, <1>2, GotSame
  <1>4. AllFit'
    <2>1. ASSUME NEW k \in 1 .. Len(stack'), NEW j \in 1 .. Len(stack'[k].steps)
          PROVE  LET x == stack[k].steps[j] IN
                   (\/ Fits(k, x)
                    \/ Final(x) /\ k = Len(stack) /\ j = 1 /\ (x.take = "undefined" => Strays))'
      <3>1. PICK x : x = stack[k].steps[j]
        OBVIOUS
      <3>2. \/ Fits(k, x)
            \/ Final(x) /\ k = Len(stack) /\ j = 1 /\ (x.take = "undefined" => Strays)
        BY <1>1, <1>2, <2>1, <3>1 DEF AllFit
      <3>3. Fits(k, x) => Fits(k, x)'
        BY <1>1, <1>2, FitsSame
      <3>4. Strays => Strays'
        BY <1>1, <1>2, StraysSame
      <3>5. x = stack'[k].steps[j] /\ Len(stack') = Len(stack)
        BY <1>1, <3>1
      <3>6. \/ Fits(k, x)'
            \/ Final(x) /\ k = Len(stack') /\ j = 1 /\ (x.take = "undefined" => Strays')
        BY <3>2, <3>3, <3>4, <3>5
      <3> QED
        BY <3>5, <3>6
    <2> QED
      BY <2>1 DEF AllFit
  <1>5. Frames(stack)' /\ Sorted' /\ GotBefore' /\ FirstFrame' /\ GotTyped'
    <2>1. Frames(stack)'
      BY <1>1, <1>2 DEF Frames
    <2>2. Sorted'
      BY <1>1, <1>2 DEF Sorted, SortedStack
    <2>3. GotBefore'
      BY <1>1, <1>2 DEF GotBefore
    <2>4. FirstFrame'
      BY <1>1, <1>2 DEF FirstFrame
    <2>5. GotTyped'
      BY <1>1, <1>2, GotTypedSame
    <2> QED
      BY <2>1, <2>2, <2>3, <2>4, <2>5
  <1>6. Catches'
    <2>1. KdoIs({"Cfa", "Lmn"}) => KdoIs({"Cfa", "Lmn"})'
      BY <1>3, KdoKept
    <2> QED
      BY <1>1, <1>2, <2>1 DEF Catches
  <1>7. FramesPrepared'
    <2>1. ASSUME NEW k \in 1 .. Len(stack') PROVE AllPrepared(stack[k].steps)'
      <3>1. PICK s : s = stack[k].steps
        OBVIOUS
      <3>2. AllPrepared(s)
        BY <1>1, <1>2, <2>1, <3>1 DEF FramesPrepared
      <3>3. AllPrepared(s)'
        BY <1>1, <1>2, <3>2, PreparedSame
      <3>4. s = stack'[k].steps
        BY <1>1, <3>1
      <3> QED
        BY <3>3, <3>4
    <2> QED
      BY <2>1 DEF FramesPrepared
  <1>8. \A fns, names : Pending(stack, fns, names)' <=> Pending(stack, fns, names)
    BY <1>1 DEF Pending
  <1>9. ErrTop' <=> ErrTop
    BY <1>1 DEF ErrTop, Taking, Top, Step
  <1>10. KdoComes'
    BY <1>2, <1>3, <1>8, <1>9 DEF KdoComes
  <1>11. RowComes'
    <2>1. HasRead("kdo") /\ RowDone => RowDone'
      <3>1. RowTyped
        BY KdoTyped
      <3> QED
        BY <1>3, <3>1, RowDoneKept DEF RowTyped
    <2> QED
      BY <1>1, <1>2, <1>3, <1>8, <2>1 DEF RowComes
  <1>12. FromComes'
    BY <1>1, <1>2, <1>3, <1>8, <1>9 DEF FromComes
  <1>13. Outcome'
    <2>1. \A name : SizeOf(name)' = SizeOf(name)
      BY <1>1, <1>3 DEF SizeOf
    <2>2. KeyCount' = KeyCount
      BY <1>3, <2>1 DEF KeyCount
    <2>3. UndefinedOnly'
      <3>1. SumOf(Field("ids"))' = SumOf(Field("ids"))
        BY <1>3 DEF SumOf
      <3> QED
        BY <1>1, <1>2, <1>3, <2>1, <2>2, <3>1 DEF Outcome, UndefinedOnly
    <2>4. CountRead("columns")' = CountRead("columns")
      BY <1>1 DEF CountRead
    <2>5. ColumnsComplete'
      BY <1>1, <1>2, <1>3, <2>4 DEF Outcome, ColumnsComplete
    <2> QED
      BY <1>1, <1>2, <2>3, <2>5 DEF Outcome
  <1> QED
    BY <1>4, <1>5, <1>6, <1>7, <1>10, <1>11, <1>12, <1>13 DEF CInv

LEMMA InitControl == Init => CInv
  <1> SUFFICES ASSUME Init PROVE CInv
    OBVIOUS
  <1>1. IInv
    BY InitKeeps
  <1>2. PICK x, f : /\ x = [take |-> "call", fn |-> "Change", catch |-> FALSE]
                    /\ f = [steps |-> <<x>>, catch |-> FALSE]
    OBVIOUS
  <1>3. stack = <<f>> /\ index = 0 /\ got = << >> /\ res = "parsing"
    BY <1>2 DEF Init, Call
  <1>4. x.take = "call" /\ x.fn = "Change" /\ x.catch = FALSE /\ f.steps = <<x>> /\ f.catch = FALSE
    BY <1>2
  <1>5. /\ IsSeq(stack) /\ Len(stack) = 1 /\ stack[1] = f /\ Top = f
        /\ IsSeq(f.steps) /\ Len(f.steps) = 1 /\ f.steps[1] = x /\ Step = x
    BY <1>3, <1>4, Single DEF Top, Step
  <1>6. \A k \in 1 .. Len(stack) : k = 1
    BY <1>5
  <1>7. Len(got) = 0 /\ DOMAIN got = {} /\ \A name : ~HasRead(name)
    BY <1>3, EmptyIsSeq DEF HasRead
  <1>8. WellFormed(x) /\ Fits(1, x)
    <2>1. WellFormed(x)
      BY <1>4 DEF WellFormed, Takes
    <2>2. CallFits(1, x)
      BY <1>4 DEF CallFits, Fns
    <2> QED
      BY <1>4, <2>1, <2>2 DEF Fits, Final, Reads
  <1>9. Frames(stack)
    <2>1. Formed(f.steps)
      BY <1>4, <1>8, FormedOne
    <2>2. IsFrame(f)
      BY <1>2, <2>1 DEF IsFrame
    <2> QED
      BY <1>5, <1>6, <2>2 DEF Frames
  <1>10. AllFit
    BY <1>5, <1>6, <1>8 DEF AllFit
  <1>11. Sorted
    BY <1>5, <1>6 DEF Sorted, SortedStack, SortedIn
  <1>12. GotBefore /\ GotTyped
    BY <1>7 DEF GotBefore, GotTyped
  <1>13. FirstFrame
    BY <1>3, <1>4, <1>5 DEF FirstFrame, Calls
  <1>14. Catches
    BY <1>4, <1>5, <1>6 DEF Catches
  <1>15. FramesPrepared
    BY <1>4, <1>5, <1>6 DEF FramesPrepared, AllPrepared, Prepared, Calls
  <1>16. \A fns, names : Pending(stack, fns, names) => "Change" \in fns
    <2>1. ASSUME NEW fns, NEW names, Pending(stack, fns, names) PROVE "Change" \in fns
      <3>1. Has(<<x>>, fns, names)
        BY <1>4, <1>5, <1>6, <2>1 DEF Pending
      <3>2. Calls(x, fns) \/ ReadsOf(x, names)
        BY <3>1, HasOne
      <3> QED
        BY <1>4, <3>2 DEF Calls, ReadsOf, Reads
    <2> QED
      BY <2>1
  <1>17. KdoComes /\ RowComes /\ FromComes
    <2>1. /\ "Change" \notin {"Row", "From"} /\ "Change" \notin {"DoH"}
          /\ "Change" \notin {"Kdop", "DoH"}
      OBVIOUS
    <2>2. /\ ~Pending(stack, {"Row", "From"}, {}) /\ ~Pending(stack, {"DoH"}, {"kdo"})
          /\ ~Pending(stack, {"Kdop", "DoH"}, {"kdo"})
      BY <1>16, <2>1
    <2> QED
      BY <1>7, <2>2 DEF KdoComes, RowComes, FromComes
  <1>18. Outcome
    BY <1>3 DEF Outcome, UndefinedOnly, ColumnsComplete
  <1> QED
    BY <1>1, <1>9, <1>10, <1>11, <1>12, <1>13, <1>14, <1>15, <1>17, <1>18 DEF CInv

\* Every step keeps the control invariant.
LEMMA NextControl == CInv /\ [Next]_vars => CInv'
  <1> SUFFICES ASSUME CInv, [Next]_vars PROVE CInv'
    OBVIOUS
  <1>0. IInv'
    BY NextKeeps DEF CInv
  <1>1. CASE OneOf \/ AtLeastOf \/ OneArray \/ OneRawsBy
    BY <1>0, <1>1, OneOfKeeps, AtLeastOfKeeps, OneArrayKeeps, OneRawsByKeeps
  <1>2. CASE NRaws \/ RestRaws \/ RestOfKind \/ SkipEmptySpan
    BY <1>0, <1>2, NRawsKeeps, RestRawsKeeps, RestOfKindKeeps, SkipKeeps
  <1>3. CASE OutOfBounds \/ Enter \/ Reject \/ Stray \/ Return
    BY <1>0, <1>3, OutOfBoundsKeeps, EnterKeeps, RejectKeeps, StrayKeeps, ReturnKeeps
  <1>4. CASE Parsed \/ UNCHANGED vars
    BY <1>0, <1>4, StutterKeeps DEF Parsed
  <1> QED
    BY <1>1, <1>2, <1>3, <1>4 DEF Next

LEMMA Control == Spec => []CInv
  BY InitControl, NextControl, PTL DEF Spec

\* For every change, every value an element may show and every failure: behaviour is
\* undefined only in a 19.1 whose block is shorter than its flag byte (change_19_01.h),
\* a 10.2 with more slots than fit (change_10_02.h), a multi-row insert whose rows were
\* refused and an update whose column sizes wrap (change_kdo.h, coral_combinator.h).
THEOREM UndefinedOnlyHolds == Spec => []UndefinedOnly
  <1>1. CInv => UndefinedOnly
    BY DEF CInv, Outcome
  <1> QED
    BY <1>1, Control, PTL

\* For every change, every value an element may show and every failure: a parser that
\* ends well with a row has its columns, as many as the head of the row announces, and
\* a change of layer 11 has a row of the type of its code (change_11.h).
THEOREM ColumnsCompleteHolds == Spec => []ColumnsComplete
  <1>1. CInv => ColumnsComplete
    BY DEF CInv, Outcome
  <1> QED
    BY <1>1, Control, PTL

\* The parser state is well formed.
THEOREM TypeCorrect == Spec => []TypeOK
  <1>1. CInv => TypeOK
    <2> SUFFICES ASSUME CInv PROVE TypeOK
      OBVIOUS
    <2>1. /\ index \in 0 .. Len(change.spans) /\ Frames(stack) /\ GotTyped /\ IsSeq(got)
          /\ res \in {"parsing", "ok", "error", "undefined"}
      BY DEF CInv, IInv, Outcome
    <2>2. DOMAIN stack = 1 .. Len(stack) /\ DOMAIN got = 1 .. Len(got)
      BY <2>1, SplitSeq DEF Frames
    <2>3. ASSUME NEW k \in DOMAIN stack
          PROVE  /\ stack[k].catch \in BOOLEAN
                 /\ \A j \in DOMAIN stack[k].steps : WellFormed(stack[k].steps[j])
      <3>1. IsFrame(stack[k])
        BY <2>1, <2>2 DEF Frames
      <3>2. stack[k].catch \in BOOLEAN /\ Formed(stack[k].steps)
        BY <3>1 DEF IsFrame
      <3>3. DOMAIN stack[k].steps = 1 .. Len(stack[k].steps)
        BY <3>2, SplitSeq DEF Formed
      <3> QED
        BY <3>2, <3>3 DEF Formed
    <2>4. \A k \in DOMAIN got : got[k].inside \in BOOLEAN
      BY <2>1, <2>2 DEF GotTyped
    <2> QED
      BY <2>1, <2>3, <2>4 DEF TypeOK, WellFormed
  <1> QED
    BY <1>1, Control, PTL
=============================================================================
