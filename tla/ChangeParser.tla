---------------------------- MODULE ChangeParser ----------------------------
(***************************************************************************)
(* Reading one change: the cursor over its elements (SpanCursor) and the   *)
(* parsers that run on it (change/*.h), started by Change::parse_to_show.  *)
(*                                                                         *)
(* A parser is a sequence of steps, one per call of a cursor method. A     *)
(* step names the method it takes, what the element is decoded as and what *)
(* the parser does when the call fails: return an error, return what it    *)
(* has, go on, or use the result unchecked. Parsers that call each other   *)
(* are frames of a stack; what follows a field that decides is the body of *)
(* a function of its own, looked up when the field has been read.          *)
(*                                                                         *)
(* An element is [kind, v, size]: the structure the database wrote there,  *)
(* the values in it that steer the parsers, and how many bytes are left of *)
(* it. An element read as a structure of another kind may show any value.  *)
(* change.data: the first bytes of the change, as far as its first element *)
(* has those is_data_block looks at, are the ones of a data block.         *)
(***************************************************************************)
EXTENDS Elements, FiniteSets

CONSTANTS
  Changes,      \* the changes to read: records with at least opc, spans, data
  AnyValue,     \* for every kind, the values a misread element may show
  AnyNumber,    \* the numbers a misread array may show
  IsLittle,     \* the byte order of the log
  UINT16        \* 2^16: sizes are summed in 16 bits

ASSUME ParserAssumption ==
  /\ IsLittle \in BOOLEAN
  /\ UINT16 \in Nat \ {0}
  /\ \A c \in Changes :
       /\ Len(c.spans) \in Nat /\ c.data \in BOOLEAN
       /\ \A k \in 1 .. Len(c.spans) :
            /\ c.spans[k].size \in Nat
            /\ Typed(c.spans[k].kind, c.spans[k].v)
            /\ c.spans[k].kind = "U16s" => c.spans[k].v \in Seq(Nat)
  /\ \A as \in Steered : \A v \in AnyValue[as] : Typed(as, v)
  /\ AnyNumber \subseteq Nat

VARIABLES
  change,       \* the change being read
  index,        \* SpanCursor::index, the elements consumed
  stack,        \* the running parsers, the innermost last
  got,          \* the fields read so far
  res           \* the outcome of Change_xxxx::parse

vars == <<change, index, stack, got, res>>

NoValue == "none"
Fails == {"error", "return", "goon", "unchecked"}

-----------------------------------------------------------------------------
(* Steps                                                                    *)

One(name, as, fail) == <<[take |-> "one", name |-> name, as |-> as, fail |-> fail]>>
Raw(name, fail) == One(name, "Raw", fail)
AtLeast(name, as, n, fail) ==
  <<[take |-> "least", name |-> name, as |-> as, n |-> n, fail |-> fail]>>
Array(name, n, fail) ==
  <<[take |-> "array", name |-> name, as |-> "U16s", n |-> n, fail |-> fail]>>
Raws(name, n, fail) ==
  <<[take |-> "raws", name |-> name, as |-> "Raw", n |-> n, fail |-> fail]>>
Split(name, sizes, fail) ==
  <<[take |-> "split", name |-> name, as |-> "Raw", sizes |-> sizes, fail |-> fail]>>
Rest(name) == <<[take |-> "rest", name |-> name, as |-> "Raw", fail |-> "goon"]>>
RestOf(name, as) == <<[take |-> "restof", name |-> name, as |-> as, fail |-> "goon"]>>
Skip == <<[take |-> "skip"]>>
Err == <<[take |-> "err"]>>
Undefined == <<[take |-> "undefined"]>>
Call(fn, catch) == <<[take |-> "call", fn |-> fn, catch |-> catch]>>

-----------------------------------------------------------------------------
(* The cursor                                                               *)

Remaining == Len(change.spans) - index
Peek == change.spans[index + 1]

\* The last field of this name, its element and what it holds.
At(name) ==
  got[CHOOSE k \in DOMAIN got :
        /\ got[k].name = name
        /\ \A j \in DOMAIN got : got[j].name = name => j <= k]
Field(name) == At(name).v
SizeOf(name) == change.spans[At(name).at].size

-----------------------------------------------------------------------------
(* Rows                                                                     *)

\* isCompressed
Compressed(kdo) ==
  kdo.type \in {"Irp", "Orp"} /\ Peek.size = kdo.delt /\ kdo.n # 1

\* one_scn8_if: the result is optional, so a refusal is not noticed.
Dscn(kdo) == IF kdo.rowdep THEN One("dscn", "Scn8", "goon") ELSE << >>

DoH ==
  IF Remaining < 1
    THEN Err
    ELSE (IF Peek.size > 0 THEN One("ktb", "KtbVector", "error") ELSE Skip)
           \o One("kdo", "KdoVector", "error")

Irp(kdo) ==
  IF Remaining = 0
    THEN << >>
    ELSE (IF Compressed(kdo) THEN Raw("packed", "error")
                             ELSE Raws("columns", kdo.n, "error"))
           \o Dscn(kdo)

Orp(kdo) == Irp(kdo)

Urp(kdo) == Array("ids", kdo.nnew, "error") \o Call("UrpColumns", FALSE)

\* Mutant: the pieces are used as those of a multi-row insert are.
UrpColumnsUnchecked ==
  LET kdo == Field("kdo") IN
    (IF kdo.kdom2 THEN Split("columns", Field("ids"), "unchecked")
                  ELSE Raws("columns", kdo.nnew, "error"))
      \o Dscn(kdo)

UrpColumns ==
  LET kdo == Field("kdo") IN
    (IF kdo.kdom2 THEN Split("columns", Field("ids"), "error")
                  ELSE Raws("columns", kdo.nnew, "error"))
      \o Dscn(kdo)

\* The sizes are checked; the rows are taken from the result without a look
\* whether there is one.
Qmi(kdo) == Array("sizes", kdo.n, "error") \o Call("QmiRows", FALSE)
QmiRows == Split("rows", Field("sizes"), "unchecked")

Payloads ==
  CASE Remaining = 0 -> << >>
    [] Remaining = 1 -> Raw("p0", "goon")
    [] OTHER -> Raw("p0", "goon") \o Raw("p1", "goon")

\* Ch_Cfa and Ch_Lmn keep the supplemental if it can be read.
OwnUsp == Call("Usp", TRUE)

Kdop == Call("DoH", FALSE) \o Call("Row", FALSE)

Row ==
  LET kdo == Field("kdo") IN
    CASE kdo.type \in {"Lkr", "Qmd", "Cki", "Skl", "Dsc"} -> << >>
      [] kdo.type \in {"Mfc", "Cmp"} -> Payloads
      [] kdo.type \in {"Cfa", "Lmn"} -> OwnUsp
      [] kdo.type = "Drp" -> Dscn(kdo)
      [] kdo.type = "Irp" -> Irp(kdo)
      [] kdo.type = "Orp" -> Orp(kdo)
      [] kdo.type = "Urp" -> Urp(kdo)
      [] kdo.type = "Qmi" -> Qmi(kdo)
      [] OTHER -> Err

\* from: the row type a change of layer 11 must turn out to have.
Expected(code) ==
  CASE code = 2 -> "Irp" [] code = 3 -> "Drp" [] code = 4 -> "Lkr"
    [] code = 5 -> "Urp" [] code = 6 -> "Orp" [] code = 7 -> "Mfc"
    [] code = 8 -> "Cfa" [] code = 11 -> "Qmi" [] code = 12 -> "Qmd"
    [] code = 16 -> "Lmn" [] code = 22 -> "Cmp"

From == IF Field("kdo").type = Expected(change.opc[2]) THEN << >> ELSE Err

\* Ch_Usp: the supplemental columns of an undo.
Usp ==
  CASE Remaining = 0 -> << >>
    [] Remaining = 1 -> One("usp", "Ktusp", "error")
    [] OTHER -> One("usp", "Ktusp", "error") \o Call("UspColumns", FALSE)

UspColumns ==
  LET cc == Field("usp").cc IN
    Array("uspIds", cc, "error") \o Array("uspSizes", cc, "error")
      \o Raws("uspColumns", cc, "error")

-----------------------------------------------------------------------------
(* Undo                                                                     *)

KdoUndo == Call("Kdop", FALSE) \o Call("Usp", FALSE)

LobUndo ==
  One("ktb", "KtbVector", "error") \o One("head", "KdliHead", "error")
    \o One("elem", "KdliElem", "error") \o Rest("rest")

\* Mutant: without key data the undo is refused.
IdxUndoStrict ==
  One("ktb", "KtbVector", "error") \o One("kdi", "Kdxlk", "error")
    \o AtLeast("key", "Raw", 1, "return") \o AtLeast("keyData", "Raw", 1, "error")
    \o AtLeast("selfLock", "Raw", 1, "return") \o Raw("bitmap", "goon")

IdxUndo ==
  One("ktb", "KtbVector", "error") \o One("kdi", "Kdxlk", "error")
    \o AtLeast("key", "Raw", 1, "return") \o AtLeast("keyData", "Raw", 1, "return")
    \o AtLeast("selfLock", "Raw", 1, "return") \o Raw("bitmap", "goon")

\* By the operation that the undo block header names; skipped operations keep
\* their name only.
Before ==
  LET op == Field("ubu").opc IN
    CASE op = "row" -> KdoUndo
      [] op = "lob" -> LobUndo
      [] op = "index" -> IdxUndo
      [] op = "skipped" -> << >>
      [] OTHER -> Rest("rest")

Change_0501 ==
  One("udb", "Ktudb", "error") \o One("ubu", "Ktubu", "error")
    \o Call("Before", FALSE)

-----------------------------------------------------------------------------
(* Transactions                                                             *)

\* The second element is an extent map if it is large enough; if it is not, it
\* has been taken all the same.
Change_0502 ==
  One("udh", "Ktudh", "error")
    \o (IF Remaining < 2 THEN << >>
        ELSE (IF change.spans[index + 2].size >= 36
                THEN One("eop", "Kteop", "error") ELSE Raw("second", "return"))
               \o One("pdb", "PdbInfo", "return"))

Change_0504 ==
  One("ucm", "Ktucm", "error") \o Call("Ucf", FALSE)
Ucf ==
  IF Field("ucm").ucf /\ Remaining = 0 THEN Err ELSE One("ucf", "Ktucf", "goon")

Change_0506 == One("ubu", "Ktubl", "error") \o One("voff", "Ktuxvoff", "return")
Change_0511 == One("ubu", "Ktubu", "error") \o One("ubrb", "Ktubrb", "return")
Change_0512 == One("ust", "Ktust", "error") \o AtLeast("status", "Status", 4, "return")

\* Session and audit fields, in order, until the elements end.
Change_0519 ==
  One("session", "Session", "return")
    \o Raw("user", "return") \o Raw("login", "return") \o Raw("client", "return")
    \o Raw("osUser", "return") \o Raw("machine", "return")
    \o Raw("terminal", "return") \o Raw("process", "return")
    \o Raw("program", "return") \o Raw("transaction", "return")
    \o One("flags", "AuditFlags", "return")
    \o AtLeast("version", "Raw", 4, "return") \o AtLeast("auditId", "Raw", 4, "return")
    \o Raw("clientId", "return") \o Raw("globalId", "goon")

Change_0520 ==
  One("session", "Session", "return") \o Raw("transaction", "return")
    \o One("flags", "AuditFlags", "return") \o Raw("version", "return")
    \o Raw("auditId", "return") \o Raw("tag", "return")
    \o Raw("clientId", "return") \o Raw("login", "goon")

Change_0530 ==
  One("udx", "Ktudx", "error") \o Raw("meta", "return") \o Raw("state", "return")

-----------------------------------------------------------------------------
(* Indexes                                                                  *)

Change_1002 ==
  One("ktb", "KtbVector", "error") \o One("xle", "Kdxle", "return")
    \o Raw("keys", "return") \o Raw("slots", "return") \o Call("KeySizes", FALSE)

\* An array insert: the slots are read by the count, whatever the size of the
\* element that holds them.
KeyCount == IF SizeOf("xle") >= 10 THEN Field("xle").keys ELSE 0
KeySizes ==
  IF Field("xle").array
    THEN Array("keySizes", KeyCount, "return") \o Call("RowSlots", FALSE)
    ELSE << >>
RowSlots == IF 2 * KeyCount > SizeOf("slots") THEN Undefined ELSE << >>

\* An empty first element stands for a block being split.
Change_1008 ==
  IF Remaining = 0 THEN << >>
  ELSE (IF Peek.size > 0
          THEN One("ktb", "KtbVector", "error") \o One("hdr", "Kdxln", "return")
          ELSE Skip \o One("hdr", "Kdxlnext", "return"))
         \o Raw("slots", "goon") \o Raw("keys", "goon")

Change_1018 ==
  One("ktb", "KtbVector", "error") \o One("hdr", "Kdxlup", "return")
    \o Raw("keys", "goon")

-----------------------------------------------------------------------------
(* Rows, markers, directly loaded blocks, DDL, LOBs                         *)

Change_11 == Call("Kdop", FALSE) \o Call("From", FALSE)

Change_1715 == << >>
Change_1727 == One("rth", "Ktrth", "error")

\* is_data_block looks at bytes 0 to 3 and 18 of the element one after the other,
\* up to the first that does not fit, and checks no size before.
Change_1901 ==
  CASE Remaining = 0 -> Err
    [] Remaining > 0 /\ Peek.size < 19 /\ (change.data \/ Peek.size = 0) -> Undefined
    [] OTHER ->
         One("block", IF change.data THEN "DLB_D" ELSE "DLB_L", "error")
           \o Rest("fields")

Change_2401 == One("head", "KrvDDLh", "error") \o Rest("raws")

Change_2404 == One("mrm", "Ktmrm", "error") \o Call("Marker", FALSE)
Marker ==
  LET type == Field("mrm").type IN
    CASE Remaining = 0 -> << >>
      [] Remaining > 0 /\ type = "pseudo" -> One("ptx", "Ktptx", "error")
      [] Remaining > 0 /\ type = "finalized" ->
           One("txs", "Kttxs", "error") \o Raw("unknown", "error")
             \o One("startScn", "Scn8", "goon")
      [] Remaining > 0 /\ type = "minActive" -> One("minActScn", "Scn8", "error")
      [] OTHER -> Rest("raws")

Change_2406 == One("dlr", "Ktdlr", "error")

Change_2602 ==
  One("ktb", "KtbVector", "error") \o One("head", "KdliHead", "error")
    \o RestOf("elems", "KdliElem")

\* Mutant: the object number is optional.
Change_2606_optional ==
  AtLeast("f1", "Raw", 12, "error") \o AtLeast("objd", "Objd", 32, "goon")
    \o One("head", "KdliHead", "error") \o RestOf("elems", "KdliElem")

Change_2606 ==
  AtLeast("f1", "Raw", 12, "error") \o AtLeast("objd", "Objd", 32, "error")
    \o One("head", "KdliHead", "error") \o RestOf("elems", "KdliElem")

-----------------------------------------------------------------------------
(* Change::parse_to_show: a change of another operation is not parsed.      *)

parse_to_show ==
  CASE change.opc = <<5, 1>> -> Change_0501
    [] change.opc = <<5, 2>> -> Change_0502
    [] change.opc = <<5, 4>> -> Change_0504
    [] change.opc = <<5, 6>> -> Change_0506
    [] change.opc = <<5, 11>> -> Change_0511
    [] change.opc = <<5, 12>> -> Change_0512
    [] change.opc = <<5, 19>> -> Change_0519
    [] change.opc = <<5, 20>> -> Change_0520
    [] change.opc = <<5, 30>> -> Change_0530
    [] change.opc = <<10, 2>> -> Change_1002
    [] change.opc = <<10, 8>> -> Change_1008
    [] change.opc = <<10, 18>> -> Change_1018
    [] change.opc \in {11} \X {2, 3, 4, 5, 6, 7, 8, 11, 12, 16, 22} -> Change_11
    [] change.opc = <<17, 15>> -> Change_1715
    [] change.opc = <<17, 27>> -> Change_1727
    [] change.opc = <<19, 1>> -> Change_1901
    [] change.opc = <<24, 1>> -> Change_2401
    [] change.opc = <<24, 4>> -> Change_2404
    [] change.opc = <<24, 6>> -> Change_2406
    [] change.opc = <<26, 2>> -> Change_2602
    [] change.opc = <<26, 6>> -> Change_2606
    [] OTHER -> << >>

\* The steps of a parser at the moment it is called.
Body(fn) ==
  CASE fn = "Change" -> parse_to_show
    [] fn = "DoH" -> DoH
    [] fn = "Row" -> Row
    [] fn = "UrpColumns" -> UrpColumns
    [] fn = "QmiRows" -> QmiRows
    [] fn = "Kdop" -> Kdop
    [] fn = "From" -> From
    [] fn = "Usp" -> Usp
    [] fn = "UspColumns" -> UspColumns
    [] fn = "Before" -> Before
    [] fn = "Ucf" -> Ucf
    [] fn = "KeySizes" -> KeySizes
    [] fn = "RowSlots" -> RowSlots
    [] fn = "Marker" -> Marker

-----------------------------------------------------------------------------
(* Runs of the parsers                                                      *)

Top == stack[Len(stack)]
Step == Head(Top.steps)
Taking(takes) == stack # << >> /\ Top.steps # << >> /\ Step.take \in takes

Done == [stack EXCEPT ![Len(stack)].steps = Tail(@)]
Returned == [stack EXCEPT ![Len(stack)].steps = << >>]

Entry(at, v, inside) ==
  [name |-> Step.name, as |-> Step.as, at |-> at, v |-> v, inside |-> inside]

\* What an element shows to a decoder.
Shown(as, element) == IF element.kind = as THEN {element.v} ELSE AnyValue[as]
Numbers(n, element) ==
  IF element.kind = "U16s" /\ n <= Len(element.v)
    THEN {SubSeq(element.v, 1, n)}
    ELSE [1 .. n -> AnyNumber]

\* The sum of a sequence of numbers.
SumOf(numbers) ==
  LET upTo[k \in 0 .. Len(numbers)] ==
        IF k = 0 THEN 0 ELSE upTo[k - 1] + numbers[k]
  IN upTo[Len(numbers)]

\* An error returned to the caller: it goes up to the innermost parser whose
\* caller goes on without it, or becomes the outcome.
Raised ==
  LET caught == {k \in DOMAIN stack : stack[k].catch} IN
    IF caught = {}
      THEN stack' = << >> /\ res' = "error"
      ELSE /\ \E k \in caught :
                /\ \A j \in caught : j <= k
                /\ stack' = SubSeq(stack, 1, k - 1)
           /\ UNCHANGED res

\* The call of the step has failed.
Failed ==
  CASE Step.fail = "error" -> Raised
    [] Step.fail = "return" -> stack' = Returned /\ UNCHANGED res
    [] Step.fail = "goon" -> stack' = Done /\ UNCHANGED res
    [] Step.fail = "unchecked" -> stack' = << >> /\ res' = "undefined"

\* The step has read an element, or that many raw ones.
Got(entries) ==
  /\ got' = got \o entries
  /\ stack' = Done
  /\ UNCHANGED res

\* Its decoder accepts the element and reads the fields.
Decode(element) ==
  \E v \in Shown(Step.as, element) :
    LET tests == Tests(Step.as, v, IsLittle) IN
      IF Accepts(tests, element.size)
        THEN Got(<<Entry(index + 1, v, Inside(tests, element.size))>>)
        ELSE Failed /\ UNCHANGED got

\* one_of, one, one_raw, one_scn8: the element is consumed before it is decoded.
OneOf ==
  /\ Taking({"one"}) /\ Remaining > 0
  /\ index' = index + 1
  /\ Decode(Peek)
  /\ UNCHANGED change

\* Mutant: the element is consumed by the test of its size and by the read.
AtLeastOfTwice ==
  /\ Taking({"least"}) /\ Remaining > 0
  /\ IF Peek.size >= Step.n
       THEN index' = index + 2 /\ Decode(Peek)
       ELSE Failed /\ UNCHANGED <<index, got>>
  /\ UNCHANGED change

\* next and one_of with a least size, one_array: an element that is too short
\* stays where it is.
AtLeastOf ==
  /\ Taking({"least"}) /\ Remaining > 0
  /\ IF Peek.size >= Step.n
       THEN index' = index + 1 /\ Decode(Peek)
       ELSE Failed /\ UNCHANGED <<index, got>>
  /\ UNCHANGED change

\* Mutant: the array is read where the cursor stands, which stays there.
OneArrayPeeks ==
  /\ Taking({"array"}) /\ Remaining > 0
  /\ IF Peek.size >= 2 * Step.n
       THEN \E v \in Numbers(Step.n, Peek) : Got(<<Entry(index + 1, v, TRUE)>>)
       ELSE Failed /\ UNCHANGED got
  /\ UNCHANGED <<change, index>>

OneArray ==
  /\ Taking({"array"}) /\ Remaining > 0
  /\ IF Peek.size >= 2 * Step.n
       THEN /\ index' = index + 1
            /\ \E v \in Numbers(Step.n, Peek) : Got(<<Entry(index + 1, v, TRUE)>>)
       ELSE Failed /\ UNCHANGED <<index, got>>
  /\ UNCHANGED change

\* one_raws_by: the sum is checked as the 16-bit number it is kept in; a piece
\* past the end of the element is undefined.
OneRawsBy ==
  /\ Taking({"split"}) /\ Remaining > 0
  /\ index' = index + 1
  /\ LET sum == SumOf(Step.sizes) IN
       \/ Peek.size < sum % UINT16 /\ Failed /\ UNCHANGED got
       \/ /\ sum % UINT16 <= Peek.size /\ Peek.size < sum
          /\ stack' = << >> /\ res' = "undefined" /\ UNCHANGED got
       \/ sum <= Peek.size /\ Got(<<Entry(index + 1, Step.sizes, TRUE)>>)
  /\ UNCHANGED change

\* n_raws and raws_by ask for n elements and take all that are left, as rest
\* does.
AllLeft == [k \in 1 .. Remaining |-> Entry(index + k, NoValue, TRUE)]

\* Mutant: fewer elements than asked for will do.
NRawsAny ==
  /\ Taking({"raws"})
  /\ index' = Len(change.spans)
  /\ Got(AllLeft)
  /\ UNCHANGED change

NRaws ==
  /\ Taking({"raws"})
  /\ IF Step.n > Remaining
       THEN Failed /\ UNCHANGED <<index, got>>
       ELSE index' = Len(change.spans) /\ Got(AllLeft)
  /\ UNCHANGED change

RestRaws ==
  /\ Taking({"rest"})
  /\ index' = Len(change.spans)
  /\ Got(AllLeft)
  /\ UNCHANGED change

\* rest_of decodes until the elements end or one is refused, which is consumed.
RestOfKind ==
  /\ Taking({"restof"})
  /\ \/ Remaining = 0 /\ stack' = Done /\ UNCHANGED <<index, got>>
     \/ /\ Remaining > 0
        /\ index' = index + 1
        /\ \E v \in Shown(Step.as, Peek) :
             LET tests == Tests(Step.as, v, IsLittle) IN
               IF Accepts(tests, Peek.size)
                 THEN /\ got' = Append(got, Entry(index + 1, v, Inside(tests, Peek.size)))
                      /\ UNCHANGED stack
                 ELSE stack' = Done /\ UNCHANGED got
  /\ UNCHANGED <<change, res>>

SkipEmptySpan ==
  /\ Taking({"skip"})
  /\ index' = IF Remaining > 0 /\ Peek.size = 0 THEN index + 1 ELSE index
  /\ stack' = Done
  /\ UNCHANGED <<change, got, res>>

\* next at the end of the elements.
OutOfBounds ==
  /\ Taking({"one", "least", "array", "split"}) /\ Remaining = 0
  /\ Failed
  /\ UNCHANGED <<change, index, got>>

Enter ==
  /\ Taking({"call"})
  /\ stack' = Append(Done, [steps |-> Body(Step.fn), catch |-> Step.catch])
  /\ UNCHANGED <<change, index, got, res>>

Reject ==
  /\ Taking({"err"})
  /\ Raised
  /\ UNCHANGED <<change, index, got>>

Stray ==
  /\ Taking({"undefined"})
  /\ stack' = << >> /\ res' = "undefined"
  /\ UNCHANGED <<change, index, got>>

Return ==
  /\ stack # << >> /\ Top.steps = << >>
  /\ stack' = SubSeq(stack, 1, Len(stack) - 1)
  /\ res' = IF Len(stack) = 1 THEN "ok" ELSE res
  /\ UNCHANGED <<change, index, got>>

Parsed == res # "parsing" /\ UNCHANGED vars

Init ==
  /\ change \in Changes
  /\ index = 0
  /\ stack = <<[steps |-> Call("Change", FALSE), catch |-> FALSE]>>
  /\ got = << >>
  /\ res = "parsing"

Next ==
  \/ OneOf \/ AtLeastOf \/ OneArray \/ OneRawsBy \/ NRaws \/ RestRaws
  \/ RestOfKind \/ SkipEmptySpan \/ OutOfBounds
  \/ Enter \/ Reject \/ Stray \/ Return
  \/ Parsed

Spec == Init /\ [][Next]_vars

-----------------------------------------------------------------------------
(* Properties                                                               *)

Takes ==
  {"one", "least", "array", "raws", "split", "rest", "restof", "skip", "err",
   "undefined", "call"}

\* The parser state is well formed, and the cursor stays within the elements.
TypeOK ==
  /\ index \in 0 .. Len(change.spans)
  /\ \A k \in DOMAIN stack :
       /\ stack[k].catch \in BOOLEAN
       /\ \A j \in DOMAIN stack[k].steps :
            LET step == stack[k].steps[j] IN
              /\ step.take \in Takes
              /\ step.take \notin {"skip", "err", "undefined", "call"} => step.fail \in Fails
  /\ \A k \in DOMAIN got : got[k].inside \in BOOLEAN
  /\ res \in {"parsing", "ok", "error", "undefined"}

\* No element is read twice and none out of order, whatever the parsers, their
\* failures and the values they meet: the cursor methods leave the index behind
\* what they hand out.
ReadInOrder ==
  /\ \A k \in DOMAIN got : got[k].at \in 1 .. index
  /\ \A j, k \in DOMAIN got : j < k => got[j].at < got[k].at

\* A decoder reads no byte outside the element it was given, whatever size the
\* element has and whatever counts it announces, except those: the tests of the
\* decoders cover the reads behind them.
FieldsInside ==
  \A k \in DOMAIN got :
    got[k].inside \/ Overreads(got[k].as, got[k].v, change.spans[got[k].at].size)

HasRead(name) == \E k \in DOMAIN got : got[k].name = name
CountRead(name) == Cardinality({k \in DOMAIN got : got[k].name = name})

\* A parser leaves the language only where it uses a result it has not looked
\* at: the rows of a multi-row insert, pieces behind a sum that wrapped, the
\* slots of an array insert, the flag byte of a block that is too short.
UndefinedOnly ==
  res = "undefined" =>
    \/ change.opc = <<19, 1>> /\ change.spans[1].size < 19
    \/ change.opc = <<10, 2>> /\ HasRead("keySizes") /\ 2 * KeyCount > SizeOf("slots")
    \/ HasRead("kdo") /\ Field("kdo").type = "Qmi" /\ HasRead("sizes") /\ ~HasRead("rows")
    \/ HasRead("ids") /\ Field("kdo").kdom2 /\ SumOf(Field("ids")) >= UINT16

\* A row change that is parsed without an error has the columns its head
\* announces (or, for an inserted or overwritten piece, none at all), and, in
\* layer 11, the row operation of its operation code.
ColumnsComplete ==
  res = "ok" /\ HasRead("kdo") =>
    LET kdo == Field("kdo") IN
      /\ change.opc[1] = 11 => kdo.type = Expected(change.opc[2])
      /\ kdo.type \in {"Irp", "Orp"} =>
           \/ At("kdo").at = Len(change.spans)
           \/ HasRead("packed")
           \/ CountRead("columns") >= kdo.n
      /\ kdo.type = "Urp" =>
           /\ HasRead("ids")
           /\ IF kdo.kdom2 THEN HasRead("columns") ELSE CountRead("columns") >= kdo.nnew
      /\ kdo.type = "Qmi" => HasRead("rows")

=============================================================================
