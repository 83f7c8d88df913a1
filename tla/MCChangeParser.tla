--------------------------- MODULE MCChangeParser ---------------------------
(***************************************************************************)
(* The layouts that changes.md and the comments of the parsers give, each  *)
(* whole and with one fault: elements missing at the end, one element cut  *)
(* short, or one element with other values.                                *)
(***************************************************************************)
EXTENDS ChangeParser, FiniteSetsExt, TLC

\* Scaled: TLC's own integers have 32 bits.
MCUINT32 == 4096
MCAnyNumber == {0, 2, 65535}

-----------------------------------------------------------------------------
(* Elements                                                                 *)

NeedOf(tests) == {0} \cup {tests[k].need : k \in DOMAIN tests}
MustOf(tests) == {0} \cup {tests[k].need : k \in {j \in DOMAIN tests : tests[j].must}}

EV(kind, v) == [kind |-> kind, v |-> v, size |-> Max(NeedOf(Tests(kind, v, IsLittle)))]
E(kind) == EV(kind, NoValue)
R(size) == [kind |-> "Raw", v |-> NoValue, size |-> size]
U(numbers) == [kind |-> "U16s", v |-> numbers, size |-> 2 * Len(numbers)]

ktb(op, itc, cleanout, cnt) ==
  [op |-> op, long |-> op = "L", itc |-> itc, cleanout |-> cleanout, cnt |-> cnt]
Ktbs == {ktb("C", 0, FALSE, 0), ktb("L", 0, FALSE, 0), ktb("R", 2, FALSE, 0),
         ktb("R", -1, FALSE, 0), ktb("F", 0, TRUE, 1), ktb("N", 0, FALSE, 0)}
Ktb == EV("KtbVector", ktb("C", 0, FALSE, 0))

kdo(type, n, delt, kdom2, rowdep) ==
  [type |-> type, n |-> n, nnew |-> n, delt |-> delt, kdom2 |-> kdom2, rowdep |-> rowdep]
Kdo(type, n, delt, kdom2, rowdep) == EV("KdoVector", kdo(type, n, delt, kdom2, rowdep))

RowTypes ==
  {"Irp", "Drp", "Lkr", "Urp", "Orp", "Mfc", "Cfa", "Cki", "Skl", "Qmi", "Qmd",
   "Dsc", "Lmn", "Cmp", "Unknown"}

KdliCodes ==
  {"Info", "LoadData", "Zero", "Fill", "Lmap", "Lmapx", "Suplog", "Fpload",
   "LoadLhb", "Almap", "LoadItree", "Imap", "Unknown"}

block(itls, bitmap, compressed, rows) ==
  [itls |-> itls, bitmap |-> bitmap, compressed |-> compressed, fcls |-> 1,
   perm |-> 1, tdrs |-> 1, rows |-> rows]

Kinds ==
  DOMAIN Plain
    \cup {"Raw", "Ktubl", "KtbVector", "Kdxle", "Kdxlk", "KdliElem", "KdoVector", "DLB_D"}

MCAnyValue ==
  [kind \in Kinds |->
    CASE kind = "KtbVector" -> Ktbs
      [] kind = "KdoVector" ->
           {kdo(t, 2, 7, FALSE, FALSE) : t \in RowTypes}
             \cup {kdo("Irp", n, 7, FALSE, TRUE) : n \in {0, 3}}
             \cup {kdo("Urp", 3, 0, m, TRUE) : m \in BOOLEAN}
             \cup {kdo("Qmi", 1, 0, FALSE, FALSE)}
      [] kind = "Ktubu" ->
           {[opc |-> o, begin |-> FALSE] : o \in {"row", "lob", "index", "skipped", "other"}}
      [] kind = "Ktubl" -> {[opc |-> "row", begin |-> b] : b \in BOOLEAN}
      [] kind = "Ktusp" -> {[cc |-> n] : n \in {0, 1, 3}}
      [] kind = "Ktucm" -> {[ucf |-> u] : u \in BOOLEAN}
      [] kind = "Ktmrm" ->
           {[type |-> t] : t \in {"pseudo", "finalized", "minActive", "other"}}
      [] kind = "Kdxle" ->
           {[array |-> a, keys |-> n] : a \in BOOLEAN, n \in {0, 1, 3}}
      [] kind = "Kdxlk" -> {[keys |-> n] : n \in {0, 2}}
      [] kind = "KdliElem" ->
           {[code |-> c, n |-> 1] : c \in KdliCodes}
             \cup {[code |-> c, n |-> 512] : c \in {"Fill", "Lmap", "Almap"}}
      [] kind = "DLB_D" -> {block(n, b, c, 1) : n \in {2, 30}, b \in BOOLEAN, c \in BOOLEAN}
      [] OTHER -> {NoValue}]

-----------------------------------------------------------------------------
(* Layouts. Of some that the documents give, the parsers are known to read   *)
(* less; departure names them:                                               *)
(*   "behind columns": n_raws takes what follows columns that are elements   *)
(*      of their own, the SCN of a row dependency and the supplemental       *)
(*      (changes.md 6.3.1.1 and 6.3.1.2; the run supplemental_kept);         *)
(*   "payloads": a row with fewer than two payloads takes the supplemental   *)
(*      for the next one (changes.md 6.3.1.3 against change_kdo.h:71-75);    *)
(*   "other format": an update splits its one element of columns by their    *)
(*      numbers instead of their sizes (change_kdo.h:174-180);               *)
(*   "pdb second": an element that is no extent map is not looked at again   *)
(*      as the PDB (change_05_02.h:47 against change_05_02.h:117).           *)

LayoutBut(opc, spans, departure) ==
  [ opc |-> opc, spans |-> spans, departure |-> departure,
    data |-> spans # << >> /\ spans[1].kind = "DLB_D" ]
Layout(opc, spans) == LayoutBut(opc, spans, "none")

Scn(rowdep) == IF rowdep THEN <<E("Scn8")>> ELSE << >>

\* A row operation from its KDO on: its elements, the SCN behind them, and the
\* departure if there is something behind the elements.
RowPart(els, scn, departs) == [els |-> els, scn |-> scn, departs |-> departs]
Closed(els, scn) == RowPart(els, scn, "none")
Columns(els, scn) == RowPart(els, scn, "behind columns")

Rows(type) ==
  CASE type \in {"Irp", "Orp"} ->
         {Columns(<<Kdo(type, 2, 7, FALSE, d), R(3), R(2)>>, Scn(d)) : d \in BOOLEAN}
           \cup {Closed(<<Kdo(type, 2, 7, FALSE, d), R(7)>>, Scn(d)) : d \in BOOLEAN}
           \cup {Columns(<<Kdo(type, 1, 7, FALSE, FALSE), R(7)>>, << >>)}
    [] type = "Urp" ->
         {Columns(<<Kdo("Urp", 2, 0, FALSE, d), U(<<1, 4>>), R(3), R(2)>>, Scn(d)) : d \in BOOLEAN}
           \cup {RowPart(<<Kdo("Urp", 2, 0, TRUE, d), U(ids), R(6)>>, Scn(d), "other format") :
                   d \in BOOLEAN, ids \in {<<1, 4>>, <<3, 9>>}}
    [] type = "Drp" -> {Closed(<<Kdo("Drp", 0, 0, FALSE, d)>>, Scn(d)) : d \in BOOLEAN}
    [] type = "Qmi" -> {Closed(<<Kdo("Qmi", 2, 0, FALSE, FALSE), U(<<3, 2>>), R(5)>>, << >>)}
    [] type \in {"Mfc", "Cmp"} ->
         {RowPart(<<Kdo(type, 0, 0, FALSE, FALSE)>> \o [k \in 1 .. p |-> R(4)], << >>,
                  IF p < 2 THEN "payloads" ELSE "none") : p \in 0 .. 2}
    [] OTHER -> {Closed(<<Kdo(type, 2, 0, FALSE, FALSE)>>, << >>)}

Departure(row, behind) ==
  IF behind # << >> \/ row.departs = "other format" THEN row.departs ELSE "none"

Supplementals ==
  { << >>, <<EV("Ktusp", [cc |-> 0])>>,
    <<EV("Ktusp", [cc |-> 2]), U(<<2, 5>>), U(<<3, 1>>), R(3), R(1)>> }

\* changes.md 6.3.1.1 to 6.3.1.5.
RowUndo(row, sup) ==
  LayoutBut(<<5, 1>>,
            <<E("Ktudb"), EV("Ktubu", [opc |-> "row", begin |-> FALSE]), Ktb>>
              \o row.els \o row.scn \o sup,
            Departure(row, row.scn \o sup))

RowUndos ==
  UNION {{RowUndo(r, s) : r \in Rows(t), s \in Supplementals} :
           t \in RowTypes \ {"Cmp", "Unknown"}}

\* Layer 11: the block element may be empty.
RowRedo(code, row, first) ==
  LayoutBut(<<11, code>>, <<first>> \o row.els \o row.scn, Departure(row, row.scn))

Codes11 == {2, 3, 4, 5, 6, 7, 8, 11, 12, 16, 22}
RowRedos ==
  UNION {{RowRedo(c, r, f) : r \in Rows(Expected(c)), f \in {Ktb, R(0)}} : c \in Codes11}

Undo(op, spans) ==
  Layout(<<5, 1>>, <<E("Ktudb"), EV("Ktubu", [opc |-> op, begin |-> FALSE])>> \o spans)

OtherUndos ==
  { Undo("lob", <<Ktb, E("KdliHead"), EV("KdliElem", [code |-> "Info", n |-> 0]), R(4)>>),
    Undo("index", <<Ktb, EV("Kdxlk", [keys |-> 2]), R(5), R(6), R(2), R(1)>>),
    Undo("index", <<Ktb, EV("Kdxlk", [keys |-> 0]), R(5)>>),
    Undo("skipped", << >>), Undo("other", <<R(4), R(8)>>) }

PdbSecond == LayoutBut(<<5, 2>>, <<E("Ktudh"), E("PdbInfo")>>, "pdb second")

Transactions ==
  { Layout(<<5, 2>>, <<E("Ktudh")>>), PdbSecond,
    Layout(<<5, 2>>, <<E("Ktudh"), E("Kteop"), E("PdbInfo")>>),
    Layout(<<5, 4>>, <<EV("Ktucm", [ucf |-> FALSE])>>),
    Layout(<<5, 4>>, <<EV("Ktucm", [ucf |-> TRUE]), E("Ktucf")>>),
    Layout(<<5, 6>>, <<EV("Ktubl", [opc |-> "row", begin |-> TRUE]), E("Ktuxvoff")>>),
    Layout(<<5, 6>>, <<EV("Ktubl", [opc |-> "row", begin |-> FALSE]), E("Ktuxvoff")>>),
    Layout(<<5, 11>>, <<EV("Ktubu", [opc |-> "row", begin |-> FALSE]), E("Ktubrb")>>),
    Layout(<<5, 12>>, <<E("Ktust"), E("Status")>>),
    Layout(<<5, 19>>, <<E("Session")>> \o [k \in 1 .. 9 |-> R(6)] \o <<E("AuditFlags"), R(4), R(4), R(6), R(0)>>),
    Layout(<<5, 20>>, <<E("Session"), R(6), E("AuditFlags"), R(4), R(4), R(6), R(6), R(6)>>),
    Layout(<<5, 30>>, <<E("Ktudx"), R(8), R(8)>>) }

Leaf(array, keys) == EV("Kdxle", [array |-> array, keys |-> keys])

Indexes ==
  { Layout(<<10, 2>>, <<Ktb, Leaf(FALSE, 0), R(9), R(6)>>),
    Layout(<<10, 2>>, <<Ktb, Leaf(TRUE, 2), R(9), R(4), U(<<4, 5>>)>>),
    Layout(<<10, 2>>, <<Ktb, Leaf(TRUE, 1), R(9), R(2), U(<<9>>)>>),
    Layout(<<10, 8>>, <<Ktb, E("Kdxln"), R(4), R(12)>>),
    Layout(<<10, 8>>, <<R(0), E("Kdxlnext"), R(4), R(12)>>) }
  \cup {Layout(<<10, 18>>, <<EV("KtbVector", k), E("Kdxlup"), R(9)>>) : k \in Ktbs}

Elem(code) == EV("KdliElem", [code |-> code, n |-> 1])

Others ==
  { Layout(<<17, 15>>, << >>), Layout(<<17, 27>>, <<E("Ktrth")>>),
    Layout(<<19, 1>>, <<EV("DLB_D", block(2, TRUE, FALSE, 3)), R(4)>>),
    Layout(<<19, 1>>, <<EV("DLB_D", block(30, FALSE, TRUE, 3))>>),
    Layout(<<19, 1>>, <<E("DLB_L"), R(4)>>),
    Layout(<<24, 1>>, <<E("KrvDDLh"), R(5), R(6)>>),
    Layout(<<24, 4>>, <<EV("Ktmrm", [type |-> "pseudo"]), E("Ktptx")>>),
    Layout(<<24, 4>>, <<EV("Ktmrm", [type |-> "finalized"]), E("Kttxs"), R(4), E("Scn8")>>),
    Layout(<<24, 4>>, <<EV("Ktmrm", [type |-> "minActive"]), E("Scn8")>>),
    Layout(<<24, 4>>, <<EV("Ktmrm", [type |-> "other"]), R(8)>>),
    Layout(<<24, 4>>, <<EV("Ktmrm", [type |-> "other"])>>),
    Layout(<<24, 6>>, <<E("Ktdlr")>>),
    Layout(<<26, 6>>, <<R(12), E("Objd"), E("KdliHead"), Elem("Fpload"), Elem("Fill")>>) }
  \cup {Layout(<<26, 2>>, <<Ktb, E("KdliHead"), Elem(c), Elem("Zero")>>) : c \in KdliCodes}

Layouts == RowUndos \cup RowRedos \cup OtherUndos \cup Transactions \cup Indexes \cup Others

-----------------------------------------------------------------------------
(* Faults                                                                   *)

Input(layout, spans, fault) ==
  [ opc |-> layout.opc, spans |-> spans, data |-> layout.data, full |-> layout.spans,
    departure |-> layout.departure, fault |-> fault ]

Whole(layout) == Input(layout, layout.spans, "none")

Cuts(layout) ==
  {Input(layout, SubSeq(layout.spans, 1, k), "cut") : k \in 0 .. Len(layout.spans) - 1}

\* Nothing left of an element, one byte less than all, and the least its
\* decoder takes.
SizesBelow(el) ==
  { s \in {0, el.size - 1}
            \cup (IF el.kind \in Kinds THEN {Max(MustOf(Tests(el.kind, el.v, IsLittle)))} ELSE {}) :
      0 <= s /\ s < el.size }

Shorts(layout) ==
  UNION {{Input(layout, [layout.spans EXCEPT ![k].size = s], "short") :
            s \in SizesBelow(layout.spans[k])} : k \in DOMAIN layout.spans}

\* A LOB block cut before byte 18 may look like the start of a data block.
Alikes(layout) ==
  IF layout.opc = <<19, 1>>
    THEN {[Input(layout, [layout.spans EXCEPT ![1].size = s], "short") EXCEPT !.data = TRUE] :
            s \in 0 .. 18}
    ELSE {}

ValuesBeside(el) ==
  (IF el.kind = "U16s" THEN [DOMAIN el.v -> MCAnyNumber] ELSE MCAnyValue[el.kind]) \ {el.v}

Garbles(layout) ==
  UNION {{Input(layout, [layout.spans EXCEPT ![k].v = v], "garbled") :
            v \in ValuesBeside(layout.spans[k])} : k \in DOMAIN layout.spans}

MCChanges ==
  UNION {{Whole(l)} \cup Cuts(l) \cup Shorts(l) \cup Alikes(l) \cup Garbles(l) : l \in Layouts}

-----------------------------------------------------------------------------
(* Properties                                                               *)

ReadAs(k, kind) == \E j \in DOMAIN got : got[j].at = k /\ got[j].as = kind

\* A change written as the documents have it, but for the departures listed with
\* the layouts, is parsed without an error, and every element of it is read, as
\* the structure it is: no optional element, branch or field that decides sends
\* the cursor past one. Of the departures it says nothing.
IntactRead ==
  change.fault = "none" /\ change.departure = "none" /\ res # "parsing" =>
    /\ res = "ok"
    /\ \A k \in DOMAIN change.spans :
         change.spans[k].size = 0 \/ ReadAs(k, change.spans[k].kind)

\* Elements missing at the end, or one that is too short, never make a parser
\* read one structure as another. The exception is operation 10.8 without its
\* block element, which is what marks a block being split.
DamageNotMisread ==
  /\ change.fault \in {"cut", "short"}
  /\ ~ (change.opc = <<10, 8>> /\ change.full[1].size > 0
          /\ change.spans # << >> /\ change.spans[1].size = 0)
  =>
    \A k \in DOMAIN got : got[k].as \in {"Raw", change.spans[got[k].at].kind}

\* changes.md 6.3.1.1 and 6.3.1.2: the supplemental follows the column data of an
\* insert, overwrite or update in an undo; one whose columns are elements of their
\* own and that is parsed without an error has read it.
SupplementalKept ==
  /\ change.fault = "none" /\ res = "ok" /\ HasRead("columns")
  /\ Field("kdo").type \in {"Irp", "Orp", "Urp"} /\ ~ Field("kdo").kdom2
  =>
    \A k \in DOMAIN change.spans :
      change.spans[k].kind = "Ktusp" => ReadAs(k, "Ktusp")

\* layout_dlb_d.h: the ITL list of a block has as many entries as its header
\* counts, behind the header.
ItlsOfBlock ==
  \A k \in DOMAIN got :
    got[k].as = "DLB_D" => ItlsRead(IsLittle) = [at |-> 24, entries |-> got[k].v.itls]

=============================================================================
