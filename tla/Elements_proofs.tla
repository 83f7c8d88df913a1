-------------------------- MODULE Elements_proofs --------------------------
(***************************************************************************)
(* The size tests of the decoders cover what is read behind them, for      *)
(* every size of the element and every count in it.                        *)
(***************************************************************************)
EXTENDS Elements, SequenceTheorems, TLAPS

Test == [need : Int, end : Int, must : BOOLEAN]

\* Every test asks for at least what is read behind it.
Covered(tests) ==
  /\ tests \in Seq(Test)
  /\ \A k \in 1 .. Len(tests) : tests[k].end <= tests[k].need

\* Must and May yield covered tests when they ask for enough.
LEMMA MustCovered ==
  ASSUME NEW need \in Int, NEW end \in Int, end <= need
  PROVE  Covered(Must(need, end)) /\ Covered(May(need, end))
BY DEF Covered, Must, May, Test

LEMMA EmptyCovered == Covered(<< >>)
BY DEF Covered

LEMMA WhenCovered ==
  ASSUME NEW cond, NEW t, Covered(t)
  PROVE  Covered(When(cond, t))
BY EmptyCovered DEF When

\* Tests one after the other are covered if each part is.
LEMMA ConcatCovered ==
  ASSUME NEW s, NEW t, Covered(s), Covered(t)
  PROVE  Covered(s \o t)
  <1>1. s \o t \in Seq(Test) /\ Len(s \o t) = Len(s) + Len(t)
    BY ConcatProperties DEF Covered
  <1>2. ASSUME NEW k \in 1 .. Len(s \o t)
        PROVE  (s \o t)[k].end <= (s \o t)[k].need
    <2>1. CASE k <= Len(s)
      BY <1>1, <2>1, (s \o t)[k] = s[k], ConcatProperties DEF Covered
    <2>2. CASE k > Len(s)
      <3>1. (s \o t)[k] = t[k - Len(s)]
        BY <1>1, <2>2, ConcatProperties DEF Covered
      <3>2. k - Len(s) \in 1 .. Len(t)
        BY <1>1, <2>2 DEF Covered
      <3> QED  BY <3>1, <3>2 DEF Covered
    <2> QED  BY <1>1, <2>1, <2>2 DEF Covered
  <1> QED  BY <1>1, <1>2 DEF Covered

\* What is read behind covered tests lies inside the element.
LEMMA CoveredInside ==
  ASSUME NEW t, Covered(t), NEW size \in Int
  PROVE  Inside(t, size)
  <1> SUFFICES ASSUME NEW k \in 1 .. Len(t), Passes(t, size, k)
               PROVE  t[k].end <= size
    BY DEF Inside
  <1>1. t[k] \in Test /\ t[k].end <= t[k].need
    BY DEF Covered
  <1> QED  BY <1>1 DEF Passes, Test

-----------------------------------------------------------------------------
(* The decoders, one after the other                                        *)

LEMMA PlainCovered == \A as \in DOMAIN Plain : Covered(Plain[as])
  <1>1. /\ Covered(Ktudb) /\ Covered(Ktudh) /\ Covered(Kteop) /\ Covered(PdbInfo)
        /\ Covered(Ktucm) /\ Covered(Ktucf) /\ Covered(Ktuxvoff) /\ Covered(Ktubrb)
        /\ Covered(Ktust) /\ Covered(Status) /\ Covered(Ktudx) /\ Covered(Ktrth)
    BY MustCovered
       DEF Ktudb, Ktudh, Kteop, PdbInfo, Ktucm, Ktucf, Ktuxvoff, Ktubrb, Ktust,
           Status, Ktudx, Ktrth
  <1>2. /\ Covered(Ktmrm) /\ Covered(Ktptx) /\ Covered(Kttxs) /\ Covered(Ktdlr)
        /\ Covered(Scn8) /\ Covered(Objd) /\ Covered(Session)
        /\ Covered(Kdxln) /\ Covered(Kdxlnext) /\ Covered(Kdxlup)
        /\ Covered(KdliHead) /\ Covered(DLB_L)
    BY MustCovered
       DEF Ktmrm, Ktptx, Kttxs, Ktdlr, Scn8, Objd, Session, Kdxln, Kdxlnext,
           Kdxlup, KdliHead, DLB_L
  <1>3. /\ Covered(KrvDDLh) /\ Covered(AuditFlags)
        /\ Covered(Ktusp) /\ Covered(Ktubu)
    BY MustCovered, ConcatCovered DEF KrvDDLh, AuditFlags, Ktusp, Ktubu
  <1>4. ASSUME NEW as \in DOMAIN Plain
        PROVE  Covered(Plain[as])
    <2>1. as \in {"Session", "AuditFlags", "Scn8", "Status", "Objd",
                   "Ktudb", "Ktubu", "Ktusp", "Ktudh", "Kteop", "PdbInfo",
                   "Ktucm", "Ktucf", "Ktuxvoff", "Ktubrb", "Ktust", "Ktudx",
                   "Ktrth", "KrvDDLh", "Ktmrm", "Ktptx", "Kttxs", "Ktdlr",
                   "Kdxln", "Kdxlnext", "Kdxlup", "KdliHead", "DLB_L"}
      BY DEF Plain
    <2>2. /\ Plain["Session"] = Session /\ Plain["AuditFlags"] = AuditFlags
          /\ Plain["Scn8"] = Scn8 /\ Plain["Status"] = Status
          /\ Plain["Objd"] = Objd /\ Plain["Ktudb"] = Ktudb
          /\ Plain["Ktubu"] = Ktubu /\ Plain["Ktusp"] = Ktusp
          /\ Plain["Ktudh"] = Ktudh /\ Plain["Kteop"] = Kteop
          /\ Plain["PdbInfo"] = PdbInfo /\ Plain["Ktucm"] = Ktucm
          /\ Plain["Ktucf"] = Ktucf /\ Plain["Ktuxvoff"] = Ktuxvoff
          /\ Plain["Ktubrb"] = Ktubrb /\ Plain["Ktust"] = Ktust
          /\ Plain["Ktudx"] = Ktudx /\ Plain["Ktrth"] = Ktrth
          /\ Plain["KrvDDLh"] = KrvDDLh /\ Plain["Ktmrm"] = Ktmrm
          /\ Plain["Ktptx"] = Ktptx /\ Plain["Kttxs"] = Kttxs
          /\ Plain["Ktdlr"] = Ktdlr /\ Plain["Kdxln"] = Kdxln
          /\ Plain["Kdxlnext"] = Kdxlnext /\ Plain["Kdxlup"] = Kdxlup
          /\ Plain["KdliHead"] = KdliHead /\ Plain["DLB_L"] = DLB_L
      BY DEF Plain
    <2> QED  BY <1>1, <1>2, <1>3, <2>1, <2>2, Zenon
  <1> QED  BY <1>4

LEMMA KtbCovered ==
  ASSUME NEW v, v.itc \in Int, v.cnt \in Nat
  PROVE  Covered(KtbVector(v))
  <1> DEFINE sp == IF v.long THEN 8 ELSE 4
  <1>0. sp \in Int  OBVIOUS
  <1> HIDE DEF sp
  <1>1. Covered(Ktb_OpC(sp)) /\ Covered(Ktb_OpL(sp)) /\ Covered(Ktb_OpF(sp))
    BY <1>0, MustCovered DEF Ktb_OpC, Ktb_OpL, Ktb_OpF
  <1>2. Covered(Ktb_OpR(sp, v.itc))
    <2>1. sp + 12 + ItlEntry * Positive(v.itc) \in Int
      BY <1>0 DEF ItlEntry, Positive
    <2>2. Covered(Must(sp + 4, sp + 4))
      BY <1>0, MustCovered
    <2> QED  BY <2>1, <2>2, MustCovered, ConcatCovered DEF Ktb_OpR
  <1>3. Covered(Cleanout(sp + 36, v.cnt))
    <2>1. sp + 36 + 12 \in Int /\ sp + 36 + 12 + 8 * v.cnt \in Int
      BY <1>0
    <2> QED  BY <2>1, MustCovered, ConcatCovered DEF Cleanout
  <1> DEFINE body == CASE v.op = "C" -> Ktb_OpC(sp)
                       [] v.op = "L" -> Ktb_OpL(sp)
                       [] v.op = "R" -> Ktb_OpR(sp, v.itc)
                       [] v.op = "F" -> Ktb_OpF(sp)
                       [] OTHER -> << >>
  <1>4. Covered(body)
    BY <1>1, <1>2, EmptyCovered
  <1>5. Covered(Must(8, 2))  BY MustCovered
  <1>6. Covered(When(v.cleanout, Cleanout(sp + 36, v.cnt)))
    BY <1>3, WhenCovered
  <1> HIDE DEF body
  <1>7. Covered(Must(8, 2) \o body \o When(v.cleanout, Cleanout(sp + 36, v.cnt)))
    BY <1>4, <1>5, <1>6, ConcatCovered
  <1> QED  BY <1>7 DEF KtbVector, body, sp

LEMMA KdxCovered ==
  ASSUME NEW v, v.keys \in Nat
  PROVE  Covered(Kdxle(v)) /\ Covered(Kdxlk(v))
  <1>1. Covered(Must(6, 6)) /\ Covered(May(10, 10))
        /\ Covered(May(12 + 2 * v.keys, 12 + 2 * v.keys))
    BY MustCovered
  <1>2. Covered(Must(20, 16)) /\ Covered(May(24, 22))
        /\ Covered(May(24 + 2 * v.keys, 24 + 2 * v.keys))
    BY MustCovered
  <1> QED  BY <1>1, <1>2, ConcatCovered, WhenCovered DEF Kdxle, Kdxlk

\* A LOB map is covered as long as its size fits 32 bits.
LEMMA KdliCovered ==
  ASSUME NEW v, v.n \in Nat,
         v.code \in {"Lmap", "Imap", "Lmapx", "Almap"} => MapSize(v) < UINT32
  PROVE  Covered(KdliElem(v))
  <1>1. ASSUME v.code \in {"Lmap", "Imap", "Lmapx", "Almap"}
        PROVE  Covered(KdliMap(v))
    <2>1. MapHead(v) \in Nat /\ MapSize(v) \in Nat
      BY DEF MapHead, MapSize
    <2>2. MapSize(v) % UINT32 = MapSize(v)
      BY <1>1, <2>1, UINT32Assumption
    <2> QED  BY <2>1, <2>2, MustCovered, ConcatCovered DEF KdliMap
  <1>2. Covered(Must(8, 8) \o May(8 + v.n, 8 + v.n))
    BY MustCovered, ConcatCovered
  <1>3. /\ Covered(Must(17, 17)) /\ Covered(Must(56, 54)) /\ Covered(Must(6, 6))
        /\ Covered(Must(24, 24)) /\ Covered(Must(28, 28)) /\ Covered(Must(112, 80))
        /\ Covered(Must(40, 40)) /\ Covered(Must(1, 1))
    BY MustCovered
  <1> DEFINE body == CASE v.code = "Info" -> Must(17, 17)
                       [] v.code = "LoadData" -> Must(56, 54)
                       [] v.code = "Zero" -> Must(6, 6)
                       [] v.code = "Fill" -> Must(8, 8) \o May(8 + v.n, 8 + v.n)
                       [] v.code \in {"Lmap", "Imap", "Lmapx", "Almap"} -> KdliMap(v)
                       [] v.code = "Suplog" -> Must(24, 24)
                       [] v.code = "Fpload" -> Must(28, 28)
                       [] v.code = "LoadLhb" -> Must(112, 80)
                       [] v.code = "LoadItree" -> Must(40, 40)
                       [] OTHER -> << >>
  <1>4. Covered(body)
    BY <1>1, <1>2, <1>3, EmptyCovered
  <1> HIDE DEF body
  <1>5. Covered(Must(1, 1) \o body)
    BY <1>3, <1>4, ConcatCovered
  <1> QED  BY <1>5 DEF KdliElem, body

LEMMA DLBCovered ==
  ASSUME NEW v, NEW isLittle, Typed("DLB_D", v)
  PROVE  Covered(DLB_D(v, isLittle))
  <1>1. /\ v.itls \in Nat /\ v.fcls \in Nat /\ v.perm \in Nat
        /\ v.tdrs \in Nat /\ v.rows \in Nat
    BY DEF Typed
  <1> DEFINE itls == ItlsRead(isLittle)
             endOfItls == itls.at + ItlEntry * itls.entries
  <1>2. /\ endOfItls \in Int /\ DataAt(v) \in Int /\ RowDirAt(v) \in Int
        /\ RowDirAt(v) + 2 * v.rows \in Int
    BY <1>1 DEF ItlsRead, ItlEntry, DataAt, RowDirAt
  <1> HIDE DEF itls, endOfItls
  <1>3. /\ Covered(Ktb_txh) /\ Covered(Must(endOfItls, endOfItls))
        /\ Covered(Ktb_tdr(RowDirAt(v))) /\ Covered(Ktb_rdr(RowDirAt(v), v))
    BY <1>2, MustCovered DEF Ktb_txh, Ktb_tdr, Ktb_rdr
  <1>4. Covered(Ktb_bdh(DataAt(v)))
    <2>1. DataAt(v) + 14 \in Int  BY <1>2
    <2> QED  BY <2>1, MustCovered DEF Ktb_bdh
  <1>5. Covered(When(v.compressed, Kdc9iData(DataAt(v) + 14, v)))
    <2> DEFINE head == DataAt(v) + 14 + 22
               end == DataAt(v) + 14 + 22 + 2 * v.fcls + v.perm
    <2>1. head \in Int /\ end \in Int  BY <1>1, <1>2
    <2> HIDE DEF head, end
    <2>2. Covered(Must(head, head) \o Must(end, end))
      BY <2>1, MustCovered, ConcatCovered
    <2>3. Kdc9iData(DataAt(v) + 14, v) = Must(head, head) \o Must(end, end)
      BY DEF Kdc9iData, head, end
    <2> QED  BY <2>2, <2>3, WhenCovered
  <1>6. Covered(Ktb_txh \o Must(endOfItls, endOfItls) \o Ktb_bdh(DataAt(v))
                  \o When(v.compressed, Kdc9iData(DataAt(v) + 14, v))
                  \o Ktb_tdr(RowDirAt(v)) \o Ktb_rdr(RowDirAt(v), v))
    BY <1>3, <1>4, <1>5, ConcatCovered
  <1> QED  BY <1>6 DEF DLB_D, itls, endOfItls

LEMMA NullsCovered ==
  ASSUME NEW at \in Nat, NEW n \in Nat
  PROVE  Covered(Nulls(at, n))
  <1>1. at + (n + 7) \div 8 \in Int
    OBVIOUS
  <1> QED  BY <1>1, MustCovered DEF Nulls

LEMMA KdoCovered ==
  ASSUME NEW v, v.n \in Nat, v.type \notin {"Skl", "Cki"}
  PROVE  Covered(KdoVector(v))
  <1>1. Covered(KdoIrpBody(v.n)) /\ Covered(KdoOrpBody(v.n))
    BY MustCovered, NullsCovered, ConcatCovered DEF KdoIrpBody, KdoOrpBody
  <1>2. Covered(KdoUrpBody(v.n))
    BY MustCovered, NullsCovered, ConcatCovered DEF KdoUrpBody
  <1>3. Covered(KdoQmBody(v.n))
    <2>1. Covered(Must(16 + 8, 16 + 3)) /\ Covered(Must(16 + 4 + 2 * v.n, 16 + 4 + 2 * v.n))
      BY MustCovered
    <2> QED  BY <2>1, ConcatCovered DEF KdoQmBody
  <1>4. /\ Covered(KdoDrpBody) /\ Covered(KdoLkrBody) /\ Covered(KdoMfcBody)
        /\ Covered(KdoDscBody) /\ Covered(KdoCfaBody) /\ Covered(KdoHead)
    BY MustCovered DEF KdoDrpBody, KdoLkrBody, KdoMfcBody, KdoDscBody, KdoCfaBody, KdoHead
  <1> DEFINE body == CASE v.type = "Irp" -> KdoIrpBody(v.n)
                       [] v.type = "Orp" -> KdoOrpBody(v.n)
                       [] v.type = "Urp" -> KdoUrpBody(v.n)
                       [] v.type \in {"Qmi", "Qmd"} -> KdoQmBody(v.n)
                       [] v.type = "Drp" -> KdoDrpBody
                       [] v.type = "Lkr" -> KdoLkrBody
                       [] v.type = "Mfc" -> KdoMfcBody
                       [] v.type = "Dsc" -> KdoDscBody
                       [] v.type = "Cfa" -> KdoCfaBody
                       [] v.type = "Skl" -> KdoSklBody
                       [] v.type = "Cki" -> KdoCkiBody
                       [] OTHER -> << >>
  <1>5. Covered(body)
    BY <1>1, <1>2, <1>3, <1>4, EmptyCovered
  <1> HIDE DEF body
  <1>6. Covered(KdoHead \o body)
    BY <1>4, <1>5, ConcatCovered
  <1> QED  BY <1>6 DEF KdoVector, body

\* The slots of two row operations are read when the element is longer than the
\* 30 bytes it is tested for.
LEMMA SlotInside ==
  ASSUME NEW v, v.type \in {"Skl", "Cki"}, NEW size \in Int, size # 30
  PROVE  Inside(KdoVector(v), size)
  <1> DEFINE head == Must(16, 14)
             slot == Must(30, 31)
  <1>1. KdoVector(v) = head \o slot
    BY DEF KdoVector, KdoHead, KdoSklBody, KdoCkiBody
  <1>2. head \in Seq(Test) /\ slot \in Seq(Test) /\ Len(head) = 1 /\ Len(slot) = 1
    BY DEF Must, Test
  <1>3. head[1].end = 14 /\ head[1].need = 16 /\ slot[1].end = 31 /\ slot[1].need = 30
    BY DEF Must
  <1> HIDE DEF head, slot
  <1>4. Len(head \o slot) = 2 /\ (head \o slot)[1] = head[1] /\ (head \o slot)[2] = slot[1]
    <2>1. /\ Len(head \o slot) = Len(head) + Len(slot)
          /\ \A i \in 1 .. Len(head) + Len(slot) :
               (head \o slot)[i] = IF i <= Len(head) THEN head[i] ELSE slot[i - Len(head)]
      BY <1>2, ConcatProperties, Zenon
    <2> QED  BY <1>2, <2>1
  <1>5. ASSUME NEW k \in 1 .. Len(head \o slot), Passes(head \o slot, size, k)
        PROVE  (head \o slot)[k].end <= size
    BY <1>3, <1>4, <1>5 DEF Passes
  <1> QED  BY <1>1, <1>5 DEF Inside

\* Whatever an element is decoded as, whatever size it has and whatever counts it
\* announces, the decoder reads no byte outside it: the size tests in
\* src/elements and src/change cover the reads behind them. The exceptions are
\* the two slots read behind their test and the LOB maps whose size wraps.
THEOREM DecodersInside ==
  ASSUME NEW as, NEW v, NEW isLittle, NEW size \in Nat, Typed(as, v)
  PROVE  Inside(Tests(as, v, isLittle), size) \/ Overreads(as, v, size)
  <1> DEFINE tests == Tests(as, v, isLittle)
  <1>0. ASSUME Covered(tests) PROVE Inside(tests, size)
    <2>1. size \in Int  OBVIOUS
    <2> HIDE DEF tests
    <2> QED  BY <1>0, <2>1, CoveredInside
  <1>1. ASSUME as \in DOMAIN Plain PROVE Covered(tests)
    <2>0. as \notin {"Ktubl"} \cup Steered  BY <1>1 DEF Plain, Steered
    <2>1. tests = Plain[as]  BY <1>1, <2>0 DEF Tests, Steered
    <2> HIDE DEF tests
    <2> QED  BY <1>1, <2>1, PlainCovered
  <1>2. ASSUME as = "Ktubl" PROVE Covered(tests)
    <2>1. Covered(Ktubu)  BY MustCovered, ConcatCovered DEF Ktubu
    <2>2. Covered(When(v.begin, May(76, 76)))  BY MustCovered, WhenCovered
    <2>3. Covered(Ktubl(v))  BY <2>1, <2>2, ConcatCovered DEF Ktubl
    <2>4. as \notin DOMAIN Plain  BY <1>2 DEF Plain
    <2>5. tests = Ktubl(v)  BY <1>2, <2>4 DEF Tests
    <2> HIDE DEF tests
    <2> QED  BY <2>3, <2>5
  <1>3. ASSUME as \in Steered, ~ Overreads(as, v, size) PROVE Inside(tests, size)
    <2>0. as \notin DOMAIN Plain  BY <1>3 DEF Plain, Steered
    <2>1. CASE as = "KtbVector"
      <3>1. tests = KtbVector(v)  BY <2>0, <2>1 DEF Tests
      <3>2. v.itc \in Int /\ v.cnt \in Nat  BY <2>1 DEF Typed
      <3> HIDE DEF tests
      <3> QED  BY <1>0, <3>1, <3>2, KtbCovered
    <2>2. CASE as \in {"Kdxle", "Kdxlk"}
      <3>1. tests \in {Kdxle(v), Kdxlk(v)}  BY <2>0, <2>2 DEF Tests
      <3>2. v.keys \in Nat  BY <2>2 DEF Typed
      <3> HIDE DEF tests
      <3> QED  BY <1>0, <3>1, <3>2, KdxCovered
    <2>3. CASE as = "KdliElem"
      <3>1. tests = KdliElem(v)  BY <2>0, <2>3 DEF Tests
      <3>2. v.n \in Nat  BY <2>3 DEF Typed
      <3>3. MapSize(v) \in Nat  BY <3>2 DEF MapSize, MapHead
      <3>4. v.code \in {"Lmap", "Imap", "Lmapx", "Almap"} => MapSize(v) < UINT32
        BY <1>3, <2>3, <3>3, UINT32Assumption DEF Overreads
      <3> HIDE DEF tests
      <3> QED  BY <1>0, <3>1, <3>2, <3>4, KdliCovered
    <2>4. CASE as = "KdoVector"
      <3>1. tests = KdoVector(v)  BY <2>0, <2>4 DEF Tests
      <3>2. v.n \in Nat  BY <2>4 DEF Typed
      <3>3. v.type \in {"Skl", "Cki"} => size # 30
        BY <1>3, <2>4 DEF Overreads
      <3> HIDE DEF tests
      <3>4. CASE v.type \notin {"Skl", "Cki"}
        BY <1>0, <3>1, <3>2, <3>4, KdoCovered
      <3>5. CASE v.type \in {"Skl", "Cki"}
        BY <3>1, <3>3, <3>5, SlotInside
      <3> QED  BY <3>4, <3>5
    <2>5. CASE as = "DLB_D"
      <3>1. tests = DLB_D(v, isLittle)  BY <2>0, <2>5 DEF Tests
      <3> HIDE DEF tests
      <3> QED  BY <1>0, <2>5, <3>1, DLBCovered
    <2> QED  BY <1>3, <2>1, <2>2, <2>3, <2>4, <2>5 DEF Steered
  <1>4. ASSUME as \notin DOMAIN Plain \cup {"Ktubl"} \cup Steered PROVE Covered(tests)
    <2>1. tests = << >>
      BY <1>4 DEF Tests, Steered
    <2> HIDE DEF tests
    <2> QED  BY <2>1, EmptyCovered
  <1> HIDE DEF tests
  <1>5. Inside(tests, size) \/ Overreads(as, v, size)
    BY <1>0, <1>1, <1>2, <1>3, <1>4
  <1> QED  BY <1>5 DEF tests

=============================================================================
