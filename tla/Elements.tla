------------------------------ MODULE Elements ------------------------------
(***************************************************************************)
(* The decoders of the elements of a change (src/elements and the structs  *)
(* of src/change). A decoder tests the size of the element, reads fields,  *)
(* and for what is counted or flagged inside tests and reads again. It is  *)
(* given here as the sequence of these tests: how many bytes each one asks *)
(* for, where the last byte read behind it ends, and whether the decoder   *)
(* refuses the element when the test fails or only leaves fields out.      *)
(* Field values are kept where a test or a parser depends on them.         *)
(***************************************************************************)
EXTENDS Integers, Sequences

CONSTANT
  UINT32        \* 2^32: the counts of the LOB maps are 32-bit numbers

ASSUME UINT32Assumption == UINT32 \in Nat \ {0}

Must(need, end) == <<[need |-> need, end |-> end, must |-> TRUE]>>
May(need, end) == <<[need |-> need, end |-> end, must |-> FALSE]>>
When(cond, tests) == IF cond THEN tests ELSE << >>

\* The decoder takes an element of this size.
Accepts(tests, size) ==
  \A k \in 1 .. Len(tests) : tests[k].must => tests[k].need <= size

\* The k-th test is made and passed, so the reads behind it happen.
Passes(tests, size, k) ==
  /\ \A j \in 1 .. k - 1 : tests[j].must => tests[j].need <= size
  /\ tests[k].need <= size

\* Every byte read belongs to the element.
Inside(tests, size) ==
  \A k \in 1 .. Len(tests) : Passes(tests, size, k) => tests[k].end <= size

-----------------------------------------------------------------------------
(* Transactions and undo                                                    *)

Ktudb == Must(20, 19)
Ktudh == Must(32, 32)
Kteop == Must(36, 28)
PdbInfo == Must(4, 4)
Ktucm == Must(20, 17)
Ktucf == Must(16, 13)
Ktuxvoff == Must(8, 6)
Ktubrb == Must(8, 8)
Ktust == Must(24, 21)
Status == Must(4, 4)
Ktudx == Must(24, 21)
Ktrth == Must(16, 16)
KrvDDLh == Must(18, 18) \o May(20, 20) \o May(22, 22)
Ktmrm == Must(16, 14)
Ktptx == Must(28, 24)
Kttxs == Must(4, 3)
Ktdlr == Must(16, 16)
Scn8 == Must(8, 8)
Objd == Must(32, 28)

\* The session number of later versions would be four bytes further on, but the
\* cursor is never told the version and over19 is false.
Session == May(4, 4)
AuditFlags == May(2, 2) \o May(6, 6)

Ktusp == Must(20, 20) \o May(26, 26)

\* Ktubu::decode without and with the hint that the block may begin a
\* transaction.
Ktubu == Must(24, 24) \o May(28, 28)
Ktubl(v) == Ktubu \o When(v.begin, May(76, 76))

-----------------------------------------------------------------------------
(* The transaction layer (KTB)                                              *)

ItlEntry == 24
Positive(n) == IF n > 0 THEN n ELSE 0

Ktb_OpC(sp) == Must(sp + 8, sp + 7)
Ktb_OpL(sp) == Must(sp + 24, sp + 24)
Ktb_OpF(sp) == Must(sp + 16, sp + 15)
Ktb_OpR(sp, itc) ==
  LET all == sp + 12 + ItlEntry * Positive(itc)
  IN Must(sp + 4, sp + 4) \o Must(all, all)

Cleanout(offset, cnt) ==
  LET all == offset + 12 + 8 * cnt
  IN Must(offset + 12, offset + 12) \o Must(all, all)

\* v: the operation and its ITL count, whether the head is the long one, and
\* the count of the cleanout, none if the block is not cleaned out.
KtbVector(v) ==
  LET sp == IF v.long THEN 8 ELSE 4 IN
    Must(8, 2)
      \o (CASE v.op = "C" -> Ktb_OpC(sp)
            [] v.op = "L" -> Ktb_OpL(sp)
            [] v.op = "R" -> Ktb_OpR(sp, v.itc)
            [] v.op = "F" -> Ktb_OpF(sp)
            [] OTHER -> << >>)
      \o When(v.cleanout, Cleanout(sp + 36, v.cnt))

-----------------------------------------------------------------------------
(* Index leaf rows (KDX)                                                    *)

Kdxln == Must(16, 16)
Kdxlnext == Must(4, 4)
Kdxlup == Must(6, 6)

\* v.keys is the count of an array insert. An element shorter than 10 bytes
\* leaves the count at 0, so that its second test asks for 12 bytes.
Kdxle(v) ==
  Must(6, 6)
    \o When(v.array, May(10, 10) \o May(12 + 2 * v.keys, 12 + 2 * v.keys))

\* Mutant: a key size is taken for one byte.
KdxlkBytes(v) == Must(20, 16) \o May(24, 22) \o May(24 + v.keys, 24 + 2 * v.keys)

\* Without the key sizes the key is taken as it is.
Kdxlk(v) == Must(20, 16) \o May(24, 22) \o May(24 + 2 * v.keys, 24 + 2 * v.keys)

-----------------------------------------------------------------------------
(* LOB elements (KDLI)                                                      *)

KdliHead == Must(12, 12)

\* v.code is the first byte, v.n the count of a map or the length of a fill.
MapHead(v) == IF v.code = "Almap" THEN 12 ELSE 8
MapSize(v) == MapHead(v) + (IF v.code = "Lmapx" THEN 16 ELSE 8) * v.n

\* The maps test their size as a 32-bit number and then read all the entries.
KdliMap(v) ==
  Must(MapHead(v), MapHead(v)) \o Must(MapSize(v) % UINT32, MapSize(v))

KdliElem(v) ==
  Must(1, 1)
    \o (CASE v.code = "Info" -> Must(17, 17)
          [] v.code = "LoadData" -> Must(56, 54)
          [] v.code = "Zero" -> Must(6, 6)
          [] v.code = "Fill" -> Must(8, 8) \o May(8 + v.n, 8 + v.n)
          [] v.code \in {"Lmap", "Imap", "Lmapx", "Almap"} -> KdliMap(v)
          [] v.code = "Suplog" -> Must(24, 24)
          [] v.code = "Fpload" -> Must(28, 28)
          [] v.code = "LoadLhb" -> Must(112, 80)
          [] v.code = "LoadItree" -> Must(40, 40)
          [] OTHER -> << >>)

-----------------------------------------------------------------------------
(* Directly loaded blocks (DLB)                                             *)

DLB_L == Must(36, 32)

\* The call passes the ITL count where decode_ktb_itlEntry24s takes the
\* endianness and the endianness where it takes the offset: 24 entries are read
\* from byte 0 or 1, whatever the count is.
ItlsRead(isLittle) == [at |-> IF isLittle THEN 1 ELSE 0, entries |-> 24]

\* Where the data header and the row directory of a block stand; v: the counts
\* of its headers.
DataAt(v) == 24 + ItlEntry * v.itls + (IF v.bitmap THEN 8 ELSE 0)
RowDirAt(v) ==
  DataAt(v) + 14 + (IF v.compressed THEN 22 + 2 * v.fcls + v.perm ELSE 0) + 4 * v.tdrs

Ktb_txh == Must(24, 24)
Ktb_bdh(at) == Must(at + 14, at + 14)
Kdc9iData(at, v) ==
  Must(at + 22, at + 22) \o Must(at + 22 + 2 * v.fcls + v.perm, at + 22 + 2 * v.fcls + v.perm)
Ktb_tdr(end) == Must(end, end)
Ktb_rdr(at, v) == Must(at + 2 * v.rows, at + 2 * v.rows)

\* Rows that do not fit are left empty and never refuse the block (DataBlock).
DLB_D(v, isLittle) ==
  LET itls == ItlsRead(isLittle)
      endOfItls == itls.at + ItlEntry * itls.entries
  IN Ktb_txh
       \o Must(endOfItls, endOfItls)
       \o Ktb_bdh(DataAt(v))
       \o When(v.compressed, Kdc9iData(DataAt(v) + 14, v))
       \o Ktb_tdr(RowDirAt(v))
       \o Ktb_rdr(RowDirAt(v), v)

-----------------------------------------------------------------------------
(* Row changes (KDO): a head of 16 bytes and a body by the type of the row  *)
(* operation                                                                *)

KdoHead == Must(16, 14)

Nulls(at, columns) == LET end == at + (columns + 7) \div 8 IN May(end, end)

KdoIrpBody(cc) == Must(16 + 32, 16 + 29) \o Nulls(16 + 29, cc)
KdoOrpBody(cc) == Must(16 + 32, 16 + 29) \o Nulls(16 + 29, cc)
KdoUrpBody(ncol) == Must(16 + 10, 16 + 10) \o Nulls(16 + 10, ncol)
KdoQmBody(nrow) == Must(16 + 8, 16 + 3) \o Must(16 + 4 + 2 * nrow, 16 + 4 + 2 * nrow)
KdoDrpBody == Must(16 + 4, 16 + 4)
KdoLkrBody == Must(16 + 4, 16 + 4)
KdoMfcBody == Must(16 + 4, 16 + 4)
KdoDscBody == Must(16 + 4, 16 + 4)
KdoCfaBody == Must(16 + 16, 16 + 13)

\* Both check 14 bytes and read the slot from the fifteenth.
KdoSklBody == Must(16 + 14, 16 + 15)
KdoCkiBody == Must(16 + 14, 16 + 15)

\* v.type is get_kdoType of the operation byte, v.n the count the body carries.
KdoVector(v) ==
  KdoHead
    \o (CASE v.type = "Irp" -> KdoIrpBody(v.n)
          [] v.type = "Orp" -> KdoOrpBody(v.n)
          [] v.type = "Urp" -> KdoUrpBody(v.n)
          [] v.type \in {"Qmi", "Qmd"} -> KdoQmBody(v.n)
          [] v.type = "Drp" -> KdoDrpBody
          [] v.type = "Lkr" -> KdoLkrBody
          [] v.type = "Mfc" -> KdoMfcBody
          [] v.type = "Dsc" -> KdoDscBody
          [] v.type = "Cfa" -> KdoCfaBody
          [] v.type = "Skl" -> KdoSklBody
          [] v.type = "Cki" -> KdoCkiBody
          [] OTHER -> << >>)

-----------------------------------------------------------------------------
(* Every decoder by the name of its structure; an element that is taken raw  *)
(* is copied as it is                                                       *)

Plain ==
  [ Session |-> Session, AuditFlags |-> AuditFlags,
    Scn8 |-> Scn8, Status |-> Status, Objd |-> Objd,
    Ktudb |-> Ktudb, Ktubu |-> Ktubu, Ktusp |-> Ktusp,
    Ktudh |-> Ktudh, Kteop |-> Kteop, PdbInfo |-> PdbInfo,
    Ktucm |-> Ktucm, Ktucf |-> Ktucf, Ktuxvoff |-> Ktuxvoff,
    Ktubrb |-> Ktubrb, Ktust |-> Ktust, Ktudx |-> Ktudx,
    Ktrth |-> Ktrth, KrvDDLh |-> KrvDDLh, Ktmrm |-> Ktmrm,
    Ktptx |-> Ktptx, Kttxs |-> Kttxs, Ktdlr |-> Ktdlr,
    Kdxln |-> Kdxln, Kdxlnext |-> Kdxlnext, Kdxlup |-> Kdxlup,
    KdliHead |-> KdliHead, DLB_L |-> DLB_L ]

Tests(as, v, isLittle) ==
  CASE as \in DOMAIN Plain -> Plain[as]
    [] as = "Ktubl" -> Ktubl(v)
    [] as = "KtbVector" -> KtbVector(v)
    [] as = "Kdxle" -> Kdxle(v)
    [] as = "Kdxlk" -> Kdxlk(v)
    [] as = "KdliElem" -> KdliElem(v)
    [] as = "KdoVector" -> KdoVector(v)
    [] as = "DLB_D" -> DLB_D(v, isLittle)
    [] OTHER -> << >>

\* The counts that steer a decoder are numbers: 8 to 32 bits wide in the code,
\* the ITL count of a KTB signed.
Steered == {"KtbVector", "Kdxle", "Kdxlk", "KdliElem", "KdoVector", "DLB_D"}
Typed(as, v) ==
  CASE as = "KtbVector" -> v.itc \in Int /\ v.cnt \in Nat
    [] as \in {"Kdxle", "Kdxlk"} -> v.keys \in Nat
    [] as = "KdliElem" -> v.n \in Nat
    [] as = "KdoVector" -> v.n \in Nat /\ v.nnew \in Nat
    [] as = "DLB_D" ->
         /\ v.itls \in Nat /\ v.fcls \in Nat /\ v.perm \in Nat
         /\ v.tdrs \in Nat /\ v.rows \in Nat
    [] OTHER -> TRUE

\* The two slots that are read one byte behind the tested size, and the LOB maps
\* whose size wraps.
Overreads(as, v, size) ==
  \/ as = "KdoVector" /\ v.type \in {"Skl", "Cki"} /\ size = 30
  \/ as = "KdliElem" /\ v.code \in {"Lmap", "Imap", "Lmapx", "Almap"} /\ MapSize(v) >= UINT32

=============================================================================
