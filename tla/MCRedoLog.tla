----------------------------- MODULE MCRedoLog -----------------------------
(***************************************************************************)
(* Every log of up to MaxRecords records of a few kinds: records that fit, *)
(* that fill a block, that span two to four blocks, void ones, log-writer  *)
(* notes, and records up to 1900 SCNs beyond the note (changes.md).        *)
(***************************************************************************)
EXTENDS RedoLog

CONSTANT MaxRecords

MCLowScn == 10
MCNxtScn == 9000
MCLsn == 7
Earlier == 3

Info(len, vld, scn, low, nxt) ==
  [len |-> len, vld |-> vld, scn |-> scn, low |-> low, nxt |-> nxt]
Plain(len, scn) == Info(len, KCR_valid, scn, 0, 0)

Kinds ==
  { Plain(24, 100), Plain(40, 150), Plain(48, 130),
    Info(28, KCR_void, 120, 0, 0),
    Info(72, KCR_valid + KCR_depend, 100, 100, 200),
    Plain(96, 2100), Plain(148, 100) }

\* A flush behind the last record leaves no trace in the log.
WritesOver(kinds) ==
  {Append(w, Written(last, FALSE)) :
     w \in UNION {[1 .. n -> {Written(k, f) : k \in kinds, f \in BOOLEAN}] :
                    n \in 0 .. MaxRecords - 1},
     last \in kinds}

LogsOver(kinds) ==
  {LogOf(f.w, f.blocks, rest, Earlier) :
     f \in {[w |-> w, blocks |-> BlocksOf(w, stale)] :
              w \in WritesOver(kinds), stale \in Stales},
     rest \in {0, 2}}

MCLogs == LogsOver(Kinds)

ASSUME WholeAssumption == \A l \in MCLogs : Whole(l)
=============================================================================
