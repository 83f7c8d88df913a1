----------------------------- MODULE MCWholeLog -----------------------------
(***************************************************************************)
(* Whole logs for the extractor, and logs with one block gone from the     *)
(* file.                                                                   *)
(***************************************************************************)
EXTENDS Extractor, MCRedoLog

Without(s, i) == SubSeq(s, 1, i - 1) \o SubSeq(s, i + 1, Len(s))

MCGapLogs ==
  UNION {{[l EXCEPT !.blocks = Without(@, i)] : i \in 1 .. Len(l.blocks)} :
           l \in {m \in LogsOver({Plain(48, 130), Plain(148, 100)}) :
                    Len(m.blocks) > 1}}
=============================================================================
