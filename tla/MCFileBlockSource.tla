------------------------- MODULE MCFileBlockSource -------------------------
(***************************************************************************)
(* Log files for FileBlockSource: every pattern of own and foreign blocks  *)
(* up to a length, with or without a partial block at the end. The blocks  *)
(* hold no records.                                                        *)
(***************************************************************************)
EXTENDS FileBlockSource

CONSTANT MaxBlocks

MCLsn == 7
Foreign == 3

EmptyBlock(seqNo, i) ==
  [lsn |-> seqNo, no |-> i + 1, offset |-> 0, heads |-> << >>, bounds |-> << >>]

LogFile(pattern, tail) ==
  [blocks |-> [i \in 1 .. Len(pattern) |-> EmptyBlock(pattern[i], i)],
   tail |-> tail]

Patterns == UNION {[1 .. n -> {MCLsn, Foreign}] : n \in 0 .. MaxBlocks}

MCAnyLogs == {LogFile(p, tail) : p \in Patterns, tail \in BOOLEAN}
=============================================================================
