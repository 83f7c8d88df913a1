---------------------------- MODULE BlockStream ----------------------------
(***************************************************************************)
(* What a block source promises (BlockSource::getNext of                   *)
(* src/blocks/BlockSource.h): the blocks of one log, one after the other,  *)
(* none skipped and none repeated, and then nothing, for ever.             *)
(***************************************************************************)
EXTENDS Naturals

VARIABLES
  size,              \* the number of blocks of the log: never changes
  n,                 \* blocks handed out so far: the next one is n + 1
  ended              \* getNext has answered nullopt

vars == <<size, n, ended>>

Init == size \in Nat /\ n = 0 /\ ended = FALSE

Give == ~ ended /\ n < size /\ n' = n + 1 /\ UNCHANGED <<size, ended>>

End == n = size /\ ended' = TRUE /\ UNCHANGED <<size, n>>

Next == Give \/ End

Spec == Init /\ [][Next]_vars /\ WF_vars(Next)
=============================================================================
