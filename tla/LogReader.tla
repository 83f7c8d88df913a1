----------------------------- MODULE LogReader -----------------------------
(***************************************************************************)
(* What the listing of one log promises (shows of src/main.cpp over        *)
(* RecordSource::getNext of src/records/RecordSource.h): the records that  *)
(* are wanted, each once and in the order they were written, and then the  *)
(* end.                                                                    *)
(***************************************************************************)
EXTENDS Naturals, Sequences

VARIABLES
  written,     \* the records wanted: never changes
  out,         \* the records listed
  ended        \* the listing is over

vars == <<written, out, ended>>

Init == out = << >> /\ ended = FALSE

Read ==
  /\ Len(out) < Len(written)
  /\ out' = Append(out, written[Len(out) + 1])
  /\ UNCHANGED <<written, ended>>

End ==
  /\ Len(out) = Len(written)
  /\ ended' = TRUE
  /\ UNCHANGED <<written, out>>

Next == Read \/ End

Spec == Init /\ [][Next]_vars /\ WF_vars(Next)
=============================================================================
