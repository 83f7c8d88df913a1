----------------------------- MODULE MCChanges -----------------------------
(***************************************************************************)
(* Payloads for Changes: up to two changes with length vectors of every    *)
(* shape over a few lengths, at the end of the payload or before it, and   *)
(* long runs of changes without elements, around the limit of 257.         *)
(***************************************************************************)
EXTENDS Changes

\* The words of a length vector at offset o: w[1] is lv0.
Vector(o, w) == [p \in {o + 2 * (i - 1) : i \in 1 .. Len(w)} |->
                   w[((p - o) \div 2) + 1]]

Merge(f, g) == [o \in DOMAIN f \cup DOMAIN g |->
                  IF o \in DOMAIN f THEN f[o] ELSE g[o]]

Lengths == {0, 3, 4, 65535}
Vectors == {<<v>> : v \in {0, 1, 2, 40}}
             \cup {<<4, a>> : a \in Lengths} \cup {<<6, a, b>> : a, b \in Lengths}
             \cup {<<7, 1, 1>>, <<8, 1, 2, 5>>}

FirstEnd(over12c) == (IF over12c THEN 32 ELSE 24)

\* Two changes: the second where the first ends if it has this many bytes.
Sizes == {0, 4, 24, 28, 32, 36, 40, 44, 60, 68, 72, 76, 80}

ShortPayloads ==
  {[size |-> s, isVoid |-> v, over12c |-> o,
    words |-> Merge(Vector(FirstEnd(o), w), Vector(2 * FirstEnd(o) + gap, x)),
    bytes |-> Merge(Vector(0, <<5>>), Vector(24, <<3>>))] :
     s \in Sizes, v \in {FALSE}, o \in BOOLEAN, w \in Vectors, x \in Vectors,
     gap \in {4, 8, 12}}

Runs ==
  {[size |-> n * 28, isVoid |-> v, over12c |-> FALSE,
    words |-> << >>, bytes |-> << >>] : n \in {1, 256, 257, 258}, v \in BOOLEAN}

MCPayloads == ShortPayloads \cup Runs
=============================================================================
