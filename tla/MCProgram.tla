----------------------------- MODULE MCProgram -----------------------------
(***************************************************************************)
(* Sessions of the program over the logs of MCRecordSource:                *)
(*   - one file of any shapes, read in chunks and block by block (--r);    *)
(*   - one file closed at any block, all its records or a few (--s);       *)
(*   - two names, for any two of a few files, options before, between and  *)
(*     behind them, among them one the program does not know, with and     *)
(*     without a file of that name;                                        *)
(*   - names that stand for no redo log.                                   *)
(* Logs are told apart by the numbers of their shapes, whether they end in *)
(* a partial block, and their nab.                                         *)
(***************************************************************************)
EXTENDS Program, MCRecordSource

CONSTANT Unclosed      \* the nab of a log still being written

\* With three blocks to a read the third one goes with the foreign one before it,
\* and a record begun in the first is continued in the fourth.
ACROSS == <<6, 2, 1, 9, 1>>

Key(ids, tail, nab) == [ids |-> ids, tail |-> tail, nab |-> nab]

\* Every file of up to MaxBlocks blocks, those of one more that begin with a
\* record of four blocks, and short ones that end in a partial block.
OpenKeys ==
  UNION { {Key(ids, FALSE, Unclosed) :
             ids \in UNION {[1 .. n -> 1 .. Len(Shapes)] : n \in 1 .. MaxBlocks}},
          {Key(<<LONG>> \o ids, FALSE, Unclosed) :
             ids \in [1 .. MaxBlocks -> 1 .. Len(Shapes)]},
          {Key(ids, TRUE, Unclosed) : ids \in [1 .. 2 -> 1 .. Len(Shapes)]},
          {Key(ACROSS, FALSE, Unclosed)} }

ClosedKeys ==
  {Key(ids, FALSE, nab) :
     ids \in UNION {[1 .. n -> 1 .. Len(Shapes)] : n \in 0 .. 2}, nab \in {0} \cup 2 .. 5}

Few == {2, 3, 6}
FewKeys ==
  UNION { {Key(ids, FALSE, 4) : ids \in UNION {[1 .. n -> Few] : n \in 1 .. 2}},
          {Key(<<3>>, TRUE, 4)} }

NothingKey == Key(<< >>, FALSE, 2)

KeyedLog(shapes, k) ==
  LET l == LogFile([i \in 1 .. Len(k.ids) |-> shapes[k.ids[i]]], k.tail)
  IN [blocks |-> l.blocks, tail |-> l.tail, nab |-> k.nab]

MCLogs ==
  LET shapes == Shapes IN
  {KeyedLog(shapes, k) : k \in UNION {OpenKeys, ClosedKeys, FewKeys, {NothingKey}}}

-----------------------------------------------------------------------------
Scn(wrap, base, high) == [base |-> base, wrap |-> wrap, wrap_high |-> high]

\* Two of the layouts an SCN has in a redo head (ora_layout.h:86-93).
OnDisk(shapes, k) ==
  [front |-> 2 * BlockSz, magic |-> "little", type |-> \h22,
   block_size |-> BlockSz, low |-> Scn(0, MCLowScn, 65535),
   next |-> Scn(\h8000, MCNxtScn, 0), log |-> KeyedLog(shapes, k)]

\* What a name may stand for: a log or, in its place, something odd.
AsKind(kind, f) ==
  CASE kind = "log" -> f
    [] kind = "absent" -> NoFile
    [] kind = "short" -> [f EXCEPT !.front = 255]
    [] kind = "one head" -> [f EXCEPT !.front = 2 * BlockSz - 1]
    [] kind = "no magic" -> [f EXCEPT !.magic = "other"]
    [] kind = "no type" -> [f EXCEPT !.type = 0]
    [] kind = "data file" -> [f EXCEPT !.type = \hA2]
    [] kind = "illegal size" -> [f EXCEPT !.block_size = 640]
    [] kind = "size 0" -> [f EXCEPT !.block_size = 65536]
    [] kind = "size + 64K" -> [f EXCEPT !.block_size = 65536 + BlockSz]
Kinds == {"log", "absent", "short", "one head", "no magic", "no type",
          "data file", "illegal size", "size 0", "size + 64K"}

\* The options there are, and one there is not.
MCDashed == {"--i", "--r", "--d", "--b", "--ob", "--s", "--x"}

\* The disk has as many of names as there are keys.
Named(names, argv_, kind, keys) ==
  [names |-> names, argv |-> argv_, kind |-> kind, keys |-> keys]
Words(argv_, kind, keys) == Named(<<"a", "b">>, argv_, kind, keys)
KeyedSessions ==
  UNION
  { {Words(w, "log", <<k>>) : w \in {<<"a">>, <<"--r", "a">>}, k \in OpenKeys},
    {Words(w, "log", <<k>>) : w \in {<<"a">>, <<"a", "--s">>}, k \in ClosedKeys},
    {Words(w, "log", <<j, k>>) :
       w \in {<<"a", "b", "a">>, <<"a", "--s", "b">>, <<"--ob", "a", "b">>,
              <<"a", "b", "--ob", "--r">>},
       j \in FewKeys, k \in FewKeys},
    {Words(<<"a", "--x", "b">>, "log", <<j, k>>) : j \in FewKeys, k \in FewKeys},
    {Named(<<"a", "--x">>, w, kind, <<j, NothingKey>>) :
       w \in {<<"--x", "a">>, <<"a", "--x", "--s">>, <<"--x">>},
       kind \in {"log", "short"}, j \in FewKeys},
    {Words(<<"a", "b", "c">>, kind, <<k, NothingKey>>) :
       kind \in Kinds, k \in FewKeys},
    {Words(w, "absent", <<NothingKey>>) : w \in {<< >>, <<"--i", "--s">>}} }

\* The last name of a session is of the session's kind, the first one a log.
MCSessions ==
  LET shapes == Shapes IN
  {[argv |-> s.argv,
    disk |-> LET n == Len(s.keys)
                 on(i) == AsKind(IF i = n THEN s.kind ELSE "log", OnDisk(shapes, s.keys[i]))
             IN [name \in {s.names[i] : i \in 1 .. n} |->
                   on(CHOOSE i \in 1 .. n : s.names[i] = name)]] : s \in KeyedSessions}
=============================================================================
