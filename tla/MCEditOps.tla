----------------------------- MODULE MCEditOps ------------------------------
(***************************************************************************)
(* Small texts and operations for EditOps: every text of up to three lines *)
(* with blocks that are adjacent, indented, repeated and overlapping;      *)
(* white space of other kinds, NBSPs inside lines among it; lines with     *)
(* identifiers for the other operations; pairs of operations; and files    *)
(* with a byte order mark and other line endings.                          *)
(***************************************************************************)
EXTENDS EditOps

MCWordSymbols == {"a", "b"}

Op(kind, anchor, find, replace, expected) ==
  [kind |-> kind, anchor |-> anchor, find |-> find, replace |-> replace,
   expected |-> expected]

TextsOf(lines, n) == {JoinLines(ls) : ls \in [1..n -> lines]}
One(data, ops) ==
  [data : data, operations : {<<op>> : op \in ops}, newline : {<<CR, NL>>}]

BlockLines == {<<>>, <<"a">>, <<Blank, "a">>, <<"a", "b">>, <<"b">>}
BlockTexts == UNION {TextsOf(BlockLines, n) : n \in 1..3}
BlockOps ==
  {Op("replace_block", a, f, r, e) :
     a \in {<<>>, <<"a">>, <<Blank, "b">>},
     f \in {<<"a">>, <<"a", NL, "a">>, <<"b", Blank>>, <<"a", NL, NL, "b">>,
            <<Blank, Blank, "a", NL, Blank, "a">>},
     r \in {<<>>, <<"b", NL, Blank, "a">>, <<Remark, NL, "b">>, <<"b", NL, Blank, Remark>>},
     e \in {None, 2}}

(* White space of another kind, and finds whose first line is the deeper.  *)
SpacedTexts ==
  UNION {TextsOf({<<"a">>, <<"a", Nbsp, "b">>, <<Blank, Nbsp, "a">>, <<"a", Blank, "b">>}, n)
           : n \in 1..3}
SpacedOps ==
  {Op("replace_block", a, f, <<"b">>, e) :
     a \in {<<>>, <<"a", Nbsp, "b">>},
     f \in {<<"a">>, <<"a", Nbsp, "b">>, <<"a", Blank, "b">>, <<Nbsp, "a">>,
            <<Blank, "a", NL, "a">>},
     e \in {None, 2}}

WordLines == {<<"a">>, <<"a", "b">>, <<"a", ".", "b">>, <<"b", Blank, "a">>, <<Nbsp, "a">>}
WordTexts == UNION {TextsOf(WordLines \cup {<<>>}, n) : n \in 1..2}
WordOps ==
  {Op(k, <<>>, f, r, e) :
     k \in {"replace", "replace_suffix", "swap_name", "other"},
     f \in {<<>>, <<"a">>, <<"a", "b">>, <<"b", Nbsp, "a">>, <<"a", CR, NL>>},
     r \in {<<>>, <<"b">>, <<Nbsp, "a">>, <<"b", CR, NL, "b">>},
     e \in {None, 0, 2}}

Pair == {Op("replace_block", <<>>, <<"a">>, <<"b", CR, NL, "b">>, None),
         Op("replace_block", <<"b">>, <<"b">>, <<Blank, "a">>, 1),
         Op("replace_suffix", <<>>, <<"b", CR, NL, "b">>, <<"a">>, None),
         Op("replace", <<>>, <<"b">>, <<"a">>, None),
         Op("swap_name", <<>>, <<"a">>, <<"b">>, None),
         Op("swap_name", <<"a">>, <<"a">>, <<"b">>, None),
         Op("replace", <<>>, <<"a">>, <<Bom>>, None)}
Pairs == {<<x, y>> : x \in Pair, y \in Pair}

(* The same text with each newline written as e, with or without a mark.   *)
Files == {(IF bom THEN <<Bom>> ELSE <<>>) \o ReplaceText(t, <<NL>>, e) :
            bom \in BOOLEAN, e \in {<<NL>>, <<CR>>, <<CR, NL>>, <<NL, CR, NL>>},
            t \in TextsOf({<<>>, <<"a">>, <<"b">>, <<Bom>>}, 2)}

MCRequests ==
  One(BlockTexts, BlockOps) \cup One(SpacedTexts, SpacedOps) \cup One(WordTexts, WordOps)
    \cup [data : Files, operations : Pairs \cup {<<x>> : x \in Pair},
          newline : PlatformLineEndings]
=============================================================================
