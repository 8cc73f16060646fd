----------------------------- MODULE MCToolCalls ----------------------------
(* Every operation of a few values on its own, lists of none to three      *)
(* operations, and the other tools with each property left out, null, of   *)
(* another type or of several values, with one that is not declared, and   *)
(* with names in capitals, at both levels.                                 *)
EXTENDS ToolCalls

MCMaxOperations == 2

MCFold(p) ==
  CASE p = "PATH" -> "path"
    [] p = "Operations" -> "operations"
    [] p = "Expected_Matches" -> "expected_matches"
    [] OTHER -> p

Left == [json |-> "left out"]
Of(r) == Object([p \in {q \in DOMAIN r : r[q] # Left} |-> r[p]])

Odd == {Left, Null, Bool(TRUE)}
Strings == {Text(s) : s \in {"", " ", "line"}}
Types == {Text(t) : t \in OperationTypes \cup {"", "REPLACE_BLOCK", "delete"}}
Counts == {Number(n) : n \in 0..2} \cup {Exponent(1)}

Operations ==
  {Of(r) : r \in [type : Types \cup Odd, anchor : Strings \cup Odd,
                  find : Strings \cup {Text("lines")} \cup Odd,
                  replace : Strings \cup {Text("other"), Text("lines")} \cup Odd,
                  expected_matches : Counts \cup Odd, after : {Left}]}
  \cup {Of(r) : r \in [type : {Text("replace")}, find : {Text("line")},
                       replace : {Text("other")}, after : {Null, Text("line")}]}
  \cup {Of(r) : r \in [find : {Text("line")}, Expected_Matches : Counts \cup Odd]}

Good == Of([type |-> Text("replace"), find |-> Text("line"), replace |-> Text("other")])
Poor == {Of([find |-> Text("line")]), Null, Text("line")}

Lists ==
  {<<o>> : o \in Operations} \cup {<<>>, <<Good, Good>>, <<Good, Good, Good>>}
  \cup {<<Good, o>> : o \in Poor}

Arguments(tool) ==
  CASE tool = "clipfit_preview" ->
         {Of([path |-> p, operations |-> Array(<<Good>>)]) : p \in Strings \cup Odd}
         \cup {Of([path |-> Text("line"), operations |-> x, line |-> y]) :
                 x \in {Array(<<>>), Array(<<Good>>)} \cup Odd, y \in {Left, Null}}
         \cup {Of([PATH |-> p, Operations |-> Array(<<o>>)]) : p \in Strings \cup Odd, o \in {Good} \cup Poor}
    [] tool = "clipfit_edit" ->
         {Of([path |-> Text("line"), operations |-> Array(l)]) : l \in Lists}
    [] tool = "clipfit_apply" ->
         {Of(r) : r \in [preview_id : Strings \cup Odd, path : {Left, Null, Text("line")}]}
    [] tool \in {"clipfit_create", "clipfit_rollback"} ->
         {Of(r) : r \in [path : Strings \cup Odd, content : Strings \cup Odd,
                         create_parents : {Text("line")} \cup Odd]}
    [] OTHER -> {Of(<<>>)}

MCCalls ==
  UNION {[tool : {t}, id : BOOLEAN, params : {"object"}, arguments : Arguments(t)] :
           t \in Tools \cup {"unknown"}}
  \cup [tool : Tools, id : BOOLEAN, params : {"object", "other"},
        arguments : {Null, Text("line"), Array(<<>>), Of(<<>>)}]
=============================================================================
