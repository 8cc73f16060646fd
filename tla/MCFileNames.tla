---------------------------- MODULE MCFileNames -----------------------------
(***************************************************************************)
(* FileNames on two names, written a and b in the comments, and paths of   *)
(* up to three.                                                            *)
(***************************************************************************)
EXTENDS FileNames

CONSTANTS n1, n2

MCNames == {n1, n2}
MCMaxDepth == 3
MCMaxLinks == 4
MCMaxCreates == 1
MCMaxRuns == 3

(* The guard: /a, /a/a and /b are directories, /a/a/b and /b/a files; one  *)
(* of /a/b, /b/b and /a/a/a may be a link to any of these but /b/a, itself *)
(* among them, or two, one of which leads to one of the three. /b is a     *)
(* drive mount, /a/a is on 9p; a is a local volume and b is not. One tree  *)
(* is empty.                                                               *)
Dirs == {<<>>, <<n1>>, <<n1, n1>>, <<n2>>}
Files == {<<n1, n1, n2>>, <<n2, n1>>}
Slots == {<<n1, n2>>, <<n2, n2>>, <<n1, n1, n1>>}
Targets == Dirs \cup Slots \cup {<<n1, n1, n2>>}

Links ==
  {links \in UNION {[s -> Targets] : s \in SUBSET Slots} :
     \/ Cardinality(DOMAIN links) <= 1
     \/ Cardinality(DOMAIN links) = 2 /\ \E s \in DOMAIN links : links[s] \in Slots}

MCTrees ==
  {[p \in AllPaths |->
      IF p \in Dirs THEN Directory ELSE IF p \in Files THEN File("old")
      ELSE IF p \in DOMAIN links THEN LinkTo(links[p]) ELSE Nothing] : links \in Links}
    \cup {[p \in AllPaths |-> IF p = <<>> THEN Directory ELSE Nothing]}

MCInputs ==
  [abs : {FALSE}, names : UNION {[1..n -> Names \cup {Up}] : n \in 1..2}]
    \cup [abs : {TRUE}, names : AllPaths \cup {<<n1, n1, Up, n2>>}]

MCDriveMount == <<n2>>
MCOnNinep == {<<n1, n1>>, <<n1, n1, n1>>, <<n1, n1, n2>>}
MCDriveType == [n \in Names |-> IF n = n1 THEN "fixed" ELSE "remote"]

(* The tools: /a is a directory with the file /a/a; /b and /a/b may be a   *)
(* file, a link to /a/a or a link to each other, /b a link to /a or a      *)
(* directory with a link to /a/a, and, unless /b is a link, /a/b one to    *)
(* /a. So /b/../a/a is /a/a for every directory that /b leads to, but      *)
(* /a/b/../b, which filepath takes for /a/b, is /b when /a/b leads to /a.  *)
(* Three runs: two applies and a rollback, or an apply and two rollbacks.  *)
Others ==
  {File(0), Directory, LinkTo(<<n1>>), LinkTo(<<n1, n1>>), LinkTo(<<n1, n2>>)}
    \X {File(0), LinkTo(<<n1, n1>>), LinkTo(<<n2>>)}
  \cup {File(0), Directory} \X {LinkTo(<<n1>>)}

MCDisks ==
  {[p \in AllPaths |->
      CASE p \in {<<>>, <<n1>>} -> Directory
        [] p = <<n1, n1>> -> File(0)
        [] p = <<n2>> -> other[1]
        [] p = <<n1, n2>> -> other[2]
        [] p = <<n2, n1>> -> IF other[1] = Directory THEN LinkTo(<<n1, n1>>) ELSE Nothing
        [] OTHER -> Nothing] : other \in Others}

MCArgs ==
  {<<n1>>, <<n2>>, <<n1, n1>>, <<n1, n2>>, <<n2, n1>>, <<n2, Up, n1, n1>>, <<n1, n2, Up, n2>>}
=============================================================================
