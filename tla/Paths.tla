------------------------------- MODULE Paths --------------------------------
(***************************************************************************)
(* What the packages os and path/filepath do for clipfit, on a tree of     *)
(* directories, files and symbolic links. A path is the sequence of its    *)
(* names below "/", and ".." is a name of its own. A link names an         *)
(* absolute path. All of it is external to src/ but Within.                *)
(***************************************************************************)
EXTENDS Integers, FiniteSets, SequencesExt

CONSTANTS
  Names,      \* of files
  MaxDepth,   \* bound on the depth of the tree
  MaxLinks,   \* links the system follows in one path before it gives up
  Up          \* the name ".."

ASSUME PathsAssumption == MaxDepth \in Nat /\ MaxLinks \in Nat /\ Up \notin Names

AllPaths == UNION {[1..n -> Names] : n \in 0..MaxDepth}

Nothing == [kind |-> "none"]
Directory == [kind |-> "dir"]
File(data) == [kind |-> "file", data |-> data]
LinkTo(p) == [kind |-> "link", to |-> p]

NodeAt(tree, p) == IF p \in DOMAIN tree THEN tree[p] ELSE Nothing

(* A tree: below a node that is no directory there is nothing.             *)
IsNode(x) ==
  x \in {Nothing, Directory} \/ x.kind = "file" \/ (x.kind = "link" /\ x.to \in Seq(Names))

IsTree(tree) ==
  /\ DOMAIN tree = AllPaths
  /\ \A p \in AllPaths : IsNode(tree[p])
  /\ tree[<<>>] = Directory
  /\ \A p \in AllPaths \ {<<>>} : tree[p] # Nothing => tree[Front(p)] = Directory

(* Following a path name by name, down to the first node that is no        *)
(* directory: there the path ends, goes on behind a link, or fails. A name *)
(* below a file is an error, which is not the error of a name that does    *)
(* not exist.                                                              *)
Stops(tree, p) == {i \in 1..Len(p) : NodeAt(tree, SubSeq(p, 1, i)).kind # "dir"}

Stopped(node, p, rest) ==
  CASE node.kind = "none" -> [end |-> "absent"]
    [] node.kind = "file" -> IF rest = <<>> THEN [end |-> "found", at |-> p] ELSE [end |-> "error"]
    [] node.kind = "link" -> [end |-> "link", to |-> node.to \o rest]

Descend(tree, p) ==
  IF Stops(tree, p) = {} THEN [end |-> "found", at |-> p]
  ELSE LET i == Min(Stops(tree, p))
       IN Stopped(NodeAt(tree, SubSeq(p, 1, i)), p, SubSeq(p, i + 1, Len(p)))

(* Following a path behind its links, until there are too many.            *)
Further(d, walk, links) ==
  IF d.end # "link" THEN d ELSE IF links = 0 THEN [end |-> "loop"] ELSE walk[links - 1][d.to]

Walk(tree, p) ==
  LET walk[links \in 0..MaxLinks] ==
        [q \in Seq(Names) |-> Further(Descend(tree, q), walk, links)]
  IN walk[MaxLinks][p]

(* filepath.EvalSymlinks: the path without its links, in a set.            *)
EvalSymlinks(tree, p) ==
  LET w == Walk(tree, p) IN IF w.end = "found" THEN {w.at} ELSE {}

(* os.Stat: the node behind all links, or nothing.                         *)
Stat(tree, p) ==
  LET w == Walk(tree, p) IN IF w.end = "found" THEN tree[w.at] ELSE Nothing

(* The place a name stands for when its own link is not followed: where a  *)
(* file is created, renamed to or removed.                                 *)
Place(tree, p) ==
  IF p = <<>> THEN {<<>>}
  ELSE {Append(d, Last(p)) : d \in {e \in EvalSymlinks(tree, Front(p)) : tree[e] = Directory}}

(* os.Lstat: found, absent or another error.                               *)
Lstat(tree, p) ==
  CASE p = <<>> -> "found"
    [] p # <<>> /\ Place(tree, p) # {} ->
         IF \E q \in Place(tree, p) : NodeAt(tree, q) # Nothing THEN "found" ELSE "absent"
    [] OTHER ->
         IF Walk(tree, Front(p)).end = "absent" THEN "absent" ELSE "error"

(* filepath.Clean of an absolute path: by the names alone.                 *)
Clean(p) ==
  LET clean[n \in 0..Len(p)] ==
        IF n = 0 THEN <<>>
        ELSE IF p[n] # Up THEN Append(clean[n - 1], p[n])
        ELSE IF clean[n - 1] = <<>> THEN <<>> ELSE Front(clean[n - 1])
  IN clean[Len(p)]

(* The path that the system takes for one with "..", which stands for the  *)
(* directory above the one that the names before it lead to, through       *)
(* links; in a set, that is empty when they do not lead to a directory.    *)
(* Links are counted anew behind each "..".                                *)
Physical(tree, p) ==
  LET above(d) == IF d = <<>> THEN <<>> ELSE Front(d)
      physical[n \in 0..Len(p)] ==
        IF n = 0 THEN {<<>>}
        ELSE IF p[n] # Up THEN {Append(q, p[n]) : q \in physical[n - 1]}
        ELSE {above(d) : d \in {e \in UNION {EvalSymlinks(tree, q) : q \in physical[n - 1]} :
                                  tree[e] = Directory}}
  IN physical[Len(p)]

(* pathWithinRoot                                                          *)
Within(root, p) == IsPrefix(root, p)
=============================================================================
