--------------------------- MODULE FileNamesProofs ---------------------------
(***************************************************************************)
(* Theorems about FileNames, for any trees, any paths and any links.       *)
(***************************************************************************)
EXTENDS FileNames, SequenceLemmas

Path == Seq(Names)

----------------------------------------------------------------------------------------------------------------------------------------------------------
(* Paths as sequences, and the two parts that a number of names makes. *)

Upto(p, i) == SubSeq(p, 1, i)

Past(p, i) == SubSeq(p, i + 1, Len(p))

LEMMA Cut ==
  ASSUME NEW p \in Path, NEW i \in 0..Len(p)
  PROVE  /\ Upto(p, i) \in Path /\ Len(Upto(p, i)) = i
         /\ \A j \in 1..i : Upto(p, i)[j] = p[j]
         /\ Past(p, i) \in Path /\ Len(Past(p, i)) = Len(p) - i
         /\ \A j \in 1..Len(p) - i : Past(p, i)[j] = p[i + j]
<1>1. Len(p) \in Nat
  BY LenProperties DEF Path
<1>2. SubSeq(p, 1, i) \in Path /\ SubSeq(p, i + 1, Len(p)) \in Path
  BY <1>1, SubSeqProperties DEF Path
<1> QED
  BY <1>1, <1>2, SubSeqProperties DEF Path, Upto, Past

LEMMA Whole ==
  ASSUME NEW p \in Path
  PROVE  /\ Len(p) \in Nat /\ (Len(p) = 0 <=> p = <<>>)
         /\ Upto(p, Len(p)) = p /\ Upto(p, 0) = <<>> /\ Past(p, Len(p)) = <<>> /\ <<>> \in Path
<1>1. Len(p) \in Nat /\ (Len(p) = 0 <=> p = <<>>)
  BY LenProperties, EmptySeq DEF Path
<1>2. SubSeq(p, 1, Len(p)) = p /\ SubSeq(p, 1, 0) = <<>> /\ SubSeq(p, Len(p) + 1, Len(p)) = <<>>
  BY <1>1, SubSeqFull, SubSeqEmpty DEF Path
<1>3. <<>> \in Path
  BY EmptySeq DEF Path
<1> QED
  BY <1>1, <1>2, <1>3 DEF Upto, Past

LEMMA SameNames ==
  ASSUME NEW p \in Path, NEW q \in Path, Len(p) = Len(q), \A j \in 1..Len(p) : p[j] = q[j]
  PROVE  p = q
BY SeqEqual DEF Path

LEMMA Appended ==
  ASSUME NEW p \in Path, NEW n \in Names
  PROVE  /\ Append(p, n) \in Path /\ Len(Append(p, n)) = Len(p) + 1 /\ Append(p, n) # <<>>
         /\ \A j \in 1..Len(p) : Append(p, n)[j] = p[j]
         /\ Append(p, n)[Len(p) + 1] = n
<1>1. Len(p) \in Nat
  BY LenProperties DEF Path
<1> DEFINE a == Append(p, n)
<1>2. /\ a \in Path /\ Len(a) = Len(p) + 1
      /\ \A j \in 1..Len(p) : a[j] = p[j]
      /\ a[Len(p) + 1] = n
  BY <1>1, AppendProperties DEF Path
<1> HIDE DEF a
<1>3. a # <<>>
  BY <1>1, <1>2, EmptySeq
<1> QED
  BY <1>2, <1>3 DEF a

\* A path that is not empty is a path and a last name.
LEMMA FrontLast ==
  ASSUME NEW p \in Path, p # <<>>
  PROVE  /\ Front(p) \in Path /\ Last(p) \in Names /\ p = Append(Front(p), Last(p))
         /\ Len(Front(p)) = Len(p) - 1 /\ Len(p) - 1 \in 0..Len(p)
         /\ Front(p) = Upto(p, Len(p) - 1) /\ Last(p) = p[Len(p)]
<1>1. Len(p) \in Nat /\ Len(p) # 0 /\ Len(p) - 1 \in 0..Len(p)
  BY LenProperties, EmptySeq DEF Path
<1>2. Front(p) = Upto(p, Len(p) - 1) /\ Last(p) = p[Len(p)]
  BY DEF Front, Last, Upto
<1>3. /\ Front(p) \in Path /\ Len(Front(p)) = Len(p) - 1
      /\ \A j \in 1..Len(p) - 1 : Front(p)[j] = p[j]
  <2> DEFINE m == Len(p) - 1
  <2>1. m \in 0..Len(p)
    BY <1>1
  <2> HIDE DEF m
  <2>2. Upto(p, m) \in Path /\ Len(Upto(p, m)) = m /\ \A j \in 1..m : Upto(p, m)[j] = p[j]
    BY <2>1, Cut
  <2> QED
    BY <1>2, <2>2 DEF m
<1>4. Last(p) \in Names
  BY <1>1, <1>2, ElementOfSeq DEF Path
<1> DEFINE a == Append(Front(p), Last(p))
<1>5. /\ a \in Path /\ Len(a) = Len(Front(p)) + 1
      /\ \A j \in 1..Len(Front(p)) : a[j] = Front(p)[j]
      /\ a[Len(Front(p)) + 1] = Last(p)
  BY <1>3, <1>4, Appended
<1> HIDE DEF a
<1>6. Len(a) = Len(p) /\ \A j \in 1..Len(p) : a[j] = p[j]
  BY <1>1, <1>2, <1>3, <1>5
<1>7. p = a
  BY <1>5, <1>6, SameNames
<1> QED
  BY <1>1, <1>2, <1>3, <1>4, <1>7 DEF a

\* The parts of a path to which a name was appended.
LEMMA CutAppend ==
  ASSUME NEW p \in Path, NEW n \in Names, NEW i \in 0..Len(p)
  PROVE  Upto(Append(p, n), i) = Upto(p, i) /\ Past(Append(p, n), i) = Append(Past(p, i), n)
<1>0. Len(p) \in Nat
  BY LenProperties DEF Path
<1> DEFINE a == Append(p, n)
           x == Past(a, i)
           s == Past(p, i)
           y == Append(s, n)
<1>1. /\ a \in Path /\ Len(a) = Len(p) + 1
      /\ \A j \in 1..Len(p) : a[j] = p[j]
      /\ a[Len(p) + 1] = n
  BY Appended
<1> HIDE DEF a
<1>2. Upto(a, i) = Upto(p, i)
  <2>1. i \in 0..Len(a)
    BY <1>0, <1>1
  <2>2. Upto(a, i) \in Path /\ Len(Upto(a, i)) = i /\ \A j \in 1..i : Upto(a, i)[j] = a[j]
    BY <1>1, <2>1, Cut
  <2>3. Upto(p, i) \in Path /\ Len(Upto(p, i)) = i /\ \A j \in 1..i : Upto(p, i)[j] = p[j]
    BY Cut
  <2>4. \A j \in 1..i : Upto(a, i)[j] = Upto(p, i)[j]
    BY <1>0, <1>1, <2>2, <2>3
  <2> QED
    BY <2>2, <2>3, <2>4, SameNames
<1>3. i \in 0..Len(a)
  BY <1>0, <1>1
<1>4. /\ x \in Path /\ Len(x) = Len(a) - i
      /\ \A j \in 1..Len(a) - i : x[j] = a[i + j]
  BY <1>1, <1>3, Cut
<1>5. /\ s \in Path /\ Len(s) = Len(p) - i
      /\ \A j \in 1..Len(p) - i : s[j] = p[i + j]
  BY Cut
<1> HIDE DEF s, x
<1>6. /\ y \in Path /\ Len(y) = Len(s) + 1
      /\ \A j \in 1..Len(s) : y[j] = s[j]
      /\ y[Len(s) + 1] = n
  BY <1>5, Appended
<1> HIDE DEF y
<1>7. ASSUME NEW j \in 1..Len(x) PROVE x[j] = y[j]
  <2>1. CASE j \in 1..Len(s)
    BY <1>0, <1>1, <1>4, <1>5, <1>6, <2>1
  <2>2. CASE j = Len(s) + 1
    <3>1. i + j = Len(p) + 1 /\ j \in 1..Len(a) - i
      BY <1>0, <1>1, <1>4, <1>5, <2>2
    <3> QED
      BY <1>1, <1>4, <1>6, <2>2, <3>1
  <2> QED
    BY <1>0, <1>1, <1>4, <1>5, <2>1, <2>2
<1>8. x = y
  <2>1. Len(x) = Len(y)
    BY <1>0, <1>1, <1>4, <1>5, <1>6
  <2> QED
    BY <1>4, <1>6, <1>7, <2>1, SameNames
<1> QED
  BY <1>2, <1>8 DEF a, x, y, s

LEMMA FrontOfAppend ==
  ASSUME NEW p \in Path, NEW n \in Names
  PROVE  Front(Append(p, n)) = p /\ Last(Append(p, n)) = n
<1> DEFINE a == Append(p, n)
<1>1. a \in Path /\ a # <<>> /\ Len(a) = Len(p) + 1 /\ a[Len(p) + 1] = n
  BY Appended
<1>2. Len(p) \in Nat /\ Len(p) \in 0..Len(p) /\ Upto(p, Len(p)) = p
  BY Whole
<1>4. Upto(a, Len(p)) = Upto(p, Len(p))
  BY <1>2, CutAppend
<1> HIDE DEF a
<1>3. Front(a) = Upto(a, Len(a) - 1) /\ Last(a) = a[Len(a)]
  BY <1>1, FrontLast
<1> QED
  BY <1>1, <1>2, <1>3, <1>4 DEF a

LEMMA Joined ==
  ASSUME NEW p \in Path, NEW s \in Path
  PROVE  /\ p \o s \in Path /\ Len(p \o s) = Len(p) + Len(s)
         /\ \A j \in 1..Len(p) : (p \o s)[j] = p[j]
         /\ \A j \in 1..Len(s) : (p \o s)[Len(p) + j] = s[j]
         /\ p \o <<>> = p
<1>1. Len(p) \in Nat /\ Len(s) \in Nat
  BY LenProperties DEF Path
<1>2. /\ p \o s \in Path /\ Len(p \o s) = Len(p) + Len(s)
      /\ \A j \in 1..Len(p) + Len(s) : (p \o s)[j] = IF j <= Len(p) THEN p[j] ELSE s[j - Len(p)]
  BY ConcatProperties DEF Path
<1>3. ASSUME NEW j \in 1..Len(s) PROVE (p \o s)[Len(p) + j] = s[j]
  <2>1. Len(p) + j \in 1..Len(p) + Len(s) /\ ~(Len(p) + j <= Len(p)) /\ (Len(p) + j) - Len(p) = j
    BY <1>1
  <2> QED
    BY <1>2, <2>1
<1>4. \A j \in 1..Len(p) : j \in 1..Len(p) + Len(s) /\ j <= Len(p)
  BY <1>1
<1> QED
  BY <1>2, <1>3, <1>4, ConcatEmptySeq DEF Path

\* What is appended to the second part of a path is appended to the path.
LEMMA JoinedAppend ==
  ASSUME NEW p \in Path, NEW s \in Path, NEW n \in Names
  PROVE  p \o Append(s, n) = Append(p \o s, n)
<1>1. Len(p) \in Nat /\ Len(s) \in Nat
  BY LenProperties DEF Path
<1> DEFINE a == Append(s, n)
           x == p \o a
           c == p \o s
           y == Append(c, n)
<1>2. /\ a \in Path /\ Len(a) = Len(s) + 1
      /\ \A j \in 1..Len(s) : a[j] = s[j]
      /\ a[Len(s) + 1] = n
  BY Appended
<1> HIDE DEF a
<1>3. /\ x \in Path /\ Len(x) = Len(p) + Len(a)
      /\ \A j \in 1..Len(p) : x[j] = p[j]
      /\ \A j \in 1..Len(a) : x[Len(p) + j] = a[j]
  BY <1>2, Joined
<1>4. /\ c \in Path /\ Len(c) = Len(p) + Len(s)
      /\ \A j \in 1..Len(p) : c[j] = p[j]
      /\ \A j \in 1..Len(s) : c[Len(p) + j] = s[j]
  BY Joined
<1> HIDE DEF c
<1>5. /\ y \in Path /\ Len(y) = Len(c) + 1
      /\ \A j \in 1..Len(c) : y[j] = c[j]
      /\ y[Len(c) + 1] = n
  BY <1>4, Appended
<1> HIDE DEF x, y
<1>6. ASSUME NEW j \in 1..Len(x) PROVE x[j] = y[j]
  <2>1. CASE j \in 1..Len(p)
    BY <1>1, <1>3, <1>4, <1>5, <2>1
  <2>2. ASSUME NEW k \in 1..Len(s), j = Len(p) + k PROVE x[j] = y[j]
    <3>1. j \in 1..Len(c) /\ k \in 1..Len(a)
      BY <1>1, <1>2, <1>4, <2>2
    <3>2. x[j] = s[k]
      BY <1>2, <1>3, <2>2, <3>1
    <3>3. y[j] = s[k]
      BY <1>4, <1>5, <2>2, <3>1
    <3> QED
      BY <3>2, <3>3
  <2>3. CASE j = Len(p) + (Len(s) + 1)
    <3>1. Len(s) + 1 \in 1..Len(a) /\ j = Len(c) + 1
      BY <1>1, <1>2, <1>4, <2>3
    <3> QED
      BY <1>2, <1>3, <1>5, <2>3, <3>1
  <2>4. j \in 1..Len(p) \/ j - Len(p) \in 1..Len(s) \/ j = Len(p) + (Len(s) + 1)
    <3>1. Len(x) = Len(p) + (Len(s) + 1)
      BY <1>2, <1>3
    <3> QED
      BY ONLY <1>1, <3>1, j \in 1..Len(x)
  <2>5. j = Len(p) + (j - Len(p))
    BY <1>1, <1>3
  <2> QED
    BY <2>1, <2>2, <2>3, <2>4, <2>5
<1>7. x = y
  <2>1. Len(x) = Len(y)
    BY <1>1, <1>2, <1>3, <1>4, <1>5
  <2> QED
    BY <1>3, <1>5, <1>6, <2>1, SameNames
<1> QED
  BY <1>7 DEF x, y, a, c

\* The two parts of a path.
LEMMA CutJoined ==
  ASSUME NEW p \in Path, NEW i \in 0..Len(p)
  PROVE  p = Upto(p, i) \o Past(p, i)
<1> DEFINE a == Upto(p, i)
           b == Past(p, i)
<1>0. Len(p) \in Nat
  BY LenProperties DEF Path
<1>1. /\ a \in Path /\ Len(a) = i /\ \A j \in 1..i : a[j] = p[j]
      /\ b \in Path /\ Len(b) = Len(p) - i /\ \A j \in 1..Len(p) - i : b[j] = p[i + j]
  BY Cut
<1> HIDE DEF a, b
<1>2. /\ a \o b \in Path /\ Len(a \o b) = Len(p)
      /\ \A j \in 1..i : (a \o b)[j] = a[j]
      /\ \A j \in 1..Len(p) - i : (a \o b)[i + j] = b[j]
  BY <1>0, <1>1, Joined
<1>3. ASSUME NEW j \in 1..Len(p) PROVE (a \o b)[j] = p[j]
  <2>1. CASE j <= i
    BY <1>1, <1>2, <2>1
  <2>2. CASE i < j
    <3>1. j - i \in 1..Len(p) - i /\ i + (j - i) = j
      BY <1>0, <2>2
    <3> QED
      BY <1>1, <1>2, <3>1
  <2>3. j <= i \/ i < j
    BY <1>0
  <2> QED
    BY <2>1, <2>2, <2>3
<1>4. a \o b = p
  BY <1>2, <1>3, SameNames
<1> QED
  BY <1>4 DEF a, b

-----------------------------------------------------------------------------
(* Nodes, and the way down to the first that is no directory. *)

LEMMA NodeKinds ==
  ASSUME NEW t, IsTree(t), NEW x
  PROVE  /\ NodeAt(t, x).kind \in {"none", "dir", "file", "link"}
         /\ NodeAt(t, x).kind = "none" <=> NodeAt(t, x) = Nothing
         /\ NodeAt(t, x).kind = "dir" <=> NodeAt(t, x) = Directory
         /\ NodeAt(t, x).kind = "link" => NodeAt(t, x).to \in Path
         /\ NodeAt(t, x) # Nothing => x \in AllPaths /\ NodeAt(t, x) = t[x]
         /\ x \in AllPaths => NodeAt(t, x) = t[x]
<1>1. NodeAt(t, x) = IF x \in AllPaths THEN t[x] ELSE Nothing
  BY DEF NodeAt, IsTree
<1>2. IsNode(NodeAt(t, x))
  BY <1>1 DEF IsTree, IsNode
<1>3. Nothing.kind = "none" /\ Directory.kind = "dir"
  BY DEF Nothing, Directory
<1> QED
  BY <1>1, <1>2, <1>3 DEF IsNode, Path

LEMMA PathsOfTree == AllPaths \subseteq Path
BY SeqDef, PathsAssumption DEF AllPaths, Path

StopsAt(t, q, i) == i \in Stops(t, q) /\ \A j \in Stops(t, q) : i <= j

LEMMA StopsAre ==
  ASSUME NEW t, NEW q, NEW j
  PROVE  j \in Stops(t, q) <=> j \in 1..Len(q) /\ NodeAt(t, Upto(q, j)).kind # "dir"
BY DEF Stops, Upto

LEMMA StopsFirst ==
  ASSUME NEW t, NEW q \in Path, Stops(t, q) # {}
  PROVE  \E i : StopsAt(t, q, i)
<1>1. Stops(t, q) \in SUBSET Nat
  BY LenProperties DEF Stops, Path
<1> QED
  BY <1>1, LeastNatural DEF StopsAt

LEMMA DescendThrough ==
  ASSUME NEW t, IsTree(t), NEW q \in Path, Stops(t, q) = {}
  PROVE  /\ Descend(t, q) = [end |-> "found", at |-> q]
         /\ q \in AllPaths /\ t[q] = Directory
<1>1. CASE q = <<>>
  <2>1. <<>> \in AllPaths
    BY PathsAssumption DEF AllPaths
  <2> QED
    BY <1>1, <2>1 DEF Descend, IsTree
<1>2. CASE q # <<>>
  <2>1. Len(q) \in 1..Len(q) /\ Upto(q, Len(q)) = q
    BY <1>2, Whole
  <2>2. NodeAt(t, q).kind = "dir"
    BY <2>1, StopsAre
  <2>3. NodeAt(t, q) = Directory /\ Directory # Nothing
    BY <2>2, NodeKinds DEF Nothing, Directory
  <2> QED
    BY <2>3, NodeKinds DEF Descend
<1> QED
  BY <1>1, <1>2

LEMMA DescendAt ==
  ASSUME NEW t, IsTree(t), NEW q \in Path, NEW i, StopsAt(t, q, i)
  PROVE  LET node == NodeAt(t, Upto(q, i))
             rest == Past(q, i)
         IN /\ i \in 1..Len(q) /\ rest \in Path
            /\ node.kind \in {"none", "file", "link"}
            /\ node.kind = "none" => Descend(t, q) = [end |-> "absent"]
            /\ node.kind = "file" =>
                 Descend(t, q) = IF rest = <<>> THEN [end |-> "found", at |-> q] ELSE [end |-> "error"]
            /\ node.kind = "link" =>
                 /\ Descend(t, q) = [end |-> "link", to |-> node.to \o rest]
                 /\ node.to \in Path /\ node.to \o rest \in Path
<1> DEFINE node == NodeAt(t, Upto(q, i))
           rest == Past(q, i)
<1>1. i \in 1..Len(q) /\ node.kind # "dir" /\ Stops(t, q) # {}
  BY StopsAre DEF StopsAt
<1>2. Min(Stops(t, q)) = i
  <2>1. Stops(t, q) \subseteq Int
    BY LenProperties DEF Stops, Path
  <2> QED
    BY <2>1 DEF Min, StopsAt
<1>3. rest \in Path
  <2>1. i \in 0..Len(q)
    BY <1>1
  <2> QED
    BY <2>1, Cut
<1>4. node.kind \in {"none", "file", "link"} /\ (node.kind = "link" => node.to \in Path)
  BY <1>1, NodeKinds
<1>5. Descend(t, q) = CASE node.kind = "none" -> [end |-> "absent"]
                        [] node.kind = "file" -> IF rest = <<>> THEN [end |-> "found", at |-> q]
                                                                ELSE [end |-> "error"]
                        [] node.kind = "link" -> [end |-> "link", to |-> node.to \o rest]
  BY <1>1, <1>2 DEF Descend, Stopped, Upto, Past
<1> HIDE DEF node, rest
<1>6. node.kind = "link" => node.to \o rest \in Path
  BY <1>3, <1>4, Joined
<1>7. /\ node.kind = "none" => Descend(t, q) = [end |-> "absent"]
      /\ node.kind = "file" =>
           Descend(t, q) = IF rest = <<>> THEN [end |-> "found", at |-> q] ELSE [end |-> "error"]
      /\ node.kind = "link" => Descend(t, q) = [end |-> "link", to |-> node.to \o rest]
  BY <1>5
<1> QED
  BY <1>1, <1>3, <1>4, <1>6, <1>7 DEF node, rest

\* How a way down can end.
LEMMA DescendEnds ==
  ASSUME NEW t, IsTree(t), NEW q \in Path
  PROVE  LET d == Descend(t, q)
         IN /\ d.end \in {"found", "absent", "error", "link"}
            /\ d.end = "found" => d = [end |-> "found", at |-> q]
            /\ d.end = "absent" => d = [end |-> "absent"]
            /\ d.end = "error" => d = [end |-> "error"]
            /\ d.end = "link" => d.to \in Path /\ d = [end |-> "link", to |-> d.to]
<1>1. CASE Stops(t, q) = {}
  <2>1. Descend(t, q) = [end |-> "found", at |-> q]
    BY <1>1, DescendThrough
  <2> QED
    BY <2>1
<1>2. CASE Stops(t, q) # {}
  <2>1. PICK i : StopsAt(t, q, i)
    BY <1>2, StopsFirst
  <2> DEFINE node == NodeAt(t, Upto(q, i))
             rest == Past(q, i)
             to == node.to \o rest
  <2>2. /\ node.kind \in {"none", "file", "link"}
        /\ node.kind = "none" => Descend(t, q) = [end |-> "absent"]
        /\ node.kind = "file" =>
             Descend(t, q) = IF rest = <<>> THEN [end |-> "found", at |-> q] ELSE [end |-> "error"]
        /\ node.kind = "link" => Descend(t, q) = [end |-> "link", to |-> to] /\ to \in Path
    BY <2>1, DescendAt
  <2> HIDE DEF node, rest, to
  <2>3. CASE node.kind = "none"
    BY <2>2, <2>3
  <2>4. CASE node.kind = "file"
    BY <2>2, <2>4
  <2>5. CASE node.kind = "link"
    BY <2>2, <2>5
  <2> QED
    BY <2>2, <2>3, <2>4, <2>5
<1> QED
  BY <1>1, <1>2

\* What is found on the way down is there, and is a file if the way stopped.
LEMMA FoundThere ==
  ASSUME NEW t, IsTree(t), NEW p \in Path, Descend(t, p).end = "found"
  PROVE  p \in AllPaths /\ t[p].kind = IF Stops(t, p) = {} THEN "dir" ELSE "file"
<1>1. CASE Stops(t, p) = {}
  <2>1. p \in AllPaths /\ t[p] = Directory
    BY <1>1, DescendThrough
  <2> QED
    BY <1>1, <2>1 DEF Directory
<1>2. CASE Stops(t, p) # {}
  <2>1. PICK i : StopsAt(t, p, i)
    BY <1>2, StopsFirst
  <2> DEFINE node == NodeAt(t, Upto(p, i))
             rest == Past(p, i)
  <2>2. i \in 1..Len(p) /\ node.kind = "file" /\ rest = <<>>
    <3>1. /\ i \in 1..Len(p) /\ node.kind \in {"none", "file", "link"}
          /\ node.kind = "none" => Descend(t, p) = [end |-> "absent"]
          /\ node.kind = "file" =>
               Descend(t, p) = IF rest = <<>> THEN [end |-> "found", at |-> p] ELSE [end |-> "error"]
          /\ node.kind = "link" => Descend(t, p) = [end |-> "link", to |-> node.to \o rest]
      BY <2>1, DescendAt
    <3> HIDE DEF node, rest
    <3> QED
      BY <3>1
  <2>3. i = Len(p)
    <3>1. Len(p) \in Nat /\ i \in 0..Len(p)
      BY <2>2, LenProperties DEF Path
    <3>2. Len(rest) = Len(p) - i /\ Len(rest) = 0
      BY <2>2, <3>1, Cut, EmptySeq
    <3> QED
      BY <3>1, <3>2
  <2>4. node = NodeAt(t, p)
    BY <2>3, Whole
  <2> QED
    BY <1>2, <2>2, <2>4, NodeKinds DEF Nothing
<1> QED
  BY <1>1, <1>2

-----------------------------------------------------------------------------
(* Walks, by the number of links that may still be followed. *)

Onward(t, walk, links) ==
  [q \in Seq(Names) |->
     IF Descend(t, q).end # "link" THEN Descend(t, q)
     ELSE IF links = 0 THEN [end |-> "loop"] ELSE walk[links - 1][Descend(t, q).to]]

Walks(t) == CHOOSE walk : walk = [links \in 0..MaxLinks |-> Onward(t, walk, links)]

LEMMA WalkIs == ASSUME NEW t, NEW p PROVE Walk(t, p) = Walks(t)[MaxLinks][p]
BY DEF Walk, Walks, Onward, Further

\* The recursion that defines walks has a solution.
LEMMA WalksSolve == ASSUME NEW t PROVE Walks(t) = [links \in 0..MaxLinks |-> Onward(t, Walks(t), links)]
<1> USE PathsAssumption
<1> DEFINE Good(g, m) == g = [n \in 0..m |-> Onward(t, g, n)]
           S == {m \in 0..MaxLinks : \E g : Good(g, m)}
<1>1. 0 \in S
  <2> DEFINE e == [n \in 0..0 |-> Onward(t, <<>>, 0)]
  <2>1. Onward(t, e, 0) = Onward(t, <<>>, 0)
    BY DEF Onward
  <2>2. \A n \in 0..0 : n = 0
    OBVIOUS
  <2>3. Good(e, 0)
    BY <2>1, <2>2
  <2> QED
    BY <2>3
<1>2. ASSUME NEW m \in 0..MaxLinks - 1, m \in S PROVE m + 1 \in S
  <2>1. PICK g : Good(g, m)
    BY <1>2
  <2> DEFINE h == [n \in 0..m + 1 |-> IF n = m + 1 THEN Onward(t, g, n) ELSE g[n]]
  <2>2. h[m + 1] = Onward(t, g, m + 1) /\ \A n \in 0..m : h[n] = g[n]
    OBVIOUS
  <2>3. \A n \in 0..m : g[n] = Onward(t, g, n)
    BY <2>1
  <2>4. \A n \in 0..m + 1 : Onward(t, h, n) = Onward(t, g, n)
    <3> SUFFICES ASSUME NEW n \in 0..m + 1 PROVE Onward(t, h, n) = Onward(t, g, n)
      OBVIOUS
    <3>1. n # 0 => h[n - 1] = g[n - 1]
      OBVIOUS
    <3> HIDE DEF h
    <3> QED
      BY <3>1 DEF Onward
  <2>5. \A n \in 0..m + 1 : n = m + 1 \/ n \in 0..m
    OBVIOUS
  <2>6. \A n \in 0..m + 1 : h[n] = Onward(t, h, n)
    <3> HIDE DEF h
    <3> QED
      BY <2>2, <2>3, <2>4, <2>5
  <2>7. Good(h, m + 1)
    <3>1. h = [n \in 0..m + 1 |-> h[n]]
      OBVIOUS
    <3> HIDE DEF h
    <3> QED
      BY <2>6, <3>1
  <2>8. m + 1 \in 0..MaxLinks
    OBVIOUS
  <2> QED
    BY <2>7, <2>8
<1>3. \A m \in 0..MaxLinks : m \in S
  <2> HIDE DEF S
  <2>1. 0 \in Nat /\ MaxLinks \in Nat
    OBVIOUS
  <2> QED
    BY ONLY <1>1, <1>2, <2>1, Upwards
<1>4. \E g : Good(g, MaxLinks)
  <2>1. MaxLinks \in S
    <3> HIDE DEF S
    <3> QED
      BY <1>3
  <2> QED
    BY <2>1
<1> DEFINE F == CHOOSE g : Good(g, MaxLinks)
<1>5. Good(F, MaxLinks)
  BY <1>4
<1>6. F = Walks(t)
  BY DEF Walks
<1> QED
  BY <1>5, <1>6

LEMMA WalksDef ==
  ASSUME NEW t, NEW k \in 0..MaxLinks, NEW q \in Path
  PROVE  Walks(t)[k][q] = IF Descend(t, q).end # "link" THEN Descend(t, q)
                          ELSE IF k = 0 THEN [end |-> "loop"] ELSE Walks(t)[k - 1][Descend(t, q).to]
<1> DEFINE W == Walks(t)
<1>1. W[k] = Onward(t, W, k)
  <2>1. W = [links \in 0..MaxLinks |-> Onward(t, W, links)]
    BY WalksSolve
  <2> HIDE DEF W
  <2> QED
    BY <2>1
<1> HIDE DEF W
<1>2. W[k][q] = IF Descend(t, q).end # "link" THEN Descend(t, q)
                ELSE IF k = 0 THEN [end |-> "loop"] ELSE W[k - 1][Descend(t, q).to]
  BY <1>1 DEF Onward, Path
<1> QED
  BY <1>2 DEF W

LEMMA WalksFirst ==
  ASSUME NEW t, NEW q \in Path
  PROVE  Walks(t)[0][q] = IF Descend(t, q).end # "link" THEN Descend(t, q) ELSE [end |-> "loop"]
<1>1. 0 \in 0..MaxLinks
  BY PathsAssumption
<1> QED
  BY <1>1, WalksDef

LEMMA WalksNext ==
  ASSUME NEW t, NEW q \in Path, NEW k \in 0..MaxLinks - 1
  PROVE  Walks(t)[k + 1][q] = IF Descend(t, q).end # "link" THEN Descend(t, q)
                              ELSE Walks(t)[k][Descend(t, q).to]
<1>1. k + 1 \in 0..MaxLinks /\ k + 1 # 0 /\ (k + 1) - 1 = k
  BY PathsAssumption
<1> QED
  BY <1>1, WalksDef

\* What a walk finds is there, has no link on its way, and is found by its own name.
LEMMA WalkFinds ==
  ASSUME NEW t, IsTree(t), NEW k \in 0..MaxLinks, NEW q \in Path, Walks(t)[k][q].end = "found"
  PROVE  LET e == Walks(t)[k][q].at
         IN /\ Walks(t)[k][q] = [end |-> "found", at |-> e]
            /\ e \in AllPaths /\ e \in Path /\ t[e].kind \in {"dir", "file"}
            /\ Descend(t, e) = [end |-> "found", at |-> e]
<1> USE PathsAssumption
<1> DEFINE Fine(w) == /\ w = [end |-> "found", at |-> w.at]
                      /\ w.at \in AllPaths /\ w.at \in Path /\ t[w.at].kind \in {"dir", "file"}
                      /\ Descend(t, w.at) = [end |-> "found", at |-> w.at]
           S == {n \in 0..MaxLinks : \A p \in Path : Walks(t)[n][p].end = "found" => Fine(Walks(t)[n][p])}
<1>1. ASSUME NEW p \in Path, Descend(t, p).end = "found" PROVE Fine(Descend(t, p))
  <2>1. Descend(t, p) = [end |-> "found", at |-> p] /\ p \in AllPaths /\ t[p].kind \in {"dir", "file"}
    BY <1>1, DescendEnds, FoundThere
  <2> QED
    BY <1>1, <2>1
<1>2. \A p \in Path : Descend(t, p).end = "link" => Descend(t, p).to \in Path
  BY DescendEnds
<1> HIDE DEF Fine
<1>3. 0 \in S
  <2>1. \A p \in Path : Walks(t)[0][p] = IF Descend(t, p).end # "link" THEN Descend(t, p) ELSE [end |-> "loop"]
    BY WalksFirst
  <2> QED
    BY <1>1, <2>1
<1>4. ASSUME NEW n \in 0..MaxLinks - 1, n \in S PROVE n + 1 \in S
  <2>1. \A p \in Path : Walks(t)[n + 1][p] = IF Descend(t, p).end # "link" THEN Descend(t, p)
                                             ELSE Walks(t)[n][Descend(t, p).to]
    BY WalksNext
  <2> QED
    BY <1>1, <1>2, <1>4, <2>1
<1>5. \A n \in 0..MaxLinks : n \in S
  <2> HIDE DEF S
  <2>1. 0 \in Nat /\ MaxLinks \in Nat
    OBVIOUS
  <2> QED
    BY ONLY <1>3, <1>4, <2>1, Upwards
<1>6. k \in S
  <2> HIDE DEF S
  <2> QED
    BY <1>5
<1> QED
  BY <1>6 DEF Fine

-----------------------------------------------------------------------------
(* One name more. *)

LEMMA DescendAppend ==
  ASSUME NEW t, IsTree(t), NEW q \in Path, NEW n \in Names
  PROVE  LET a == Append(q, n)
             d == Descend(t, q)
             e == Descend(t, a)
             node == NodeAt(t, a)
         IN /\ a \in Path
            /\ d.end = "absent" => e = [end |-> "absent"]
            /\ d.end = "error" => e = [end |-> "error"]
            /\ d.end = "link" => e = [end |-> "link", to |-> Append(d.to, n)]
            /\ d.end = "found" /\ t[q].kind = "file" => e = [end |-> "error"]
            /\ d.end = "found" /\ t[q].kind = "dir" =>
                 /\ node.kind = "none" => e = [end |-> "absent"]
                 /\ node.kind \in {"dir", "file"} => e = [end |-> "found", at |-> a]
                 /\ node.kind = "link" => e = [end |-> "link", to |-> node.to]
<1> DEFINE a == Append(q, n)
           d == Descend(t, q)
           e == Descend(t, a)
<1>0. Len(q) \in Nat
  BY LenProperties DEF Path
<1>1. /\ a \in Path /\ Len(a) = Len(q) + 1
      /\ \A i \in 0..Len(q) : Upto(a, i) = Upto(q, i) /\ Past(a, i) = Append(Past(q, i), n)
      /\ Upto(a, Len(a)) = a /\ Past(a, Len(a)) = <<>>
  BY Appended, CutAppend, Whole
<1> HIDE DEF a
<1>2. CASE Stops(t, q) # {}
  <2>1. PICK i : StopsAt(t, q, i)
    BY <1>2, StopsFirst
  <2>2. i \in 1..Len(q) /\ i \in 0..Len(q)
    BY <1>0, <2>1, DescendAt
  <2>3. StopsAt(t, a, i)
    <3>1. i \in Stops(t, a)
      <4>1. Upto(a, i) = Upto(q, i) /\ i \in 1..Len(a)
        BY <1>0, <1>1, <2>2
      <4>2. NodeAt(t, Upto(q, i)).kind # "dir"
        BY <2>1, StopsAre DEF StopsAt
      <4> QED
        BY <4>1, <4>2, StopsAre
    <3>2. ASSUME NEW j \in Stops(t, a) PROVE i <= j
      <4>1. j \in 1..Len(q) + 1
        BY <1>1, StopsAre
      <4>2. CASE j \in 1..Len(q)
        <5>1. j \in Stops(t, q)
          <6>1. Upto(a, j) = Upto(q, j)
            BY <1>0, <1>1, <4>2
          <6>2. NodeAt(t, Upto(a, j)).kind # "dir"
            BY StopsAre
          <6> QED
            BY <4>2, <6>1, <6>2, StopsAre
        <5> QED
          BY <2>1, <5>1 DEF StopsAt
      <4> QED
        BY <1>0, <2>2, <4>1, <4>2
    <3> QED
      BY <3>1, <3>2 DEF StopsAt
  <2> DEFINE node == NodeAt(t, Upto(q, i))
             rest == Past(q, i)
             more == Append(rest, n)
             to == node.to \o rest
  <2>4. /\ node.kind \in {"none", "file", "link"} /\ rest \in Path
        /\ node.kind = "none" => d = [end |-> "absent"]
        /\ node.kind = "file" => d = IF rest = <<>> THEN [end |-> "found", at |-> q] ELSE [end |-> "error"]
        /\ node.kind = "link" => d = [end |-> "link", to |-> to] /\ node.to \in Path
    BY <2>1, DescendAt
  <2>5. /\ node.kind = "none" => e = [end |-> "absent"]
        /\ node.kind = "file" => e = IF more = <<>> THEN [end |-> "found", at |-> a] ELSE [end |-> "error"]
        /\ node.kind = "link" => e = [end |-> "link", to |-> node.to \o more]
    <3>1. Upto(a, i) = Upto(q, i) /\ Past(a, i) = more
      BY <1>1, <2>2
    <3> DEFINE node2 == NodeAt(t, Upto(a, i))
               rest2 == Past(a, i)
    <3>2. /\ node2.kind = "none" => e = [end |-> "absent"]
          /\ node2.kind = "file" => e = IF rest2 = <<>> THEN [end |-> "found", at |-> a] ELSE [end |-> "error"]
          /\ node2.kind = "link" => e = [end |-> "link", to |-> node2.to \o rest2]
      BY <1>1, <2>3, DescendAt
    <3>3. node2 = node /\ rest2 = more
      BY <3>1
    <3> HIDE DEF node, rest, node2, rest2, more
    <3> QED
      BY <3>2, <3>3
  <2>6. more # <<>>
    <3> HIDE DEF rest
    <3> QED
      BY <2>4, Appended
  <2>7. node.kind = "link" => node.to \o more = Append(to, n)
    <3> HIDE DEF rest
    <3> QED
      BY <2>4, JoinedAppend
  <2>8. d.end = "found" => t[q].kind = "file"
    BY <1>2, FoundThere
  <2> HIDE DEF node, rest, more, to, d, e
  <2>9. CASE node.kind = "none"
    BY <1>1, <2>4, <2>5, <2>9 DEF a, d, e
  <2>10. CASE node.kind = "file"
    <3>1. e = [end |-> "error"] /\ d.end \in {"found", "error"}
      BY <2>4, <2>5, <2>6, <2>10
    <3> QED
      BY <1>1, <2>8, <3>1 DEF a, d, e
  <2>11. CASE node.kind = "link"
    <3>1. d = [end |-> "link", to |-> to] /\ e = [end |-> "link", to |-> Append(to, n)]
      BY <2>4, <2>5, <2>7, <2>11
    <3>2. d.end = "link" /\ d.to = to
      BY <3>1
    <3> QED
      BY <1>1, <3>1, <3>2 DEF a, d, e
  <2> QED
    BY <2>4, <2>9, <2>10, <2>11
<1>3. CASE Stops(t, q) = {}
  <2>1. d = [end |-> "found", at |-> q] /\ q \in AllPaths /\ t[q] = Directory
    BY <1>3, DescendThrough
  <2>2. \A j \in Stops(t, a) : j = Len(a)
    <3> SUFFICES ASSUME NEW j \in Stops(t, a) PROVE j = Len(a)
      OBVIOUS
    <3>1. j \in 1..Len(q) + 1
      BY <1>1, StopsAre
    <3>2. ASSUME j \in 1..Len(q) PROVE FALSE
      <4>1. Upto(a, j) = Upto(q, j)
        BY <1>0, <1>1, <3>2
      <4>2. NodeAt(t, Upto(a, j)).kind # "dir"
        BY StopsAre
      <4>3. j \in Stops(t, q)
        BY <3>2, <4>1, <4>2, StopsAre
      <4> QED
        BY <1>3, <4>3
    <3> QED
      BY <1>0, <1>1, <3>1, <3>2
  <2> DEFINE node == NodeAt(t, a)
  <2>3. CASE node.kind = "dir"
    <3>1. Stops(t, a) = {}
      BY <1>1, <2>2, <2>3, StopsAre
    <3>2. e = [end |-> "found", at |-> a]
      BY <1>1, <3>1, DescendThrough
    <3> QED
      BY <1>1, <2>1, <2>3, <3>2 DEF a, Directory
  <2>4. CASE node.kind # "dir"
    <3>1. StopsAt(t, a, Len(a))
      <4>1. Len(a) \in 1..Len(a) /\ NodeAt(t, Upto(a, Len(a))).kind # "dir"
        BY <1>0, <1>1, <2>4
      <4>2. Len(a) \in Stops(t, a)
        BY <4>1, StopsAre
      <4> QED
        BY <1>0, <1>1, <2>2, <4>2 DEF StopsAt
    <3> DEFINE node2 == NodeAt(t, Upto(a, Len(a)))
               rest2 == Past(a, Len(a))
    <3>2. /\ node2.kind = "none" => e = [end |-> "absent"]
          /\ node2.kind = "file" => e = IF rest2 = <<>> THEN [end |-> "found", at |-> a] ELSE [end |-> "error"]
          /\ node2.kind = "link" => e = [end |-> "link", to |-> node2.to \o rest2] /\ node2.to \in Path
      BY <1>1, <3>1, DescendAt
    <3>3. node2 = node /\ rest2 = <<>>
      BY <1>1
    <3>4. node.kind = "link" => node.to \o <<>> = node.to
      BY NodeKinds, Joined
    <3> HIDE DEF node2, rest2, node
    <3>5. /\ node.kind = "none" => e = [end |-> "absent"]
          /\ node.kind = "file" => e = [end |-> "found", at |-> a]
          /\ node.kind = "link" => e = [end |-> "link", to |-> node.to]
      BY <3>2, <3>3, <3>4
    <3> QED
      BY <1>1, <2>1, <2>4, <3>5 DEF a, d, e, node, Directory
  <2> QED
    BY <2>3, <2>4
<1> QED
  BY <1>2, <1>3

\* A walk of one name more: it fails where the shorter one fails, and below a
\* file; below a directory it ends at the name, or goes on behind its link.
LEMMA OneNameMore ==
  ASSUME NEW t, IsTree(t), NEW k \in 0..MaxLinks, NEW q \in Path, NEW n \in Names
  PROVE  LET w == Walks(t)[k][q]
             v == Walks(t)[k][Append(q, n)]
             x == Append(w.at, n)
             node == NodeAt(t, x)
         IN /\ w.end \in {"found", "absent", "error", "loop"}
            /\ w.end # "found" => v.end = w.end
            /\ w.end = "found" /\ t[w.at].kind = "file" => v.end = "error"
            /\ w.end = "found" /\ t[w.at].kind = "dir" =>
                 /\ node.kind = "none" => v.end = "absent"
                 /\ node.kind \in {"dir", "file"} => v = [end |-> "found", at |-> x]
                 /\ node.kind = "link" => v.end = "loop" \/ \E j \in 0..MaxLinks : v = Walks(t)[j][node.to]
<1> USE PathsAssumption
<1> DEFINE Fine(w, v) ==
             LET x == Append(w.at, n)
                 node == NodeAt(t, x)
             IN /\ w.end \in {"found", "absent", "error", "loop"}
                /\ w.end # "found" => v.end = w.end
                /\ w.end = "found" /\ t[w.at].kind = "file" => v.end = "error"
                /\ w.end = "found" /\ t[w.at].kind = "dir" =>
                     /\ node.kind = "none" => v.end = "absent"
                     /\ node.kind \in {"dir", "file"} => v = [end |-> "found", at |-> x]
                     /\ node.kind = "link" => v.end = "loop" \/ \E j \in 0..MaxLinks : v = Walks(t)[j][node.to]
           Claim(m, p) == Fine(Walks(t)[m][p], Walks(t)[m][Append(p, n)])
           S == {m \in 0..MaxLinks : \A p \in Path : Claim(m, p)}
<1>1. ASSUME NEW m \in 0..MaxLinks, NEW p \in Path, Descend(t, p).end # "link" PROVE Claim(m, p)
  <2> DEFINE a == Append(p, n)
             d == Descend(t, p)
             e == Descend(t, a)
             node == NodeAt(t, a)
  <2>1. /\ a \in Path
        /\ d.end = "absent" => e = [end |-> "absent"]
        /\ d.end = "error" => e = [end |-> "error"]
        /\ d.end = "found" /\ t[p].kind = "file" => e = [end |-> "error"]
        /\ d.end = "found" /\ t[p].kind = "dir" =>
             /\ node.kind = "none" => e = [end |-> "absent"]
             /\ node.kind \in {"dir", "file"} => e = [end |-> "found", at |-> a]
             /\ node.kind = "link" => e = [end |-> "link", to |-> node.to]
    BY DescendAppend
  <2>2. d.end \in {"found", "absent", "error"} /\ (d.end = "found" => d.at = p)
    BY <1>1, DescendEnds
  <2>3. Walks(t)[m][p] = d
    BY <1>1, WalksDef
  <2>4. Walks(t)[m][a] = IF e.end # "link" THEN e
                         ELSE IF m = 0 THEN [end |-> "loop"] ELSE Walks(t)[m - 1][e.to]
    BY <2>1, WalksDef
  <2>5. m # 0 => m - 1 \in 0..MaxLinks
    OBVIOUS
  <2> DEFINE v == Walks(t)[m][a]
  <2>6. /\ d.end = "absent" => v.end = "absent"
        /\ d.end = "error" => v.end = "error"
        /\ d.end = "found" /\ t[p].kind = "file" => v.end = "error"
        /\ d.end = "found" /\ t[p].kind = "dir" =>
             /\ node.kind = "none" => v.end = "absent"
             /\ node.kind \in {"dir", "file"} => v = [end |-> "found", at |-> a]
             /\ node.kind = "link" => v.end = "loop" \/ \E j \in 0..MaxLinks : v = Walks(t)[j][node.to]
    <3> HIDE DEF a, d, e, node
    <3> QED
      BY <2>1, <2>4, <2>5
  <2>7. Fine(d, v)
    <3> HIDE DEF d, v
    <3> QED
      BY <2>2, <2>6
  <2> HIDE DEF Fine
  <2> QED
    BY <2>3, <2>7
<1>2. 0 \in S
  <2> SUFFICES ASSUME NEW p \in Path, Descend(t, p).end = "link" PROVE Claim(0, p)
    BY <1>1
  <2>1. Append(p, n) \in Path /\ Descend(t, Append(p, n)).end = "link"
    BY DescendAppend
  <2>2. Walks(t)[0][p] = [end |-> "loop"] /\ Walks(t)[0][Append(p, n)] = [end |-> "loop"]
    BY <2>1, WalksFirst
  <2> QED
    BY <2>2
<1>3. ASSUME NEW m \in 0..MaxLinks - 1, m \in S PROVE m + 1 \in S
  <2>0. m + 1 \in 0..MaxLinks
    OBVIOUS
  <2>1. ASSUME NEW p \in Path, Descend(t, p).end = "link" PROVE Claim(m + 1, p)
    <3>1. Descend(t, p).to \in Path
      BY <2>1, DescendEnds
    <3>2. /\ Append(p, n) \in Path
          /\ Descend(t, Append(p, n)) = [end |-> "link", to |-> Append(Descend(t, p).to, n)]
      BY <2>1, DescendAppend
    <3>3. /\ Walks(t)[m + 1][p] = Walks(t)[m][Descend(t, p).to]
          /\ Walks(t)[m + 1][Append(p, n)] = Walks(t)[m][Append(Descend(t, p).to, n)]
      <4>1. Descend(t, Append(p, n)).end = "link" /\ Descend(t, Append(p, n)).to = Append(Descend(t, p).to, n)
        BY <3>2
      <4>2. Walks(t)[m + 1][p] = Walks(t)[m][Descend(t, p).to]
        BY <2>1, WalksNext
      <4>3. Walks(t)[m + 1][Append(p, n)] = Walks(t)[m][Descend(t, Append(p, n)).to]
        BY <3>2, <4>1, WalksNext
      <4> QED
        BY <4>1, <4>2, <4>3
    <3>4. Claim(m, Descend(t, p).to)
      BY <1>3, <3>1
    <3> HIDE DEF Fine
    <3> QED
      BY <3>3, <3>4
  <2> HIDE DEF Claim
  <2> QED
    BY <1>1, <2>0, <2>1
<1>4. \A m \in 0..MaxLinks : m \in S
  <2> HIDE DEF S
  <2>1. 0 \in Nat /\ MaxLinks \in Nat
    OBVIOUS
  <2> QED
    BY ONLY <1>2, <1>3, <2>1, Upwards
<1>5. Claim(k, q)
  <2>1. k \in S
    <3> HIDE DEF S
    <3> QED
      BY <1>4
  <2> HIDE DEF Claim
  <2> QED
    BY <2>1
<1> QED
  BY <1>5

-----------------------------------------------------------------------------
(* Other trees, and more links. *)

\* Where a tree has only grown, what was found is found.
LEMMA GrownTree ==
  ASSUME NEW t, IsTree(t), NEW u, IsTree(u),
         \A x \in AllPaths : t[x] # Nothing => u[x] = t[x],
         NEW k \in 0..MaxLinks, NEW q \in Path, Walks(t)[k][q].end = "found"
  PROVE  Walks(u)[k][q] = Walks(t)[k][q]
<1> USE PathsAssumption
<1> DEFINE S == {m \in 0..MaxLinks :
                   \A p \in Path : Walks(t)[m][p].end = "found" => Walks(u)[m][p] = Walks(t)[m][p]}
<1>1. ASSUME NEW p \in Path, Descend(t, p).end \in {"found", "link"} PROVE Descend(u, p) = Descend(t, p)
  <2>1. ASSUME NEW x, NodeAt(t, x) # Nothing PROVE NodeAt(u, x) = NodeAt(t, x)
    BY <2>1, NodeKinds
  <2>2. CASE Stops(t, p) = {}
    <3>1. \A j \in 1..Len(p) : NodeAt(t, Upto(p, j)).kind = "dir"
      BY <2>2, StopsAre
    <3>2. \A j \in 1..Len(p) : NodeAt(u, Upto(p, j)).kind = "dir"
      BY <2>1, <3>1 DEF Nothing
    <3>3. Stops(u, p) = {}
      BY <3>2, StopsAre
    <3> QED
      BY <2>2, <3>3, DescendThrough
  <2>3. CASE Stops(t, p) # {}
    <3>1. PICK i : StopsAt(t, p, i)
      BY <2>3, StopsFirst
    <3>2. i \in 1..Len(p) /\ NodeAt(t, Upto(p, i)).kind \in {"file", "link"}
      BY <1>1, <3>1, DescendAt
    <3>3. NodeAt(u, Upto(p, i)) = NodeAt(t, Upto(p, i))
      BY <2>1, <3>2 DEF Nothing
    <3>4. StopsAt(u, p, i)
      <4>1. i \in Stops(u, p)
        BY <3>2, <3>3, StopsAre
      <4>2. ASSUME NEW j \in Stops(u, p) PROVE i <= j
        <5>1. Len(p) \in Nat /\ j \in 1..Len(p) /\ NodeAt(u, Upto(p, j)).kind # "dir"
          BY Whole, StopsAre
        <5>2. NodeAt(t, Upto(p, j)).kind # "dir"
          BY <2>1, <5>1 DEF Nothing
        <5>3. j \in Stops(t, p)
          BY <5>1, <5>2, StopsAre
        <5> QED
          BY <3>1, <5>3 DEF StopsAt
      <4> QED
        BY <4>1, <4>2 DEF StopsAt
    <3> DEFINE node == NodeAt(t, Upto(p, i))
               node2 == NodeAt(u, Upto(p, i))
               rest == Past(p, i)
    <3>5. /\ node.kind = "file" =>
               Descend(t, p) = IF rest = <<>> THEN [end |-> "found", at |-> p] ELSE [end |-> "error"]
          /\ node.kind = "link" => Descend(t, p) = [end |-> "link", to |-> node.to \o rest]
      BY <3>1, DescendAt
    <3>6. /\ node2.kind = "file" =>
               Descend(u, p) = IF rest = <<>> THEN [end |-> "found", at |-> p] ELSE [end |-> "error"]
          /\ node2.kind = "link" => Descend(u, p) = [end |-> "link", to |-> node2.to \o rest]
      BY <3>4, DescendAt
    <3> HIDE DEF node, node2, rest
    <3>7. node2 = node /\ node.kind \in {"file", "link"}
      BY <3>2, <3>3 DEF node, node2
    <3>8. CASE node.kind = "file"
      BY <3>5, <3>6, <3>7, <3>8
    <3>9. CASE node.kind = "link"
      BY <3>5, <3>6, <3>7, <3>9
    <3> QED
      BY <3>7, <3>8, <3>9
  <2> QED
    BY <2>2, <2>3
<1>2. ASSUME NEW p \in Path, Descend(t, p).end = "link" PROVE Descend(t, p).to \in Path
  BY <1>2, DescendEnds
<1>3. 0 \in S
  <2> SUFFICES ASSUME NEW p \in Path, Walks(t)[0][p].end = "found"
               PROVE  Walks(u)[0][p] = Walks(t)[0][p]
    OBVIOUS
  <2>1. Descend(t, p).end # "link" /\ Walks(t)[0][p] = Descend(t, p)
    BY WalksFirst
  <2>2. Descend(u, p) = Descend(t, p)
    BY <1>1, <2>1
  <2> QED
    BY <2>1, <2>2, WalksFirst
<1>4. ASSUME NEW m \in 0..MaxLinks - 1, m \in S PROVE m + 1 \in S
  <2>0. m + 1 \in 0..MaxLinks
    OBVIOUS
  <2>1. ASSUME NEW p \in Path, Walks(t)[m + 1][p].end = "found"
        PROVE  Walks(u)[m + 1][p] = Walks(t)[m + 1][p]
    <3>1. /\ Walks(t)[m + 1][p] = IF Descend(t, p).end # "link" THEN Descend(t, p)
                                  ELSE Walks(t)[m][Descend(t, p).to]
          /\ Walks(u)[m + 1][p] = IF Descend(u, p).end # "link" THEN Descend(u, p)
                                  ELSE Walks(u)[m][Descend(u, p).to]
      BY WalksNext
    <3>2. CASE Descend(t, p).end # "link"
      <4>1. Descend(u, p) = Descend(t, p)
        BY <1>1, <2>1, <3>1, <3>2
      <4> QED
        BY <3>1, <3>2, <4>1
    <3>3. CASE Descend(t, p).end = "link"
      <4>1. Descend(u, p) = Descend(t, p) /\ Descend(t, p).to \in Path
        BY <1>1, <1>2, <3>3
      <4>2. Walks(u)[m][Descend(t, p).to] = Walks(t)[m][Descend(t, p).to]
        BY <1>4, <2>1, <3>1, <3>3, <4>1
      <4> QED
        BY <3>1, <3>3, <4>1, <4>2
    <3> QED
      BY <3>2, <3>3
  <2> QED
    BY <2>0, <2>1
<1>5. \A m \in 0..MaxLinks : m \in S
  <2> HIDE DEF S
  <2>1. 0 \in Nat /\ MaxLinks \in Nat
    OBVIOUS
  <2> QED
    BY ONLY <1>3, <1>4, <2>1, Upwards
<1>6. k \in S
  <2> HIDE DEF S
  <2> QED
    BY <1>5
<1> QED
  BY <1>6

-----------------------------------------------------------------------------
(* filepath.EvalSymlinks, os.Stat, os.Lstat. *)

LEMMA EvalIs ==
  ASSUME NEW t, IsTree(t), NEW p \in Path
  PROVE  /\ Walk(t, p).end \in {"found", "absent", "error", "loop"}
         /\ Walk(t, p).end # "found" => EvalSymlinks(t, p) = {}
         /\ \A e \in EvalSymlinks(t, p) :
              /\ Walk(t, p) = [end |-> "found", at |-> e] /\ EvalSymlinks(t, p) = {e}
              /\ e \in AllPaths /\ e \in Path /\ t[e].kind \in {"dir", "file"} /\ Stat(t, p) = t[e]
              /\ t[e].kind = "dir" <=> t[e] = Directory
              /\ EvalSymlinks(t, e) = {e}
<1>0. MaxLinks \in 0..MaxLinks
  BY PathsAssumption
<1>1. Walk(t, p).end \in {"found", "absent", "error", "loop"}
  <2> DEFINE S == {m \in 0..MaxLinks :
                     \A q \in Path : Walks(t)[m][q].end \in {"found", "absent", "error", "loop"}}
  <2>1. 0 \in S
    <3>1. ASSUME NEW q \in Path PROVE Walks(t)[0][q].end \in {"found", "absent", "error", "loop"}
      BY WalksFirst, DescendEnds
    <3> QED
      BY <1>0, <3>1, PathsAssumption
  <2>2. ASSUME NEW m \in 0..MaxLinks - 1, m \in S PROVE m + 1 \in S
    <3>1. ASSUME NEW q \in Path PROVE Walks(t)[m + 1][q].end \in {"found", "absent", "error", "loop"}
      <4>1. Walks(t)[m + 1][q] = IF Descend(t, q).end # "link" THEN Descend(t, q)
                                 ELSE Walks(t)[m][Descend(t, q).to]
        BY WalksNext
      <4>2. /\ Descend(t, q).end \in {"found", "absent", "error", "link"}
            /\ Descend(t, q).end = "link" => Descend(t, q).to \in Path
        BY DescendEnds
      <4> QED
        BY <2>2, <4>1, <4>2
    <3> QED
      BY <3>1, PathsAssumption
  <2>3. \A m \in 0..MaxLinks : m \in S
    <3> HIDE DEF S
    <3>1. 0 \in Nat /\ MaxLinks \in Nat
      BY PathsAssumption
    <3> QED
      BY ONLY <2>1, <2>2, <3>1, Upwards
  <2>4. Walks(t)[MaxLinks][p].end \in {"found", "absent", "error", "loop"}
    BY <1>0, <2>3
  <2> QED
    BY <2>4, WalkIs
<1>2. Walk(t, p).end # "found" => EvalSymlinks(t, p) = {}
  BY DEF EvalSymlinks
<1>3. ASSUME NEW e \in EvalSymlinks(t, p)
      PROVE  /\ Walk(t, p) = [end |-> "found", at |-> e] /\ EvalSymlinks(t, p) = {e}
             /\ e \in AllPaths /\ e \in Path /\ t[e].kind \in {"dir", "file"} /\ Stat(t, p) = t[e]
             /\ t[e].kind = "dir" <=> t[e] = Directory
             /\ EvalSymlinks(t, e) = {e}
  <2>1. Walk(t, p).end = "found" /\ e = Walk(t, p).at /\ EvalSymlinks(t, p) = {e} /\ Stat(t, p) = t[e]
    BY DEF EvalSymlinks, Stat
  <2>2. /\ Walk(t, p) = [end |-> "found", at |-> e]
        /\ e \in AllPaths /\ e \in Path /\ t[e].kind \in {"dir", "file"}
        /\ Descend(t, e) = [end |-> "found", at |-> e]
    BY <1>0, <2>1, WalkIs, WalkFinds
  <2>3. Walk(t, e) = [end |-> "found", at |-> e]
    BY <1>0, <2>2, WalkIs, WalksDef
  <2>4. EvalSymlinks(t, e) = {e}
    BY <2>3 DEF EvalSymlinks
  <2>5. t[e].kind = "dir" <=> t[e] = Directory
    BY <2>2, NodeKinds
  <2> QED
    BY <2>1, <2>2, <2>4, <2>5
<1> QED
  BY <1>1, <1>2, <1>3

LEMMA PlaceIs ==
  ASSUME NEW t, IsTree(t), NEW p \in Path, p # <<>>, NEW q \in Place(t, p)
  PROVE  \E d \in EvalSymlinks(t, Front(p)) : t[d] = Directory /\ q = Append(d, Last(p)) /\ Place(t, p) = {q}
<1>1. PICK d \in EvalSymlinks(t, Front(p)) : t[d] = Directory /\ q = Append(d, Last(p))
  BY DEF Place
<1>2. EvalSymlinks(t, Front(p)) = {d}
  BY FrontLast, EvalIs
<1>3. Place(t, p) = {q}
  BY <1>1, <1>2 DEF Place
<1> QED
  BY <1>1, <1>3

LEMMA OneNameMoreWalk ==
  ASSUME NEW t, IsTree(t), NEW p \in Path, p # <<>>
  PROVE  LET w == Walk(t, Front(p))
             v == Walk(t, p)
             x == Append(w.at, Last(p))
             node == NodeAt(t, x)
         IN /\ w.end # "found" => v.end = w.end
            /\ w.end = "found" /\ t[w.at].kind = "file" => v.end = "error"
            /\ w.end = "found" /\ t[w.at].kind = "dir" =>
                 /\ node.kind = "none" => v.end = "absent"
                 /\ node.kind \in {"dir", "file"} => v = [end |-> "found", at |-> x]
<1>1. MaxLinks \in 0..MaxLinks
  BY PathsAssumption
<1>2. Front(p) \in Path /\ Last(p) \in Names /\ p = Append(Front(p), Last(p))
  BY FrontLast
<1> DEFINE w == Walks(t)[MaxLinks][Front(p)]
           v == Walks(t)[MaxLinks][Append(Front(p), Last(p))]
           x == Append(w.at, Last(p))
           node == NodeAt(t, x)
<1>3. /\ w.end # "found" => v.end = w.end
      /\ w.end = "found" /\ t[w.at].kind = "file" => v.end = "error"
      /\ w.end = "found" /\ t[w.at].kind = "dir" =>
           /\ node.kind = "none" => v.end = "absent"
           /\ node.kind \in {"dir", "file"} => v = [end |-> "found", at |-> x]
  <2>1. /\ w.end \in {"found", "absent", "error", "loop"}
        /\ w.end # "found" => v.end = w.end
        /\ w.end = "found" /\ t[w.at].kind = "file" => v.end = "error"
        /\ w.end = "found" /\ t[w.at].kind = "dir" =>
             /\ node.kind = "none" => v.end = "absent"
             /\ node.kind \in {"dir", "file"} => v = [end |-> "found", at |-> x]
             /\ node.kind = "link" => v.end = "loop" \/ \E j \in 0..MaxLinks : v = Walks(t)[j][node.to]
    BY <1>1, <1>2, OneNameMore
  <2> HIDE DEF w, v, x, node
  <2> QED
    BY <2>1
<1>4. Walk(t, Front(p)) = w /\ Walk(t, p) = v
  BY <1>2, WalkIs
<1> HIDE DEF v, w
<1> QED
  BY <1>3, <1>4

\* What a walk finds, Lstat finds; what Lstat does not find is not there.
LEMMA LstatIs ==
  ASSUME NEW t, IsTree(t), NEW p \in Path
  PROVE  /\ Walk(t, p).end = "found" => Lstat(t, p) = "found"
         /\ Lstat(t, p) = "absent" =>
              /\ p # <<>> /\ Walk(t, p).end = "absent"
              /\ \A q \in Place(t, p) : NodeAt(t, q) = Nothing
         /\ Lstat(t, p) \in {"found", "absent", "error"}
<1>1. CASE p = <<>>
  BY <1>1 DEF Lstat
<1>2. CASE p # <<>>
  <2> DEFINE f == Walk(t, Front(p))
  <2>1. Front(p) \in Path
    BY <1>2, FrontLast
  <2>2. Lstat(t, p) = IF Place(t, p) # {}
                      THEN IF \E q \in Place(t, p) : NodeAt(t, q) # Nothing THEN "found" ELSE "absent"
                      ELSE IF Walk(t, Front(p)).end = "absent" THEN "absent" ELSE "error"
    BY <1>2 DEF Lstat
  <2>3. CASE f.end = "found" /\ t[f.at].kind = "dir"
    <3>1. f.at \in EvalSymlinks(t, Front(p))
      BY <2>3 DEF EvalSymlinks
    <3>2. t[f.at] = Directory /\ EvalSymlinks(t, Front(p)) = {f.at}
      BY <2>1, <2>3, <3>1, EvalIs
    <3>3. Place(t, p) = {Append(f.at, Last(p))}
      BY <1>2, <3>2 DEF Place
    <3> DEFINE node == NodeAt(t, Append(f.at, Last(p)))
    <3>4. node.kind = "none" => Walk(t, p).end = "absent"
      BY <1>2, <2>3, OneNameMoreWalk
    <3>5. node.kind = "none" <=> node = Nothing
      BY NodeKinds
    <3> QED
      BY <1>2, <2>2, <3>3, <3>4, <3>5
  <2>4. CASE ~(f.end = "found" /\ t[f.at].kind = "dir")
    <3>1. Place(t, p) = {}
      <4>1. \A d \in EvalSymlinks(t, Front(p)) : t[d] # Directory
        <5> SUFFICES ASSUME NEW d \in EvalSymlinks(t, Front(p)), t[d] = Directory PROVE FALSE
          OBVIOUS
        <5>1. f = [end |-> "found", at |-> d]
          BY <2>1, EvalIs
        <5>2. t[d].kind = "dir"
          BY DEF Directory
        <5> QED
          BY <2>4, <5>1, <5>2
      <4> QED
        BY <1>2, <4>1 DEF Place
    <3>2. f.end = "found" => Walk(t, p).end = "error"
      <4> SUFFICES ASSUME f.end = "found" PROVE Walk(t, p).end = "error"
        OBVIOUS
      <4>1. f.at \in EvalSymlinks(t, Front(p))
        BY DEF EvalSymlinks
      <4>2. t[f.at].kind \in {"dir", "file"}
        BY <2>1, <4>1, EvalIs
      <4> QED
        BY <1>2, <2>4, <4>2, OneNameMoreWalk
    <3>3. f.end # "found" => Walk(t, p).end = f.end
      BY <1>2, OneNameMoreWalk
    <3> QED
      BY <1>2, <2>2, <3>1, <3>2, <3>3
  <2> QED
    BY <2>3, <2>4
<1> QED
  BY <1>1, <1>2

LEMMA UptoNext ==
  ASSUME NEW p \in Path, NEW i \in 0..Len(p) - 1
  PROVE  /\ p[i + 1] \in Names /\ Upto(p, i) \in Path
         /\ Upto(p, i + 1) \in Path /\ Upto(p, i + 1) # <<>>
         /\ Upto(p, i + 1) = Append(Upto(p, i), p[i + 1])
         /\ Front(Upto(p, i + 1)) = Upto(p, i) /\ Last(Upto(p, i + 1)) = p[i + 1]
<1>0. Len(p) \in Nat /\ i \in 0..Len(p) /\ i + 1 \in 0..Len(p) /\ i + 1 \in 1..Len(p)
  BY Whole
<1>1. p[i + 1] \in Names
  BY <1>0, ElementOfSeq DEF Path
<1> DEFINE a == Upto(p, i)
           b == Upto(p, i + 1)
           c == Append(a, p[i + 1])
<1>2. a \in Path /\ Len(a) = i /\ \A j \in 1..i : a[j] = p[j]
  BY <1>0, Cut
<1>3. b \in Path /\ Len(b) = i + 1 /\ \A j \in 1..i + 1 : b[j] = p[j]
  BY <1>0, Cut
<1> HIDE DEF a, b
<1>4. c \in Path /\ Len(c) = i + 1 /\ c # <<>> /\ (\A j \in 1..i : c[j] = a[j]) /\ c[i + 1] = p[i + 1]
  BY <1>1, <1>2, Appended
<1>5. Front(c) = a /\ Last(c) = p[i + 1]
  BY <1>1, <1>2, FrontOfAppend
<1> HIDE DEF c
<1>6. b = c
  <2>1. ASSUME NEW j \in 1..Len(b) PROVE b[j] = c[j]
    <3>1. j \in 1..i \/ j = i + 1
      BY <1>0, <1>3
    <3> QED
      BY <1>0, <1>2, <1>3, <1>4, <3>1
  <2> QED
    BY <1>3, <1>4, <2>1, SameNames
<1> QED
  BY <1>1, <1>2, <1>3, <1>4, <1>5, <1>6 DEF a, b, c

LEMMA UptoUpto ==
  ASSUME NEW p \in Path, NEW i \in 0..Len(p), NEW j \in 0..i
  PROVE  Upto(Upto(p, i), j) = Upto(p, j)
<1>0. Len(p) \in Nat /\ j \in 0..Len(p)
  BY Whole
<1> DEFINE a == Upto(p, i)
           b == Upto(p, j)
           c == Upto(a, j)
<1>1. a \in Path /\ Len(a) = i /\ \A m \in 1..i : a[m] = p[m]
  BY Cut
<1>2. b \in Path /\ Len(b) = j /\ \A m \in 1..j : b[m] = p[m]
  BY <1>0, Cut
<1> HIDE DEF a, b
<1>3. c \in Path /\ Len(c) = j /\ \A m \in 1..j : c[m] = a[m]
  BY <1>1, Cut
<1> HIDE DEF c
<1>4. \A m \in 1..j : m \in 1..i
  BY <1>0
<1>5. c = b
  BY <1>1, <1>2, <1>3, <1>4, SameNames
<1> QED
  BY <1>5 DEF a, b, c

-----------------------------------------------------------------------------
(* The nearest ancestor that exists. *)

AncestorAt(t, p, k) ==
  /\ k \in 0..Len(p) /\ Lstat(t, Upto(p, k)) # "absent"
  /\ \A j \in k + 1..Len(p) : Lstat(t, Upto(p, j)) = "absent"

LEMMA AncestorIs ==
  ASSUME NEW t, NEW p \in Path
  PROVE  /\ \E k : AncestorAt(t, p, k)
         /\ \A k : AncestorAt(t, p, k) =>
              Ancestor(t, p) = IF Lstat(t, Upto(p, k)) = "found" THEN {Upto(p, k)} ELSE {}
<1> DEFINE S == {j \in 0..Len(p) : Lstat(t, Upto(p, j)) # "absent"}
<1>0. Len(p) \in Nat /\ Upto(p, 0) = <<>>
  BY Whole
<1>1. \E k : AncestorAt(t, p, k)
  <2>1. 0 \in S
    BY <1>0 DEF Lstat
  <2>2. PICK k \in S : \A j \in S : j <= k
    <3>1. S \in SUBSET (0..Len(p))
      OBVIOUS
    <3> HIDE DEF S
    <3> QED
      BY <1>0, <2>1, <3>1, HasGreatest
  <2>3. ASSUME NEW j \in k + 1..Len(p) PROVE Lstat(t, Upto(p, j)) = "absent"
    <3>1. j \in 0..Len(p) /\ ~(j <= k)
      BY <1>0
    <3> QED
      BY <2>2, <3>1
  <2> QED
    BY <2>3 DEF AncestorAt
<1>2. ASSUME NEW k, AncestorAt(t, p, k)
      PROVE  Ancestor(t, p) = IF Lstat(t, Upto(p, k)) = "found" THEN {Upto(p, k)} ELSE {}
  <2>1. k \in S
    BY <1>2 DEF AncestorAt
  <2>2. \A j \in S : k >= j
    <3> SUFFICES ASSUME NEW j \in S, ~(k >= j) PROVE FALSE
      OBVIOUS
    <3>1. j \in k + 1..Len(p)
      BY <1>0, <2>1
    <3> QED
      BY <1>2, <3>1 DEF AncestorAt
  <2>3. \A j \in S : (\A m \in S : j >= m) => j = k
    BY <1>0, <2>1, <2>2
  <2>4. Max(S) = k
    <3> HIDE DEF S
    <3> QED
      BY <2>1, <2>2, <2>3 DEF Max
  <2>5. S = {j \in 0..Len(p) : Lstat(t, SubSeq(p, 1, j)) # "absent"}
    BY DEF Upto
  <2> HIDE DEF S
  <2> QED
    BY <2>4, <2>5 DEF Ancestor, Upto
<1> QED
  BY <1>1, <1>2

\* What is found is its own nearest ancestor, and what is absent has that of
\* its directory.
LEMMA AncestorOfFound ==
  ASSUME NEW t, IsTree(t), NEW p \in Path, Walk(t, p).end = "found"
  PROVE  Ancestor(t, p) = {p}
<1>0. Len(p) \in Nat /\ Upto(p, Len(p)) = p
  BY Whole
<1>1. Lstat(t, p) = "found"
  BY LstatIs
<1>2. AncestorAt(t, p, Len(p))
  BY <1>0, <1>1 DEF AncestorAt
<1> QED
  BY <1>0, <1>1, <1>2, AncestorIs

LEMMA AncestorOfAbsent ==
  ASSUME NEW t, IsTree(t), NEW p \in Path, Lstat(t, p) = "absent"
  PROVE  /\ p # <<>> /\ Ancestor(t, Front(p)) = Ancestor(t, p)
         /\ \A a \in Ancestor(t, p) : \E k \in 0..Len(p) - 1 :
              a = Upto(p, k) /\ AncestorAt(t, p, k) /\ Ancestor(t, p) = {a}
<1>0. /\ p # <<>> /\ Len(p) \in Nat /\ Upto(p, Len(p)) = p
      /\ Front(p) \in Path /\ Front(p) = Upto(p, Len(p) - 1) /\ Len(Front(p)) = Len(p) - 1
      /\ Len(p) - 1 \in 0..Len(p)
  BY Whole, FrontLast, LstatIs
<1>1. PICK k : AncestorAt(t, p, k)
  BY AncestorIs
<1>2. k \in 0..Len(p) - 1
  BY <1>0, <1>1 DEF AncestorAt
<1>3. \A j \in 0..Len(p) - 1 : Upto(Front(p), j) = Upto(p, j)
  BY <1>0, UptoUpto
<1>4. AncestorAt(t, Front(p), k)
  <2>1. \A j \in k + 1..Len(p) - 1 : j \in k + 1..Len(p) /\ j \in 0..Len(p) - 1
    BY <1>0, <1>2
  <2> QED
    BY <1>0, <1>1, <1>2, <1>3, <2>1 DEF AncestorAt
<1>5. /\ Ancestor(t, p) = IF Lstat(t, Upto(p, k)) = "found" THEN {Upto(p, k)} ELSE {}
      /\ Ancestor(t, Front(p)) = IF Lstat(t, Upto(p, k)) = "found" THEN {Upto(p, k)} ELSE {}
  BY <1>0, <1>1, <1>2, <1>3, <1>4, AncestorIs
<1> QED
  BY <1>0, <1>1, <1>2, <1>5

-----------------------------------------------------------------------------
(* filepath.Clean, and paths inside another. *)

Cleaning(p, clean) ==
  [n \in 0..Len(p) |->
     IF n = 0 THEN <<>>
     ELSE IF p[n] # Up THEN Append(clean[n - 1], p[n])
     ELSE IF clean[n - 1] = <<>> THEN <<>> ELSE Front(clean[n - 1])]

Cleaned(p) == CHOOSE clean : clean = Cleaning(p, clean)

LEMMA CleanIs == ASSUME NEW p PROVE Clean(p) = Cleaned(p)[Len(p)]
BY DEF Clean, Cleaned, Cleaning

\* The recursion that defines Clean has a solution.
LEMMA CleanedDef ==
  ASSUME NEW p, Len(p) \in Nat
  PROVE  \A n \in 0..Len(p) :
           Cleaned(p)[n] = IF n = 0 THEN <<>>
                           ELSE IF p[n] # Up THEN Append(Cleaned(p)[n - 1], p[n])
                           ELSE IF Cleaned(p)[n - 1] = <<>> THEN <<>> ELSE Front(Cleaned(p)[n - 1])
<1> DEFINE NextName(g, n) == IF n = 0 THEN <<>>
                          ELSE IF p[n] # Up THEN Append(g[n - 1], p[n])
                          ELSE IF g[n - 1] = <<>> THEN <<>> ELSE Front(g[n - 1])
           Good(g, m) == g = [n \in 0..m |-> NextName(g, n)]
           S == {m \in 0..Len(p) : \E g : Good(g, m)}
<1>1. 0 \in S
  <2> DEFINE e == [n \in 0..0 |-> <<>>]
  <2>1. \A n \in 0..0 : n = 0 /\ NextName(e, n) = <<>>
    OBVIOUS
  <2>2. Good(e, 0)
    BY <2>1
  <2>3. 0 \in 0..Len(p)
    OBVIOUS
  <2> HIDE DEF Good
  <2> QED
    BY <2>2, <2>3
<1>2. ASSUME NEW m \in 0..Len(p) - 1, m \in S PROVE m + 1 \in S
  <2>1. PICK g : Good(g, m)
    BY <1>2
  <2> DEFINE h == [n \in 0..m + 1 |-> IF n = m + 1 THEN NextName(g, n) ELSE g[n]]
  <2>2. h[m + 1] = NextName(g, m + 1) /\ \A n \in 0..m : h[n] = g[n]
    <3> HIDE DEF NextName
    <3> QED
      OBVIOUS
  <2>3. \A n \in 0..m : g[n] = NextName(g, n)
    <3> HIDE DEF NextName
    <3> QED
      BY <2>1
  <2>4. ASSUME NEW n \in 0..m + 1 PROVE NextName(h, n) = NextName(g, n)
    <3>1. n # 0 => h[n - 1] = g[n - 1]
      <4>1. n # 0 => n - 1 \in 0..m
        OBVIOUS
      <4> QED
        BY <2>2, <4>1
    <3> HIDE DEF h
    <3> QED
      BY <3>1
  <2>5. \A n \in 0..m + 1 : n = m + 1 \/ n \in 0..m
    OBVIOUS
  <2>6. \A n \in 0..m + 1 : h[n] = NextName(h, n)
    <3> HIDE DEF h, NextName
    <3> QED
      BY <2>2, <2>3, <2>4, <2>5
  <2>7. Good(h, m + 1)
    <3>1. h = [n \in 0..m + 1 |-> h[n]]
      OBVIOUS
    <3> HIDE DEF h, NextName
    <3> QED
      BY <2>6, <3>1
  <2>8. m + 1 \in 0..Len(p)
    OBVIOUS
  <2> HIDE DEF Good
  <2> QED
    BY <2>7, <2>8
<1>3. \A m \in 0..Len(p) : m \in S
  <2> HIDE DEF S
  <2>1. 0 \in Nat /\ Len(p) \in Nat
    OBVIOUS
  <2> QED
    BY ONLY <1>1, <1>2, <2>1, Upwards
<1>4. \E g : Good(g, Len(p))
  <2>1. Len(p) \in S
    <3> HIDE DEF S
    <3> QED
      BY <1>3
  <2> QED
    BY <2>1
<1> DEFINE F == CHOOSE g : Good(g, Len(p))
<1>5. Good(F, Len(p))
  <2> HIDE DEF Good
  <2> QED
    BY <1>4
<1>6. F = Cleaned(p)
  BY DEF Cleaned, Cleaning
<1>7. \A n \in 0..Len(p) : F[n] = NextName(F, n)
  <2> HIDE DEF F, NextName
  <2> QED
    BY <1>5
<1> HIDE DEF F
<1> QED
  BY <1>6, <1>7

LEMMA CleanIsPath ==
  ASSUME NEW p \in Seq(Names \cup {Up})
  PROVE  Clean(p) \in Path
<1>0. Len(p) \in Nat /\ \A i \in 1..Len(p) : p[i] \in Names \cup {Up}
  BY LenProperties, ElementOfSeq
<1> DEFINE C == Cleaned(p)
           S == {n \in 0..Len(p) : C[n] \in Path}
<1>1. \A n \in 0..Len(p) : C[n] = IF n = 0 THEN <<>>
                                  ELSE IF p[n] # Up THEN Append(C[n - 1], p[n])
                                  ELSE IF C[n - 1] = <<>> THEN <<>> ELSE Front(C[n - 1])
  BY <1>0, CleanedDef
<1> HIDE DEF C
<1>2. 0 \in S
  <2>1. 0 \in 0..Len(p) /\ <<>> \in Path
    BY <1>0, EmptySeq DEF Path
  <2>2. C[0] = <<>>
    BY <1>1, <2>1
  <2> QED
    BY <2>1, <2>2
<1>3. ASSUME NEW m \in 0..Len(p) - 1, m \in S PROVE m + 1 \in S
  <2>1. m + 1 \in 0..Len(p) /\ m + 1 \in 1..Len(p) /\ m + 1 # 0 /\ (m + 1) - 1 = m /\ C[m] \in Path
    BY <1>0, <1>3
  <2>2. C[m + 1] = IF p[m + 1] # Up THEN Append(C[m], p[m + 1])
                   ELSE IF C[m] = <<>> THEN <<>> ELSE Front(C[m])
    BY <1>1, <2>1
  <2>3. p[m + 1] # Up => p[m + 1] \in Names
    BY <1>0, <2>1
  <2>4. C[m + 1] \in Path
    <3>1. CASE p[m + 1] # Up
      BY <2>1, <2>2, <2>3, <3>1, Appended
    <3>2. CASE p[m + 1] = Up /\ C[m] = <<>>
      BY <2>1, <2>2, <3>2
    <3>3. CASE p[m + 1] = Up /\ C[m] # <<>>
      BY <2>1, <2>2, <3>3, FrontLast
    <3> QED
      BY <3>1, <3>2, <3>3
  <2> QED
    BY <2>1, <2>4
<1>4. \A n \in 0..Len(p) : n \in S
  <2> HIDE DEF S
  <2>1. 0 \in Nat /\ Len(p) \in Nat
    BY <1>0
  <2> QED
    BY ONLY <1>2, <1>3, <2>1, Upwards
<1>5. C[Len(p)] \in Path
  BY <1>0, <1>4
<1> QED
  BY <1>5, CleanIs DEF C

\* A path without ".." is clean.
LEMMA CleanKeeps ==
  ASSUME NEW p \in Path
  PROVE  Clean(p) = p
<1>0. Len(p) \in Nat /\ Upto(p, 0) = <<>> /\ Upto(p, Len(p)) = p
  BY Whole
<1> DEFINE C == Cleaned(p)
           S == {n \in 0..Len(p) : C[n] = Upto(p, n)}
<1>1. \A n \in 0..Len(p) : C[n] = IF n = 0 THEN <<>>
                                  ELSE IF p[n] # Up THEN Append(C[n - 1], p[n])
                                  ELSE IF C[n - 1] = <<>> THEN <<>> ELSE Front(C[n - 1])
  BY <1>0, CleanedDef
<1> HIDE DEF C
<1>2. 0 \in S
  BY <1>0, <1>1
<1>3. ASSUME NEW m \in 0..Len(p) - 1, m \in S PROVE m + 1 \in S
  <2>1. m + 1 \in 0..Len(p) /\ m + 1 # 0 /\ (m + 1) - 1 = m /\ C[m] = Upto(p, m)
    BY <1>0, <1>3
  <2>2. p[m + 1] \in Names /\ Upto(p, m + 1) = Append(Upto(p, m), p[m + 1])
    BY UptoNext
  <2>3. p[m + 1] # Up
    BY <2>2, PathsAssumption
  <2>4. C[m + 1] = Append(C[m], p[m + 1])
    BY <1>1, <2>1, <2>3
  <2> QED
    BY <2>1, <2>2, <2>4
<1>4. \A n \in 0..Len(p) : n \in S
  <2> HIDE DEF S
  <2>1. 0 \in Nat /\ Len(p) \in Nat
    BY <1>0
  <2> QED
    BY ONLY <1>2, <1>3, <2>1, Upwards
<1>5. C[Len(p)] = Upto(p, Len(p))
  BY <1>0, <1>4
<1> QED
  BY <1>0, <1>5, CleanIs DEF C

LEMMA AbsoluteIsPath ==
  ASSUME NEW r \in Path, NEW input \in Inputs
  PROVE  /\ Absolute(r, input) \in Path
         /\ ~input.abs /\ Up \notin ToSet(input.names) =>
              /\ input.names \in Path /\ Absolute(r, input) = r \o input.names
<1> DEFINE S == Names \cup {Up}
<1>1. input.abs \in BOOLEAN /\ input.names \in Seq(S)
  BY PathGuardAssumption
<1>2. r \in Seq(S)
  BY SeqMonotonic DEF Path
<1>3. r \o input.names \in Seq(S)
  BY <1>1, <1>2, ConcatProperties
<1>4. ASSUME ~input.abs, Up \notin ToSet(input.names)
      PROVE  input.names \in Path /\ Absolute(r, input) = r \o input.names
  <2>1. Len(input.names) \in Nat /\ \A i \in 1..Len(input.names) : input.names[i] \in S
    BY <1>1, LenProperties, ElementOfSeq
  <2>2. \A i \in 1..Len(input.names) : input.names[i] \in Names
    BY <1>4, <2>1 DEF ToSet
  <2>3. input.names \in Path
    <3>1. input.names = [i \in 1..Len(input.names) |-> input.names[i]]
      BY <1>1, LenProperties
    <3>2. input.names \in [1..Len(input.names) -> Names]
      BY <2>2, <3>1
    <3> QED
      BY <2>1, <3>2, SeqDef DEF Path
  <2>4. r \o input.names \in Path
    BY <2>3, Joined
  <2> QED
    BY <1>4, <2>3, <2>4, CleanKeeps DEF Absolute
<1> QED
  BY <1>1, <1>3, <1>4, CleanIsPath DEF Absolute

LEMMA WithinIs ==
  ASSUME NEW r \in Path, NEW p \in Path
  PROVE  Within(r, p) <=> Len(r) <= Len(p) /\ r = Upto(p, Len(r))
<1>1. SubSeq(r, 1, Len(r)) = r
  BY Whole DEF Upto
<1> QED
  BY <1>1 DEF Within, IsPrefix, Upto

LEMMA WithinAppend ==
  ASSUME NEW r \in Path, NEW p \in Path, Within(r, p), NEW n \in Names
  PROVE  Within(r, Append(p, n))
<1>1. Len(r) \in Nat /\ Len(p) \in Nat /\ Len(r) <= Len(p) /\ r = Upto(p, Len(r))
  BY WithinIs, Whole
<1>2. Append(p, n) \in Path /\ Len(Append(p, n)) = Len(p) + 1
  BY Appended
<1>3. Upto(Append(p, n), Len(r)) = Upto(p, Len(r))
  <2>1. Len(r) \in 0..Len(p)
    BY <1>1
  <2> QED
    BY <2>1, CutAppend
<1>4. Len(r) <= Len(Append(p, n)) /\ r = Upto(Append(p, n), Len(r))
  BY <1>1, <1>2, <1>3
<1> QED
  BY <1>2, <1>4, WithinIs

LEMMA WithinJoined ==
  ASSUME NEW r \in Path, NEW s \in Path
  PROVE  Within(r, r \o s)
<1> DEFINE c == r \o s
           u == Upto(c, Len(r))
<1>1. /\ Len(r) \in Nat /\ Len(s) \in Nat
      /\ c \in Path /\ Len(c) = Len(r) + Len(s) /\ \A j \in 1..Len(r) : c[j] = r[j]
  BY Whole, Joined
<1> HIDE DEF c
<1>2. Len(r) \in 0..Len(c)
  BY <1>1
<1>3. u \in Path /\ Len(u) = Len(r) /\ \A j \in 1..Len(r) : u[j] = c[j]
  BY <1>1, <1>2, Cut
<1> HIDE DEF u
<1>4. u = r
  BY <1>1, <1>3, SameNames
<1>5. Len(r) <= Len(c)
  BY <1>1
<1>6. Within(r, c)
  BY <1>1, <1>4, <1>5, WithinIs DEF u
<1> QED
  BY <1>6 DEF c

\* The paths of a tree are closed under taking the last name off.
LEMMA FrontOfPath ==
  ASSUME NEW p \in AllPaths, p # <<>>
  PROVE  Front(p) \in AllPaths
<1>1. PICK n \in 0..MaxDepth : p \in [1..n -> Names]
  BY DEF AllPaths
<1>2. p \in Path
  BY PathsOfTree
<1>3. Len(p) = n
  BY <1>1, <1>2, LenProperties, PathsAssumption DEF Path
<1>4. Front(p) \in Path /\ Len(Front(p)) = n - 1 /\ n - 1 \in 0..MaxDepth
  BY <1>2, <1>3, FrontLast, PathsAssumption
<1>5. Front(p) \in [1..n - 1 -> Names]
  BY <1>4, LenProperties DEF Path
<1> QED
  BY <1>4, <1>5 DEF AllPaths

-----------------------------------------------------------------------------
(* os.MkdirAll. *)

\* The names of p after the first k, up to the j-th, below e.
Mid(p, k, j) == SubSeq(p, k + 1, j)

Below(e, p, k, j) == e \o Mid(p, k, j)

LEMMA BelowIs ==
  ASSUME NEW e \in Path, NEW p \in Path, NEW k \in 0..Len(p), NEW j \in k..Len(p)
  PROVE  /\ Below(e, p, k, k) = e
         /\ Below(e, p, k, j) \in Path /\ Len(Below(e, p, k, j)) = Len(e) + (j - k)
         /\ j < Len(p) => Below(e, p, k, j + 1) = Append(Below(e, p, k, j), p[j + 1])
<1>0. Len(p) \in Nat /\ Len(e) \in Nat /\ j \in 0..Len(p)
  BY Whole
<1>1. Below(e, p, k, k) = e
  <2>1. SubSeq(p, k + 1, k) = <<>>
    BY <1>0, SubSeqEmpty
  <2> QED
    BY <2>1, Joined, Whole DEF Below, Mid
<1>2. ASSUME NEW i \in k..Len(p)
      PROVE  /\ Mid(p, k, i) \in Path /\ Len(Mid(p, k, i)) = i - k
             /\ \A m \in 1..i - k : Mid(p, k, i)[m] = p[k + m]
  <2> DEFINE u == Upto(p, i)
             b == Past(u, k)
  <2>1. i \in 0..Len(p)
    BY <1>0
  <2>2. u \in Path /\ Len(u) = i /\ \A m \in 1..i : u[m] = p[m]
    BY <2>1, Cut
  <2> HIDE DEF u
  <2>3. k \in 0..Len(u)
    BY <1>0, <2>2
  <2>4. b \in Path /\ Len(b) = Len(u) - k /\ \A m \in 1..Len(u) - k : b[m] = u[k + m]
    BY <2>2, <2>3, Cut
  <2>5. Mid(p, k, i) = b
    BY <1>0, <2>1, SubSeqOfSubSeq, SubSeqProperties DEF Mid, u, Past, Upto, Path
  <2> HIDE DEF b
  <2>6. \A m \in 1..i - k : k + m \in 1..i
    BY <1>0
  <2> QED
    BY <2>2, <2>4, <2>5, <2>6
<1>3. Below(e, p, k, j) \in Path /\ Len(Below(e, p, k, j)) = Len(e) + (j - k)
  BY <1>2, Joined DEF Below
<1>4. ASSUME j < Len(p) PROVE Mid(p, k, j + 1) = Append(Mid(p, k, j), p[j + 1])
  <2> DEFINE x == Mid(p, k, j + 1)
             s == Mid(p, k, j)
             y == Append(s, p[j + 1])
  <2>1. j + 1 \in k..Len(p) /\ j + 1 \in 1..Len(p) /\ p[j + 1] \in Names
    <3>1. j + 1 \in k..Len(p) /\ j + 1 \in 1..Len(p)
      BY <1>0, <1>4
    <3> QED
      BY <3>1, ElementOfSeq DEF Path
  <2>2. x \in Path /\ Len(x) = j + 1 - k /\ \A m \in 1..j + 1 - k : x[m] = p[k + m]
    BY <1>2, <2>1
  <2>3. s \in Path /\ Len(s) = j - k /\ \A m \in 1..j - k : s[m] = p[k + m]
    BY <1>2
  <2> HIDE DEF x, s
  <2>4. /\ y \in Path /\ Len(y) = Len(s) + 1
        /\ \A m \in 1..Len(s) : y[m] = s[m]
        /\ y[Len(s) + 1] = p[j + 1]
    BY <2>1, <2>3, Appended
  <2> HIDE DEF y
  <2>5. ASSUME NEW m \in 1..Len(x) PROVE x[m] = y[m]
    <3>1. m \in 1..j + 1 - k
      BY <2>2
    <3>2. CASE m \in 1..j - k
      BY <2>2, <2>3, <2>4, <3>1, <3>2
    <3>3. CASE m = j + 1 - k
      <4>1. k + m = j + 1 /\ m = Len(s) + 1
        BY <1>0, <2>3, <3>3
      <4> QED
        BY <2>2, <2>4, <3>1, <4>1
    <3> QED
      BY <1>0, <3>1, <3>2, <3>3
  <2>6. Len(x) = Len(y)
    BY <1>0, <2>2, <2>3, <2>4
  <2>7. x = y
    BY <2>2, <2>4, <2>5, <2>6, SameNames
  <2> QED
    BY <2>7 DEF x, y, s
<1>5. ASSUME j < Len(p) PROVE Below(e, p, k, j + 1) = Append(Below(e, p, k, j), p[j + 1])
  <2>1. p[j + 1] \in Names
    <3>1. j + 1 \in 1..Len(p)
      BY <1>0, <1>5
    <3> QED
      BY <3>1, ElementOfSeq DEF Path
  <2>2. Mid(p, k, j) \in Path
    BY <1>2
  <2>3. e \o Mid(p, k, j + 1) = e \o Append(Mid(p, k, j), p[j + 1])
    BY <1>4, <1>5
  <2> HIDE DEF Mid
  <2> QED
    BY <2>1, <2>2, <2>3, JoinedAppend DEF Below
<1> QED
  BY <1>1, <1>3, <1>5

\* A path that does not exist, the nearest ancestor that does, and where that
\* is: a directory below which nothing has the next names.
LEMMA NothingBelow ==
  ASSUME NEW t, IsTree(t), NEW p \in Path, Lstat(t, p) = "absent",
         NEW k \in 0..Len(p) - 1, AncestorAt(t, p, k), NEW e \in EvalSymlinks(t, Upto(p, k))
  PROVE  /\ e \in AllPaths /\ e \in Path /\ t[e] = Directory
         /\ \A j \in k + 1..Len(p) : NodeAt(t, Below(e, p, k, j)) = Nothing
<1>0. Len(p) \in Nat /\ k \in 0..Len(p) /\ k + 1 \in 0..Len(p) /\ k \in k..Len(p)
  BY Whole
<1> DEFINE b == Upto(p, k + 1)
<1>1. /\ b \in Path /\ b # <<>> /\ Front(b) = Upto(p, k) /\ Last(b) = p[k + 1] /\ Upto(p, k) \in Path
  BY UptoNext
<1>2. Lstat(t, b) = "absent"
  <2>1. k + 1 \in k + 1..Len(p)
    BY <1>0
  <2> QED
    BY <2>1 DEF AncestorAt
<1>3. /\ Walk(t, Upto(p, k)) = [end |-> "found", at |-> e]
      /\ e \in AllPaths /\ e \in Path /\ t[e].kind \in {"dir", "file"}
      /\ EvalSymlinks(t, Upto(p, k)) = {e} /\ (t[e].kind = "dir" <=> t[e] = Directory)
  BY <1>1, EvalIs
<1> HIDE DEF b
<1>4. t[e].kind = "dir"
  <2> SUFFICES ASSUME t[e].kind = "file" PROVE FALSE
    BY <1>3
  <2>1. Walk(t, b).end = "error"
    BY <1>1, <1>3, OneNameMoreWalk
  <2>2. Walk(t, b).end = "absent"
    BY <1>1, <1>2, LstatIs
  <2> QED
    BY <2>1, <2>2
<1>5. Place(t, b) = {Append(e, p[k + 1])}
  BY <1>1, <1>3, <1>4 DEF Place
<1>6. NodeAt(t, Below(e, p, k, k + 1)) = Nothing
  <2>1. NodeAt(t, Append(e, p[k + 1])) = Nothing
    BY <1>1, <1>2, <1>5, LstatIs
  <2>2. Below(e, p, k, k + 1) = Append(e, p[k + 1])
    BY <1>0, <1>3, BelowIs
  <2> QED
    BY <2>1, <2>2
<1> DEFINE S == {j \in k + 1..Len(p) : NodeAt(t, Below(e, p, k, j)) = Nothing}
<1>7. k + 1 \in S
  BY <1>0, <1>6
<1>8. ASSUME NEW j \in k + 1..Len(p) - 1, j \in S PROVE j + 1 \in S
  <2>1. j \in k..Len(p) /\ j + 1 \in k + 1..Len(p) /\ j < Len(p) /\ j \in 0..Len(p) - 1
    BY <1>0
  <2> DEFINE x == Below(e, p, k, j)
             y == Below(e, p, k, j + 1)
  <2>2. x \in Path /\ y = Append(x, p[j + 1]) /\ p[j + 1] \in Names
    BY <1>0, <1>3, <2>1, BelowIs, UptoNext
  <2>3. NodeAt(t, x) = Nothing
    BY <1>8
  <2> HIDE DEF x, y
  <2>4. Front(y) = x /\ y # <<>>
    BY <2>2, FrontOfAppend, Appended
  <2>5. ASSUME NodeAt(t, y) # Nothing PROVE FALSE
    <3>1. y \in AllPaths /\ t[y] # Nothing
      BY <2>5, NodeKinds
    <3>2. t[x] = Directory /\ Directory # Nothing
      BY <2>4, <3>1 DEF IsTree, Directory, Nothing
    <3>3. x \in AllPaths
      BY <2>4, <3>1, FrontOfPath
    <3> QED
      BY <2>3, <3>2, <3>3, NodeKinds
  <2> QED
    BY <2>1, <2>5 DEF y
<1>9. \A j \in k + 1..Len(p) : j \in S
  <2> HIDE DEF S
  <2>1. k + 1 \in Nat /\ Len(p) \in Nat
    BY <1>0
  <2> QED
    BY ONLY <1>7, <1>8, <2>1, Upwards
<1> QED
  BY <1>3, <1>4, <1>9

LEMMA MidOfFront ==
  ASSUME NEW p \in Path, p # <<>>, NEW k \in 0..Len(p) - 1, NEW j \in k..Len(p) - 1
  PROVE  SubSeq(Front(p), k + 1, j) = Mid(p, k, j)
<1>0. Len(p) \in Nat /\ Len(p) - 1 \in 0..Len(p)
  BY Whole, FrontLast
<1>1. Front(p) = SubSeq(p, 1, Len(p) - 1)
  BY DEF Front
<1>2. CASE j = k
  <2>1. SubSeq(Front(p), k + 1, k) = <<>> /\ SubSeq(p, k + 1, k) = <<>>
    BY <1>0, SubSeqEmpty
  <2> QED
    BY <1>2, <2>1 DEF Mid
<1>3. CASE j # k
  <2>1. 1 + (k + 1) - 1 = k + 1 /\ 1 + j - 1 = j
    BY <1>0
  <2> QED
    BY <1>0, <1>1, <1>3, <2>1, SubSeqOfSubSeq DEF Mid, Path
<1> QED
  BY <1>2, <1>3

\* The directories are made where nothing is, in the directory that the ancestor
\* leads to; the path then leads to a place below them where nothing is.
LEMMA DirsMade ==
  ASSUME NEW t, IsTree(t), NEW p \in Path, Lstat(t, p) = "absent",
         NEW k \in 0..Len(p) - 1, AncestorAt(t, p, k), Ancestor(t, p) = {Upto(p, k)},
         NEW e \in EvalSymlinks(t, Upto(p, k)), NEW r \in Path, Within(r, e)
  PROVE  LET u == MkdirAll(t, Front(p))
         IN /\ IsTree(u)
            /\ \A x \in AllPaths : u[x] # t[x] => t[x] = Nothing /\ Within(r, x)
            /\ \A q \in Place(u, p) : Within(r, q) /\ (q \in AllPaths => u[q] = Nothing)
<1> DEFINE B(j) == Below(e, p, k, j)
           Made == {B(j) : j \in k + 1..Len(p) - 1}
           u == [x \in AllPaths |-> IF x \in Made THEN Directory ELSE t[x]]
<1>0. /\ p # <<>> /\ Len(p) \in Nat /\ k \in 0..Len(p) /\ k \in k..Len(p) /\ Len(p) - 1 \in 0..Len(p)
      /\ Upto(p, k) \in Path /\ Len(Upto(p, k)) = k
      /\ Front(p) \in Path /\ Front(p) = Upto(p, Len(p) - 1) /\ Len(Front(p)) = Len(p) - 1
      /\ Last(p) = p[Len(p)] /\ Upto(p, Len(p)) = p
  <2>1. p # <<>>
    BY LstatIs
  <2>2. Len(p) \in Nat /\ k \in 0..Len(p) /\ k \in k..Len(p) /\ Upto(p, Len(p)) = p
    BY Whole
  <2> QED
    BY <2>1, <2>2, FrontLast, Cut
<1>1. /\ e \in AllPaths /\ e \in Path /\ t[e] = Directory
      /\ \A j \in k + 1..Len(p) : NodeAt(t, B(j)) = Nothing
  BY NothingBelow
<1>2. EvalSymlinks(t, Upto(p, k)) = {e} /\ Walk(t, Upto(p, k)) = [end |-> "found", at |-> e]
  BY <1>0, EvalIs
<1>3. MkdirAll(t, Front(p)) = u
  <2>1. Ancestor(t, Front(p)) = {Upto(p, k)}
    BY AncestorOfAbsent
  <2> DEFINE a == CHOOSE q \in Ancestor(t, Front(p)) : TRUE
             missing == {SubSeq(Front(p), Len(a) + 1, j) : j \in Len(a) + 1..Len(Front(p))}
             made == {q \o s : q \in EvalSymlinks(t, a), s \in missing}
  <2>2. a = Upto(p, k)
    BY <2>1
  <2>3. missing = {Mid(p, k, j) : j \in k + 1..Len(p) - 1}
    <3>1. missing = {SubSeq(Front(p), k + 1, j) : j \in k + 1..Len(p) - 1}
      BY <1>0, <2>2
    <3>2. \A j \in k + 1..Len(p) - 1 : SubSeq(Front(p), k + 1, j) = Mid(p, k, j)
      <4>1. \A j \in k + 1..Len(p) - 1 : j \in k..Len(p) - 1
        BY <1>0
      <4> QED
        BY <1>0, <4>1, MidOfFront
    <3> HIDE DEF missing
    <3> QED
      BY <3>1, <3>2
  <2>4. made = Made
    <3>1. EvalSymlinks(t, a) = {e}
      BY <1>2, <2>2
    <3> HIDE DEF a, missing
    <3>2. made = {e \o s : s \in missing}
      BY <3>1
    <3> HIDE DEF made
    <3> QED
      BY <2>3, <3>2 DEF Below
  <2>5. MkdirAll(t, Front(p)) = [q \in DOMAIN t |-> IF q \in made THEN Directory ELSE t[q]]
    BY DEF MkdirAll
  <2> HIDE DEF made, Made
  <2> QED
    BY <2>4, <2>5 DEF IsTree
<1>4. /\ B(k) = e
      /\ \A j \in k..Len(p) : B(j) \in Path /\ Len(B(j)) = Len(e) + (j - k)
      /\ \A j \in k..Len(p) - 1 : B(j + 1) = Append(B(j), p[j + 1])
  <2>1. ASSUME NEW j \in k..Len(p) PROVE B(j) \in Path /\ Len(B(j)) = Len(e) + (j - k)
    BY <1>0, <1>1, BelowIs
  <2>2. ASSUME NEW j \in k..Len(p) - 1 PROVE B(j + 1) = Append(B(j), p[j + 1])
    <3>1. j \in k..Len(p) /\ j < Len(p)
      BY <1>0
    <3> QED
      BY <1>0, <1>1, <3>1, BelowIs
  <2>3. B(k) = e
    BY <1>0, <1>1, BelowIs
  <2> QED
    BY <2>1, <2>2, <2>3
<1>5. \A j \in k..Len(p) - 1 : p[j + 1] \in Names
  <2>1. \A j \in k..Len(p) - 1 : j \in 0..Len(p) - 1
    BY <1>0
  <2> QED
    BY <2>1, UptoNext
<1> HIDE DEF B
<1>6. \A x \in AllPaths : x \in Made => t[x] = Nothing
  <2> SUFFICES ASSUME NEW j \in k + 1..Len(p) - 1, B(j) \in AllPaths PROVE t[B(j)] = Nothing
    OBVIOUS
  <2>1. j \in k + 1..Len(p)
    BY <1>0
  <2>2. NodeAt(t, B(j)) = Nothing
    BY <1>1, <2>1
  <2> QED
    BY <2>2, NodeKinds
<1>7. \A j \in k..Len(p) : Within(r, B(j))
  <2> DEFINE S == {j \in k..Len(p) : Within(r, B(j))}
  <2>1. k \in S
    BY <1>0, <1>4
  <2>2. ASSUME NEW j \in k..Len(p) - 1, j \in S PROVE j + 1 \in S
    <3>1. j \in k..Len(p) /\ j + 1 \in k..Len(p) /\ Within(r, B(j))
      BY <1>0, <2>2
    <3>2. Within(r, Append(B(j), p[j + 1]))
      BY <1>4, <1>5, <3>1, WithinAppend
    <3> QED
      BY <1>4, <3>1, <3>2
  <2>3. \A j \in k..Len(p) : j \in S
    <3> HIDE DEF S
    <3>1. k \in Nat /\ Len(p) \in Nat
      BY <1>0
    <3> QED
      BY ONLY <2>1, <2>2, <3>1, Upwards
  <2> QED
    BY <2>3
<1>8. u[e] = Directory /\ \A x \in AllPaths : t[x] # Nothing => u[x] = t[x]
  <2> HIDE DEF Made
  <2> QED
    BY <1>1, <1>6
<1>9. IsTree(u)
  <2>1. DOMAIN u = AllPaths
    OBVIOUS
  <2>2. \A x \in AllPaths : IsNode(u[x])
    <3> HIDE DEF Made
    <3> QED
      BY DEF IsTree, IsNode
  <2>3. u[<<>>] = Directory
    <3>1. <<>> \in AllPaths
      BY PathsAssumption DEF AllPaths
    <3> HIDE DEF Made
    <3> QED
      BY <3>1 DEF IsTree
  <2>4. ASSUME NEW x \in AllPaths \ {<<>>}, u[x] # Nothing PROVE u[Front(x)] = Directory
    <3>1. Front(x) \in AllPaths
      BY FrontOfPath
    <3>2. CASE x \in Made
      <4>1. PICK j \in k + 1..Len(p) - 1 : x = B(j)
        BY <3>2
      <4>2. j - 1 \in k..Len(p) - 1 /\ (j - 1) + 1 = j /\ j - 1 \in k..Len(p)
        BY <1>0
      <4>3. x = Append(B(j - 1), p[j]) /\ p[j] \in Names /\ B(j - 1) \in Path
        BY <1>4, <1>5, <4>1, <4>2
      <4>4. Front(x) = B(j - 1)
        BY <4>3, FrontOfAppend
      <4>5. CASE j - 1 = k
        BY <1>4, <1>8, <4>4, <4>5
      <4>6. CASE j - 1 # k
        <5>1. j - 1 \in k + 1..Len(p) - 1
          BY <1>0, <4>2, <4>6
        <5>2. Front(x) \in Made
          BY <4>4, <5>1
        <5> HIDE DEF Made
        <5> QED
          BY <3>1, <5>2
      <4> QED
        BY <4>5, <4>6
    <3>3. CASE x \notin Made
      <4> HIDE DEF Made
      <4>1. t[x] # Nothing
        BY <2>4, <3>3
      <4>2. t[Front(x)] = Directory
        BY <4>1 DEF IsTree
      <4> QED
        BY <3>1, <4>2
    <3> QED
      BY <3>2, <3>3
  <2> HIDE DEF u
  <2> QED
    BY <2>1, <2>2, <2>3, <2>4 DEF IsTree
<1>10. ASSUME NEW x \in AllPaths, u[x] # t[x] PROVE t[x] = Nothing /\ Within(r, x)
  <2>1. x \in Made
    BY <1>10
  <2>2. PICK j \in k + 1..Len(p) - 1 : x = B(j)
    BY <2>1
  <2>3. j \in k..Len(p)
    BY <1>0
  <2> QED
    BY <1>6, <1>7, <2>1, <2>2, <2>3
<1>11. \A j \in k..Len(p) - 1 :
         Walk(u, Upto(p, j)) = [end |-> "found", at |-> B(j)] \/ Walk(u, Upto(p, j)).end = "absent"
  <2> DEFINE W(j) == Walk(u, Upto(p, j))
             S == {j \in k..Len(p) - 1 : W(j) = [end |-> "found", at |-> B(j)] \/ W(j).end = "absent"}
  <2>1. k \in S
    <3>1. Walks(t)[MaxLinks][Upto(p, k)] = [end |-> "found", at |-> e]
      BY <1>2, WalkIs
    <3>2. Walks(u)[MaxLinks][Upto(p, k)] = [end |-> "found", at |-> e]
      <4>1. MaxLinks \in 0..MaxLinks
        BY PathsAssumption
      <4> HIDE DEF u
      <4> QED
        BY <1>0, <1>8, <1>9, <3>1, <4>1, GrownTree
    <3>3. Walk(u, Upto(p, k)) = [end |-> "found", at |-> B(k)]
      BY <1>4, <3>2, WalkIs
    <3> QED
      BY <1>0, <3>3
  <2>2. ASSUME NEW j \in k..Len(p) - 1 - 1, j \in S PROVE j + 1 \in S
    <3>1. /\ j \in 0..Len(p) - 1 /\ j \in k..Len(p) - 1 /\ j + 1 \in k + 1..Len(p) - 1 /\ j + 1 \in k..Len(p) - 1
          /\ j \in k..Len(p)
      BY <1>0
    <3> DEFINE b == Upto(p, j + 1)
    <3>2. b \in Path /\ b # <<>> /\ Front(b) = Upto(p, j) /\ Last(b) = p[j + 1]
      BY <3>1, UptoNext
    <3> HIDE DEF b
    <3>3. CASE W(j).end = "absent"
      <4>1. Walk(u, b).end = "absent"
        <5> HIDE DEF u
        <5> QED
          BY <1>9, <3>2, <3>3, OneNameMoreWalk
      <4> QED
        BY <3>1, <4>1 DEF b
    <3>4. CASE W(j) = [end |-> "found", at |-> B(j)]
      <4>1. B(j) \in AllPaths
        <5>1. B(j) \in EvalSymlinks(u, Upto(p, j))
          BY <3>4 DEF EvalSymlinks
        <5>2. Upto(p, j) \in Path
          BY <3>1, UptoNext
        <5> HIDE DEF u
        <5> QED
          BY <1>9, <5>1, <5>2, EvalIs
      <4>2. u[B(j)] = Directory
        <5>1. CASE j = k
          BY <1>4, <1>8, <5>1
        <5>2. CASE j # k
          <6>1. j \in k + 1..Len(p) - 1
            BY <1>0, <3>1, <5>2
          <6>2. B(j) \in Made
            BY <6>1
          <6> HIDE DEF Made
          <6> QED
            BY <4>1, <6>2
        <5> QED
          BY <5>1, <5>2
      <4>3. B(j + 1) = Append(B(j), p[j + 1])
        BY <1>4, <3>1
      <4> DEFINE node == NodeAt(u, B(j + 1))
      <4>4. node \in {Nothing, Directory}
        <5>1. B(j + 1) \in Made
          BY <3>1
        <5> HIDE DEF Made
        <5> QED
          BY <5>1 DEF NodeAt
      <4>5. /\ node.kind = "none" => Walk(u, b).end = "absent"
            /\ node.kind \in {"dir", "file"} => Walk(u, b) = [end |-> "found", at |-> B(j + 1)]
        <5>1. Walk(u, Front(b)).end = "found" /\ Walk(u, Front(b)).at = B(j) /\ u[B(j)].kind = "dir"
          BY <3>2, <3>4, <4>2 DEF Directory
        <5>2. Append(Walk(u, Front(b)).at, Last(b)) = B(j + 1)
          BY <3>2, <4>3, <5>1
        <5> HIDE DEF u
        <5>3. LET x == Append(Walk(u, Front(b)).at, Last(b))
                  n == NodeAt(u, x)
              IN /\ n.kind = "none" => Walk(u, b).end = "absent"
                 /\ n.kind \in {"dir", "file"} => Walk(u, b) = [end |-> "found", at |-> x]
          BY ONLY <1>9, <3>2, <5>1, OneNameMoreWalk
        <5> QED
          BY <5>2, <5>3
      <4>6. Walk(u, b) = [end |-> "found", at |-> B(j + 1)] \/ Walk(u, b).end = "absent"
        <5> HIDE DEF node
        <5> QED
          BY <4>4, <4>5 DEF Nothing, Directory
      <4> QED
        BY <3>1, <4>6 DEF b
    <3> QED
      BY <2>2, <3>3, <3>4
  <2>3. \A j \in k..Len(p) - 1 : j \in S
    <3> HIDE DEF S
    <3>1. k \in Nat /\ Len(p) - 1 \in Nat
      BY <1>0
    <3> QED
      BY ONLY <2>1, <2>2, <3>1, Upwards
  <2> QED
    BY <2>3
<1>12. ASSUME NEW q \in Place(u, p) PROVE Within(r, q) /\ (q \in AllPaths => u[q] = Nothing)
  <2>0. Len(p) - 1 \in k..Len(p) - 1 /\ (Len(p) - 1) + 1 = Len(p) /\ Len(p) \in k..Len(p) /\ Len(p) \in k + 1..Len(p)
    BY <1>0
  <2>1. PICK d \in EvalSymlinks(u, Front(p)) : q = Append(d, Last(p))
    <3> HIDE DEF u
    <3> QED
      BY <1>0, <1>9, PlaceIs
  <2>2. Walk(u, Front(p)) = [end |-> "found", at |-> d]
    <3> HIDE DEF u
    <3> QED
      BY <1>0, <1>9, <2>1, EvalIs
  <2>3. d = B(Len(p) - 1)
    <3>1. Walk(u, Front(p)) = [end |-> "found", at |-> B(Len(p) - 1)] \/ Walk(u, Front(p)).end = "absent"
      BY <1>0, <1>11, <2>0
    <3> HIDE DEF u
    <3> QED
      BY <2>2, <3>1
  <2>4. q = B(Len(p))
    BY <1>0, <1>4, <2>0, <2>1, <2>3
  <2>5. q \notin Made
    <3> SUFFICES ASSUME NEW j \in k + 1..Len(p) - 1, q = B(j) PROVE FALSE
      OBVIOUS
    <3>1. j \in k..Len(p) /\ Len(e) \in Nat
      BY <1>0, <1>1, Whole
    <3>2. Len(B(j)) = Len(e) + (j - k) /\ Len(B(Len(p))) = Len(e) + (Len(p) - k)
      BY <1>4, <2>0, <3>1
    <3>3. Len(e) + (j - k) # Len(e) + (Len(p) - k)
      BY <1>0, <3>1
    <3> QED
      BY <2>4, <3>2, <3>3
  <2>6. NodeAt(t, q) = Nothing
    BY <1>1, <2>0, <2>4
  <2>7. q \in AllPaths => u[q] = t[q]
    <3> HIDE DEF Made
    <3> QED
      BY <2>5
  <2> QED
    BY <1>7, <2>0, <2>4, <2>6, <2>7, NodeKinds
<1> HIDE DEF u
<1> QED
  BY <1>3, <1>9, <1>10, <1>12

\* A new file where nothing is: the tree is one, has only grown, and the file
\* is found by the path that was its place.
LEMMA FileAdded ==
  ASSUME NEW u, IsTree(u), NEW p \in Path, p # <<>>, NEW q \in Place(u, p),
         q \in AllPaths, u[q] = Nothing, NEW v,
         v = [x \in AllPaths |-> IF x = q THEN File("created") ELSE u[x]]
  PROVE  /\ IsTree(v) /\ \A x \in AllPaths : u[x] # Nothing => v[x] = u[x]
         /\ EvalSymlinks(v, p) = {q} /\ v[q] = File("created")
<1>1. PICK d \in EvalSymlinks(u, Front(p)) : u[d] = Directory /\ q = Append(d, Last(p))
  BY PlaceIs
<1>2. Front(p) \in Path /\ Last(p) \in Names
  BY FrontLast
<1>3. d \in Path /\ d \in AllPaths /\ Walk(u, Front(p)) = [end |-> "found", at |-> d]
  BY <1>2, EvalIs
<1>4. Front(q) = d /\ q # <<>>
  BY <1>1, <1>2, <1>3, FrontOfAppend, Appended
<1>5. \A x \in AllPaths : u[x] # Nothing => v[x] = u[x]
  OBVIOUS
<1>6. File("created").kind = "file" /\ Directory # Nothing /\ Directory.kind = "dir"
  BY DEF File, Directory, Nothing
<1>7. v[d] = Directory /\ v[q] = File("created")
  BY <1>1, <1>3, <1>6
<1>8. IsTree(v)
  <2>1. DOMAIN v = AllPaths /\ <<>> \in AllPaths /\ v[<<>>] = Directory
    <3>1. <<>> \in AllPaths
      BY PathsAssumption DEF AllPaths
    <3> QED
      BY <1>4, <3>1 DEF IsTree
  <2>2. \A x \in AllPaths : IsNode(v[x])
    BY <1>6 DEF IsTree, IsNode
  <2>3. ASSUME NEW x \in AllPaths \ {<<>>}, v[x] # Nothing PROVE v[Front(x)] = Directory
    <3>1. CASE x = q
      BY <1>4, <1>7, <3>1
    <3>2. CASE x # q
      <4>1. u[x] # Nothing /\ Front(x) \in AllPaths
        BY <2>3, <3>2, FrontOfPath
      <4>2. u[Front(x)] = Directory
        BY <4>1 DEF IsTree
      <4> QED
        BY <1>5, <1>6, <4>1, <4>2
    <3> QED
      BY <3>1, <3>2
  <2> QED
    BY <2>1, <2>2, <2>3 DEF IsTree
<1>9. Walk(v, Front(p)) = [end |-> "found", at |-> d]
  <2>1. MaxLinks \in 0..MaxLinks
    BY PathsAssumption
  <2>2. Walks(u)[MaxLinks][Front(p)] = [end |-> "found", at |-> d]
    BY <1>3, WalkIs
  <2>3. Walks(v)[MaxLinks][Front(p)] = [end |-> "found", at |-> d]
    BY <1>2, <1>5, <1>8, <2>1, <2>2, GrownTree
  <2> QED
    BY <2>3, WalkIs
<1>10. Walk(v, p) = [end |-> "found", at |-> q]
  <2>1. NodeAt(v, q).kind = "file"
    BY <1>6, <1>7 DEF NodeAt
  <2>2. Walk(v, Front(p)).end = "found" /\ Walk(v, Front(p)).at = d /\ v[d].kind = "dir"
    BY <1>6, <1>7, <1>9
  <2> QED
    BY <1>1, <1>8, <2>1, <2>2, OneNameMoreWalk
<1> QED
  BY <1>5, <1>7, <1>8, <1>10 DEF EvalSymlinks

-----------------------------------------------------------------------------
(* The path guard. *)

\* What is opened is inside, has one name and is there.
LEMMA OpenedIsInside ==
  ASSUME NEW t, IsTree(t), NEW r \in Path, NEW input \in Inputs,
         NEW q \in secureMCPTarget(t, r, input, TRUE)
  PROVE  Within(r, q) /\ EvalSymlinks(t, q) = {q} /\ q \in AllPaths /\ t[q] # Nothing
<1> DEFINE p == Absolute(r, input)
<1>1. p \in Path
  BY AbsoluteIsPath
<1>2. q \in EvalSymlinks(t, p) /\ Within(r, q)
  BY DEF secureMCPTarget
<1> HIDE DEF p
<1>3. q \in AllPaths /\ t[q].kind \in {"dir", "file"} /\ EvalSymlinks(t, q) = {q}
  BY <1>1, <1>2, EvalIs
<1> QED
  BY <1>2, <1>3 DEF Nothing

\* What is inside, by its name and by the place it leads to, is opened.
LEMMA InsideIsOpened ==
  ASSUME NEW t, IsTree(t), NEW r \in Path, NEW input \in Inputs, Within(r, Absolute(r, input)),
         NEW e \in EvalSymlinks(t, Absolute(r, input)), Within(r, e)
  PROVE  secureMCPTarget(t, r, input, TRUE) = {e}
<1> DEFINE p == Absolute(r, input)
<1>1. p \in Path
  BY AbsoluteIsPath
<1>2. Walk(t, p).end = "found" /\ EvalSymlinks(t, p) = {e}
  <2> HIDE DEF p
  <2> QED
    BY <1>1, EvalIs DEF p
<1>3. Ancestor(t, p) = {p}
  <2> HIDE DEF p
  <2> QED
    BY <1>1, <1>2, AncestorOfFound
<1> QED
  BY <1>2, <1>3 DEF secureMCPTarget

\* A path that secureMCPTarget lets clipfit_create have, and that does not exist.
Asked(t, r, input, p) ==
  /\ IsTree(t) /\ r \in Path /\ input \in Inputs
  /\ p \in secureMCPTarget(t, r, input, FALSE) /\ Lstat(t, p) = "absent"

\* The target of a file that is to be created, and the way to its nearest ancestor.
LEMMA TargetToCreate ==
  ASSUME NEW t, NEW r, NEW input, NEW p, Asked(t, r, input, p)
  PROVE  /\ p = Absolute(r, input) /\ p \in Path /\ p # <<>> /\ Within(r, p)
         /\ \E k \in 0..Len(p) - 1 :
              /\ AncestorAt(t, p, k) /\ Ancestor(t, p) = {Upto(p, k)}
              /\ \E e \in EvalSymlinks(t, Upto(p, k)) : Within(r, e)
<1>0. IsTree(t) /\ r \in Path /\ input \in Inputs /\ Lstat(t, p) = "absent"
  BY DEF Asked
<1>1. /\ p = Absolute(r, input) /\ Within(r, p)
      /\ \E a \in Ancestor(t, p) : \E e \in EvalSymlinks(t, a) : Within(r, e)
  BY DEF Asked, secureMCPTarget
<1>2. p \in Path
  BY <1>0, <1>1, AbsoluteIsPath
<1>3. PICK a \in Ancestor(t, p) : \E e \in EvalSymlinks(t, a) : Within(r, e)
  BY <1>1
<1>4. /\ p # <<>>
      /\ \E k \in 0..Len(p) - 1 : a = Upto(p, k) /\ AncestorAt(t, p, k) /\ Ancestor(t, p) = {a}
  BY <1>0, <1>2, AncestorOfAbsent
<1> QED
  BY <1>1, <1>2, <1>3, <1>4

\* The tree in which the file is put, and what writing it makes of that tree.
Ready(t, p, u) == u = MkdirAll(t, Front(p)) \/ (u = t /\ Stat(t, Front(p)) = Directory)

Prepared(t, p, u, again) == again \subseteq {p} /\ (Ready(t, p, u) \/ (u = t /\ again = {}))

Makes(u, again, written, v) ==
  LET new == UNION {Place(u, q) : q \in again}
  IN /\ new \subseteq AllPaths
     /\ IF ~written THEN v = u
        ELSE new # {} /\ v = [q \in DOMAIN u |-> IF q \in new THEN File("created") ELSE u[q]]

\* Where the file is put: inside the root, where nothing is, in a tree that
\* has grown there only.
LEMMA PlaceIsInside ==
  ASSUME NEW t, NEW r, NEW input, NEW p, Asked(t, r, input, p),
         NEW u, Ready(t, p, u)
  PROVE  /\ IsTree(u)
         /\ \A x \in AllPaths : u[x] # t[x] => t[x] = Nothing /\ Within(r, x)
         /\ \A q \in Place(u, p) : Within(r, q) /\ (q \in AllPaths => u[q] = Nothing)
<1>0. IsTree(t) /\ r \in Path /\ Lstat(t, p) = "absent"
  BY DEF Asked
<1>1. p = Absolute(r, input) /\ p \in Path /\ p # <<>> /\ Within(r, p)
  BY TargetToCreate
<1>2. PICK k \in 0..Len(p) - 1 :
        /\ AncestorAt(t, p, k) /\ Ancestor(t, p) = {Upto(p, k)}
        /\ \E e \in EvalSymlinks(t, Upto(p, k)) : Within(r, e)
  BY TargetToCreate
<1>3. PICK e \in EvalSymlinks(t, Upto(p, k)) : Within(r, e)
  BY <1>0, <1>2
<1>4. CASE u = MkdirAll(t, Front(p))
  BY <1>0, <1>1, <1>2, <1>3, <1>4, DirsMade
<1>5. CASE u = t /\ Stat(t, Front(p)) = Directory
  <2>1. Front(p) \in Path /\ Last(p) \in Names
    BY <1>0, <1>1, FrontLast
  <2>2. Walk(t, Front(p)).end = "found"
    BY <1>0, <1>5 DEF Stat, Directory, Nothing
  <2>3. Ancestor(t, Front(p)) = {Front(p)}
    BY <1>0, <2>1, <2>2, AncestorOfFound
  <2>4. Ancestor(t, Front(p)) = Ancestor(t, p)
    BY <1>0, <1>1, AncestorOfAbsent
  <2>5. Upto(p, k) = Front(p)
    BY <1>0, <1>2, <2>3, <2>4
  <2>6. EvalSymlinks(t, Front(p)) = {e} /\ e \in Path
    BY <1>0, <1>3, <2>1, <2>5, EvalIs
  <2>7. ASSUME NEW q \in Place(t, p) PROVE Within(r, q) /\ NodeAt(t, q) = Nothing
    <3>1. q = Append(e, Last(p))
      BY <1>0, <1>1, <2>6, PlaceIs
    <3>2. NodeAt(t, q) = Nothing
      BY <1>0, <1>1, LstatIs
    <3> QED
      BY <1>0, <1>3, <2>1, <2>6, <3>1, <3>2, WithinAppend
  <2> QED
    BY <1>0, <1>5, <2>7, NodeKinds
<1> QED
  BY <1>0, <1>4, <1>5 DEF Ready

\* clipfit_create, from the target to the file or to the failure.
LEMMA Created ==
  ASSUME NEW t, NEW r, NEW input, NEW p, Asked(t, r, input, p),
         NEW u, NEW again, Prepared(t, p, u, again), NEW v, NEW written, Makes(u, again, written, v)
  PROVE  /\ IsTree(v)
         /\ \A x \in AllPaths : v[x] # t[x] => t[x] = Nothing /\ Within(r, x)
         /\ written => again = {p} /\ \E e \in secureMCPTarget(v, r, input, TRUE) : v[e] = File("created")
<1> DEFINE new == UNION {Place(u, q) : q \in again}
<1>1. p = Absolute(r, input) /\ p \in Path /\ p # <<>> /\ Within(r, p)
  BY TargetToCreate
<1>. USE DEF Prepared
<1>0. /\ IsTree(t) /\ r \in Path /\ input \in Inputs
      /\ p \in secureMCPTarget(t, r, input, FALSE) /\ Lstat(t, p) = "absent"
  BY DEF Asked
<1>2. /\ IsTree(u)
      /\ \A x \in AllPaths : u[x] # t[x] => t[x] = Nothing /\ Within(r, x)
  <2>1. CASE u = t
    BY <1>0, <2>1
  <2>2. CASE Ready(t, p, u)
    BY <2>2, PlaceIsInside
  <2> QED
    BY <2>1, <2>2
<1>3. CASE ~written
  BY <1>2, <1>3 DEF Makes
<1>4. CASE written
  <2>1. new # {} /\ v = [q \in DOMAIN u |-> IF q \in new THEN File("created") ELSE u[q]]
    BY <1>4 DEF Makes
  <2>2. again = {p}
    <3>1. again # {}
      BY <2>1
    <3> QED
      BY <3>1
  <2>3. new = Place(u, p) /\ new \subseteq AllPaths
    BY <2>2 DEF Makes
  <2> HIDE DEF new
  <2>4. \A q \in Place(u, p) : Within(r, q) /\ (q \in AllPaths => u[q] = Nothing)
    <3>1. Ready(t, p, u)
      BY <2>2
    <3> QED
      BY <3>1, PlaceIsInside
  <2>5. PICK q \in Place(u, p) : q \in AllPaths
    BY <2>1, <2>3
  <2>6. Place(u, p) = {q}
    BY <1>1, <1>2, <2>5, PlaceIs
  <2>7. DOMAIN u = AllPaths
    BY <1>2 DEF IsTree
  <2>8. v = [x \in AllPaths |-> IF x = q THEN File("created") ELSE u[x]]
    BY <2>1, <2>3, <2>6, <2>7
  <2>9. Within(r, q) /\ u[q] = Nothing
    BY <2>4, <2>5
  <2>10. /\ IsTree(v) /\ \A x \in AllPaths : u[x] # Nothing => v[x] = u[x]
         /\ EvalSymlinks(v, p) = {q} /\ v[q] = File("created")
    BY <1>1, <1>2, <2>5, <2>8, <2>9, FileAdded
  <2>11. secureMCPTarget(v, r, input, TRUE) = {q}
    <3>1. Within(r, Absolute(r, input)) /\ q \in EvalSymlinks(v, Absolute(r, input))
      BY <1>1, <2>10
    <3> QED
      BY <1>0, <2>9, <2>10, <3>1, InsideIsOpened
  <2>12. ASSUME NEW x \in AllPaths, v[x] # t[x] PROVE t[x] = Nothing /\ Within(r, x)
    <3>1. CASE x = q
      BY <1>2, <2>9, <3>1
    <3>2. CASE x # q
      BY <1>2, <2>8, <2>12, <3>2
    <3> QED
      BY <3>1, <3>2
  <2> QED
    BY <2>2, <2>10, <2>11, <2>12
<1> QED
  BY <1>3, <1>4

\* In a tree that has grown, a path without links is one.
LEMMA NoLinksKept ==
  ASSUME NEW t, IsTree(t), NEW u, IsTree(u), \A x \in AllPaths : t[x] # Nothing => u[x] = t[x],
         NEW r \in Path, EvalSymlinks(t, r) = {r}
  PROVE  EvalSymlinks(u, r) = {r}
<1>1. Walk(t, r) = [end |-> "found", at |-> r]
  BY EvalIs
<1>2. MaxLinks \in 0..MaxLinks
  BY PathsAssumption
<1>3. Walks(u)[MaxLinks][r] = [end |-> "found", at |-> r]
  BY <1>1, <1>2, WalkIs, GrownTree
<1> QED
  BY <1>3, WalkIs DEF EvalSymlinks

-----------------------------------------------------------------------------
(* Behaviours of the guard. *)

GuardInv ==
  /\ GuardTypeOK
  /\ root = {} \/ \E r \in AllPaths : root = {r}
  /\ root = {} => answer = NoAnswer
  /\ ServesExactlyTheInside

\* The root is one path, or there is none.
LEMMA OneRoot ==
  ASSUME GuardInv, NEW r \in root
  PROVE  r \in AllPaths /\ r \in Path /\ root = {r} /\ IsTree(tree) /\ tree[r] = Directory
BY PathsOfTree DEF GuardInv, GuardTypeOK

LEMMA AtMostOne ==
  ASSUME NEW S, S = {} \/ \E r \in AllPaths : S = {r}
  PROVE  Cardinality(S) <= 1
<1>1. CASE S = {}
  BY <1>1, FS_EmptySet
<1>2. CASE \E r \in AllPaths : S = {r}
  BY <1>2, FS_Singleton
<1> QED
  BY <1>1, <1>2

LEMMA GuardStarts == GuardInit => GuardInv
<1> SUFFICES ASSUME GuardInit PROVE GuardInv
  OBVIOUS
<1>1. IsTree(tree)
  BY PathGuardAssumption DEF GuardInit
<1>2. GuardTypeOK
  BY <1>1, AtMostOne DEF GuardInit, GuardTypeOK
<1>3. ServesExactlyTheInside
  BY DEF GuardInit, NoAnswer, ServesExactlyTheInside, RootIsLocal, TargetIsInside, InsideIsServed,
         CreatedIsServed
<1> QED
  BY <1>2, <1>3 DEF GuardInit, GuardInv

\* No answer promises nothing.
LEMMA SilenceIsFine ==
  ASSUME answer = NoAnswer
  PROVE  TargetIsInside /\ InsideIsServed /\ CreatedIsServed
BY DEF NoAnswer, TargetIsInside, InsideIsServed, CreatedIsServed

LEMMA StartStep ==
  ASSUME GuardInv, Start
  PROVE  GuardInv'
<1>1. UNCHANGED <<platform, tree, creates, answer>> /\ root = {} /\ answer = NoAnswer
  BY DEF Start, GuardInv
<1>2. IsTree(tree) /\ platform \in {"linux", "windows", "other"}
  BY DEF GuardInv, GuardTypeOK
<1>3. PICK p \in AllPaths : root' = resolveMCPRoot(p) /\ root' # {}
  BY DEF Start
<1>4. p \in Path
  BY PathsOfTree
<1>5. PICK r : r \in root'
  BY <1>3
<1>6. r \in EvalSymlinks(tree, p) /\ tree[r] = Directory /\ validatePlatformRoot(r)
  BY <1>3, <1>5 DEF resolveMCPRoot
<1>7. EvalSymlinks(tree, p) = {r} /\ r \in AllPaths /\ EvalSymlinks(tree, r) = {r}
  BY <1>2, <1>4, <1>6, EvalIs
<1>8. root' = {r}
  <2>1. root' \subseteq {r}
    BY <1>3, <1>7 DEF resolveMCPRoot
  <2> QED
    BY <1>5, <2>1
<1>9. GuardTypeOK'
  <2>1. Cardinality(root') <= 1
    BY <1>7, <1>8, AtMostOne
  <2> QED
    BY <1>1, <1>2, <1>6, <1>8, <2>1 DEF GuardTypeOK
<1>10. /\ platform = "linux" => ~IsPrefix(DriveMount, r) /\ r \notin OnNinep
       /\ platform = "windows" => validateWindowsLocalDriveRoot(r)
  BY <1>6 DEF validatePlatformRoot, validatePlatformRootInput, isWSLWindowsDriveMount
<1>11. RootIsLocal'
  BY <1>1, <1>7, <1>8, <1>10 DEF RootIsLocal, validateWindowsLocalDriveRoot
<1>12. (TargetIsInside /\ InsideIsServed /\ CreatedIsServed)'
  BY <1>1 DEF NoAnswer, TargetIsInside, InsideIsServed, CreatedIsServed
<1> QED
  BY <1>1, <1>7, <1>8, <1>9, <1>11, <1>12 DEF GuardInv, ServesExactlyTheInside

LEMMA OpenStep ==
  ASSUME GuardInv, OpenTarget
  PROVE  GuardInv'
<1>1. UNCHANGED <<platform, tree, creates, root>>
  BY DEF OpenTarget
<1>2. PICK r \in root, input \in Inputs, tool \in {"preview", "rollback"} :
        answer' = [tool |-> tool, input |-> input,
                   target |-> {q \in secureMCPTarget(tree, r, input, TRUE) :
                                 tool = "rollback" \/ Stat(tree, q).kind = "file"}]
  BY DEF OpenTarget
<1>3. r \in Path /\ root = {r} /\ IsTree(tree)
  BY OneRoot
<1>4. /\ answer'.tool = tool /\ answer'.input = input
      /\ answer'.target = {q \in secureMCPTarget(tree, r, input, TRUE) :
                             tool = "rollback" \/ Stat(tree, q).kind = "file"}
  BY <1>2
<1>5. GuardTypeOK' /\ RootIsLocal'
  BY <1>1 DEF GuardInv, GuardTypeOK, ServesExactlyTheInside, RootIsLocal, validateWindowsLocalDriveRoot
<1>6. TargetIsInside'
  <2> SUFFICES ASSUME NEW q \in answer'.target
               PROVE  Within(r, q) /\ tree[q] # Nothing /\ EvalSymlinks(tree, q) = {q}
    BY <1>1, <1>3 DEF TargetIsInside
  <2> QED
    BY <1>3, <1>4, OpenedIsInside
<1>7. InsideIsServed'
  <2> DEFINE p == r \o input.names
  <2> SUFFICES ASSUME tool = "preview", ~input.abs, Up \notin ToSet(input.names),
                      NEW e \in EvalSymlinks(tree, p), Within(r, e), tree[e].kind = "file"
               PROVE  answer'.target = {e}
    BY <1>1, <1>3, <1>4 DEF InsideIsServed
  <2>1. p = Absolute(r, input) /\ input.names \in Path
    BY <1>3, AbsoluteIsPath
  <2>2. Within(r, p) /\ p \in Path
    BY <1>3, <2>1, WithinJoined, AbsoluteIsPath
  <2>3. secureMCPTarget(tree, r, input, TRUE) = {e}
    <3>1. Within(r, Absolute(r, input)) /\ e \in EvalSymlinks(tree, Absolute(r, input))
      BY <2>1, <2>2
    <3> HIDE DEF p
    <3> QED
      BY <1>3, <3>1, InsideIsOpened
  <2>4. e \in Path /\ Stat(tree, e) = tree[e]
    <3>1. e \in Path /\ EvalSymlinks(tree, e) = {e}
      BY <1>3, <2>2, EvalIs
    <3> QED
      BY <1>3, <3>1, EvalIs
  <2> QED
    BY <1>4, <2>3, <2>4
<1>8. CreatedIsServed'
  BY <1>4 DEF CreatedIsServed
<1>9. root' # {} /\ \E s \in AllPaths : root' = {s}
  BY <1>1, <1>3, OneRoot
<1> QED
  BY <1>5, <1>6, <1>7, <1>8, <1>9 DEF GuardInv, ServesExactlyTheInside

\* A file is created, or the attempt fails: the tree grows inside the root, and
\* the file is opened by the path that created it.
LEMMA CreateStep ==
  ASSUME GuardInv, Create
  PROVE  /\ IsTree(tree') /\ UNCHANGED <<platform, root>> /\ answer'.tool = "create"
         /\ \A x \in AllPaths : tree'[x] # tree[x] =>
              tree[x] = Nothing /\ \A r \in root : Within(r, x)
         /\ \A r \in root, q \in answer'.target :
              \E e \in secureMCPTarget(tree', r, answer'.input, TRUE) : tree'[e] = File("created")
         /\ root # {}
<1>1. UNCHANGED <<platform, root>>
  BY DEF Create
<1>2. PICK r \in root, input \in Inputs, createParents \in BOOLEAN, written \in BOOLEAN :
       LET target == {p \in secureMCPTarget(tree, r, input, FALSE) : Lstat(tree, p) = "absent"}
       IN \E p \in target :
            LET t == IF createParents THEN MkdirAll(tree, Front(p)) ELSE tree
                again == IF createParents
                         THEN secureMCPTarget(t, r, [abs |-> TRUE, names |-> p], FALSE)
                         ELSE {q \in target : Stat(t, Front(q)) = Directory}
                new == UNION {Place(t, q) : q \in again}
            IN /\ Len(p) <= MaxDepth /\ new \subseteq DOMAIN tree
               /\ written => new # {}
               /\ tree' = IF ~written THEN t
                          ELSE [q \in DOMAIN t |-> IF q \in new THEN File("created") ELSE t[q]]
               /\ answer' = [tool |-> "create", input |-> input,
                             target |-> IF written THEN again ELSE {}]
  BY DEF Create
<1> DEFINE target == {p \in secureMCPTarget(tree, r, input, FALSE) : Lstat(tree, p) = "absent"}
           Dirs(p) == IF createParents THEN MkdirAll(tree, Front(p)) ELSE tree
           Again(p) == IF createParents
                       THEN secureMCPTarget(Dirs(p), r, [abs |-> TRUE, names |-> p], FALSE)
                       ELSE {q \in target : Stat(Dirs(p), Front(q)) = Directory}
           New(p) == UNION {Place(Dirs(p), q) : q \in Again(p)}
<1>3. PICK p \in target :
        /\ New(p) \subseteq DOMAIN tree /\ (written => New(p) # {})
        /\ tree' = IF ~written THEN Dirs(p)
                   ELSE [q \in DOMAIN Dirs(p) |-> IF q \in New(p) THEN File("created") ELSE Dirs(p)[q]]
        /\ answer' = [tool |-> "create", input |-> input, target |-> IF written THEN Again(p) ELSE {}]
  BY <1>2
<1>4. r \in Path /\ root = {r} /\ IsTree(tree) /\ DOMAIN tree = AllPaths
  BY OneRoot DEF IsTree
<1>5. Asked(tree, r, input, p)
  BY <1>2, <1>3, <1>4 DEF Asked
<1>6. p = Absolute(r, input) /\ p \in Path
  BY <1>5, TargetToCreate
<1>7. target = {p}
  BY <1>3, <1>6 DEF secureMCPTarget
<1> HIDE DEF target
<1>8. Again(p) \subseteq {p}
  <2>1. CASE createParents
    <3>1. Clean(p) = p
      BY <1>6, CleanKeeps
    <3>2. Absolute(r, [abs |-> TRUE, names |-> p]) = p
      BY <3>1 DEF Absolute
    <3> QED
      BY <2>1, <3>2 DEF secureMCPTarget
  <2>2. CASE ~createParents
    BY <1>7, <2>2
  <2> QED
    BY <2>1, <2>2
<1>9. \/ Dirs(p) = MkdirAll(tree, Front(p))
      \/ Dirs(p) = tree /\ (Again(p) = {} \/ Stat(tree, Front(p)) = Directory)
  BY <1>7
<1> DEFINE u == Dirs(p)
           again == Again(p)
<1>10. /\ again \subseteq {p}
       /\ Ready(tree, p, u) \/ (u = tree /\ again = {})
       /\ Makes(u, again, written, tree')
       /\ answer' = [tool |-> "create", input |-> input, target |-> IF written THEN again ELSE {}]
  BY <1>3, <1>4, <1>8, <1>9 DEF Ready, Makes
<1> HIDE DEF u, again, Dirs, Again, New
<1>11. /\ IsTree(tree')
       /\ \A x \in AllPaths : tree'[x] # tree[x] => tree[x] = Nothing /\ Within(r, x)
       /\ written => /\ again = {p}
                     /\ \E e \in secureMCPTarget(tree', r, input, TRUE) : tree'[e] = File("created")
  <2>1. Prepared(tree, p, u, again)
    BY <1>10 DEF Prepared
  <2>2. Makes(u, again, written, tree')
    BY <1>10
  <2> QED
    BY <1>5, <2>1, <2>2, Created
<1>12. answer'.tool = "create" /\ answer'.input = input /\ answer'.target = IF written THEN again ELSE {}
  BY <1>10
<1> QED
  BY <1>1, <1>4, <1>11, <1>12

LEMMA CreateKeeps ==
  ASSUME GuardInv, Create
  PROVE  GuardInv'
<1>1. /\ IsTree(tree') /\ UNCHANGED <<platform, root>> /\ answer'.tool = "create" /\ root # {}
      /\ \A x \in AllPaths : tree'[x] # tree[x] => tree[x] = Nothing
  BY CreateStep
<1>2. \A x \in AllPaths : tree[x] # Nothing => tree'[x] = tree[x]
  BY <1>1
<1>3. ASSUME NEW r \in root PROVE tree'[r] = Directory /\ EvalSymlinks(tree', r) = {r}
  <2>1. r \in AllPaths /\ r \in Path /\ IsTree(tree) /\ tree[r] = Directory /\ EvalSymlinks(tree, r) = {r}
    BY OneRoot DEF GuardInv, ServesExactlyTheInside, RootIsLocal
  <2> QED
    BY <1>1, <1>2, <2>1, NoLinksKept DEF Directory, Nothing
<1>4. GuardTypeOK'
  BY <1>1, <1>3 DEF GuardInv, GuardTypeOK
<1>5. RootIsLocal'
  BY <1>1, <1>3 DEF GuardInv, ServesExactlyTheInside, RootIsLocal, validateWindowsLocalDriveRoot
<1>6. TargetIsInside' /\ InsideIsServed'
  BY <1>1 DEF TargetIsInside, InsideIsServed
<1>7. CreatedIsServed'
  BY <1>1, CreateStep DEF CreatedIsServed
<1> QED
  BY <1>1, <1>4, <1>5, <1>6, <1>7 DEF GuardInv, ServesExactlyTheInside

LEMMA AnsweredStep ==
  ASSUME GuardInv, Answered
  PROVE  GuardInv'
<1>1. UNCHANGED <<platform, tree, creates, root>> /\ answer' = NoAnswer
  BY DEF Answered
<1>2. GuardTypeOK' /\ RootIsLocal'
  BY <1>1 DEF GuardInv, GuardTypeOK, ServesExactlyTheInside, RootIsLocal, validateWindowsLocalDriveRoot
<1>3. (TargetIsInside /\ InsideIsServed /\ CreatedIsServed)'
  BY <1>1 DEF NoAnswer, TargetIsInside, InsideIsServed, CreatedIsServed
<1> QED
  BY <1>1, <1>2, <1>3 DEF GuardInv, ServesExactlyTheInside

LEMMA GuardStandsStill ==
  ASSUME GuardInv, UNCHANGED guardVars
  PROVE  GuardInv'
BY DEF GuardInv, GuardTypeOK, ServesExactlyTheInside, RootIsLocal, TargetIsInside, InsideIsServed,
       CreatedIsServed, guardVars, validateWindowsLocalDriveRoot

LEMMA GuardKeeps ==
  ASSUME GuardInv, Next \/ UNCHANGED <<part, guardVars, cliVars>>
  PROVE  GuardInv'
BY StartStep, OpenStep, CreateKeeps, AnsweredStep, GuardStandsStill DEF Next, GuardNext

LEMMA GuardHolds == Spec => []GuardInv
<1>1. Init => GuardInv
  BY GuardStarts DEF Init, GuardStands
<1>2. GuardInv /\ [Next]_<<part, guardVars, cliVars>> => GuardInv'
  BY GuardKeeps
<1> QED
  BY <1>1, <1>2, PTL DEF Spec

\* The server works on what is inside its root, all of it and nothing else,
\* under one name, and the root is local: for any tree, any links and any request.
THEOREM GuardServesTheInside == Spec => []ServesExactlyTheInside
<1>1. GuardInv => ServesExactlyTheInside
  BY DEF GuardInv
<1> QED
  BY <1>1, GuardHolds, PTL

\* A request changes the tree only inside the root, and only where nothing was.
THEOREM CreateAddsInside == Spec => CreateOnlyAddsInside
<1> DEFINE Adds == \A p \in DOMAIN tree : tree'[p] # tree[p] =>
                     tree[p] = Nothing /\ \A r \in root : Within(r, p)
<1>1. ASSUME GuardInv, Next \/ UNCHANGED <<part, guardVars, cliVars>>
      PROVE  [Adds]_guardVars
  <2>1. CASE Create
    <3>1. DOMAIN tree = AllPaths
      BY <1>1 DEF GuardInv, GuardTypeOK, IsTree
    <3> QED
      BY <1>1, <2>1, <3>1, CreateStep
  <2>2. CASE ~Create
    <3>1. UNCHANGED tree
      BY <1>1, <2>2 DEF Next, GuardNext, Start, OpenTarget, Answered, guardVars
    <3> QED
      BY <3>1
  <2> QED
    BY <2>1, <2>2
<1>2. GuardInv /\ [Next]_<<part, guardVars, cliVars>> => [Adds]_guardVars
  BY <1>1
<1>3. Spec => [][Adds]_guardVars
  BY <1>2, GuardHolds, PTL DEF Spec
<1> QED
  BY <1>3 DEF CreateOnlyAddsInside

-----------------------------------------------------------------------------
(* A file put in the place of a file, of a link or of nothing. *)

\* The tree stays one.
LEMMA ReplacedTree ==
  ASSUME NEW t, IsTree(t), NEW r \in AllPaths, t[r] # Directory, t[Front(r)] = Directory, r # <<>>,
         NEW d
  PROVE  IsTree([t EXCEPT ![r] = File(d)])
<1> DEFINE u == [t EXCEPT ![r] = File(d)]
<1>1. DOMAIN u = AllPaths /\ u[r] = File(d) /\ \A x \in AllPaths : x # r => u[x] = t[x]
  BY DEF IsTree
<1> HIDE DEF u
<1>2. Front(r) \in AllPaths /\ Front(r) # r
  BY FrontOfPath
<1>3. <<>> \in AllPaths /\ u[<<>>] = Directory
  <2>1. <<>> \in AllPaths
    BY PathsAssumption DEF AllPaths
  <2> QED
    BY <1>1, <2>1 DEF IsTree
<1>4. \A x \in AllPaths : IsNode(u[x])
  <2>1. IsNode(File(d))
    BY DEF IsNode, File
  <2> QED
    BY <1>1, <2>1 DEF IsTree
<1>5. ASSUME NEW x \in AllPaths \ {<<>>}, u[x] # Nothing PROVE u[Front(x)] = Directory
  <2>0. Front(x) \in AllPaths
    BY FrontOfPath
  <2>1. CASE x = r
    BY <1>1, <1>2, <2>1
  <2>2. CASE x # r
    <3>1. t[Front(x)] = Directory
      BY <1>1, <1>5, <2>2 DEF IsTree
    <3> QED
      BY <1>1, <2>0, <3>1
  <2> QED
    BY <2>1, <2>2
<1>6. IsTree(u)
  BY <1>1, <1>3, <1>4, <1>5 DEF IsTree
<1> QED
  BY <1>6 DEF u

\* The two trees, and that both are trees.
Replaces(t, r, d, u) ==
  /\ IsTree(t) /\ IsTree(u) /\ r \in AllPaths /\ t[r] # Directory
  /\ u = [t EXCEPT ![r] = File(d)]

LEMMA ReplacesIs ==
  ASSUME NEW t, NEW r, NEW d, NEW u, Replaces(t, r, d, u)
  PROVE  /\ IsTree(t) /\ IsTree(u) /\ r \in AllPaths /\ r \in Path
         /\ u[r] = File(d) /\ u[r].kind = "file" /\ u[r].data = d
         /\ t[r].kind \in {"none", "file", "link"} /\ (t[r].kind = "link" => t[r].to \in Path)
         /\ \A x : x # r => NodeAt(u, x) = NodeAt(t, x)
         /\ \A x \in AllPaths : x # r => u[x] = t[x]
         /\ \A x : NodeAt(u, x).kind = "dir" <=> NodeAt(t, x).kind = "dir"
<1>1. /\ IsTree(t) /\ IsTree(u) /\ r \in AllPaths /\ t[r] # Directory
      /\ u = [t EXCEPT ![r] = File(d)] /\ DOMAIN t = AllPaths /\ DOMAIN u = AllPaths
  BY DEF Replaces, IsTree
<1>2. r \in Path
  BY <1>1, PathsOfTree
<1>3. u[r] = File(d) /\ \A x \in AllPaths : x # r => u[x] = t[x]
  BY <1>1
<1>4. File(d).kind = "file" /\ File(d).data = d
  BY DEF File
<1>5. NodeAt(t, r) = t[r] /\ NodeAt(u, r) = u[r]
  BY <1>1, NodeKinds
<1>6. t[r].kind \in {"none", "file", "link"} /\ (t[r].kind = "link" => t[r].to \in Path)
  BY <1>1, <1>5, NodeKinds
<1>7. \A x : x # r => NodeAt(u, x) = NodeAt(t, x)
  BY <1>1, <1>3 DEF NodeAt
<1>8. \A x : NodeAt(u, x).kind = "dir" <=> NodeAt(t, x).kind = "dir"
  BY <1>3, <1>4, <1>5, <1>6, <1>7
<1> QED
  BY <1>1, <1>2, <1>3, <1>4, <1>6, <1>7, <1>8

\* A way down is the same, or it had led through the place of the new file: it
\* then ends there.
LEMMA ReplacedWay ==
  ASSUME NEW t, NEW r, NEW d, NEW u, Replaces(t, r, d, u), NEW q \in Path
  PROVE  \/ Descend(u, q) = Descend(t, q)
         \/ \E s \in Path :
              /\ Descend(u, q) = IF s = <<>> THEN [end |-> "found", at |-> r] ELSE [end |-> "error"]
              /\ \/ t[r].kind = "none" /\ Descend(t, q) = [end |-> "absent"]
                 \/ t[r].kind = "link" /\ Descend(t, q) = [end |-> "link", to |-> t[r].to \o s]
<1>1. /\ IsTree(t) /\ IsTree(u) /\ r \in AllPaths /\ r \in Path /\ u[r].kind = "file"
      /\ t[r].kind \in {"none", "file", "link"}
      /\ \A x : x # r => NodeAt(u, x) = NodeAt(t, x)
      /\ \A x : NodeAt(u, x).kind = "dir" <=> NodeAt(t, x).kind = "dir"
  BY ReplacesIs
<1>2. \A j : j \in Stops(u, q) <=> j \in Stops(t, q)
  BY <1>1, StopsAre
<1>3. CASE Stops(t, q) = {}
  <2>1. Stops(u, q) = {}
    BY <1>2, <1>3
  <2> QED
    BY <1>1, <1>3, <2>1, DescendThrough
<1>4. CASE Stops(t, q) # {}
  <2>1. PICK i : StopsAt(t, q, i)
    BY <1>4, StopsFirst
  <2>2. StopsAt(u, q, i)
    BY <1>2, <2>1 DEF StopsAt
  <2> DEFINE node == NodeAt(t, Upto(q, i))
             node2 == NodeAt(u, Upto(q, i))
             s == Past(q, i)
  <2>3. /\ i \in 1..Len(q) /\ s \in Path /\ node.kind \in {"none", "file", "link"}
        /\ node.kind = "none" => Descend(t, q) = [end |-> "absent"]
        /\ node.kind = "file" =>
             Descend(t, q) = IF s = <<>> THEN [end |-> "found", at |-> q] ELSE [end |-> "error"]
        /\ node.kind = "link" => Descend(t, q) = [end |-> "link", to |-> node.to \o s]
    BY <1>1, <2>1, DescendAt
  <2>4. /\ node2.kind = "none" => Descend(u, q) = [end |-> "absent"]
        /\ node2.kind = "file" =>
             Descend(u, q) = IF s = <<>> THEN [end |-> "found", at |-> q] ELSE [end |-> "error"]
        /\ node2.kind = "link" => Descend(u, q) = [end |-> "link", to |-> node2.to \o s]
    BY <1>1, <2>2, DescendAt
  <2>5. s = <<>> => q = Upto(q, i)
    <3>1. i \in 0..Len(q)
      BY <2>3, Whole
    <3>2. q = Upto(q, i) \o s /\ Upto(q, i) \in Path
      BY <3>1, Cut, CutJoined
    <3> QED
      BY <2>3, <3>2, Joined
  <2>6. CASE Upto(q, i) # r
    <3>1. node2 = node
      BY <1>1, <2>6
    <3> HIDE DEF node, node2, s
    <3>2. CASE node.kind = "none"
      BY <2>3, <2>4, <3>1, <3>2
    <3>3. CASE node.kind = "file"
      BY <2>3, <2>4, <3>1, <3>3
    <3>4. CASE node.kind = "link"
      BY <2>3, <2>4, <3>1, <3>4
    <3> QED
      BY <2>3, <3>2, <3>3, <3>4
  <2>7. CASE Upto(q, i) = r
    <3>1. node = t[r] /\ node2 = u[r]
      BY <1>1, <2>7, NodeKinds
    <3> HIDE DEF node, node2, s
    <3>2. Descend(u, q) = IF s = <<>> THEN [end |-> "found", at |-> q] ELSE [end |-> "error"]
      BY <1>1, <2>4, <3>1
    <3>3. Descend(u, q) = IF s = <<>> THEN [end |-> "found", at |-> r] ELSE [end |-> "error"]
      BY <2>5, <2>7, <3>2
    <3>4. CASE node.kind = "none"
      BY <2>3, <3>1, <3>3, <3>4
    <3>5. CASE node.kind = "link"
      BY <2>3, <3>1, <3>3, <3>5
    <3>6. CASE node.kind = "file"
      BY <2>3, <3>2, <3>6
    <3> QED
      BY <2>3, <3>4, <3>5, <3>6
  <2> QED
    BY <2>6, <2>7
<1> QED
  BY <1>3, <1>4

\* Where a file took the place of a file, every walk is the same.
LEMMA SameWalks ==
  ASSUME NEW t, NEW r, NEW d, NEW u, Replaces(t, r, d, u), t[r].kind = "file",
         NEW k \in 0..MaxLinks, NEW q \in Path
  PROVE  Walks(u)[k][q] = Walks(t)[k][q]
<1> USE PathsAssumption
<1> DEFINE S == {m \in 0..MaxLinks : \A p \in Path : Walks(u)[m][p] = Walks(t)[m][p]}
<1>0. IsTree(t)
  BY ReplacesIs
<1>1. \A p \in Path : Descend(u, p) = Descend(t, p)
  BY ReplacedWay
<1>2. \A p \in Path : Descend(t, p).end = "link" => Descend(t, p).to \in Path
  BY <1>0, DescendEnds
<1>3. 0 \in S
  BY <1>1, WalksFirst
<1>4. ASSUME NEW m \in 0..MaxLinks - 1, m \in S PROVE m + 1 \in S
  <2>0. m + 1 \in 0..MaxLinks
    OBVIOUS
  <2>1. ASSUME NEW p \in Path PROVE Walks(u)[m + 1][p] = Walks(t)[m + 1][p]
    <3>1. /\ Walks(t)[m + 1][p] = IF Descend(t, p).end # "link" THEN Descend(t, p)
                                  ELSE Walks(t)[m][Descend(t, p).to]
          /\ Walks(u)[m + 1][p] = IF Descend(u, p).end # "link" THEN Descend(u, p)
                                  ELSE Walks(u)[m][Descend(u, p).to]
      BY WalksNext
    <3> QED
      BY <1>1, <1>2, <1>4, <3>1
  <2> QED
    BY <2>0, <2>1
<1>5. \A m \in 0..MaxLinks : m \in S
  <2> HIDE DEF S
  <2>1. 0 \in Nat /\ MaxLinks \in Nat
    OBVIOUS
  <2> QED
    BY ONLY <1>3, <1>4, <2>1, Upwards
<1>6. k \in S
  <2> HIDE DEF S
  <2> QED
    BY <1>5
<1> QED
  BY <1>6

\* A directory that is found then was found before, by the same walk.
LEMMA DirectoryWasThere ==
  ASSUME NEW t, NEW r, NEW d, NEW u, Replaces(t, r, d, u), NEW k \in 0..MaxLinks, NEW q \in Path,
         Walks(u)[k][q].end = "found", u[Walks(u)[k][q].at].kind = "dir"
  PROVE  Walks(t)[k][q] = Walks(u)[k][q]
<1> USE PathsAssumption
<1> DEFINE Led(w) == w.end = "found" /\ u[w.at].kind = "dir"
           S == {m \in 0..MaxLinks : \A p \in Path : Led(Walks(u)[m][p]) => Walks(t)[m][p] = Walks(u)[m][p]}
<1>0. IsTree(t) /\ IsTree(u) /\ u[r].kind = "file"
  BY ReplacesIs
<1>1. ASSUME NEW p \in Path, Led(Descend(u, p)) \/ Descend(u, p).end = "link"
      PROVE  Descend(t, p) = Descend(u, p)
  <2> SUFFICES ASSUME NEW s \in Path,
                      Descend(u, p) = IF s = <<>> THEN [end |-> "found", at |-> r] ELSE [end |-> "error"]
               PROVE  FALSE
    BY ReplacedWay
  <2>1. CASE s = <<>>
    <3>1. Descend(u, p).end = "found" /\ Descend(u, p).at = r
      BY <2>1
    <3> QED
      BY <1>0, <1>1, <3>1
  <2>2. CASE s # <<>>
    <3>1. Descend(u, p).end = "error"
      BY <2>2
    <3> QED
      BY <1>1, <3>1
  <2> QED
    BY <2>1, <2>2
<1>2. \A p \in Path : Descend(u, p).end = "link" => Descend(u, p).to \in Path
  BY <1>0, DescendEnds
<1>3. 0 \in S
  <2> SUFFICES ASSUME NEW p \in Path, Led(Walks(u)[0][p]) PROVE Walks(t)[0][p] = Walks(u)[0][p]
    OBVIOUS
  <2>1. /\ Walks(t)[0][p] = IF Descend(t, p).end # "link" THEN Descend(t, p) ELSE [end |-> "loop"]
        /\ Walks(u)[0][p] = IF Descend(u, p).end # "link" THEN Descend(u, p) ELSE [end |-> "loop"]
    BY WalksFirst
  <2>2. Descend(u, p).end # "link"
    BY <2>1
  <2>3. Walks(u)[0][p] = Descend(u, p)
    BY <2>1, <2>2
  <2>4. Descend(t, p) = Descend(u, p)
    BY <1>1, <2>3
  <2> QED
    BY <2>1, <2>2, <2>4
<1>4. ASSUME NEW m \in 0..MaxLinks - 1, m \in S PROVE m + 1 \in S
  <2>0. m + 1 \in 0..MaxLinks
    OBVIOUS
  <2>1. ASSUME NEW p \in Path, Led(Walks(u)[m + 1][p]) PROVE Walks(t)[m + 1][p] = Walks(u)[m + 1][p]
    <3>1. /\ Walks(t)[m + 1][p] = IF Descend(t, p).end # "link" THEN Descend(t, p)
                                  ELSE Walks(t)[m][Descend(t, p).to]
          /\ Walks(u)[m + 1][p] = IF Descend(u, p).end # "link" THEN Descend(u, p)
                                  ELSE Walks(u)[m][Descend(u, p).to]
      BY WalksNext
    <3>2. CASE Descend(u, p).end # "link"
      <4>1. Walks(u)[m + 1][p] = Descend(u, p)
        BY <3>1, <3>2
      <4>2. Descend(t, p) = Descend(u, p)
        BY <1>1, <2>1, <4>1
      <4> QED
        BY <3>1, <3>2, <4>2
    <3>3. CASE Descend(u, p).end = "link"
      <4>1. Descend(t, p) = Descend(u, p) /\ Descend(u, p).to \in Path
        BY <1>1, <1>2, <3>3
      <4>2. Walks(u)[m + 1][p] = Walks(u)[m][Descend(u, p).to]
        BY <3>1, <3>3
      <4>3. Walks(t)[m][Descend(u, p).to] = Walks(u)[m][Descend(u, p).to]
        BY <1>4, <2>1, <4>1, <4>2
      <4> QED
        BY <3>1, <3>3, <4>1, <4>2, <4>3
    <3> QED
      BY <3>2, <3>3
  <2> HIDE DEF Led
  <2> QED
    BY <2>0, <2>1
<1>5. \A m \in 0..MaxLinks : m \in S
  <2> HIDE DEF S
  <2>1. 0 \in Nat /\ MaxLinks \in Nat
    OBVIOUS
  <2> QED
    BY ONLY <1>3, <1>4, <2>1, Upwards
<1>6. k \in S
  <2> HIDE DEF S
  <2> QED
    BY <1>5
<1> QED
  BY <1>6

\* A walk that did not run out of links is the same with more of them.
LEMMA MoreLinks ==
  ASSUME NEW t, IsTree(t), NEW k \in 0..MaxLinks, NEW q \in Path, Walks(t)[k][q].end # "loop",
         NEW l \in k..MaxLinks
  PROVE  Walks(t)[l][q] = Walks(t)[k][q]
<1> USE PathsAssumption
<1> DEFINE S == {m \in 0..MaxLinks : \A p \in Path : Walks(t)[m][p].end # "loop" =>
                   \A n \in m..MaxLinks : Walks(t)[n][p] = Walks(t)[m][p]}
<1>1. \A p \in Path : Descend(t, p).end = "link" => Descend(t, p).to \in Path
  BY DescendEnds
<1>2. 0 \in S
  <2> SUFFICES ASSUME NEW p \in Path, Walks(t)[0][p].end # "loop", NEW n \in 0..MaxLinks
               PROVE  Walks(t)[n][p] = Walks(t)[0][p]
    OBVIOUS
  <2>1. Descend(t, p).end # "link"
    BY WalksFirst
  <2>2. Walks(t)[n][p] = Descend(t, p)
    BY <2>1, WalksDef
  <2>3. Walks(t)[0][p] = Descend(t, p)
    BY <2>1, WalksFirst
  <2> QED
    BY <2>2, <2>3
<1>3. ASSUME NEW m \in 0..MaxLinks - 1, m \in S PROVE m + 1 \in S
  <2>0. m + 1 \in 0..MaxLinks
    OBVIOUS
  <2>1. ASSUME NEW p \in Path, Walks(t)[m + 1][p].end # "loop", NEW n \in m + 1..MaxLinks
        PROVE  Walks(t)[n][p] = Walks(t)[m + 1][p]
    <3>1. /\ n - 1 \in 0..MaxLinks - 1 /\ n = (n - 1) + 1 /\ n - 1 \in m..MaxLinks
      OBVIOUS
    <3> DEFINE d == Descend(t, p)
               o == n - 1
    <3>2. /\ Walks(t)[m + 1][p] = IF d.end # "link" THEN d ELSE Walks(t)[m][d.to]
          /\ Walks(t)[o + 1][p] = IF d.end # "link" THEN d ELSE Walks(t)[o][d.to]
      BY <3>1, WalksNext
    <3>3. d.end = "link" => d.to \in Path
      BY <1>1
    <3> HIDE DEF d, o
    <3>4. CASE d.end # "link"
      BY <3>1, <3>2, <3>4 DEF o
    <3>5. CASE d.end = "link"
      <4>1. Walks(t)[m][d.to].end # "loop" /\ d.to \in Path
        BY <2>1, <3>2, <3>3, <3>5
      <4>2. o \in m..MaxLinks
        BY <3>1 DEF o
      <4>3. Walks(t)[o][d.to] = Walks(t)[m][d.to]
        BY <1>3, <4>1, <4>2
      <4> QED
        BY <3>1, <3>2, <3>5, <4>3 DEF o
    <3> QED
      BY <3>4, <3>5
  <2> QED
    BY <2>0, <2>1
<1>4. \A m \in 0..MaxLinks : m \in S
  <2> HIDE DEF S
  <2>1. 0 \in Nat /\ MaxLinks \in Nat
    OBVIOUS
  <2> QED
    BY ONLY <1>2, <1>3, <2>1, Upwards
<1>5. k \in S
  <2> HIDE DEF S
  <2> QED
    BY <1>4
<1> QED
  BY <1>5

\* The two failures of a name more, alone.
LEMMA NameBelow ==
  ASSUME NEW t, IsTree(t), NEW k \in 0..MaxLinks, NEW q \in Path, NEW n \in Names
  PROVE  /\ Walks(t)[k][q].end = "error" => Walks(t)[k][Append(q, n)].end = "error"
         /\ Walks(t)[k][q].end = "found" /\ t[Walks(t)[k][q].at].kind = "file" =>
              Walks(t)[k][Append(q, n)].end = "error"
<1> DEFINE w == Walks(t)[k][q]
           v == Walks(t)[k][Append(q, n)]
           x == Append(w.at, n)
           node == NodeAt(t, x)
<1>1. /\ w.end \in {"found", "absent", "error", "loop"}
      /\ w.end # "found" => v.end = w.end
      /\ w.end = "found" /\ t[w.at].kind = "file" => v.end = "error"
      /\ w.end = "found" /\ t[w.at].kind = "dir" =>
           /\ node.kind = "none" => v.end = "absent"
           /\ node.kind \in {"dir", "file"} => v = [end |-> "found", at |-> x]
           /\ node.kind = "link" => v.end = "loop" \/ \E j \in 0..MaxLinks : v = Walks(t)[j][node.to]
  BY OneNameMore
<1> HIDE DEF w, v, x, node
<1>2. /\ w.end = "error" => v.end = "error"
      /\ w.end = "found" /\ t[w.at].kind = "file" => v.end = "error"
  BY <1>1
<1> QED
  BY <1>2 DEF w, v

\* Below a file there is an error.
LEMMA BelowFile ==
  ASSUME NEW t, IsTree(t), NEW k \in 0..MaxLinks, NEW a \in Path, Walks(t)[k][a].end = "found",
         t[Walks(t)[k][a].at].kind = "file", NEW s \in Path, s # <<>>
  PROVE  Walks(t)[k][a \o s].end = "error"
<1>0. Len(s) \in Nat /\ Len(s) >= 1 /\ Upto(s, Len(s)) = s /\ Upto(s, 0) = <<>>
  BY Whole
<1> DEFINE S == {i \in 1..Len(s) : Walks(t)[k][a \o Upto(s, i)].end = "error"}
<1>1. ASSUME NEW i \in 0..Len(s) - 1
      PROVE  /\ a \o Upto(s, i) \in Path /\ s[i + 1] \in Names
             /\ a \o Upto(s, i + 1) = Append(a \o Upto(s, i), s[i + 1])
  <2>1. Upto(s, i) \in Path /\ s[i + 1] \in Names /\ Upto(s, i + 1) = Append(Upto(s, i), s[i + 1])
    BY UptoNext
  <2>2. a \o Upto(s, i) \in Path
    BY <2>1, Joined
  <2>3. a \o Append(Upto(s, i), s[i + 1]) = Append(a \o Upto(s, i), s[i + 1])
    BY <2>1, JoinedAppend
  <2> QED
    BY <2>1, <2>2, <2>3
<1>2. 1 \in S
  <2>1. 0 \in 0..Len(s) - 1 /\ 0 + 1 = 1
    BY <1>0
  <2>2. a \o Upto(s, 0) = a
    BY <1>0, Joined, Whole
  <2>3. a \o Upto(s, 1) = Append(a, s[1]) /\ s[1] \in Names
    BY <1>1, <2>1, <2>2
  <2>4. Walks(t)[k][Append(a, s[1])].end = "error"
    <3> DEFINE n == s[1]
    <3>1. n \in Names
      BY <2>3
    <3> HIDE DEF n
    <3>2. Walks(t)[k][Append(a, n)].end = "error"
      BY <3>1, NameBelow
    <3> QED
      BY <3>2 DEF n
  <2>5. Walks(t)[k][a \o Upto(s, 1)].end = "error"
    BY <2>3, <2>4
  <2>6. 1 \in 1..Len(s)
    BY <1>0
  <2> QED
    BY <2>5, <2>6
<1>3. ASSUME NEW i \in 1..Len(s) - 1, i \in S PROVE i + 1 \in S
  <2>1. i \in 0..Len(s) - 1 /\ i + 1 \in 1..Len(s)
    BY <1>0
  <2> DEFINE b == a \o Upto(s, i)
  <2>2. b \in Path /\ s[i + 1] \in Names /\ a \o Upto(s, i + 1) = Append(b, s[i + 1])
    BY <1>1, <2>1
  <2>3. Walks(t)[k][b].end = "error"
    BY <1>3
  <2> HIDE DEF b
  <2>4. Walks(t)[k][Append(b, s[i + 1])].end = "error"
    <3> DEFINE n == s[i + 1]
    <3>1. n \in Names
      BY <2>2
    <3> HIDE DEF n
    <3>2. Walks(t)[k][Append(b, n)].end = "error"
      BY <2>2, <2>3, <3>1, NameBelow
    <3> QED
      BY <3>2 DEF n
  <2> QED
    BY <2>1, <2>2, <2>4
<1>4. \A i \in 1..Len(s) : i \in S
  <2> HIDE DEF S
  <2>1. 1 \in Nat /\ Len(s) \in Nat
    BY <1>0
  <2> QED
    BY ONLY <1>2, <1>3, <2>1, Upwards
<1>5. Len(s) \in S
  <2> HIDE DEF S
  <2> QED
    BY <1>0, <1>4
<1> QED
  BY <1>0, <1>5

-----------------------------------------------------------------------------
(* The path without ".." that the system takes for one with it. *)

Above(d) == IF d = <<>> THEN <<>> ELSE Front(d)

\* The directories that some paths lead to.
Reached(t, paths) == {e \in UNION {EvalSymlinks(t, q) : q \in paths} : t[e] = Directory}

AddName(paths, name) == {Append(q, name) : q \in paths}

Parents(t, paths) == {Above(d) : d \in Reached(t, paths)}

Going(t, p, physical) ==
  [n \in 0..Len(p) |->
     IF n = 0 THEN {<<>>}
     ELSE IF p[n] # Up THEN AddName(physical[n - 1], p[n])
     ELSE Parents(t, physical[n - 1])]

Gone(t, p) == CHOOSE physical : physical = Going(t, p, physical)

LEMMA PhysicalIs == ASSUME NEW t, NEW p PROVE Physical(t, p) = Gone(t, p)[Len(p)]
BY DEF Physical, Gone, Going, Above, Reached, AddName, Parents

\* The recursion that defines Physical has a solution.
LEMMA GoneDef ==
  ASSUME NEW t, NEW p, Len(p) \in Nat
  PROVE  \A n \in 0..Len(p) :
           Gone(t, p)[n] = IF n = 0 THEN {<<>>}
                           ELSE IF p[n] # Up THEN AddName(Gone(t, p)[n - 1], p[n])
                           ELSE Parents(t, Gone(t, p)[n - 1])
<1> DEFINE NextPlaces(g, n) == IF n = 0 THEN {<<>>}
                          ELSE IF p[n] # Up THEN AddName(g[n - 1], p[n])
                          ELSE Parents(t, g[n - 1])
           Good(g, m) == g = [n \in 0..m |-> NextPlaces(g, n)]
           S == {m \in 0..Len(p) : \E g : Good(g, m)}
<1>1. 0 \in S
  <2> DEFINE e == [n \in 0..0 |-> {<<>>}]
  <2>1. \A n \in 0..0 : n = 0 /\ NextPlaces(e, n) = {<<>>}
    OBVIOUS
  <2>2. Good(e, 0)
    BY <2>1
  <2>3. 0 \in 0..Len(p)
    OBVIOUS
  <2> HIDE DEF Good
  <2> QED
    BY <2>2, <2>3
<1>2. ASSUME NEW m \in 0..Len(p) - 1, m \in S PROVE m + 1 \in S
  <2>1. PICK g : Good(g, m)
    BY <1>2
  <2> DEFINE h == [n \in 0..m + 1 |-> IF n = m + 1 THEN NextPlaces(g, n) ELSE g[n]]
  <2>2. h[m + 1] = NextPlaces(g, m + 1) /\ \A n \in 0..m : h[n] = g[n]
    <3> HIDE DEF NextPlaces
    <3> QED
      OBVIOUS
  <2>3. \A n \in 0..m : g[n] = NextPlaces(g, n)
    <3> HIDE DEF NextPlaces
    <3> QED
      BY <2>1
  <2>4. ASSUME NEW n \in 0..m + 1 PROVE NextPlaces(h, n) = NextPlaces(g, n)
    <3>1. n # 0 => h[n - 1] = g[n - 1]
      <4>1. n # 0 => n - 1 \in 0..m
        OBVIOUS
      <4> QED
        BY <2>2, <4>1
    <3> HIDE DEF h
    <3> QED
      BY <3>1
  <2>5. \A n \in 0..m + 1 : n = m + 1 \/ n \in 0..m
    OBVIOUS
  <2>6. \A n \in 0..m + 1 : h[n] = NextPlaces(h, n)
    <3> HIDE DEF h, NextPlaces
    <3> QED
      BY <2>2, <2>3, <2>4, <2>5
  <2>7. Good(h, m + 1)
    <3>1. h = [n \in 0..m + 1 |-> h[n]]
      OBVIOUS
    <3> HIDE DEF h, NextPlaces
    <3> QED
      BY <2>6, <3>1
  <2>8. m + 1 \in 0..Len(p)
    OBVIOUS
  <2> HIDE DEF Good
  <2> QED
    BY <2>7, <2>8
<1>3. \A m \in 0..Len(p) : m \in S
  <2> HIDE DEF S
  <2>1. 0 \in Nat /\ Len(p) \in Nat
    OBVIOUS
  <2> QED
    BY ONLY <1>1, <1>2, <2>1, Upwards
<1>4. \E g : Good(g, Len(p))
  <2>1. Len(p) \in S
    <3> HIDE DEF S
    <3> QED
      BY <1>3
  <2> QED
    BY <2>1
<1> DEFINE F == CHOOSE g : Good(g, Len(p))
<1>5. Good(F, Len(p))
  <2> HIDE DEF Good
  <2> QED
    BY <1>4
<1>6. F = Gone(t, p)
  BY DEF Gone, Going
<1>7. \A n \in 0..Len(p) : F[n] = NextPlaces(F, n)
  <2> HIDE DEF F, NextPlaces
  <2> QED
    BY <1>5
<1> HIDE DEF F
<1> QED
  BY <1>6, <1>7

\* There is at most one such path, and it has no "..".
LEMMA PhysicalIsPath ==
  ASSUME NEW t, IsTree(t), NEW p \in Seq(Names \cup {Up})
  PROVE  /\ \A q \in Physical(t, p) : q \in Path
         /\ \A q, x \in Physical(t, p) : q = x
<1>0. Len(p) \in Nat /\ \A i \in 1..Len(p) : p[i] \in Names \cup {Up}
  BY LenProperties, ElementOfSeq
<1> DEFINE G == Gone(t, p)
           S == {n \in 0..Len(p) : (\A q \in G[n] : q \in Path) /\ \A q, x \in G[n] : q = x}
<1>1. \A n \in 0..Len(p) : G[n] = IF n = 0 THEN {<<>>}
                                  ELSE IF p[n] # Up THEN AddName(G[n - 1], p[n])
                                  ELSE Parents(t, G[n - 1])
  BY <1>0, GoneDef
<1> HIDE DEF G
<1>2. 0 \in S
  <2>1. 0 \in 0..Len(p) /\ <<>> \in Path
    BY <1>0, EmptySeq DEF Path
  <2>2. G[0] = {<<>>}
    BY <1>1, <2>1
  <2> QED
    BY <2>1, <2>2
<1>3. ASSUME NEW m \in 0..Len(p) - 1, m \in S PROVE m + 1 \in S
  <2>1. m + 1 \in 0..Len(p) /\ m + 1 \in 1..Len(p) /\ m + 1 # 0 /\ (m + 1) - 1 = m
        /\ (\A q \in G[m] : q \in Path) /\ \A q, x \in G[m] : q = x
    BY <1>0, <1>3
  <2>2. G[m + 1] = IF p[m + 1] # Up THEN AddName(G[m], p[m + 1])
                   ELSE Parents(t, G[m])
    BY <1>1, <2>1
  <2>3. p[m + 1] # Up => p[m + 1] \in Names
    BY <1>0, <2>1
  <2>4. CASE p[m + 1] # Up
    <3>1. G[m + 1] = {Append(q, p[m + 1]) : q \in G[m]}
      BY <2>2, <2>4 DEF AddName
    <3>2. \A q \in G[m] : Append(q, p[m + 1]) \in Path
      BY <2>1, <2>3, <2>4, Appended
    <3> QED
      BY <2>1, <3>1, <3>2
  <2>5. CASE p[m + 1] = Up
    <3>1. G[m + 1] = {Above(d) : d \in Reached(t, G[m])}
      BY <2>2, <2>5 DEF Parents
    <3>2. \A d \in Reached(t, G[m]) : \E q \in G[m] : d \in EvalSymlinks(t, q)
      BY DEF Reached
    <3>3. \A d \in Reached(t, G[m]) : d \in Path
      BY <2>1, <3>2, EvalIs
    <3>4. \A d, e \in Reached(t, G[m]) : d = e
      BY <2>1, <3>2, EvalIs
    <3>5. \A d \in Reached(t, G[m]) : Above(d) \in Path
      <4> SUFFICES ASSUME NEW d \in Reached(t, G[m]) PROVE Above(d) \in Path
        OBVIOUS
      <4>1. d \in Path
        BY <3>3
      <4>2. d # <<>> => Front(d) \in Path
        BY <4>1, FrontLast
      <4> QED
        BY <4>1, <4>2 DEF Above
    <3> QED
      BY <2>1, <3>1, <3>4, <3>5
  <2> QED
    BY <2>4, <2>5
<1>4. \A n \in 0..Len(p) : n \in S
  <2> HIDE DEF S
  <2>1. 0 \in Nat /\ Len(p) \in Nat
    BY <1>0
  <2> QED
    BY ONLY <1>2, <1>3, <2>1, Upwards
<1>5. Len(p) \in S
  BY <1>0, <1>4
<1>6. Physical(t, p) = G[Len(p)]
  BY PhysicalIs DEF G
<1> QED
  BY <1>5, <1>6

\* A path without ".." stays as it is.
LEMMA PhysicalKeeps ==
  ASSUME NEW t, NEW p \in Path
  PROVE  Physical(t, p) = {p}
<1>0. Len(p) \in Nat /\ Upto(p, 0) = <<>> /\ Upto(p, Len(p)) = p
  BY Whole
<1> DEFINE G == Gone(t, p)
           S == {n \in 0..Len(p) : G[n] = {Upto(p, n)}}
<1>1. \A n \in 0..Len(p) : G[n] = IF n = 0 THEN {<<>>}
                                  ELSE IF p[n] # Up THEN AddName(G[n - 1], p[n])
                                  ELSE Parents(t, G[n - 1])
  BY <1>0, GoneDef
<1> HIDE DEF G
<1>2. 0 \in S
  BY <1>0, <1>1
<1>3. ASSUME NEW m \in 0..Len(p) - 1, m \in S PROVE m + 1 \in S
  <2>1. m + 1 \in 0..Len(p) /\ m + 1 # 0 /\ (m + 1) - 1 = m /\ G[m] = {Upto(p, m)}
    BY <1>0, <1>3
  <2>2. p[m + 1] \in Names /\ Upto(p, m + 1) = Append(Upto(p, m), p[m + 1])
    BY UptoNext
  <2>3. p[m + 1] # Up
    BY <2>2, PathsAssumption
  <2>4. G[m + 1] = AddName(G[m], p[m + 1])
    BY <1>1, <2>1, <2>3
  <2> QED
    BY <2>1, <2>2, <2>4 DEF AddName
<1>4. \A n \in 0..Len(p) : n \in S
  <2> HIDE DEF S
  <2>1. 0 \in Nat /\ Len(p) \in Nat
    BY <1>0
  <2> QED
    BY ONLY <1>2, <1>3, <2>1, Upwards
<1>5. G[Len(p)] = {Upto(p, Len(p))}
  BY <1>0, <1>4
<1> QED
  BY <1>0, <1>5, PhysicalIs DEF G

-----------------------------------------------------------------------------
(* What names read. *)

\* What a walk that ended has read.
Got(t, w) == IF w.end = "found" /\ t[w.at].kind = "file" THEN {t[w.at].data} ELSE {}

LEMMA ReadsAre ==
  ASSUME NEW t, NEW p
  PROVE  Reads(t, p) = Got(t, Walk(t, p))
<1>1. CASE Walk(t, p).end = "found"
  <2>1. Stat(t, p) = t[Walk(t, p).at]
    BY <1>1 DEF Stat
  <2> QED
    BY <1>1, <2>1 DEF Reads, Got
<1>2. CASE Walk(t, p).end # "found"
  <2>1. Stat(t, p) = Nothing
    BY <1>2 DEF Stat
  <2> QED
    BY <1>2, <2>1 DEF Reads, Got, Nothing
<1> QED
  BY <1>1, <1>2

\* The node r of t reads c, by itself or through a link.
Held(t, r, c) ==
  \/ t[r].kind = "file" /\ t[r].data = c
  \/ /\ t[r].kind = "link" /\ Walks(t)[MaxLinks][t[r].to].end = "found"
     /\ Got(t, Walks(t)[MaxLinks][t[r].to]) = {c}

\* A node that is replaced by a file of what it reads: who did not run out of
\* links reads the same.
LEMMA SameRead ==
  ASSUME NEW t, NEW r, NEW c, NEW u, Replaces(t, r, c, u), Held(t, r, c),
         NEW k \in 0..MaxLinks, NEW q \in Path, Walks(t)[k][q].end # "loop"
  PROVE  Got(u, Walks(u)[k][q]) = Got(t, Walks(t)[k][q])
<1> USE PathsAssumption
<1> DEFINE S == {m \in 0..MaxLinks : \A p \in Path : Walks(t)[m][p].end # "loop" =>
                   Got(u, Walks(u)[m][p]) = Got(t, Walks(t)[m][p])}
<1>0. /\ IsTree(t) /\ IsTree(u) /\ r \in AllPaths /\ u[r].kind = "file" /\ u[r].data = c
      /\ \A x \in AllPaths : x # r => u[x] = t[x]
      /\ t[r].kind = "link" => t[r].to \in Path
  BY ReplacesIs
<1>1. ASSUME NEW p \in Path, Descend(t, p).end # "link", Descend(u, p) = Descend(t, p)
      PROVE  Got(u, Descend(u, p)) = Got(t, Descend(t, p))
  <2> DEFINE w == Descend(t, p)
  <2>1. CASE w.end = "found"
    <3>1. w.at = p /\ p \in AllPaths /\ t[p].kind \in {"dir", "file"}
      <4>1. w = [end |-> "found", at |-> p]
        BY <1>0, <2>1, DescendEnds
      <4> QED
        BY <1>0, <2>1, <4>1, FoundThere
    <3> HIDE DEF w
    <3>2. CASE p = r
      <4>1. t[r].kind = "file" /\ t[r].data = c
        BY <3>1, <3>2 DEF Held
      <4> QED
        BY <1>0, <1>1, <2>1, <3>1, <3>2, <4>1 DEF Got, w
    <3>3. CASE p # r
      <4>1. u[p] = t[p]
        BY <1>0, <3>1, <3>3
      <4> QED
        BY <1>1, <2>1, <3>1, <4>1 DEF Got, w
    <3> QED
      BY <3>2, <3>3
  <2>2. CASE w.end # "found"
    BY <1>1, <2>2 DEF Got
  <2> QED
    BY <2>1, <2>2
<1>2. ASSUME NEW s \in Path, NEW w,
             w = IF s = <<>> THEN [end |-> "found", at |-> r] ELSE [end |-> "error"],
             t[r].kind = "link", NEW l \in 0..MaxLinks, Walks(t)[l][t[r].to \o s].end # "loop"
      PROVE  Got(u, w) = Got(t, Walks(t)[l][t[r].to \o s])
  <2> DEFINE a == t[r].to
             f == Walks(t)[MaxLinks][a]
  <2>1. a \in Path /\ f.end = "found" /\ Got(t, f) = {c} /\ a \o s \in Path
    BY <1>0, <1>2, Joined DEF Held
  <2> HIDE DEF a, f
  <2>2. t[f.at].kind = "file"
    BY <2>1 DEF Got
  <2>3. Walks(t)[MaxLinks][a \o s] = Walks(t)[l][a \o s]
    <3>1. MaxLinks \in l..MaxLinks
      OBVIOUS
    <3>2. Walks(t)[l][a \o s].end # "loop"
      BY <1>2 DEF a
    <3> QED
      BY <1>0, <2>1, <3>1, <3>2, MoreLinks
  <2>4. CASE s = <<>>
    <3>1. a \o s = a
      BY <2>1, <2>4, Joined
    <3>2. Got(t, Walks(t)[l][a \o s]) = {c}
      BY <2>1, <2>3, <3>1 DEF f
    <3>3. Got(u, w) = {c}
      BY <1>0, <1>2, <2>4 DEF Got
    <3> QED
      BY <3>2, <3>3 DEF a
  <2>5. CASE s # <<>>
    <3>1. Walks(t)[MaxLinks][a \o s].end = "error"
      <4>1. MaxLinks \in 0..MaxLinks
        OBVIOUS
      <4> QED
        BY <1>0, <2>1, <2>2, <2>5, <4>1, BelowFile DEF f
    <3>2. Got(t, Walks(t)[l][a \o s]) = {}
      BY <2>3, <3>1 DEF Got
    <3>3. Got(u, w) = {}
      BY <1>2, <2>5 DEF Got
    <3> QED
      BY <3>2, <3>3 DEF a
  <2> QED
    BY <2>4, <2>5
<1>3. \A p \in Path : Descend(t, p).end = "link" => Descend(t, p).to \in Path
  BY <1>0, DescendEnds
<1>4. ASSUME NEW p \in Path, NEW s \in Path,
             Descend(u, p) = IF s = <<>> THEN [end |-> "found", at |-> r] ELSE [end |-> "error"],
             NEW m \in 0..MaxLinks, NEW w, Walks(u)[m][p] = w
      PROVE  w = IF s = <<>> THEN [end |-> "found", at |-> r] ELSE [end |-> "error"]
  <2>1. Descend(u, p).end # "link"
    BY <1>4
  <2>2. Walks(u)[m][p] = Descend(u, p)
    BY <2>1, WalksDef
  <2> QED
    BY <1>4, <2>2
<1>5. 0 \in S
  <2> SUFFICES ASSUME NEW p \in Path, Walks(t)[0][p].end # "loop"
               PROVE  Got(u, Walks(u)[0][p]) = Got(t, Walks(t)[0][p])
    OBVIOUS
  <2>1. Descend(t, p).end # "link" /\ Walks(t)[0][p] = Descend(t, p)
    BY WalksFirst
  <2>2. CASE Descend(u, p) = Descend(t, p)
    BY <1>1, <2>1, <2>2, WalksFirst
  <2>3. ASSUME NEW s \in Path,
               Descend(u, p) = IF s = <<>> THEN [end |-> "found", at |-> r] ELSE [end |-> "error"],
               \/ t[r].kind = "none" /\ Descend(t, p) = [end |-> "absent"]
               \/ t[r].kind = "link" /\ Descend(t, p) = [end |-> "link", to |-> t[r].to \o s]
        PROVE  FALSE
    <3>1. t[r].kind # "none"
      BY DEF Held
    <3> QED
      BY <2>1, <2>3, <3>1
  <2> QED
    BY <2>2, <2>3, ReplacedWay
<1>6. ASSUME NEW m \in 0..MaxLinks - 1, m \in S PROVE m + 1 \in S
  <2>0. m + 1 \in 0..MaxLinks /\ m \in 0..MaxLinks
    OBVIOUS
  <2>1. ASSUME NEW p \in Path, Walks(t)[m + 1][p].end # "loop"
        PROVE  Got(u, Walks(u)[m + 1][p]) = Got(t, Walks(t)[m + 1][p])
    <3>1. /\ Walks(t)[m + 1][p] = IF Descend(t, p).end # "link" THEN Descend(t, p)
                                  ELSE Walks(t)[m][Descend(t, p).to]
          /\ Walks(u)[m + 1][p] = IF Descend(u, p).end # "link" THEN Descend(u, p)
                                  ELSE Walks(u)[m][Descend(u, p).to]
      BY WalksNext
    <3>2. CASE Descend(u, p) = Descend(t, p) /\ Descend(t, p).end # "link"
      BY <1>1, <3>1, <3>2
    <3>3. CASE Descend(u, p) = Descend(t, p) /\ Descend(t, p).end = "link"
      <4>1. Walks(t)[m + 1][p] = Walks(t)[m][Descend(t, p).to]
        BY <3>1, <3>3
      <4>2. Walks(u)[m + 1][p] = Walks(u)[m][Descend(t, p).to]
        BY <3>1, <3>3
      <4> QED
        BY <1>3, <1>6, <2>1, <3>3, <4>1, <4>2
    <3>4. ASSUME NEW s \in Path,
                 Descend(u, p) = IF s = <<>> THEN [end |-> "found", at |-> r] ELSE [end |-> "error"],
                 \/ t[r].kind = "none" /\ Descend(t, p) = [end |-> "absent"]
                 \/ t[r].kind = "link" /\ Descend(t, p) = [end |-> "link", to |-> t[r].to \o s]
          PROVE  Got(u, Walks(u)[m + 1][p]) = Got(t, Walks(t)[m + 1][p])
      <4>1. t[r].kind # "none"
        BY DEF Held
      <4>2. t[r].kind = "link" /\ Descend(t, p) = [end |-> "link", to |-> t[r].to \o s]
        BY <3>4, <4>1
      <4>3. Walks(t)[m + 1][p] = Walks(t)[m][t[r].to \o s]
        BY <3>1, <4>2
      <4>4. Walks(u)[m + 1][p] = IF s = <<>> THEN [end |-> "found", at |-> r] ELSE [end |-> "error"]
        BY <1>4, <2>0, <3>4
      <4> QED
        BY <1>2, <2>0, <2>1, <4>2, <4>3, <4>4
    <3> QED
      BY <3>2, <3>3, <3>4, ReplacedWay
  <2> QED
    BY <2>0, <2>1
<1>7. \A m \in 0..MaxLinks : m \in S
  <2> HIDE DEF S
  <2>1. 0 \in Nat /\ MaxLinks \in Nat
    OBVIOUS
  <2> QED
    BY ONLY <1>5, <1>6, <2>1, Upwards
<1>8. k \in S
  <2> HIDE DEF S
  <2> QED
    BY <1>7
<1> QED
  BY <1>8

\* A name that reads c stands for a node that does.
LEMMA ReadThroughPlace ==
  ASSUME NEW t, IsTree(t), NEW p \in Path, NEW c \in Reads(t, p)
  PROVE  /\ p # <<>> /\ Reads(t, p) = {c}
         /\ \E e \in AllPaths : EvalSymlinks(t, p) = {e} /\ t[e].kind = "file" /\ t[e].data = c
         /\ \E r \in AllPaths : Place(t, p) = {r} /\ Held(t, r, c) /\ t[r] # Directory
<1> USE PathsAssumption
<1>0. MaxLinks \in 0..MaxLinks
  OBVIOUS
<1> DEFINE v == Walk(t, p)
<1>1. v.end = "found" /\ t[v.at].kind = "file" /\ Reads(t, p) = {c} /\ t[v.at].data = c
  BY ReadsAre DEF Got
<1>2. v = [end |-> "found", at |-> v.at] /\ v.at \in AllPaths /\ EvalSymlinks(t, p) = {v.at}
  <2>1. v.at \in EvalSymlinks(t, p)
    BY <1>1 DEF EvalSymlinks
  <2> HIDE DEF v
  <2> QED
    BY <2>1, EvalIs DEF v
<1>3. p # <<>>
  <2> SUFFICES ASSUME p = <<>> PROVE FALSE
    OBVIOUS
  <2>1. Stops(t, p) = {}
    BY Whole, StopsAre
  <2>2. Descend(t, p) = [end |-> "found", at |-> p] /\ t[p] = Directory
    BY <2>1, DescendThrough
  <2>3. Walks(t)[MaxLinks][p] = [end |-> "found", at |-> p]
    BY <1>0, <2>2, WalksDef
  <2>4. v.at = p
    BY <2>3, WalkIs
  <2> QED
    BY <1>1, <2>2, <2>4 DEF Directory
<1> DEFINE f == Front(p)
           n == Last(p)
           w == Walks(t)[MaxLinks][f]
           vv == Walks(t)[MaxLinks][Append(f, n)]
           r == Append(w.at, n)
           node == NodeAt(t, r)
<1>4. f \in Path /\ n \in Names /\ p = Append(f, n)
  BY <1>3, FrontLast
<1>5. v = vv /\ Walk(t, f) = w
  BY <1>4, WalkIs
<1> HIDE DEF v
<1>6. /\ w.end \in {"found", "absent", "error", "loop"}
      /\ w.end # "found" => vv.end = w.end
      /\ w.end = "found" /\ t[w.at].kind = "file" => vv.end = "error"
      /\ w.end = "found" /\ t[w.at].kind = "dir" =>
           /\ node.kind = "none" => vv.end = "absent"
           /\ node.kind \in {"dir", "file"} => vv = [end |-> "found", at |-> r]
           /\ node.kind = "link" => vv.end = "loop" \/ \E j \in 0..MaxLinks : vv = Walks(t)[j][node.to]
  <2> HIDE DEF f, n
  <2> QED
    BY <1>0, <1>4, OneNameMore, SMTT(30)
<1>7. w.end = "found" => w.at \in AllPaths /\ t[w.at].kind \in {"dir", "file"}
                         /\ (t[w.at].kind = "dir" => t[w.at] = Directory)
                         /\ w = [end |-> "found", at |-> w.at]
  <2> SUFFICES ASSUME w.end = "found"
               PROVE  w.at \in AllPaths /\ t[w.at].kind \in {"dir", "file"}
                      /\ (t[w.at].kind = "dir" => t[w.at] = Directory)
                      /\ w = [end |-> "found", at |-> w.at]
    OBVIOUS
  <2>1. w.at \in EvalSymlinks(t, f)
    BY <1>5 DEF EvalSymlinks
  <2> HIDE DEF w, f
  <2> QED
    BY <1>4, <1>5, <2>1, EvalIs
<1>8. node.kind \in {"none", "dir", "file", "link"} /\ (node.kind = "link" => node.to \in Path)
      /\ (node # Nothing => r \in AllPaths /\ node = t[r])
      /\ (node.kind = "none" <=> node = Nothing)
  <2> HIDE DEF r
  <2> QED
    BY NodeKinds
<1> HIDE DEF w, vv, node
<1>9. w.end = "found" /\ t[w.at].kind = "dir" /\ node.kind # "none"
  BY <1>1, <1>5, <1>6, <1>7
<1>10. r \in AllPaths /\ node = t[r]
  BY <1>8, <1>9
<1>11. Place(t, p) = {r}
  <2>1. EvalSymlinks(t, f) = {w.at} /\ t[w.at] = Directory
    BY <1>5, <1>7, <1>9 DEF EvalSymlinks
  <2> QED
    BY <1>3, <2>1 DEF Place
<1> HIDE DEF r
<1>12. Held(t, r, c) /\ t[r] # Directory
  <2>1. CASE node.kind \in {"dir", "file"}
    <3>1. v.at = r
      BY <1>5, <1>6, <1>9, <2>1
    <3> QED
      BY <1>1, <3>1 DEF Held, Directory
  <2>2. CASE node.kind = "link"
    <3>1. PICK j \in 0..MaxLinks : vv = Walks(t)[j][node.to]
      BY <1>1, <1>5, <1>6, <1>9, <2>2
    <3>2. Walks(t)[j][node.to].end # "loop" /\ node.to \in Path /\ MaxLinks \in j..MaxLinks
      BY <1>1, <1>5, <1>8, <2>2, <3>1
    <3>3. Walks(t)[MaxLinks][node.to] = v
      BY <1>5, <3>1, <3>2, MoreLinks
    <3>4. Got(t, v) = {c}
      BY <1>1 DEF Got
    <3> QED
      BY <1>1, <1>10, <2>2, <3>3, <3>4 DEF Held, Directory
  <2> QED
    BY <1>8, <1>9, <2>1, <2>2
<1> QED
  BY <1>1, <1>2, <1>3, <1>10, <1>11, <1>12

\* A path without links stands for itself.
LEMMA PlainPlace ==
  ASSUME NEW t, IsTree(t), NEW q \in Path, EvalSymlinks(t, q) = {q}
  PROVE  Place(t, q) = {q}
<1> USE PathsAssumption
<1>1. CASE q = <<>>
  BY <1>1 DEF Place
<1>2. CASE q # <<>>
  <2> DEFINE f == Front(q)
             n == Last(q)
             d == Descend(t, f)
             e == Descend(t, Append(f, n))
             node == NodeAt(t, Append(f, n))
  <2>1. f \in Path /\ n \in Names /\ q = Append(f, n)
    BY <1>2, FrontLast
  <2>2. MaxLinks \in 0..MaxLinks
    OBVIOUS
  <2>3. Walks(t)[MaxLinks][q] = [end |-> "found", at |-> q] /\ q \in AllPaths /\ t[q] # Nothing
    <3>1. Walk(t, q) = [end |-> "found", at |-> q] /\ q \in AllPaths /\ t[q].kind \in {"dir", "file"}
      BY EvalIs
    <3> QED
      BY <3>1, WalkIs DEF Nothing
  <2>4. Descend(t, q) = [end |-> "found", at |-> q]
    <3> DEFINE w == Walks(t)[MaxLinks][q]
    <3>1. w.end = "found" /\ w.at = q
      BY <2>3
    <3>2. LET x == w.at
          IN /\ w = [end |-> "found", at |-> x]
             /\ x \in AllPaths /\ x \in Path /\ t[x].kind \in {"dir", "file"}
             /\ Descend(t, x) = [end |-> "found", at |-> x]
      BY <2>2, <3>1, WalkFinds
    <3> HIDE DEF w
    <3> QED
      BY <3>1, <3>2
  <2>5. t[f] = Directory
    BY <1>2, <2>3 DEF IsTree
  <2>6. /\ d.end = "absent" => e = [end |-> "absent"]
        /\ d.end = "error" => e = [end |-> "error"]
        /\ d.end = "link" => e = [end |-> "link", to |-> Append(d.to, n)]
    <3> HIDE DEF f, n
    <3> QED
      BY <2>1, DescendAppend
  <2>7. d.end \in {"found", "absent", "error", "link"} /\ (d.end = "found" => d = [end |-> "found", at |-> f])
    <3> HIDE DEF f
    <3> QED
      BY <2>1, DescendEnds
  <2>8. e.end = "found"
    <3> HIDE DEF f, n
    <3>1. Descend(t, Append(f, n)).end = "found"
      BY <2>1, <2>4
    <3> QED
      BY <3>1
  <2>9. d = [end |-> "found", at |-> f]
    <3> HIDE DEF d, e
    <3> QED
      BY <2>6, <2>7, <2>8
  <2>10. Walks(t)[MaxLinks][f] = [end |-> "found", at |-> f]
    <3> HIDE DEF f
    <3> QED
      BY <2>1, <2>2, <2>9, WalksDef
  <2>11. EvalSymlinks(t, f) = {f}
    BY <2>10, WalkIs DEF EvalSymlinks
  <2> HIDE DEF f, n
  <2>12. Place(t, q) = {Append(f, n)}
    BY <1>2, <2>5, <2>11 DEF Place, f, n
  <2> QED
    BY <2>1, <2>12
<1> QED
  BY <1>1, <1>2

-----------------------------------------------------------------------------
(* The command line and the server's edits. *)

\* Paths are given with or without "..".
AsGiven == Seq(Names \cup {Up})

LEMMA GivenPaths ==
  /\ Path \subseteq AsGiven
  /\ \A p \in Args : p \in AsGiven /\ Clean(p) \in AllPaths /\ Clean(p) \in Path
<1>1. Path \subseteq AsGiven
  BY SeqMonotonic DEF Path, AsGiven
<1>2. \A p \in Args : p \in AsGiven /\ Clean(p) \in AllPaths
  BY CommandLineAssumption DEF AsGiven
<1> QED
  BY <1>1, <1>2, PathsOfTree

\* A write puts a file in the place of the path that the one given stands for,
\* and the place is no directory.
LEMMA WrittenAsGiven ==
  ASSUME IsTree(disk), NEW p \in AsGiven, NEW q \in Physical(disk, p), NEW d, NEW w \in writeAtomic(p, d)
  PROVE  q # <<>> /\ \E r \in AllPaths : Place(disk, q) = {r} /\ Replaces(disk, r, d, w)
<1>0. q \in Path /\ \A x \in Physical(disk, p) : x = q
  BY PhysicalIsPath DEF AsGiven
<1>1. PICK r \in DOMAIN disk :
        r \in Place(disk, q) /\ disk[r] # Directory /\ w = [disk EXCEPT ![r] = File(d)]
  <2>1. PICK r \in DOMAIN disk :
          /\ \E x \in Physical(disk, p) : r \in Place(disk, x)
          /\ disk[r] # Directory /\ w = [disk EXCEPT ![r] = File(d)]
    BY DEF writeAtomic
  <2> QED
    BY <1>0, <2>1
<1>2. r \in AllPaths /\ disk[<<>>] = Directory
  BY <1>1 DEF IsTree
<1>3. q # <<>>
  BY <1>1, <1>2 DEF Place
<1>4. PICK e \in EvalSymlinks(disk, Front(q)) :
        disk[e] = Directory /\ r = Append(e, Last(q)) /\ Place(disk, q) = {r}
  BY <1>0, <1>1, <1>3, PlaceIs
<1>5. Front(q) \in Path /\ Last(q) \in Names
  BY <1>0, <1>3, FrontLast
<1>6. e \in Path
  BY <1>5, EvalIs
<1>7. Front(r) = e /\ r # <<>>
  BY <1>4, <1>5, <1>6, FrontOfAppend, Appended
<1>8. IsTree(w)
  BY <1>1, <1>2, <1>4, <1>7, ReplacedTree
<1> QED
  BY <1>1, <1>2, <1>3, <1>4, <1>8 DEF Replaces

LEMMA Written ==
  ASSUME IsTree(disk), NEW p \in Path, NEW d, NEW w \in writeAtomic(p, d)
  PROVE  p # <<>> /\ \E r \in AllPaths : Place(disk, p) = {r} /\ Replaces(disk, r, d, w)
<1>1. p \in AsGiven /\ p \in Physical(disk, p)
  BY GivenPaths, PhysicalKeeps
<1> QED
  BY <1>1, WrittenAsGiven

\* The place of a name, found when a file was put somewhere, is where it was.
LEMMA PlaceWasThere ==
  ASSUME NEW t, NEW r, NEW d, NEW u, Replaces(t, r, d, u), NEW p \in Path, p # <<>>,
         NEW q \in Place(u, p)
  PROVE  /\ Place(t, p) = {q} /\ Place(u, p) = {q}
         /\ \E e \in AllPaths :
              /\ Walk(u, Front(p)) = [end |-> "found", at |-> e] /\ u[e] = Directory
              /\ q = Append(e, Last(p))
<1>0. /\ IsTree(t) /\ IsTree(u) /\ u[r].kind = "file"
      /\ \A x \in AllPaths : x # r => u[x] = t[x]
  BY ReplacesIs
<1>1. PICK e \in EvalSymlinks(u, Front(p)) : u[e] = Directory /\ q = Append(e, Last(p)) /\ Place(u, p) = {q}
  BY <1>0, PlaceIs
<1>2. Front(p) \in Path
  BY FrontLast
<1>3. Walk(u, Front(p)) = [end |-> "found", at |-> e] /\ e \in AllPaths
  BY <1>0, <1>1, <1>2, EvalIs
<1>4. t[e] = Directory
  <2>1. u[e].kind = "dir"
    BY <1>1 DEF Directory
  <2>2. e # r
    BY <1>0, <2>1
  <2> QED
    BY <1>0, <1>1, <1>3, <2>2
<1>5. Walk(t, Front(p)) = [end |-> "found", at |-> e]
  <2> DEFINE w == Walks(u)[MaxLinks][Front(p)]
  <2>1. w = [end |-> "found", at |-> e]
    BY <1>3, WalkIs
  <2>2. w.end = "found" /\ u[w.at].kind = "dir"
    BY <1>1, <2>1 DEF Directory
  <2>3. MaxLinks \in 0..MaxLinks
    BY PathsAssumption
  <2>4. Walks(t)[MaxLinks][Front(p)] = w
    BY <1>2, <2>2, <2>3, DirectoryWasThere
  <2> QED
    BY <2>1, <2>4, WalkIs
<1>6. EvalSymlinks(t, Front(p)) = {e}
  BY <1>5 DEF EvalSymlinks
<1>7. Place(t, p) = {q}
  BY <1>1, <1>4, <1>6 DEF Place
<1> QED
  BY <1>1, <1>3, <1>7

\* A name whose place has got a file reads it.
LEMMA OutputIsRead ==
  ASSUME NEW t, NEW r, NEW d, NEW u, Replaces(t, r, d, u), NEW p \in Path, p # <<>>,
         Place(t, p) = {r}, Place(u, p) # {}
  PROVE  Reads(u, p) = {d}
<1>0. IsTree(u) /\ r \in AllPaths /\ u[r].kind = "file" /\ u[r].data = d
  BY ReplacesIs
<1>1. PICK q : q \in Place(u, p)
  OBVIOUS
<1>2. Place(t, p) = {q} /\ \E e \in AllPaths :
        /\ Walk(u, Front(p)) = [end |-> "found", at |-> e] /\ u[e] = Directory
        /\ q = Append(e, Last(p))
  BY <1>1, PlaceWasThere
<1>3. PICK e \in AllPaths :
        /\ Walk(u, Front(p)) = [end |-> "found", at |-> e] /\ u[e] = Directory
        /\ r = Append(e, Last(p))
  BY <1>2
<1>4. NodeAt(u, r).kind = "file"
  BY <1>0, NodeKinds
<1>5. Walk(u, Front(p)).end = "found" /\ Walk(u, Front(p)).at = e /\ u[e].kind = "dir"
  BY <1>3 DEF Directory
<1>6. Walk(u, p) = [end |-> "found", at |-> r]
  BY <1>0, <1>3, <1>4, <1>5, OneNameMoreWalk
<1> QED
  BY <1>0, <1>6, ReadsAre DEF Got

\* A node replaced by a file of what it reads: every name that was followed to
\* its end reads the same.
LEMMA ReadingsKept ==
  ASSUME NEW t, NEW r, NEW c, NEW u, Replaces(t, r, c, u), Held(t, r, c)
  PROVE  \A x \in AllPaths : Walk(t, x).end # "loop" => Reads(u, x) = Reads(t, x)
<1> SUFFICES ASSUME NEW x \in AllPaths, Walk(t, x).end # "loop" PROVE Reads(u, x) = Reads(t, x)
  OBVIOUS
<1>1. x \in Path /\ MaxLinks \in 0..MaxLinks
  BY PathsAssumption, PathsOfTree
<1>2. Walks(t)[MaxLinks][x].end # "loop"
  BY WalkIs
<1>3. Got(u, Walks(u)[MaxLinks][x]) = Got(t, Walks(t)[MaxLinks][x])
  BY <1>1, <1>2, SameRead
<1>4. Got(u, Walk(u, x)) = Got(t, Walk(t, x))
  BY <1>3, WalkIs
<1> QED
  BY <1>4, ReadsAre

\* A file replaced by a file: all that lead to it read the new one.
LEMMA EditSeen ==
  ASSUME NEW t, NEW q, NEW d, NEW u, Replaces(t, q, d, u), t[q].kind = "file", NEW x \in Path
  PROVE  /\ EvalSymlinks(u, x) = EvalSymlinks(t, x)
         /\ Reads(u, x) = IF EvalSymlinks(t, x) = {q} THEN {d} ELSE Reads(t, x)
<1>0. /\ IsTree(t) /\ IsTree(u) /\ u[q].kind = "file" /\ u[q].data = d
      /\ \A y \in AllPaths : y # q => u[y] = t[y]
  BY ReplacesIs
<1>1. Walk(u, x) = Walk(t, x)
  <2>1. MaxLinks \in 0..MaxLinks
    BY PathsAssumption
  <2>2. Walks(u)[MaxLinks][x] = Walks(t)[MaxLinks][x]
    BY <2>1, SameWalks
  <2> QED
    BY <2>2, WalkIs
<1> DEFINE w == Walk(t, x)
<1>2. Reads(u, x) = Got(u, w) /\ Reads(t, x) = Got(t, w)
  BY <1>1, ReadsAre
<1>3. w.end = "found" => w.at \in AllPaths /\ EvalSymlinks(t, x) = {w.at}
  <2> SUFFICES ASSUME w.end = "found" PROVE w.at \in AllPaths /\ EvalSymlinks(t, x) = {w.at}
    OBVIOUS
  <2>1. w.at \in EvalSymlinks(t, x)
    BY DEF EvalSymlinks
  <2> HIDE DEF w
  <2> QED
    BY <1>0, <2>1, EvalIs
<1>4. w.end # "found" => EvalSymlinks(t, x) = {}
  BY DEF EvalSymlinks
<1>5. EvalSymlinks(u, x) = EvalSymlinks(t, x)
  BY <1>1 DEF EvalSymlinks
<1> HIDE DEF w
<1>6. Got(u, w) = IF EvalSymlinks(t, x) = {q} THEN {d} ELSE Got(t, w)
  <2>1. CASE w.end = "found" /\ w.at = q
    BY <1>0, <1>3, <2>1 DEF Got
  <2>2. CASE w.end = "found" /\ w.at # q
    <3>1. u[w.at] = t[w.at] /\ EvalSymlinks(t, x) # {q}
      BY <1>0, <1>3, <2>2
    <3> QED
      BY <3>1 DEF Got
  <2>3. CASE w.end # "found"
    BY <1>4, <2>3 DEF Got
  <2> QED
    BY <2>1, <2>2, <2>3
<1> QED
  BY <1>2, <1>5, <1>6

\* What an undone apply or edit left: the backup of what was read, under the name
\* that the tool looks it up by, and a disk with at most one node replaced.
Undoable(u, keep, now) ==
  /\ u.tool \in {"command line", "server"} /\ u.path \in Args /\ IsTree(u.disk)
  /\ \E r \in AllPaths, c \in Contents \cup {Torn} :
       /\ Held(u.disk, r, c)
       /\ u.tool = "command line" =>
            /\ \E q \in Physical(u.disk, u.path) : Place(u.disk, q) = {r}
            /\ keep[Clean(u.path)] = c
       /\ u.tool = "server" =>
            EvalSymlinks(u.disk, Clean(u.path)) = {r} /\ u.disk[r].kind = "file" /\ keep[r] = c
       /\ now = u.disk \/ \E d : Replaces(u.disk, r, d, now)

\* Two files put in the same place are the second.
LEMMA ReplacedTwice ==
  ASSUME NEW t, IsTree(t), NEW r \in AllPaths, NEW c, Held(t, r, c), NEW now,
         now = t \/ \E d : Replaces(t, r, d, now), NEW w, Replaces(now, r, c, w)
  PROVE  Replaces(t, r, c, w)
<1>1. IsTree(w) /\ w = [now EXCEPT ![r] = File(c)]
  BY DEF Replaces
<1>2. t[r] # Directory
  BY DEF Held, Directory
<1>3. w = [t EXCEPT ![r] = File(c)]
  <2>1. CASE now = t
    BY <1>1, <2>1
  <2>2. ASSUME NEW d, Replaces(t, r, d, now) PROVE w = [t EXCEPT ![r] = File(c)]
    <3>1. now = [t EXCEPT ![r] = File(d)]
      BY <2>2 DEF Replaces
    <3> QED
      BY <1>1, <3>1
  <2> QED
    BY <2>1, <2>2
<1> QED
  BY <1>1, <1>2, <1>3 DEF Replaces

\* The command line's rollback.
LEMMA RestoredByName ==
  ASSUME IsTree(disk), NEW u, Undoable(u, backups, disk),
         u.tool = "command line" \/ HasNoLinks(u), u.tool = "command line" => OnePlace(u.disk, u.path),
         NEW w \in writeAtomic(Clean(u.path), backups[Clean(u.path)])
  PROVE  \A x \in AllPaths : Walk(u.disk, x).end # "loop" => Reads(w, x) = Reads(u.disk, x)
<1> DEFINE t == u.disk
           p == Clean(u.path)
<1>1. p \in AllPaths /\ p \in Path /\ IsTree(t) /\ u.tool \in {"command line", "server"}
  BY GivenPaths DEF Undoable
<1>2. PICK r \in AllPaths, c \in Contents \cup {Torn} :
       /\ Held(t, r, c)
       /\ u.tool = "command line" => Place(t, p) = {r} /\ backups[p] = c
       /\ u.tool = "server" => EvalSymlinks(t, p) = {r} /\ t[r].kind = "file" /\ backups[r] = c
       /\ disk = t \/ \E d : Replaces(t, r, d, disk)
  BY DEF Undoable, OnePlace
<1> HIDE DEF t, p
<1>3. Place(t, p) = {r} /\ backups[p] = c
  <2>1. CASE u.tool = "command line"
    BY <1>2, <2>1
  <2>2. CASE u.tool = "server"
    <3>1. EvalSymlinks(t, p) = {p} /\ r = p
      BY <1>2, <2>2 DEF t, p, HasNoLinks
    <3> QED
      BY <1>1, <1>2, <2>2, <3>1, PlainPlace
  <2> QED
    BY <1>1, <2>1, <2>2
<1>4. p # <<>> /\ \E s \in AllPaths : Place(disk, p) = {s} /\ Replaces(disk, s, c, w)
  <2>1. w \in writeAtomic(p, c)
    BY <1>3 DEF p
  <2> QED
    BY <1>1, <2>1, Written
<1>5. PICK s \in AllPaths : Place(disk, p) = {s} /\ Replaces(disk, s, c, w)
  BY <1>4
<1>6. s = r
  <2>1. CASE disk = t
    BY <1>3, <1>5, <2>1
  <2>2. ASSUME NEW d, Replaces(t, r, d, disk) PROVE s = r
    <3>1. s \in Place(disk, p)
      BY <1>5
    <3>2. Place(t, p) = {s}
      <4>1. p \in Path /\ p # <<>>
        BY <1>1, <1>4
      <4>2. Replaces(t, r, d, disk)
        BY <2>2
      <4> QED
        BY ONLY <3>1, <4>1, <4>2, PlaceWasThere
    <3> QED
      BY <1>3, <3>2
  <2> QED
    BY <1>2, <2>1, <2>2
<1>7. Replaces(t, r, c, w)
  BY <1>1, <1>2, <1>5, <1>6, ReplacedTwice
<1>8. \A x \in AllPaths : Walk(t, x).end # "loop" => Reads(w, x) = Reads(t, x)
  <2>1. Held(t, r, c)
    BY <1>2
  <2> QED
    BY ONLY <1>7, <2>1, ReadingsKept
<1> QED
  BY <1>8 DEF t

\* The server's rollback.
LEMMA RestoredByTarget ==
  ASSUME IsTree(disk), NEW u, Undoable(u, backups, disk),
         u.tool = "server" \/ HasNoLinks(u), u.tool = "command line" => OnePlace(u.disk, u.path),
         NEW q \in EvalSymlinks(disk, Clean(u.path)), NEW w \in writeAtomic(q, backups[q])
  PROVE  \A x \in AllPaths : Walk(u.disk, x).end # "loop" => Reads(w, x) = Reads(u.disk, x)
<1> DEFINE t == u.disk
           p == Clean(u.path)
<1>1. p \in AllPaths /\ p \in Path /\ IsTree(t) /\ u.tool \in {"command line", "server"}
  BY GivenPaths DEF Undoable
<1>2. PICK r \in AllPaths, c \in Contents \cup {Torn} :
       /\ Held(t, r, c)
       /\ u.tool = "command line" => Place(t, p) = {r} /\ backups[p] = c
       /\ u.tool = "server" => EvalSymlinks(t, p) = {r} /\ t[r].kind = "file" /\ backups[r] = c
       /\ disk = t \/ \E d : Replaces(t, r, d, disk)
  BY DEF Undoable, OnePlace
<1>0. q \in EvalSymlinks(disk, p)
  OBVIOUS
<1> HIDE DEF t, p
<1>3. EvalSymlinks(t, p) = {r} /\ t[r].kind = "file" /\ backups[r] = c
  <2>1. CASE u.tool = "server"
    BY <1>2, <2>1
  <2>2. CASE u.tool = "command line"
    <3>1. EvalSymlinks(t, p) = {p}
      BY <2>2 DEF t, p, HasNoLinks
    <3>2. r = p
      BY <1>1, <1>2, <2>2, <3>1, PlainPlace
    <3>3. t[p].kind \in {"dir", "file"}
      BY <1>1, <3>1, EvalIs
    <3>4. t[r].kind = "file"
      BY <1>2, <3>2, <3>3 DEF Held
    <3> QED
      BY <1>2, <2>2, <3>1, <3>2, <3>4
  <2> QED
    BY <1>1, <2>1, <2>2
<1>4. EvalSymlinks(disk, p) = {r}
  <2>1. CASE disk = t
    BY <1>3, <2>1
  <2>2. ASSUME NEW d, Replaces(t, r, d, disk) PROVE EvalSymlinks(disk, p) = {r}
    <3>1. t[r].kind = "file"
      BY <1>3
    <3>2. EvalSymlinks(disk, p) = EvalSymlinks(t, p)
      <4>1. p \in Path
        BY <1>1
      <4>2. Replaces(t, r, d, disk)
        BY <2>2
      <4> QED
        BY ONLY <3>1, <4>1, <4>2, EditSeen
    <3> QED
      BY <1>3, <3>2
  <2> QED
    BY <1>2, <2>1, <2>2
<1>5. q = r /\ q \in Path /\ EvalSymlinks(disk, r) = {r}
  <2>1. q = r
    BY <1>0, <1>4
  <2> QED
    BY <1>0, <1>1, <2>1, EvalIs
<1>6. Place(disk, r) = {r}
  BY <1>5, PlainPlace
<1>7. Replaces(disk, r, c, w)
  <2>1. w \in writeAtomic(r, c) /\ r \in Path
    BY <1>3, <1>5
  <2>2. PICK s \in AllPaths : Place(disk, r) = {s} /\ Replaces(disk, s, c, w)
    BY <2>1, Written
  <2>3. s = r
    BY <1>6, <2>2
  <2> QED
    BY <2>2, <2>3
<1>8. Replaces(t, r, c, w)
  BY <1>1, <1>2, <1>7, ReplacedTwice
<1>9. \A x \in AllPaths : Walk(t, x).end # "loop" => Reads(w, x) = Reads(t, x)
  <2>1. Held(t, r, c)
    BY <1>2
  <2> QED
    BY ONLY <1>8, <2>1, ReadingsKept
<1> QED
  BY <1>9 DEF t

-----------------------------------------------------------------------------
(* Behaviours of the tools. *)

Kept == Contents \cup {Torn}

CliInv ==
  /\ CliTypeOK
  /\ backups \in [AllPaths -> Kept \cup {Absent}] /\ runs \in 0..MaxRuns
  /\ \A u \in undo : Undoable(u, backups, disk)
  /\ WritesAreSeen /\ RollbackUndoesApply

LEMMA KeptIs == runs \in 0..MaxRuns /\ runs < MaxRuns => runs + 1 \in 0..MaxRuns /\ runs + 1 \in Kept
BY CommandLineAssumption DEF Kept, Contents

\* What is read of a disk that holds contents is contents.
LEMMA ReadIsKept ==
  ASSUME CliInv, NEW p \in Path, NEW c \in Reads(disk, p)
  PROVE  c \in Kept
<1>1. IsTree(disk) /\ \A x \in AllPaths : disk[x].kind = "file" => disk[x].data \in Kept
  BY DEF CliInv, CliTypeOK, Kept
<1>2. PICK e \in AllPaths : disk[e].kind = "file" /\ disk[e].data = c
  BY <1>1, ReadThroughPlace
<1> QED
  BY <1>1, <1>2

\* A write of contents leaves a disk of contents.
LEMMA WriteKeepsTypes ==
  ASSUME CliInv, NEW r, NEW d \in Kept, NEW w, Replaces(disk, r, d, w)
  PROVE  IsTree(w) /\ \A x \in AllPaths : w[x].kind = "file" => w[x].data \in Kept
<1>1. \A x \in AllPaths : disk[x].kind = "file" => disk[x].data \in Kept
  BY DEF CliInv, CliTypeOK, Kept
<1>2. IsTree(w) /\ w[r].data = d /\ \A x \in AllPaths : x # r => w[x] = disk[x]
  BY ReplacesIs
<1> QED
  BY <1>1, <1>2

\* What every step of a tool keeps, when the disk, the backups and the exit code
\* have their types and what can be undone is what was done.
LEMMA ToolStep ==
  ASSUME CliInv, NEW record, Run(record),
         IsTree(disk') /\ \A x \in AllPaths : disk'[x].kind = "file" => disk'[x].data \in Kept,
         backups' \in [AllPaths -> Kept \cup {Absent}], exit' \in 0..2,
         \A u \in undo' : Undoable(u, backups', disk'), WritesAreSeen', RollbackUndoesApply'
  PROVE  CliInv'
<1>1. runs' \in 0..MaxRuns
  BY KeptIs DEF CliInv, Run
<1>2. CliTypeOK'
  BY DEF CliTypeOK, Kept
<1> QED
  BY <1>1, <1>2 DEF CliInv

LEMMA ToolsStart == CliInit => CliInv
<1> SUFFICES ASSUME CliInit PROVE CliInv
  OBVIOUS
<1>1. IsTree(disk) /\ \A p \in AllPaths : disk[p].kind = "file" => disk[p].data \in Contents
  BY CommandLineAssumption DEF CliInit
<1>2. backups = [p \in AllPaths |-> Absent] /\ exit = 0 /\ runs = 0 /\ undo = {} /\ last = [tool |-> "none"]
  BY DEF CliInit
<1>3. CliTypeOK
  BY <1>1, <1>2 DEF CliTypeOK
<1>4. backups \in [AllPaths -> Kept \cup {Absent}] /\ runs \in 0..MaxRuns
  BY <1>2, CommandLineAssumption
<1>5. last.tool = "none"
  BY <1>2
<1>6. WritesAreSeen /\ RollbackUndoesApply
  BY <1>5 DEF WritesAreSeen, ExitTellsWhatHappened, AliasesSeeTheEdit, RollbackUndoesApply, Rollbacks
<1> QED
  BY <1>2, <1>3, <1>4, <1>6 DEF CliInv

\* An apply that refuses, that fails or that writes.
LEMMA ApplyStep ==
  ASSUME CliInv, CliApply
  PROVE  CliInv'
<1>1. PICK p \in Args, spec \in Outcomes, dryRun \in BOOLEAN :
        /\ Run([tool |-> "apply", path |-> p, spec |-> spec, dry |-> dryRun,
                before |-> disk, output |-> runs + 1])
        /\ \/ ApplyRefused(p, spec, dryRun)
           \/ ~dryRun /\ ApplyWrites(p, spec)
  BY DEF CliApply
<1>2. /\ last' = [tool |-> "apply", path |-> p, spec |-> spec, dry |-> dryRun,
                  before |-> disk, output |-> runs + 1]
      /\ runs < MaxRuns
  BY <1>1 DEF Run
<1>3. /\ last'.tool = "apply" /\ last'.path = p /\ last'.spec = spec /\ last'.dry = dryRun
      /\ last'.before = disk /\ last'.output = runs + 1
  BY <1>2
<1>4. p \in Args /\ p \in AsGiven /\ Clean(p) \in AllPaths /\ IsTree(disk) /\ runs + 1 \in Kept
      /\ backups \in [AllPaths -> Kept \cup {Absent}]
      /\ \A x \in AllPaths : disk[x].kind = "file" => disk[x].data \in Kept
  <2>1. p \in AsGiven /\ Clean(p) \in AllPaths
    BY GivenPaths
  <2>2. runs + 1 \in Kept
    BY <1>2, KeptIs DEF CliInv
  <2> QED
    BY <2>1, <2>2 DEF CliInv, CliTypeOK, Kept
<1>5. RollbackUndoesApply' /\ AliasesSeeTheEdit'
  BY <1>3 DEF RollbackUndoesApply, Rollbacks, AliasesSeeTheEdit
<1>6. CASE ApplyRefused(p, spec, dryRun)
  <2>1. /\ exit' = Refusal(p, spec) /\ undo' = {} /\ UNCHANGED <<disk, backups>>
        /\ dryRun \/ ReadFile(disk, p) = {} \/ spec \in {"unreadable", "no commands", "invalid"}
    BY <1>6 DEF ApplyRefused
  <2> DEFINE R == ReadFile(disk, p)
             e == exit'
  <2>0. e = CASE R = {} \/ spec = "unreadable" -> 2
              [] R # {} /\ spec = "no commands" -> 1
              [] R # {} /\ spec = "invalid" -> 2
              [] OTHER -> IF spec \in Missed THEN 1 ELSE 0
    BY <2>1 DEF Refusal
  <2> HIDE DEF R, e
  <2>2. R = {} \/ spec = "unreadable" => e = 2
    BY ONLY <2>0
  <2>3. R # {} /\ spec = "no commands" => e = 1
    BY ONLY <2>0
  <2>4. R # {} /\ spec = "invalid" => e = 2
    BY ONLY <2>0
  <2>5. R # {} /\ spec \notin {"unreadable", "no commands", "invalid"} => e = IF spec \in Missed THEN 1 ELSE 0
    BY ONLY <2>0
  <2>6. 0 # 1 /\ 0 # 2 /\ 0 \in 0..2 /\ 1 \in 0..2 /\ 2 \in 0..2
    OBVIOUS
  <2>7. e \in 0..2
    BY ONLY <2>2, <2>3, <2>4, <2>5, <2>6, Zenon
  <2>8. e = 0 => spec = "matched" /\ dryRun
    <3> SUFFICES ASSUME e = 0 PROVE spec = "matched" /\ dryRun
      OBVIOUS
    <3>1. R # {} /\ spec # "unreadable"
      BY <2>2, <2>6
    <3>2. spec # "no commands" /\ spec # "invalid"
      BY <2>3, <2>4, <2>6, <3>1
    <3>3. spec \notin Missed
      BY <2>5, <2>6, <3>1, <3>2
    <3>4. spec \in Missed \cup {"unreadable", "no commands", "invalid", "matched"}
      BY DEF Outcomes, Missed
    <3> QED
      BY <2>1, <3>1, <3>2, <3>3, <3>4 DEF R
  <2> USE DEF e
  <2>9. ExitTellsWhatHappened'
    BY <1>3, <2>1, <2>8 DEF ExitTellsWhatHappened
  <2>10. WritesAreSeen'
    BY <1>5, <2>9 DEF WritesAreSeen
  <2> QED
    BY <1>1, <1>4, <1>5, <2>1, <2>7, <2>10, ToolStep
<1>7. CASE ~dryRun /\ ApplyWrites(p, spec)
  <2>0. PICK q \in Physical(disk, p) : \E c : c \in Reads(disk, q)
    BY <1>7 DEF ApplyWrites, ReadFile
  <2>. PICK c : c \in Reads(disk, q)
    BY <2>0
  <2>1. q \in Path /\ Physical(disk, p) = {q} /\ ReadFile(disk, p) = Reads(disk, q)
    <3>1. q \in Path /\ Physical(disk, p) = {q}
      BY <1>4, PhysicalIsPath DEF AsGiven
    <3> QED
      BY <3>1 DEF ReadFile
  <2>2. ReadFile(disk, p) = {c} /\ q # <<>> /\ c \in Kept
    BY <1>4, <2>0, <2>1, ReadThroughPlace, ReadIsKept
  <2>3. PICK r \in AllPaths : Place(disk, q) = {r} /\ Held(disk, r, c) /\ disk[r] # Directory
    BY <1>4, <2>0, <2>1, ReadThroughPlace
  <2>4. CASE exit' = 2 /\ undo' = {} /\ UNCHANGED disk
             /\ \E left \in {Torn, backups[backupPath(Clean(p))]} : backups' = [backups EXCEPT ![backupPath(Clean(p))] = left]
    <3>1. backups' \in [AllPaths -> Kept \cup {Absent}]
      BY <1>4, <2>4 DEF Kept, backupPath
    <3>2. WritesAreSeen'
      BY <1>3, <1>5, <2>4 DEF WritesAreSeen, ExitTellsWhatHappened
    <3> QED
      BY <1>1, <1>4, <1>5, <2>4, <3>1, <3>2, ToolStep
  <2>5. CASE /\ backups' = [backups EXCEPT ![Clean(p)] = c]
             /\ \/ disk' \in writeAtomic(p, Output(p, spec)) /\ exit' = (IF spec \in Missed THEN 1 ELSE 0)
                \/ exit' = 2 /\ UNCHANGED disk
             /\ undo' = {[tool |-> "command line", path |-> p, disk |-> disk]}
    <3>1. backups' \in [AllPaths -> Kept \cup {Absent}] /\ backups'[Clean(p)] = c
      BY <1>4, <2>2, <2>5
    <3> DEFINE u == [tool |-> "command line", path |-> p, disk |-> disk]
    <3>2. u.tool = "command line" /\ u.path = p /\ u.disk = disk /\ undo' = {u}
      BY <2>5
    <3> HIDE DEF u
    <3>3. ASSUME disk' = disk \/ \E d : Replaces(disk, r, d, disk') PROVE \A x \in undo' : Undoable(x, backups', disk')
      <4>1. c \in Contents \cup {Torn}
        BY <2>2 DEF Kept
      <4>2. Undoable(u, backups', disk')
        BY <1>4, <2>1, <2>3, <3>1, <3>2, <3>3, <4>1 DEF Undoable
      <4> QED
        BY <3>2, <4>2
    <3>4. CASE exit' = 2 /\ UNCHANGED disk
      <4>1. WritesAreSeen'
        BY <1>3, <1>5, <3>4 DEF WritesAreSeen, ExitTellsWhatHappened
      <4> QED
        BY <1>1, <1>4, <1>5, <3>1, <3>3, <3>4, <4>1, ToolStep
    <3>5. CASE disk' \in writeAtomic(p, Output(p, spec)) /\ exit' = (IF spec \in Missed THEN 1 ELSE 0)
      <4> DEFINE d == Output(p, spec)
      <4>1. d \in Kept /\ (spec # "unmatched" => d = runs + 1)
        BY <1>4, <2>2 DEF Output
      <4> HIDE DEF d
      <4>2. disk' \in writeAtomic(p, d)
        BY <3>5 DEF d
      <4>3. PICK s \in AllPaths : Place(disk, q) = {s} /\ Replaces(disk, s, d, disk')
        BY <1>4, <4>2, WrittenAsGiven
      <4>4. Replaces(disk, r, d, disk')
        <5>1. s = r
          BY <2>3, <4>3
        <5> QED
          BY <4>3, <5>1
      <4>5. IsTree(disk') /\ \A x \in AllPaths : disk'[x].kind = "file" => disk'[x].data \in Kept
        BY <4>1, <4>4, WriteKeepsTypes
      <4>6. exit' \in 0..2 /\ exit' # 2
        BY <3>5
      <4>7. exit' = 0 => spec = "matched"
        <5>1. spec \in Missed \cup {"matched"}
          BY <1>7 DEF ApplyWrites
        <5> QED
          BY <3>5, <5>1
      <4>8. exit' = 0 /\ Place(disk', q) # {} => Reads(disk', q) = {runs + 1}
        <5> SUFFICES ASSUME exit' = 0, Place(disk', q) # {} PROVE Reads(disk', q) = {runs + 1}
          OBVIOUS
        <5>1. d = runs + 1
          BY <4>1, <4>7
        <5>2. Reads(disk', q) = {d}
          BY <2>1, <2>2, <2>3, <4>4, OutputIsRead
        <5> QED
          BY <5>1, <5>2
      <4>9. ExitTellsWhatHappened'
        BY <1>3, <1>7, <2>1, <4>6, <4>7, <4>8 DEF ExitTellsWhatHappened
      <4>10. WritesAreSeen'
        BY <1>5, <4>9 DEF WritesAreSeen
      <4> QED
        BY <1>1, <1>5, <3>1, <3>3, <4>4, <4>5, <4>6, <4>10, ToolStep
    <3> QED
      BY <2>5, <3>4, <3>5
  <2>6. \/ /\ exit' = 2 /\ undo' = {} /\ UNCHANGED disk
           /\ \E left \in {Torn, backups[backupPath(Clean(p))]} : backups' = [backups EXCEPT ![backupPath(Clean(p))] = left]
        \/ /\ backups' = [backups EXCEPT ![Clean(p)] = c]
           /\ \/ disk' \in writeAtomic(p, Output(p, spec)) /\ exit' = (IF spec \in Missed THEN 1 ELSE 0)
              \/ exit' = 2 /\ UNCHANGED disk
           /\ undo' = {[tool |-> "command line", path |-> p, disk |-> disk]}
    BY <1>7, <2>2 DEF ApplyWrites, backupPath
  <2> QED
    BY <2>4, <2>5, <2>6
<1> QED
  BY <1>1, <1>6, <1>7

\* The command line's rollback.
LEMMA RollbackStep ==
  ASSUME CliInv, CliRollback
  PROVE  CliInv'
<1>1. PICK p \in Args :
        /\ Run([tool |-> "rollback", path |-> p, undone |-> undo])
        /\ IF backups[Clean(p)] = Absent THEN exit' = 1 /\ UNCHANGED disk ELSE Restore(Clean(p), Clean(p))
        /\ undo' = {} /\ UNCHANGED backups
  BY DEF CliRollback, backupPath
<1>2. last'.tool = "rollback" /\ last'.path = p /\ last'.undone = undo
  BY <1>1 DEF Run
<1>3. Clean(p) \in AllPaths /\ Clean(p) \in Path /\ IsTree(disk)
      /\ backups \in [AllPaths -> Kept \cup {Absent}]
      /\ \A x \in AllPaths : disk[x].kind = "file" => disk[x].data \in Kept
  <2>1. Clean(p) \in AllPaths /\ Clean(p) \in Path
    BY GivenPaths
  <2> QED
    BY <2>1 DEF CliInv, CliTypeOK, Kept
<1>4. WritesAreSeen'
  BY <1>2 DEF WritesAreSeen, ExitTellsWhatHappened, AliasesSeeTheEdit
<1>5. CASE exit' \in {1, 2} /\ UNCHANGED disk
  <2>1. RollbackUndoesApply'
    <3>1. last'.tool = "rollback" /\ exit' # 0
      BY <1>2, <1>5
    <3> QED
      BY <3>1, Zenon DEF RollbackUndoesApply
  <2> QED
    BY <1>1, <1>3, <1>4, <1>5, <2>1, ToolStep
<1>6. CASE backups[Clean(p)] # Absent /\ disk' \in writeAtomic(Clean(p), backups[Clean(p)]) /\ exit' = 0
  <2>1. PICK r \in AllPaths : Replaces(disk, r, backups[Clean(p)], disk')
    BY <1>3, <1>6, Written
  <2>2. backups[Clean(p)] \in Kept
    BY <1>3, <1>6
  <2>3. IsTree(disk') /\ \A x \in AllPaths : disk'[x].kind = "file" => disk'[x].data \in Kept
    BY <2>1, <2>2, WriteKeepsTypes
  <2>4. RollbackUndoesApply'
    <3> SUFFICES ASSUME NEW u \in undo, u.path = p,
                        u.tool = "command line" \/ HasNoLinks(u),
                        u.tool = "command line" => OnePlace(u.disk, u.path),
                        NEW x \in AllPaths, Walk(u.disk, x).end # "loop"
                 PROVE  Reads(disk', x) = Reads(u.disk, x)
      BY <1>2 DEF RollbackUndoesApply, SameReadings, ByItsOwnTool
    <3>1. Undoable(u, backups, disk)
      BY DEF CliInv
    <3>2. disk' \in writeAtomic(Clean(u.path), backups[Clean(u.path)])
      BY <1>6
    <3> QED
      BY <1>3, <3>1, <3>2, RestoredByName
  <2> QED
    BY <1>1, <1>3, <1>4, <1>6, <2>3, <2>4, ToolStep
<1> QED
  BY <1>1, <1>5, <1>6 DEF Restore

\* Backups are removed.
LEMMA CleanStep ==
  ASSUME CliInv, CleanBackups
  PROVE  CliInv'
<1>1. Run([tool |-> "clean"]) /\ undo' = {} /\ UNCHANGED disk
  BY DEF CleanBackups
<1>2. last'.tool = "clean"
  BY <1>1 DEF Run
<1>3. WritesAreSeen' /\ RollbackUndoesApply'
  BY <1>2 DEF WritesAreSeen, ExitTellsWhatHappened, AliasesSeeTheEdit, RollbackUndoesApply, Rollbacks
<1>4. IsTree(disk) /\ \A x \in AllPaths : disk[x].kind = "file" => disk[x].data \in Kept
  BY DEF CliInv, CliTypeOK, Kept
<1>5. PICK gone \in SUBSET {p \in AllPaths : backups[p] # Absent} :
        /\ backups' = [p \in AllPaths |-> IF p \in gone THEN Absent ELSE backups[p]]
        /\ exit' \in {0} \cup {2 : p \in {q \in AllPaths : backups'[q] # Absent}}
  BY DEF CleanBackups
<1>6. backups' \in [AllPaths -> Kept \cup {Absent}]
  BY <1>5 DEF CliInv
<1>7. exit' \in 0..2
  BY <1>5
<1> QED
  BY <1>1, <1>3, <1>4, <1>6, <1>7, ToolStep

\* An edit by the server.
LEMMA EditStep ==
  ASSUME CliInv, McpEdit
  PROVE  CliInv'
<1>0. PICK p \in Args : \E q \in EvalSymlinks(disk, Clean(p)) :
        /\ Reads(disk, q) # {}
        /\ Run([tool |-> "edit", path |-> p, before |-> disk, output |-> runs + 1])
        /\ \E read \in Reads(disk, q) : backups' = [backups EXCEPT ![q] = read]
        /\ disk' \in writeAtomic(q, runs + 1)
        /\ undo' = {[tool |-> "server", path |-> p, disk |-> disk]}
        /\ UNCHANGED exit
  BY DEF McpEdit, backupPath
<1>1. PICK q \in EvalSymlinks(disk, Clean(p)) :
        /\ Reads(disk, q) # {}
        /\ Run([tool |-> "edit", path |-> p, before |-> disk, output |-> runs + 1])
        /\ \E read \in Reads(disk, q) : backups' = [backups EXCEPT ![q] = read]
        /\ disk' \in writeAtomic(q, runs + 1)
        /\ undo' = {[tool |-> "server", path |-> p, disk |-> disk]}
        /\ UNCHANGED exit
  BY <1>0
<1>2. last'.tool = "edit" /\ last'.path = p /\ last'.before = disk /\ last'.output = runs + 1
  BY <1>1 DEF Run
<1>3. p \in Args /\ Clean(p) \in Path /\ IsTree(disk) /\ exit \in 0..2
      /\ backups \in [AllPaths -> Kept \cup {Absent}] /\ runs + 1 \in Kept
  <2>1. Clean(p) \in Path
    BY GivenPaths
  <2>2. runs + 1 \in Kept
    BY <1>1, KeptIs DEF CliInv, Run
  <2> QED
    BY <2>1, <2>2 DEF CliInv, CliTypeOK
<1>4. EvalSymlinks(disk, Clean(p)) = {q} /\ q \in AllPaths /\ q \in Path /\ EvalSymlinks(disk, q) = {q}
  BY <1>1, <1>3, EvalIs
<1>5. PICK c \in Reads(disk, q) : backups' = [backups EXCEPT ![q] = c]
  BY <1>1
<1>6. c \in Kept /\ disk[q].kind = "file" /\ disk[q].data = c
  <2>1. PICK e \in AllPaths : EvalSymlinks(disk, q) = {e} /\ disk[e].kind = "file" /\ disk[e].data = c
    BY <1>3, <1>4, <1>5, ReadThroughPlace
  <2>2. e = q
    BY <1>4, <2>1
  <2> QED
    BY <1>4, <1>5, <2>1, <2>2, ReadIsKept
<1>7. Replaces(disk, q, runs + 1, disk')
  <2>1. PICK r \in AllPaths : Place(disk, q) = {r} /\ Replaces(disk, r, runs + 1, disk')
    BY <1>1, <1>3, <1>4, Written
  <2>2. Place(disk, q) = {q}
    BY <1>3, <1>4, PlainPlace
  <2>3. r = q
    BY <2>1, <2>2
  <2> QED
    BY <2>1, <2>3
<1>8. IsTree(disk') /\ \A x \in AllPaths : disk'[x].kind = "file" => disk'[x].data \in Kept
  BY <1>3, <1>7, WriteKeepsTypes
<1>9. backups' \in [AllPaths -> Kept \cup {Absent}] /\ backups'[q] = c
  BY <1>3, <1>4, <1>5, <1>6
<1>10. \A u \in undo' : Undoable(u, backups', disk')
  <2> DEFINE u == [tool |-> "server", path |-> p, disk |-> disk]
  <2>1. u.tool = "server" /\ u.path = p /\ u.disk = disk /\ undo' = {u}
    BY <1>1
  <2> HIDE DEF u
  <2>2. c \in Contents \cup {Torn} /\ Held(disk, q, c)
    BY <1>6 DEF Kept, Held
  <2>3. Undoable(u, backups', disk')
    BY <1>3, <1>4, <1>6, <1>7, <1>9, <2>1, <2>2 DEF Undoable
  <2> QED
    BY <2>1, <2>3
<1>11. AliasesSeeTheEdit'
  <2> SUFFICES ASSUME NEW x \in AllPaths
               PROVE  Reads(disk', x) = IF EvalSymlinks(disk, x) # {} /\ EvalSymlinks(disk, x) = EvalSymlinks(disk, Clean(p))
                                        THEN {runs + 1} ELSE Reads(disk, x)
    BY <1>2 DEF AliasesSeeTheEdit
  <2>1. x \in Path
    BY PathsOfTree
  <2>2. Reads(disk', x) = IF EvalSymlinks(disk, x) = {q} THEN {runs + 1} ELSE Reads(disk, x)
    BY <1>6, <1>7, <2>1, EditSeen
  <2> QED
    BY <1>4, <2>2
<1>12. WritesAreSeen' /\ RollbackUndoesApply'
  BY <1>2, <1>11 DEF WritesAreSeen, ExitTellsWhatHappened, RollbackUndoesApply, Rollbacks
<1> QED
  BY <1>1, <1>3, <1>8, <1>9, <1>10, <1>12, ToolStep

\* The server's rollback.
LEMMA McpRollbackStep ==
  ASSUME CliInv, McpRollback
  PROVE  CliInv'
<1>0. PICK p \in Args : \E q \in EvalSymlinks(disk, Clean(p)) :
        /\ backups[q] # Absent
        /\ Run([tool |-> "clipfit_rollback", path |-> p, undone |-> undo])
        /\ disk' \in writeAtomic(q, backups[q])
        /\ undo' = {} /\ UNCHANGED <<exit, backups>>
  BY DEF McpRollback, backupPath
<1>1. PICK q \in EvalSymlinks(disk, Clean(p)) :
        /\ backups[q] # Absent
        /\ Run([tool |-> "clipfit_rollback", path |-> p, undone |-> undo])
        /\ disk' \in writeAtomic(q, backups[q])
        /\ undo' = {} /\ UNCHANGED <<exit, backups>>
  BY <1>0
<1>2. last'.tool = "clipfit_rollback" /\ last'.path = p /\ last'.undone = undo
  BY <1>1 DEF Run
<1>3. Clean(p) \in Path /\ IsTree(disk) /\ exit \in 0..2
      /\ backups \in [AllPaths -> Kept \cup {Absent}]
  <2>1. Clean(p) \in Path
    BY GivenPaths
  <2> QED
    BY <2>1 DEF CliInv, CliTypeOK
<1>4. q \in AllPaths /\ q \in Path
  BY <1>1, <1>3, EvalIs
<1>5. PICK r \in AllPaths : Replaces(disk, r, backups[q], disk')
  BY <1>1, <1>3, <1>4, Written
<1>6. IsTree(disk') /\ \A x \in AllPaths : disk'[x].kind = "file" => disk'[x].data \in Kept
  <2>1. backups[q] \in Kept
    BY <1>1, <1>3, <1>4
  <2> QED
    BY <1>5, <2>1, WriteKeepsTypes
<1>7. WritesAreSeen'
  BY <1>2 DEF WritesAreSeen, ExitTellsWhatHappened, AliasesSeeTheEdit
<1>8. RollbackUndoesApply'
  <2> SUFFICES ASSUME NEW u \in undo, u.path = p,
                      u.tool # "command line" \/ HasNoLinks(u),
                      u.tool = "command line" => OnePlace(u.disk, u.path),
                      NEW x \in AllPaths, Walk(u.disk, x).end # "loop"
               PROVE  Reads(disk', x) = Reads(u.disk, x)
    BY <1>2 DEF RollbackUndoesApply, SameReadings, ByItsOwnTool
  <2>1. Undoable(u, backups, disk)
    BY DEF CliInv
  <2>2. u.tool = "server" \/ HasNoLinks(u)
    BY <2>1 DEF Undoable
  <2>3. q \in EvalSymlinks(disk, Clean(u.path)) /\ disk' \in writeAtomic(q, backups[q])
    BY <1>1
  <2> QED
    BY <1>3, <2>1, <2>2, <2>3, RestoredByTarget
<1> QED
  BY <1>1, <1>3, <1>6, <1>7, <1>8, ToolStep

LEMMA ToolsStandStill ==
  ASSUME CliInv, UNCHANGED cliVars
  PROVE  CliInv'
BY DEF CliInv, CliTypeOK, WritesAreSeen, ExitTellsWhatHappened, AliasesSeeTheEdit, RollbackUndoesApply,
       SameReadings, ByItsOwnTool, HasNoLinks, OnePlace, cliVars

LEMMA ToolsKeep ==
  ASSUME CliInv, Next \/ UNCHANGED <<part, guardVars, cliVars>>
  PROVE  CliInv'
BY ApplyStep, RollbackStep, CleanStep, EditStep, McpRollbackStep, ToolsStandStill DEF Next, CliNext

LEMMA ToolsHold == Spec => []CliInv
<1>1. Init => CliInv
  BY ToolsStart DEF Init, ToolsStand
<1>2. CliInv /\ [Next]_<<part, guardVars, cliVars>> => CliInv'
  BY ToolsKeep
<1> QED
  BY <1>1, <1>2, PTL DEF Spec

\* What a tool says it wrote is what the names read afterwards, whatever links
\* and ".." lead to a file (main.go:549-625, mcp.go:535-588).
THEOREM NamesReadWhatWasWritten == Spec => []WritesAreSeen
<1>1. CliInv => WritesAreSeen
  BY DEF CliInv
<1> QED
  BY <1>1, ToolsHold, PTL

\* A rollback right after an apply undoes it, whatever links the path leads by,
\* unless a ".." of the path given to the command line stands behind a link and
\* so for another place than without it (main.go:549-669, mcp.go:509-588).
THEOREM RollbackRestores == Spec => []RollbackUndoesApply
<1>1. CliInv => RollbackUndoesApply
  BY DEF CliInv
<1> QED
  BY <1>1, ToolsHold, PTL

\* The trees stay trees, and what the variables hold has its type.
THEOREM TypesOfFileNames == Spec => []TypeOK
<1>1. GuardInv /\ CliInv => TypeOK
  BY DEF GuardInv, CliInv, TypeOK
<1> QED
  BY <1>1, GuardHolds, ToolsHold, PTL
=============================================================================
