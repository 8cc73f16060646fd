---------------------------- MODULE SequenceLemmas ----------------------------
(***************************************************************************)
(* What the proofs of the other modules need of numbers and sequences:     *)
(* induction over naturals and sequences as facts about sets, and that a   *)
(* recursive function has a solution.                                      *)
(***************************************************************************)
EXTENDS Integers, FiniteSets, SequencesExt, SequenceTheorems, FiniteSetTheorems,
        WellFoundedInduction, TLAPS

(* Induction: what is false of some natural number is false of a least one. *)
LEMMA LeastNatural ==
  ASSUME NEW S \in SUBSET Nat, S # {}
  PROVE  \E m \in S : \A k \in S : m <= k
<1>1. PICK m \in S : \A j \in S : ~(<<j, m>> \in OpToRel(<, Nat))
  BY NatLessThanWellFounded, WFMin
<1>2. \A k \in S : ~(k < m)
  BY <1>1 DEF OpToRel
<1> QED
  BY <1>2

\* A set with the first number of a range that goes on from each to the next
\* holds the range.
LEMMA Upwards ==
  ASSUME NEW l \in Nat, NEW m \in Nat, NEW S, l \in S,
         \A k \in l..m - 1 : k \in S => k + 1 \in S
  PROVE  \A k \in l..m : k \in S
<1> DEFINE Bad == {k \in l..m : k \notin S}
<1> SUFFICES ASSUME Bad # {} PROVE FALSE
  OBVIOUS
<1>1. PICK b \in Bad : \A k \in Bad : b <= k
  <2>1. Bad \in SUBSET Nat
    OBVIOUS
  <2> HIDE DEF Bad
  <2> QED
    BY <2>1, LeastNatural
<1>2. b - 1 \in l..m - 1 /\ b - 1 \notin Bad /\ b \notin S /\ b = (b - 1) + 1
  <2>1. b \in l..m /\ b # l /\ b \notin S
    OBVIOUS
  <2>2. b - 1 \in l..m - 1 /\ ~(b <= b - 1)
    BY <2>1
  <2> HIDE DEF Bad
  <2> QED
    BY <1>1, <2>1, <2>2
<1> QED
  BY <1>2

(* A set of naturals with a bound has a greatest.                         *)
LEMMA HasGreatest ==
  ASSUME NEW m \in Nat, NEW S \in SUBSET (0..m), S # {}
  PROVE  \E g \in S : \A k \in S : k <= g
<1> DEFINE R == {k \in 0..m : m - k \in S}
<1>1. R \in SUBSET Nat
  OBVIOUS
<1>2. R # {}
  <2>1. PICK s \in S : TRUE
    OBVIOUS
  <2>2. m - s \in 0..m /\ m - (m - s) = s
    OBVIOUS
  <2> QED
    BY <2>1, <2>2
<1>3. PICK l \in R : \A k \in R : l <= k
  <2> HIDE DEF R
  <2> QED
    BY <1>1, <1>2, LeastNatural
<1>4. m - l \in S /\ l \in 0..m
  BY <1>3
<1>5. \A k \in S : k <= m - l
  <2> SUFFICES ASSUME NEW k \in S PROVE k <= m - l
    OBVIOUS
  <2>1. m - k \in 0..m /\ m - (m - k) = k
    OBVIOUS
  <2>2. m - k \in R
    BY <2>1
  <2>3. l <= m - k
    BY <1>3, <2>2
  <2> QED
    BY <1>4, <2>1, <2>3
<1> QED
  BY <1>4, <1>5

LEMMA GreatestNatural ==
  ASSUME NEW m \in Nat, NEW S \in SUBSET (0..m), S # {}
  PROVE  /\ Max(S) \in S /\ \A k \in S : k <= Max(S)
<1> DEFINE R == {k \in 0..m : m - k \in S}
<1>1. R \in SUBSET Nat
  OBVIOUS
<1>2. R # {}
  <2>1. PICK s \in S : TRUE
    OBVIOUS
  <2>2. m - s \in 0..m /\ m - (m - s) = s
    OBVIOUS
  <2> QED
    BY <2>1, <2>2
<1>3. PICK l \in R : \A k \in R : l <= k
  <2> HIDE DEF R
  <2> QED
    BY <1>1, <1>2, LeastNatural
<1>4. m - l \in S /\ l \in 0..m
  BY <1>3
<1>5. \A k \in S : m - l >= k
  <2> SUFFICES ASSUME NEW k \in S PROVE m - l >= k
    OBVIOUS
  <2>1. m - k \in 0..m /\ m - (m - k) = k
    OBVIOUS
  <2>2. m - k \in R
    BY <2>1
  <2>3. l <= m - k
    BY <1>3, <2>2
  <2> QED
    BY <1>4, <2>1, <2>3
<1>6. Max(S) \in S /\ \A k \in S : Max(S) >= k
  BY <1>4, <1>5 DEF Max
<1>7. \A k \in S : k \in Int
  OBVIOUS
<1> QED
  BY <1>6, <1>7

(* The least of the naturals of a set.                                     *)
LEMMA LeastIsMin ==
  ASSUME NEW S \in SUBSET Nat, S # {}
  PROVE  Min(S) \in S /\ \A k \in S : Min(S) <= k
<1>1. \E m \in S : \A k \in S : m <= k
  BY LeastNatural
<1>. QED  BY <1>1 DEF Min

(* A recursion over the numbers up to N that stays in a set of values has  *)
(* a solution.                                                             *)
Steps(V, N) == [V \X (1..N) -> V]
Solutions(V, N, base, step) ==
  {g \in [0..N -> V] : g[0] = base /\ \A n \in 1..N : g[n] = step[<<g[n-1], n>>]}

LEMMA Recursion ==
  ASSUME NEW N \in Nat, NEW V, NEW base \in V, NEW step \in Steps(V, N)
  PROVE  Solutions(V, N, base, step) # {}
<1>. USE DEF Steps
<1>. DEFINE Good(g, m) == /\ g \in [0..m -> V] /\ g[0] = base
                          /\ \A n \in 1..m : g[n] = step[<<g[n-1], n>>]
            S == {m \in 0..N : \E g : Good(g, m)}
<1>1. 0 \in S
  <2>. DEFINE e == [n \in 0..0 |-> base]
  <2>1. e \in [0..0 -> V] /\ e[0] = base
    OBVIOUS
  <2>2. \A n \in 1..0 : FALSE
    OBVIOUS
  <2>3. Good(e, 0) /\ 0 \in 0..N
    BY <2>1, <2>2
  <2>. HIDE DEF e, Good
  <2>4. \E g : Good(g, 0)
    BY <2>3, Zenon
  <2>. QED  BY <2>3, <2>4, Zenon
<1>2. ASSUME NEW m \in 0..N - 1, m \in S PROVE m + 1 \in S
  <2>1. PICK g : Good(g, m)
    BY <1>2
  <2>2. m \in Nat /\ m + 1 \in 1..N /\ m + 1 \in 0..N /\ (m + 1) - 1 = m
    OBVIOUS
  <2>. DEFINE h == [n \in 0..m + 1 |-> IF n = m + 1 THEN step[<<g[m], n>>] ELSE g[n]]
  <2>3. g[m] \in V
    BY <2>1, <2>2
  <2>4. step[<<g[m], m + 1>>] \in V
    BY <2>2, <2>3
  <2>5. h[m + 1] = step[<<g[m], m + 1>>] /\ \A n \in 0..m : h[n] = g[n]
    BY <2>2
  <2>6. h \in [0..m + 1 -> V]
    <3>1. \A n \in 0..m + 1 : n = m + 1 \/ n \in 0..m
      BY <2>2
    <3>2. \A n \in 0..m : g[n] \in V
      BY <2>1
    <3>3. \A n \in 0..m + 1 : (IF n = m + 1 THEN step[<<g[m], n>>] ELSE g[n]) \in V
      BY <2>4, <3>1, <3>2
    <3>. QED  BY <3>3
  <2>7. h[0] = base
    BY <2>1, <2>2, <2>5
  <2>8. ASSUME NEW n \in 1..m + 1 PROVE h[n] = step[<<h[n-1], n>>]
    <3>1. CASE n = m + 1
      BY <2>2, <2>5, <3>1
    <3>2. CASE n # m + 1
      <4>1. n \in 1..m /\ n - 1 \in 0..m /\ n \in 0..m
        BY <2>2, <3>2
      <4>2. h[n] = g[n] /\ h[n-1] = g[n-1] /\ g[n] = step[<<g[n-1], n>>]
        BY <2>1, <2>5, <4>1
      <4>. QED  BY <4>2
    <3>. QED  BY <3>1, <3>2
  <2>. HIDE DEF h
  <2>9. Good(h, m + 1)
    BY <2>6, <2>7, <2>8
  <2>. QED  BY <2>2, <2>9
<1>3. \A m \in 0..N : m \in S
  <2>1. 0 \in Nat /\ N \in Nat
    OBVIOUS
  <2>. HIDE DEF S
  <2>. QED  BY ONLY <1>1, <1>2, <2>1, Upwards
<1>4. PICK g : Good(g, N)
  BY <1>3
<1>. QED  BY <1>4 DEF Solutions

(* A sequence with an element more.                                        *)
LEMMA AppendIs ==
  ASSUME NEW X, NEW u \in Seq(X), NEW x \in X
  PROVE  /\ Append(u, x) \in Seq(X) /\ Len(Append(u, x)) = Len(u)+1
         /\ \A j \in 1..Len(u) : Append(u, x)[j] = u[j]
         /\ Append(u, x)[Len(u)+1] = x
  OBVIOUS

(* What holds of the empty sequence, and of every sequence with an element *)
(* more, holds of all.                                                     *)
LEMMA SequencesGrow ==
  ASSUME NEW X, NEW S, <<>> \in S,
         \A s \in Seq(X), x \in X : s \in S => Append(s, x) \in S
  PROVE  \A s \in Seq(X) : s \in S
<1>. SUFFICES ASSUME NEW s \in Seq(X) PROVE s \in S
  OBVIOUS
<1>. DEFINE T == {n \in 0..Len(s) : SubSeq(s, 1, n) \in S}
<1>1. Len(s) \in Nat /\ 0 \in Nat
  OBVIOUS
<1>2. 0 \in T
  <2>1. SubSeq(s, 1, 0) = <<>>
    OBVIOUS
  <2>2. SubSeq(s, 1, 0) \in S
    BY <2>1, Zenon
  <2>3. 0 \in 0..Len(s)
    BY <1>1
  <2>. QED  BY <2>2, <2>3
<1>3. ASSUME NEW n \in 0..Len(s) - 1, n \in T PROVE n + 1 \in T
  <2>1. n + 1 \in 1..Len(s) /\ n + 1 \in 0..Len(s) /\ n \in 0..Len(s)
    BY <1>1
  <2>2. SubSeq(s, 1, n) \in Seq(X) /\ s[n + 1] \in X
    BY <2>1
  <2>3. SubSeq(s, 1, n + 1) = Append(SubSeq(s, 1, n), s[n + 1])
    <3>. DEFINE u == SubSeq(s, 1, n)  w == SubSeq(s, 1, n + 1)
    <3>1. /\ u \in Seq(X) /\ Len(u) = n /\ \A i \in 1..n : u[i] = s[i]
          /\ w \in Seq(X) /\ Len(w) = n + 1 /\ \A i \in 1..n + 1 : w[i] = s[i]
      BY <2>1
    <3>. HIDE DEF u, w
    <3>2. /\ Append(u, s[n+1]) \in Seq(X) /\ Len(Append(u, s[n+1])) = n + 1
          /\ \A i \in 1..n : Append(u, s[n+1])[i] = u[i]
          /\ Append(u, s[n+1])[n+1] = s[n+1]
      BY <2>1, <2>2, <3>1
    <3>3. \A i \in 1..n+1 : Append(u, s[n+1])[i] = w[i]
      BY <2>1, <3>1, <3>2
    <3>4. w = Append(u, s[n+1])
      BY <3>1, <3>2, <3>3, SeqEqual
    <3>. QED  BY <3>4 DEF u, w
  <2>. QED  BY <1>3, <2>1, <2>2, <2>3
<1>4. Len(s) \in T
  <2>1. \A n \in 0..Len(s) : n \in T
    <3>. HIDE DEF T
    <3>. QED  BY ONLY <1>1, <1>2, <1>3, Upwards
  <2>. QED  BY <1>1, <2>1
<1>5. SubSeq(s, 1, Len(s)) = s
  OBVIOUS
<1>. QED  BY <1>4, <1>5
===============================================================================
