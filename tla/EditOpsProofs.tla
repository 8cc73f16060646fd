---------------------------- MODULE EditOpsProofs -----------------------------
(***************************************************************************)
(* Theorems about planning a structured edit, for any texts and operations. *)
(*                                                                         *)
(* What the operators of Text and EditOps return is typed first, and placed: *)
(* Concat, SplitLines and Scan are recursive functions, each shown to have a *)
(* solution (Recursion of SequenceLemmas) that follows the sequence element *)
(* by element. EditIInv then says that the two counts of an operation meet, *)
(* kind by kind (CountsMeet), so count_changed never happens.              *)
(*                                                                         *)
(* A plan reads back because writing a text with a line ending and reading it *)
(* follow the text symbol by symbol: ReadsWhatIsWritten is an induction over *)
(* texts, said of the set of texts for which it holds (SequencesGrow).     *)
(*                                                                         *)
(* History adds what each finished operation was carried out on. For a     *)
(* literal the scan sweeps the text (Swept): what it takes occurs, rises and *)
(* covers every place that it passed, so there are as many places apart from *)
(* each other as it found and no more, and Splice keeps the text around one. *)
(***************************************************************************)
EXTENDS EditOps, SequenceLemmas

(* The parts one after the other.                                          *)
LEMMA ConcatGoes ==
  ASSUME NEW X, NEW ps \in Seq(Seq(X))
  PROVE  \E u \in [0..Len(ps) -> Seq(X)] :
           /\ u[0] = <<>> /\ \A n \in 1..Len(ps) : u[n] = u[n-1] \o ps[n]
           /\ Concat(ps) = u[Len(ps)]
<1>. DEFINE N == Len(ps)
            V == Seq(X)
            base == <<>>
            step == [p \in V \X (1..N) |-> p[1] \o ps[p[2]]]
            body(g, n) == IF n = 0 THEN <<>> ELSE g[n-1] \o ps[n]
            Goes(g) == g = [n \in 0..N |-> body(g, n)]
            all == CHOOSE g : Goes(g)
<1>1. N \in Nat /\ \A n \in 1..N : ps[n] \in V
  OBVIOUS
<1>2. base \in V /\ base = <<>>
  OBVIOUS
<1>3. step \in Steps(V, N)
  <2>1. \A v \in V, n \in 1..N : v \o ps[n] \in V
    BY <1>1
  <2>2. \A p \in V \X (1..N) : p[1] \o ps[p[2]] \in V
    <3>. HIDE DEF V, N
    <3>. QED  BY <2>1
  <2>. HIDE DEF V, N
  <2>. QED  BY <2>2 DEF Steps
<1>4. PICK g \in Solutions(V, N, base, step) : TRUE
  <2>. HIDE DEF V, N, base, step
  <2>. QED  BY <1>1, <1>2, <1>3, Recursion
<1>5. g \in [0..N -> V] /\ g[0] = <<>> /\ \A n \in 1..N : g[n] = step[<<g[n-1], n>>]
  BY <1>2, <1>4 DEF Solutions
<1>6. \A n \in 1..N : g[n] = g[n-1] \o ps[n]
  <2>1. \A n \in 1..N : n - 1 \in 0..N
    BY <1>1
  <2>2. \A n \in 1..N : g[n-1] \in V
    BY <1>5, <2>1
  <2>3. \A v \in V, n \in 1..N : step[<<v, n>>] = v \o ps[n]
    <3>. HIDE DEF V, N
    <3>. QED  OBVIOUS
  <2>. HIDE DEF V, N, step
  <2>. QED  BY <1>5, <2>2, <2>3
<1>7. Goes(g)
  <2>1. \A n \in 0..N : n = 0 \/ n \in 1..N
    BY <1>1
  <2>2. \A n \in 0..N : g[n] = body(g, n)
    <3>. HIDE DEF V, N, step
    <3>. QED  BY <1>5, <1>6, <2>1
  <2>. HIDE DEF V, body, N, step
  <2>. QED  BY <1>5, <2>2
<1>8. all = [n \in 0..N |-> body(all, n)]
  <2>. HIDE DEF Goes
  <2>1. Goes(all)
    BY <1>7, Zenon
  <2>. QED  BY <2>1, Zenon DEF Goes
<1>9. Concat(ps) = all[N]
  BY DEF Concat
<1>. HIDE DEF all, Goes
<1>10. \A n \in 0..N : all[n] = body(all, n)
  <2>. HIDE DEF body, N
  <2>. QED  BY <1>8
<1>11. all[0] = <<>> /\ \A n \in 1..N : all[n] = all[n-1] \o ps[n]
  <2>1. 0 \in 0..N /\ \A n \in 1..N : n # 0 /\ n \in 0..N
    BY <1>1
  <2>. HIDE DEF N
  <2>. QED  BY <1>10, <2>1
<1>12. \A n \in 0..N : all[n] = g[n]
  <2>. DEFINE S == {n \in 0..N : all[n] = g[n]}
  <2>1. 0 \in S /\ 0 \in Nat
    BY <1>1, <1>5, <1>11
  <2>2. ASSUME NEW k \in 0..N-1, k \in S PROVE k + 1 \in S
    <3>1. k + 1 \in 1..N /\ k + 1 \in 0..N /\ (k + 1) - 1 = k
      BY <1>1
    <3>. HIDE DEF N
    <3>. QED  BY <1>6, <1>11, <2>2, <3>1
  <2>3. \A n \in 0..N : n \in S
    <3>. HIDE DEF S, N
    <3>. QED  BY ONLY <1>1, <2>1, <2>2, Upwards
  <2>. QED  BY <2>3
<1>13. Concat(ps) = g[N]
  BY <1>1, <1>9, <1>12
<1>. HIDE DEF step
<1>. QED  BY <1>5, <1>6, <1>13

(* Parts over X make a sequence over X.                                    *)
LEMMA ConcatTyped ==
  ASSUME NEW X, NEW ps \in Seq(Seq(X))
  PROVE  Concat(ps) \in Seq(X)
<1>1. Len(ps) \in 0..Len(ps)
  OBVIOUS
<1>2. PICK u \in [0..Len(ps) -> Seq(X)] : Concat(ps) = u[Len(ps)]
  BY ConcatGoes, Zenon
<1>. QED  BY <1>1, <1>2

(* One part more.                                                          *)
LEMMA ConcatGrows ==
  ASSUME NEW X, NEW ps \in Seq(Seq(X)), NEW p \in Seq(X)
  PROVE  Concat(<<>>) = <<>> /\ Concat(Append(ps, p)) = Concat(ps) \o p
<1>1. Concat(<<>>) = <<>>
  <2>. DEFINE e == <<>>
  <2>1. e \in Seq(Seq(X)) /\ Len(e) = 0
    OBVIOUS
  <2>. HIDE DEF e
  <2>2. PICK u \in [0..Len(e) -> Seq(X)] : u[0] = <<>> /\ Concat(e) = u[Len(e)]
    BY <2>1, ConcatGoes, Zenon
  <2>3. Concat(e) = <<>>
    BY <2>1, <2>2
  <2>. QED  BY <2>3 DEF e
<1>. DEFINE N == Len(ps)  qs == Append(ps, p)
<1>n. N \in Nat
  OBVIOUS
<1>2. N \in Nat /\ qs \in Seq(Seq(X)) /\ Len(qs) = N+1 /\ qs[N+1] = p /\ \A n \in 1..N : qs[n] = ps[n]
  OBVIOUS
<1>3. PICK u \in [0..N -> Seq(X)] : u[0] = <<>> /\ (\A n \in 1..N : u[n] = u[n-1] \o ps[n]) /\ Concat(ps) = u[N]
  BY ConcatGoes
<1>4. PICK w \in [0..N+1 -> Seq(X)] : w[0] = <<>> /\ (\A n \in 1..N+1 : w[n] = w[n-1] \o qs[n]) /\ Concat(qs) = w[N+1]
  <2>. HIDE DEF qs, N
  <2>1. \E w \in [0..Len(qs) -> Seq(X)] :
           /\ w[0] = <<>> /\ \A n \in 1..Len(qs) : w[n] = w[n-1] \o qs[n]
           /\ Concat(qs) = w[Len(qs)]
    BY ONLY <1>2, ConcatGoes, Zenon
  <2>. QED  BY <1>2, <2>1, Zenon
<1>. HIDE DEF qs, N
<1>5. \A n \in 0..N : w[n] = u[n]
  <2>. DEFINE S == {n \in 0..N : w[n] = u[n]}
  <2>1. 0 \in S /\ 0 \in Nat
    <3>1. 0 \in 0..N /\ 0 \in Nat
      BY <1>2
    <3>. QED  BY <1>3, <1>4, <3>1, Zenon
  <2>2. ASSUME NEW k \in 0..N-1, k \in S PROVE k + 1 \in S
    <3>1. k + 1 \in 1..N /\ k + 1 \in 1..N+1 /\ k + 1 \in 0..N /\ (k + 1) - 1 = k
      BY <1>n
    <3>2. w[k+1] = w[k] \o qs[k+1] /\ u[k+1] = u[k] \o ps[k+1] /\ w[k] = u[k] /\ qs[k+1] = ps[k+1]
      BY <1>2, <1>3, <1>4, <2>2, <3>1
    <3>. QED  BY <3>1, <3>2
  <2>3. \A n \in 0..N : n \in S
    <3>. HIDE DEF S
    <3>. QED  BY ONLY <1>2, <2>1, <2>2, Upwards
  <2>. QED  BY <2>3
<1>6. Concat(qs) = Concat(ps) \o p
  <2>1. N \in 0..N /\ N+1 \in 1..N+1 /\ (N+1)-1 = N
    BY <1>2
  <2>. QED  BY <1>2, <1>3, <1>4, <1>5, <2>1
<1>. QED  BY <1>1, <1>6 DEF qs
-----------------------------------------------------------------------------
(* The search from the left: the matches so far, with the next.            *)
Take(ms, a, i) == IF a # NoMatch /\ (ms = <<>> \/ ms[Len(ms)].to <= i) THEN Append(ms, a) ELSE ms

(* Scan as a function of how far it has come.                              *)
LEMMA ScanGoes ==
  ASSUME NEW M, NEW at \in Seq(M)
  PROVE  \E u \in [0..Len(at) -> Seq(M \ {NoMatch})] :
           /\ u[0] = <<>> /\ \A n \in 1..Len(at) : u[n] = Take(u[n-1], at[n], n)
           /\ Scan(at) = u[Len(at)]
<1>. DEFINE N == Len(at)
            V == Seq(M \ {NoMatch})
            base == <<>>
            step == [p \in V \X (1..N) |-> Take(p[1], at[p[2]], p[2])]
            body(g, n) == IF n = 0 THEN <<>> ELSE Take(g[n-1], at[n], n)
            Goes(g) == g = [n \in 0..N |-> body(g, n)]
            all == CHOOSE g : Goes(g)
<1>1. N \in Nat /\ \A n \in 1..N : at[n] \in M
  OBVIOUS
<1>2. base \in V /\ base = <<>>
  OBVIOUS
<1>3. step \in Steps(V, N)
  <2>1. \A v \in V, a \in M : a # NoMatch => Append(v, a) \in V
    <3>. HIDE DEF NoMatch
    <3>. QED  OBVIOUS
  <2>2. \A v \in V, n \in 1..N : Take(v, at[n], n) \in V
    <3>. HIDE DEF V, N
    <3>. QED  BY <1>1, <2>1 DEF Take
  <2>3. \A p \in V \X (1..N) : Take(p[1], at[p[2]], p[2]) \in V
    <3>. HIDE DEF V, N
    <3>. QED  BY <2>2
  <2>. HIDE DEF V, N
  <2>. QED  BY <2>3 DEF Steps
<1>4. PICK g \in Solutions(V, N, base, step) : TRUE
  <2>. HIDE DEF V, N, base, step
  <2>. QED  BY <1>1, <1>2, <1>3, Recursion
<1>5. g \in [0..N -> V] /\ g[0] = <<>> /\ \A n \in 1..N : g[n] = step[<<g[n-1], n>>]
  BY <1>2, <1>4 DEF Solutions
<1>6. \A n \in 1..N : g[n] = Take(g[n-1], at[n], n)
  <2>1. \A n \in 1..N : n - 1 \in 0..N
    BY <1>1
  <2>2. \A n \in 1..N : g[n-1] \in V
    BY <1>5, <2>1
  <2>3. \A v \in V, n \in 1..N : step[<<v, n>>] = Take(v, at[n], n)
    <3>. HIDE DEF V, N
    <3>. QED  OBVIOUS
  <2>. HIDE DEF V, N, step
  <2>. QED  BY <1>5, <2>2, <2>3
<1>7. Goes(g)
  <2>1. \A n \in 0..N : n = 0 \/ n \in 1..N
    BY <1>1
  <2>2. \A n \in 0..N : g[n] = body(g, n)
    <3>. HIDE DEF V, N, step
    <3>. QED  BY <1>5, <1>6, <2>1
  <2>. HIDE DEF V, body, N, step
  <2>. QED  BY <1>5, <2>2
<1>8. all = [n \in 0..N |-> body(all, n)]
  <2>. HIDE DEF Goes
  <2>1. Goes(all)
    BY <1>7, Zenon
  <2>. QED  BY <2>1, Zenon DEF Goes
<1>9. Scan(at) = all[N]
  BY DEF Scan, Take
<1>. HIDE DEF all, Goes
<1>10. \A n \in 0..N : all[n] = body(all, n)
  <2>. HIDE DEF body, N
  <2>. QED  BY <1>8
<1>11. all[0] = <<>> /\ \A n \in 1..N : all[n] = Take(all[n-1], at[n], n)
  <2>1. 0 \in 0..N /\ \A n \in 1..N : n # 0 /\ n \in 0..N
    BY <1>1
  <2>. HIDE DEF N
  <2>. QED  BY <1>10, <2>1
<1>12. \A n \in 0..N : all[n] = g[n]
  <2>. DEFINE S == {n \in 0..N : all[n] = g[n]}
  <2>1. 0 \in S /\ 0 \in Nat
    BY <1>1, <1>5, <1>11
  <2>2. ASSUME NEW k \in 0..N-1, k \in S PROVE k + 1 \in S
    <3>1. k + 1 \in 1..N /\ k + 1 \in 0..N /\ (k + 1) - 1 = k
      BY <1>1
    <3>. HIDE DEF N
    <3>. QED  BY <1>6, <1>11, <2>2, <3>1
  <2>3. \A n \in 0..N : n \in S
    <3>. HIDE DEF S, N
    <3>. QED  BY ONLY <1>1, <2>1, <2>2, Upwards
  <2>. QED  BY <2>3
<1>13. Scan(at) = g[N]
  BY <1>1, <1>9, <1>12
<1>. HIDE DEF step
<1>. QED  BY <1>5, <1>6, <1>13

(* What is found are matches.                                              *)
LEMMA ScanTyped ==
  ASSUME NEW M, NEW at \in Seq(M)
  PROVE  Scan(at) \in Seq(M \ {NoMatch})
<1>1. Len(at) \in 0..Len(at)
  OBVIOUS
<1>2. PICK u \in [0..Len(at) -> Seq(M \ {NoMatch})] : Scan(at) = u[Len(at)]
  BY ScanGoes, Zenon
<1>. QED  BY <1>1, <1>2

(* One position more.                                                      *)
LEMMA ScanGrows ==
  ASSUME NEW M, NEW at \in Seq(M), NEW a \in M
  PROVE  Scan(<<>>) = <<>> /\ Scan(Append(at, a)) = Take(Scan(at), a, Len(at)+1)
<1>1. Scan(<<>>) = <<>>
  <2>. DEFINE e == <<>>
  <2>1. e \in Seq(M) /\ Len(e) = 0
    OBVIOUS
  <2>. HIDE DEF e
  <2>2. PICK u \in [0..Len(e) -> Seq(M \ {NoMatch})] : u[0] = <<>> /\ Scan(e) = u[Len(e)]
    BY <2>1, ScanGoes, Zenon
  <2>3. Scan(e) = <<>>
    BY <2>1, <2>2
  <2>. QED  BY <2>3 DEF e
<1>. DEFINE N == Len(at)  bt == Append(at, a)
<1>n. N \in Nat
  OBVIOUS
<1>2. N \in Nat /\ bt \in Seq(M) /\ Len(bt) = N+1 /\ bt[N+1] = a /\ \A n \in 1..N : bt[n] = at[n]
  OBVIOUS
<1>3. PICK u \in [0..N -> Seq(M \ {NoMatch})] :
        u[0] = <<>> /\ (\A n \in 1..N : u[n] = Take(u[n-1], at[n], n)) /\ Scan(at) = u[N]
  BY ScanGoes, Zenon
<1>4. PICK w \in [0..N+1 -> Seq(M \ {NoMatch})] :
        w[0] = <<>> /\ (\A n \in 1..N+1 : w[n] = Take(w[n-1], bt[n], n)) /\ Scan(bt) = w[N+1]
  <2>. HIDE DEF bt, N
  <2>1. \E w \in [0..Len(bt) -> Seq(M \ {NoMatch})] :
           /\ w[0] = <<>> /\ \A n \in 1..Len(bt) : w[n] = Take(w[n-1], bt[n], n)
           /\ Scan(bt) = w[Len(bt)]
    BY ONLY <1>2, ScanGoes, Zenon
  <2>. QED  BY <1>2, <2>1, Zenon
<1>. HIDE DEF bt, N
<1>5. \A n \in 0..N : w[n] = u[n]
  <2>. DEFINE S == {n \in 0..N : w[n] = u[n]}
  <2>1. 0 \in S /\ 0 \in Nat
    <3>1. 0 \in 0..N /\ 0 \in Nat
      BY <1>n
    <3>. QED  BY <1>3, <1>4, <3>1, Zenon
  <2>2. ASSUME NEW k \in 0..N-1, k \in S PROVE k + 1 \in S
    <3>1. k + 1 \in 1..N /\ k + 1 \in 1..N+1 /\ k + 1 \in 0..N /\ (k + 1) - 1 = k
      BY <1>n
    <3>2. /\ w[k+1] = Take(w[k], bt[k+1], k+1) /\ u[k+1] = Take(u[k], at[k+1], k+1)
          /\ w[k] = u[k] /\ bt[k+1] = at[k+1]
      BY <1>2, <1>3, <1>4, <2>2, <3>1
    <3>. QED  BY <3>1, <3>2
  <2>3. \A n \in 0..N : n \in S
    <3>. HIDE DEF S
    <3>. QED  BY ONLY <1>n, <2>1, <2>2, Upwards
  <2>. QED  BY <2>3
<1>6. Scan(bt) = Take(Scan(at), a, N+1)
  <2>1. N \in 0..N /\ N+1 \in 1..N+1 /\ (N+1)-1 = N
    BY <1>n
  <2>. QED  BY <1>2, <1>3, <1>4, <1>5, <2>1
<1>. QED  BY <1>1, <1>6 DEF bt, N
-----------------------------------------------------------------------------
(* Runs of a sequence, of one that begins in the same way, and of a longer *)
(* one.                                                                    *)
Alike(q, r, m) == \A k \in 1..m : r[k] = q[k]

SameRun(q, r, a, b) == SubSeq(r, a, b) = SubSeq(q, a, b)

(* Texts that agree up to m have the same runs up to m.                    *)
LEMMA RunsAreTheSame ==
  ASSUME NEW X, NEW q \in Seq(X), NEW r \in Seq(X), NEW m \in Nat, m <= Len(q), m <= Len(r), Alike(q, r, m),
         NEW a \in Nat \ {0}, NEW b \in Int, b <= m
  PROVE  SameRun(q, r, a, b)
<1>1. \A k \in a..b : k \in 1..Len(q) /\ k \in 1..Len(r) /\ k \in 1..m
  OBVIOUS
<1>2. SubSeq(q, a, b) \in Seq(X) /\ SubSeq(r, a, b) \in Seq(X)
  BY <1>1
<1>3. Len(SubSeq(q, a, b)) = Len(SubSeq(r, a, b))
  OBVIOUS
<1>4. \A j \in 1..Len(SubSeq(q, a, b)) : SubSeq(q, a, b)[j] = q[a + j - 1] /\ SubSeq(r, a, b)[j] = r[a + j - 1]
                                         /\ a + j - 1 \in 1..m
  OBVIOUS
<1>5. \A j \in 1..Len(SubSeq(q, a, b)) : SubSeq(r, a, b)[j] = SubSeq(q, a, b)[j]
  BY <1>4 DEF Alike
<1>6. SubSeq(r, a, b) = SubSeq(q, a, b)
  BY ONLY <1>2, <1>3, <1>5, SeqEqual
<1>. QED  BY <1>6 DEF SameRun

(* A run of a text over X is one.                                          *)
LEMMA RunTyped ==
  ASSUME NEW X, NEW q \in Seq(X), NEW a \in Nat \ {0}, NEW b \in Int, b <= Len(q)
  PROVE  SubSeq(q, a, b) \in Seq(X)
<1>1. \A k \in a..b : k \in 1..Len(q)
  OBVIOUS
<1>. QED  BY <1>1

(* A run to the end of a text that goes on.                                *)
LEMMA RunToTheEnd ==
  ASSUME NEW X, NEW q \in Seq(X), NEW x \in X, NEW h \in 0..Len(q)
  PROVE  SubSeq(Append(q, x), h+1, Len(q)+1) = Append(SubSeq(q, h+1, Len(q)), x)
<1>. DEFINE r == Append(q, x)  n == Len(q)
<1>1. n \in Nat /\ r \in Seq(X) /\ Len(r) = n+1 /\ r[n+1] = x /\ \A k \in 1..n : r[k] = q[k]
  OBVIOUS
<1>3. h \in 0..n
  OBVIOUS
<1>. HIDE DEF r
<1>2. SubSeq(r, h+1, n+1) = Append(SubSeq(q, h+1, n), x)
  <2>. DEFINE u == SubSeq(q, h+1, n)  v == SubSeq(r, h+1, n+1)
  <2>1. /\ u \in Seq(X) /\ Len(u) = n-h /\ \A j \in 1..n-h : u[j] = q[h+j]
    <3>1. \A k \in h+1..n : k \in 1..Len(q)
      BY <1>1, <1>3
    <3>2. u \in Seq(X)
      BY <3>1
    <3>. QED  BY <1>1, <1>3, <3>2
  <2>2. /\ v \in Seq(X) /\ Len(v) = n+1-h /\ \A j \in 1..n+1-h : v[j] = r[h+j]
    <3>. HIDE DEF n
    <3>1. \A k \in h+1..n+1 : k \in 1..Len(r)
      BY <1>1, <1>3
    <3>2. v \in Seq(X)
      BY <1>1, <3>1
    <3>. QED  BY <1>1, <1>3, <3>2
  <2>. HIDE DEF u, v
  <2>3. /\ Append(u, x) \in Seq(X) /\ Len(Append(u, x)) = n+1-h
        /\ \A j \in 1..n-h : Append(u, x)[j] = u[j]
        /\ Append(u, x)[n+1-h] = x
    <3>1. /\ Append(u, x) \in Seq(X) /\ Len(Append(u, x)) = Len(u)+1
          /\ \A j \in 1..Len(u) : Append(u, x)[j] = u[j]
          /\ Append(u, x)[Len(u)+1] = x
      BY ONLY <2>1, x \in X, AppendIs
    <3>2. Len(u)+1 = n+1-h
      BY <1>1, <1>3, <2>1
    <3>. QED  BY <2>1, <3>1, <3>2
  <2>4. \A j \in 1..n+1-h : Append(u, x)[j] = v[j]
    <3>. SUFFICES ASSUME NEW j \in 1..n+1-h PROVE Append(u, x)[j] = v[j]
      OBVIOUS
    <3>1. CASE j = n+1-h
      <4>1. h+j = n+1
        BY <1>1, <1>3, <3>1
      <4>. QED  BY <1>1, <2>2, <2>3, <3>1, <4>1
    <3>2. CASE j # n+1-h
      <4>1. j \in 1..n-h /\ h+j \in 1..n
        BY <1>1, <1>3, <3>2
      <4>. QED  BY <1>1, <2>1, <2>2, <2>3, <4>1
    <3>. QED  BY <3>1, <3>2
  <2>5. v = Append(u, x)
    BY <2>2, <2>3, <2>4, SeqEqual
  <2>. QED  BY <2>5 DEF u, v
<1>. QED  BY <1>2 DEF r

-----------------------------------------------------------------------------
(* Splice: the pieces before and at the matches, and what is left.         *)
EndAfter(ms, k) == IF k = 0 THEN 1 ELSE ms[k].to
Pieces(s, ms, new) == [k \in DOMAIN ms |-> SubSeq(s, EndAfter(ms, k-1), ms[k].from - 1) \o new[k]]
Within(ms, n) == \A k \in DOMAIN ms : ms[k].from \in 1..n+1 /\ ms[k].to \in 1..n+1

(* Splice is its pieces, one after the other, and the rest.                *)
LEMMA SpliceIs ==
  ASSUME NEW s, NEW ms, NEW new
  PROVE  Splice(s, ms, new) = Concat(Pieces(s, ms, new)) \o SubSeq(s, EndAfter(ms, Len(ms)), Len(s))
BY DEF Splice, Pieces, EndAfter

(* Where a match ends is within the text.                                  *)
LEMMA EndsWithin ==
  ASSUME NEW M, NEW ms \in Seq(M), NEW n \in Nat, Within(ms, n)
  PROVE  \A k \in 0..Len(ms) : EndAfter(ms, k) \in 1..n+1
<1>. SUFFICES ASSUME NEW k \in 0..Len(ms) PROVE EndAfter(ms, k) \in 1..n+1
  OBVIOUS
<1>1. CASE k = 0
  BY <1>1 DEF EndAfter
<1>2. CASE k # 0
  <2>1. k \in DOMAIN ms
    BY <1>2
  <2>. QED  BY <1>2, <2>1 DEF EndAfter, Within
<1>. QED  BY <1>1, <1>2

(* The pieces are texts, and so is the rest.                               *)
LEMMA PiecesTyped ==
  ASSUME NEW X, NEW s \in Seq(X), NEW M, NEW ms \in Seq(M), Within(ms, Len(s)),
         NEW new, \A k \in DOMAIN ms : new[k] \in Seq(X)
  PROVE  /\ Pieces(s, ms, new) \in Seq(Seq(X)) /\ Len(Pieces(s, ms, new)) = Len(ms)
         /\ \A k \in 1..Len(ms) : Pieces(s, ms, new)[k] = SubSeq(s, EndAfter(ms, k-1), ms[k].from - 1) \o new[k]
         /\ EndAfter(ms, Len(ms)) \in 1..Len(s)+1
         /\ SubSeq(s, EndAfter(ms, Len(ms)), Len(s)) \in Seq(X)
<1>1. Len(s) \in Nat /\ Len(ms) \in Nat /\ DOMAIN ms = 1..Len(ms)
  OBVIOUS
<1>2. \A k \in 0..Len(ms) : EndAfter(ms, k) \in 1..Len(s)+1
  <2>1. Len(s) \in Nat
    OBVIOUS
  <2>. QED  BY ONLY ms \in Seq(M), <2>1, Within(ms, Len(s)), EndsWithin, Zenon
<1>3. \A k \in 1..Len(ms) : SubSeq(s, EndAfter(ms, k-1), ms[k].from - 1) \o new[k] \in Seq(X)
  <2>. SUFFICES ASSUME NEW k \in 1..Len(ms)
                PROVE  SubSeq(s, EndAfter(ms, k-1), ms[k].from - 1) \o new[k] \in Seq(X)
    OBVIOUS
  <2>1. k-1 \in 0..Len(ms) /\ k \in DOMAIN ms
    BY <1>1
  <2>. DEFINE a == EndAfter(ms, k-1)  b == ms[k].from - 1
  <2>2. a \in Nat \ {0} /\ b \in Int /\ b <= Len(s)
    BY <1>1, <1>2, <2>1 DEF Within
  <2>. HIDE DEF a, b
  <2>3. SubSeq(s, a, b) \in Seq(X)
    BY <2>2, RunTyped
  <2>4. new[k] \in Seq(X)
    BY <2>1
  <2>. QED  BY <2>3, <2>4 DEF a, b
<1>. DEFINE F(k) == SubSeq(s, EndAfter(ms, k-1), ms[k].from - 1) \o new[k]
<1>4. Pieces(s, ms, new) = [k \in 1..Len(ms) |-> F(k)]
  BY <1>1 DEF Pieces
<1>5. \A k \in 1..Len(ms) : F(k) \in Seq(X)
  BY <1>3
<1>. HIDE DEF F
<1>6. Pieces(s, ms, new) \in Seq(Seq(X)) /\ Len(Pieces(s, ms, new)) = Len(ms)
  <2>. DEFINE V == Seq(X)
  <2>. HIDE DEF V
  <2>1. [k \in 1..Len(ms) |-> F(k)] \in Seq(V) /\ Len([k \in 1..Len(ms) |-> F(k)]) = Len(ms)
    BY <1>1, <1>5 DEF V
  <2>. QED  BY <1>4, <2>1 DEF V
<1>7. \A k \in 1..Len(ms) : Pieces(s, ms, new)[k] = F(k)
  BY <1>4
<1>8. EndAfter(ms, Len(ms)) \in 1..Len(s)+1
  BY <1>1, <1>2
<1>9. SubSeq(s, EndAfter(ms, Len(ms)), Len(s)) \in Seq(X)
  <2>1. EndAfter(ms, Len(ms)) \in Nat \ {0} /\ Len(s) \in Int /\ Len(s) <= Len(s)
    BY <1>1, <1>8
  <2>. QED  BY <2>1, RunTyped
<1>. QED  BY <1>6, <1>7, <1>8, <1>9 DEF F

PiecesAre(X, s, ms, new) ==
  /\ Pieces(s, ms, new) \in Seq(Seq(X)) /\ Len(Pieces(s, ms, new)) = Len(ms)
  /\ \A k \in 1..Len(ms) : Pieces(s, ms, new)[k] = SubSeq(s, EndAfter(ms, k-1), ms[k].from - 1) \o new[k]
  /\ EndAfter(ms, Len(ms)) \in 1..Len(s)+1
  /\ SubSeq(s, EndAfter(ms, Len(ms)), Len(s)) \in Seq(X)

(* The same, as one fact.                                                  *)
LEMMA PiecesAreTyped ==
  ASSUME NEW X, NEW s \in Seq(X), NEW M, NEW ms \in Seq(M), Within(ms, Len(s)),
         NEW new, \A k \in DOMAIN ms : new[k] \in Seq(X)
  PROVE  PiecesAre(X, s, ms, new)
BY PiecesTyped DEF PiecesAre

(* What is spliced is a text.                                              *)
LEMMA SpliceTyped ==
  ASSUME NEW X, NEW s \in Seq(X), NEW M, NEW ms \in Seq(M), Within(ms, Len(s)),
         NEW new, \A k \in DOMAIN ms : new[k] \in Seq(X)
  PROVE  Splice(s, ms, new) \in Seq(X)
<1>. DEFINE P == Pieces(s, ms, new)  r == SubSeq(s, EndAfter(ms, Len(ms)), Len(s))
<1>1. P \in Seq(Seq(X)) /\ r \in Seq(X)
  BY PiecesTyped, Zenon
<1>. HIDE DEF P, r
<1>2. Concat(P) \in Seq(X)
  BY <1>1, ConcatTyped, Zenon
<1>3. Splice(s, ms, new) = Concat(P) \o r
  BY SpliceIs, Zenon DEF P, r
<1>. QED  BY <1>1, <1>2, <1>3
(* A text that goes on, without a match.                                   *)
GoesOn(s, c, ms, new) == Splice(Append(s, c), ms, new) = Append(Splice(s, ms, new), c)

(* A symbol that no match covers is kept as it is.                         *)
LEMMA SpliceGoesOn ==
  ASSUME NEW X, NEW s \in Seq(X), NEW c \in X, NEW M, NEW ms \in Seq(M), Within(ms, Len(s)),
         NEW new, \A k \in DOMAIN ms : new[k] \in Seq(X)
  PROVE  GoesOn(s, c, ms, new)
<1>. DEFINE r == Append(s, c)  n == Len(s)  m == Len(ms)
            P == Pieces(s, ms, new)  Q == Pieces(r, ms, new)  e == EndAfter(ms, m)
<1>1. n \in Nat /\ m \in Nat /\ r \in Seq(X) /\ Len(r) = n+1 /\ Alike(s, r, n) /\ DOMAIN ms = 1..m
  BY DEF Alike
<1>2. /\ P \in Seq(Seq(X)) /\ Len(P) = m /\ e \in 1..n+1 /\ SubSeq(s, e, n) \in Seq(X)
  <2>1. /\ Pieces(s, ms, new) \in Seq(Seq(X)) /\ Len(Pieces(s, ms, new)) = Len(ms)
        /\ EndAfter(ms, Len(ms)) \in 1..Len(s)+1
        /\ SubSeq(s, EndAfter(ms, Len(ms)), Len(s)) \in Seq(X)
    <3>1. PiecesAre(X, s, ms, new)
      BY PiecesAreTyped, Zenon
    <3>. QED  BY <3>1 DEF PiecesAre
  <2>. QED  BY <2>1, Zenon
<1>3. Within(ms, n+1)
  BY <1>1 DEF Within
<1>e. \A k \in 0..m : EndAfter(ms, k) \in 1..n+1
  <2>. HIDE DEF m, n
  <2>1. Within(ms, n)
    BY DEF n
  <2>. QED  BY ONLY <1>1, <2>1, ms \in Seq(M), EndsWithin, Zenon DEF m
<1>4. Q = P
  <2>1. \A k \in 1..m : SubSeq(r, EndAfter(ms, k-1), ms[k].from - 1) = SubSeq(s, EndAfter(ms, k-1), ms[k].from - 1)
    <3>. SUFFICES ASSUME NEW k \in 1..m
         PROVE SubSeq(r, EndAfter(ms, k-1), ms[k].from - 1) = SubSeq(s, EndAfter(ms, k-1), ms[k].from - 1)
      OBVIOUS
    <3>. DEFINE a == EndAfter(ms, k-1)  b == ms[k].from - 1
    <3>1. k-1 \in 0..m /\ k \in DOMAIN ms
      BY <1>1
    <3>2. a \in Nat \ {0} /\ b \in Int /\ b <= n /\ n <= Len(s) /\ n <= Len(r)
      BY <1>1, <1>e, <3>1 DEF Within
    <3>. HIDE DEF a, b, r, n
    <3>3. SubSeq(r, a, b) = SubSeq(s, a, b)
      <4>1. SameRun(s, r, a, b)
        BY ONLY s \in Seq(X), <1>1, <3>2, RunsAreTheSame, Zenon
      <4>. QED  BY <4>1 DEF SameRun
    <3>. QED  BY <3>3 DEF a, b
  <2>. HIDE DEF r, n, m
  <2>. QED  BY <1>1, <2>1 DEF Pieces
<1>5. SubSeq(r, e, n+1) = Append(SubSeq(s, e, n), c)
  <2>1. e - 1 \in 0..Len(s) /\ (e-1)+1 = e
    BY <1>1, <1>2
  <2>2. SubSeq(Append(s, c), (e-1)+1, Len(s)+1) = Append(SubSeq(s, (e-1)+1, Len(s)), c)
    BY ONLY <2>1, s \in Seq(X), c \in X, RunToTheEnd, Zenon
  <2>. HIDE DEF e
  <2>. QED  BY <2>1, <2>2
<1>6. Splice(s, ms, new) = Concat(P) \o SubSeq(s, e, n)
  BY SpliceIs, Zenon
<1>7. Splice(r, ms, new) = Concat(P) \o SubSeq(r, e, n+1)
  <2>1. Splice(r, ms, new) = Concat(Q) \o SubSeq(r, EndAfter(ms, Len(ms)), Len(r))
    BY SpliceIs, Zenon
  <2>. HIDE DEF r, P, Q, n
  <2>. QED  BY <1>1, <1>4, <2>1
<1>8. Concat(P) \in Seq(X)
  BY <1>2, ConcatTyped, Zenon
<1>. HIDE DEF P, Q, e, n, r
<1>9. \A u \in Seq(X), w \in Seq(X) : u \o Append(w, c) = Append(u \o w, c)
  OBVIOUS
<1>10. Splice(r, ms, new) = Append(Splice(s, ms, new), c)
  BY <1>2, <1>5, <1>6, <1>7, <1>8, <1>9
<1>. QED  BY <1>10 DEF GoesOn, r

(* A text that goes on with a match up to its new end.                     *)
Meets(s, d, ms, f, new, new2, x) == Splice(s \o d, Append(ms, f), new2) = Splice(s, ms, new) \o x

(* A match at the end writes what is new behind the rest.                  *)
LEMMA SpliceMeets ==
  ASSUME NEW X, NEW s \in Seq(X), NEW d \in Seq(X), NEW M, NEW ms \in Seq(M), Within(ms, Len(s)),
         NEW new, \A k \in DOMAIN ms : new[k] \in Seq(X),
         NEW f \in M, f.from = Len(s) + 1, f.to = Len(s) + Len(d) + 1,
         NEW x \in Seq(X), NEW new2, new2[Len(ms)+1] = x, \A k \in DOMAIN ms : new2[k] = new[k]
  PROVE  Meets(s, d, ms, f, new, new2, x)
<1>. DEFINE r == s \o d  n == Len(s)  m == Len(ms)  ns == Append(ms, f)
            P == Pieces(s, ms, new)  Q == Pieces(r, ns, new2)  e == EndAfter(ms, m)
            p == SubSeq(s, e, n) \o x
<1>1. /\ n \in Nat /\ m \in Nat /\ r \in Seq(X) /\ Len(r) = n+Len(d) /\ n <= Len(r) /\ Alike(s, r, n) /\ DOMAIN ms = 1..m
  BY DEF Alike
<1>m. /\ ns \in Seq(M) /\ Len(ns) = m+1 /\ ns[m+1] = f /\ DOMAIN ns = 1..m+1 /\ \A k \in 1..m : ns[k] = ms[k]
  OBVIOUS
<1>2. /\ P \in Seq(Seq(X)) /\ Len(P) = m /\ e \in 1..n+1 /\ SubSeq(s, e, n) \in Seq(X)
      /\ \A k \in 1..m : P[k] = SubSeq(s, EndAfter(ms, k-1), ms[k].from - 1) \o new[k]
  <2>1. /\ Pieces(s, ms, new) \in Seq(Seq(X)) /\ Len(Pieces(s, ms, new)) = Len(ms)
        /\ EndAfter(ms, Len(ms)) \in 1..Len(s)+1
        /\ SubSeq(s, EndAfter(ms, Len(ms)), Len(s)) \in Seq(X)
        /\ \A k \in 1..Len(ms) : Pieces(s, ms, new)[k] = SubSeq(s, EndAfter(ms, k-1), ms[k].from - 1) \o new[k]
    <3>1. PiecesAre(X, s, ms, new)
      BY PiecesAreTyped, Zenon
    <3>. QED  BY <3>1 DEF PiecesAre
  <2>. QED  BY <2>1, Zenon
<1>e. \A k \in 0..m : EndAfter(ms, k) \in 1..n+1
  <2>. HIDE DEF m, n
  <2>1. Within(ms, n)
    BY DEF n
  <2>. QED  BY ONLY <1>1, <2>1, ms \in Seq(M), EndsWithin, Zenon DEF m
<1>x. \A k \in 0..m : EndAfter(ns, k) = EndAfter(ms, k)
  <2>1. \A k \in 0..m : k = 0 \/ k \in 1..m
    BY <1>1
  <2>. HIDE DEF ns, m
  <2>. QED  BY <1>m, <2>1 DEF EndAfter
<1>3. Len(d) \in Nat /\ f.from - 1 = n /\ Len(r) = f.to - 1
  BY <1>1
<1>p. p \in Seq(X)
  BY <1>2
<1>a. Append(P, p) \in Seq(Seq(X)) /\ Len(Append(P, p)) = m+1 /\ DOMAIN Append(P, p) = 1..m+1
      /\ Append(P, p)[m+1] = p /\ \A k \in 1..m : Append(P, p)[k] = P[k]
  <2>. DEFINE V == Seq(X)
  <2>. HIDE DEF V, P, p, m
  <2>1. P \in Seq(V) /\ p \in V /\ Len(P) = m
    BY <1>2, <1>p DEF V
  <2>2. Append(P, p) \in Seq(V) /\ Len(Append(P, p)) = m+1 /\ DOMAIN Append(P, p) = 1..m+1
      /\ Append(P, p)[m+1] = p /\ \A k \in 1..m : Append(P, p)[k] = P[k]
    BY <2>1
  <2>. QED  BY <2>2 DEF V
<1>4. Q = Append(P, p)
  <2>1. ASSUME NEW k \in 1..m
        PROVE  SubSeq(r, EndAfter(ns, k-1), ns[k].from - 1) \o new2[k] = P[k]
    <3>. DEFINE a == EndAfter(ms, k-1)  b == ms[k].from - 1
    <3>1. k-1 \in 0..m /\ k \in DOMAIN ms
      BY <1>1
    <3>2. a \in Nat \ {0} /\ b \in Int /\ b <= n /\ n <= Len(s) /\ n <= Len(r)
      BY <1>1, <1>e, <3>1 DEF Within
    <3>3. EndAfter(ns, k-1) = a /\ ns[k].from - 1 = b /\ new2[k] = new[k]
      BY <1>m, <1>x, <3>1
    <3>. HIDE DEF a, b, r, n, P, ns
    <3>4. SubSeq(r, a, b) = SubSeq(s, a, b)
      <4>1. SameRun(s, r, a, b)
        BY ONLY s \in Seq(X), <1>1, <3>2, RunsAreTheSame, Zenon
      <4>. QED  BY <4>1 DEF SameRun
    <3>. QED  BY <1>2, <3>3, <3>4 DEF a, b
  <2>2. SubSeq(r, EndAfter(ns, (m+1)-1), ns[m+1].from - 1) \o new2[m+1] = p
    <3>1. (m+1)-1 = m /\ m \in 0..m
      BY <1>1
    <3>2. EndAfter(ns, (m+1)-1) = e /\ ns[m+1].from - 1 = n /\ new2[m+1] = x
      BY <1>m, <1>x, <1>3, <3>1
    <3>3. e \in Nat \ {0} /\ n \in Int /\ n <= n /\ n <= Len(s) /\ n <= Len(r)
      BY <1>1, <1>2
    <3>. HIDE DEF r, n, e, ns, m
    <3>4. SubSeq(r, e, n) = SubSeq(s, e, n)
      <4>1. SameRun(s, r, e, n)
        BY ONLY s \in Seq(X), <1>1, <3>3, RunsAreTheSame, Zenon
      <4>. QED  BY <4>1 DEF SameRun
    <3>. QED  BY <3>2, <3>4
  <2>3. \A k \in 1..m+1 : k \in 1..m \/ k = m+1
    BY <1>1
  <2>. HIDE DEF P, p, r, ns, m
  <2>4. \A k \in 1..m+1 : SubSeq(r, EndAfter(ns, k-1), ns[k].from - 1) \o new2[k] = Append(P, p)[k]
    BY <1>a, <2>1, <2>2, <2>3
  <2>5. Q = [k \in 1..m+1 |-> SubSeq(r, EndAfter(ns, k-1), ns[k].from - 1) \o new2[k]]
    BY <1>m DEF Pieces
  <2>6. Append(P, p) = [k \in 1..m+1 |-> Append(P, p)[k]]
    <3>. DEFINE V == Seq(X)  A == Append(P, p)
    <3>. HIDE DEF V, A
    <3>1. A \in Seq(V) /\ DOMAIN A = 1..m+1
      BY <1>a DEF V, A
    <3>2. A = [k \in 1..m+1 |-> A[k]]
      BY <3>1
    <3>. QED  BY <3>2 DEF A
  <2>. HIDE DEF Q
  <2>. QED  BY <2>4, <2>5, <2>6
<1>5. Concat(Append(P, p)) = Concat(P) \o p /\ Concat(P) \in Seq(X)
  <2>. HIDE DEF P, p
  <2>. QED  BY <1>2, <1>p, ConcatGrows, ConcatTyped, Zenon
<1>6. Splice(s, ms, new) = Concat(P) \o SubSeq(s, e, n)
  BY SpliceIs, Zenon
<1>7. Splice(r, ns, new2) = Concat(Q) \o SubSeq(r, f.to, Len(r))
  <2>1. Splice(r, ns, new2) = Concat(Q) \o SubSeq(r, EndAfter(ns, Len(ns)), Len(r))
    BY SpliceIs, Zenon
  <2>2. EndAfter(ns, Len(ns)) = f.to
    <3>1. m+1 # 0
      BY <1>1
    <3>. HIDE DEF ns, m
    <3>. QED  BY <1>m, <3>1 DEF EndAfter
  <2>. HIDE DEF r, Q, ns
  <2>. QED  BY <2>1, <2>2
<1>8. SubSeq(r, f.to, Len(r)) = <<>>
  <2>1. f.to \in Int /\ f.to > Len(r)
    BY <1>1, <1>3
  <2>. HIDE DEF r
  <2>. QED  BY <1>1, <2>1
<1>. HIDE DEF P, Q, e, n, r, ns
<1>9. \A u \in Seq(X), w \in Seq(X) : u \o (w \o x) = (u \o w) \o x
  <2>. SUFFICES ASSUME NEW u \in Seq(X), NEW w \in Seq(X) PROVE u \o (w \o x) = (u \o w) \o x
    OBVIOUS
  <2>1. x \in Seq(X)
    OBVIOUS
  <2>2. (u \o w) \o x = u \o (w \o x)
    BY ONLY <2>1, u \in Seq(X), w \in Seq(X), ConcatAssociative, SMT
  <2>. QED  BY <2>2
<1>10. \A u \in Seq(X) : u \o <<>> = u
  OBVIOUS
<1>11. Concat(P) \o p \in Seq(X)
  BY <1>5, <1>p
<1>12. Splice(r, ns, new2) = Concat(P) \o p
  BY <1>4, <1>5, <1>7, <1>8, <1>10, <1>11
<1>13. Splice(r, ns, new2) = Splice(s, ms, new) \o x
  BY <1>2, <1>5, <1>6, <1>9, <1>12
<1>. QED  BY <1>13 DEF Meets, r, ns


-----------------------------------------------------------------------------
(* Lines.                                                                  *)
LineSeqs(X) == Seq(Seq(X)) \ {<<>>}
WithSymbol(ls, c) == IF c = NL THEN Append(ls, <<>>) ELSE [ls EXCEPT ![Len(ls)] = Append(@, c)]

(* One more symbol: a line begins, or the last one grows.                  *)
LEMMA WithSymbolTyped ==
  ASSUME NEW X, NEW ls \in LineSeqs(X), NEW c \in X
  PROVE  WithSymbol(ls, c) \in LineSeqs(X)
<1>. DEFINE V == Seq(X)
<1>1. <<>> \in V /\ \A l \in V : Append(l, c) \in V
  OBVIOUS
<1>2. ls \in Seq(V) /\ ls # <<>>
  BY DEF LineSeqs
<1>. SUFFICES WithSymbol(ls, c) \in Seq(V) /\ WithSymbol(ls, c) # <<>>
  BY DEF LineSeqs
<1>. HIDE DEF V
<1>3. CASE c = NL
  BY <1>1, <1>2, <1>3 DEF WithSymbol
<1>4. CASE c # NL
  <2>1. Len(ls) \in 1..Len(ls) /\ ls[Len(ls)] \in V
    BY <1>2
  <2>2. Append(ls[Len(ls)], c) \in V
    BY <1>1, <2>1
  <2>3. [ls EXCEPT ![Len(ls)] = Append(@, c)] \in Seq(V) /\ Len([ls EXCEPT ![Len(ls)] = Append(@, c)]) = Len(ls)
    BY <1>2, <2>1, <2>2
  <2>4. Len(<<>>) = 0 /\ Len(ls) # 0
    BY <2>1
  <2>. QED  BY <1>4, <2>3, <2>4 DEF WithSymbol
<1>. QED  BY <1>3, <1>4

(* The lines of a text: there is always one.                               *)
LEMMA SplitTyped ==
  ASSUME NEW X, NEW s \in Seq(X)
  PROVE  SplitLines(s) \in LineSeqs(X)
<1>. DEFINE N == Len(s)
            V == LineSeqs(X)
            base == <<<<>>>>
            step == [p \in V \X (1..N) |-> WithSymbol(p[1], s[p[2]])]
            body(g, n) == IF n = 0 THEN <<<<>>>> ELSE WithSymbol(g[n-1], s[n])
            Goes(g) == g = [n \in 0..N |-> body(g, n)]
            all == CHOOSE g : Goes(g)
<1>1. N \in Nat /\ \A n \in 1..N : s[n] \in X
  OBVIOUS
<1>2. base \in V
  <2>. DEFINE W == Seq(X)  e == <<>>
  <2>1. e \in W
    OBVIOUS
  <2>. HIDE DEF W, e
  <2>2. <<e>> \in Seq(W) /\ Len(<<e>>) = 1 /\ Len(<<>>) = 0
    BY <2>1
  <2>3. <<e>> # <<>>
    BY <2>2
  <2>. QED  BY <2>2, <2>3 DEF LineSeqs, W, e
<1>3. step \in Steps(V, N)
  <2>1. \A v \in V, n \in 1..N : WithSymbol(v, s[n]) \in V
    <3>. HIDE DEF N
    <3>. QED  BY <1>1, WithSymbolTyped
  <2>2. \A p \in V \X (1..N) : WithSymbol(p[1], s[p[2]]) \in V
    <3>. HIDE DEF V, N
    <3>. QED  BY <2>1
  <2>. HIDE DEF V, N
  <2>. QED  BY <2>2 DEF Steps
<1>4. PICK g \in Solutions(V, N, base, step) : TRUE
  <2>. HIDE DEF V, N, base, step
  <2>. QED  BY <1>1, <1>2, <1>3, Recursion
<1>5. g \in [0..N -> V] /\ g[0] = base /\ \A n \in 1..N : g[n] = step[<<g[n-1], n>>]
  <2>. HIDE DEF V, N, base, step
  <2>. QED  BY <1>4 DEF Solutions
<1>6. \A n \in 1..N : g[n] = WithSymbol(g[n-1], s[n])
  <2>1. \A n \in 1..N : n - 1 \in 0..N
    BY <1>1
  <2>. HIDE DEF V, N
  <2>2. \A n \in 1..N : g[n-1] \in V
    BY <1>5, <2>1
  <2>3. \A v \in V, n \in 1..N : step[<<v, n>>] = WithSymbol(v, s[n])
    OBVIOUS
  <2>. HIDE DEF step
  <2>. QED  BY <1>5, <2>2, <2>3
<1>7. Goes(g)
  <2>1. \A n \in 0..N : n = 0 \/ n \in 1..N
    BY <1>1
  <2>2. \A n \in 0..N : g[n] = body(g, n)
    <3>. HIDE DEF V, N, step
    <3>. QED  BY <1>5, <1>6, <2>1
  <2>. HIDE DEF V, body, N, step
  <2>. QED  BY <1>5, <2>2
<1>8. all = [n \in 0..N |-> body(all, n)]
  <2>. HIDE DEF Goes
  <2>1. Goes(all)
    BY <1>7, Zenon
  <2>. QED  BY <2>1, Zenon DEF Goes
<1>9. SplitLines(s) = all[N]
  BY Zenon DEF SplitLines, WithSymbol
<1>. HIDE DEF all, Goes
<1>10. \A n \in 0..N : all[n] = body(all, n)
  <2>. HIDE DEF body, N
  <2>. QED  BY <1>8
<1>11. all[0] = base /\ \A n \in 1..N : all[n] = WithSymbol(all[n-1], s[n])
  <2>1. 0 \in 0..N /\ \A n \in 1..N : n # 0 /\ n \in 0..N
    BY <1>1
  <2>. HIDE DEF N
  <2>. QED  BY <1>10, <2>1
<1>. HIDE DEF base, V
<1>12. \A n \in 0..N : all[n] \in V
  <2>. DEFINE S == {n \in 0..N : all[n] \in V}
  <2>1. 0 \in S /\ 0 \in Nat
    BY <1>1, <1>2, <1>11
  <2>2. ASSUME NEW k \in 0..N-1, k \in S PROVE k + 1 \in S
    <3>1. k + 1 \in 1..N /\ k + 1 \in 0..N /\ (k + 1) - 1 = k
      BY <1>1
    <3>. HIDE DEF N
    <3>2. all[k] \in V /\ s[k+1] \in X
      BY <1>1, <2>2, <3>1
    <3>3. WithSymbol(all[k], s[k+1]) \in V
      BY <3>2, WithSymbolTyped, Zenon DEF V
    <3>. QED  BY <1>11, <3>1, <3>3
  <2>3. \A n \in 0..N : n \in S
    <3>. HIDE DEF S, N
    <3>. QED  BY ONLY <1>1, <2>1, <2>2, Upwards
  <2>. QED  BY <2>3
<1>. QED  BY <1>1, <1>9, <1>12 DEF V

(* Lines over X, joined by newlines, are a text over X.                    *)
LEMMA JoinTyped ==
  ASSUME NEW X, NL \in X, NEW ls \in Seq(Seq(X))
  PROVE  JoinLines(ls) \in Seq(X)
<1>. DEFINE V == Seq(X)  part(i) == IF i = 1 THEN ls[1] ELSE <<NL>> \o ls[i]
            qs == [i \in DOMAIN ls |-> part(i)]
<1>1. <<NL>> \in V
  <2>. DEFINE c == NL
  <2>1. c \in X
    OBVIOUS
  <2>. HIDE DEF c
  <2>2. <<c>> \in V
    BY <2>1
  <2>. QED  BY <2>2 DEF c
<1>2. \A u, w \in V : u \o w \in V
  OBVIOUS
<1>3. Len(ls) \in Nat /\ ls \in Seq(V)
  OBVIOUS
<1>. HIDE DEF V
<1>4. \A i \in 1..Len(ls) : ls[i] \in V /\ 1 \in 1..Len(ls)
  BY <1>3
<1>5. \A i \in 1..Len(ls) : part(i) \in V
  BY <1>1, <1>2, <1>4
<1>. HIDE DEF part
<1>6. qs \in Seq(V)
  <2>1. DOMAIN ls = 1..Len(ls)
    BY <1>3
  <2>. QED  BY <1>3, <1>5, <2>1
<1>. HIDE DEF qs
<1>7. Concat(qs) \in V
  BY <1>6, ConcatTyped, Zenon DEF V
<1>8. JoinLines(ls) = Concat(qs)
  BY Zenon DEF JoinLines, qs, part
<1>. QED  BY <1>7, <1>8 DEF V

(* The first and the last of some places in a sequence.                    *)
LEMMA PlacesHaveEnds ==
  ASSUME NEW n \in Nat, NEW S \in SUBSET (1..n), S # {}
  PROVE  /\ Min(S) \in S /\ Max(S) \in S /\ \A k \in S : Min(S) <= k /\ k <= Max(S)
         /\ Min(S) \in 1..n /\ Max(S) \in 1..n
<1>1. Min(S) \in S /\ \A k \in S : Min(S) <= k
  <2>1. S \in SUBSET Nat
    OBVIOUS
  <2>. QED  BY ONLY <2>1, S # {}, LeastIsMin
<1>2. Max(S) \in S /\ \A k \in S : k <= Max(S)
  <2>1. S \in SUBSET (0..n)
    OBVIOUS
  <2>. QED  BY ONLY <2>1, S # {}, n \in Nat, GreatestNatural
<1>. QED  BY <1>1, <1>2

(* A trimmed text is a text.                                               *)
LEMMA TrimTyped ==
  ASSUME NEW X, NEW s \in Seq(X)
  PROVE  TrimSpace(s) \in Seq(X)
<1>1. Len(s) \in Nat /\ Solid(s) \in SUBSET (1..Len(s))
  BY DEF Solid
<1>2. CASE Solid(s) = {}
  BY <1>2 DEF TrimSpace
<1>3. CASE Solid(s) # {}
  <2>1. Min(Solid(s)) \in 1..Len(s) /\ Max(Solid(s)) \in 1..Len(s)
    BY ONLY <1>1, <1>3, PlacesHaveEnds, Zenon
  <2>2. Min(Solid(s)) \in Nat \ {0} /\ Max(Solid(s)) \in Int /\ Max(Solid(s)) <= Len(s)
    BY <1>1, <2>1
  <2>3. SubSeq(s, Min(Solid(s)), Max(Solid(s))) \in Seq(X)
    BY ONLY s \in Seq(X), <2>2, RunTyped, Zenon
  <2>. QED  BY <1>3, <2>3 DEF TrimSpace
<1>. QED  BY <1>2, <1>3

(* Replacing symbols keeps the length.                                     *)
LEMMA ReplacedTyped ==
  ASSUME NEW X, NEW s \in Seq(X), NEW a, NEW b \in X
  PROVE  ReplaceAll(s, a, b) \in Seq(X) /\ Len(ReplaceAll(s, a, b)) = Len(s)
BY DEF ReplaceAll

-----------------------------------------------------------------------------
(* What a search finds lies within the text.                               *)
Fits(a, n) == a = NoMatch \/ (a.from \in 1..n+1 /\ a.to \in 1..n+1)

(* A scan over matches within the text finds matches within it.            *)
LEMMA FoundWithin ==
  ASSUME NEW n \in Nat, NEW M, NEW at \in Seq(M), \A a \in M : Fits(a, n)
  PROVE  Within(Scan(at), n)
<1>1. Scan(at) \in Seq(M \ {NoMatch})
  BY ScanTyped, Zenon
<1>2. \A a \in M \ {NoMatch} : a.from \in 1..n+1 /\ a.to \in 1..n+1
  <2>. HIDE DEF NoMatch
  <2>. QED  BY DEF Fits
<1>3. \A k \in DOMAIN Scan(at) : Scan(at)[k] \in M \ {NoMatch}
  <2>. DEFINE K == M \ {NoMatch}  ms == Scan(at)
  <2>1. ms \in Seq(K)
    BY <1>1
  <2>. HIDE DEF K, ms
  <2>2. \A k \in DOMAIN ms : ms[k] \in K
    BY <2>1
  <2>. QED  BY <2>2 DEF K, ms
<1>. HIDE DEF NoMatch
<1>. QED  BY <1>2, <1>3 DEF Within

(* So does the search for a text.                                          *)
LEMMA OccurrencesTyped ==
  ASSUME NEW X, NEW s \in Seq(X), NEW Y, NEW find \in Seq(Y)
  PROVE  \E M : Occurrences(s, find) \in Seq(M) /\ Within(Occurrences(s, find), Len(s))
<1>. DEFINE a(i) == IF OccursAt(s, find, i) THEN [from |-> i, to |-> i + Len(find)] ELSE NoMatch
            at == [i \in DOMAIN s |-> a(i)]
            M == {a(i) : i \in DOMAIN s}
<1>1. Len(s) \in Nat /\ DOMAIN s = 1..Len(s) /\ Len(find) \in Nat
  OBVIOUS
<1>2. at \in Seq(M)
  <2>. HIDE DEF a
  <2>. QED  BY <1>1
<1>3. \A m \in M : Fits(m, Len(s))
  <2>. SUFFICES ASSUME NEW i \in 1..Len(s) PROVE Fits(a(i), Len(s))
    BY <1>1
  <2>1. CASE OccursAt(s, find, i)
    <3>1. i \in 1..Len(s)+1 /\ i + Len(find) \in 1..Len(s)+1
      BY <1>1, <2>1 DEF OccursAt
    <3>. QED  BY <2>1, <3>1 DEF Fits
  <2>2. CASE ~OccursAt(s, find, i)
    BY <2>2 DEF Fits
  <2>. QED  BY <2>1, <2>2
<1>4. Occurrences(s, find) = Scan(at)
  BY Zenon DEF Occurrences
<1>. HIDE DEF at, M
<1>5. Within(Scan(at), Len(s))
  BY ONLY <1>1, <1>2, <1>3, FoundWithin, Zenon
<1>6. Scan(at) \in Seq(M \ {NoMatch})
  BY <1>2, ScanTyped, Zenon
<1>. QED  BY <1>4, <1>5, <1>6, Zenon

(* Replacing texts gives a text.                                           *)
LEMMA ReplaceTyped ==
  ASSUME NEW X, NEW s \in Seq(X), NEW Y, NEW find \in Seq(Y), NEW new \in Seq(X)
  PROVE  ReplaceText(s, find, new) \in Seq(X)
<1>. DEFINE ms == Occurrences(s, find)  ns == [k \in DOMAIN ms |-> new]
<1>1. PICK M : ms \in Seq(M) /\ Within(ms, Len(s))
  BY OccurrencesTyped, Zenon
<1>2. \A k \in DOMAIN ms : ns[k] \in Seq(X)
  <2>. HIDE DEF ms
  <2>. QED  OBVIOUS
<1>3. ReplaceText(s, find, new) = Splice(s, ms, ns)
  BY Zenon DEF ReplaceText
<1>. HIDE DEF ms, ns
<1>4. Splice(s, ms, ns) \in Seq(X)
  BY ONLY s \in Seq(X), <1>1, <1>2, SpliceTyped, Zenon
<1>. QED  BY <1>3, <1>4

(* A text of one symbol.                                                   *)
LEMMA Single ==
  ASSUME NEW X, NEW c \in X
  PROVE  <<c>> \in Seq(X)
OBVIOUS
-----------------------------------------------------------------------------
(* Blocks.                                                                 *)
LEMMA SqueezeTyped ==
  ASSUME NEW X, Blank \in X, NEW s \in Seq(X)
  PROVE  Squeeze(s) \in Seq(X)
<1>. DEFINE V == Seq(X)
            part(i) == IF s[i] \notin Space THEN <<s[i]>>
                       ELSE IF i = 1 \/ s[i-1] \notin Space THEN <<Blank>> ELSE <<>>
            qs == [i \in DOMAIN s |-> part(i)]
<1>1. Len(s) \in Nat /\ DOMAIN s = 1..Len(s) /\ \A i \in 1..Len(s) : s[i] \in X
  OBVIOUS
<1>2. <<Blank>> \in V /\ <<>> \in V /\ \A c \in X : <<c>> \in V
  <2>. DEFINE c == Blank  e == <<>>
  <2>1. c \in X
    OBVIOUS
  <2>2. e \in V
    OBVIOUS
  <2>. HIDE DEF c, e
  <2>3. <<c>> \in V
    BY <2>1
  <2>4. \A x \in X : <<x>> \in V
    OBVIOUS
  <2>. QED  BY <2>2, <2>3, <2>4 DEF c, e
<1>. HIDE DEF V
<1>3. \A i \in 1..Len(s) : part(i) \in V
  BY <1>1, <1>2
<1>. HIDE DEF part
<1>4. qs \in Seq(V)
  BY <1>1, <1>3
<1>. HIDE DEF qs
<1>5. Concat(qs) \in V
  BY <1>4, ConcatTyped, Zenon DEF V
<1>6. Squeeze(s) = Concat(qs)
  BY Zenon DEF Squeeze, qs, part
<1>. QED  BY <1>5, <1>6 DEF V

(* A pattern is a text.                                                    *)
LEMMA PatternTyped ==
  ASSUME NEW X, Blank \in X, NEW s \in Seq(X)
  PROVE  buildFlexPattern(s) \in Seq(X)
<1>1. Squeeze(s) \in Seq(X)
  BY SqueezeTyped, Zenon
<1>2. \A p \in Seq(X) : p # <<>> => Front(p) \in Seq(X)
  BY DEF Front
<1>. QED  BY <1>1, <1>2 DEF buildFlexPattern

(* One symbol of a pattern, from a place in the text.                      *)
StepTo(s, at, c) ==
  CASE at \notin DOMAIN s -> 0
    [] c = Blank /\ at \in DOMAIN s /\ s[at] \in White ->
         Min({j \in at..Len(s)+1 : j = Len(s)+1 \/ s[j] \notin White})
    [] c # Blank /\ at \in DOMAIN s /\ s[at] = c -> at + 1
    [] OTHER -> 0

(* A step of the pattern stays in the text, or is none.                    *)
LEMMA StepToTyped ==
  ASSUME NEW X, NEW s \in Seq(X), NEW at \in 0..Len(s)+1, NEW c
  PROVE  StepTo(s, at, c) \in 0..Len(s)+1
<1>. DEFINE J == {j \in at..Len(s)+1 : j = Len(s)+1 \/ s[j] \notin White}  V == 0..Len(s)+1
<1>1. Len(s) \in Nat /\ DOMAIN s = 1..Len(s)
  OBVIOUS
<1>2. at \in DOMAIN s => Min(J) \in V
  <2>. SUFFICES ASSUME at \in DOMAIN s PROVE Min(J) \in V
    OBVIOUS
  <2>1. J \in SUBSET (1..Len(s)+1) /\ Len(s)+1 \in J /\ Len(s)+1 \in Nat
    BY <1>1
  <2>2. J # {}
    BY <2>1
  <2>. HIDE DEF J
  <2>3. Min(J) \in 1..Len(s)+1
    BY ONLY <2>1, <2>2, PlacesHaveEnds
  <2>. QED  BY <2>3
<1>3. at \in DOMAIN s => at + 1 \in V
  BY <1>1
<1>4. 0 \in V
  BY <1>1
<1>. HIDE DEF V
<1>5. CASE at \notin DOMAIN s
  <2>1. StepTo(s, at, c) = 0
    BY <1>5, Zenon DEF StepTo
  <2>. QED  BY <1>4, <2>1 DEF V
<1>6. CASE at \in DOMAIN s /\ c = Blank /\ s[at] \in White
  <2>1. StepTo(s, at, c) = Min(J)
    BY <1>6, Zenon DEF StepTo
  <2>. QED  BY <1>2, <1>6, <2>1 DEF V
<1>7. CASE at \in DOMAIN s /\ c # Blank /\ s[at] = c
  <2>1. StepTo(s, at, c) = at + 1
    BY <1>7, Zenon DEF StepTo
  <2>. QED  BY <1>3, <1>7, <2>1 DEF V
<1>8. CASE at \in DOMAIN s /\ ~(c = Blank /\ s[at] \in White) /\ ~(c # Blank /\ s[at] = c)
  <2>1. StepTo(s, at, c) = 0
    BY <1>8, Zenon DEF StepTo
  <2>. QED  BY <1>4, <2>1 DEF V
<1>. QED  BY <1>5, <1>6, <1>7, <1>8, Zenon

(* A match of a pattern ends within the text.                              *)
LEMMA BodyEndTyped ==
  ASSUME NEW X, NEW s \in Seq(X), NEW i \in 0..Len(s)+1, NEW Y, NEW pattern \in Seq(Y)
  PROVE  BodyEnd(s, i, pattern) \in 0..Len(s)+1
<1>. DEFINE N == Len(pattern)
            V == 0..Len(s)+1
            step == [p \in V \X (1..N) |-> StepTo(s, p[1], pattern[p[2]])]
            body(g, n) == IF n = 0 THEN i ELSE StepTo(s, g[n-1], pattern[n])
            Goes(g) == g = [n \in 0..N |-> body(g, n)]
            all == CHOOSE g : Goes(g)
<1>1. N \in Nat /\ Len(s) \in Nat
  OBVIOUS
<1>2. i \in V
  OBVIOUS
<1>3. step \in Steps(V, N)
  <2>1. \A v \in V, n \in 1..N : StepTo(s, v, pattern[n]) \in V
    <3>. HIDE DEF N
    <3>. QED  BY StepToTyped
  <2>2. \A p \in V \X (1..N) : StepTo(s, p[1], pattern[p[2]]) \in V
    <3>. HIDE DEF V, N
    <3>. QED  BY <2>1
  <2>. HIDE DEF V, N
  <2>. QED  BY <2>2 DEF Steps
<1>. HIDE DEF V
<1>4. PICK g \in Solutions(V, N, i, step) : TRUE
  <2>. HIDE DEF V, N, step
  <2>. QED  BY <1>1, <1>2, <1>3, Recursion
<1>5. g \in [0..N -> V] /\ g[0] = i /\ \A n \in 1..N : g[n] = step[<<g[n-1], n>>]
  <2>. HIDE DEF V, N, step
  <2>. QED  BY <1>4 DEF Solutions
<1>6. \A n \in 1..N : g[n] = StepTo(s, g[n-1], pattern[n])
  <2>1. \A n \in 1..N : n - 1 \in 0..N
    BY <1>1
  <2>. HIDE DEF V, N
  <2>2. \A n \in 1..N : g[n-1] \in V
    BY <1>5, <2>1
  <2>3. \A v \in V, n \in 1..N : step[<<v, n>>] = StepTo(s, v, pattern[n])
    OBVIOUS
  <2>. HIDE DEF step
  <2>. QED  BY <1>5, <2>2, <2>3
<1>7. Goes(g)
  <2>1. \A n \in 0..N : n = 0 \/ n \in 1..N
    BY <1>1
  <2>2. \A n \in 0..N : g[n] = body(g, n)
    <3>. HIDE DEF V, N, step
    <3>. QED  BY <1>5, <1>6, <2>1
  <2>. HIDE DEF V, body, N, step
  <2>. QED  BY <1>5, <2>2
<1>8. all = [n \in 0..N |-> body(all, n)]
  <2>. HIDE DEF Goes
  <2>1. Goes(all)
    BY <1>7, Zenon
  <2>. QED  BY <2>1, Zenon DEF Goes
<1>9. BodyEnd(s, i, pattern) = all[N]
  BY Zenon DEF BodyEnd, StepTo
<1>. HIDE DEF all, Goes
<1>10. \A n \in 0..N : all[n] = body(all, n)
  <2>. HIDE DEF body, N
  <2>. QED  BY <1>8
<1>11. all[0] = i /\ \A n \in 1..N : all[n] = StepTo(s, all[n-1], pattern[n])
  <2>1. 0 \in 0..N /\ \A n \in 1..N : n # 0 /\ n \in 0..N
    BY <1>1
  <2>. HIDE DEF N
  <2>. QED  BY <1>10, <2>1
<1>12. \A n \in 0..N : all[n] \in V
  <2>. DEFINE S == {n \in 0..N : all[n] \in V}
  <2>1. 0 \in S /\ 0 \in Nat
    BY <1>1, <1>2, <1>11
  <2>2. ASSUME NEW k \in 0..N-1, k \in S PROVE k + 1 \in S
    <3>1. k + 1 \in 1..N /\ k + 1 \in 0..N /\ (k + 1) - 1 = k
      BY <1>1
    <3>. HIDE DEF N
    <3>2. all[k] \in 0..Len(s)+1
      BY <2>2, <3>1 DEF V
    <3>3. StepTo(s, all[k], pattern[k+1]) \in 0..Len(s)+1
      BY <3>2, StepToTyped, Zenon
    <3>. QED  BY <1>11, <3>1, <3>3 DEF V
  <2>3. \A n \in 0..N : n \in S
    <3>. HIDE DEF S, N
    <3>. QED  BY ONLY <1>1, <2>1, <2>2, Upwards
  <2>. QED  BY <2>3
<1>. QED  BY <1>1, <1>9, <1>12 DEF V

BlockMatch(n) == [from : 1..n+1, line : 1..n+1, body : 1..n+1, to : 1..n+1]

(* A block match lies within the text.                                     *)
LEMMA BlockAtTyped ==
  ASSUME NEW X, NEW s \in Seq(X), NEW i \in 1..Len(s), NEW Y, NEW pattern \in Seq(Y)
  PROVE  BlockAt(s, i, pattern) \in BlockMatch(Len(s)) \cup {NoMatch}
<1>. DEFINE first == (IF i = 1 THEN {i} ELSE {}) \cup (IF s[i] = NL THEN {i+1} ELSE {})
            bodies(q) == {b \in q..Len(s) : /\ \A j \in q..b-1 : s[j] = Blank
                                            /\ BodyEnd(s, b, pattern) # 0}
            fits == {q \in first : bodies(q) # {}}
            line == Min(fits)
            body == Max(bodies(line))
            m == [from |-> i, line |-> line, body |-> body, to |-> BodyEnd(s, body, pattern)]
<1>1. Len(s) \in Nat /\ Len(s)+1 \in Nat
  OBVIOUS
<1>2. BlockAt(s, i, pattern) = IF fits = {} THEN NoMatch ELSE m
  BY Zenon DEF BlockAt
<1>3. CASE fits = {}
  BY <1>2, <1>3
<1>4. CASE fits # {}
  <2>1. fits \in SUBSET (1..Len(s)+1)
    BY <1>1
  <2>2. line \in fits /\ line \in 1..Len(s)+1
    <3>. HIDE DEF fits
    <3>. QED  BY ONLY <1>1, <1>4, <2>1, PlacesHaveEnds DEF line
  <2>3. bodies(line) # {}
    <3>. HIDE DEF line, bodies, first
    <3>. QED  BY <2>2
  <2>. HIDE DEF line, fits
  <2>4. bodies(line) \in SUBSET (1..Len(s))
    BY <2>2
  <2>5. body \in bodies(line) /\ body \in 1..Len(s)
    <3>. HIDE DEF bodies
    <3>. QED  BY ONLY <1>1, <2>3, <2>4, PlacesHaveEnds DEF body
  <2>6. BodyEnd(s, body, pattern) # 0
    <3>. HIDE DEF body
    <3>. QED  BY <2>5
  <2>. HIDE DEF body, bodies
  <2>7. body \in 0..Len(s)+1
    BY <1>1, <2>5
  <2>8. BodyEnd(s, body, pattern) \in 0..Len(s)+1
    BY <2>7, BodyEndTyped, Zenon
  <2>9. BodyEnd(s, body, pattern) \in 1..Len(s)+1
    BY <1>1, <2>6, <2>8
  <2>10. m \in BlockMatch(Len(s))
    BY <1>1, <2>2, <2>5, <2>9 DEF BlockMatch
  <2>. HIDE DEF m
  <2>. QED  BY <1>2, <1>4, <2>10
<1>. QED  BY <1>3, <1>4

(* The lines of a block without the indentation they share.                *)
LEMMA IndentTyped ==
  ASSUME NEW X, NEW l \in Seq(X)
  PROVE  Indent(l) \in Nat
<1>1. Len(l) \in Nat /\ DOMAIN l = 1..Len(l)
  OBVIOUS
<1>2. CASE \A c \in ToSet(l) : c = Blank
  BY <1>1, <1>2 DEF Indent
<1>3. CASE ~\A c \in ToSet(l) : c = Blank
  <2>. DEFINE S == {i \in DOMAIN l : l[i] # Blank}
  <2>1. S # {} /\ S \in SUBSET (1..Len(l))
    BY <1>1, <1>3 DEF ToSet
  <2>. HIDE DEF S
  <2>2. Min(S) \in 1..Len(l)
    BY ONLY <1>1, <2>1, PlacesHaveEnds
  <2>3. Indent(l) = Min(S) - 1
    BY <1>3, Zenon DEF Indent, S
  <2>. QED  BY <1>1, <2>2, <2>3
<1>. QED  BY <1>2, <1>3

(* A block without its common indentation is a text.                       *)
LEMMA DedentTyped ==
  ASSUME NEW X, NL \in X, NEW s \in Seq(X)
  PROVE  dedent(s) \in Seq(X)
<1>. DEFINE V == Seq(X)
            ls == SplitLines(s)
            full == {i \in DOMAIN ls : Solid(ls[i]) # {}}
            shared == Min({Indent(ls[i]) : i \in full})
            cut(l) == IF Solid(l) = {} THEN <<>> ELSE SubSeq(l, shared + 1, Len(l))
            first == Min(full)
            last == Max(full)
            qs == [k \in 1..last - first + 1 |-> cut(ls[first + k - 1])]
<1>1. ls \in Seq(V)
  BY SplitTyped DEF LineSeqs
<1>2. dedent(s) = IF full = {} THEN <<>> ELSE JoinLines(qs)
  BY Zenon DEF dedent
<1>. HIDE DEF ls, V
<1>n. Len(ls) \in Nat
  BY <1>1
<1>3. DOMAIN ls = 1..Len(ls) /\ \A i \in 1..Len(ls) : ls[i] \in V
  BY <1>1
<1>4. CASE full = {}
  <2>1. <<>> \in Seq(X)
    OBVIOUS
  <2>. QED  BY <1>2, <1>4, <2>1
<1>5. CASE full # {}
  <2>1. full \in SUBSET (1..Len(ls))
    BY <1>3
  <2>2. first \in 1..Len(ls) /\ last \in 1..Len(ls) /\ first \in full /\ \A k \in full : k <= last
    <3>. HIDE DEF full
    <3>. QED  BY ONLY <1>n, <1>5, <2>1, PlacesHaveEnds DEF first, last
  <2>3. shared \in Nat
    <3>. DEFINE I == {Indent(ls[i]) : i \in full}
    <3>0. \A i \in 1..Len(ls) : Indent(ls[i]) \in Nat
      BY <1>3, IndentTyped DEF V
    <3>1. I # {} /\ I \in SUBSET Nat
      <4>. HIDE DEF full
      <4>. QED  BY <1>5, <2>1, <3>0
    <3>. HIDE DEF I
    <3>2. Min(I) \in I
      BY ONLY <3>1, LeastIsMin
    <3>3. Min(I) \in Nat
      BY <3>1, <3>2
    <3>. QED  BY <3>3 DEF I
  <2>. HIDE DEF shared, full, first, last
  <2>4. \A l \in V : cut(l) \in V
    <3>. SUFFICES ASSUME NEW l \in Seq(X) PROVE cut(l) \in Seq(X)
      BY DEF V
    <3>1. <<>> \in Seq(X)
      OBVIOUS
    <3>2. shared + 1 \in Nat \ {0} /\ Len(l) \in Int /\ Len(l) <= Len(l)
      BY <2>3
    <3>3. SubSeq(l, shared + 1, Len(l)) \in Seq(X)
      BY ONLY l \in Seq(X), <3>2, RunTyped, Zenon
    <3>. QED  BY <3>1, <3>3
  <2>. HIDE DEF cut
  <2>5. \A k \in 1..last - first + 1 : cut(ls[first + k - 1]) \in V
    <3>1. \A k \in 1..last - first + 1 : first + k - 1 \in 1..Len(ls)
      BY <1>n, <2>2
    <3>. QED  BY <1>3, <2>4, <3>1
  <2>6. qs \in Seq(V)
    <3>1. last - first + 1 \in Nat
      BY <1>n, <2>2
    <3>. QED  BY <2>5, <3>1
  <2>. HIDE DEF qs
  <2>7. JoinLines(qs) \in Seq(X)
    BY <2>6, JoinTyped, Zenon DEF V
  <2>. QED  BY <1>2, <1>5, <2>7
<1>. QED  BY <1>4, <1>5

(* The block matches of a text lie within it.                              *)
LEMMA BlocksTyped ==
  ASSUME NEW X, {NL, Blank} \subseteq X, NEW s \in Seq(X), NEW block \in Seq(X)
  PROVE  Blocks(s, block) \in Seq(BlockMatch(Len(s))) /\ Within(Blocks(s, block), Len(s))
<1>. DEFINE p == buildFlexPattern(dedent(block))  M == BlockMatch(Len(s)) \cup {NoMatch}
            at == [i \in DOMAIN s |-> BlockAt(s, i, p)]
<1>1. p \in Seq(X)
  <2>1. NL \in X /\ Blank \in X
    OBVIOUS
  <2>2. dedent(block) \in Seq(X)
    BY <2>1, DedentTyped, Zenon
  <2>. QED  BY <2>1, <2>2, PatternTyped, Zenon
<1>2. Len(s) \in Nat /\ DOMAIN s = 1..Len(s)
  OBVIOUS
<1>3. Blocks(s, block) = Scan(at)
  BY Zenon DEF Blocks
<1>. HIDE DEF p, M
<1>4. \A i \in 1..Len(s) : BlockAt(s, i, p) \in M
  <2>. SUFFICES ASSUME NEW i \in 1..Len(s) PROVE BlockAt(s, i, p) \in M
    OBVIOUS
  <2>. QED  BY <1>1, BlockAtTyped, Zenon DEF M
<1>5. at \in Seq(M)
  BY <1>2, <1>4
<1>. HIDE DEF at
<1>6. Scan(at) \in Seq(M \ {NoMatch})
  BY <1>5, ScanTyped, Zenon
<1>7. \A m \in M : Fits(m, Len(s))
  <2>. SUFFICES ASSUME NEW m \in BlockMatch(Len(s)) PROVE Fits(m, Len(s))
    BY DEF M, Fits
  <2>. QED  BY DEF BlockMatch, Fits
<1>8. Within(Scan(at), Len(s))
  BY ONLY <1>2, <1>5, <1>7, FoundWithin, Zenon
<1>9. Scan(at) \in Seq(BlockMatch(Len(s)))
  <2>. DEFINE A == M \ {NoMatch}  B == BlockMatch(Len(s))  ms == Scan(at)
  <2>1. A \subseteq B
    <3>. HIDE DEF NoMatch
    <3>. QED  BY DEF M
  <2>2. ms \in Seq(A)
    BY <1>6
  <2>. HIDE DEF A, B, ms
  <2>3. ms \in Seq(B)
    BY <2>1, <2>2
  <2>. QED  BY <2>3 DEF B, ms
<1>. QED  BY <1>3, <1>8, <1>9

(* The lines that are not remarks are lines.                               *)
LEMMA KeptTyped ==
  ASSUME NEW X, NEW s \in Seq(X)
  PROVE  KeptLines(s) \in Seq(Seq(X))
<1>. DEFINE V == Seq(X)  ls == SplitLines(s)
            part(i) == IF IsRemark(ls[i]) THEN <<>> ELSE <<ls[i]>>
            qs == [i \in DOMAIN ls |-> part(i)]
<1>1. ls \in Seq(V)
  BY SplitTyped DEF LineSeqs
<1>2. KeptLines(s) = Concat(qs)
  BY Zenon DEF KeptLines
<1>. HIDE DEF ls, V
<1>3. Len(ls) \in Nat /\ DOMAIN ls = 1..Len(ls) /\ \A i \in 1..Len(ls) : ls[i] \in V
  BY <1>1
<1>4. \A i \in 1..Len(ls) : part(i) \in Seq(V)
  <2>1. <<>> \in Seq(V) /\ \A l \in V : <<l>> \in Seq(V)
    OBVIOUS
  <2>. QED  BY <1>3, <2>1
<1>5. qs \in Seq(Seq(V))
  <2>. DEFINE W == Seq(V)
  <2>1. \A i \in 1..Len(ls) : part(i) \in W
    BY <1>4
  <2>. HIDE DEF W, part
  <2>2. qs \in Seq(W)
    BY <1>3, <2>1
  <2>. QED  BY <2>2 DEF W
<1>. HIDE DEF qs
<1>6. Concat(qs) \in Seq(V)
  BY <1>5, ConcatTyped, Zenon
<1>. QED  BY <1>2, <1>6 DEF V

(* An aligned replacement is a text.                                       *)
LEMMA AlignTyped ==
  ASSUME NEW X, NL \in X, NEW replace \in Seq(X), NEW indent \in Seq(X)
  PROVE  alignReplace(replace, indent) \in Seq(X)
<1>. DEFINE V == Seq(X)  kept == KeptLines(replace)
            part(i) == IF kept[i] = <<>> THEN <<>> ELSE indent \o kept[i]
            qs == [i \in DOMAIN kept |-> part(i)]
<1>1. kept \in Seq(V)
  BY KeptTyped
<1>2. alignReplace(replace, indent) = JoinLines(qs)
  BY Zenon DEF alignReplace
<1>3. \A l \in V : indent \o l \in V
  OBVIOUS
<1>4. <<>> \in V
  OBVIOUS
<1>. HIDE DEF kept, V
<1>5. Len(kept) \in Nat /\ DOMAIN kept = 1..Len(kept) /\ \A i \in 1..Len(kept) : kept[i] \in V
  BY <1>1
<1>6. \A i \in 1..Len(kept) : part(i) \in V
  BY <1>3, <1>4, <1>5
<1>. HIDE DEF part
<1>7. qs \in Seq(V)
  BY <1>5, <1>6
<1>. HIDE DEF qs
<1>8. JoinLines(qs) \in Seq(X)
  BY <1>7, JoinTyped, Zenon DEF V
<1>. QED  BY <1>2, <1>8

(* The rest of a text from a place on.                                     *)
LEMMA RestTyped ==
  ASSUME NEW X, NEW s \in Seq(X), NEW a \in 1..Len(s)+1
  PROVE  SubSeq(s, a, Len(s)) \in Seq(X) /\ Len(SubSeq(s, a, Len(s))) = Len(s) - a + 1
<1>1. a \in Nat \ {0} /\ Len(s) \in Int /\ Len(s) <= Len(s)
  OBVIOUS
<1>2. SubSeq(s, a, Len(s)) \in Seq(X)
  BY ONLY s \in Seq(X), <1>1, RunTyped, Zenon
<1>. QED  BY <1>2

(* Matches below a match lie within the whole text.                        *)
LEMMA BelowTyped ==
  ASSUME NEW X, {NL, Blank} \subseteq X, NEW s \in Seq(X), NEW block \in Seq(X),
         NEW m \in BlockMatch(Len(s))
  PROVE  BlocksBelow(s, m, block) \in Seq(BlockMatch(Len(s)))
<1>. DEFINE rest == SubSeq(s, m.to, Len(s))
            found == Blocks(rest, block)
            moved(f) == [from |-> f.from + m.to - 1, line |-> f.line + m.to - 1,
                         body |-> f.body + m.to - 1, to |-> f.to + m.to - 1]
            B == BlockMatch(Len(rest))  W == BlockMatch(Len(s))
<1>1. m.to \in 1..Len(s)+1 /\ Len(s) \in Nat
  BY DEF BlockMatch
<1>2. rest \in Seq(X) /\ Len(rest) = Len(s) - m.to + 1
  BY <1>1, RestTyped
<1>. HIDE DEF rest
<1>3. found \in Seq(B)
  BY <1>2, BlocksTyped, Zenon
<1>4. \A f \in B : moved(f) \in W
  <2>. SUFFICES ASSUME NEW f \in B PROVE moved(f) \in W
    OBVIOUS
  <2>1. \A k \in 1..Len(rest)+1 : k + m.to - 1 \in 1..Len(s)+1
    BY <1>1, <1>2
  <2>2. f.from \in 1..Len(rest)+1 /\ f.line \in 1..Len(rest)+1 /\ f.body \in 1..Len(rest)+1 /\ f.to \in 1..Len(rest)+1
    BY DEF BlockMatch
  <2>. HIDE DEF B
  <2>. QED  BY <2>1, <2>2 DEF BlockMatch
<1>5. BlocksBelow(s, m, block) = [i \in DOMAIN found |-> moved(found[i])]
  BY Zenon DEF BlocksBelow, rest
<1>. HIDE DEF found, B, W, moved
<1>6. [i \in DOMAIN found |-> moved(found[i])] \in Seq(W)
  <2>1. Len(found) \in Nat /\ DOMAIN found = 1..Len(found) /\ \A i \in 1..Len(found) : found[i] \in B
    BY <1>3
  <2>2. \A i \in 1..Len(found) : moved(found[i]) \in W
    BY <1>4, <2>1
  <2>. QED  BY <2>1, <2>2
<1>. QED  BY <1>5, <1>6 DEF W

(* So do those the command line replaces.                                  *)
LEMMA ToReplaceTyped ==
  ASSUME NEW X, {NL, Blank} \subseteq X, NEW s \in Seq(X), NEW op, op.anchor \in Seq(X), op.find \in Seq(X)
  PROVE  BlocksToReplace(s, op) \in Seq(BlockMatch(Len(s)))
<1>. DEFINE anchors == Blocks(s, op.anchor)
            below == [a \in ToSet(anchors) |-> BlocksBelow(s, a, op.find)]
            B == BlockMatch(Len(s))
<1>1. anchors \in Seq(B) /\ Blocks(s, op.find) \in Seq(B)
  BY BlocksTyped, Zenon
<1>2. \A a \in B : BlocksBelow(s, a, op.find) \in Seq(B)
  BY BelowTyped, Zenon
<1>3. BlocksToReplace(s, op) = IF Solid(op.anchor) = {} THEN Blocks(s, op.find)
                               ELSE IF anchors = <<>> \/ below[anchors[1]] = <<>> THEN <<>>
                               ELSE <<below[anchors[1]][1]>>
  BY Zenon DEF BlocksToReplace
<1>. HIDE DEF anchors, B
<1>4. anchors # <<>> => 1 \in DOMAIN anchors /\ anchors[1] \in B /\ anchors[1] \in ToSet(anchors)
  BY <1>1 DEF ToSet
<1>5. anchors # <<>> => below[anchors[1]] \in Seq(B)
  BY <1>2, <1>4
<1>. HIDE DEF below
<1>6. \A ms \in Seq(B) : ms # <<>> => <<ms[1]>> \in Seq(B)
  OBVIOUS
<1>7. <<>> \in Seq(B)
  OBVIOUS
<1>8. BlocksToReplace(s, op) \in Seq(B)
  BY <1>1, <1>3, <1>5, <1>6, <1>7
<1>. QED  BY <1>8 DEF B

(* Replacing blocks gives a text.                                          *)
LEMMA ReplaceBlocksTyped ==
  ASSUME NEW X, {NL, Blank} \subseteq X, NEW s \in Seq(X), NEW ms \in Seq(BlockMatch(Len(s))), NEW replace \in Seq(X)
  PROVE  ReplaceBlocks(s, ms, replace) \in Seq(X)
<1>. DEFINE clean == dedent(replace)
            new(m) == SubSeq(s, m.from, m.line - 1)
                        \o (IF clean = <<>> THEN <<>>
                            ELSE alignReplace(clean, SubSeq(s, m.line, m.body - 1)))
            ns == [k \in DOMAIN ms |-> new(ms[k])]
            B == BlockMatch(Len(s))
<1>1. NL \in X /\ Len(s) \in Nat
  OBVIOUS
<1>2. clean \in Seq(X)
  BY <1>1, DedentTyped, Zenon
<1>3. ReplaceBlocks(s, ms, replace) = Splice(s, ms, ns)
  BY Zenon DEF ReplaceBlocks
<1>. HIDE DEF clean
<1>4. \A m \in B : new(m) \in Seq(X)
  <2>. SUFFICES ASSUME NEW m \in B PROVE new(m) \in Seq(X)
    OBVIOUS
  <2>1. /\ m.from \in Nat \ {0} /\ m.line \in Nat \ {0} /\ m.line - 1 \in Int /\ m.line - 1 <= Len(s)
        /\ m.body - 1 \in Int /\ m.body - 1 <= Len(s)
    BY <1>1 DEF BlockMatch
  <2>2. SubSeq(s, m.from, m.line - 1) \in Seq(X)
    BY ONLY s \in Seq(X), <2>1, RunTyped, Zenon
  <2>3. SubSeq(s, m.line, m.body - 1) \in Seq(X)
    BY ONLY s \in Seq(X), <2>1, RunTyped, Zenon
  <2>4. alignReplace(clean, SubSeq(s, m.line, m.body - 1)) \in Seq(X)
    BY <1>1, <1>2, <2>3, AlignTyped, Zenon
  <2>5. <<>> \in Seq(X)
    OBVIOUS
  <2>6. \A u, w \in Seq(X) : u \o w \in Seq(X)
    OBVIOUS
  <2>. QED  BY <2>2, <2>4, <2>5, <2>6
<1>. HIDE DEF new
<1>5. \A k \in DOMAIN ms : ms[k] \in B
  OBVIOUS
<1>. HIDE DEF B
<1>6. \A k \in DOMAIN ms : ns[k] \in Seq(X)
  BY <1>4, <1>5
<1>7. Within(ms, Len(s))
  BY <1>5 DEF Within, B, BlockMatch
<1>. HIDE DEF ns
<1>8. Splice(s, ms, ns) \in Seq(X)
  BY ONLY s \in Seq(X), ms \in Seq(BlockMatch(Len(s))), <1>6, <1>7, SpliceTyped, Zenon
<1>. QED  BY <1>3, <1>8
-----------------------------------------------------------------------------
(* Names.                                                                  *)
NameMatch(n) == [from : 1..n+1, to : 1..n+1, name : 1..2]

(* A name is a text.                                                       *)
LEMMA NameTyped ==
  ASSUME NEW X, Blank \in X, NEW s \in Seq(X)
  PROVE  Name(s) \in Seq(X) /\ ReplaceAll(s, Nbsp, Blank) \in Seq(X)
<1>1. ReplaceAll(s, Nbsp, Blank) \in Seq(X)
  BY ReplacedTyped, Zenon
<1>2. TrimSpace(ReplaceAll(s, Nbsp, Blank)) \in Seq(X)
  BY <1>1, TrimTyped, Zenon
<1>. QED  BY <1>1, <1>2, Zenon DEF Name

(* The match of a name lies within the text.                               *)
LEMMA NameAtTyped ==
  ASSUME NEW X, NEW s \in Seq(X), NEW i \in 1..Len(s), NEW names, names[1] \in Seq(X), names[2] \in Seq(X)
  PROVE  NameAt(s, i, names) \in NameMatch(Len(s)) \cup {NoMatch}
<1>. DEFINE fits == {k \in 1..2 : /\ OccursAt(s, names[k], i)
                                  /\ WordBoundary(s, i)
                                  /\ WordBoundary(s, i + Len(names[k]))}
            f == Min(fits)
<1>1. NameAt(s, i, names) = IF fits = {} THEN NoMatch ELSE [from |-> i, to |-> i + Len(names[f]), name |-> f]
  BY Zenon DEF NameAt
<1>2. CASE fits = {}
  BY <1>1, <1>2
<1>3. CASE fits # {}
  <2>1. fits \in SUBSET (1..2) /\ 2 \in Nat
    OBVIOUS
  <2>2. f \in fits /\ f \in 1..2
    <3>. HIDE DEF fits
    <3>. QED  BY ONLY <1>3, <2>1, PlacesHaveEnds DEF f
  <2>. HIDE DEF f
  <2>3. OccursAt(s, names[f], i)
    BY <2>2
  <2>. HIDE DEF fits
  <2>4. names[f] \in Seq(X)
    <3>1. f = 1 \/ f = 2
      BY <2>2
    <3>. QED  BY <3>1
  <2>5. Len(names[f]) \in Nat /\ Len(s) \in Nat
    BY <2>4
  <2>6. i \in 1..Len(s)+1 /\ i + Len(names[f]) \in 1..Len(s)+1
    BY <2>3, <2>5 DEF OccursAt
  <2>7. [from |-> i, to |-> i + Len(names[f]), name |-> f] \in NameMatch(Len(s))
    BY <2>2, <2>6 DEF NameMatch
  <2>. QED  BY <1>1, <1>3, <2>7
<1>. QED  BY <1>2, <1>3

(* The names found in a text lie within it.                                *)
LEMMA NamesTyped ==
  ASSUME NEW X, NEW s \in Seq(X), NEW names, names[1] \in Seq(X), names[2] \in Seq(X)
  PROVE  Names(s, names) \in Seq(NameMatch(Len(s))) /\ Within(Names(s, names), Len(s))
<1>. DEFINE M == NameMatch(Len(s)) \cup {NoMatch}
            at == [i \in DOMAIN s |-> NameAt(s, i, names)]
<1>2. Len(s) \in Nat /\ DOMAIN s = 1..Len(s)
  OBVIOUS
<1>3. Names(s, names) = Scan(at)
  BY Zenon DEF Names
<1>. HIDE DEF M
<1>4. \A i \in 1..Len(s) : NameAt(s, i, names) \in M
  <2>. SUFFICES ASSUME NEW i \in 1..Len(s) PROVE NameAt(s, i, names) \in M
    OBVIOUS
  <2>. QED  BY NameAtTyped, Zenon DEF M
<1>5. at \in Seq(M)
  BY <1>2, <1>4
<1>. HIDE DEF at
<1>6. Scan(at) \in Seq(M \ {NoMatch})
  BY <1>5, ScanTyped, Zenon
<1>7. \A m \in M : Fits(m, Len(s))
  <2>. SUFFICES ASSUME NEW m \in NameMatch(Len(s)) PROVE Fits(m, Len(s))
    BY DEF M, Fits
  <2>. QED  BY DEF NameMatch, Fits
<1>8. Within(Scan(at), Len(s))
  BY ONLY <1>2, <1>5, <1>7, FoundWithin, Zenon
<1>9. Scan(at) \in Seq(NameMatch(Len(s)))
  <2>. DEFINE A == M \ {NoMatch}  B == NameMatch(Len(s))  ms == Scan(at)
  <2>1. A \subseteq B
    <3>. HIDE DEF NoMatch
    <3>. QED  BY DEF M
  <2>2. ms \in Seq(A)
    BY <1>6
  <2>. HIDE DEF A, B, ms
  <2>3. ms \in Seq(B)
    BY <2>1, <2>2
  <2>. QED  BY <2>3 DEF B, ms
<1>. QED  BY <1>3, <1>8, <1>9

(* Swapping names gives a text.                                            *)
LEMMA SwapTyped ==
  ASSUME NEW X, NEW s \in Seq(X), NEW names, names[1] \in Seq(X), names[2] \in Seq(X)
  PROVE  SwapNames(s, names) \in Seq(X)
<1>. DEFINE ms == Names(s, names)  ns == [k \in DOMAIN ms |-> names[3 - ms[k].name]]
            B == NameMatch(Len(s))
<1>1. ms \in Seq(B) /\ Within(ms, Len(s))
  BY NamesTyped, Zenon
<1>2. SwapNames(s, names) = Splice(s, ms, ns)
  BY Zenon DEF SwapNames
<1>. HIDE DEF ms
<1>3. \A k \in DOMAIN ms : ns[k] \in Seq(X)
  <2>1. \A m \in B : 3 - m.name = 1 \/ 3 - m.name = 2
    BY DEF NameMatch
  <2>. HIDE DEF B
  <2>2. \A k \in DOMAIN ms : ms[k] \in B
    BY <1>1
  <2>. QED  BY <2>1, <2>2
<1>. HIDE DEF B, ns
<1>4. Splice(s, ms, ns) \in Seq(X)
  BY ONLY s \in Seq(X), <1>1, <1>3, SpliceTyped, Zenon
<1>. QED  BY <1>2, <1>4
-----------------------------------------------------------------------------
(* What applyCommand does, kind by kind.                                   *)
LEMMA ChooseOne ==
  ASSUME NEW x
  PROVE  (CHOOSE c \in {x} : TRUE) = x
OBVIOUS

(* applyCommand, kind by kind: a block ...                                 *)
LEMMA BlockApplied ==
  ASSUME NEW s, NEW op, op.find # <<>>, op.kind = "replace_block", Solid(op.find) # {}
  PROVE  applyCommand(s, op) = Change(ReplaceBlocks(s, BlocksToReplace(s, op), op.replace), Len(BlocksToReplace(s, op)))
<1>. DEFINE b == BlocksToReplace(s, op)  c(ms) == Change(ReplaceBlocks(s, ms, op.replace), Len(ms))
<1>1. applyCommand(s, op) = CHOOSE change \in {c(ms) : ms \in {b}} : TRUE
  BY Zenon DEF applyCommand
<1>2. {c(ms) : ms \in {b}} = {c(b)}
  <2>. HIDE DEF b, c
  <2>. QED  OBVIOUS
<1>. HIDE DEF b, c
<1>3. applyCommand(s, op) = c(b)
  BY <1>1, <1>2, ChooseOne
<1>. QED  BY <1>3 DEF b, c

(* ... a literal ...                                                       *)
LEMMA LiteralApplied ==
  ASSUME NEW s, NEW op, op.find # <<>>, op.kind = "replace", SingleLine(op)
  PROVE  applyCommand(s, op) = Change(ReplaceText(s, LiteralFind(op), op.replace), Len(Occurrences(s, LiteralFind(op))))
<1>. DEFINE b == LiteralFind(op)  c(ms) == Change(ReplaceText(s, ms, op.replace), Len(Occurrences(s, ms)))
<1>1. applyCommand(s, op) = CHOOSE change \in {c(ms) : ms \in {b}} : TRUE
  BY Zenon DEF applyCommand
<1>2. {c(ms) : ms \in {b}} = {c(b)}
  <2>. HIDE DEF b, c
  <2>. QED  OBVIOUS
<1>. HIDE DEF b, c
<1>3. applyCommand(s, op) = c(b)
  BY <1>1, <1>2, ChooseOne
<1>. QED  BY <1>3 DEF b, c

(* ... a suffix ...                                                        *)
LEMMA SuffixApplied ==
  ASSUME NEW s, NEW op, op.find # <<>>, op.kind = "replace_suffix"
  PROVE  applyCommand(s, op) = IF IsSuffix(NewLines(op.find), s)
                               THEN Change(ReplaceSuffix(s, op), 1) ELSE Change(s, 0)
<1>. DEFINE c == IF IsSuffix(NewLines(op.find), s) THEN Change(ReplaceSuffix(s, op), 1) ELSE Change(s, 0)
<1>1. applyCommand(s, op) = CHOOSE change \in {c} : TRUE
  BY Zenon DEF applyCommand
<1>. HIDE DEF c
<1>2. applyCommand(s, op) = c
  BY <1>1, ChooseOne
<1>. QED  BY <1>2 DEF c

(* ... a pair of names ...                                                 *)
LEMMA SwapApplied ==
  ASSUME NEW s, NEW op, op.find # <<>>, op.kind = "swap_name"
  PROVE  applyCommand(s, op) = IF Swappable(NamesToSwap(op))
                               THEN Change(SwapNames(s, NamesToSwap(op)), Len(Names(s, NamesToSwap(op))))
                               ELSE Change(s, 0)
<1>. DEFINE b == NamesToSwap(op)
            c(names) == IF Swappable(names) THEN Change(SwapNames(s, names), Len(Names(s, names))) ELSE Change(s, 0)
<1>1. applyCommand(s, op) = CHOOSE change \in {c(ms) : ms \in {b}} : TRUE
  BY Zenon DEF applyCommand
<1>2. {c(ms) : ms \in {b}} = {c(b)}
  <2>. HIDE DEF b, c
  <2>. QED  OBVIOUS
<1>. HIDE DEF b, c
<1>3. applyCommand(s, op) = c(b)
  BY <1>1, <1>2, ChooseOne
<1>. QED  BY <1>3 DEF b, c

(* ... and what does nothing.                                              *)
LEMMA NothingApplied ==
  ASSUME NEW s, NEW op,
         \/ op.find = <<>>
         \/ ~\/ op.kind = "replace_block" /\ Solid(op.find) # {}
             \/ op.kind = "replace" /\ SingleLine(op)
             \/ op.kind = "replace_suffix"
             \/ op.kind = "swap_name"
  PROVE  applyCommand(s, op) = Change(s, 0)
<1>1. CASE op.find = <<>>
  BY <1>1, Zenon DEF applyCommand
<1>2. CASE op.find # <<>>
  <2>1. applyCommand(s, op) = CHOOSE change \in {Change(s, 0)} : TRUE
    BY <1>2, Zenon DEF applyCommand
  <2>. QED  BY <2>1, ChooseOne, Zenon
<1>. QED  BY <1>1, <1>2, Zenon
-----------------------------------------------------------------------------
(* The symbols, and the pieces of an operation.                            *)
LEMMA Marks == NL \in Symbol /\ CR \in Symbol /\ Blank \in Symbol /\ Bom \in Symbol
BY DEF Symbol

(* The line endings of a platform are texts.                               *)
LEMMA Endings ==
  ASSUME NEW newline \in PlatformLineEndings
  PROVE  newline \in Seq(Symbol)
<1>1. \A a, b \in Symbol : <<a>> \in Seq(Symbol) /\ <<a, b>> \in Seq(Symbol)
  OBVIOUS
<1>2. <<NL>> \in Seq(Symbol) /\ <<CR, NL>> \in Seq(Symbol)
  BY <1>1, Marks
<1>3. newline = <<NL>> \/ newline = <<CR, NL>>
  BY DEF PlatformLineEndings
<1>. QED  BY <1>2, <1>3

(* Reading CRLF as LF gives a text.                                        *)
LEMMA NewLinesTyped ==
  ASSUME NEW s \in Seq(Symbol)
  PROVE  NewLines(s) \in Seq(Symbol)
<1>1. <<NL>> \in Seq(Symbol) /\ <<CR, NL>> \in Seq(Symbol)
  BY Endings DEF PlatformLineEndings
<1>2. ReplaceText(s, <<CR, NL>>, <<NL>>) \in Seq(Symbol)
  BY <1>1, ReplaceTyped, Zenon
<1>. QED  BY <1>2, Zenon DEF NewLines

(* So does reading every line ending as LF,                                *)
LEMMA NormalizedTyped ==
  ASSUME NEW s \in Seq(Symbol)
  PROVE  normalizeLineEndings(s) \in Seq(Symbol)
<1>1. ReplaceText(s, <<CR, NL>>, <<NL>>) \in Seq(Symbol)
  BY NewLinesTyped, Zenon DEF NewLines
<1>. QED  BY <1>1, Marks, ReplacedTyped, Zenon DEF normalizeLineEndings

(* dropping the byte order mark,                                           *)
LEMMA WithoutMarkTyped ==
  ASSUME NEW s \in Seq(Symbol)
  PROVE  textWithoutUTF8BOM(s) \in Seq(Symbol)
<1>1. hadBOM(s) => s # <<>>
  <2>. DEFINE b == <<Bom>>
  <2>1. Len(b) = 1 /\ Len(<<>>) = 0
    OBVIOUS
  <2>. HIDE DEF b
  <2>2. IsPrefix(b, s) => Len(s) # 0
    BY <2>1 DEF IsPrefix
  <2>. QED  BY <2>1, <2>2 DEF hadBOM, b
<1>2. s # <<>> => Tail(s) \in Seq(Symbol)
  OBVIOUS
<1>. QED  BY <1>1, <1>2 DEF textWithoutUTF8BOM

(* and rendering.                                                          *)
LEMMA RenderTyped ==
  ASSUME NEW s \in Seq(Symbol), NEW bom \in BOOLEAN, NEW newline \in PlatformLineEndings
  PROVE  renderOutput(s, bom, newline) \in Seq(Symbol)
<1>1. <<NL>> \in Seq(Symbol) /\ newline \in Seq(Symbol)
  BY Endings DEF PlatformLineEndings
<1>2. normalizeLineEndings(s) \in Seq(Symbol)
  BY NormalizedTyped, Zenon
<1>3. ReplaceText(normalizeLineEndings(s), <<NL>>, newline) \in Seq(Symbol)
  BY <1>1, <1>2, ReplaceTyped, Zenon
<1>4. <<Bom>> \in Seq(Symbol) /\ <<>> \in Seq(Symbol)
  <2>1. \A c \in Symbol : <<c>> \in Seq(Symbol)
    OBVIOUS
  <2>. QED  BY <2>1, Marks
<1>5. \A u, w \in Seq(Symbol) : u \o w \in Seq(Symbol)
  OBVIOUS
<1>. QED  BY <1>3, <1>4, <1>5 DEF renderOutput

(* An operation leaves a text.                                             *)
LEMMA AppliedTyped ==
  ASSUME NEW s \in Seq(Symbol), NEW op \in EditOperation
  PROVE  applyCommand(s, op).text \in Seq(Symbol)
<1>1. op.anchor \in Seq(Symbol) /\ op.find \in Seq(Symbol) /\ op.replace \in Seq(Symbol)
  BY DEF EditOperation
<1>m. {NL, Blank} \subseteq Symbol /\ Blank \in Symbol
  BY Marks
<1>2. CASE op.find # <<>> /\ op.kind = "replace_block" /\ Solid(op.find) # {}
  <2>1. BlocksToReplace(s, op) \in Seq(BlockMatch(Len(s)))
    BY <1>1, <1>m, ToReplaceTyped, Zenon
  <2>2. ReplaceBlocks(s, BlocksToReplace(s, op), op.replace) \in Seq(Symbol)
    BY <1>1, <1>m, <2>1, ReplaceBlocksTyped, Zenon
  <2>3. applyCommand(s, op) = Change(ReplaceBlocks(s, BlocksToReplace(s, op), op.replace), Len(BlocksToReplace(s, op)))
    BY <1>2, BlockApplied, Zenon
  <2>. QED  BY <2>2, <2>3 DEF Change
<1>3. CASE op.find # <<>> /\ op.kind = "replace" /\ SingleLine(op)
  <2>1. LiteralFind(op) \in Seq(Symbol)
    BY <1>1, <1>m, NameTyped, Zenon DEF LiteralFind
  <2>2. ReplaceText(s, LiteralFind(op), op.replace) \in Seq(Symbol)
    BY <1>1, <2>1, ReplaceTyped, Zenon
  <2>. QED  BY <1>3, <2>2, LiteralApplied DEF Change
<1>4. CASE op.find # <<>> /\ op.kind = "replace_suffix"
  <2>1. NewLines(op.find) \in Seq(Symbol) /\ NewLines(op.replace) \in Seq(Symbol)
    BY <1>1, NewLinesTyped, Zenon
  <2>2. SubSeq(s, 1, Len(s) - Len(NewLines(op.find))) \in Seq(Symbol)
    <3>. DEFINE b == Len(s) - Len(NewLines(op.find))
    <3>1. 1 \in Nat \ {0} /\ b \in Int /\ b <= Len(s)
      BY <2>1
    <3>. HIDE DEF b
    <3>2. SubSeq(s, 1, b) \in Seq(Symbol)
      BY ONLY s \in Seq(Symbol), <3>1, RunTyped, Zenon
    <3>. QED  BY <3>2 DEF b
  <2>3. SubSeq(s, 1, Len(s) - Len(NewLines(op.find))) \o NewLines(op.replace) \in Seq(Symbol)
    BY <2>1, <2>2
  <2>4. applyCommand(s, op) = IF IsSuffix(NewLines(op.find), s)
                              THEN Change(ReplaceSuffix(s, op), 1) ELSE Change(s, 0)
    BY <1>4, SuffixApplied, Zenon
  <2>. QED  BY <2>3, <2>4 DEF Change, ReplaceSuffix
<1>5. CASE op.find # <<>> /\ op.kind = "swap_name"
  <2>1. Name(op.find) \in Seq(Symbol) /\ Name(op.replace) \in Seq(Symbol)
    BY <1>1, <1>m, NameTyped, Zenon
  <2>2. NamesToSwap(op)[1] \in Seq(Symbol) /\ NamesToSwap(op)[2] \in Seq(Symbol)
    BY <2>1 DEF NamesToSwap
  <2>3. SwapNames(s, NamesToSwap(op)) \in Seq(Symbol)
    BY <2>2, SwapTyped, Zenon
  <2>. QED  BY <1>5, <2>3, SwapApplied DEF Change
<1>6. CASE \/ op.find = <<>>
           \/ ~\/ op.kind = "replace_block" /\ Solid(op.find) # {}
               \/ op.kind = "replace" /\ SingleLine(op)
               \/ op.kind = "replace_suffix"
               \/ op.kind = "swap_name"
  <2>1. applyCommand(s, op) = Change(s, 0)
    BY <1>6, NothingApplied, Zenon
  <2>. QED  BY <2>1 DEF Change
<1>. QED  BY <1>2, <1>3, <1>4, <1>5, <1>6, Zenon
-----------------------------------------------------------------------------
(* The two counts.                                                         *)
LEMMA CountsMeet ==
  ASSUME NEW s \in Seq(Symbol), NEW op \in EditOperation, AppliedMatches(s, op) # 0
  PROVE  applyCommand(s, op).matches = AppliedMatches(s, op) /\ AppliedMatches(s, op) \in Nat
<1>1. op.anchor \in Seq(Symbol) /\ op.find \in Seq(Symbol) /\ op.replace \in Seq(Symbol)
  BY DEF EditOperation
<1>m. {NL, Blank} \subseteq Symbol /\ Blank \in Symbol
  BY Marks
<1>2. op.find # <<>>
  BY Zenon DEF AppliedMatches, Refused
<1>3. \A n : Accepted(n, op) = n \/ Accepted(n, op) = 0
  BY DEF Accepted
<1>4. CASE op.kind = "replace_block"
  <2>1. AppliedMatches(s, op) = BlockMatches(s, op)
    BY <1>4, Zenon DEF AppliedMatches
  <2>2. Solid(op.find) # {}
    BY <2>1 DEF BlockMatches
  <2>. DEFINE anchors == Blocks(s, op.anchor)
              below == [a \in ToSet(anchors) |-> BlocksBelow(s, a, op.find)]
              b == BlocksToReplace(s, op)
  <2>3. applyCommand(s, op).matches = Len(b)
    <3>1. applyCommand(s, op) = Change(ReplaceBlocks(s, b, op.replace), Len(b))
      BY <1>2, <1>4, <2>2, BlockApplied, Zenon
    <3>. HIDE DEF b
    <3>. QED  BY <3>1 DEF Change
  <2>4. BlocksToReplace(s, op) = IF Solid(op.anchor) = {} THEN Blocks(s, op.find)
                                 ELSE IF anchors = <<>> \/ below[anchors[1]] = <<>> THEN <<>>
                                 ELSE <<below[anchors[1]][1]>>
    BY Zenon DEF BlocksToReplace
  <2>5. b \in Seq(BlockMatch(Len(s))) /\ anchors \in Seq(BlockMatch(Len(s)))
    BY <1>1, <1>m, ToReplaceTyped, BlocksTyped, Zenon
  <2>6. CASE Solid(op.anchor) = {}
    <3>1. b = Blocks(s, op.find)
      BY <2>4, <2>6, Zenon
    <3>2. BlockMatches(s, op) = Accepted(Len(Blocks(s, op.find)), op)
      BY <2>2, <2>6, Zenon DEF BlockMatches
    <3>3. Len(b) \in Nat
      BY <2>5
    <3>. HIDE DEF b
    <3>. QED  BY <1>3, <2>1, <2>3, <3>1, <3>2, <3>3
  <2>7. CASE Solid(op.anchor) # {}
    <3>1. /\ BlockMatches(s, op) = 1
          /\ Len(anchors) = 1 /\ \E a \in ToSet(anchors) : BlocksBelow(s, a, op.find) # <<>>
      BY <2>1, <2>2, <2>7 DEF BlockMatches
    <3>. HIDE DEF anchors
    <3>2. anchors # <<>> /\ ToSet(anchors) = {anchors[1]}
      <4>1. DOMAIN anchors = {1}
        BY <2>5, <3>1
      <4>2. ToSet(anchors) = {anchors[1]}
        BY <4>1 DEF ToSet
      <4>3. anchors # <<>>
        <5>1. Len(anchors) = 1
          BY <3>1
        <5>. QED  BY ONLY <5>1
      <4>. QED  BY <4>2, <4>3
    <3>3. below[anchors[1]] # <<>>
      BY <3>1, <3>2
    <3>. HIDE DEF below
    <3>4. b = <<below[anchors[1]][1]>>
      BY <2>4, <2>7, <3>2, <3>3, Zenon
    <3>. HIDE DEF b
    <3>5. Len(b) = 1
      BY <3>4
    <3>. QED  BY <2>1, <2>3, <3>1, <3>5
  <2>. QED  BY <2>6, <2>7
<1>5. CASE op.kind = "replace"
  <2>1. AppliedMatches(s, op) = LiteralMatches(s, op)
    BY <1>5, Zenon DEF AppliedMatches
  <2>2. SingleLine(op) /\ LiteralMatches(s, op) = Accepted(Len(Occurrences(s, LiteralFind(op))), op)
    BY <2>1, Zenon DEF LiteralMatches
  <2>3. applyCommand(s, op).matches = Len(Occurrences(s, LiteralFind(op)))
    BY <1>2, <1>5, <2>2, LiteralApplied DEF Change
  <2>4. LiteralFind(op) \in Seq(Symbol)
    BY <1>1, <1>m, NameTyped, Zenon DEF LiteralFind
  <2>5. PICK M : Occurrences(s, LiteralFind(op)) \in Seq(M)
    BY <2>4, OccurrencesTyped, Zenon
  <2>6. Len(Occurrences(s, LiteralFind(op))) \in Nat
    BY <2>5
  <2>. QED  BY <1>3, <2>1, <2>2, <2>3, <2>6
<1>6. CASE op.kind = "replace_suffix"
  <2>1. AppliedMatches(s, op) = SuffixMatches(s, op)
    BY <1>6, Zenon DEF AppliedMatches
  <2>2. IsSuffix(NewLines(op.find), s) /\ SuffixMatches(s, op) = 1
    BY <2>1, Zenon DEF SuffixMatches
  <2>3. applyCommand(s, op).matches = 1
    <3>1. applyCommand(s, op) = Change(ReplaceSuffix(s, op), 1)
      BY <1>2, <1>6, <2>2, SuffixApplied, Zenon
    <3>. QED  BY <3>1 DEF Change
  <2>. QED  BY <2>1, <2>2, <2>3
<1>7. CASE op.kind = "swap_name"
  <2>1. AppliedMatches(s, op) = NameMatches(s, op)
    BY <1>7, Zenon DEF AppliedMatches
  <2>. DEFINE count == Len(Names(s, NamesToSwap(op)))
  <2>2. Swappable(NamesToSwap(op)) /\ (NameMatches(s, op) = count \/ NameMatches(s, op) = Accepted(count, op))
    BY <2>1, Zenon DEF NameMatches
  <2>3. applyCommand(s, op).matches = count
    BY <1>2, <1>7, <2>2, SwapApplied DEF Change
  <2>4. NamesToSwap(op)[1] \in Seq(Symbol) /\ NamesToSwap(op)[2] \in Seq(Symbol)
    <3>1. Name(op.find) \in Seq(Symbol) /\ Name(op.replace) \in Seq(Symbol)
      BY <1>1, <1>m, NameTyped, Zenon
    <3>. QED  BY <3>1 DEF NamesToSwap
  <2>5. Names(s, NamesToSwap(op)) \in Seq(NameMatch(Len(s)))
    BY <2>4, NamesTyped, Zenon
  <2>6. count \in Nat
    BY <2>5
  <2>. HIDE DEF count
  <2>. QED  BY <1>3, <2>1, <2>2, <2>3, <2>6
<1>8. CASE op.kind \notin {"replace_block", "replace", "replace_suffix", "swap_name"}
  BY <1>8, Zenon DEF AppliedMatches
<1>. QED  BY <1>4, <1>5, <1>6, <1>7, <1>8, Zenon
-----------------------------------------------------------------------------
(* The invariant: the call stays what it was, the counts agree, and a plan *)
(* is the text that was rendered.                                          *)
Stat == [before : Seq(Symbol), applied : Nat \ {0}]
Rendered == output = renderOutput(current, hadBOM(request.data), request.newline)
EditIInv ==
  /\ request \in Requests
  /\ EditTypeOK
  /\ CountsAgree
  /\ pc = "planned" => Rendered

(* The invariant holds at the start, and every step keeps it.              *)
LEMMA EditStarts == EditInit => EditIInv
<1>. SUFFICES ASSUME EditInit PROVE EditIInv
  OBVIOUS
<1>1. request.operations \in Seq(EditOperation)
  BY RequestsAssumption DEF EditInit
<1>2. Len(request.operations) \in Nat
  BY <1>1
<1>3. Len(stats) <= Len(request.operations)
  <2>1. Len(stats) = 0
    BY DEF EditInit
  <2>. QED  BY <1>2, <2>1
<1>4. current \in Seq(Symbol) /\ output \in Seq(Symbol)
  BY DEF EditInit
<1>5. stats \in Seq([before : Seq(Symbol), applied : Nat \ {0}])
  BY DEF EditInit
<1>6. request \in Requests /\ pc = "decode" /\ reason = "none"
  BY DEF EditInit
<1>7. EditTypeOK
  BY <1>3, <1>4, <1>5, <1>6 DEF EditTypeOK
<1>8. CountsAgree
  BY <1>6 DEF CountsAgree
<1>. QED  BY <1>6, <1>7, <1>8 DEF EditIInv

(* Decoding the file.                                                      *)
LEMMA DecodeKeeps ==
  ASSUME EditIInv, Decode
  PROVE  EditIInv'
<1>1. request \in Requests /\ request.data \in Seq(Symbol)
  BY RequestsAssumption DEF EditIInv
<1>2. current' \in Seq(Symbol)
  BY <1>1, WithoutMarkTyped, NormalizedTyped, Zenon DEF Decode, decodeTarget
<1>3. pc' = "edit"
  BY DEF Decode
<1>4. UNCHANGED <<request, reason, stats, output>>
  BY DEF Decode
<1>5. EditTypeOK'
  <2>1. EditTypeOK
    BY DEF EditIInv
  <2>2. pc' # "planned"
    BY <1>3
  <2>. QED  BY <1>2, <1>3, <1>4, <2>1, <2>2 DEF EditTypeOK
<1>. QED  BY <1>1, <1>3, <1>4, <1>5 DEF EditIInv, CountsAgree

(* The operation that is next is one of the call.                          *)
LEMMA PendingIsTyped ==
  ASSUME EditIInv, Pending
  PROVE  /\ NextOperation \in EditOperation /\ current \in Seq(Symbol)
         /\ Len(stats) \in Nat /\ Len(request.operations) \in Nat /\ Len(stats) + 1 <= Len(request.operations)
<1>1. request.operations \in Seq(EditOperation) /\ current \in Seq(Symbol) /\ stats \in Seq(Stat)
  BY RequestsAssumption DEF EditIInv, EditTypeOK, Stat
<1>. HIDE DEF Stat
<1>2. Len(stats) \in Nat /\ Len(request.operations) \in Nat
  BY <1>1
<1>3. Len(stats) + 1 \in 1..Len(request.operations)
  BY <1>2 DEF Pending
<1>4. NextOperation \in EditOperation
  BY <1>1, <1>3 DEF NextOperation
<1>. QED  BY <1>1, <1>2, <1>3, <1>4

(* Carrying out an operation.                                              *)
LEMMA ApplyKeeps ==
  ASSUME EditIInv, ApplyOperation
  PROVE  EditIInv'
<1>. DEFINE op == NextOperation  applied == AppliedMatches(current, op)  done == applyCommand(current, op)
<1>1. /\ Pending /\ applied > 0
      /\ current' = done.text /\ stats' = Append(stats, [before |-> current, applied |-> applied])
      /\ UNCHANGED <<request, pc, reason, output>>
  BY DEF ApplyOperation
<1>2. /\ op \in EditOperation /\ current \in Seq(Symbol)
      /\ Len(stats) \in Nat /\ Len(request.operations) \in Nat /\ Len(stats) + 1 <= Len(request.operations)
  BY <1>1, PendingIsTyped
<1>. HIDE DEF op
<1>3. applied \in Nat \ {0}
  <2>1. applied # 0
    <3>. HIDE DEF applied
    <3>. QED  BY <1>1
  <2>2. applied \in Nat
    BY <1>2, <2>1, CountsMeet, Zenon
  <2>. QED  BY <2>1, <2>2
<1>4. current' \in Seq(Symbol)
  BY <1>1, <1>2, AppliedTyped, Zenon
<1>. HIDE DEF applied, done
<1>5. stats' \in Seq(Stat) /\ Len(stats') = Len(stats) + 1
  <2>1. stats \in Seq(Stat)
    BY DEF EditIInv, EditTypeOK, Stat
  <2>2. [before |-> current, applied |-> applied] \in Stat
    BY <1>2, <1>3 DEF Stat
  <2>. HIDE DEF Stat
  <2>. QED  BY <1>1, <2>1, <2>2
<1>6. pc = "edit"
  BY <1>1 DEF Pending
<1>7. EditTypeOK'
  <2>1. EditTypeOK
    BY DEF EditIInv
  <2>2. Len(stats)' <= Len(request.operations)'
    BY <1>1, <1>2, <1>5
  <2>3. stats' \in Seq([before : Seq(Symbol), applied : Nat \ {0}])
    BY <1>5 DEF Stat
  <2>4. pc' = "edit" /\ reason' = reason /\ output' = output /\ pc' # "planned"
    BY <1>1, <1>6
  <2>. QED  BY <1>4, <2>1, <2>2, <2>3, <2>4 DEF EditTypeOK
<1>. QED  BY <1>1, <1>6, <1>7 DEF EditIInv, CountsAgree

(* Refusing one: never because the counts differ.                          *)
LEMMA RefuseKeeps ==
  ASSUME EditIInv, RefuseOperation
  PROVE  EditIInv'
<1>. DEFINE op == NextOperation  applied == AppliedMatches(current, op)  done == applyCommand(current, op)
<1>1. /\ Pending
      /\ reason' = CASE applied = 0 -> "refused"
                      [] applied # 0 /\ done.matches # applied -> "count_changed"
                      [] OTHER -> "no_change"
      /\ pc' = "error"
      /\ UNCHANGED <<request, current, stats, output>>
  BY Zenon DEF RefuseOperation
<1>2. op \in EditOperation /\ current \in Seq(Symbol)
  BY <1>1, PendingIsTyped
<1>. HIDE DEF op
<1>3. applied # 0 => done.matches = applied
  BY <1>2, CountsMeet, Zenon
<1>. HIDE DEF applied, done
<1>4. reason' \in {"refused", "no_change"}
  <2>1. CASE applied = 0
    <3>1. reason' = "refused"
      BY <1>1, <2>1, Zenon
    <3>. QED  BY <3>1
  <2>2. CASE applied # 0
    <3>1. reason' = "no_change"
      BY <1>1, <1>3, <2>2, Zenon
    <3>. QED  BY <3>1
  <2>. QED  BY <2>1, <2>2
<1>5. EditTypeOK'
  <2>1. EditTypeOK
    BY DEF EditIInv
  <2>2. pc' = "error" /\ UNCHANGED <<request, current, stats, output>>
    BY <1>1, Zenon
  <2>. QED  BY <1>4, <2>1, <2>2 DEF EditTypeOK
<1>6. CountsAgree'
  BY <1>4 DEF CountsAgree
<1>7. request' \in Requests /\ pc' # "planned"
  <2>1. pc' = "error" /\ request' = request
    BY <1>1, Zenon
  <2>. QED  BY <2>1 DEF EditIInv
<1>. QED  BY <1>5, <1>6, <1>7 DEF EditIInv

(* Rendering the plan.                                                     *)
LEMMA RenderKeeps ==
  ASSUME EditIInv, Render
  PROVE  EditIInv'
<1>1. /\ Len(stats) = Len(request.operations)
      /\ output' = renderOutput(current, hadBOM(request.data), request.newline)
      /\ IF textWithoutUTF8BOM(output') = textWithoutUTF8BOM(request.data)
         THEN pc' = "error" /\ reason' = "no_change"
         ELSE pc' = "planned" /\ reason' = "none"
      /\ UNCHANGED <<request, current, stats>>
  BY DEF Render
<1>2. request \in Requests /\ request.newline \in PlatformLineEndings /\ current \in Seq(Symbol)
  BY RequestsAssumption DEF EditIInv, EditTypeOK
<1>3. output' \in Seq(Symbol)
  <2>1. hadBOM(request.data) \in BOOLEAN
    BY DEF hadBOM, IsPrefix
  <2>. QED  BY <1>1, <1>2, <2>1, RenderTyped, Zenon
<1>4. EditTypeOK'
  <2>1. EditTypeOK
    BY DEF EditIInv
  <2>. QED  BY <1>1, <1>3, <2>1 DEF EditTypeOK
<1>5. CountsAgree'
  BY <1>1 DEF CountsAgree
<1>6. Rendered'
  BY <1>1 DEF Rendered
<1>. QED  BY <1>1, <1>2, <1>4, <1>5, <1>6 DEF EditIInv

(* What every step of a plan keeps.                                        *)
THEOREM EditInvariant == EditSpec => []EditIInv
<1>1. EditIInv /\ [EditNext]_editVars => EditIInv'
  <2>. SUFFICES ASSUME EditIInv, [EditNext]_editVars PROVE EditIInv'
    OBVIOUS
  <2>1. CASE Decode
    BY <2>1, DecodeKeeps
  <2>2. CASE ApplyOperation
    BY <2>2, ApplyKeeps
  <2>3. CASE RefuseOperation
    BY <2>3, RefuseKeeps
  <2>4. CASE Render
    BY <2>4, RenderKeeps
  <2>5. CASE UNCHANGED editVars
    BY <2>5 DEF EditIInv, EditTypeOK, CountsAgree, Rendered, editVars
  <2>. QED  BY <2>1, <2>2, <2>3, <2>4, <2>5 DEF EditNext
<1>. QED  BY EditStarts, <1>1, PTL DEF EditSpec

(* The state of a planning call has its types, and a plan is never what the *)
(* file was (edit.go:134-200, 292-431).                                    *)
THEOREM EditTypes == EditSpec => []EditTypeOK
<1>1. EditIInv => EditTypeOK
  BY DEF EditIInv
<1>. QED  BY <1>1, EditInvariant, PTL

(* applyCommands never finds another number of matches than the checks     *)
(* before it counted (edit.go:420): that error cannot happen.              *)
THEOREM CountsMatch == EditSpec => []CountsAgree
<1>1. EditIInv => CountsAgree
  BY DEF EditIInv
<1>. QED  BY <1>1, EditInvariant, PTL

-----------------------------------------------------------------------------
(* Searching a text that goes on.                                          *)
At(s, find, i) == IF OccursAt(s, find, i) THEN [from |-> i, to |-> i + Len(find)] ELSE NoMatch
Ats(s, find) == [i \in DOMAIN s |-> At(s, find, i)]
Spots == {NoMatch} \cup [from : Nat, to : Nat]

(* The symbols that line endings and marks are made of.                    *)
LEMMA Different == NL # CR /\ NL # Bom /\ CR # Bom /\ NL # Blank /\ CR # Blank
BY DEF NL, CR, Bom, Blank

(* A search is a scan of what occurs at each place.                        *)
LEMMA OccurrencesAre ==
  ASSUME NEW s, NEW find
  PROVE  Occurrences(s, find) = Scan(Ats(s, find))
BY Zenon DEF Occurrences, Ats, At

(* What occurs at a place.                                                 *)
LEMMA AtTyped ==
  ASSUME NEW s, NEW find, Len(find) \in Nat, NEW i \in Nat
  PROVE  At(s, find, i) \in Spots
<1>1. [from |-> i, to |-> i + Len(find)] \in [from : Nat, to : Nat]
  OBVIOUS
<1>. HIDE DEF NoMatch
<1>. QED  BY <1>1 DEF At, Spots

(* What occurs at each place.                                              *)
LEMMA AtsTyped ==
  ASSUME NEW X, NEW s \in Seq(X), NEW find, Len(find) \in Nat
  PROVE  Ats(s, find) \in Seq(Spots) /\ Len(Ats(s, find)) = Len(s) /\ \A i \in 1..Len(s) : Ats(s, find)[i] = At(s, find, i)
<1>1. Len(s) \in Nat /\ DOMAIN s = 1..Len(s)
  OBVIOUS
<1>2. \A i \in 1..Len(s) : At(s, find, i) \in Spots
  BY AtTyped
<1>3. Ats(s, find) = [i \in 1..Len(s) |-> At(s, find, i)]
  BY <1>1 DEF Ats
<1>. HIDE DEF Spots
<1>. QED  BY <1>1, <1>2, <1>3

(* What is found in the first part stays found.                            *)
LEMMA SearchGoesOn ==
  ASSUME NEW X, NEW u \in Seq(X), NEW c \in X, NEW find, Len(find) \in Nat,
         \A i \in 1..Len(u) : OccursAt(Append(u, c), find, i) <=> OccursAt(u, find, i)
  PROVE  Occurrences(Append(u, c), find) = Take(Occurrences(u, find), At(Append(u, c), find, Len(u)+1), Len(u)+1)
<1>. DEFINE r == Append(u, c)  a == At(r, find, Len(u)+1)  as == Ats(u, find)  bs == Ats(r, find)
<1>1. Len(u) \in Nat /\ r \in Seq(X) /\ Len(r) = Len(u)+1
  OBVIOUS
<1>2. as \in Seq(Spots) /\ Len(as) = Len(u) /\ \A i \in 1..Len(u) : as[i] = At(u, find, i)
  BY AtsTyped, Zenon
<1>h. \A i \in 1..Len(u) : At(r, find, i) = At(u, find, i)
  BY DEF At
<1>. HIDE DEF r
<1>3. bs \in Seq(Spots) /\ Len(bs) = Len(r) /\ \A i \in 1..Len(r) : bs[i] = At(r, find, i)
  BY <1>1, AtsTyped, Zenon
<1>4. a \in Spots
  BY <1>1, AtTyped
<1>. HIDE DEF as, bs, a
<1>5. bs = Append(as, a)
  <2>. DEFINE F == Spots
  <2>. HIDE DEF F
  <2>1. /\ Append(as, a) \in Seq(F) /\ Len(Append(as, a)) = Len(as)+1
        /\ \A j \in 1..Len(as) : Append(as, a)[j] = as[j]
        /\ Append(as, a)[Len(as)+1] = a
    BY <1>2, <1>4, AppendIs DEF F
  <2>2. \A j \in 1..Len(u)+1 : bs[j] = Append(as, a)[j]
    <3>. SUFFICES ASSUME NEW j \in 1..Len(u)+1 PROVE bs[j] = Append(as, a)[j]
      OBVIOUS
    <3>1. CASE j = Len(u)+1
      <4>1. j \in 1..Len(r)
        BY <1>1, <3>1
      <4>. QED  BY <1>2, <1>3, <2>1, <3>1, <4>1 DEF a
    <3>2. CASE j # Len(u)+1
      <4>1. j \in 1..Len(u) /\ j \in 1..Len(r)
        BY <1>1, <3>2
      <4>. QED  BY <1>2, <1>3, <1>h, <2>1, <4>1
    <3>. QED  BY <3>1, <3>2
  <2>3. bs \in Seq(F) /\ Len(bs) = Len(u)+1 /\ Len(Append(as, a)) = Len(u)+1 /\ Append(as, a) \in Seq(F)
    BY <1>1, <1>2, <1>3, <2>1 DEF F
  <2>. QED  BY ONLY <2>2, <2>3, SeqEqual
<1>6. Scan(bs) = Take(Scan(as), a, Len(u)+1)
  <2>1. Scan(Append(as, a)) = Take(Scan(as), a, Len(as)+1)
    BY ONLY <1>2, <1>4, ScanGrows, Zenon
  <2>. QED  BY <1>2, <1>5, <2>1
<1>7. Occurrences(u, find) = Scan(as) /\ Occurrences(r, find) = Scan(bs)
  BY OccurrencesAre, Zenon DEF as, bs
<1>8. Occurrences(r, find) = Take(Occurrences(u, find), a, Len(u)+1)
  BY <1>6, <1>7, Zenon
<1>. QED  BY <1>8, Zenon DEF r, a

(* A match that begins where the text ended is taken.                      *)
LEMMA TakesNext ==
  ASSUME NEW M, NEW ms \in Seq(M), NEW n \in Nat, Within(ms, n), NEW b \in Nat \ {0}
  PROVE  /\ Take(ms, [from |-> n+1, to |-> b], n+1) = Append(ms, [from |-> n+1, to |-> b])
         /\ Take(ms, NoMatch, n+1) = ms
<1>. DEFINE a == [from |-> n+1, to |-> b]
<1>1. a # NoMatch
  <2>1. a.to # 0
    OBVIOUS
  <2>2. NoMatch.to = 0
    BY DEF NoMatch
  <2>. QED  BY <2>1, <2>2
<1>2. ms = <<>> \/ ms[Len(ms)].to <= n+1
  <2>. SUFFICES ASSUME ms # <<>> PROVE ms[Len(ms)].to <= n+1
    OBVIOUS
  <2>1. Len(ms) \in DOMAIN ms
    OBVIOUS
  <2>2. ms[Len(ms)].to \in 1..n+1
    BY <2>1 DEF Within
  <2>. QED  BY <2>2
<1>. HIDE DEF a, NoMatch
<1>3. Take(ms, a, n+1) = Append(ms, a) /\ Take(ms, NoMatch, n+1) = ms
  BY <1>1, <1>2 DEF Take
<1>. QED  BY <1>3 DEF a

(* Where the two line endings occur.                                       *)
LEMMA NewlineOccurs ==
  ASSUME NEW X, NEW s \in Seq(X), NEW i \in 1..Len(s)
  PROVE  OccursAt(s, <<NL>>, i) <=> s[i] = NL
<1>. DEFINE f == <<NL>>
<1>1. Len(f) = 1 /\ DOMAIN f = {1} /\ f[1] = NL
  OBVIOUS
<1>2. i + 1 - 1 = i /\ i <= Len(s)
  OBVIOUS
<1>. HIDE DEF f
<1>3. OccursAt(s, f, i) <=> s[i] = NL
  BY <1>1, <1>2 DEF OccursAt
<1>. QED  BY <1>3 DEF f

(* Where CRLF occurs.                                                      *)
LEMMA PairOccurs ==
  ASSUME NEW X, NEW s \in Seq(X), NEW i \in 1..Len(s)
  PROVE  OccursAt(s, <<CR, NL>>, i) <=> i+1 <= Len(s) /\ s[i] = CR /\ s[i+1] = NL
<1>. DEFINE f == <<CR, NL>>
<1>1. Len(f) = 2 /\ DOMAIN f = {1, 2} /\ f[1] = CR /\ f[2] = NL
  OBVIOUS
<1>2. i + 1 - 1 = i /\ i + 2 - 1 = i + 1
  OBVIOUS
<1>. HIDE DEF f
<1>3. OccursAt(s, f, i) <=> i+1 <= Len(s) /\ s[i] = CR /\ s[i+1] = NL
  BY <1>1, <1>2 DEF OccursAt
<1>. QED  BY <1>3 DEF f
-----------------------------------------------------------------------------
(* Replacing in a text that goes on.                                       *)
LEMMA OccurrencesFound ==
  ASSUME NEW X, NEW s \in Seq(X), NEW Y, NEW find \in Seq(Y)
  PROVE  Occurrences(s, find) \in Seq(Spots) /\ Within(Occurrences(s, find), Len(s))
<1>1. Within(Occurrences(s, find), Len(s))
  BY OccurrencesTyped, Zenon
<1>2. Len(find) \in Nat
  OBVIOUS
<1>3. Ats(s, find) \in Seq(Spots)
  BY <1>2, AtsTyped, Zenon
<1>4. Scan(Ats(s, find)) \in Seq(Spots \ {NoMatch})
  BY <1>3, ScanTyped, Zenon
<1>5. Scan(Ats(s, find)) \in Seq(Spots)
  <2>. DEFINE A == Spots \ {NoMatch}  B == Spots  ms == Scan(Ats(s, find))
  <2>1. A \subseteq B /\ ms \in Seq(A)
    BY <1>4
  <2>. HIDE DEF A, B, ms
  <2>2. ms \in Seq(B)
    BY <2>1
  <2>. QED  BY <2>2 DEF B, ms
<1>. QED  BY <1>1, <1>5, OccurrencesAre, Zenon

ReplacesOn(s, c, find, new) == ReplaceText(Append(s, c), find, new) = Append(ReplaceText(s, find, new), c)
ReplacesNext(s, d, find, new) == ReplaceText(s \o d, find, new) = ReplaceText(s, find, new) \o new

(* If no match is new, the symbol that is new is kept.                     *)
LEMMA ReplaceGoesOn ==
  ASSUME NEW X, NEW s \in Seq(X), NEW c \in X, NEW Y, NEW find \in Seq(Y), NEW new \in Seq(X),
         Occurrences(Append(s, c), find) = Occurrences(s, find)
  PROVE  ReplacesOn(s, c, find, new)
<1>. DEFINE ms == Occurrences(s, find)  ns == [k \in DOMAIN ms |-> new]  r == Append(s, c)
<1>1. ms \in Seq(Spots) /\ Within(ms, Len(s))
  BY OccurrencesFound, Zenon
<1>2. ReplaceText(s, find, new) = Splice(s, ms, ns)
  BY Zenon DEF ReplaceText
<1>3. ReplaceText(r, find, new) = Splice(r, ms, ns)
  <2>1. ReplaceText(r, find, new) = Splice(r, Occurrences(r, find), [k \in DOMAIN Occurrences(r, find) |-> new])
    BY Zenon DEF ReplaceText
  <2>2. Occurrences(r, find) = ms
    OBVIOUS
  <2>. HIDE DEF r, ms
  <2>. QED  BY <2>1, <2>2
<1>4. \A k \in DOMAIN ms : ns[k] \in Seq(X)
  <2>. HIDE DEF ms
  <2>. QED  OBVIOUS
<1>. HIDE DEF ms, ns
<1>5. Splice(Append(s, c), ms, ns) = Append(Splice(s, ms, ns), c)
  <2>1. GoesOn(s, c, ms, ns)
    BY ONLY s \in Seq(X), c \in X, <1>1, <1>4, SpliceGoesOn, Zenon
  <2>. QED  BY <2>1, Zenon DEF GoesOn
<1>. QED  BY <1>2, <1>3, <1>5, Zenon DEF ReplacesOn, r

(* If the last match is new, it is replaced.                               *)
LEMMA ReplaceMeets ==
  ASSUME NEW X, NEW s \in Seq(X), NEW d \in Seq(X), NEW Y, NEW find \in Seq(Y), NEW new \in Seq(X),
         Occurrences(s \o d, find) = Append(Occurrences(s, find), [from |-> Len(s)+1, to |-> Len(s)+Len(d)+1])
  PROVE  ReplacesNext(s, d, find, new)
<1>. DEFINE ms == Occurrences(s, find)  ns == [k \in DOMAIN ms |-> new]  r == s \o d
            f == [from |-> Len(s)+1, to |-> Len(s)+Len(d)+1]
            ls == Append(ms, f)  os == [k \in DOMAIN ls |-> new]
<1>1. ms \in Seq(Spots) /\ Within(ms, Len(s))
  BY OccurrencesFound, Zenon
<1>2. ReplaceText(s, find, new) = Splice(s, ms, ns)
  BY Zenon DEF ReplaceText
<1>3. ReplaceText(r, find, new) = Splice(r, ls, os)
  <2>1. ReplaceText(r, find, new) = Splice(r, Occurrences(r, find), [k \in DOMAIN Occurrences(r, find) |-> new])
    BY Zenon DEF ReplaceText
  <2>2. Occurrences(r, find) = ls
    OBVIOUS
  <2>. HIDE DEF r, ls
  <2>. QED  BY <2>1, <2>2
<1>4. f \in Spots /\ f.from = Len(s)+1 /\ f.to = Len(s)+Len(d)+1
  BY DEF Spots
<1>. HIDE DEF ms, f, r
<1>5. Len(ms) \in Nat /\ DOMAIN ms = 1..Len(ms) /\ DOMAIN ls = 1..Len(ms)+1
  <2>. DEFINE F == Spots
  <2>1. ms \in Seq(F) /\ f \in F
    BY <1>1, <1>4
  <2>. HIDE DEF F
  <2>. QED  BY <2>1
<1>. HIDE DEF ls
<1>6. (\A k \in DOMAIN ms : ns[k] \in Seq(X)) /\ os[Len(ms)+1] = new /\ \A k \in DOMAIN ms : os[k] = ns[k]
  <2>1. Len(ms)+1 \in DOMAIN ls /\ \A k \in DOMAIN ms : k \in DOMAIN ls
    BY <1>5
  <2>. QED  BY <2>1
<1>. HIDE DEF ns, os
<1>7. Splice(s \o d, Append(ms, f), os) = Splice(s, ms, ns) \o new
  <2>1. Meets(s, d, ms, f, ns, os, new)
    BY ONLY s \in Seq(X), d \in Seq(X), new \in Seq(X), <1>1, <1>4, <1>6, SpliceMeets, Zenon
  <2>. QED  BY <2>1, Zenon DEF Meets
<1>. QED  BY <1>2, <1>3, <1>7, Zenon DEF ReplacesNext, r, ls

(* In an empty text there is nothing to replace.                           *)
LEMMA ReplaceInNothing ==
  ASSUME NEW Y, NEW find \in Seq(Y), NEW new
  PROVE  ReplaceText(<<>>, find, new) = <<>>
<1>. DEFINE e == <<>>  ms == Occurrences(e, find)  ns == [k \in DOMAIN ms |-> new]
<1>1. e \in Seq({}) /\ Len(e) = 0 /\ Len(find) \in Nat
  OBVIOUS
<1>. HIDE DEF e
<1>2. Ats(e, find) = e
  <2>1. Ats(e, find) \in Seq(Spots) /\ Len(Ats(e, find)) = 0
    BY <1>1, AtsTyped
  <2>2. \A t \in Seq(Spots) : Len(t) = 0 => t = <<>>
    <3>. HIDE DEF Spots
    <3>. QED  OBVIOUS
  <2>. QED  BY <2>1, <2>2 DEF e
<1>3. Scan(e) = e
  <2>1. 0 \in {0}
    OBVIOUS
  <2>2. <<>> \in Seq({0})
    OBVIOUS
  <2>. QED  BY <2>1, <2>2, ScanGrows, Zenon DEF e
<1>4. ms = e
  BY <1>2, <1>3, OccurrencesAre
<1>5. ReplaceText(e, find, new) = Splice(e, ms, ns)
  BY Zenon DEF ReplaceText
<1>. HIDE DEF ms
<1>6. Pieces(e, e, ns) = e
  <2>1. DOMAIN e = {}
    BY <1>1
  <2>2. DOMAIN Pieces(e, e, ns) = {} /\ Pieces(e, e, ns) = [k \in {} |-> SubSeq(e, EndAfter(e, k-1), e[k].from - 1) \o ns[k]]
    BY <2>1 DEF Pieces
  <2>3. Pieces(e, e, ns) \in Seq({}) /\ Len(Pieces(e, e, ns)) = 0
    <3>1. 1..0 = {}
      OBVIOUS
    <3>2. Pieces(e, e, ns) = [k \in 1..0 |-> SubSeq(e, EndAfter(e, k-1), e[k].from - 1) \o ns[k]]
      BY <2>2, <3>1
    <3>. DEFINE g(k) == SubSeq(e, EndAfter(e, k-1), e[k].from - 1) \o ns[k]
    <3>. HIDE DEF g
    <3>3. [k \in 1..0 |-> g(k)] \in Seq({}) /\ Len([k \in 1..0 |-> g(k)]) = 0
      OBVIOUS
    <3>. QED  BY <3>2, <3>3 DEF g
  <2>4. \A t \in Seq({}) : Len(t) = 0 => t = <<>>
    OBVIOUS
  <2>. QED  BY <2>3, <2>4 DEF e
<1>7. Concat(e) = e
  <2>1. <<>> \in Seq({})
    OBVIOUS
  <2>2. <<>> \in Seq(Seq({}))
    OBVIOUS
  <2>. QED  BY <2>1, <2>2, ConcatGrows, Zenon DEF e
<1>8. EndAfter(e, Len(e)) = 1
  BY <1>1 DEF EndAfter
<1>9. SubSeq(e, 1, 0) = e
  BY DEF e
<1>10. e \o e = e
  BY DEF e
<1>. HIDE DEF ns
<1>11. Splice(e, e, ns) = Concat(Pieces(e, e, ns)) \o SubSeq(e, EndAfter(e, Len(e)), Len(e))
  BY SpliceIs, Zenon
<1>12. Splice(e, e, ns) = e
  BY <1>1, <1>6, <1>7, <1>8, <1>9, <1>10, <1>11
<1>13. ReplaceText(e, find, new) = e
  BY <1>4, <1>5, <1>12
<1>. QED  BY <1>13 DEF e
-----------------------------------------------------------------------------
(* Writing newlines, symbol by symbol.                                     *)
AnyText == Seq(Symbol)
WrittenWith(t, nl) == ReplaceText(t, <<NL>>, nl)

(* Both line endings are texts.                                            *)
LEMMA EndingsAreTexts == <<NL>> \in AnyText /\ <<CR, NL>> \in AnyText
BY Endings DEF AnyText, PlatformLineEndings

(* What is written is a text.                                              *)
LEMMA WrittenTyped ==
  ASSUME NEW t \in AnyText, NEW nl \in AnyText
  PROVE  WrittenWith(t, nl) \in AnyText
BY EndingsAreTexts, ReplaceTyped, Zenon DEF WrittenWith, AnyText

(* Writing goes symbol by symbol.                                          *)
LEMMA WritesMore ==
  ASSUME NEW t \in AnyText, NEW c \in Symbol, NEW nl \in AnyText
  PROVE  WrittenWith(Append(t, c), nl) = IF c = NL THEN WrittenWith(t, nl) \o nl ELSE Append(WrittenWith(t, nl), c)
<1>. DEFINE r == Append(t, c)  n == Len(t)  f == <<NL>>  ms == Occurrences(t, f)
<1>1. t \in Seq(Symbol) /\ r \in Seq(Symbol) /\ Len(r) = n+1 /\ r[n+1] = c /\ \A i \in 1..n : r[i] = t[i]
  BY DEF AnyText
<1>n. n \in Nat
  BY DEF AnyText
<1>f. f \in Seq(Symbol) /\ Len(f) = 1
  BY EndingsAreTexts DEF AnyText
<1>. HIDE DEF r
<1>2. \A i \in 1..n+1 : OccursAt(r, f, i) <=> r[i] = NL
  BY <1>1, NewlineOccurs
<1>3. \A i \in 1..n : OccursAt(t, f, i) <=> t[i] = NL
  BY <1>1, NewlineOccurs
<1>4. \A i \in 1..n : OccursAt(r, f, i) <=> OccursAt(t, f, i)
  <2>1. \A i \in 1..n : i \in 1..n+1
    BY <1>n
  <2>. QED  BY <1>1, <1>2, <1>3, <2>1
<1>. HIDE DEF f
<1>5. Occurrences(r, f) = Take(ms, At(r, f, n+1), n+1)
  <2>1. Len(f) \in Nat
    BY <1>f
  <2>2. \A i \in 1..Len(t) : OccursAt(Append(t, c), f, i) <=> OccursAt(t, f, i)
    BY <1>4 DEF r
  <2>. QED  BY ONLY <1>1, c \in Symbol, <2>1, <2>2, SearchGoesOn, Zenon DEF r, ms, n
<1>6. ms \in Seq(Spots) /\ Within(ms, n)
  BY <1>1, <1>f, OccurrencesFound, Zenon
<1>. HIDE DEF ms
<1>7. CASE c = NL
  <2>1. At(r, f, n+1) = [from |-> n+1, to |-> n+2]
    <3>1. n+1 \in 1..n+1 /\ (n+1)+1 = n+2
      BY <1>n
    <3>2. OccursAt(r, f, n+1)
      BY <1>1, <1>2, <1>7, <3>1
    <3>. QED  BY <1>f, <3>1, <3>2 DEF At
  <2>2. Occurrences(r, f) = Append(ms, [from |-> n+1, to |-> n+2])
    <3>1. n+2 \in Nat \ {0}
      BY <1>n
    <3>2. Take(ms, [from |-> n+1, to |-> n+2], n+1) = Append(ms, [from |-> n+1, to |-> n+2])
      BY ONLY <1>6, <1>n, <3>1, TakesNext
    <3>. QED  BY <1>5, <2>1, <3>2
  <2>3. r = t \o f
    BY <1>1, <1>7 DEF r, f
  <2>4. Occurrences(t \o f, f) = Append(Occurrences(t, f), [from |-> Len(t)+1, to |-> Len(t)+Len(f)+1])
    <3>1. n+2 = n+1+1
      BY <1>n
    <3>. QED  BY <1>f, <2>2, <2>3, <3>1 DEF ms, n
  <2>5. ReplaceText(t \o f, f, nl) = ReplaceText(t, f, nl) \o nl
    <3>1. nl \in Seq(Symbol)
      BY DEF AnyText
    <3>2. ReplacesNext(t, f, f, nl)
      BY ONLY <1>1, <1>f, <2>4, <3>1, ReplaceMeets, Zenon
    <3>. QED  BY <3>2, Zenon DEF ReplacesNext
  <2>. QED  BY <1>7, <2>3, <2>5 DEF WrittenWith, r, f
<1>8. CASE c # NL
  <2>1. At(r, f, n+1) = NoMatch
    <3>1. n+1 \in 1..n+1
      BY <1>n
    <3>2. ~OccursAt(r, f, n+1)
      BY <1>1, <1>2, <1>8, <3>1
    <3>. QED  BY <3>2 DEF At
  <2>2. Occurrences(r, f) = ms
    <3>1. 1 \in Nat \ {0}
      OBVIOUS
    <3>2. Take(ms, NoMatch, n+1) = ms
      BY ONLY <1>6, <1>n, <3>1, TakesNext
    <3>. QED  BY <1>5, <2>1, <3>2
  <2>3. ReplaceText(Append(t, c), f, nl) = Append(ReplaceText(t, f, nl), c)
    <3>1. nl \in Seq(Symbol)
      BY DEF AnyText
    <3>2. Occurrences(Append(t, c), f) = Occurrences(t, f)
      BY <2>2 DEF r, ms
    <3>3. ReplacesOn(t, c, f, nl)
      BY ONLY <1>1, c \in Symbol, <1>f, <3>1, <3>2, ReplaceGoesOn, Zenon
    <3>. QED  BY <3>3, Zenon DEF ReplacesOn
  <2>. QED  BY <1>8, <2>3 DEF WrittenWith, r, f
<1>. QED  BY <1>7, <1>8, Zenon DEF r

(* An empty text is written as one.                                        *)
LEMMA WritesNothing ==
  ASSUME NEW nl
  PROVE  WrittenWith(<<>>, nl) = <<>>
BY EndingsAreTexts, ReplaceInNothing, Zenon DEF WrittenWith, AnyText

(* Two texts are written one after the other.                              *)
LEMMA WritesBoth ==
  ASSUME NEW s \in AnyText, NEW nl \in AnyText
  PROVE  \A t \in AnyText : WrittenWith(s \o t, nl) = WrittenWith(s, nl) \o WrittenWith(t, nl)
<1>. DEFINE S == {t \in AnyText : WrittenWith(s \o t, nl) = WrittenWith(s, nl) \o WrittenWith(t, nl)}
<1>0. WrittenWith(s, nl) \in AnyText
  BY WrittenTyped
<1>1. <<>> \in S
  <2>. DEFINE e == <<>>
  <2>1. e \in AnyText /\ s \o e = s /\ WrittenWith(s, nl) \o e = WrittenWith(s, nl)
    BY <1>0 DEF AnyText
  <2>2. WrittenWith(e, nl) = e
    BY WritesNothing
  <2>. HIDE DEF e
  <2>3. e \in S
    BY <2>1, <2>2
  <2>. QED  BY <2>3 DEF e
<1>2. ASSUME NEW t \in AnyText, NEW c \in Symbol, t \in S PROVE Append(t, c) \in S
  <2>1. WrittenWith(s \o t, nl) = WrittenWith(s, nl) \o WrittenWith(t, nl) /\ WrittenWith(t, nl) \in AnyText
    BY <1>2, WrittenTyped
  <2>2. s \o t \in AnyText /\ Append(t, c) \in AnyText /\ s \o Append(t, c) = Append(s \o t, c)
    BY DEF AnyText
  <2>3. CASE c = NL
    <3>1. WrittenWith(Append(s \o t, c), nl) = WrittenWith(s \o t, nl) \o nl
      BY <2>2, <2>3, WritesMore
    <3>2. WrittenWith(Append(t, c), nl) = WrittenWith(t, nl) \o nl
      BY <2>3, WritesMore
    <3>3. (WrittenWith(s, nl) \o WrittenWith(t, nl)) \o nl = WrittenWith(s, nl) \o (WrittenWith(t, nl) \o nl)
      BY ONLY <1>0, <2>1, nl \in AnyText, ConcatAssociative, SMT DEF AnyText
    <3>4. WrittenWith(s \o Append(t, c), nl) = WrittenWith(s, nl) \o WrittenWith(Append(t, c), nl)
      BY <2>1, <2>2, <3>1, <3>2, <3>3, Zenon
    <3>. QED  BY <2>2, <3>4
  <2>4. CASE c # NL
    <3>1. WrittenWith(Append(s \o t, c), nl) = Append(WrittenWith(s \o t, nl), c)
      BY <2>2, <2>4, WritesMore
    <3>2. WrittenWith(Append(t, c), nl) = Append(WrittenWith(t, nl), c)
      BY <2>4, WritesMore
    <3>3. Append(WrittenWith(s, nl) \o WrittenWith(t, nl), c) = WrittenWith(s, nl) \o Append(WrittenWith(t, nl), c)
      <4>1. \A u \in AnyText, w \in AnyText : u \o Append(w, c) = Append(u \o w, c)
        <5>1. c \in Symbol
          OBVIOUS
        <5>. QED  BY ONLY <5>1 DEF AnyText
      <4>. QED  BY <1>0, <2>1, <4>1
    <3>4. WrittenWith(s \o Append(t, c), nl) = WrittenWith(s, nl) \o WrittenWith(Append(t, c), nl)
      BY <2>1, <2>2, <3>1, <3>2, <3>3, Zenon
    <3>. QED  BY <2>2, <3>4
  <2>. QED  BY <2>3, <2>4
<1>3. \A t \in AnyText : t \in S
  <2>. HIDE DEF S
  <2>. QED  BY <1>1, <1>2, SequencesGrow DEF AnyText
<1>. QED  BY <1>3
-----------------------------------------------------------------------------
(* Reading line endings, symbol by symbol.                                 *)
LEMMA ReadsMore ==
  ASSUME NEW t \in AnyText, NEW c \in Symbol, c # NL \/ t = <<>> \/ t[Len(t)] # CR
  PROVE  NewLines(Append(t, c)) = Append(NewLines(t), c)
<1>. DEFINE r == Append(t, c)  n == Len(t)  f == <<CR, NL>>  nl == <<NL>>  ms == Occurrences(t, f)
<1>1. t \in Seq(Symbol) /\ r \in Seq(Symbol) /\ Len(r) = n+1 /\ r[n+1] = c /\ \A i \in 1..n : r[i] = t[i]
  BY DEF AnyText
<1>n. n \in Nat
  BY DEF AnyText
<1>l. n \in 1..n => t[n] # CR \/ c # NL
  <2>. SUFFICES ASSUME n \in 1..n PROVE t[n] # CR \/ c # NL
    OBVIOUS
  <2>1. t # <<>>
    BY <1>n
  <2>. QED  BY <2>1
<1>f. f \in Seq(Symbol) /\ nl \in Seq(Symbol)
  BY EndingsAreTexts DEF AnyText
<1>g. Len(f) \in Nat
  OBVIOUS
<1>. HIDE DEF r
<1>2. \A i \in 1..n+1 : OccursAt(r, f, i) <=> i+1 <= n+1 /\ r[i] = CR /\ r[i+1] = NL
  BY <1>1, PairOccurs
<1>3. \A i \in 1..n : OccursAt(t, f, i) <=> i+1 <= n /\ t[i] = CR /\ t[i+1] = NL
  BY <1>1, PairOccurs
<1>. HIDE DEF f
<1>4. \A i \in 1..n : OccursAt(r, f, i) <=> OccursAt(t, f, i)
  <2>. SUFFICES ASSUME NEW i \in 1..n PROVE OccursAt(r, f, i) <=> OccursAt(t, f, i)
    OBVIOUS
  <2>1. i \in 1..n+1 /\ (i+1 <= n+1)
    BY <1>n
  <2>2. CASE i = n
    <3>1. ~(i+1 <= n) /\ n \in 1..n /\ i+1 = n+1
      BY <1>n, <2>2
    <3>2. ~(r[i] = CR /\ r[i+1] = NL)
      BY <1>1, <1>l, <2>2, <3>1
    <3>. QED  BY <1>2, <1>3, <2>1, <3>1, <3>2
  <2>3. CASE i # n
    <3>1. i+1 \in 1..n /\ i+1 <= n
      BY <1>n, <2>3
    <3>2. r[i] = t[i] /\ r[i+1] = t[i+1]
      BY <1>1, <3>1
    <3>. QED  BY <1>2, <1>3, <2>1, <3>1, <3>2
  <2>. QED  BY <2>2, <2>3
<1>5. Occurrences(r, f) = Take(ms, At(r, f, n+1), n+1)
  <2>1. \A i \in 1..Len(t) : OccursAt(Append(t, c), f, i) <=> OccursAt(t, f, i)
    BY <1>4 DEF r
  <2>. QED  BY ONLY <1>1, c \in Symbol, <1>g, <2>1, SearchGoesOn, Zenon DEF r, ms, n
<1>6. ms \in Seq(Spots) /\ Within(ms, n)
  BY <1>1, <1>f, OccurrencesFound, Zenon
<1>. HIDE DEF ms
<1>7. At(r, f, n+1) = NoMatch
  <2>1. n+1 \in 1..n+1 /\ ~((n+1)+1 <= n+1)
    BY <1>n
  <2>2. ~OccursAt(r, f, n+1)
    BY <1>2, <2>1
  <2>. QED  BY <2>2 DEF At
<1>8. Occurrences(r, f) = ms
  <2>1. 1 \in Nat \ {0}
    OBVIOUS
  <2>2. Take(ms, NoMatch, n+1) = ms
    BY ONLY <1>6, <1>n, <2>1, TakesNext
  <2>. QED  BY <1>5, <1>7, <2>2
<1>9. Occurrences(Append(t, c), f) = Occurrences(t, f)
  BY <1>8 DEF r, ms
<1>. HIDE DEF nl
<1>10. ReplacesOn(t, c, f, nl)
  BY ONLY <1>1, c \in Symbol, <1>f, <1>9, ReplaceGoesOn, Zenon
<1>. QED  BY <1>10, Zenon DEF ReplacesOn, NewLines, f, nl

(* CRLF is read as LF.                                                     *)
LEMMA ReadsPair ==
  ASSUME NEW t \in AnyText
  PROVE  NewLines(t \o <<CR, NL>>) = Append(NewLines(t), NL)
<1>. DEFINE f == <<CR, NL>>  nl == <<NL>>  r == t \o f  n == Len(t)  ms == Occurrences(t, f)
            u == Append(t, CR)
<1>f. f \in Seq(Symbol) /\ nl \in Seq(Symbol)
  BY EndingsAreTexts DEF AnyText
<1>g. Len(f) = 2 /\ f[1] = CR /\ f[2] = NL /\ Len(f) \in Nat
  OBVIOUS
<1>n. n \in Nat
  BY DEF AnyText
<1>1. t \in Seq(Symbol)
  BY DEF AnyText
<1>u. u \in Seq(Symbol) /\ Len(u) = n+1 /\ u[n+1] = CR /\ \A i \in 1..n : u[i] = t[i]
  BY <1>1, Marks
<1>r. r = Append(u, NL)
  <2>1. r = Append(Append(t, CR), NL)
    BY <1>1
  <2>. QED  BY <2>1
<1>2. r \in Seq(Symbol) /\ Len(r) = n+2 /\ r[n+2] = NL /\ \A i \in 1..n+1 : r[i] = u[i]
  <2>. HIDE DEF r, u
  <2>1. (n+1)+1 = n+2
    BY <1>n
  <2>. QED  BY <1>u, <1>r, <2>1, Marks
<1>. HIDE DEF r, u
<1>3. \A i \in 1..n+2 : OccursAt(r, f, i) <=> i+1 <= n+2 /\ r[i] = CR /\ r[i+1] = NL
  BY <1>2, PairOccurs
<1>4. \A i \in 1..n+1 : OccursAt(u, f, i) <=> i+1 <= n+1 /\ u[i] = CR /\ u[i+1] = NL
  BY <1>u, PairOccurs
<1>5. \A i \in 1..n : OccursAt(t, f, i) <=> i+1 <= n /\ t[i] = CR /\ t[i+1] = NL
  BY <1>1, PairOccurs
<1>. HIDE DEF f
<1>d. CR # NL
  BY Different
<1>6. \A i \in 1..n : OccursAt(u, f, i) <=> OccursAt(t, f, i)
  <2>. SUFFICES ASSUME NEW i \in 1..n PROVE OccursAt(u, f, i) <=> OccursAt(t, f, i)
    OBVIOUS
  <2>1. i \in 1..n+1 /\ (i+1 <= n+1)
    BY <1>n
  <2>2. CASE i = n
    <3>1. ~(i+1 <= n) /\ i+1 = n+1
      BY <1>n, <2>2
    <3>. QED  BY <1>4, <1>5, <1>u, <1>d, <2>1, <3>1
  <2>3. CASE i # n
    <3>1. i+1 \in 1..n /\ i+1 <= n
      BY <1>n, <2>3
    <3>. QED  BY <1>4, <1>5, <1>u, <2>1, <3>1
  <2>. QED  BY <2>2, <2>3
<1>7. OccursAt(r, f, n+1) /\ ~OccursAt(r, f, n+2) /\ ~OccursAt(u, f, n+1)
  <2>1. n+1 \in 1..n+1 /\ n+1 \in 1..n+2 /\ n+2 \in 1..n+2 /\ (n+1)+1 = n+2 /\ ~((n+2)+1 <= n+2) /\ ~((n+1)+1 <= n+1) /\ n+2 <= n+2
    BY <1>n
  <2>. QED  BY <1>2, <1>3, <1>4, <1>u, <2>1
<1>8. \A i \in 1..n : OccursAt(r, f, i) <=> OccursAt(u, f, i)
  <2>. SUFFICES ASSUME NEW i \in 1..n PROVE OccursAt(r, f, i) <=> OccursAt(u, f, i)
    OBVIOUS
  <2>1. i \in 1..n+2 /\ i \in 1..n+1 /\ i+1 \in 1..n+1 /\ i+1 <= n+1 /\ i+1 <= n+2
    BY <1>n
  <2>. QED  BY <1>2, <1>3, <1>4, <2>1
<1>. DEFINE as == Ats(t, f)  bs == Ats(r, f)  m == [from |-> n+1, to |-> n+3]
<1>9. as \in Seq(Spots) /\ Len(as) = n /\ \A i \in 1..n : as[i] = At(t, f, i)
  BY <1>1, <1>g, AtsTyped
<1>10. bs \in Seq(Spots) /\ Len(bs) = n+2 /\ \A i \in 1..n+2 : bs[i] = At(r, f, i)
  BY <1>2, <1>g, AtsTyped
<1>11. \A i \in 1..n : At(r, f, i) = At(t, f, i)
  BY <1>6, <1>8 DEF At
<1>12. At(r, f, n+1) = m /\ At(r, f, n+2) = NoMatch
  <2>1. (n+1)+2 = n+3
    BY <1>n
  <2>. HIDE DEF NoMatch
  <2>. QED  BY <1>7, <1>g, <2>1 DEF At
<1>13. m \in Spots /\ NoMatch \in Spots
  <2>1. m \in [from : Nat, to : Nat]
    BY <1>n
  <2>. HIDE DEF m, NoMatch
  <2>. QED  BY <2>1 DEF Spots
<1>. HIDE DEF as, bs, m, NoMatch
<1>14. bs = Append(Append(as, m), NoMatch)
  <2>. DEFINE F == Spots  cs == Append(Append(as, m), NoMatch)
  <2>0. as \in Seq(F) /\ m \in F /\ NoMatch \in F /\ Len(as) = n /\ n \in Nat
    BY <1>9, <1>13, <1>n
  <2>. HIDE DEF F
  <2>1. cs \in Seq(F) /\ Len(cs) = n+2 /\ cs[n+2] = NoMatch /\ cs[n+1] = m /\ \A i \in 1..n : cs[i] = as[i]
    <3>. DEFINE ds == Append(as, m)
    <3>1. ds \in Seq(F) /\ Len(ds) = n+1 /\ ds[n+1] = m /\ \A i \in 1..n : ds[i] = as[i]
      <4>1. /\ ds \in Seq(F) /\ Len(ds) = Len(as)+1 /\ ds[Len(as)+1] = m
            /\ \A i \in 1..Len(as) : ds[i] = as[i]
        <5>1. as \in Seq(F) /\ m \in F
          BY <2>0
        <5>2. /\ Append(as, m) \in Seq(F) /\ Len(Append(as, m)) = Len(as)+1
              /\ \A i \in 1..Len(as) : Append(as, m)[i] = as[i]
              /\ Append(as, m)[Len(as)+1] = m
          BY ONLY <5>1, AppendIs
        <5>. QED  BY <5>2
      <4>. HIDE DEF ds
      <4>. QED  BY <2>0, <4>1
    <3>. HIDE DEF ds
    <3>2. n+1 \in 1..n+1 /\ (n+1)+1 = n+2 /\ \A i \in 1..n : i \in 1..n+1
      BY <1>n
    <3>3. /\ Append(ds, NoMatch) \in Seq(F) /\ Len(Append(ds, NoMatch)) = n+2 /\ Append(ds, NoMatch)[n+2] = NoMatch
          /\ \A i \in 1..n+1 : Append(ds, NoMatch)[i] = ds[i]
      BY <2>0, <3>1, <3>2
    <3>. HIDE DEF cs
    <3>4. cs = Append(ds, NoMatch)
      BY DEF cs, ds
    <3>. QED  BY <3>1, <3>2, <3>3, <3>4
  <2>. HIDE DEF cs
  <2>2. \A i \in 1..n+2 : bs[i] = cs[i]
    <3>. SUFFICES ASSUME NEW i \in 1..n+2 PROVE bs[i] = cs[i]
      OBVIOUS
    <3>1. i \in 1..n \/ i = n+1 \/ i = n+2
      BY <1>n
    <3>. QED  BY <1>9, <1>10, <1>11, <1>12, <2>1, <3>1
  <2>3. bs \in Seq(F) /\ Len(bs) = Len(cs) /\ Len(bs) = n+2
    BY <1>10, <2>1 DEF F
  <2>4. bs = cs
    BY ONLY <2>1, <2>2, <2>3, SeqEqual
  <2>. QED  BY <2>4 DEF cs
<1>15. ms \in Seq(Spots) /\ Within(ms, n) /\ ms = Scan(as)
  BY <1>1, <1>f, OccurrencesFound, OccurrencesAre, Zenon DEF as
<1>. HIDE DEF ms
<1>16. Scan(bs) = Append(ms, m)
  <2>1. Scan(Append(as, m)) = Take(Scan(as), m, Len(as)+1)
    BY ONLY <1>9, <1>13, ScanGrows, Zenon
  <2>2. Take(ms, m, n+1) = Append(ms, m)
    <3>1. n+3 \in Nat \ {0}
      BY <1>n
    <3>2. ms \in Seq(Spots) /\ Within(ms, n)
      BY <1>15
    <3>3. Take(ms, [from |-> n+1, to |-> n+3], n+1) = Append(ms, [from |-> n+1, to |-> n+3])
      BY ONLY <3>2, <1>n, <3>1, TakesNext
    <3>. QED  BY <3>3, Zenon DEF m
  <2>3. Append(as, m) \in Seq(Spots) /\ Len(Append(as, m)) = n+1
    <3>. DEFINE F == Spots
    <3>1. as \in Seq(F) /\ m \in F
      BY <1>9, <1>13
    <3>. HIDE DEF F
    <3>2. Append(as, m) \in Seq(F) /\ Len(Append(as, m)) = n+1
      <4>1. Append(as, m) \in Seq(F) /\ Len(Append(as, m)) = Len(as)+1
        BY ONLY <3>1, AppendIs
      <4>2. Len(as) = n
        BY <1>9
      <4>. QED  BY <4>1, <4>2
    <3>. QED  BY <3>2 DEF F
  <2>. DEFINE ds == Append(as, m)
  <2>. HIDE DEF ds
  <2>4. Scan(Append(ds, NoMatch)) = Take(Scan(ds), NoMatch, Len(ds)+1)
    BY ONLY <2>3, <1>13, ScanGrows, Zenon DEF ds
  <2>5. Scan(ds) = Append(ms, m) /\ Len(ds) = n+1
    BY <1>9, <1>15, <2>1, <2>2, <2>3 DEF ds
  <2>6. Take(Append(ms, m), NoMatch, (n+1)+1) = Append(ms, m)
    BY DEF Take
  <2>. QED  BY <1>14, <2>4, <2>5, <2>6 DEF ds
<1>17. Occurrences(r, f) = Append(ms, m)
  BY <1>16, OccurrencesAre, Zenon DEF bs
<1>18. Occurrences(t \o f, f) = Append(Occurrences(t, f), [from |-> Len(t)+1, to |-> Len(t)+Len(f)+1])
  <2>1. n+3 = n+2+1
    BY <1>n
  <2>. QED  BY <1>17, <1>g, <2>1 DEF r, ms, m, n
<1>. HIDE DEF nl
<1>19. ReplacesNext(t, f, f, nl)
  BY ONLY <1>1, <1>f, <1>18, ReplaceMeets, Zenon
<1>20. NewLines(t \o f) = NewLines(t) \o nl
  BY <1>19, Zenon DEF ReplacesNext, NewLines, f, nl
<1>21. NewLines(t) \in Seq(Symbol)
  BY <1>1, NewLinesTyped
<1>22. \A w \in Seq(Symbol) : w \o <<NL>> = Append(w, NL)
  BY Marks
<1>. QED  BY <1>20, <1>21, <1>22 DEF f, nl
-----------------------------------------------------------------------------
(* AnyText without a carriage return are read as they are.                   *)
NoReturn(t) == \A i \in DOMAIN t : t[i] # CR

(* A text without CR had none before.                                      *)
LEMMA NoReturnGrows ==
  ASSUME NEW t \in AnyText, NEW c \in Symbol, NoReturn(Append(t, c))
  PROVE  NoReturn(t) /\ c # CR /\ (t = <<>> \/ t[Len(t)] # CR)
<1>. DEFINE r == Append(t, c)
<1>1. Len(t) \in Nat /\ DOMAIN t = 1..Len(t) /\ DOMAIN r = 1..Len(t)+1 /\ r[Len(t)+1] = c /\ \A i \in 1..Len(t) : r[i] = t[i]
  BY DEF AnyText
<1>2. \A i \in DOMAIN r : r[i] # CR
  BY DEF NoReturn
<1>. HIDE DEF r
<1>3. Len(t)+1 \in 1..Len(t)+1 /\ \A i \in 1..Len(t) : i \in 1..Len(t)+1
  BY <1>1
<1>4. NoReturn(t) /\ c # CR
  BY <1>1, <1>2, <1>3 DEF NoReturn
<1>5. t = <<>> \/ Len(t) \in DOMAIN t
  BY DEF AnyText
<1>. QED  BY <1>4, <1>5 DEF NoReturn

(* An empty text is read as one.                                           *)
LEMMA ReadsNothing == NewLines(<<>>) = <<>>
BY EndingsAreTexts, ReplaceInNothing, Zenon DEF NewLines, AnyText

(* A text without CR is read as it is.                                     *)
LEMMA ReadsAsItIs == \A t \in AnyText : NoReturn(t) => NewLines(t) = t
<1>. DEFINE S == {t \in AnyText : NoReturn(t) => NewLines(t) = t}
<1>1. <<>> \in S
  <2>1. <<>> \in AnyText
    BY DEF AnyText
  <2>. QED  BY <2>1, ReadsNothing
<1>2. ASSUME NEW t \in AnyText, NEW c \in Symbol, t \in S PROVE Append(t, c) \in S
  <2>1. Append(t, c) \in AnyText
    BY DEF AnyText
  <2>2. NoReturn(Append(t, c)) => NewLines(Append(t, c)) = Append(t, c)
    <3>. SUFFICES ASSUME NoReturn(Append(t, c)) PROVE NewLines(Append(t, c)) = Append(t, c)
      OBVIOUS
    <3>1. NoReturn(t) /\ (t = <<>> \/ t[Len(t)] # CR)
      BY NoReturnGrows, Zenon
    <3>2. NewLines(Append(t, c)) = Append(NewLines(t), c)
      BY <3>1, ReadsMore, Zenon
    <3>. QED  BY <1>2, <3>1, <3>2
  <2>. QED  BY <2>1, <2>2
<1>3. \A t \in AnyText : t \in S
  <2>. HIDE DEF S
  <2>. QED  BY <1>1, <1>2, SequencesGrow DEF AnyText
<1>. QED  BY <1>3

(* What is written with one line ending of the two is read back.           *)
LEMMA WritesSame == \A t \in AnyText : WrittenWith(t, <<NL>>) = t
<1>. DEFINE nl == <<NL>>  S == {t \in AnyText : WrittenWith(t, nl) = t}
<1>0. nl \in AnyText
  BY EndingsAreTexts
<1>1. <<>> \in S
  <2>1. <<>> \in AnyText
    BY DEF AnyText
  <2>. QED  BY <2>1, WritesNothing
<1>2. ASSUME NEW t \in AnyText, NEW c \in Symbol, t \in S PROVE Append(t, c) \in S
  <2>1. Append(t, c) \in AnyText /\ t \o <<NL>> = Append(t, NL)
    BY Marks DEF AnyText
  <2>. HIDE DEF nl
  <2>2. WrittenWith(Append(t, c), nl) = IF c = NL THEN WrittenWith(t, nl) \o nl ELSE Append(WrittenWith(t, nl), c)
    BY <1>0, WritesMore
  <2>3. WrittenWith(Append(t, c), nl) = Append(t, c)
    <3>1. t \o nl = Append(t, NL)
      BY <2>1 DEF nl
    <3>. QED  BY <1>2, <2>2, <3>1
  <2>. QED  BY <2>1, <2>3
<1>3. \A t \in AnyText : t \in S
  <2>. HIDE DEF S
  <2>. QED  BY <1>1, <1>2, SequencesGrow DEF AnyText
<1>. QED  BY <1>3

(* What is written with CRLF is read back.                                 *)
LEMMA ReadsWhatIsWritten == \A t \in AnyText : NoReturn(t) => NewLines(WrittenWith(t, <<CR, NL>>)) = t
<1>. DEFINE nl == <<CR, NL>>  S == {t \in AnyText : NoReturn(t) => NewLines(WrittenWith(t, nl)) = t}
<1>0. nl \in AnyText
  BY EndingsAreTexts
<1>1. <<>> \in S
  <2>1. <<>> \in AnyText
    BY DEF AnyText
  <2>2. NewLines(WrittenWith(<<>>, nl)) = <<>>
    BY WritesNothing, ReadsNothing
  <2>. QED  BY <2>1, <2>2
<1>2. ASSUME NEW t \in AnyText, NEW c \in Symbol, t \in S PROVE Append(t, c) \in S
  <2>1. Append(t, c) \in AnyText
    BY DEF AnyText
  <2>. SUFFICES ASSUME NoReturn(Append(t, c)) PROVE NewLines(WrittenWith(Append(t, c), nl)) = Append(t, c)
    BY <2>1
  <2>2. NoReturn(t)
    BY NoReturnGrows, Zenon
  <2>3. NewLines(WrittenWith(t, nl)) = t /\ WrittenWith(t, nl) \in AnyText
    BY <1>0, <1>2, <2>2, WrittenTyped
  <2>4. WrittenWith(Append(t, c), nl) = IF c = NL THEN WrittenWith(t, nl) \o nl ELSE Append(WrittenWith(t, nl), c)
    BY <1>0, WritesMore, Zenon
  <2>5. CASE c = NL
    <3>1. NewLines(WrittenWith(t, nl) \o nl) = Append(NewLines(WrittenWith(t, nl)), NL)
      BY <2>3, ReadsPair, Zenon
    <3>. HIDE DEF nl
    <3>. QED  BY <2>3, <2>4, <2>5, <3>1
  <2>6. CASE c # NL
    <3>1. NewLines(Append(WrittenWith(t, nl), c)) = Append(NewLines(WrittenWith(t, nl)), c)
      BY <2>3, <2>6, ReadsMore, Zenon
    <3>. HIDE DEF nl
    <3>. QED  BY <2>3, <2>4, <2>6, <3>1
  <2>. QED  BY <2>5, <2>6
<1>3. \A t \in AnyText : t \in S
  <2>. HIDE DEF S
  <2>. QED  BY <1>1, <1>2, SequencesGrow DEF AnyText
<1>. QED  BY <1>3
-----------------------------------------------------------------------------
(* The byte order mark.                                                    *)
Marked(t) == t # <<>> /\ t[1] = Bom

(* A text is marked if its first symbol is the mark.                       *)
LEMMA HadMark ==
  ASSUME NEW t \in AnyText
  PROVE  hadBOM(t) <=> Marked(t)
<1>. DEFINE b == <<Bom>>
<1>1. b \in AnyText /\ Len(b) = 1 /\ b[1] = Bom
  BY Marks DEF AnyText
<1>. HIDE DEF b
<1>2. SubSeq(b, 1, 1) = b
  BY <1>1 DEF AnyText
<1>3. CASE t = <<>>
  <2>1. Len(t) = 0
    BY <1>3
  <2>. QED  BY <1>1, <1>3, <2>1 DEF hadBOM, IsPrefix, Marked, b
<1>4. CASE t # <<>>
  <2>1. 1 <= Len(t) /\ SubSeq(t, 1, 1) \in AnyText /\ Len(SubSeq(t, 1, 1)) = 1 /\ SubSeq(t, 1, 1)[1] = t[1]
    BY <1>4 DEF AnyText
  <2>. DEFINE u == SubSeq(t, 1, 1)
  <2>. HIDE DEF u
  <2>2. u = b <=> t[1] = Bom
    <3>1. u \in Seq(Symbol) /\ b \in Seq(Symbol) /\ Len(u) = 1 /\ Len(b) = 1 /\ u[1] = t[1] /\ b[1] = Bom
      BY <1>1, <2>1 DEF AnyText, u
    <3>. QED  BY <3>1, SeqEqual
  <2>. QED  BY <1>1, <1>2, <1>4, <2>1, <2>2 DEF hadBOM, IsPrefix, Marked, b, u
<1>. QED  BY <1>3, <1>4

(* The first symbol of two texts in a row.                                 *)
LEMMA FirstOfBoth ==
  ASSUME NEW u \in AnyText, NEW w \in AnyText, u # <<>>
  PROVE  u \o w # <<>> /\ (u \o w)[1] = u[1]
BY DEF AnyText

(* The first symbol of a text with one more.                               *)
LEMMA FirstOfMore ==
  ASSUME NEW u \in AnyText, NEW c \in Symbol
  PROVE  /\ Append(u, c) # <<>> /\ Append(u, c) \in AnyText
         /\ u # <<>> => Append(u, c)[1] = u[1]
         /\ u = <<>> => Append(u, c)[1] = c
BY DEF AnyText

(* Reading leaves the first symbol, unless it is a carriage return.        *)
FirstKept(t) == t # <<>> => NewLines(t) # <<>> /\ (NewLines(t)[1] = Bom <=> t[1] = Bom)

(* So it is for every text.                                                *)
LEMMA FirstStays == \A t \in AnyText : FirstKept(t)
<1>. DEFINE S == {t \in AnyText : FirstKept(t)}
<1>1. <<>> \in S
  <2>1. <<>> \in AnyText
    BY DEF AnyText
  <2>. QED  BY <2>1 DEF FirstKept
<1>2. ASSUME NEW t \in AnyText, NEW c \in Symbol, t \in S PROVE Append(t, c) \in S
  <2>0. FirstKept(t) /\ NewLines(t) \in AnyText
    BY <1>2, NewLinesTyped DEF AnyText
  <2>. DEFINE r == Append(t, c)
  <2>1. r # <<>> /\ r \in AnyText /\ (t # <<>> => r[1] = t[1]) /\ (t = <<>> => r[1] = c)
    BY FirstOfMore
  <2>2. CASE c # NL \/ t = <<>> \/ t[Len(t)] # CR
    <3>1. NewLines(r) = Append(NewLines(t), c)
      BY <2>2, ReadsMore, Zenon
    <3>2. /\ Append(NewLines(t), c) # <<>>
          /\ NewLines(t) # <<>> => Append(NewLines(t), c)[1] = NewLines(t)[1]
          /\ NewLines(t) = <<>> => Append(NewLines(t), c)[1] = c
      BY <2>0, FirstOfMore
    <3>. HIDE DEF r
    <3>3. t = <<>> => NewLines(t) = <<>>
      BY ReadsNothing
    <3>4. FirstKept(r)
      BY <2>0, <2>1, <3>1, <3>2, <3>3 DEF FirstKept
    <3>. QED  BY <2>1, <3>4 DEF r
  <2>3. CASE ~(c # NL \/ t = <<>> \/ t[Len(t)] # CR)
    <3>. DEFINE n == Len(t)  v == SubSeq(t, 1, n-1)
    <3>1. v \in AnyText /\ t = Append(v, CR)
      <4>1. t \in Seq(Symbol) /\ n \in Nat /\ n >= 1 /\ t[n] = CR
        BY <2>3 DEF AnyText
      <4>2. v \in Seq(Symbol) /\ Len(v) = n-1 /\ \A i \in 1..n-1 : v[i] = t[i]
        <5>1. 1 \in Nat \ {0} /\ n-1 \in Int /\ n-1 <= Len(t)
          BY <4>1
        <5>2. SubSeq(t, 1, n-1) \in Seq(Symbol)
          BY ONLY <4>1, <5>1, RunTyped
        <5>3. Len(SubSeq(t, 1, n-1)) = n-1 /\ \A i \in 1..n-1 : SubSeq(t, 1, n-1)[i] = t[i]
          <6>1. n-1 \in Nat /\ \A i \in 1..n-1 : 1+i-1 = i
            BY <4>1
          <6>. HIDE DEF n
          <6>. QED  BY <4>1, <6>1
        <5>. QED  BY <5>2, <5>3
      <4>. HIDE DEF v
      <4>3. Append(v, CR) \in Seq(Symbol) /\ Len(Append(v, CR)) = n
        BY <4>1, <4>2, Marks
      <4>4. \A i \in 1..n : Append(v, CR)[i] = t[i]
        <5>. SUFFICES ASSUME NEW i \in 1..n PROVE Append(v, CR)[i] = t[i]
          OBVIOUS
        <5>1. CASE i = n
          BY <4>1, <4>2, <5>1, Marks
        <5>2. CASE i # n
          <6>1. i \in 1..n-1
            BY <4>1, <5>2
          <6>. QED  BY <4>1, <4>2, <6>1, Marks
        <5>. QED  BY <5>1, <5>2
      <4>5. t = Append(v, CR)
        BY ONLY <4>1, <4>3, <4>4, SeqEqual DEF n
      <4>. QED  BY <4>2, <4>5 DEF AnyText
    <3>. HIDE DEF v
    <3>2. r = v \o <<CR, NL>>
      <4>1. c = NL
        BY <2>3
      <4>2. Append(Append(v, CR), NL) = v \o <<CR, NL>>
        BY <3>1, Marks DEF AnyText
      <4>. QED  BY <3>1, <4>1, <4>2
    <3>3. NewLines(r) = Append(NewLines(v), NL)
      BY <3>1, <3>2, ReadsPair
    <3>4. NewLines(t) = Append(NewLines(v), CR)
      <4>1. CR # NL
        BY Different
      <4>2. NewLines(Append(v, CR)) = Append(NewLines(v), CR)
        BY <3>1, <4>1, Marks, ReadsMore, Zenon
      <4>. QED  BY <3>1, <4>2
    <3>5. NewLines(v) \in AnyText
      BY <3>1, NewLinesTyped DEF AnyText
    <3>6. /\ NewLines(r) # <<>>
          /\ NewLines(v) # <<>> => NewLines(r)[1] = NewLines(v)[1] /\ NewLines(t)[1] = NewLines(v)[1]
          /\ NewLines(v) = <<>> => NewLines(r)[1] = NL /\ NewLines(t)[1] = CR
      <4>1. NL \in Symbol /\ CR \in Symbol
        BY Marks
      <4>2. /\ Append(NewLines(v), NL) # <<>>
            /\ NewLines(v) # <<>> => Append(NewLines(v), NL)[1] = NewLines(v)[1]
            /\ NewLines(v) = <<>> => Append(NewLines(v), NL)[1] = NL
        BY <3>5, <4>1, FirstOfMore, Zenon
      <4>3. /\ NewLines(v) # <<>> => Append(NewLines(v), CR)[1] = NewLines(v)[1]
            /\ NewLines(v) = <<>> => Append(NewLines(v), CR)[1] = CR
        BY <3>5, <4>1, FirstOfMore, Zenon
      <4>. HIDE DEF r
      <4>. QED  BY <3>3, <3>4, <4>2, <4>3
    <3>. HIDE DEF r
    <3>7. t # <<>> /\ NL # Bom /\ CR # Bom
      BY <2>3, Different
    <3>8. FirstKept(r)
      BY <2>0, <2>1, <3>6, <3>7 DEF FirstKept
    <3>. QED  BY <2>1, <3>8 DEF r
  <2>. QED  BY <2>2, <2>3
<1>3. \A t \in AnyText : t \in S
  <2>. HIDE DEF S
  <2>. QED  BY <1>1, <1>2, SequencesGrow DEF AnyText
<1>. QED  BY <1>3
-----------------------------------------------------------------------------
(* Line endings normalised: no carriage return is left, and a text without *)
(* any stays.                                                              *)
LEMMA Normalized ==
  ASSUME NEW s \in AnyText
  PROVE  /\ normalizeLineEndings(s) \in AnyText /\ NoReturn(normalizeLineEndings(s))
         /\ Marked(normalizeLineEndings(s)) <=> Marked(s)
<1>. DEFINE u == NewLines(s)  t == ReplaceAll(u, CR, NL)
<1>1. normalizeLineEndings(s) = t
  BY Zenon DEF normalizeLineEndings, NewLines
<1>2. u \in AnyText
  BY NewLinesTyped DEF AnyText
<1>3. FirstKept(s)
  BY FirstStays
<1>. HIDE DEF u
<1>4. t \in AnyText /\ Len(t) = Len(u) /\ \A i \in 1..Len(u) : t[i] = IF u[i] = CR THEN NL ELSE u[i]
  BY <1>2, Marks DEF AnyText, ReplaceAll
<1>. HIDE DEF t
<1>5. NoReturn(t)
  <2>1. DOMAIN t = 1..Len(u)
    BY <1>4 DEF AnyText
  <2>. QED  BY <1>4, <2>1, Different DEF NoReturn
<1>6. u # <<>> => t # <<>> /\ (t[1] = Bom <=> u[1] = Bom)
  <2>. SUFFICES ASSUME u # <<>> PROVE t # <<>> /\ (t[1] = Bom <=> u[1] = Bom)
    OBVIOUS
  <2>1. 1 \in 1..Len(u) /\ Len(u) # 0
    BY <1>2 DEF AnyText
  <2>2. t # <<>>
    BY <1>4, <2>1
  <2>. QED  BY <1>4, <2>1, <2>2, Different
<1>7. u = <<>> => t = <<>>
  <2>. SUFFICES ASSUME u = <<>> PROVE t = <<>>
    OBVIOUS
  <2>1. Len(t) = 0
    BY <1>4
  <2>. QED  BY <1>4, <2>1 DEF AnyText
<1>8. s = <<>> => u = <<>>
  BY ReadsNothing DEF u
<1>9. Marked(t) <=> Marked(s)
  BY <1>3, <1>6, <1>7, <1>8 DEF Marked, FirstKept, u
<1>. QED  BY <1>1, <1>4, <1>5, <1>9

(* Where no CR is left, LF is all there is.                                *)
LEMMA NormalAlready ==
  ASSUME NEW t \in AnyText, NoReturn(NewLines(t))
  PROVE  normalizeLineEndings(t) = NewLines(t)
<1>. DEFINE u == NewLines(t)
<1>1. normalizeLineEndings(t) = ReplaceAll(u, CR, NL)
  BY Zenon DEF normalizeLineEndings, NewLines
<1>2. u \in AnyText
  BY NewLinesTyped DEF AnyText
<1>3. NoReturn(u)
  OBVIOUS
<1>. HIDE DEF u
<1>4. ReplaceAll(u, CR, NL) = u
  <2>1. u = [i \in 1..Len(u) |-> u[i]] /\ DOMAIN u = 1..Len(u)
    BY <1>2 DEF AnyText
  <2>2. \A i \in 1..Len(u) : u[i] # CR
    BY <1>3, <2>1 DEF NoReturn
  <2>3. ReplaceAll(u, CR, NL) = [i \in 1..Len(u) |-> u[i]]
    BY <2>2 DEF ReplaceAll
  <2>. QED  BY <2>1, <2>3
<1>. QED  BY <1>1, <1>4 DEF u

(* Reading what was written, and writing what is read.                     *)
LEMMA WrittenIsRead ==
  ASSUME NEW t \in AnyText, NoReturn(t), NEW nl \in PlatformLineEndings
  PROVE  normalizeLineEndings(WrittenWith(t, nl)) = t /\ normalizeLineEndings(t) = t
<1>1. NewLines(t) = t
  BY ReadsAsItIs
<1>2. normalizeLineEndings(t) = t
  BY <1>1, NormalAlready
<1>3. nl = <<NL>> \/ nl = <<CR, NL>>
  BY DEF PlatformLineEndings
<1>4. nl \in AnyText
  BY Endings DEF AnyText
<1>5. CASE nl = <<NL>>
  BY <1>2, <1>5, WritesSame
<1>6. CASE nl = <<CR, NL>>
  <2>1. NewLines(WrittenWith(t, nl)) = t
    BY <1>6, ReadsWhatIsWritten
  <2>2. WrittenWith(t, nl) \in AnyText
    BY <1>4, WrittenTyped
  <2>3. normalizeLineEndings(WrittenWith(t, nl)) = NewLines(WrittenWith(t, nl))
    BY <2>1, <2>2, NormalAlready
  <2>. QED  BY <1>2, <2>1, <2>3
<1>. QED  BY <1>3, <1>5, <1>6

(* A text begins with what its first symbol is written as.                 *)
LEMMA WritesFirst ==
  ASSUME NEW t \in AnyText, t # <<>>, NEW nl \in PlatformLineEndings
  PROVE  /\ Marked(WrittenWith(t, nl)) <=> Marked(t)
         /\ Marked(t) => WrittenWith(t, nl) = <<Bom>> \o WrittenWith(Tail(t), nl)
<1>. DEFINE c == t[1]  o == <<c>>  r == Tail(t)
<1>0. nl \in AnyText
  BY Endings DEF AnyText
<1>1. c \in Symbol /\ o \in AnyText /\ r \in AnyText /\ t = o \o r
  BY DEF AnyText
<1>2. o = Append(<<>>, c) /\ <<>> \in AnyText
  BY <1>1 DEF AnyText
<1>. HIDE DEF c, o, r
<1>3. WrittenWith(t, nl) = WrittenWith(o, nl) \o WrittenWith(r, nl)
  BY <1>0, <1>1, WritesBoth
<1>4. WrittenWith(o, nl) = IF c = NL THEN nl ELSE o
  <2>1. WrittenWith(o, nl) = IF c = NL THEN WrittenWith(<<>>, nl) \o nl ELSE Append(WrittenWith(<<>>, nl), c)
    BY <1>0, <1>1, <1>2, WritesMore
  <2>2. WrittenWith(<<>>, nl) = <<>>
    BY WritesNothing
  <2>3. <<>> \o nl = nl
    BY <1>0 DEF AnyText
  <2>. QED  BY <1>2, <2>1, <2>2, <2>3
<1>5. WrittenWith(r, nl) \in AnyText
  BY <1>0, <1>1, WrittenTyped
<1>6. CASE c = NL
  <2>1. nl # <<>> /\ nl[1] # Bom
    <3>1. \A a, b \in Symbol : <<a>> # <<>> /\ <<a, b>> # <<>> /\ <<a>>[1] = a /\ <<a, b>>[1] = a
      OBVIOUS
    <3>2. nl = <<NL>> \/ nl = <<CR, NL>>
      BY DEF PlatformLineEndings
    <3>. QED  BY <3>1, <3>2, Marks, Different
  <2>2. nl \o WrittenWith(r, nl) # <<>> /\ (nl \o WrittenWith(r, nl))[1] = nl[1]
    BY <1>0, <1>5, <2>1, FirstOfBoth
  <2>. QED  BY <1>3, <1>4, <1>6, <2>1, <2>2, Different DEF Marked, c
<1>7. CASE c # NL
  <2>1. o # <<>> /\ o[1] = c
    BY DEF o
  <2>2. o \o WrittenWith(r, nl) # <<>> /\ (o \o WrittenWith(r, nl))[1] = c
    BY <1>1, <1>5, <2>1, FirstOfBoth
  <2>3. WrittenWith(t, nl) = o \o WrittenWith(r, nl)
    BY <1>3, <1>4, <1>7
  <2>4. Marked(WrittenWith(t, nl)) <=> c = Bom
    BY <2>2, <2>3 DEF Marked
  <2>5. Marked(t) <=> c = Bom
    BY DEF Marked, c
  <2>. QED  BY <2>3, <2>4, <2>5 DEF o, r
<1>. QED  BY <1>6, <1>7
-----------------------------------------------------------------------------
(* What rendering a text gives, and reading it back.                       *)
Mark(bom) == IF bom THEN <<Bom>> ELSE <<>>

(* Rendering is a mark and a written text.                                 *)
LEMMA RenderIs ==
  ASSUME NEW s, NEW bom, NEW nl
  PROVE  renderOutput(s, bom, nl) = Mark(bom) \o WrittenWith(normalizeLineEndings(s), nl)
BY Zenon DEF renderOutput, Mark, WrittenWith

(* A text with one symbol before it.                                       *)
LEMMA OneBefore ==
  ASSUME NEW X, NEW b \in Seq(X), NEW w \in Seq(X), Len(b) = 1
  PROVE  /\ b \o w \in Seq(X) /\ Len(b \o w) = Len(w) + 1 /\ (b \o w)[1] = b[1]
         /\ \A i \in 1..Len(w) : (b \o w)[i+1] = w[i]
<1>1. Len(w) \in Nat
  OBVIOUS
<1>2. /\ b \o w \in Seq(X) /\ Len(b \o w) = Len(b) + Len(w)
      /\ \A k \in 1..Len(b)+Len(w) : (b \o w)[k] = IF k <= Len(b) THEN b[k] ELSE w[k - Len(b)]
  <2>1. b \in Seq(X) /\ w \in Seq(X)
    OBVIOUS
  <2>. QED  BY ONLY <2>1, ConcatProperties
<1>3. \A i \in 1..Len(w) : i+1 \in 1..Len(b)+Len(w) /\ ~(i+1 <= Len(b)) /\ (i+1) - Len(b) = i
  BY <1>1
<1>4. 1 \in 1..Len(b)+Len(w) /\ 1 <= Len(b) /\ Len(b)+Len(w) = Len(w)+1
  BY <1>1
<1>. QED  BY <1>2, <1>3, <1>4

(* A mark that is written is the mark that is read.                        *)
LEMMA MarkComesOff ==
  ASSUME NEW w \in AnyText
  PROVE  /\ hadBOM(<<Bom>> \o w) /\ textWithoutUTF8BOM(<<Bom>> \o w) = w /\ <<Bom>> \o w \in AnyText
         /\ ~Marked(w) => textWithoutUTF8BOM(w) = w /\ ~hadBOM(w)
         /\ <<>> \o w = w
<1>. DEFINE b == <<Bom>>  r == b \o w
<1>1. b \in AnyText /\ b # <<>> /\ b[1] = Bom /\ Len(b) = 1
  BY Marks DEF AnyText
<1>2. r \in AnyText /\ r # <<>> /\ r[1] = Bom
  <2>. HIDE DEF b
  <2>1. b \o w # <<>> /\ (b \o w)[1] = b[1]
    BY <1>1, FirstOfBoth
  <2>2. b \o w \in AnyText
    BY <1>1 DEF AnyText
  <2>. QED  BY <1>1, <2>1, <2>2
<1>3. hadBOM(r)
  <2>. HIDE DEF r
  <2>. QED  BY <1>2, HadMark DEF Marked
<1>4. Tail(r) = w
  <2>1. w \in Seq(Symbol) /\ Len(w) \in Nat
    BY DEF AnyText
  <2>. HIDE DEF b
  <2>2. b \in Seq(Symbol) /\ Len(b) = 1
    BY <1>1 DEF AnyText
  <2>3. r \in Seq(Symbol) /\ Len(r) = Len(w) + 1 /\ \A i \in 1..Len(w) : r[i+1] = w[i]
    BY ONLY <2>1, <2>2, OneBefore
  <2>. HIDE DEF r
  <2>4. Tail(r) \in Seq(Symbol) /\ Len(Tail(r)) = Len(w) /\ \A i \in 1..Len(w) : Tail(r)[i] = r[i+1]
    <3>1. r # <<>>
      BY <1>2
    <3>. QED  BY <2>1, <2>3, <3>1
  <2>5. \A i \in 1..Len(Tail(r)) : Tail(r)[i] = w[i]
    BY <2>3, <2>4
  <2>6. Len(Tail(r)) = Len(w) /\ Tail(r) \in Seq(Symbol)
    BY <2>4
  <2>. QED  BY ONLY <2>1, <2>5, <2>6, SeqEqual
<1>5. textWithoutUTF8BOM(r) = w
  <2>. HIDE DEF r
  <2>. QED  BY <1>3, <1>4 DEF textWithoutUTF8BOM
<1>6. ~Marked(w) => textWithoutUTF8BOM(w) = w /\ ~hadBOM(w)
  BY HadMark DEF textWithoutUTF8BOM
<1>7. <<>> \o w = w
  BY DEF AnyText
<1>. QED  BY <1>2, <1>3, <1>5, <1>6, <1>7 DEF r, b

(* The four statements about a plan, for every text, mark and platform.    *)
ReadsBack(s, bom, nl, out) ==
  /\ hadBOM(out) <=> (bom \/ hadBOM(s))
  /\ bom \/ ~hadBOM(s) => decodeTarget(out) = normalizeLineEndings(s)
  /\ renderOutput(decodeTarget(out), hadBOM(out), nl) = out
  /\ ToSet(out) \cap {NL, CR} \subseteq ToSet(nl)

(* What is rendered is read back, and rendered again the same.             *)
LEMMA RenderedReadsBack ==
  ASSUME NEW s \in AnyText, NEW bom \in BOOLEAN, NEW nl \in PlatformLineEndings,
         NEW out, out = renderOutput(s, bom, nl)
  PROVE  ReadsBack(s, bom, nl, out)
<1>. DEFINE t == normalizeLineEndings(s)  w == WrittenWith(t, nl)
<1>1. nl \in AnyText
  BY Endings DEF AnyText
<1>2. t \in AnyText /\ NoReturn(t) /\ (Marked(t) <=> Marked(s))
  BY Normalized
<1>3. out = Mark(bom) \o w
  BY RenderIs, Zenon
<1>. HIDE DEF t
<1>4. w \in AnyText
  BY <1>1, <1>2, WrittenTyped
<1>5. normalizeLineEndings(w) = t /\ normalizeLineEndings(t) = t
  BY <1>2, WrittenIsRead
<1>6. Marked(w) <=> Marked(t)
  <2>1. CASE t = <<>>
    <3>1. w = <<>>
      BY <2>1, WritesNothing
    <3>. QED  BY <2>1, <3>1 DEF Marked
  <2>2. CASE t # <<>>
    BY <1>2, <2>2, WritesFirst
  <2>. QED  BY <2>1, <2>2
<1>. HIDE DEF w
<1>7. hadBOM(s) <=> Marked(s)
  BY HadMark
<1>8. /\ hadBOM(<<Bom>> \o w) /\ textWithoutUTF8BOM(<<Bom>> \o w) = w /\ <<Bom>> \o w \in AnyText
      /\ ~Marked(w) => textWithoutUTF8BOM(w) = w /\ ~hadBOM(w)
      /\ <<>> \o w = w
  BY <1>4, MarkComesOff
<1>9. bom => out = <<Bom>> \o w
  BY <1>3 DEF Mark
<1>10. ~bom => out = w
  BY <1>3, <1>8 DEF Mark
<1>11. ToSet(out) \cap {NL, CR} \subseteq ToSet(nl)
  <2>1. CASE nl = <<CR, NL>>
    <3>. DEFINE f == <<CR, NL>>
    <3>1. DOMAIN f = {1, 2} /\ f[1] = CR /\ f[2] = NL
      OBVIOUS
    <3>. HIDE DEF f
    <3>2. ToSet(f) = {CR, NL}
      BY <3>1 DEF ToSet
    <3>. QED  BY <2>1, <3>2 DEF f
  <2>2. CASE nl = <<NL>>
    <3>. DEFINE f == <<NL>>
    <3>1. DOMAIN f = {1} /\ f[1] = NL
      OBVIOUS
    <3>. HIDE DEF f
    <3>2. NL \in ToSet(f)
      BY <3>1 DEF ToSet
    <3>3. w = t
      BY <1>2, <2>2, WritesSame DEF w
    <3>4. NoReturn(out)
      <4>1. CASE ~bom
        BY <1>2, <1>10, <3>3, <4>1
      <4>2. CASE bom
        <5>. DEFINE b == <<Bom>>
        <5>1. b \in Seq(Symbol) /\ Len(b) = 1 /\ b[1] = Bom
          BY Marks
        <5>2. out = b \o t
          BY <1>9, <3>3, <4>2
        <5>3. t \in Seq(Symbol) /\ Len(t) \in Nat /\ DOMAIN t = 1..Len(t)
          BY <1>2 DEF AnyText
        <5>. HIDE DEF b
        <5>4. DOMAIN out = 1..Len(t)+1 /\ out[1] = Bom /\ \A i \in 1..Len(t) : out[i+1] = t[i]
          <6>1. b \o t \in Seq(Symbol) /\ Len(b \o t) = Len(t)+1 /\ (b \o t)[1] = b[1] /\ \A i \in 1..Len(t) : (b \o t)[i+1] = t[i]
            BY ONLY <5>1, <5>3, OneBefore
          <6>. QED  BY <5>1, <5>2, <6>1
        <5>5. \A i \in 1..Len(t)+1 : i = 1 \/ (i-1 \in 1..Len(t) /\ (i-1)+1 = i)
          BY <5>3
        <5>6. \A i \in DOMAIN out : out[i] # CR
          <6>. SUFFICES ASSUME NEW i \in 1..Len(t)+1 PROVE out[i] # CR
            BY <5>4
          <6>1. CASE i = 1
            BY <5>4, <6>1, Different
          <6>2. CASE i # 1
            <7>1. out[i] = t[i-1] /\ i-1 \in DOMAIN t
              BY <5>3, <5>4, <5>5, <6>2
            <7>. QED  BY <1>2, <7>1 DEF NoReturn
          <6>. QED  BY <6>1, <6>2
        <5>. QED  BY <5>6 DEF NoReturn
      <4>. QED  BY <4>1, <4>2
    <3>. QED  BY <2>2, <3>2, <3>4 DEF NoReturn, ToSet, f
  <2>. QED  BY <2>1, <2>2 DEF PlatformLineEndings
<1>12. CASE bom \/ ~hadBOM(s)
  <2>1. textWithoutUTF8BOM(out) = w /\ (hadBOM(out) <=> bom)
    <3>1. CASE bom
      BY <1>8, <1>9, <3>1
    <3>2. CASE ~bom
      BY <1>2, <1>6, <1>7, <1>8, <1>10, <1>12, <3>2
    <3>. QED  BY <3>1, <3>2
  <2>2. decodeTarget(out) = t
    BY <1>5, <2>1 DEF decodeTarget
  <2>3. hadBOM(out) = bom
    BY <2>1 DEF hadBOM, IsPrefix
  <2>4. renderOutput(t, bom, nl) = Mark(bom) \o w
    <3>1. renderOutput(t, bom, nl) = Mark(bom) \o WrittenWith(normalizeLineEndings(t), nl)
      BY RenderIs, Zenon
    <3>. QED  BY <1>5, <3>1, Zenon DEF w
  <2>5. renderOutput(decodeTarget(out), hadBOM(out), nl) = out
    BY <1>3, <2>2, <2>3, <2>4, Zenon
  <2>6. hadBOM(out) <=> (bom \/ hadBOM(s))
    BY <1>12, <2>1
  <2>7. decodeTarget(out) = normalizeLineEndings(s)
    BY <2>2 DEF t
  <2>. HIDE DEF t
  <2>. QED  BY <1>11, <2>5, <2>6, <2>7 DEF ReadsBack
<1>13. CASE ~bom /\ hadBOM(s)
  <2>1. Marked(t) /\ out = w
    BY <1>2, <1>7, <1>10, <1>13
  <2>. DEFINE r == Tail(t)  v == WrittenWith(r, nl)
  <2>2. r \in AnyText /\ NoReturn(r)
    <3>1. t # <<>>
      BY <2>1 DEF Marked
    <3>2. r \in AnyText /\ Len(r) = Len(t) - 1 /\ DOMAIN r = 1..Len(r) /\ Len(t) \in Nat
      BY <1>2, <3>1 DEF AnyText
    <3>3. \A i \in 1..Len(t) - 1 : r[i] = t[i+1] /\ i+1 \in DOMAIN t
      BY <1>2, <3>1 DEF AnyText
    <3>. HIDE DEF r
    <3>. QED  BY <1>2, <3>2, <3>3 DEF NoReturn
  <2>. HIDE DEF r
  <2>3. v \in AnyText
    BY <1>1, <2>2, WrittenTyped
  <2>4. w = <<Bom>> \o v
    <3>1. t # <<>>
      BY <2>1 DEF Marked
    <3>. QED  BY <1>2, <2>1, <3>1, WritesFirst DEF w, r
  <2>5. normalizeLineEndings(v) = r /\ normalizeLineEndings(r) = r
    BY <2>2, WrittenIsRead
  <2>. HIDE DEF v
  <2>6. hadBOM(out) /\ textWithoutUTF8BOM(out) = v
    BY <2>1, <2>3, <2>4, MarkComesOff
  <2>7. decodeTarget(out) = r
    BY <2>5, <2>6 DEF decodeTarget
  <2>8. hadBOM(out) = TRUE
    BY <2>6 DEF hadBOM, IsPrefix
  <2>9. renderOutput(r, TRUE, nl) = Mark(TRUE) \o v
    <3>1. renderOutput(r, TRUE, nl) = Mark(TRUE) \o WrittenWith(normalizeLineEndings(r), nl)
      BY RenderIs, Zenon
    <3>. QED  BY <2>5, <3>1, Zenon DEF v
  <2>10. Mark(TRUE) = <<Bom>>
    BY DEF Mark
  <2>11. renderOutput(decodeTarget(out), hadBOM(out), nl) = out
    BY <2>1, <2>4, <2>7, <2>8, <2>9, <2>10, Zenon
  <2>. QED  BY <1>11, <1>13, <2>6, <2>11 DEF ReadsBack
<1>. QED  BY <1>12, <1>13, Zenon

(* A plan reads back.                                                      *)
THEOREM PlansReadBack == EditSpec => []PlanReadsBack
<1>1. EditIInv => PlanReadsBack
  <2>. SUFFICES ASSUME EditIInv, pc = "planned" PROVE PlanReadsBack
    BY DEF PlanReadsBack
  <2>1. current \in AnyText /\ output = renderOutput(current, hadBOM(request.data), request.newline)
    BY DEF EditIInv, EditTypeOK, Rendered, AnyText
  <2>2. hadBOM(request.data) \in BOOLEAN /\ hadBOM(current) \in BOOLEAN /\ hadBOM(output) \in BOOLEAN
    BY DEF hadBOM, IsPrefix
  <2>3. request.newline \in PlatformLineEndings
    BY RequestsAssumption DEF EditIInv
  <2>4. /\ hadBOM(output) <=> (hadBOM(request.data) \/ hadBOM(current))
        /\ hadBOM(request.data) \/ ~hadBOM(current) => decodeTarget(output) = normalizeLineEndings(current)
        /\ renderOutput(decodeTarget(output), hadBOM(output), request.newline) = output
        /\ ToSet(output) \cap {NL, CR} \subseteq ToSet(request.newline)
    <3>1. ReadsBack(current, hadBOM(request.data), request.newline, output)
      BY <2>1, <2>2, <2>3, RenderedReadsBack, Zenon
    <3>. QED  BY <3>1 DEF ReadsBack
  <2>. QED  BY <2>2, <2>4 DEF PlanReadsBack
<1>. QED  BY <1>1, EditInvariant, PTL


-----------------------------------------------------------------------------
(* The history: each finished operation did what AppliedMatches and        *)
(* applyCommand say of its text.                                           *)
AfterOf(k) == IF k = Len(stats) THEN current ELSE stats[k+1].before

Remembered(k) ==
  /\ stats[k].applied = AppliedMatches(stats[k].before, request.operations[k])
  /\ AfterOf(k) = applyCommand(stats[k].before, request.operations[k]).text

History ==
  /\ pc = "decode" => stats = <<>>
  /\ \A k \in DOMAIN stats : Remembered(k)

(* A finished operation is what the two functions say of its text.         *)
LEMMA ApplyRemembers ==
  ASSUME EditIInv, History, ApplyOperation
  PROVE  History'
<1>. DEFINE op == NextOperation  applied == AppliedMatches(current, op)  done == applyCommand(current, op)
            more == [before |-> current, applied |-> applied]
<1>1. /\ Pending
      /\ current' = done.text /\ stats' = Append(stats, more)
      /\ UNCHANGED <<request, pc>>
  BY DEF ApplyOperation
<1>0. PICK n : n = Len(stats)
  OBVIOUS
<1>2. /\ n \in Nat /\ stats \in Seq(Stat) /\ DOMAIN stats = 1..n
  <2>1. stats \in Seq(Stat)
    BY DEF EditIInv, EditTypeOK, Stat
  <2>. HIDE DEF Stat
  <2>. QED  BY <1>0, <2>1
<1>3. more.before = current /\ more.applied = applied
  OBVIOUS
<1>4. op = request.operations[n+1]
  BY <1>0 DEF NextOperation
<1>5. more \in Stat
  <2>1. applied > 0 /\ op \in EditOperation /\ current \in Seq(Symbol)
    BY <1>1, PendingIsTyped DEF ApplyOperation
  <2>2. applied # 0
    <3>. HIDE DEF applied, op
    <3>. QED  BY <2>1
  <2>. HIDE DEF op
  <2>3. applied \in Nat
    BY <2>1, <2>2, CountsMeet, Zenon
  <2>. HIDE DEF applied
  <2>. QED  BY <2>1, <2>2, <2>3 DEF Stat
<1>. HIDE DEF more, op, applied, done
<1>6. /\ Len(stats') = n+1 /\ DOMAIN stats' = 1..n+1 /\ stats'[n+1] = more
      /\ \A k \in 1..n : stats'[k] = stats[k]
  <2>. HIDE DEF Stat
  <2>1. /\ Append(stats, more) \in Seq(Stat) /\ Len(Append(stats, more)) = Len(stats)+1
        /\ \A j \in 1..Len(stats) : Append(stats, more)[j] = stats[j]
        /\ Append(stats, more)[Len(stats)+1] = more
    BY ONLY <1>2, <1>5, AppendIs
  <2>. QED  BY <1>0, <1>1, <2>1
<1>7. ASSUME NEW k \in 1..n PROVE Remembered(k)'
  <2>1. Remembered(k)
    BY <1>2 DEF History
  <2>2. AfterOf(k)' = AfterOf(k)
    <3>1. CASE k = n
      <4>1. AfterOf(k) = current
        BY <1>0, <3>1 DEF AfterOf
      <4>2. AfterOf(k)' = stats'[k+1].before
        BY <1>2, <1>6, <3>1 DEF AfterOf
      <4>. QED  BY <1>3, <1>6, <3>1, <4>1, <4>2
    <3>2. CASE k # n
      <4>1. k + 1 \in 1..n /\ k # n+1
        BY <1>2, <3>2
      <4>2. AfterOf(k) = stats[k+1].before
        BY <1>0, <3>2 DEF AfterOf
      <4>3. AfterOf(k)' = stats'[k+1].before
        BY <1>6, <4>1 DEF AfterOf
      <4>. QED  BY <1>6, <4>1, <4>2, <4>3
    <3>. QED  BY <3>1, <3>2
  <2>3. stats'[k] = stats[k] /\ request' = request
    BY <1>1, <1>6
  <2>. QED  BY <2>1, <2>2, <2>3, Zenon DEF Remembered
<1>8. Remembered(n+1)'
  <2>1. AfterOf(n+1)' = current'
    BY <1>6 DEF AfterOf
  <2>2. stats'[n+1].applied = AppliedMatches(current, op) /\ stats'[n+1].before = current
    BY <1>3, <1>6 DEF applied
  <2>3. current' = applyCommand(current, op).text /\ request' = request
    BY <1>1 DEF done
  <2>. QED  BY <1>4, <2>1, <2>2, <2>3, Zenon DEF Remembered
<1>9. \A k \in 1..n+1 : k \in 1..n \/ k = n+1
  BY <1>2
<1>10. pc' # "decode"
  BY <1>1 DEF Pending
<1>11. \A k \in 1..n+1 : Remembered(k)'
  BY <1>7, <1>8, <1>9, Zenon
<1>. QED  BY <1>6, <1>10, <1>11 DEF History

(* No other step touches what is finished.                                 *)
LEMMA OthersRemember ==
  ASSUME History, Decode \/ RefuseOperation \/ Render \/ UNCHANGED editVars
  PROVE  History'
<1>1. CASE Decode
  <2>1. stats' = <<>> /\ pc' = "edit"
    BY <1>1 DEF Decode, History
  <2>2. DOMAIN stats' = {}
    BY <2>1
  <2>. QED  BY <2>1, <2>2 DEF History
<1>2. CASE RefuseOperation \/ Render \/ UNCHANGED editVars
  <2>1. UNCHANGED <<request, current, stats>> /\ (pc' = pc \/ pc' # "decode")
    <3>1. CASE RefuseOperation
      <4>1. pc' = "error" /\ UNCHANGED <<request, current, stats>>
        BY <3>1, Zenon DEF RefuseOperation
      <4>. QED  BY <4>1
    <3>2. CASE Render
      BY <3>2 DEF Render
    <3>3. CASE UNCHANGED editVars
      BY <3>3 DEF editVars
    <3>. QED  BY <1>2, <3>1, <3>2, <3>3
  <2>2. \A k : AfterOf(k)' = AfterOf(k)
    BY <2>1 DEF AfterOf
  <2>3. \A k \in DOMAIN stats : Remembered(k)'
    <3>. SUFFICES ASSUME NEW k \in DOMAIN stats PROVE Remembered(k)'
      OBVIOUS
    <3>1. Remembered(k)
      BY DEF History
    <3>. QED  BY <2>1, <2>2, <3>1, Zenon DEF Remembered
  <2>. QED  BY <2>1, <2>3 DEF History
<1>. QED  BY <1>1, <1>2

(* Each finished operation was counted and carried out by AppliedMatches and *)
(* applyCommand on the text before it, and gave the text after it          *)
(* (edit.go:292-431, main.go:252-380).                                     *)
THEOREM EditHistory == EditSpec => [](EditIInv /\ History)
<1>1. EditInit => History
  BY DEF EditInit, History
<1>2. EditIInv /\ History /\ [EditNext]_editVars => History'
  BY ApplyRemembers, OthersRemember DEF EditNext
<1>. QED  BY <1>1, <1>2, EditInvariant, PTL DEF EditSpec

-----------------------------------------------------------------------------
(* The scan for a text that is not empty: what is found goes up, and where *)
(* the text occurs something found is in the way or is it.                 *)
Match == [from : Nat, to : Nat]

Rising(ms) == \A k, l \in DOMAIN ms : k < l => ms[k].to <= ms[l].from

Covering(s, find, ms, n) ==
  \A i \in 1..n : OccursAt(s, find, i) => \E k \in DOMAIN ms : ms[k].from <= i /\ i < ms[k].to

AllOccur(s, find, ms, n) ==
  \A k \in DOMAIN ms : /\ ms[k].from \in 1..n /\ OccursAt(s, find, ms[k].from)
                       /\ ms[k].to = ms[k].from + Len(find)

Swept(s, find, ms, n) ==
  ms \in Seq(Match) /\ Rising(ms) /\ Covering(s, find, ms, n) /\ AllOccur(s, find, ms, n)

(* One position further: a match is taken, or one that is taken covers it. *)
LEMMA TakeSweeps ==
  ASSUME NEW s, NEW find, Len(find) \in Nat \ {0}, NEW n \in Nat, NEW ms, Swept(s, find, ms, n)
  PROVE  Swept(s, find, Take(ms, At(s, find, n+1), n+1), n+1)
<1>. DEFINE i == n+1  a == [from |-> i, to |-> i + Len(find)]  L == Len(ms)
<1>1. /\ ms \in Seq(Match) /\ L \in Nat /\ DOMAIN ms = 1..L
      /\ \A k \in 1..L : ms[k].from \in Nat /\ ms[k].to \in Nat
  <2>1. ms \in Seq(Match)
    BY DEF Swept
  <2>2. L \in Nat /\ DOMAIN ms = 1..L /\ \A k \in 1..L : ms[k] \in Match
    BY <2>1
  <2>. QED  BY <2>1, <2>2 DEF Match
<1>2. a \in Match /\ a.from = i /\ a.to = i + Len(find)
  BY DEF Match
<1>3. a # NoMatch
  <2>1. "from" \in DOMAIN a /\ "from" \notin DOMAIN NoMatch
    BY DEF NoMatch
  <2>. QED  BY <2>1
<1>4. Rising(ms) /\ Covering(s, find, ms, n) /\ AllOccur(s, find, ms, n)
  BY DEF Swept
<1>5. \A j \in 1..n+1 : j \in 1..n \/ j = i
  OBVIOUS
<1>. HIDE DEF a, i, L
<1>6. CASE ~OccursAt(s, find, i)
  <2>1. At(s, find, i) = NoMatch
    BY <1>6 DEF At
  <2>2. Take(ms, At(s, find, i), i) = ms
    BY <2>1 DEF Take
  <2>3. Covering(s, find, ms, n+1)
    BY <1>4, <1>5, <1>6 DEF Covering
  <2>4. AllOccur(s, find, ms, n+1)
    BY <1>4 DEF AllOccur
  <2>. QED  BY <1>1, <1>4, <2>2, <2>3, <2>4 DEF Swept, i
<1>7. CASE OccursAt(s, find, i) /\ ~(ms = <<>> \/ ms[L].to <= i)
  <2>1. Take(ms, At(s, find, i), i) = ms
    BY <1>7 DEF Take, L
  <2>2. L \in 1..L
    <3>1. L # 0
      BY <1>1, <1>7 DEF L
    <3>. QED  BY <1>1, <3>1
  <2>3. ms[L].from <= i /\ i < ms[L].to
    BY <1>1, <1>4, <1>7, <2>2 DEF AllOccur, i
  <2>4. Covering(s, find, ms, n+1)
    BY <1>1, <1>4, <1>5, <2>2, <2>3 DEF Covering
  <2>5. AllOccur(s, find, ms, n+1)
    BY <1>4 DEF AllOccur
  <2>. QED  BY <1>1, <1>4, <2>1, <2>4, <2>5 DEF Swept, i
<1>8. CASE OccursAt(s, find, i) /\ (ms = <<>> \/ ms[L].to <= i)
  <2>. DEFINE t == Append(ms, a)
  <2>1. Take(ms, At(s, find, i), i) = t
    <3>1. At(s, find, i) = a
      BY <1>8 DEF At, a
    <3>. QED  BY <1>3, <1>8, <3>1 DEF Take, L
  <2>2. /\ t \in Seq(Match) /\ Len(t) = L+1
        /\ \A j \in 1..L : t[j] = ms[j]
        /\ t[L+1] = a
    BY ONLY <1>1, <1>2, AppendIs DEF L
  <2>. HIDE DEF t
  <2>3. DOMAIN t = 1..L+1 /\ \A k \in 1..L+1 : k \in 1..L \/ k = L+1
    BY <1>1, <2>2
  <2>4. \A k \in 1..L : ms[k].to <= i
    <3>. SUFFICES ASSUME NEW k \in 1..L PROVE ms[k].to <= i
      OBVIOUS
    <3>1. L \in 1..L /\ ms # <<>>
      <4>1. L # 0
        BY <1>1
      <4>. QED  BY <1>1, <4>1 DEF L
    <3>2. ms[L].to <= i
      BY <1>8, <3>1
    <3>3. k < L => ms[k].to <= ms[L].from
      BY <1>1, <1>4, <3>1 DEF Rising
    <3>4. ms[L].from <= ms[L].to
      BY <1>1, <1>4, <3>1 DEF AllOccur
    <3>5. ms[k].to \in Nat /\ ms[L].from \in Nat /\ ms[L].to \in Nat /\ i \in Nat
      BY <1>1, <3>1 DEF i
    <3>6. k < L \/ k = L
      BY <1>1
    <3>. QED  BY <3>2, <3>3, <3>4, <3>5, <3>6
  <2>5. Rising(t)
    <3>. SUFFICES ASSUME NEW k \in 1..L+1, NEW l \in 1..L+1, k < l PROVE t[k].to <= t[l].from
      BY <2>3 DEF Rising
    <3>1. k \in 1..L /\ t[k] = ms[k]
      BY <1>1, <2>2
    <3>2. CASE l = L+1
      BY <1>2, <2>2, <2>4, <3>1, <3>2
    <3>3. CASE l # L+1
      <4>1. l \in 1..L
        BY <1>1, <3>3
      <4>. QED  BY <1>1, <1>4, <2>2, <3>1, <4>1 DEF Rising
    <3>. QED  BY <3>2, <3>3
  <2>6. Covering(s, find, t, n+1)
    <3>. SUFFICES ASSUME NEW j \in 1..n+1, OccursAt(s, find, j)
                  PROVE  \E k \in 1..L+1 : t[k].from <= j /\ j < t[k].to
      BY <2>3 DEF Covering
    <3>1. CASE j \in 1..n
      <4>1. PICK k \in 1..L : ms[k].from <= j /\ j < ms[k].to
        BY <1>1, <1>4, <3>1 DEF Covering
      <4>2. k \in 1..L+1
        BY <1>1
      <4>. QED  BY <2>2, <4>1, <4>2
    <3>2. CASE j = i
      <4>1. L+1 \in 1..L+1 /\ i <= i /\ i < i + Len(find)
        BY <1>1 DEF i
      <4>. QED  BY <1>2, <2>2, <3>2, <4>1
    <3>. QED  BY <1>5, <3>1, <3>2
  <2>7. AllOccur(s, find, t, n+1)
    <3>. SUFFICES ASSUME NEW k \in 1..L+1
                  PROVE  /\ t[k].from \in 1..n+1 /\ OccursAt(s, find, t[k].from)
                         /\ t[k].to = t[k].from + Len(find)
      BY <2>3 DEF AllOccur
    <3>1. CASE k \in 1..L
      <4>1. ms[k].from \in 1..n /\ OccursAt(s, find, ms[k].from) /\ ms[k].to = ms[k].from + Len(find)
        BY <1>1, <1>4, <3>1 DEF AllOccur
      <4>2. ms[k].from \in 1..n+1
        BY <4>1
      <4>. QED  BY <2>2, <3>1, <4>1, <4>2
    <3>2. CASE k = L+1
      <4>1. i \in 1..n+1
        BY DEF i
      <4>. QED  BY <1>2, <1>8, <2>2, <3>2, <4>1
    <3>. QED  BY <2>3, <3>1, <3>2
  <2>. QED  BY <2>1, <2>2, <2>5, <2>6, <2>7 DEF Swept, i
<1>. QED  BY <1>6, <1>7, <1>8

(* So the whole text is swept.                                             *)
LEMMA ScanSweeps ==
  ASSUME NEW X, NEW s \in Seq(X), NEW find, Len(find) \in Nat \ {0}
  PROVE  Swept(s, find, Occurrences(s, find), Len(s))
<1>. DEFINE N == Len(s)  at == Ats(s, find)
<1>1. at \in Seq(Spots) /\ Len(at) = N /\ \A i \in 1..N : at[i] = At(s, find, i)
  BY AtsTyped
<1>2. N \in Nat
  OBVIOUS
<1>. HIDE DEF at, N
<1>3. PICK u \in [0..Len(at) -> Seq(Spots \ {NoMatch})] :
        /\ u[0] = <<>> /\ \A n \in 1..Len(at) : u[n] = Take(u[n-1], at[n], n)
        /\ Scan(at) = u[Len(at)]
  BY <1>1, ScanGoes, Zenon
<1>. DEFINE S == {n \in 0..N : Swept(s, find, u[n], n)}
<1>4. 0 \in S
  <2>. DEFINE e == <<>>
  <2>1. e \in Seq(Match) /\ DOMAIN e = {}
    OBVIOUS
  <2>2. 1..0 = {}
    OBVIOUS
  <2>. HIDE DEF e
  <2>3. Swept(s, find, e, 0)
    BY <2>1, <2>2 DEF Swept, Rising, Covering, AllOccur
  <2>. QED  BY <1>2, <1>3, <2>3 DEF e
<1>5. ASSUME NEW n \in 0..N-1, n \in S PROVE n+1 \in S
  <2>1. n \in Nat /\ n+1 \in 1..N /\ n+1 \in 0..N /\ (n+1)-1 = n
    BY <1>2
  <2>2. u[n+1] = Take(u[n], At(s, find, n+1), n+1)
    BY <1>1, <1>3, <2>1
  <2>3. Swept(s, find, u[n], n)
    BY <1>5
  <2>4. Swept(s, find, u[n+1], n+1)
    BY <2>1, <2>2, <2>3, TakeSweeps
  <2>. QED  BY <2>1, <2>4
<1>6. \A n \in 0..N : n \in S
  <2>1. 0 \in Nat
    OBVIOUS
  <2>. HIDE DEF S
  <2>. QED  BY ONLY <1>2, <1>4, <1>5, <2>1, Upwards
<1>7. Swept(s, find, u[N], N)
  BY <1>2, <1>6
<1>8. Occurrences(s, find) = u[N]
  BY <1>1, <1>3, OccurrencesAre DEF at
<1>. QED  BY <1>7, <1>8 DEF N

-----------------------------------------------------------------------------
(* A place where the literal fits, as a stretch of the text and as a       *)
(* position of the search.                                                 *)
LEMMA PlacesOccur ==
  ASSUME NEW X, NEW s \in Seq(X), NEW find, Len(find) \in Nat \ {0}, DOMAIN find = 1..Len(find),
         NEW m \in LiteralOccurrences(s, find)
  PROVE  /\ m.from \in 1..Len(s) /\ m.to = m.from + Len(find)
         /\ OccursAt(s, find, m.from)
         /\ m = [from |-> m.from, to |-> m.to]
<1>1. Len(s) \in Nat /\ DOMAIN s = 1..Len(s)
  OBVIOUS
<1>i. PICK i \in 1..Len(s) : m \in {[from |-> i, to |-> j+1] : j \in i..Len(s)}
  BY <1>1 DEF LiteralOccurrences, Stretches
<1>2. PICK j \in i..Len(s) : m = [from |-> i, to |-> j+1]
  BY <1>i
<1>3. m.from = i /\ m.to = j+1 /\ (j+1)-1 = j
  BY <1>2
<1>4. SubSeq(s, i, j) = find
  BY <1>3 DEF LiteralOccurrences
<1>5. Len(SubSeq(s, i, j)) = j-i+1 /\ \A k \in 1..j-i+1 : SubSeq(s, i, j)[k] = s[i+k-1]
  BY <1>1
<1>6. Len(find) = j-i+1 /\ \A k \in DOMAIN find : s[i+k-1] = find[k]
  BY <1>4, <1>5
<1>7. i + Len(find) - 1 <= Len(s) /\ j+1 = i + Len(find)
  BY <1>6
<1>. QED  BY <1>2, <1>3, <1>6, <1>7 DEF OccursAt

(* What occurs at i is the stretch that starts there.                      *)
LEMMA OccurrencesArePlaces ==
  ASSUME NEW X, NEW s \in Seq(X), NEW Y, NEW find \in Seq(Y), find # <<>>,
         NEW i \in 1..Len(s), OccursAt(s, find, i)
  PROVE  [from |-> i, to |-> i + Len(find)] \in LiteralOccurrences(s, find)
<1>. DEFINE j == i + Len(find) - 1  u == SubSeq(s, i, j)
<1>1. Len(s) \in Nat /\ Len(find) \in Nat /\ Len(find) # 0 /\ DOMAIN s = 1..Len(s)
  OBVIOUS
<1>2. j \in i..Len(s) /\ j+1 = i + Len(find) /\ j-i+1 = Len(find)
  BY <1>1 DEF OccursAt
<1>3. u = find
  <2>1. Len(u) = Len(find)
    BY <1>1, <1>2
  <2>2. \A k \in 1..Len(find) : u[k] = find[k]
    <3>1. \A k \in 1..Len(find) : s[i+k-1] = find[k]
      BY DEF OccursAt
    <3>. QED  BY <1>1, <1>2, <3>1
  <2>3. u = [k \in 1..Len(u) |-> u[k]] /\ find = [k \in 1..Len(find) |-> find[k]]
    <3>1. u \in Seq(X)
      <4>1. i \in Nat \ {0} /\ j \in Int /\ j <= Len(s)
        BY <1>1, <1>2
      <4>. HIDE DEF j
      <4>. QED  BY <4>1, RunTyped
    <3>. HIDE DEF u
    <3>. QED  BY <3>1
  <2>. HIDE DEF u
  <2>. QED  BY <2>1, <2>2, <2>3
<1>. HIDE DEF u
<1>4. [from |-> i, to |-> j+1] \in Stretches(s)
  <2>1. j \in i..Len(s) /\ i \in DOMAIN s
    BY <1>1, <1>2
  <2>. HIDE DEF j
  <2>. QED  BY <2>1 DEF Stretches
<1>5. [from |-> i, to |-> j+1] = [from |-> i, to |-> i + Len(find)] /\ (j+1)-1 = j
  BY <1>2
<1>. HIDE DEF j
<1>6. SubSeq(s, [from |-> i, to |-> j+1].from, [from |-> i, to |-> j+1].to - 1) = find
  BY <1>3, <1>5 DEF u
<1>. QED  BY <1>4, <1>5, <1>6 DEF LiteralOccurrences

(* What the scan finds are places, apart from each other, and as many of   *)
(* them as it has elements.                                                *)
LEMMA FoundArePlaces ==
  ASSUME NEW X, NEW s \in Seq(X), NEW Y, NEW find \in Seq(Y), find # <<>>,
         NEW ms, ms = Occurrences(s, find)
  PROVE  /\ Len(ms) \in Nat /\ DOMAIN ms = 1..Len(ms) /\ Rising(ms)
         /\ \A k \in 1..Len(ms) : /\ ms[k] \in LiteralOccurrences(s, find)
                                  /\ ms[k].from \in 1..Len(s) /\ ms[k].to = ms[k].from + Len(find)
<1>. DEFINE O == LiteralOccurrences(s, find)  L == Len(ms)
<1>1. Len(find) \in Nat \ {0} /\ Len(s) \in Nat
  OBVIOUS
<1>2. Swept(s, find, ms, Len(s))
  BY <1>1, ScanSweeps
<1>3. L \in Nat /\ DOMAIN ms = 1..L /\ \A k \in 1..L : ms[k] \in Match
  BY <1>2 DEF Swept
<1>4. \A k \in 1..L : /\ ms[k].from \in 1..Len(s) /\ OccursAt(s, find, ms[k].from)
                      /\ ms[k].to = ms[k].from + Len(find)
  BY <1>2, <1>3 DEF Swept, AllOccur
<1>. HIDE DEF L
<1>5. \A k \in 1..L : ms[k] \in O
  <2>. SUFFICES ASSUME NEW k \in 1..L PROVE ms[k] \in O
    OBVIOUS
  <2>1. [from |-> ms[k].from, to |-> ms[k].from + Len(find)] \in O
    BY <1>4, OccurrencesArePlaces
  <2>2. ms[k] = [from |-> ms[k].from, to |-> ms[k].to]
    BY <1>3 DEF Match
  <2>. QED  BY <1>4, <2>1, <2>2
<1>6. Rising(ms)
  BY <1>2 DEF Swept
<1>. QED  BY <1>3, <1>4, <1>5, <1>6 DEF L

(* So there are that many places apart from each other.                    *)
LEMMA FoundAreApart ==
  ASSUME NEW X, NEW s \in Seq(X), NEW Y, NEW find \in Seq(Y), find # <<>>,
         NEW ms, ms = Occurrences(s, find)
  PROVE  \E S \in kSubset(Len(ms), LiteralOccurrences(s, find)) : Apart(S)
<1>. DEFINE O == LiteralOccurrences(s, find)  L == Len(ms)  f == [k \in 1..L |-> ms[k]]
            S == {ms[k] : k \in 1..L}
<1>1. Len(find) \in Nat \ {0} /\ Len(s) \in Nat
  OBVIOUS
<1>2. L \in Nat /\ DOMAIN ms = 1..L /\ Rising(ms)
  BY FoundArePlaces
<1>4. \A k \in 1..L : ms[k].from \in 1..Len(s) /\ ms[k].to = ms[k].from + Len(find)
  BY FoundArePlaces
<1>5. \A k \in 1..L : ms[k] \in O
  BY FoundArePlaces
<1>3. L \in Nat
  BY <1>2
<1>. HIDE DEF L
<1>6. \A k, l \in 1..L : k < l => ms[k].to <= ms[l].from
  BY <1>2, <1>3 DEF Rising
<1>7. \A k, l \in 1..L : ms[k] = ms[l] => k = l
  <2>. SUFFICES ASSUME NEW k \in 1..L, NEW l \in 1..L, ms[k] = ms[l], k < l PROVE FALSE
    BY <1>3
  <2>1. ms[k].to <= ms[l].from /\ ms[k].from = ms[l].from /\ ms[k].to = ms[k].from + Len(find)
    BY <1>4, <1>6
  <2>. QED  BY <1>1, <1>4, <2>1
<1>8. Cardinality(S) = L
  <2>1. f \in Surjection(1..L, S)
    BY DEF Surjection
  <2>2. f \in Injection(1..L, S)
    BY <1>7 DEF Injection, IsInjective
  <2>3. IsFiniteSet(1..L) /\ Cardinality(1..L) = L
    BY <1>3, FS_Interval
  <2>. HIDE DEF f, S
  <2>. QED  BY <2>1, <2>2, <2>3, FS_Surjection
<1>9. S \in kSubset(L, O)
  BY <1>5, <1>8 DEF kSubset
<1>10. Apart(S)
  <2>. SUFFICES ASSUME NEW k \in 1..L, NEW l \in 1..L, ms[k] # ms[l]
                PROVE  ms[k].to <= ms[l].from \/ ms[l].to <= ms[k].from
    BY DEF Apart
  <2>1. k < l \/ l < k
    BY <1>3
  <2>. QED  BY <1>6, <2>1
<1>. QED  BY <1>9, <1>10 DEF L

(* No more places are apart from each other: each of them begins inside    *)
(* something found, and two that begin inside the same overlap.            *)
LEMMA NoMoreAreApart ==
  ASSUME NEW X, NEW s \in Seq(X), NEW Y, NEW find \in Seq(Y), find # <<>>,
         NEW ms, ms = Occurrences(s, find)
  PROVE  \A S \in kSubset(Len(ms)+1, LiteralOccurrences(s, find)) : ~Apart(S)
<1>. SUFFICES ASSUME NEW S \in kSubset(Len(ms)+1, LiteralOccurrences(s, find)), Apart(S) PROVE FALSE
  OBVIOUS
<1>. DEFINE L == Len(ms)
            In(m, k) == ms[k].from <= m.from /\ m.from < ms[k].to
            f == [m \in S |-> CHOOSE k \in 1..L : In(m, k)]
<1>1. Len(find) \in Nat \ {0} /\ Len(s) \in Nat /\ DOMAIN find = 1..Len(find)
  OBVIOUS
<1>2. Swept(s, find, ms, Len(s))
  BY <1>1, ScanSweeps
<1>3. L \in Nat /\ DOMAIN ms = 1..L
  BY <1>2 DEF Swept
<1>4. S \subseteq LiteralOccurrences(s, find) /\ Cardinality(S) = L+1
  BY DEF kSubset
<1>. HIDE DEF L
<1>5. \A m \in S : /\ m.from \in 1..Len(s) /\ m.to = m.from + Len(find)
                   /\ OccursAt(s, find, m.from) /\ m = [from |-> m.from, to |-> m.to]
  <2>. SUFFICES ASSUME NEW m \in S
                PROVE  /\ m.from \in 1..Len(s) /\ m.to = m.from + Len(find)
                       /\ OccursAt(s, find, m.from) /\ m = [from |-> m.from, to |-> m.to]
    OBVIOUS
  <2>1. m \in LiteralOccurrences(s, find)
    BY <1>4
  <2>. QED  BY <1>1, <2>1, PlacesOccur
<1>6. \A m \in S : \E k \in 1..L : In(m, k)
  BY <1>2, <1>3, <1>5 DEF Swept, Covering
<1>7. \A m \in S : f[m] \in 1..L /\ In(m, f[m])
  <2>. HIDE DEF In
  <2>. QED  BY <1>6
<1>8. \A k \in 1..L : ms[k].from \in 1..Len(s) /\ ms[k].to = ms[k].from + Len(find)
  BY <1>2, <1>3 DEF Swept, AllOccur
<1>9. \A m, n \in S : f[m] = f[n] => m = n
  <2>. SUFFICES ASSUME NEW m \in S, NEW n \in S, f[m] = f[n], m # n PROVE FALSE
    OBVIOUS
  <2>. DEFINE a == f[m]
  <2>1. a \in 1..L /\ In(m, a) /\ In(n, a)
    BY <1>7
  <2>2. ms[a].from \in 1..Len(s) /\ ms[a].to = ms[a].from + Len(find)
    BY <1>8, <2>1
  <2>3. m.to <= n.from \/ n.to <= m.from
    BY DEF Apart
  <2>4. /\ m.from \in 1..Len(s) /\ m.to = m.from + Len(find)
        /\ n.from \in 1..Len(s) /\ n.to = n.from + Len(find)
    BY <1>5
  <2>. HIDE DEF a, f
  <2>. QED  BY <1>1, <2>1, <2>2, <2>3, <2>4
<1>10. f \in Injection(S, 1..L)
  <2>1. f \in [S -> 1..L]
    BY <1>7
  <2>2. DOMAIN f = S
    OBVIOUS
  <2>. HIDE DEF f
  <2>. QED  BY <1>9, <2>1, <2>2 DEF Injection, IsInjective
<1>11. IsFiniteSet(1..L) /\ Cardinality(1..L) = L
  BY <1>3, FS_Interval
<1>12. Cardinality(S) <= L
  <2>. HIDE DEF f
  <2>1. Cardinality(S) <= Cardinality(1..L)
    BY <1>10, <1>11, FS_Injection
  <2>. QED  BY <1>11, <2>1
<1>. QED  BY <1>3, <1>4, <1>12


(* A suffix, symbol by symbol.                                             *)
EndsWith(t, f) == Len(f) <= Len(t) /\ \A j \in 1..Len(f) : t[Len(t) - Len(f) + j] = f[j]

(* IsSuffix, which reverses both texts, says the same.                     *)
LEMMA SuffixMeans ==
  ASSUME NEW X, NEW f \in Seq(X), NEW t \in Seq(X)
  PROVE  IsSuffix(f, t) <=> EndsWith(t, f)
<1>. DEFINE a == Len(f)  b == Len(t)  F == Reverse(f)  T == Reverse(t)
            G == SubSeq(F, 1, a)  U == SubSeq(T, 1, a)
<1>1. a \in Nat /\ b \in Nat
  OBVIOUS
<1>2. /\ F \in Seq(X) /\ Len(F) = a /\ \A i \in 1..a : F[i] = f[a - i + 1]
      /\ T \in Seq(X) /\ Len(T) = b /\ \A i \in 1..b : T[i] = t[b - i + 1]
  BY DEF Reverse
<1>3. IsSuffix(f, t) <=> Len(F) <= Len(T) /\ SubSeq(F, 1, Len(F)) = SubSeq(T, 1, Len(F))
  BY DEF IsSuffix, IsPrefix
<1>. HIDE DEF F, T
<1>4. IsSuffix(f, t) <=> a <= b /\ G = U
  BY <1>2, <1>3
<1>5. CASE ~(a <= b)
  BY <1>4, <1>5 DEF EndsWith
<1>6. CASE a <= b
  <2>1. G \in Seq(X) /\ U \in Seq(X)
    BY <1>1, <1>2, <1>6, RunTyped
  <2>2. Len(G) = a /\ Len(U) = a /\ \A i \in 1..a : G[i] = F[i] /\ U[i] = T[i]
    BY <1>1, <1>2, <1>6
  <2>3. G = U <=> \A i \in 1..a : F[i] = T[i]
    <3>. HIDE DEF G, U, a
    <3>. QED  BY <2>1, <2>2, SeqEqual
  <2>4. \A i \in 1..a : F[i] = f[a - i + 1] /\ T[i] = t[b - i + 1]
    BY <1>1, <1>2, <1>6
  <2>. HIDE DEF a, b, G, U
  <2>5. ASSUME \A i \in 1..a : F[i] = T[i], NEW j \in 1..a
        PROVE  t[b - a + j] = f[j]
    <3>1. a - j + 1 \in 1..a /\ a - (a - j + 1) + 1 = j /\ b - (a - j + 1) + 1 = b - a + j
      BY <1>1
    <3>2. F[a - j + 1] = T[a - j + 1]
      BY <2>5, <3>1
    <3>. QED  BY <2>4, <3>1, <3>2
  <2>6. ASSUME \A j \in 1..a : t[b - a + j] = f[j], NEW i \in 1..a
        PROVE  F[i] = T[i]
    <3>1. a - i + 1 \in 1..a /\ b - a + (a - i + 1) = b - i + 1
      BY <1>1
    <3>2. t[b - a + (a - i + 1)] = f[a - i + 1]
      BY <2>6, <3>1
    <3>. QED  BY <2>4, <3>1, <3>2
  <2>. QED  BY <1>4, <1>6, <2>3, <2>5, <2>6 DEF EndsWith, a, b
<1>. QED  BY <1>5, <1>6

(* Two texts in a row.                                                     *)
LEMMA OneAndOther ==
  ASSUME NEW X, NEW q \in Seq(X), NEW k \in Seq(X)
  PROVE  /\ q \o k \in Seq(X) /\ Len(q \o k) = Len(q) + Len(k)
         /\ \A j \in 1..Len(q) : (q \o k)[j] = q[j]
         /\ \A j \in 1..Len(k) : (q \o k)[Len(q) + j] = k[j]
<1>1. /\ q \o k \in Seq(X) /\ Len(q \o k) = Len(q) + Len(k)
      /\ \A i \in 1..Len(q)+Len(k) : (q \o k)[i] = IF i <= Len(q) THEN q[i] ELSE k[i - Len(q)]
  <2>1. q \in Seq(X) /\ k \in Seq(X)
    OBVIOUS
  <2>. QED  BY ONLY <2>1, ConcatProperties
<1>2. Len(q) \in Nat /\ Len(k) \in Nat
  OBVIOUS
<1>3. \A j \in 1..Len(q) : j \in 1..Len(q)+Len(k) /\ j <= Len(q)
  BY <1>2
<1>4. \A j \in 1..Len(k) : Len(q) + j \in 1..Len(q)+Len(k) /\ ~(Len(q) + j <= Len(q)) /\ (Len(q) + j) - Len(q) = j
  BY <1>2
<1>. QED  BY <1>1, <1>3, <1>4

(* What is written between two pieces of a text leaves them as they were.  *)
Around(s, from, to, after) ==
  LET kept == SubSeq(s, to, Len(s))
  IN /\ IsSuffix(kept, after)
     /\ from - 1 <= Len(after) - Len(kept)
     /\ SubSeq(s, 1, from - 1) = SubSeq(after, 1, from - 1)

(* Both pieces are where they were, whatever is between them.              *)
LEMMA PiecesStay ==
  ASSUME NEW X, NEW s \in Seq(X), NEW new \in Seq(X), NEW from \in 1..Len(s)+1, NEW to \in 1..Len(s)+1
  PROVE  Around(s, from, to, (SubSeq(s, 1, from-1) \o new) \o SubSeq(s, to, Len(s)))
<1>. DEFINE p == SubSeq(s, 1, from-1)  k == SubSeq(s, to, Len(s))  q == p \o new  t == q \o k
<1>1. Len(s) \in Nat /\ from \in Nat \ {0} /\ to \in Nat \ {0} /\ from - 1 \in Int /\ Len(s) \in Int
  OBVIOUS
<1>2. p \in Seq(X) /\ k \in Seq(X)
  <2>1. from - 1 <= Len(s)
    BY <1>1
  <2>. QED  BY <1>1, <2>1, RunTyped
<1>3. Len(p) = from - 1
  BY <1>1
<1>. HIDE DEF p, k
<1>4. q \in Seq(X) /\ Len(q) = Len(p) + Len(new) /\ \A j \in 1..Len(p) : q[j] = p[j]
  BY <1>2
<1>. HIDE DEF q
<1>5. /\ t \in Seq(X) /\ Len(t) = Len(q) + Len(k)
      /\ \A j \in 1..Len(q) : t[j] = q[j]
      /\ \A j \in 1..Len(k) : t[Len(q) + j] = k[j]
  <2>1. q \in Seq(X) /\ k \in Seq(X)
    BY <1>2, <1>4
  <2>. QED  BY ONLY <2>1, OneAndOther
<1>. HIDE DEF t
<1>6. Len(k) \in Nat /\ Len(p) \in Nat /\ Len(q) \in Nat /\ Len(t) \in Nat /\ Len(new) \in Nat
  BY <1>2, <1>4, <1>5
<1>7. IsSuffix(k, t)
  <2>1. EndsWith(t, k)
    <3>1. Len(k) <= Len(t) /\ Len(t) - Len(k) = Len(q)
      BY <1>5, <1>6
    <3>. QED  BY <1>5, <3>1 DEF EndsWith
  <2>. QED  BY <1>2, <1>5, <2>1, SuffixMeans
<1>8. from - 1 <= Len(t) - Len(k)
  BY <1>3, <1>4, <1>5, <1>6
<1>9. p = SubSeq(t, 1, from - 1)
  <2>. DEFINE u == SubSeq(t, 1, from - 1)
  <2>1. from - 1 <= Len(t) /\ from - 1 \in Nat
    BY <1>3, <1>4, <1>5, <1>6
  <2>2. u \in Seq(X)
    BY <1>1, <1>5, <2>1, RunTyped
  <2>3. Len(u) = from - 1 /\ \A j \in 1..from-1 : u[j] = t[j]
    BY <1>5, <2>1
  <2>4. \A j \in 1..from-1 : t[j] = p[j]
    BY <1>3, <1>4, <1>5, <1>6
  <2>. HIDE DEF u
  <2>5. p = u
    BY <1>2, <1>3, <2>2, <2>3, <2>4, SeqEqual
  <2>. QED  BY <2>5 DEF u
<1>. QED  BY <1>7, <1>8, <1>9 DEF Around, p, k, q, t

(* One match.                                                              *)
LEMMA SpliceOne ==
  ASSUME NEW X, NEW s \in Seq(X), NEW M, NEW ms \in Seq(M), Within(ms, Len(s)), Len(ms) = 1,
         NEW new, new[1] \in Seq(X)
  PROVE  /\ ms[1].from \in 1..Len(s)+1 /\ ms[1].to \in 1..Len(s)+1
         /\ Splice(s, ms, new) = (SubSeq(s, 1, ms[1].from-1) \o new[1]) \o SubSeq(s, ms[1].to, Len(s))
         /\ Around(s, ms[1].from, ms[1].to, Splice(s, ms, new))
<1>. DEFINE P == Pieces(s, ms, new)  p == SubSeq(s, 1, ms[1].from-1) \o new[1]  k == SubSeq(s, ms[1].to, Len(s))
<1>1. DOMAIN ms = {1} /\ 1 \in DOMAIN ms
  OBVIOUS
<1>2. ms[1].from \in 1..Len(s)+1 /\ ms[1].to \in 1..Len(s)+1
  BY <1>1 DEF Within
<1>3. EndAfter(ms, 0) = 1 /\ EndAfter(ms, 1) = ms[1].to
  BY DEF EndAfter
<1>4. P[1] = p
  <2>1. P[1] = SubSeq(s, EndAfter(ms, 1-1), ms[1].from-1) \o new[1]
    BY <1>1 DEF Pieces
  <2>2. 1-1 = 0
    OBVIOUS
  <2>. HIDE DEF P
  <2>. QED  BY <1>3, <2>1, <2>2, Zenon
<1>5. P \in Seq(Seq(X)) /\ Len(P) = 1
  <2>1. \A i \in DOMAIN ms : new[i] \in Seq(X)
    BY <1>1
  <2>2. P \in Seq(Seq(X)) /\ Len(P) = Len(ms)
    BY ONLY s \in Seq(X), ms \in Seq(M), Within(ms, Len(s)), <2>1, PiecesTyped
  <2>. QED  BY <2>2
<1>6. p \in Seq(X)
  <2>1. SubSeq(s, 1, ms[1].from-1) \in Seq(X)
    <3>1. ms[1].from - 1 <= Len(s) /\ ms[1].from - 1 \in Int /\ 1 \in Nat \ {0}
      BY <1>2
    <3>. QED  BY <3>1, RunTyped
  <2>. QED  BY <2>1
<1>7. Splice(s, ms, new) = Concat(P) \o k
  BY <1>3, SpliceIs
<1>. DEFINE e == <<>>  V == Seq(X)
<1>8. e \in Seq(V) /\ e \in V
  OBVIOUS
<1>9. P = Append(e, p)
  <2>. HIDE DEF P, p, V
  <2>1. p \in V /\ P \in Seq(V)
    BY <1>5, <1>6 DEF V
  <2>. QED  BY <1>4, <1>5, <2>1, SeqEqual
<1>. HIDE DEF P, p, k, e, V
<1>10. Concat(P) = p
  <2>1. Concat(e) = e /\ Concat(Append(e, p)) = Concat(e) \o p
    BY <1>6, <1>8, ConcatGrows DEF e, V
  <2>2. e \o p = p
    BY <1>6 DEF e
  <2>. QED  BY <1>9, <2>1, <2>2
<1>11. Splice(s, ms, new) = p \o k
  BY <1>7, <1>10
<1>12. Around(s, ms[1].from, ms[1].to, p \o k)
  BY <1>2, PiecesStay DEF p, k
<1>. QED  BY <1>2, <1>11, <1>12 DEF p, k

(* That is all that OnlyItsPlace asks.                                     *)
LEMMA PlaceStays ==
  ASSUME NEW d, NEW X, d.before \in Seq(X), NEW m \in Meant(d), m.from \in 1..Len(d.before),
         Around(d.before, m.from, m.to, d.after)
  PROVE  OnlyItsPlace(d, {})
<1>. DEFINE kept == SubSeq(d.before, m.to, Len(d.before))  n == m.from - 1
<1>1. /\ IsSuffix(kept, d.after) /\ n <= Len(d.after) - Len(kept)
      /\ SubSeq(d.before, 1, n) = SubSeq(d.after, 1, n)
  BY Zenon DEF Around
<1>2. n \in 0..m.from-1 /\ \A j \in n+1..m.from-1 : d.before[j] \in {}
  <2>1. m.from \in Nat \ {0}
    OBVIOUS
  <2>. QED  BY <2>1
<1>3. Prefix(d.before, n) = Prefix(d.after, n)
  BY <1>1 DEF Prefix
<1>. HIDE DEF n
<1>. QED  BY <1>1, <1>2, <1>3, Zenon DEF OnlyItsPlace


-----------------------------------------------------------------------------
(* A literal edit.                                                         *)
LEMMA LiteralCounted ==
  ASSUME NEW s \in Seq(Symbol), NEW op \in EditOperation, op.kind = "replace", AppliedMatches(s, op) # 0
  PROVE  /\ LiteralFind(op) \in Seq(Symbol) /\ LiteralFind(op) # <<>>
         /\ AppliedMatches(s, op) = Len(Occurrences(s, LiteralFind(op)))
         /\ applyCommand(s, op).text = ReplaceText(s, LiteralFind(op), op.replace)
<1>1. op.find # <<>> /\ op.find \in Seq(Symbol) /\ op.replace \in Seq(Symbol)
  <2>1. op.find # <<>>
    BY Zenon DEF AppliedMatches, Refused
  <2>. QED  BY <2>1 DEF EditOperation
<1>2. AppliedMatches(s, op) = LiteralMatches(s, op)
  BY Zenon DEF AppliedMatches
<1>3. SingleLine(op) /\ LiteralMatches(s, op) = Len(Occurrences(s, LiteralFind(op)))
  BY <1>2, Zenon DEF LiteralMatches, Accepted
<1>4. applyCommand(s, op) = Change(ReplaceText(s, LiteralFind(op), op.replace), Len(Occurrences(s, LiteralFind(op))))
  BY <1>1, <1>3, LiteralApplied, Zenon
<1>5. applyCommand(s, op).text = ReplaceText(s, LiteralFind(op), op.replace)
  BY <1>4 DEF Change
<1>6. LiteralFind(op) \in Seq(Symbol) /\ LiteralFind(op) # <<>>
  <2>1. LiteralFind(op) \in Seq(Symbol) /\ Len(LiteralFind(op)) = Len(op.find)
    BY <1>1, Marks, ReplacedTyped DEF LiteralFind
  <2>. QED  BY <1>1, <2>1
<1>. QED  BY <1>2, <1>3, <1>5, <1>6

(* Every place counts, and one place is all that changes.                  *)
LEMMA LiteralIsExact ==
  ASSUME NEW d, d.op.kind = "replace", d.op \in EditOperation, d.before \in Seq(Symbol),
         d.applied = AppliedMatches(d.before, d.op), d.applied # 0,
         d.after = applyCommand(d.before, d.op).text
  PROVE  EveryPlaceCounts(d) /\ (d.applied = 1 => OnlyItsPlace(d, {}))
<1>. DEFINE s == d.before  op == d.op  find == LiteralFind(op)  ms == Occurrences(s, find)
            new == [k \in DOMAIN ms |-> op.replace]
<1>1. /\ find \in Seq(Symbol) /\ find # <<>> /\ d.applied = Len(ms)
      /\ d.after = ReplaceText(s, find, op.replace)
  BY LiteralCounted
<1>2. Meant(d) = LiteralOccurrences(s, find)
  BY Zenon DEF Meant
<1>3. EveryPlaceCounts(d)
  <2>. HIDE DEF ms, find, s, op
  <2>1. \E S \in kSubset(Len(ms), LiteralOccurrences(s, find)) : Apart(S)
    BY <1>1, FoundAreApart DEF ms, s
  <2>2. \A S \in kSubset(Len(ms)+1, LiteralOccurrences(s, find)) : ~Apart(S)
    BY <1>1, NoMoreAreApart DEF ms, s
  <2>. QED  BY <1>1, <1>2, <2>1, <2>2 DEF EveryPlaceCounts
<1>4. ASSUME d.applied = 1 PROVE OnlyItsPlace(d, {})
  <2>. DEFINE m == ms[1]
  <2>0. s \in Seq(Symbol) /\ op.replace \in Seq(Symbol)
    BY DEF EditOperation
  <2>1. d.after = Splice(s, ms, new)
    BY <1>1, Zenon DEF ReplaceText
  <2>. HIDE DEF s, op, find
  <2>2. PICK M : ms \in Seq(M) /\ Within(ms, Len(s))
    BY <1>1, <2>0, OccurrencesTyped, Zenon
  <2>3. m \in LiteralOccurrences(s, find) /\ m.from \in 1..Len(s)
    <3>1. 1 \in 1..Len(ms)
      BY <1>1, <1>4
    <3>. QED  BY <1>1, <2>0, <3>1, FoundArePlaces
  <2>. HIDE DEF ms
  <2>4. Len(ms) = 1 /\ new[1] = op.replace
    <3>1. Len(ms) = 1
      BY <1>1, <1>4
    <3>2. 1 \in DOMAIN ms
      BY <2>2, <3>1
    <3>. QED  BY <3>1, <3>2
  <2>. HIDE DEF new
  <2>5. m.from \in 1..Len(s)+1 /\ m.to \in 1..Len(s)+1 /\ Around(s, m.from, m.to, Splice(s, ms, new))
    BY <2>0, <2>2, <2>4, SpliceOne
  <2>. HIDE DEF m
  <2>. QED  BY <1>2, <2>1, <2>3, <2>5, PlaceStays DEF s
<1>. QED  BY <1>3, <1>4

(* The end of the text.                                                    *)
LEMMA SuffixIsExact ==
  ASSUME NEW d, d.op.kind = "replace_suffix", d.op \in EditOperation, d.before \in Seq(Symbol),
         AppliedMatches(d.before, d.op) # 0,
         d.after = applyCommand(d.before, d.op).text
  PROVE  OnlyItsPlace(d, {})
<1>. DEFINE s == d.before  op == d.op  f == NewLines(op.find)  new == NewLines(op.replace)
            i == Len(s) - Len(f) + 1  m == [from |-> i, to |-> i + Len(f)]
            u == SubSeq(s, 1, Len(s) - Len(f))
<1>1. op.find # <<>> /\ op.find \in Seq(Symbol) /\ op.replace \in Seq(Symbol) /\ s \in Seq(Symbol)
  <2>1. op.find # <<>>
    BY Zenon DEF AppliedMatches, Refused
  <2>. QED  BY <2>1 DEF EditOperation
<1>2. IsSuffix(f, s)
  BY Zenon DEF AppliedMatches, SuffixMatches
<1>3. d.after = u \o new
  <2>1. applyCommand(s, op) = Change(ReplaceSuffix(s, op), 1)
    BY <1>1, <1>2, SuffixApplied, Zenon
  <2>2. applyCommand(s, op).text = ReplaceSuffix(s, op)
    BY <2>1 DEF Change
  <2>3. ReplaceSuffix(s, op) = u \o new
    BY Zenon DEF ReplaceSuffix
  <2>. QED  BY <2>2, <2>3
<1>4. f \in Seq(Symbol) /\ f # <<>> /\ new \in Seq(Symbol)
  <2>1. op.find \in AnyText
    BY <1>1 DEF AnyText
  <2>2. FirstKept(op.find)
    BY <2>1, FirstStays, Zenon
  <2>. QED  BY <1>1, <2>2, NewLinesTyped, Zenon DEF FirstKept
<1>5. Meant(d) = {n \in LiteralOccurrences(s, f) : n.to = Len(s) + 1}
  BY Zenon DEF Meant
<1>. HIDE DEF s, op, f, new
<1>6. EndsWith(s, f)
  BY <1>1, <1>2, <1>4, SuffixMeans
<1>7. /\ Len(s) \in Nat /\ Len(f) \in Nat \ {0} /\ DOMAIN f = 1..Len(f)
      /\ i \in 1..Len(s) /\ i + Len(f) = Len(s) + 1 /\ i - 1 = Len(s) - Len(f)
  <2>1. Len(s) \in Nat /\ Len(f) \in Nat /\ Len(f) # 0 /\ DOMAIN f = 1..Len(f)
    BY <1>1, <1>4
  <2>. QED  BY <1>6, <2>1 DEF EndsWith
<1>8. OccursAt(s, f, i)
  <2>1. \A j \in 1..Len(f) : i + j - 1 = Len(s) - Len(f) + j
    BY <1>7
  <2>2. i + Len(f) - 1 <= Len(s)
    BY <1>7
  <2>. QED  BY <1>6, <1>7, <2>1, <2>2 DEF OccursAt, EndsWith
<1>. HIDE DEF i
<1>9. m \in LiteralOccurrences(s, f)
  BY <1>1, <1>4, <1>7, <1>8, OccurrencesArePlaces
<1>10. m.from = i /\ m.to = Len(s) + 1
  BY <1>7
<1>. HIDE DEF m
<1>11. m \in Meant(d)
  BY <1>5, <1>9, <1>10
<1>12. d.after = (SubSeq(s, 1, m.from - 1) \o new) \o SubSeq(s, m.to, Len(s))
  <2>1. SubSeq(s, m.to, Len(s)) = <<>>
    BY <1>1, <1>7, <1>10
  <2>2. u = SubSeq(s, 1, m.from - 1)
    BY <1>7, <1>10
  <2>3. u \in Seq(Symbol)
    <3>1. Len(s) - Len(f) \in Int /\ Len(s) - Len(f) <= Len(s) /\ 1 \in Nat \ {0}
      BY <1>7
    <3>. QED  BY <1>1, <3>1, RunTyped
  <2>. HIDE DEF u
  <2>4. (u \o new) \o <<>> = u \o new
    BY <1>4, <2>3
  <2>. QED  BY <1>3, <2>1, <2>2, <2>4
<1>13. Around(s, m.from, m.to, d.after)
  <2>1. m.from \in 1..Len(s)+1 /\ m.to \in 1..Len(s)+1
    BY <1>7, <1>10
  <2>. QED  BY <1>1, <1>4, <1>12, <2>1, PiecesStay
<1>14. m.from \in 1..Len(s)
  BY <1>7, <1>10
<1>. QED  BY <1>11, <1>13, <1>14, PlaceStays DEF s

(* What is known of a finished operation.                                  *)
Finished(d) ==
  /\ d.op \in EditOperation /\ d.before \in Seq(Symbol) /\ d.applied # 0
  /\ d.applied = AppliedMatches(d.before, d.op) /\ d.after = applyCommand(d.before, d.op).text

(* It is known of all of them.                                             *)
LEMMA DoneIsFinished ==
  ASSUME EditIInv, History, NEW d \in Done
  PROVE  Finished(d)
<1>1. PICK k \in DOMAIN stats : d = [op |-> request.operations[k], before |-> stats[k].before,
                                     applied |-> stats[k].applied, after |-> AfterOf(k)]
  BY DEF Done, AfterOf
<1>2. /\ d.op = request.operations[k] /\ d.before = stats[k].before
      /\ d.applied = stats[k].applied /\ d.after = AfterOf(k)
  BY <1>1
<1>3. Remembered(k)
  BY DEF History
<1>4. d.applied = AppliedMatches(d.before, d.op) /\ d.after = applyCommand(d.before, d.op).text
  BY <1>2, <1>3, Zenon DEF Remembered
<1>5. stats \in Seq(Stat) /\ Len(stats) <= Len(request.operations) /\ request.operations \in Seq(EditOperation)
  BY RequestsAssumption DEF EditIInv, EditTypeOK, Stat
<1>6. d.before \in Seq(Symbol) /\ d.applied # 0 /\ k \in 1..Len(request.operations)
  <2>1. Len(request.operations) \in Nat
    BY <1>5
  <2>2. k \in 1..Len(stats) /\ stats[k] \in Stat /\ Len(stats) \in Nat
    <3>. HIDE DEF Stat
    <3>. QED  BY <1>5
  <2>. QED  BY <1>2, <1>5, <2>1, <2>2 DEF Stat
<1>7. d.op \in EditOperation
  <2>. HIDE DEF EditOperation
  <2>. QED  BY <1>2, <1>5, <1>6
<1>. QED  BY <1>4, <1>6, <1>7 DEF Finished

(* A literal edit counts every place, and writes in one place only: of     *)
(* every finished operation.                                               *)
THEOREM LiteralsRight == EditSpec => []LiteralsAreExact
<1>1. EditIInv /\ History => LiteralsAreExact
  <2>. SUFFICES ASSUME EditIInv, History, NEW d \in Done
                PROVE  /\ d.op.kind = "replace" => EveryPlaceCounts(d)
                       /\ d.applied = 1 /\ d.op.kind \in {"replace", "replace_suffix"} => OnlyItsPlace(d, {})
    BY Zenon DEF LiteralsAreExact
  <2>1. Finished(d)
    BY DoneIsFinished
  <2>7. CASE d.op.kind = "replace"
    <3>1. EveryPlaceCounts(d) /\ (d.applied = 1 => OnlyItsPlace(d, {}))
      BY <2>1, <2>7, LiteralIsExact, Zenon DEF Finished
    <3>. QED  BY <3>1
  <2>8. CASE d.op.kind = "replace_suffix"
    <3>1. OnlyItsPlace(d, {})
      BY <2>1, <2>8, SuffixIsExact, Zenon DEF Finished
    <3>2. d.op.kind # "replace"
      BY <2>8
    <3>. QED  BY <3>1, <3>2
  <2>. QED  BY <2>7, <2>8
<1>. QED  BY <1>1, EditHistory, PTL
===============================================================================
