--------------------------- MODULE EditPlacesProofs ---------------------------
(***************************************************************************)
(* Where a structured edit takes effect, for any texts and operations: what *)
(* is replaced is what was asked for (RightPlaces), and nothing else is    *)
(* touched (OnlyThePlacesChange).                                          *)
(*                                                                         *)
(* Words. Tight is what Squeeze leaves of a text without its edges: its    *)
(* words, one blank between two of them. It follows a text symbol by       *)
(* symbol (TightGrows), two texts one after the other glue their words     *)
(* together (TightMeets), and dedent changes no words. A pattern fits a    *)
(* stretch exactly when that has its words (FitsItsStretch, WordsFit). So  *)
(* a match ends a place where a block fits (MatchMeans), and every such    *)
(* place is met by a match that starts above it (PlacesMatch).             *)
(*                                                                         *)
(* Places. Scan is greedy: its matches rise, and one that it does not take *)
(* starts inside one that it does (ScansGreedily). So the blocks found end *)
(* places apart from each other (BlocksAreApart), and no more places are   *)
(* apart than blocks are found (NoMoreBlocksAreApart). Below an anchor the *)
(* first block found is the first that fits (AnchoredIsRight).             *)
(*                                                                         *)
(* Around a place. Splice keeps both sides of what it replaces, and a      *)
(* match takes only white space in front of its place (BlockStaysInPlace). *)
(* The new lines are those of the replacement behind the blanks that were  *)
(* there; that shifts all of them alike, so dedent gives their shape again *)
(* (IndentedKeepsShape, BlockIsIndented).                                  *)
(*                                                                         *)
(* Names. A text is parted into its words and the symbols between them. A  *)
(* swap goes on behind each part (SwapGoesOn, SwapMeets) and exchanges the *)
(* words that are names, so a second one undoes it (SwapIsUndone).         *)
(***************************************************************************)
EXTENDS EditOpsProofs

(* The words of a text: Squeeze symbol by symbol.                          *)
EndsWide(s) == s # <<>> /\ s[Len(s)] \in Space

(* A symbol more: white space behind white space is squeezed away.         *)
LEMMA SqueezeGrows ==
  ASSUME NEW s \in Seq(Symbol), NEW c \in Symbol
  PROVE  /\ Squeeze(<<>>) = <<>> /\ Squeeze(s) \in Seq(Symbol)
         /\ c \notin Space => Squeeze(Append(s, c)) = Append(Squeeze(s), c)
         /\ c \in Space /\ EndsWide(s) => Squeeze(Append(s, c)) = Squeeze(s)
         /\ c \in Space /\ ~EndsWide(s) => Squeeze(Append(s, c)) = Append(Squeeze(s), Blank)
<1>. DEFINE V == Seq(Symbol)
            part(t, i) == IF t[i] \notin Space THEN <<t[i]>>
                          ELSE IF i = 1 \/ t[i-1] \notin Space THEN <<Blank>> ELSE <<>>
            parts(t) == [i \in DOMAIN t |-> part(t, i)]
            r == Append(s, c)  n == Len(s)  last == part(r, n+1)
<1>1. /\ n \in Nat /\ DOMAIN s = 1..n /\ r \in Seq(Symbol) /\ DOMAIN r = 1..n+1
      /\ \A i \in 1..n : r[i] = s[i]
      /\ r[n+1] = c
  OBVIOUS
<1>2. <<Blank>> \in V /\ <<>> \in V /\ \A x \in Symbol : <<x>> \in V
  <2>. DEFINE b == Blank  e == <<>>
  <2>1. b \in Symbol
    BY Marks
  <2>2. e \in V
    OBVIOUS
  <2>. HIDE DEF b, e
  <2>3. <<b>> \in V
    BY <2>1
  <2>4. \A x \in Symbol : <<x>> \in V
    OBVIOUS
  <2>. QED  BY <2>2, <2>3, <2>4 DEF b, e
<1>3. /\ \A i \in 1..n : part(s, i) \in V /\ part(r, i) = part(s, i)
      /\ last \in V
  <2>1. \A i \in 1..n : i = 1 \/ i - 1 \in 1..n
    BY <1>1
  <2>2. \A i \in 1..n : s[i] \in Symbol
    BY <1>1
  <2>. HIDE DEF V, r, n
  <2>3. \A i \in 1..n : part(r, i) = part(s, i)
    BY <1>1, <2>1
  <2>. QED  BY <1>1, <1>2, <2>2, <2>3
<1>4. /\ n = 0 => last = IF c \notin Space THEN <<c>> ELSE <<Blank>>
      /\ n # 0 => last = IF c \notin Space THEN <<c>>
                         ELSE IF s[n] \notin Space THEN <<Blank>> ELSE <<>>
  <2>1. n # 0 => n \in 1..n /\ (n+1) - 1 = n /\ n+1 # 1
    BY <1>1
  <2>2. n = 0 => n+1 = 1
    OBVIOUS
  <2>. HIDE DEF V, r, n
  <2>. QED  BY <1>1, <2>1, <2>2
<1>5. parts(s) \in Seq(V) /\ Len(parts(s)) = n
  <2>. HIDE DEF V, part, r
  <2>. QED  BY <1>1, <1>3
<1>6. parts(r) = Append(parts(s), last)
  <2>1. parts(r) \in Seq(V) /\ Len(parts(r)) = n+1 /\ \A i \in 1..n+1 : parts(r)[i] = part(r, i)
    <3>1. \A i \in 1..n+1 : part(r, i) \in V
      <4>1. \A i \in 1..n+1 : i \in 1..n \/ i = n+1
        BY <1>1
      <4>. HIDE DEF V, part, r, n
      <4>2. \A i \in 1..n : part(r, i) \in V
        BY <1>3
      <4>3. part(r, n+1) \in V
        BY <1>3
      <4>. QED  BY <4>1, <4>2, <4>3
    <3>. HIDE DEF V, part, r
    <3>. QED  BY <1>1, <3>1
  <2>2. \A i \in 1..n : parts(s)[i] = part(s, i)
    <3>. HIDE DEF V, part, r
    <3>. QED  BY <1>1
  <2>. HIDE DEF V, parts, part, r
  <2>3. /\ Append(parts(s), last) \in Seq(V) /\ Len(Append(parts(s), last)) = n+1
        /\ \A i \in 1..n : Append(parts(s), last)[i] = parts(s)[i]
        /\ Append(parts(s), last)[n+1] = last
    <3>1. parts(s) \in Seq(V) /\ last \in V
      BY <1>3, <1>5
    <3>. HIDE DEF last
    <3>2. /\ Append(parts(s), last) \in Seq(V) /\ Len(Append(parts(s), last)) = Len(parts(s))+1
          /\ \A i \in 1..Len(parts(s)) : Append(parts(s), last)[i] = parts(s)[i]
          /\ Append(parts(s), last)[Len(parts(s))+1] = last
      BY ONLY <3>1, AppendIs
    <3>. QED  BY <1>5, <3>2
  <2>4. \A i \in 1..n+1 : parts(r)[i] = Append(parts(s), last)[i]
    <3>1. \A i \in 1..n+1 : i \in 1..n \/ i = n+1
      BY <1>1
    <3>. QED  BY <1>3, <2>1, <2>2, <2>3, <3>1
  <2>. QED  BY <2>1, <2>3, <2>4, SeqEqual
<1>7. \A t \in Seq(Symbol) : Squeeze(t) = Concat(parts(t))
  BY Zenon DEF Squeeze, parts, part
<1>. DEFINE q == Concat(parts(s))
<1>8. q \in V /\ Concat(<<>>) = <<>> /\ Concat(Append(parts(s), last)) = q \o last
  <2>. HIDE DEF parts, last
  <2>. QED  BY <1>3, <1>5, ConcatGrows, ConcatTyped
<1>9. Squeeze(s) = q /\ Squeeze(r) = q \o last
  <2>. HIDE DEF parts, last, r
  <2>. QED  BY <1>1, <1>6, <1>7, <1>8
<1>10. Squeeze(<<>>) = <<>>
  <2>. DEFINE e == <<>>
  <2>1. parts(e) = <<>> /\ e \in Seq(Symbol)
    OBVIOUS
  <2>2. Squeeze(e) = Concat(parts(e))
    <3>. HIDE DEF parts, e
    <3>. QED  BY <1>7, <2>1
  <2>. QED  BY <1>8, <2>1, <2>2
<1>11. q \o <<c>> = Append(q, c) /\ q \o <<Blank>> = Append(q, Blank) /\ q \o <<>> = q
  <2>. HIDE DEF q
  <2>. QED  BY <1>8, Marks
<1>12. EndsWide(s) <=> n # 0 /\ s[n] \in Space
  BY DEF EndsWide
<1>. HIDE DEF q, last, r, parts
<1>. QED  BY <1>4, <1>8, <1>9, <1>10, <1>11, <1>12 DEF r

(* A run with its last symbol.                                             *)
LEMMA RunAppends ==
  ASSUME NEW X, NEW s \in Seq(X), NEW a \in Nat \ {0}, NEW b \in Nat, a <= b, b <= Len(s)
  PROVE  SubSeq(s, a, b) = Append(SubSeq(s, a, b-1), s[b])
<1>. DEFINE u == SubSeq(s, a, b)  w == SubSeq(s, a, b-1)  x == s[b]
<1>1. Len(s) \in Nat /\ b - 1 \in Int /\ b - 1 <= Len(s) /\ b \in Int
  OBVIOUS
<1>2. u \in Seq(X) /\ w \in Seq(X)
  BY <1>1, RunTyped
<1>3. Len(u) = b-a+1 /\ Len(w) = b-a /\ (\A j \in 1..b-a+1 : u[j] = s[a+j-1]) /\ (\A j \in 1..b-a : w[j] = s[a+j-1])
  BY <1>1
<1>4. x \in X
  OBVIOUS
<1>. HIDE DEF u, w, x
<1>5. /\ Append(w, x) \in Seq(X) /\ Len(Append(w, x)) = Len(w)+1
      /\ \A j \in 1..Len(w) : Append(w, x)[j] = w[j]
      /\ Append(w, x)[Len(w)+1] = x
  BY ONLY <1>2, <1>4, AppendIs
<1>6. \A j \in 1..b-a+1 : u[j] = Append(w, x)[j]
  <2>1. \A j \in 1..b-a+1 : j \in 1..b-a \/ j = b-a+1
    BY <1>1
  <2>2. a + (b-a+1) - 1 = b /\ b-a+1 \in 1..b-a+1
    BY <1>1
  <2>3. u[b-a+1] = x
    BY <1>3, <2>2 DEF x
  <2>. QED  BY <1>3, <1>5, <2>1, <2>3
<1>7. Len(Append(w, x)) = Len(u)
  BY <1>1, <1>3, <1>5
<1>8. \A j \in 1..Len(u) : u[j] = Append(w, x)[j]
  BY <1>3, <1>6
<1>9. u = Append(w, x)
  BY ONLY <1>2, <1>5, <1>7, <1>8, SeqEqual
<1>. QED  BY <1>9 DEF u, w, x

(* What comes of squeezing: the ends, and one Blank for each division.     *)
SqueezedAs(s, q) ==
  /\ q = <<>> <=> s = <<>>
  /\ s # <<>> => /\ q[1] = Blank <=> s[1] \in Space
                 /\ q[Len(q)] = Blank <=> s[Len(s)] \in Space
  /\ \A i \in 1..Len(q) : q[i] \in Space => q[i] = Blank
  /\ \A i \in 1..Len(q)-1 : q[i] # Blank \/ q[i+1] # Blank

(* That is what Squeeze leaves of every text.                             *)
LEMMA SqueezeMeans == \A s \in Seq(Symbol) : SqueezedAs(s, Squeeze(s))
<1>. DEFINE S == {s \in Seq(Symbol) : SqueezedAs(s, Squeeze(s))}
<1>0. Blank \in Symbol /\ Blank \in Space
  BY Marks DEF Space
<1>1. <<>> \in S
  <2>. DEFINE e == <<>>
  <2>1. e \in Seq(Symbol) /\ Len(e) = 0 /\ e = <<>>
    OBVIOUS
  <2>. HIDE DEF e
  <2>2. Squeeze(e) = e
    BY <1>0, <2>1, SqueezeGrows
  <2>3. SqueezedAs(e, e)
    BY <2>1 DEF SqueezedAs
  <2>. QED  BY <2>1, <2>2, <2>3
<1>2. ASSUME NEW s \in Seq(Symbol), NEW c \in Symbol, s \in S PROVE Append(s, c) \in S
  <2>. DEFINE r == Append(s, c)  q == Squeeze(s)  n == Len(s)  L == Len(q)
  <2>1. /\ n \in Nat /\ r \in Seq(Symbol) /\ Len(r) = n+1 /\ r # <<>>
        /\ \A i \in 1..n : r[i] = s[i]
        /\ r[n+1] = c
    OBVIOUS
  <2>2. q \in Seq(Symbol) /\ L \in Nat /\ SqueezedAs(s, q)
    <3>1. q \in Seq(Symbol)
      BY SqueezeGrows
    <3>. QED  BY <1>2, <3>1
  <2>3. s # <<>> <=> n # 0
    OBVIOUS
  <2>4. q # <<>> <=> L # 0
    BY <2>2
  <2>5. n # 0 => 1 \in 1..n /\ n \in 1..n
    BY <2>1
  <2>6. L # 0 => 1 \in 1..L
    BY <2>2
  <2>. DEFINE d == IF c \in Space THEN Blank ELSE c  t == Append(q, d)
  <2>7. d \in Symbol /\ (d \in Space <=> d = Blank) /\ (d = Blank <=> c \in Space)
    BY <1>0
  <2>. HIDE DEF d
  <2>8. t \in Seq(Symbol) /\ Len(t) = L+1 /\ (\A j \in 1..L : t[j] = q[j]) /\ t[L+1] = d
    BY ONLY <2>2, <2>7, AppendIs
  <2>9. CASE c \in Space /\ EndsWide(s)
    <3>1. Squeeze(r) = q
      BY <2>9, SqueezeGrows
    <3>2. n # 0 /\ s[n] \in Space
      BY <2>9 DEF EndsWide
    <3>. HIDE DEF r, q, n, L
    <3>3. SqueezedAs(r, q)
      BY <2>1, <2>2, <2>3, <2>4, <2>5, <2>9, <3>2 DEF SqueezedAs, n
    <3>. QED  BY <2>1, <3>1, <3>3 DEF r
  <2>10. CASE ~(c \in Space /\ EndsWide(s))
    <3>1. Squeeze(r) = t
      <4>1. c \notin Space => Squeeze(r) = Append(q, c)
        BY SqueezeGrows
      <4>2. c \in Space => Squeeze(r) = Append(q, Blank)
        BY <2>10, SqueezeGrows
      <4>. QED  BY <4>1, <4>2 DEF d
    <3>2. ~(c \in Space /\ n # 0 /\ s[n] \in Space)
      BY <2>3, <2>10 DEF EndsWide
    <3>. HIDE DEF r, q, n, L, t
    <3>3. t # <<>> /\ t[Len(t)] = d
      BY <2>2, <2>8
    <3>4. t[1] = Blank <=> r[1] \in Space
      <4>1. CASE n = 0
        <5>1. L = 0
          BY <2>2, <2>3, <2>4, <4>1 DEF SqueezedAs
        <5>. QED  BY <2>1, <2>7, <2>8, <4>1, <5>1
      <4>2. CASE n # 0
        <5>1. L # 0
          BY <2>2, <2>3, <2>4, <4>2 DEF SqueezedAs
        <5>. QED  BY <2>1, <2>2, <2>3, <2>5, <2>6, <2>8, <4>2, <5>1 DEF SqueezedAs
      <4>. QED  BY <4>1, <4>2
    <3>5. \A i \in 1..Len(t) : t[i] \in Space => t[i] = Blank
      <4>1. \A i \in 1..L+1 : i \in 1..L \/ i = L+1
        BY <2>2
      <4>. QED  BY <2>2, <2>7, <2>8, <4>1 DEF SqueezedAs, L
    <3>6. \A i \in 1..Len(t)-1 : t[i] # Blank \/ t[i+1] # Blank
      <4>. SUFFICES ASSUME NEW i \in 1..L PROVE t[i] # Blank \/ t[i+1] # Blank
        BY <2>2, <2>8
      <4>1. CASE i = L
        <5>1. L # 0 /\ n # 0
          BY <2>2, <2>3, <2>4, <4>1 DEF SqueezedAs
        <5>2. q[L] = Blank => s[n] \in Space
          BY <2>2, <2>3, <5>1 DEF SqueezedAs, L, n
        <5>3. d = Blank => s[n] \notin Space
          BY <2>7, <3>2, <5>1
        <5>. QED  BY <2>8, <4>1, <5>2, <5>3
      <4>2. CASE i # L
        <5>1. i \in 1..L-1 /\ i+1 \in 1..L
          BY <2>2, <4>2
        <5>. QED  BY <2>2, <2>8, <5>1 DEF SqueezedAs, L
      <4>. QED  BY <4>1, <4>2
    <3>7. SqueezedAs(r, t)
      BY <2>1, <2>7, <3>3, <3>4, <3>5, <3>6 DEF SqueezedAs
    <3>. QED  BY <2>1, <3>1, <3>7 DEF r
  <2>. QED  BY <2>9, <2>10
<1>3. \A s \in Seq(Symbol) : s \in S
  <2>. HIDE DEF S
  <2>. QED  BY <1>1, <1>2, SequencesGrow
<1>. QED  BY <1>3

(* The words alone, divided by one Blank where they are divided.           *)
Opens(q) == q # <<>> /\ q[1] = Blank
Closes(q) == q # <<>> /\ q[Len(q)] = Blank
Core(q) == SubSeq(q, IF Opens(q) THEN 2 ELSE 1, IF Closes(q) THEN Len(q) - 1 ELSE Len(q))
Tight(s) == Core(Squeeze(s))

(* The core of what has no two Blanks in a row grows as it does.           *)
LEMMA CoreGrows ==
  ASSUME NEW q \in Seq(Symbol), \A i \in 1..Len(q)-1 : q[i] # Blank \/ q[i+1] # Blank, NEW c \in Symbol
  PROVE  /\ Core(<<>>) = <<>> /\ Core(q) \in Seq(Symbol)
         /\ c = Blank /\ ~Closes(q) => Core(Append(q, c)) = Core(q)
         /\ c # Blank => Core(Append(q, c)) = IF Closes(q) /\ Core(q) # <<>>
                                              THEN Append(Append(Core(q), Blank), c) ELSE Append(Core(q), c)
<1>. DEFINE L == Len(q)  r == Append(q, c)  h == IF Opens(q) THEN 1 ELSE 0
<1>1. /\ L \in Nat /\ r \in Seq(Symbol) /\ Len(r) = L+1 /\ r # <<>>
      /\ \A i \in 1..L : r[i] = q[i]
      /\ r[L+1] = c
      /\ q = <<>> <=> L = 0
  OBVIOUS
<1>2. Core(<<>>) = <<>>
  <2>1. SubSeq(<<>>, 1, 0) = <<>> /\ Len(<<>>) = 0
    OBVIOUS
  <2>. QED  BY <2>1 DEF Core, Opens, Closes
<1>3. h \in {0, 1} /\ (h = 1 <=> L # 0 /\ q[1] = Blank) /\ (Closes(q) <=> L # 0 /\ q[L] = Blank)
  BY <1>1 DEF Opens, Closes
<1>4. Core(q) = SubSeq(q, h+1, IF Closes(q) THEN L-1 ELSE L)
  BY DEF Core
<1>5. L # 0 => (Opens(r) <=> Opens(q))
  BY <1>1 DEF Opens
<1>6. L = 0 => (Opens(r) <=> c = Blank)
  BY <1>1 DEF Opens
<1>7. Closes(r) <=> c = Blank
  BY <1>1 DEF Closes
<1>8. L # 0 => Core(r) = SubSeq(r, h+1, IF c = Blank THEN L ELSE L+1)
  <2>. SUFFICES ASSUME L # 0 PROVE Core(r) = SubSeq(r, h+1, IF c = Blank THEN L ELSE L+1)
    OBVIOUS
  <2>1. Core(r) = SubSeq(r, IF Opens(r) THEN 2 ELSE 1, IF Closes(r) THEN L ELSE L+1)
    <3>1. Len(r) = L+1 /\ Len(r) - 1 = L
      BY <1>1
    <3>. HIDE DEF r, L, h
    <3>. QED  BY <3>1 DEF Core
  <2>2. (IF Opens(r) THEN 2 ELSE 1) = h+1
    BY <1>5
  <2>. HIDE DEF r, L, h
  <2>. QED  BY <1>7, <2>1, <2>2
<1>9. L = 0 => Core(r) = IF c = Blank THEN SubSeq(r, 2, 0) ELSE SubSeq(r, 1, 1)
  <2>. SUFFICES ASSUME L = 0 PROVE Core(r) = IF c = Blank THEN SubSeq(r, 2, 0) ELSE SubSeq(r, 1, 1)
    OBVIOUS
  <2>1. Core(r) = SubSeq(r, IF Opens(r) THEN 2 ELSE 1, IF Closes(r) THEN 0 ELSE 1)
    <3>1. Len(r) = 1 /\ Len(r) - 1 = 0
      BY <1>1
    <3>. HIDE DEF r, L, h
    <3>. QED  BY <3>1 DEF Core
  <2>. HIDE DEF r, L, h
  <2>. QED  BY <1>6, <1>7, <2>1
<1>10. Core(q) \in Seq(Symbol)
  <2>1. h+1 \in Nat \ {0} /\ (IF Closes(q) THEN L-1 ELSE L) \in Int /\ (IF Closes(q) THEN L-1 ELSE L) <= Len(q)
    BY <1>1, <1>3
  <2>. HIDE DEF h
  <2>. QED  BY <1>4, <2>1, RunTyped
<1>11. L = 0 => q = <<>> /\ Core(q) = <<>> /\ ~Closes(q)
  BY <1>1, <1>2 DEF Closes
<1>12. \A a \in Nat \ {0} : SubSeq(r, a, L) = SubSeq(q, a, L)
  <2>. SUFFICES ASSUME NEW a \in Nat \ {0} PROVE SubSeq(r, a, L) = SubSeq(q, a, L)
    OBVIOUS
  <2>1. L <= Len(q) /\ L <= Len(r) /\ L \in Int /\ L <= L
    BY <1>1
  <2>2. Alike(q, r, L)
    BY <1>1 DEF Alike
  <2>. HIDE DEF r, L
  <2>3. SameRun(q, r, a, L)
    BY <1>1, <2>1, <2>2, RunsAreTheSame
  <2>. QED  BY <2>3 DEF SameRun
<1>13. ASSUME c = Blank, ~Closes(q) PROVE Core(r) = Core(q)
  <2>1. CASE L = 0
    <3>1. SubSeq(r, 2, 0) = <<>>
      BY <1>1
    <3>. QED  BY <1>9, <1>11, <1>13, <2>1, <3>1
  <2>2. CASE L # 0
    <3>1. h+1 \in Nat \ {0}
      BY <1>3
    <3>. HIDE DEF r, h, L
    <3>. QED  BY <1>4, <1>8, <1>12, <1>13, <2>2, <3>1
  <2>. QED  BY <2>1, <2>2
<1>14. ASSUME c # Blank PROVE Core(r) = IF Closes(q) /\ Core(q) # <<>>
                                        THEN Append(Append(Core(q), Blank), c) ELSE Append(Core(q), c)
  <2>1. CASE L = 0
    <3>1. SubSeq(r, 1, 1) = Append(SubSeq(r, 1, 0), r[1]) /\ SubSeq(r, 1, 0) = <<>>
      <4>1. 1 \in Nat \ {0} /\ 1 \in Nat /\ 1 <= 1 /\ 1 <= Len(r) /\ 1-1 = 0
        BY <1>1
      <4>. HIDE DEF r
      <4>2. SubSeq(r, 1, 1) = Append(SubSeq(r, 1, 0), r[1])
        BY <1>1, <4>1, RunAppends
      <4>. QED  BY <1>1, <4>2
    <3>2. r[1] = c
      BY <1>1, <2>1
    <3>. HIDE DEF r, h, L
    <3>. QED  BY <1>9, <1>11, <1>14, <2>1, <3>1, <3>2
  <2>2. CASE L # 0
    <3>1. Core(r) = Append(SubSeq(q, h+1, L), c)
      <4>1. h \in 0..Len(q)
        BY <1>1, <1>3, <2>2
      <4>. HIDE DEF h
      <4>2. SubSeq(Append(q, c), h+1, Len(q)+1) = Append(SubSeq(q, h+1, Len(q)), c)
        BY ONLY q \in Seq(Symbol), c \in Symbol, <4>1, RunToTheEnd
      <4>. QED  BY <1>8, <1>14, <2>2, <4>2
    <3>2. CASE ~Closes(q)
      <4>. HIDE DEF r, h, L
      <4>. QED  BY <1>4, <3>1, <3>2
    <3>3. CASE Closes(q)
      <4>. HIDE DEF r
      <4>1. CASE h+1 <= L
        <5>1. h+1 # L
          <6>. SUFFICES ASSUME h+1 = L PROVE FALSE
            OBVIOUS
          <6>1. h = 0 => q[1] = Blank
            BY <1>3, <3>3
          <6>2. h = 1 => L = 2 /\ 1 \in 1..L-1 /\ 1+1 = 2
            OBVIOUS
          <6>3. h = 1 => q[1] = Blank /\ q[2] = Blank
            BY <1>3, <3>3, <6>2
          <6>. HIDE DEF h
          <6>. QED  BY <1>3, <2>2, <6>1, <6>2, <6>3
        <5>2. SubSeq(q, h+1, L) = Append(SubSeq(q, h+1, L-1), q[L])
          <6>1. h+1 \in Nat \ {0} /\ L \in Nat /\ L <= Len(q)
            BY <1>1, <1>3
          <6>. HIDE DEF h, L
          <6>. QED  BY <4>1, <6>1, RunAppends
        <5>3. Core(q) # <<>>
          <6>0. L <= Len(q)
            BY <1>1
          <6>. HIDE DEF h, L
          <6>1. h+1 \in Nat \ {0} /\ L-1 \in Nat /\ h+1 <= L-1 /\ L-1 <= Len(q)
            BY <1>1, <1>3, <2>2, <4>1, <5>1, <6>0
          <6>2. SubSeq(q, h+1, L-1) = Append(SubSeq(q, h+1, (L-1)-1), q[L-1])
            BY <6>1, RunAppends
          <6>3. (L-1)-1 \in Int /\ (L-1)-1 <= Len(q)
            BY <1>1, <6>1
          <6>4. SubSeq(q, h+1, (L-1)-1) \in Seq(Symbol)
            BY <6>1, <6>3, RunTyped
          <6>5. \A w \in Seq(Symbol) : \A x : Append(w, x) # <<>>
            OBVIOUS
          <6>. QED  BY <1>4, <3>3, <6>2, <6>4, <6>5
        <5>. HIDE DEF h, L
        <5>. QED  BY <1>3, <1>4, <3>1, <3>3, <5>2, <5>3
      <4>2. CASE ~(h+1 <= L)
        <5>1. SubSeq(q, h+1, L) = <<>> /\ SubSeq(q, h+1, L-1) = <<>>
          BY <1>1, <1>3, <4>2
        <5>. HIDE DEF h, L
        <5>. QED  BY <1>4, <3>1, <3>3, <5>1
      <4>. QED  BY <4>1, <4>2
    <3>. QED  BY <3>2, <3>3
  <2>. QED  BY <2>1, <2>2
<1>. QED  BY <1>2, <1>10, <1>13, <1>14

(* The words of a text, symbol by symbol.                                  *)
LEMMA TightGrows ==
  ASSUME NEW s \in Seq(Symbol), NEW c \in Symbol
  PROVE  /\ Tight(<<>>) = <<>> /\ Tight(s) \in Seq(Symbol)
         /\ c \in Space => Tight(Append(s, c)) = Tight(s)
         /\ c \notin Space => Tight(Append(s, c)) = IF EndsWide(s) /\ Tight(s) # <<>>
                                                    THEN Append(Append(Tight(s), Blank), c)
                                                    ELSE Append(Tight(s), c)
<1>. DEFINE q == Squeeze(s)
<1>1. q \in Seq(Symbol) /\ Squeeze(<<>>) = <<>>
  BY SqueezeGrows
<1>2. SqueezedAs(s, q)
  BY SqueezeMeans
<1>. HIDE DEF q
<1>3. Closes(q) <=> EndsWide(s)
  BY <1>2 DEF SqueezedAs, Closes, EndsWide
<1>4. \A i \in 1..Len(q)-1 : q[i] # Blank \/ q[i+1] # Blank
  BY <1>2 DEF SqueezedAs
<1>5. Blank \in Symbol /\ Blank \in Space
  BY Marks DEF Space
<1>6. /\ Core(<<>>) = <<>> /\ Core(q) \in Seq(Symbol)
      /\ ~Closes(q) => Core(Append(q, Blank)) = Core(q)
  BY <1>1, <1>4, <1>5, CoreGrows
<1>7. c # Blank => Core(Append(q, c)) = IF Closes(q) /\ Core(q) # <<>>
                                        THEN Append(Append(Core(q), Blank), c) ELSE Append(Core(q), c)
  BY <1>1, <1>4, CoreGrows
<1>8. Tight(s) = Core(q) /\ Tight(<<>>) = Core(<<>>)
  BY <1>1 DEF Tight, q
<1>9. CASE c \in Space
  <2>1. EndsWide(s) => Tight(Append(s, c)) = Tight(s)
    BY <1>9, SqueezeGrows DEF Tight
  <2>2. ~EndsWide(s) => Tight(Append(s, c)) = Core(Append(q, Blank))
    BY <1>9, SqueezeGrows DEF Tight, q
  <2>. QED  BY <1>3, <1>6, <1>8, <1>9, <2>1, <2>2
<1>10. CASE c \notin Space
  <2>1. Tight(Append(s, c)) = Core(Append(q, c))
    BY <1>10, SqueezeGrows DEF Tight, q
  <2>. QED  BY <1>3, <1>5, <1>6, <1>7, <1>8, <1>10, <2>1
<1>. QED  BY <1>9, <1>10

(* Words and more words, divided.                                          *)
Glue(a, b) == IF a = <<>> THEN b ELSE IF b = <<>> THEN a ELSE Append(a, Blank) \o b

(* They are words again, and none only if both were none.                 *)
LEMMA GlueTyped ==
  ASSUME NEW a \in Seq(Symbol), NEW b \in Seq(Symbol)
  PROVE  /\ Glue(a, b) \in Seq(Symbol) /\ Glue(a, <<>>) = a /\ Glue(<<>>, b) = b
         /\ Glue(a, b) = <<>> => a = <<>> /\ b = <<>>
<1>. DEFINE k == Append(a, Blank)
<1>1. k \in Seq(Symbol) /\ Len(k) = Len(a) + 1
  BY Marks
<1>. HIDE DEF k
<1>2. k \o b \in Seq(Symbol) /\ Len(k \o b) = Len(k) + Len(b)
  BY <1>1
<1>3. k \o b # <<>>
  <2>1. Len(k \o b) # 0
    BY <1>1, <1>2
  <2>. QED  BY <2>1
<1>. QED  BY <1>2, <1>3 DEF Glue, k

(* One more symbol of the second.                                          *)
LEMMA GlueGrows ==
  ASSUME NEW a \in Seq(Symbol), NEW b \in Seq(Symbol), NEW d \in Symbol
  PROVE  /\ b # <<>> => Glue(a, Append(b, d)) = Append(Glue(a, b), d)
         /\ a # <<>> => Glue(a, Append(<<>>, d)) = Append(Append(a, Blank), d)
<1>. DEFINE k == Append(a, Blank)
<1>1. k \in Seq(Symbol)
  BY Marks
<1>. HIDE DEF k
<1>2. k \o Append(b, d) = Append(k \o b, d)
  <2>1. b \in Seq(Symbol) /\ k \in Seq(Symbol) /\ d \in Symbol
    BY <1>1
  <2>. QED  BY ONLY <2>1
<1>3. Append(b, d) # <<>> /\ Append(<<>>, d) # <<>>
  OBVIOUS
<1>4. k \o Append(<<>>, d) = Append(k, d)
  BY <1>1
<1>. QED  BY <1>2, <1>3, <1>4 DEF Glue, k

(* What has no words is white to its end.                                  *)
LEMMA NoWordsAreWide ==
  \A s \in Seq(Symbol) : Tight(s) = <<>> /\ s # <<>> => EndsWide(s)
<1>. DEFINE S == {s \in Seq(Symbol) : Tight(s) = <<>> /\ s # <<>> => EndsWide(s)}
<1>1. <<>> \in S
  OBVIOUS
<1>2. ASSUME NEW s \in Seq(Symbol), NEW c \in Symbol, s \in S PROVE Append(s, c) \in S
  <2>. DEFINE r == Append(s, c)
  <2>1. r \in Seq(Symbol) /\ r # <<>> /\ r[Len(r)] = c
    OBVIOUS
  <2>2. c \in Space => EndsWide(r)
    BY <2>1 DEF EndsWide
  <2>3. c \notin Space => Tight(r) # <<>>
    <3>1. Tight(s) \in Seq(Symbol)
      BY TightGrows
    <3>2. \A w, x : Append(w, x) # <<>> \/ w \notin Seq(Symbol)
      OBVIOUS
    <3>3. Append(Tight(s), Blank) \in Seq(Symbol)
      BY <3>1, Marks
    <3>. QED  BY <3>1, <3>2, <3>3, TightGrows
  <2>. HIDE DEF r
  <2>. QED  BY <2>1, <2>2, <2>3 DEF r
<1>3. \A s \in Seq(Symbol) : s \in S
  <2>. HIDE DEF S
  <2>. QED  BY <1>1, <1>2, SequencesGrow
<1>. QED  BY <1>3

(* The words of two texts with white space between them.                   *)
LEMMA TightMeets ==
  ASSUME NEW u \in Seq(Symbol), NEW c \in Symbol, c \in Space
  PROVE  \A v \in Seq(Symbol) : Tight(Append(u, c) \o v) = Glue(Tight(u), Tight(v))
<1>. DEFINE k == Append(u, c)  S == {v \in Seq(Symbol) : Tight(k \o v) = Glue(Tight(u), Tight(v))}
<1>1. k \in Seq(Symbol) /\ Tight(k) = Tight(u) /\ EndsWide(k) /\ Tight(u) \in Seq(Symbol) /\ Tight(<<>>) = <<>>
  <2>1. k \in Seq(Symbol) /\ k # <<>> /\ k[Len(k)] = c
    OBVIOUS
  <2>2. EndsWide(k)
    BY <2>1 DEF EndsWide
  <2>. QED  BY <2>1, <2>2, TightGrows
<1>. HIDE DEF k
<1>0. <<>> \in Seq(Symbol) /\ Blank \in Symbol
  BY Marks
<1>2. <<>> \in S
  <2>1. k \o <<>> = k
    BY <1>1
  <2>2. Glue(Tight(u), <<>>) = Tight(u)
    BY <1>0, <1>1, GlueTyped
  <2>. QED  BY <1>0, <1>1, <2>1, <2>2
<1>3. ASSUME NEW v \in Seq(Symbol), NEW d \in Symbol, v \in S PROVE Append(v, d) \in S
  <2>. DEFINE w == k \o v  r == Append(v, d)  a == Tight(u)  b == Tight(v)
  <2>1. w \in Seq(Symbol) /\ k \o r = Append(w, d) /\ r \in Seq(Symbol)
    <3>1. k \in Seq(Symbol) /\ v \in Seq(Symbol) /\ d \in Symbol
      BY <1>1
    <3>. QED  BY ONLY <3>1
  <2>2. EndsWide(w) <=> v = <<>> \/ EndsWide(v)
    <3>1. CASE v = <<>>
      <4>1. w = k
        BY <1>1, <3>1
      <4>. QED  BY <1>1, <3>1, <4>1
    <3>2. CASE v # <<>>
      <4>1. Len(v) \in 1..Len(v) /\ Len(k) + Len(v) # 0
        BY <1>1, <3>2
      <4>2. Len(w) = Len(k) + Len(v) /\ w[Len(k) + Len(v)] = v[Len(v)]
        <5>1. k \in Seq(Symbol) /\ v \in Seq(Symbol)
          BY <1>1
        <5>2. Len(k \o v) = Len(k) + Len(v) /\ \A j \in 1..Len(v) : (k \o v)[Len(k) + j] = v[j]
          BY ONLY <5>1, OneAndOther
        <5>. QED  BY <4>1, <5>2
      <4>3. w # <<>>
        BY <2>1, <4>1, <4>2
      <4>. HIDE DEF w
      <4>. QED  BY <3>2, <4>2, <4>3 DEF EndsWide
    <3>. QED  BY <3>1, <3>2
  <2>3. Tight(w) = Glue(a, b)
    BY <1>3
  <2>4. a \in Seq(Symbol) /\ b \in Seq(Symbol)
    BY <1>1, TightGrows
  <2>5. CASE d \in Space
    <3>1. Tight(Append(w, d)) = Tight(w) /\ Tight(r) = b
      BY <2>1, <2>5, TightGrows
    <3>. HIDE DEF w, r, a, b
    <3>2. Tight(Append(w, d)) = Glue(a, Tight(r))
      BY <2>3, <3>1
    <3>. QED  BY <2>1, <3>2 DEF r, a
  <2>6. CASE d \notin Space
    <3>1. Tight(Append(w, d)) = IF EndsWide(w) /\ Tight(w) # <<>>
                                THEN Append(Append(Tight(w), Blank), d) ELSE Append(Tight(w), d)
      BY <2>1, <2>6, TightGrows
    <3>2. Tight(r) = IF EndsWide(v) /\ b # <<>> THEN Append(Append(b, Blank), d) ELSE Append(b, d)
      BY <2>6, TightGrows
    <3>3. b = <<>> => v = <<>> \/ EndsWide(v)
      BY NoWordsAreWide
    <3>4. v = <<>> => b = <<>>
      BY <1>1
    <3>. HIDE DEF w, r, a, b
    <3>5. CASE b = <<>>
      <4>1. Tight(w) = a
        BY <1>0, <2>3, <2>4, <3>5, GlueTyped
      <4>2. Tight(r) = Append(<<>>, d) /\ EndsWide(w)
        BY <2>2, <3>2, <3>3, <3>5
      <4>3. a = <<>> => Glue(a, Append(<<>>, d)) = Append(a, d)
        <5>1. Append(<<>>, d) \in Seq(Symbol)
          OBVIOUS
        <5>. QED  BY <1>0, <2>4, <5>1, GlueTyped
      <4>4. a # <<>> => Glue(a, Append(<<>>, d)) = Append(Append(a, Blank), d)
        BY <1>0, <2>4, GlueGrows
      <4>5. Tight(Append(w, d)) = Glue(a, Tight(r))
        BY <3>1, <4>1, <4>2, <4>3, <4>4
      <4>. QED  BY <2>1, <4>5 DEF r, a
    <3>6. CASE b # <<>>
      <4>1. EndsWide(w) <=> EndsWide(v)
        BY <2>2, <3>4, <3>6
      <4>2. Glue(a, b) # <<>> /\ Glue(a, Append(b, d)) = Append(Glue(a, b), d)
        <5>1. Glue(a, b) # <<>>
          BY <2>4, <3>6, GlueTyped
        <5>. QED  BY <2>4, <3>6, <5>1, GlueGrows
      <4>3. Glue(a, Append(b, Blank)) = Append(Glue(a, b), Blank)
        BY <1>0, <2>4, <3>6, GlueGrows
      <4>4. Glue(a, Append(Append(b, Blank), d)) = Append(Glue(a, Append(b, Blank)), d)
        <5>0. b \in Seq(Symbol) /\ Blank \in Symbol
          BY <1>0, <2>4
        <5>1. Append(b, Blank) \in Seq(Symbol) /\ Append(b, Blank) # <<>>
          BY <5>0, AppendProperties
        <5>. QED  BY <2>4, <5>1, GlueGrows
      <4>5. Tight(Append(w, d)) = Glue(a, Tight(r))
        BY <2>3, <3>1, <3>2, <3>6, <4>1, <4>2, <4>3, <4>4
      <4>. QED  BY <2>1, <4>5 DEF r, a
    <3>. QED  BY <3>5, <3>6
  <2>. QED  BY <2>5, <2>6
<1>4. \A v \in Seq(Symbol) : v \in S
  <2>. HIDE DEF S
  <2>. QED  BY <1>2, <1>3, SequencesGrow
<1>. QED  BY <1>4 DEF k

(* White space has no words, and what has none is white space.             *)
AllWide(g) == \A i \in DOMAIN g : g[i] \in Space

(* The white space is what has none.                                      *)
LEMMA WideHasNoWords == \A g \in Seq(Symbol) : AllWide(g) <=> Tight(g) = <<>>
<1>. DEFINE S == {g \in Seq(Symbol) : AllWide(g) <=> Tight(g) = <<>>}
<1>1. <<>> \in S
  <2>. DEFINE e == <<>>
  <2>1. e \in Seq(Symbol) /\ DOMAIN e = {}
    OBVIOUS
  <2>2. Tight(e) = e
    <3>1. e \in Seq(Symbol) /\ Blank \in Symbol
      BY Marks
    <3>2. Tight(<<>>) = <<>>
      BY <3>1, TightGrows
    <3>. QED  BY <3>2
  <2>. HIDE DEF e
  <2>3. AllWide(e)
    BY <2>1 DEF AllWide
  <2>. QED  BY <2>1, <2>2, <2>3 DEF e
<1>2. ASSUME NEW s \in Seq(Symbol), NEW c \in Symbol, s \in S PROVE Append(s, c) \in S
  <2>. DEFINE r == Append(s, c)  n == Len(s)
  <2>1. /\ n \in Nat /\ r \in Seq(Symbol) /\ DOMAIN r = 1..n+1 /\ DOMAIN s = 1..n
        /\ \A i \in 1..n : r[i] = s[i]
        /\ r[n+1] = c
    OBVIOUS
  <2>2. AllWide(r) <=> AllWide(s) /\ c \in Space
    <3>1. \A i \in 1..n : i \in 1..n+1
      BY <2>1
    <3>2. \A i \in 1..n+1 : i \in 1..n \/ i = n+1
      BY <2>1
    <3>3. n+1 \in 1..n+1
      BY <2>1
    <3>. HIDE DEF r, n
    <3>. QED  BY <2>1, <3>1, <3>2, <3>3 DEF AllWide
  <2>3. c \notin Space => Tight(r) # <<>>
    <3>1. Tight(s) \in Seq(Symbol)
      BY TightGrows
    <3>2. \A w, x : Append(w, x) # <<>> \/ w \notin Seq(Symbol)
      OBVIOUS
    <3>3. Append(Tight(s), Blank) \in Seq(Symbol)
      BY <3>1, Marks
    <3>. QED  BY <3>1, <3>2, <3>3, TightGrows
  <2>4. c \in Space => Tight(r) = Tight(s)
    BY TightGrows
  <2>. HIDE DEF r
  <2>5. AllWide(r) <=> Tight(r) = <<>>
    BY <1>2, <2>2, <2>3, <2>4
  <2>. QED  BY <2>1, <2>5 DEF r
<1>3. \A s \in Seq(Symbol) : s \in S
  <2>. HIDE DEF S
  <2>. QED  BY <1>1, <1>2, SequencesGrow
<1>. QED  BY <1>3

(* White space in front of a text, or behind it, changes no words.         *)
LEMMA WideInFront ==
  ASSUME NEW g \in Seq(Symbol), AllWide(g), NEW v \in Seq(Symbol)
  PROVE  Tight(g \o v) = Tight(v)
<1>. DEFINE n == Len(g)
<1>1. CASE n = 0
  <2>1. g \o v = v
    BY <1>1
  <2>. QED  BY <2>1
<1>2. CASE n # 0
  <2>. DEFINE u == SubSeq(g, 1, n-1)  c == g[n]
  <2>1. 1 \in Nat \ {0} /\ n \in Nat /\ 1 <= n /\ n <= Len(g) /\ n-1 \in Int /\ n-1 <= Len(g) /\ n \in DOMAIN g
    BY <1>2
  <2>2. g = Append(u, c)
    <3>1. SubSeq(g, 1, n) = g
      OBVIOUS
    <3>. HIDE DEF n
    <3>2. SubSeq(g, 1, n) = Append(SubSeq(g, 1, n-1), g[n])
      BY <2>1, RunAppends
    <3>. QED  BY <3>1, <3>2
  <2>3. u \in Seq(Symbol)
    <3>. HIDE DEF n
    <3>. QED  BY <2>1, RunTyped
  <2>4. c \in Symbol /\ c \in Space
    BY <2>1 DEF AllWide
  <2>. HIDE DEF u, c
  <2>5. Tight(g) = Tight(u) /\ Tight(g) = <<>>
    BY <2>2, <2>3, <2>4, TightGrows, WideHasNoWords
  <2>6. Tight(g \o v) = Glue(Tight(u), Tight(v))
    BY <2>2, <2>3, <2>4, TightMeets
  <2>7. Tight(v) \in Seq(Symbol)
    BY Marks, TightGrows
  <2>. QED  BY <2>5, <2>6 DEF Glue
<1>. QED  BY <1>1, <1>2

(* White space behind a text adds no words.                               *)
LEMMA WideBehind ==
  ASSUME NEW v \in Seq(Symbol)
  PROVE  \A g \in Seq(Symbol) : AllWide(g) => Tight(v \o g) = Tight(v)
<1>. DEFINE S == {g \in Seq(Symbol) : AllWide(g) => Tight(v \o g) = Tight(v)}
<1>1. <<>> \in S
  <2>1. v \o <<>> = v
    OBVIOUS
  <2>. QED  BY <2>1
<1>2. ASSUME NEW s \in Seq(Symbol), NEW c \in Symbol, s \in S PROVE Append(s, c) \in S
  <2>. DEFINE r == Append(s, c)  n == Len(s)
  <2>1. /\ n \in Nat /\ r \in Seq(Symbol) /\ DOMAIN r = 1..n+1 /\ DOMAIN s = 1..n
        /\ \A i \in 1..n : r[i] = s[i]
        /\ r[n+1] = c
    OBVIOUS
  <2>2. AllWide(r) => AllWide(s) /\ c \in Space
    <3>1. \A i \in 1..n : i \in 1..n+1
      BY <2>1
    <3>2. n+1 \in 1..n+1
      BY <2>1
    <3>. HIDE DEF r, n
    <3>. QED  BY <2>1, <3>1, <3>2 DEF AllWide
  <2>3. v \o r = Append(v \o s, c) /\ v \o s \in Seq(Symbol)
    <3>1. v \in Seq(Symbol) /\ s \in Seq(Symbol) /\ c \in Symbol
      OBVIOUS
    <3>. QED  BY ONLY <3>1
  <2>. HIDE DEF r
  <2>4. AllWide(r) => Tight(v \o r) = Tight(v)
    <3>1. AllWide(r) => Tight(v \o s) = Tight(v) /\ c \in Space
      BY <1>2, <2>2
    <3>2. c \in Space => Tight(Append(v \o s, c)) = Tight(v \o s)
      BY <2>3, TightGrows
    <3>. QED  BY <2>3, <3>1, <3>2
  <2>. QED  BY <2>1, <2>4 DEF r
<1>3. \A s \in Seq(Symbol) : s \in S
  <2>. HIDE DEF S
  <2>. QED  BY <1>1, <1>2, SequencesGrow
<1>. QED  BY <1>3

(* A trimmed text has the words, and is squeezed to them.                  *)
LEMMA SqueezedWords ==
  ASSUME NEW s \in Seq(Symbol), s # <<>>, s[1] \notin Space, s[Len(s)] \notin Space
  PROVE  Squeeze(s) = Tight(s)
<1>. DEFINE q == Squeeze(s)
<1>1. q \in Seq(Symbol) /\ SqueezedAs(s, q)
  BY Marks, SqueezeGrows, SqueezeMeans
<1>. HIDE DEF q
<1>2. ~Opens(q) /\ ~Closes(q)
  BY <1>1 DEF SqueezedAs, Opens, Closes
<1>3. Core(q) = SubSeq(q, 1, Len(q)) /\ SubSeq(q, 1, Len(q)) = q
  BY <1>1, <1>2 DEF Core
<1>. QED  BY <1>3 DEF Tight, q

(* What TrimSpace leaves begins and ends with a solid symbol, and all     *)
(* around it is white space.                                              *)
LEMMA TrimIs ==
  ASSUME NEW s \in Seq(Symbol), Solid(s) # {}
  PROVE  \E f \in 1..Len(s), l \in 1..Len(s) :
           /\ f <= l /\ TrimSpace(s) = SubSeq(s, f, l) /\ s[f] \notin Space /\ s[l] \notin Space
           /\ \A i \in 1..Len(s) : i < f \/ i > l => s[i] \in Space
<1>. DEFINE f == Min(Solid(s))  l == Max(Solid(s))
<1>1. Len(s) \in Nat /\ Solid(s) \in SUBSET (1..Len(s))
  BY DEF Solid
<1>2. f \in Solid(s) /\ l \in Solid(s) /\ (\A k \in Solid(s) : f <= k /\ k <= l) /\ f \in 1..Len(s) /\ l \in 1..Len(s)
  BY ONLY <1>1, Solid(s) # {}, PlacesHaveEnds, Zenon
<1>3. TrimSpace(s) = SubSeq(s, f, l)
  BY DEF TrimSpace
<1>. HIDE DEF f, l
<1>4. s[f] \notin Space /\ s[l] \notin Space /\ f <= l
  BY <1>2 DEF Solid
<1>5. ASSUME NEW i \in 1..Len(s), i < f \/ i > l PROVE s[i] \in Space
  <2>1. i \notin Solid(s)
    BY <1>2, <1>5
  <2>. QED  BY <2>1 DEF Solid
<1>. QED  BY <1>2, <1>3, <1>4, <1>5

(* Its words are those of the text.                                       *)
LEMMA TrimmedWords ==
  ASSUME NEW s \in Seq(Symbol), Solid(s) # {}
  PROVE  /\ TrimSpace(s) \in Seq(Symbol) /\ TrimSpace(s) # <<>>
         /\ TrimSpace(s)[1] \notin Space /\ TrimSpace(s)[Len(TrimSpace(s))] \notin Space
         /\ Squeeze(TrimSpace(s)) = Tight(s)
<1>1. PICK f \in 1..Len(s), l \in 1..Len(s) :
           /\ f <= l /\ TrimSpace(s) = SubSeq(s, f, l) /\ s[f] \notin Space /\ s[l] \notin Space
           /\ \A i \in 1..Len(s) : i < f \/ i > l => s[i] \in Space
  BY TrimIs
<1>. DEFINE n == Len(s)  g == SubSeq(s, 1, f-1)  t == SubSeq(s, f, l)  h == SubSeq(s, l+1, n)
<1>2. n \in Nat /\ f \in Nat \ {0} /\ l \in Nat /\ l <= n /\ f <= l /\ f-1 \in Int /\ f-1 <= n /\ l+1 \in Nat \ {0} /\ n \in Int
  BY <1>1
<1>3. g \in Seq(Symbol) /\ t \in Seq(Symbol) /\ h \in Seq(Symbol)
  BY <1>2, RunTyped
<1>4. Len(t) = l-f+1 /\ (\A j \in 1..l-f+1 : t[j] = s[f+j-1])
  BY <1>2
<1>5. t # <<>> /\ t[1] \notin Space /\ t[Len(t)] \notin Space
  <2>1. l-f+1 # 0 /\ 1 \in 1..l-f+1 /\ l-f+1 \in 1..l-f+1 /\ f+1-1 = f /\ f+(l-f+1)-1 = l
    BY <1>2
  <2>2. t[1] = s[f] /\ t[l-f+1] = s[l]
    BY <1>4, <2>1
  <2>. HIDE DEF t
  <2>. QED  BY <1>1, <1>3, <1>4, <2>1, <2>2
<1>6. AllWide(g)
  <2>1. DOMAIN g = 1..f-1 /\ \A j \in 1..f-1 : g[j] = s[j] /\ j \in 1..n /\ j < f
    BY <1>2
  <2>. HIDE DEF g, n
  <2>. QED  BY <1>1, <2>1 DEF AllWide, n
<1>7. AllWide(h)
  <2>1. DOMAIN h = 1..n-l /\ \A j \in 1..n-l : h[j] = s[l+1+j-1] /\ l+1+j-1 \in 1..n /\ l+1+j-1 > l
    BY <1>2
  <2>. HIDE DEF h, n
  <2>. QED  BY <1>1, <2>1 DEF AllWide, n
<1>8. s = (g \o t) \o h
  <2>1. g \o t = SubSeq(s, 1, l)
    BY <1>2, ConcatAdjacentSubSeq
  <2>2. SubSeq(s, 1, l) \o h = SubSeq(s, 1, n)
    BY <1>2, ConcatAdjacentSubSeq
  <2>3. SubSeq(s, 1, n) = s
    OBVIOUS
  <2>. QED  BY <2>1, <2>2, <2>3
<1>9. TrimSpace(s) = t
  BY <1>1
<1>. HIDE DEF g, t, h
<1>10. g \o t \in Seq(Symbol)
  BY <1>3
<1>11. Tight((g \o t) \o h) = Tight(g \o t) /\ Tight(g \o t) = Tight(t)
  BY <1>3, <1>6, <1>7, <1>10, WideInFront, WideBehind
<1>12. Squeeze(t) = Tight(t)
  BY <1>3, <1>5, SqueezedWords
<1>. QED  BY <1>3, <1>5, <1>8, <1>9, <1>11, <1>12

(* A pattern is the words of its block, below a Blank if it begins white.  *)
LEMMA PatternIs ==
  ASSUME NEW s \in Seq(Symbol), Solid(s) # {}
  PROVE  buildFlexPattern(s) = IF s[1] \in Space THEN <<Blank>> \o Tight(s) ELSE Tight(s)
<1>. DEFINE q == Squeeze(s)  L == Len(q)  m == IF Closes(q) THEN L-1 ELSE L
<1>1. q \in Seq(Symbol) /\ SqueezedAs(s, q) /\ L \in Nat
  <2>1. q \in Seq(Symbol)
    BY Marks, SqueezeGrows
  <2>. QED  BY <2>1, SqueezeMeans
<1>2. s # <<>> /\ ~AllWide(s)
  BY DEF Solid, AllWide
<1>3. Tight(s) # <<>> /\ Tight(s) = Core(q)
  BY <1>2, WideHasNoWords DEF Tight
<1>4. buildFlexPattern(s) = SubSeq(q, 1, m)
  <2>1. SubSeq(q, 1, L) = q
    BY <1>1
  <2>. HIDE DEF q
  <2>. QED  BY <2>1 DEF buildFlexPattern, Closes, Last, Front, q
<1>5. Opens(q) <=> s[1] \in Space
  <2>. HIDE DEF q
  <2>. QED  BY <1>1, <1>2 DEF SqueezedAs, Opens
<1>6. m \in Int /\ m <= Len(q) /\ m <= L
  BY <1>1
<1>7. Core(q) = SubSeq(q, IF Opens(q) THEN 2 ELSE 1, m)
  BY DEF Core
<1>. HIDE DEF q, m
<1>8. CASE ~Opens(q)
  BY <1>3, <1>4, <1>5, <1>7, <1>8
<1>9. CASE Opens(q)
  <2>1. q[1] = Blank /\ L # 0
    BY <1>1, <1>9 DEF Opens
  <2>2. SubSeq(q, 2, m) # <<>>
    BY <1>3, <1>7, <1>9
  <2>3. m >= 2
    <3>1. m < 2 => SubSeq(q, 2, m) = <<>>
      BY <1>1, <1>6
    <3>. QED  BY <1>6, <2>2, <3>1
  <2>4. SubSeq(q, 1, 1) \o SubSeq(q, 2, m) = SubSeq(q, 1, m)
    <3>1. 1 \in 1..L+1 /\ 1 \in 1-1..L /\ m \in 1..L
      BY <1>1, <1>6, <2>1, <2>3
    <3>2. SubSeq(q, 1, 1) \o SubSeq(q, 1+1, m) = SubSeq(q, 1, m)
      BY <1>1, <3>1, ConcatAdjacentSubSeq
    <3>3. 1+1 = 2
      OBVIOUS
    <3>. QED  BY <3>2, <3>3
  <2>5. SubSeq(q, 1, 1) = <<Blank>>
    <3>1. 1 \in Nat \ {0} /\ 1 \in Nat /\ 1 <= 1 /\ 1 <= Len(q) /\ 1-1 = 0
      BY <1>1, <1>6, <2>3
    <3>2. SubSeq(q, 1, 1) = Append(SubSeq(q, 1, 0), q[1])
      BY <1>1, <3>1, RunAppends
    <3>3. SubSeq(q, 1, 0) = <<>>
      BY <1>1
    <3>4. \A x : Append(<<>>, x) = <<x>>
      OBVIOUS
    <3>. HIDE DEF q
    <3>. QED  BY <2>1, <3>2, <3>3, <3>4
  <2>. QED  BY <1>3, <1>4, <1>5, <1>7, <1>9, <2>4, <2>5
<1>. QED  BY <1>8, <1>9

-----------------------------------------------------------------------------
(* The lines of a text as a function of how far it was read.               *)
LEMMA SplitGoes ==
  ASSUME NEW X, NEW s \in Seq(X)
  PROVE  \E u \in [0..Len(s) -> LineSeqs(X)] :
           /\ u[0] = <<<<>>>> /\ \A n \in 1..Len(s) : u[n] = WithSymbol(u[n-1], s[n])
           /\ SplitLines(s) = u[Len(s)]
<1>. DEFINE N == Len(s)
            V == LineSeqs(X)
            base == <<<<>>>>
            step == [p \in V \X (1..N) |-> WithSymbol(p[1], s[p[2]])]
            body(g, n) == IF n = 0 THEN <<<<>>>> ELSE WithSymbol(g[n-1], s[n])
            Goes(g) == g = [n \in 0..N |-> body(g, n)]
            all == CHOOSE g : Goes(g)
<1>1. N \in Nat /\ \A n \in 1..N : s[n] \in X
  OBVIOUS
<1>2. base \in V
  <2>. DEFINE W == Seq(X)  e == <<>>
  <2>1. e \in W
    OBVIOUS
  <2>. HIDE DEF W, e
  <2>2. <<e>> \in Seq(W) /\ Len(<<e>>) = 1 /\ Len(<<>>) = 0
    BY <2>1
  <2>3. <<e>> # <<>>
    BY <2>2
  <2>. QED  BY <2>2, <2>3 DEF LineSeqs, W, e
<1>3. step \in Steps(V, N)
  <2>1. \A v \in V, n \in 1..N : WithSymbol(v, s[n]) \in V
    <3>. HIDE DEF N
    <3>. QED  BY <1>1, WithSymbolTyped
  <2>2. \A p \in V \X (1..N) : WithSymbol(p[1], s[p[2]]) \in V
    <3>. HIDE DEF V, N
    <3>. QED  BY <2>1
  <2>. HIDE DEF V, N
  <2>. QED  BY <2>2 DEF Steps
<1>4. PICK g \in Solutions(V, N, base, step) : TRUE
  <2>. HIDE DEF V, N, base, step
  <2>. QED  BY <1>1, <1>2, <1>3, Recursion
<1>5. g \in [0..N -> V] /\ g[0] = base /\ \A n \in 1..N : g[n] = step[<<g[n-1], n>>]
  <2>. HIDE DEF V, N, base, step
  <2>. QED  BY <1>4 DEF Solutions
<1>6. \A n \in 1..N : g[n] = WithSymbol(g[n-1], s[n])
  <2>1. \A n \in 1..N : n - 1 \in 0..N
    BY <1>1
  <2>. HIDE DEF V, N
  <2>2. \A n \in 1..N : g[n-1] \in V
    BY <1>5, <2>1
  <2>3. \A v \in V, n \in 1..N : step[<<v, n>>] = WithSymbol(v, s[n])
    OBVIOUS
  <2>. HIDE DEF step
  <2>. QED  BY <1>5, <2>2, <2>3
<1>7. Goes(g)
  <2>1. \A n \in 0..N : n = 0 \/ n \in 1..N
    BY <1>1
  <2>2. \A n \in 0..N : g[n] = body(g, n)
    <3>. HIDE DEF V, N, step
    <3>. QED  BY <1>5, <1>6, <2>1
  <2>. HIDE DEF V, body, N, step
  <2>. QED  BY <1>5, <2>2
<1>8. all = [n \in 0..N |-> body(all, n)]
  <2>. HIDE DEF Goes
  <2>1. Goes(all)
    BY <1>7, Zenon
  <2>. QED  BY <2>1, Zenon DEF Goes
<1>9. SplitLines(s) = all[N]
  BY Zenon DEF SplitLines, WithSymbol
<1>. HIDE DEF all, Goes
<1>10. \A n \in 0..N : all[n] = body(all, n)
  <2>. HIDE DEF body, N
  <2>. QED  BY <1>8
<1>11. all[0] = base /\ \A n \in 1..N : all[n] = WithSymbol(all[n-1], s[n])
  <2>1. 0 \in 0..N /\ \A n \in 1..N : n # 0 /\ n \in 0..N
    BY <1>1
  <2>. HIDE DEF N
  <2>. QED  BY <1>10, <2>1
<1>. HIDE DEF base, V
<1>12. \A n \in 0..N : all[n] \in V
  <2>. DEFINE S == {n \in 0..N : all[n] \in V}
  <2>1. 0 \in S /\ 0 \in Nat
    BY <1>1, <1>2, <1>11
  <2>2. ASSUME NEW k \in 0..N-1, k \in S PROVE k + 1 \in S
    <3>1. k + 1 \in 1..N /\ k + 1 \in 0..N /\ (k + 1) - 1 = k
      BY <1>1
    <3>. HIDE DEF N
    <3>2. all[k] \in V /\ s[k+1] \in X
      BY <1>1, <2>2, <3>1
    <3>3. WithSymbol(all[k], s[k+1]) \in V
      BY <3>2, WithSymbolTyped, Zenon DEF V
    <3>. QED  BY <1>11, <3>1, <3>3
  <2>3. \A n \in 0..N : n \in S
    <3>. HIDE DEF S, N
    <3>. QED  BY ONLY <1>1, <2>1, <2>2, Upwards
  <2>. QED  BY <2>3
<1>13. all \in [0..N -> V]
  <2>1. all = [n \in 0..N |-> all[n]]
    <3>. HIDE DEF body, N
    <3>1. DOMAIN all = 0..N
      BY <1>8
    <3>2. \A n \in 0..N : all[n] = [m \in 0..N |-> all[m]][n]
      OBVIOUS
    <3>3. all = [n \in 0..N |-> body(all, n)]
      BY <1>8
    <3>4. \A n \in 0..N : body(all, n) = all[n]
      BY <1>10
    <3>. QED  BY <3>3, <3>4
  <2>. HIDE DEF N
  <2>. QED  BY <1>12, <2>1
<1>14. all[0] = <<<<>>>>
  BY <1>11 DEF base
<1>. QED  BY <1>9, <1>11, <1>13, <1>14, Zenon DEF V, N

(* One symbol more.                                                        *)
LEMMA SplitGrows ==
  ASSUME NEW X, NEW s \in Seq(X), NEW c \in X
  PROVE  SplitLines(<<>>) = <<<<>>>> /\ SplitLines(Append(s, c)) = WithSymbol(SplitLines(s), c)
<1>1. SplitLines(<<>>) = <<<<>>>>
  <2>. DEFINE e == <<>>
  <2>1. e \in Seq(X) /\ Len(e) = 0
    OBVIOUS
  <2>. HIDE DEF e
  <2>2. PICK u \in [0..Len(e) -> LineSeqs(X)] : u[0] = <<<<>>>> /\ SplitLines(e) = u[Len(e)]
    BY <2>1, SplitGoes, Zenon
  <2>3. SplitLines(e) = <<<<>>>>
    BY ONLY <2>1, <2>2
  <2>. QED  BY <2>3 DEF e
<1>. DEFINE N == Len(s)  t == Append(s, c)
<1>n. N \in Nat
  OBVIOUS
<1>2. t \in Seq(X) /\ Len(t) = N+1 /\ t[N+1] = c /\ \A n \in 1..N : t[n] = s[n]
  OBVIOUS
<1>3. PICK u \in [0..N -> LineSeqs(X)] :
        u[0] = <<<<>>>> /\ (\A n \in 1..N : u[n] = WithSymbol(u[n-1], s[n])) /\ SplitLines(s) = u[N]
  BY SplitGoes, Zenon
<1>4. PICK w \in [0..N+1 -> LineSeqs(X)] :
        w[0] = <<<<>>>> /\ (\A n \in 1..N+1 : w[n] = WithSymbol(w[n-1], t[n])) /\ SplitLines(t) = w[N+1]
  <2>. HIDE DEF t, N
  <2>1. \E w \in [0..Len(t) -> LineSeqs(X)] :
           /\ w[0] = <<<<>>>> /\ \A n \in 1..Len(t) : w[n] = WithSymbol(w[n-1], t[n])
           /\ SplitLines(t) = w[Len(t)]
    BY ONLY <1>2, SplitGoes, Zenon
  <2>. QED  BY <1>2, <2>1, Zenon
<1>. HIDE DEF t, N
<1>5. \A n \in 0..N : w[n] = u[n]
  <2>. DEFINE S == {n \in 0..N : w[n] = u[n]}
  <2>1. 0 \in S /\ 0 \in Nat
    <3>1. 0 \in 0..N /\ 0 \in Nat
      BY <1>n
    <3>. QED  BY <1>3, <1>4, <3>1, Zenon
  <2>2. ASSUME NEW k \in 0..N-1, k \in S PROVE k + 1 \in S
    <3>1. k + 1 \in 1..N /\ k + 1 \in 1..N+1 /\ k + 1 \in 0..N /\ (k + 1) - 1 = k
      BY <1>n
    <3>2. /\ w[k+1] = WithSymbol(w[k], t[k+1]) /\ u[k+1] = WithSymbol(u[k], s[k+1])
          /\ w[k] = u[k] /\ t[k+1] = s[k+1]
      BY <1>2, <1>3, <1>4, <2>2, <3>1
    <3>. QED  BY <3>1, <3>2
  <2>3. \A n \in 0..N : n \in S
    <3>. HIDE DEF S
    <3>. QED  BY ONLY <1>n, <2>1, <2>2, Upwards
  <2>. QED  BY <2>3
<1>6. SplitLines(t) = WithSymbol(SplitLines(s), c)
  <2>1. N \in 0..N /\ N+1 \in 1..N+1 /\ (N+1)-1 = N
    BY <1>n
  <2>. QED  BY <1>2, <1>3, <1>4, <1>5, <2>1
<1>. QED  BY <1>1, <1>6 DEF t, N

(* One line more.                                                          *)
LEMMA JoinGrows ==
  ASSUME NEW ls \in Seq(Seq(Symbol)), NEW l \in Seq(Symbol)
  PROVE  /\ JoinLines(<<>>) = <<>> /\ JoinLines(ls) \in Seq(Symbol)
         /\ ls = <<>> => JoinLines(Append(ls, l)) = l
         /\ ls # <<>> => JoinLines(Append(ls, l)) = Append(JoinLines(ls), NL) \o l
<1>. DEFINE V == Seq(Symbol)
            part(t, i) == IF i = 1 THEN t[1] ELSE <<NL>> \o t[i]
            parts(t) == [i \in DOMAIN t |-> part(t, i)]
            r == Append(ls, l)  n == Len(ls)  last == part(r, n+1)  b == <<NL>>  e == <<>>
<1>0. b \in V /\ e \in V /\ NL \in Symbol /\ l \in V
  <2>. DEFINE c == NL
  <2>1. c \in Symbol
    BY Marks
  <2>. HIDE DEF c
  <2>2. <<c>> \in V
    BY <2>1
  <2>3. <<>> \in V
    OBVIOUS
  <2>. QED  BY <2>1, <2>2, <2>3 DEF c
<1>v. \A u, w \in V : u \o w \in V
  OBVIOUS
<1>s. ls \in Seq(V)
  OBVIOUS
<1>. HIDE DEF V, b, e
<1>1. /\ n \in Nat /\ DOMAIN ls = 1..n /\ r \in Seq(V) /\ DOMAIN r = 1..n+1
      /\ \A i \in 1..n : r[i] = ls[i] /\ ls[i] \in V
      /\ r[n+1] = l
  BY <1>0, <1>s
<1>3. /\ \A i \in 1..n : part(ls, i) \in V /\ part(r, i) = part(ls, i)
      /\ last \in V
  <2>1. n = 0 => last = l
    BY <1>1
  <2>2. n # 0 => last = b \o l
    <3>1. n # 0 => n+1 # 1
      BY <1>1
    <3>. HIDE DEF n, r
    <3>. QED  BY <1>1, <3>1 DEF b
  <2>. HIDE DEF r, n
  <2>3. ASSUME NEW i \in 1..n PROVE part(ls, i) \in V /\ part(r, i) = part(ls, i)
    <3>1. 1 \in 1..n
      BY <1>1
    <3>2. b \o ls[i] \in V
      BY <1>0, <1>1, <1>v
    <3>. QED  BY <1>1, <3>1, <3>2 DEF b
  <2>4. last \in V
    <3>1. b \o l \in V
      BY <1>0, <1>v
    <3>. HIDE DEF last
    <3>. QED  BY <1>0, <2>1, <2>2, <3>1
  <2>. QED  BY <2>3, <2>4
<1>4. last = IF n = 0 THEN l ELSE b \o l
  <2>1. n # 0 => n+1 # 1
    BY <1>1
  <2>2. n = 0 => n+1 = 1
    OBVIOUS
  <2>. HIDE DEF r, n
  <2>. QED  BY <1>1, <2>1, <2>2 DEF b
<1>5. parts(ls) \in Seq(V) /\ Len(parts(ls)) = n
  <2>. HIDE DEF part, r
  <2>. QED  BY <1>1, <1>3
<1>6. parts(r) = Append(parts(ls), last)
  <2>1. parts(r) \in Seq(V) /\ Len(parts(r)) = n+1 /\ \A i \in 1..n+1 : parts(r)[i] = part(r, i)
    <3>1. \A i \in 1..n+1 : part(r, i) \in V
      <4>1. \A i \in 1..n+1 : i \in 1..n \/ i = n+1
        BY <1>1
      <4>. HIDE DEF part, r, n
      <4>2. \A i \in 1..n : part(r, i) \in V
        BY <1>3
      <4>3. part(r, n+1) \in V
        BY <1>3
      <4>. QED  BY <4>1, <4>2, <4>3
    <3>. HIDE DEF part, r
    <3>. QED  BY <1>1, <3>1
  <2>2. \A i \in 1..n : parts(ls)[i] = part(ls, i)
    <3>. HIDE DEF part, r
    <3>. QED  BY <1>1
  <2>. HIDE DEF parts, part, r
  <2>3. /\ Append(parts(ls), last) \in Seq(V) /\ Len(Append(parts(ls), last)) = n+1
        /\ \A i \in 1..n : Append(parts(ls), last)[i] = parts(ls)[i]
        /\ Append(parts(ls), last)[n+1] = last
    <3>1. parts(ls) \in Seq(V) /\ last \in V
      BY <1>3, <1>5
    <3>. HIDE DEF last
    <3>2. /\ Append(parts(ls), last) \in Seq(V) /\ Len(Append(parts(ls), last)) = Len(parts(ls))+1
          /\ \A i \in 1..Len(parts(ls)) : Append(parts(ls), last)[i] = parts(ls)[i]
          /\ Append(parts(ls), last)[Len(parts(ls))+1] = last
      BY ONLY <3>1, AppendIs
    <3>. QED  BY <1>5, <3>2
  <2>4. \A i \in 1..n+1 : parts(r)[i] = Append(parts(ls), last)[i]
    <3>1. \A i \in 1..n+1 : i \in 1..n \/ i = n+1
      BY <1>1
    <3>. QED  BY <1>3, <2>1, <2>2, <2>3, <3>1
  <2>. QED  BY <2>1, <2>3, <2>4, SeqEqual
<1>7. \A t : JoinLines(t) = Concat(parts(t))
  BY Zenon DEF JoinLines, parts, part
<1>. DEFINE q == Concat(parts(ls))
<1>8. q \in V /\ Concat(e) = e /\ Concat(Append(parts(ls), last)) = q \o last
  <2>. HIDE DEF parts, last
  <2>. QED  BY <1>3, <1>5, ConcatGrows, ConcatTyped DEF V, e
<1>9. JoinLines(ls) = q /\ JoinLines(r) = q \o last
  <2>. HIDE DEF parts, last, r
  <2>. QED  BY <1>1, <1>6, <1>7, <1>8
<1>10. JoinLines(e) = e
  <2>1. parts(<<>>) = <<>>
    OBVIOUS
  <2>2. JoinLines(<<>>) = Concat(parts(<<>>))
    <3>. HIDE DEF parts
    <3>. QED  BY <1>7
  <2>. QED  BY <1>8, <2>1, <2>2 DEF e
<1>11. n = 0 => ls = <<>> /\ q = <<>> /\ q \o l = l
  <2>1. n = 0 => ls = <<>>
    OBVIOUS
  <2>2. \A w \in Seq(Symbol) : <<>> \o w = w
    OBVIOUS
  <2>. HIDE DEF q
  <2>. QED  BY <1>0, <1>9, <1>10, <2>1, <2>2 DEF e, V
<1>12. n # 0 => ls # <<>>
  OBVIOUS
<1>13. q \o (b \o l) = Append(q, NL) \o l
  <2>. HIDE DEF q
  <2>1. (q \o b) \o l = q \o (b \o l)
    <3>1. q \in Seq(Symbol) /\ b \in Seq(Symbol) /\ l \in Seq(Symbol)
      BY <1>0, <1>8 DEF V
    <3>. QED  BY ONLY <3>1, ConcatAssociative
  <2>2. q \o <<NL>> = Append(q, NL)
    <3>1. q \in Seq(Symbol) /\ NL \in Symbol
      BY <1>0, <1>8 DEF V
    <3>. QED  BY ONLY <3>1
  <2>. QED  BY <2>1, <2>2 DEF b
<1>. HIDE DEF q, last, r, parts, n
<1>. QED  BY <1>4, <1>8, <1>9, <1>10, <1>11, <1>12, <1>13 DEF r, V, e

(* The symbols of a run.                                                   *)
LEMMA RunIs ==
  ASSUME NEW X, NEW q \in Seq(X), NEW a \in Nat \ {0}, NEW b \in Nat, b <= Len(q), a <= b+1
  PROVE  /\ SubSeq(q, a, b) \in Seq(X) /\ Len(SubSeq(q, a, b)) = b-a+1
         /\ \A j \in 1..b-a+1 : SubSeq(q, a, b)[j] = q[a+j-1]
<1>1. SubSeq(q, a, b) \in Seq(X)
  BY RunTyped
<1>2. Len(SubSeq(q, a, b)) = b-a+1
  OBVIOUS
<1>3. \A j \in 1..b-a+1 : SubSeq(q, a, b)[j] = q[a+j-1]
  OBVIOUS
<1>. QED  BY <1>1, <1>2, <1>3

(* A symbol more in the last line, or a line more, is a symbol more.       *)
LEMMA JoinsWith ==
  ASSUME NEW ls \in LineSeqs(Symbol), NEW c \in Symbol
  PROVE  JoinLines(WithSymbol(ls, c)) = Append(JoinLines(ls), c)
<1>. DEFINE V == Seq(Symbol)  n == Len(ls)  fr == SubSeq(ls, 1, n-1)  l == ls[n]
<1>0. NL \in Symbol
  BY Marks
<1>1. ls \in Seq(V) /\ ls # <<>> /\ <<>> \in V /\ \A t \in V : Append(t, c) \in V
  BY DEF LineSeqs
<1>2. JoinLines(ls) \in V
  <2>1. ls \in Seq(Seq(Symbol))
    BY <1>1
  <2>. QED  BY <1>0, <2>1, JoinTyped, Zenon
<1>. HIDE DEF V
<1>3. n \in Nat \ {0} /\ n \in 1..n /\ 1 <= n /\ n <= n /\ 1 \in Nat \ {0} /\ n-1 \in Int /\ n-1 <= n /\ l \in V
  BY <1>1
<1>4. CASE c = NL
  <2>1. WithSymbol(ls, c) = Append(ls, <<>>)
    BY <1>4 DEF WithSymbol
  <2>2. JoinLines(Append(ls, <<>>)) = Append(JoinLines(ls), NL) \o <<>>
    <3>1. ls \in Seq(Seq(Symbol)) /\ <<>> \in Seq(Symbol) /\ ls # <<>>
      BY <1>1 DEF V
    <3>. QED  BY <3>1, JoinGrows, Zenon
  <2>3. Append(JoinLines(ls), NL) \in V
    <3>1. JoinLines(ls) \in Seq(Symbol)
      BY <1>2 DEF V
    <3>2. Append(JoinLines(ls), NL) \in Seq(Symbol)
      BY <1>0, <3>1, AppendIs, Zenon
    <3>. QED  BY <3>2 DEF V
  <2>4. Append(JoinLines(ls), NL) \o <<>> = Append(JoinLines(ls), NL)
    <3>1. \A t \in Seq(Symbol) : t \o <<>> = t
      OBVIOUS
    <3>. QED  BY <2>3, <3>1, Zenon DEF V
  <2>. QED  BY <1>4, <2>1, <2>2, <2>4, Zenon
<1>5. CASE c # NL
  <2>. DEFINE w == [ls EXCEPT ![n] = Append(@, c)]  k == Append(l, c)
  <2>1. fr \in Seq(V) /\ Len(fr) = n-1 /\ \A i \in 1..n-1 : fr[i] = ls[i]
    <3>. HIDE DEF n
    <3>1. n-1 \in Nat /\ 1 <= n-1+1 /\ n-1 <= Len(ls) /\ n-1-1+1 = n-1 /\ \A j \in 1..n-1 : 1+j-1 = j
      BY <1>3 DEF n
    <3>2. /\ fr \in Seq(V) /\ Len(fr) = n-1-1+1
          /\ \A j \in 1..n-1-1+1 : fr[j] = ls[1+j-1]
      BY <1>1, <1>3, <3>1, RunIs
    <3>. HIDE DEF fr
    <3>. QED  BY <3>1, <3>2
  <2>2. k \in V
    BY <1>1, <1>3
  <2>. HIDE DEF k
  <2>3. w \in Seq(V) /\ Len(w) = n /\ w[n] = k /\ \A i \in 1..n-1 : w[i] = ls[i]
    <3>1. w = [ls EXCEPT ![n] = k]
      BY DEF k
    <3>2. [ls EXCEPT ![n] = k] \in Seq(V) /\ Len([ls EXCEPT ![n] = k]) = n
      BY <1>1, <1>3, <2>2
    <3>3. [ls EXCEPT ![n] = k][n] = k /\ \A i \in 1..n-1 : [ls EXCEPT ![n] = k][i] = ls[i]
      BY <1>1, <1>3, <2>2
    <3>. HIDE DEF w, n
    <3>. QED  BY <3>1, <3>2, <3>3
  <2>4. \A x \in V : /\ Append(fr, x) \in Seq(V) /\ Len(Append(fr, x)) = n /\ Append(fr, x)[n] = x
                     /\ \A i \in 1..n-1 : Append(fr, x)[i] = ls[i]
    <3>. SUFFICES ASSUME NEW x \in V
                  PROVE /\ Append(fr, x) \in Seq(V) /\ Len(Append(fr, x)) = n /\ Append(fr, x)[n] = x
                        /\ \A i \in 1..n-1 : Append(fr, x)[i] = ls[i]
      OBVIOUS
    <3>. HIDE DEF fr, n
    <3>1. /\ Append(fr, x) \in Seq(V) /\ Len(Append(fr, x)) = Len(fr)+1
          /\ \A j \in 1..Len(fr) : Append(fr, x)[j] = fr[j]
          /\ Append(fr, x)[Len(fr)+1] = x
      BY ONLY <2>1, x \in V, AppendIs
    <3>2. Len(fr)+1 = n
      BY <1>3, <2>1
    <3>. QED  BY <2>1, <3>1, <3>2
  <2>5. \A i \in 1..n : i = n \/ i \in 1..n-1
    BY <1>3
  <2>. HIDE DEF fr, w
  <2>6. ls = Append(fr, l)
    <3>1. Append(fr, l) \in Seq(V) /\ Len(Append(fr, l)) = n /\ \A i \in 1..n : Append(fr, l)[i] = ls[i]
      <4>. HIDE DEF n
      <4>. QED  BY <1>3, <2>4, <2>5
    <3>. QED  BY <1>1, <3>1, SeqEqual
  <2>7. w = Append(fr, k)
    <3>1. \A i \in 1..n : Append(fr, k)[i] = w[i]
      <4>. HIDE DEF n
      <4>. QED  BY <2>2, <2>3, <2>4, <2>5
    <3>. QED  BY <2>2, <2>3, <2>4, <3>1, SeqEqual
  <2>8. WithSymbol(ls, c) = w
    BY <1>5 DEF WithSymbol, w
  <2>. HIDE DEF n, l
  <2>9. \A x \in V : /\ fr = <<>> => JoinLines(Append(fr, x)) = x
                     /\ fr # <<>> => JoinLines(Append(fr, x)) = Append(JoinLines(fr), NL) \o x
    <3>. SUFFICES ASSUME NEW x \in Seq(Symbol)
                  PROVE /\ fr = <<>> => JoinLines(Append(fr, x)) = x
                        /\ fr # <<>> => JoinLines(Append(fr, x)) = Append(JoinLines(fr), NL) \o x
      BY DEF V
    <3>1. fr \in Seq(Seq(Symbol))
      BY <2>1 DEF V
    <3>. QED  BY <3>1, JoinGrows, Zenon
  <2>10. Append(JoinLines(fr), NL) \o k = Append(Append(JoinLines(fr), NL) \o l, c)
    <3>. DEFINE j == JoinLines(fr)
    <3>1. j \in Seq(Symbol) /\ l \in Seq(Symbol)
      <4>1. fr \in Seq(Seq(Symbol))
        BY <2>1 DEF V
      <4>2. j \in Seq(Symbol)
        BY <1>0, <4>1, JoinTyped, Zenon
      <4>. QED  BY <1>3, <4>2 DEF V
    <3>. HIDE DEF j
    <3>2. Append(j, NL) \in Seq(Symbol)
      BY <1>0, <3>1
    <3>3. Append(j, NL) \o Append(l, c) = Append(Append(j, NL) \o l, c)
      BY ONLY <3>1, <3>2, c \in Symbol
    <3>. QED  BY <3>3 DEF j, k
  <2>11. fr = <<>> => JoinLines(w) = Append(JoinLines(ls), c)
    BY <1>3, <2>2, <2>6, <2>7, <2>9 DEF k
  <2>12. fr # <<>> => JoinLines(w) = Append(JoinLines(ls), c)
    <3>1. fr # <<>> => /\ JoinLines(w) = Append(JoinLines(fr), NL) \o k
                       /\ JoinLines(ls) = Append(JoinLines(fr), NL) \o l
      BY <1>3, <2>2, <2>6, <2>7, <2>9, Zenon
    <3>. QED  BY <2>10, <3>1, Zenon
  <2>. QED  BY <2>8, <2>11, <2>12, Zenon
<1>. QED  BY <1>4, <1>5

(* The lines of a text, joined, are the text.                              *)
LEMMA SplitJoins ==
  \A s \in Seq(Symbol) : SplitLines(s) \in LineSeqs(Symbol) /\ JoinLines(SplitLines(s)) = s
<1>. DEFINE S == {s \in Seq(Symbol) : JoinLines(SplitLines(s)) = s}  e == <<>>
<1>1. \A s \in Seq(Symbol) : SplitLines(s) \in LineSeqs(Symbol)
  BY SplitTyped
<1>2. e \in S
  <2>0. e \in Seq(Symbol) /\ Append(<<>>, e) = <<e>> /\ NL \in Symbol
    BY Marks
  <2>z. <<>> \in Seq(Seq(Symbol))
    OBVIOUS
  <2>. HIDE DEF e
  <2>1. JoinLines(Append(<<>>, e)) = e
    BY <2>0, <2>z, JoinGrows, Zenon
  <2>2. SplitLines(e) = <<e>>
    BY <2>0, SplitGrows, Zenon DEF e
  <2>. QED  BY <2>0, <2>1, <2>2
<1>3. ASSUME NEW s \in Seq(Symbol), NEW c \in Symbol, s \in S PROVE Append(s, c) \in S
  <2>1. Append(s, c) \in Seq(Symbol)
    OBVIOUS
  <2>2. SplitLines(Append(s, c)) = WithSymbol(SplitLines(s), c)
    BY SplitGrows, Zenon
  <2>3. JoinLines(WithSymbol(SplitLines(s), c)) = Append(JoinLines(SplitLines(s)), c)
    BY <1>1, JoinsWith, Zenon
  <2>4. JoinLines(SplitLines(s)) = s
    BY <1>3
  <2>5. JoinLines(SplitLines(Append(s, c))) = Append(s, c)
    BY <2>2, <2>3, <2>4, Zenon
  <2>. QED  BY <2>1, <2>5, Zenon
<1>4. \A s \in Seq(Symbol) : s \in S
  <2>. HIDE DEF S
  <2>. QED  BY <1>2, <1>3, SequencesGrow DEF e
<1>. QED  BY <1>1, <1>4

-----------------------------------------------------------------------------
(* The words of the first n lines.                                         *)
WordsTo(ls, n) == Tight(JoinLines(SubSeq(ls, 1, n)))

(* Each line adds its words.                                               *)
LEMMA LinesAddWords ==
  ASSUME NEW ls \in Seq(Seq(Symbol))
  PROVE  /\ WordsTo(ls, 0) = <<>> /\ WordsTo(ls, Len(ls)) = Tight(JoinLines(ls))
         /\ \A n \in 0..Len(ls) : WordsTo(ls, n) \in Seq(Symbol)
         /\ \A n \in 1..Len(ls) : WordsTo(ls, n) = Glue(WordsTo(ls, n-1), Tight(ls[n]))
<1>. DEFINE V == Seq(Symbol)  N == Len(ls)  upto(n) == SubSeq(ls, 1, n)
<1>0. NL \in Symbol /\ NL \in Space
  BY Marks DEF Space
<1>1. ls \in Seq(V) /\ N \in Nat
  OBVIOUS
<1>2. \A l \in Seq(Seq(Symbol)) : JoinLines(l) \in V
  BY <1>0, JoinTyped, Zenon
<1>3. \A t \in V : Tight(t) \in V /\ Tight(<<>>) = <<>>
  BY Marks, TightGrows
<1>. HIDE DEF V
<1>4. \A n \in 1..N : ls[n] \in V
  BY <1>1
<1>5. \A n \in 0..N : upto(n) \in Seq(V)
  <2>. SUFFICES ASSUME NEW n \in 0..N PROVE upto(n) \in Seq(V)
    OBVIOUS
  <2>1. 1 \in Nat \ {0} /\ n \in Int /\ n <= Len(ls)
    BY <1>1
  <2>. QED  BY <1>1, <2>1, RunTyped
<1>6. \A n \in 1..N : upto(n) = Append(upto(n-1), ls[n])
  <2>. SUFFICES ASSUME NEW n \in 1..N PROVE upto(n) = Append(upto(n-1), ls[n])
    OBVIOUS
  <2>1. 1 \in Nat \ {0} /\ n \in Nat /\ 1 <= n /\ n <= Len(ls)
    BY <1>1
  <2>. QED  BY <1>1, <2>1, RunAppends
<1>7. upto(0) = <<>> /\ upto(N) = ls
  BY <1>1
<1>. HIDE DEF upto
<1>8. JoinLines(<<>>) = <<>>
  <2>1. ls \in Seq(Seq(Symbol)) /\ <<>> \in Seq(Symbol)
    OBVIOUS
  <2>. QED  BY <2>1, JoinGrows, Zenon
<1>9. \A n \in 0..N : WordsTo(ls, n) = Tight(JoinLines(upto(n)))
  BY Zenon DEF WordsTo, upto
<1>10. \A n \in 0..N : JoinLines(upto(n)) \in V /\ WordsTo(ls, n) \in V
  <2>1. \A n \in 0..N : JoinLines(upto(n)) \in V
    BY <1>2, <1>5 DEF V
  <2>. QED  BY <1>3, <1>9, <2>1
<1>11. ASSUME NEW n \in 1..N PROVE WordsTo(ls, n) = Glue(WordsTo(ls, n-1), Tight(ls[n]))
  <2>. DEFINE a == upto(n-1)  l == ls[n]  j == JoinLines(a)
  <2>1. n-1 \in 0..N /\ n \in 0..N
    BY <1>1
  <2>2. a \in Seq(V) /\ l \in V /\ j \in V /\ upto(n) = Append(a, l)
    BY <1>4, <1>5, <1>6, <1>10, <2>1
  <2>3. WordsTo(ls, n-1) = Tight(j) /\ WordsTo(ls, n) = Tight(JoinLines(Append(a, l)))
    BY <1>9, <2>1, <2>2, Zenon
  <2>. HIDE DEF l, a
  <2>4. /\ a = <<>> => JoinLines(Append(a, l)) = l
        /\ a # <<>> => JoinLines(Append(a, l)) = Append(j, NL) \o l
    <3>1. a \in Seq(Seq(Symbol)) /\ l \in Seq(Symbol)
      BY <2>2 DEF V
    <3>. QED  BY <3>1, JoinGrows, Zenon
  <2>5. a = <<>> => Tight(JoinLines(Append(a, l))) = Glue(Tight(j), Tight(l))
    <3>1. a = <<>> => Tight(j) = <<>>
      BY <1>3, <1>8, <2>2, Zenon
    <3>2. a = <<>> => Glue(Tight(j), Tight(l)) = Tight(l)
      BY <3>1, Zenon DEF Glue
    <3>. QED  BY <2>4, <3>2, Zenon
  <2>6. a # <<>> => Tight(JoinLines(Append(a, l))) = Glue(Tight(j), Tight(l))
    <3>1. Tight(Append(j, NL) \o l) = Glue(Tight(j), Tight(l))
      <4>1. j \in Seq(Symbol) /\ l \in Seq(Symbol)
        BY <2>2 DEF V
      <4>. QED  BY <1>0, <4>1, TightMeets, Zenon
    <3>. QED  BY <2>4, <3>1, Zenon
  <2>. QED  BY <2>3, <2>5, <2>6, Zenon DEF l
<1>. QED  BY <1>1, <1>3, <1>7, <1>8, <1>9, <1>10, <1>11 DEF V

(* The indentation of a line is white.                                     *)
LEMMA IndentIsBlank ==
  ASSUME NEW l \in Seq(Symbol)
  PROVE  Indent(l) \in 0..Len(l) /\ \A i \in 1..Indent(l) : l[i] = Blank
<1>1. Len(l) \in Nat /\ DOMAIN l = 1..Len(l)
  OBVIOUS
<1>2. CASE \A c \in ToSet(l) : c = Blank
  <2>1. Indent(l) = Len(l)
    BY <1>2 DEF Indent
  <2>2. \A i \in 1..Len(l) : l[i] \in ToSet(l)
    BY <1>1 DEF ToSet
  <2>. QED  BY <1>1, <1>2, <2>1, <2>2
<1>3. CASE ~\A c \in ToSet(l) : c = Blank
  <2>. DEFINE S == {i \in DOMAIN l : l[i] # Blank}
  <2>1. S # {} /\ S \in SUBSET (1..Len(l))
    BY <1>1, <1>3 DEF ToSet
  <2>. HIDE DEF S
  <2>2. Min(S) \in 1..Len(l) /\ \A k \in S : Min(S) <= k
    BY ONLY <1>1, <2>1, PlacesHaveEnds
  <2>3. Indent(l) = Min(S) - 1
    BY <1>3, Zenon DEF Indent, S
  <2>4. ASSUME NEW i \in 1..Indent(l) PROVE l[i] = Blank
    <3>1. i \in 1..Len(l) /\ ~(Min(S) <= i)
      BY <1>1, <2>2, <2>3
    <3>. QED  BY <1>1, <2>2, <3>1 DEF S
  <2>. QED  BY <1>1, <2>2, <2>3, <2>4
<1>. QED  BY <1>2, <1>3

(* A line keeps its words without a part of its indentation.               *)
LEMMA CutKeepsWords ==
  ASSUME NEW l \in Seq(Symbol), NEW k \in 0..Indent(l)
  PROVE  /\ SubSeq(l, k+1, Len(l)) \in Seq(Symbol)
         /\ Tight(SubSeq(l, k+1, Len(l))) = Tight(l)
<1>. DEFINE g == SubSeq(l, 1, k)  v == SubSeq(l, k+1, Len(l))
<1>1. Indent(l) \in 0..Len(l) /\ (\A i \in 1..Indent(l) : l[i] = Blank) /\ Len(l) \in Nat
  BY IndentIsBlank
<1>2. k \in Nat /\ k <= Len(l) /\ k+1 \in Nat \ {0} /\ Len(l) \in Int /\ k <= Indent(l) /\ 1 \in Nat \ {0} /\ 1 <= k+1 /\ k-1+1 = k /\ \A j \in 1..k : 1+j-1 = j
  BY <1>1
<1>3. v \in Seq(Symbol)
  BY <1>2, RunTyped
<1>4. g \in Seq(Symbol) /\ Len(g) = k /\ \A j \in 1..k : g[j] = l[j]
  BY <1>2, RunIs
<1>5. g \o v = l
  <2>1. g \o v = SubSeq(l, 1, Len(l))
    <3>1. 1 \in 1..Len(l)+1 /\ k \in 1-1..Len(l) /\ Len(l) \in k..Len(l)
      BY <1>1, <1>2
    <3>. QED  BY ONLY l \in Seq(Symbol), <3>1, ConcatAdjacentSubSeq
  <2>2. SubSeq(l, 1, Len(l)) = l
    OBVIOUS
  <2>. QED  BY <2>1, <2>2
<1>. HIDE DEF g
<1>6. AllWide(g)
  <2>1. DOMAIN g = 1..k /\ \A j \in 1..k : j \in 1..Indent(l)
    BY <1>1, <1>2, <1>4
  <2>2. Blank \in Space
    BY DEF Space
  <2>. QED  BY <1>1, <1>4, <2>1, <2>2 DEF AllWide
<1>. HIDE DEF v
<1>7. Tight(g \o v) = Tight(v)
  BY <1>3, <1>4, <1>6, WideInFront
<1>. QED  BY <1>3, <1>5, <1>7 DEF v

(* Lines without words add none.                                           *)
LEMMA WideLinesAddNone ==
  ASSUME NEW ls \in Seq(Seq(Symbol)), NEW a \in 0..Len(ls), NEW b \in a..Len(ls),
         \A i \in a+1..b : Tight(ls[i]) = <<>>
  PROVE  WordsTo(ls, b) = WordsTo(ls, a)
<1>. DEFINE S == {n \in a..b : WordsTo(ls, n) = WordsTo(ls, a)}  N == Len(ls)
<1>1. N \in Nat /\ a \in Nat /\ b \in Nat /\ a <= b /\ b <= N /\ a \in a..b /\ b \in a..b
  OBVIOUS
<1>2. a \in S
  BY <1>1
<1>w. /\ \A n \in 0..N : WordsTo(ls, n) \in Seq(Symbol)
      /\ \A n \in 1..N : WordsTo(ls, n) = Glue(WordsTo(ls, n-1), Tight(ls[n]))
  BY LinesAddWords, Zenon
<1>. HIDE DEF N
<1>3. ASSUME NEW k \in a..b-1, k \in S PROVE k+1 \in S
  <2>1. k+1 \in 1..N /\ (k+1)-1 = k /\ k+1 \in a+1..b /\ k+1 \in a..b /\ k \in 0..N
    BY <1>1
  <2>2. WordsTo(ls, k) \in Seq(Symbol) /\ WordsTo(ls, k) = WordsTo(ls, a)
    BY <1>3, <1>w, <2>1
  <2>3. WordsTo(ls, k+1) = Glue(WordsTo(ls, k), Tight(ls[k+1]))
    BY <1>w, <2>1
  <2>4. Tight(ls[k+1]) = <<>>
    BY <2>1
  <2>5. Glue(WordsTo(ls, k), <<>>) = WordsTo(ls, k)
    BY <2>2, Zenon DEF Glue
  <2>6. WordsTo(ls, k+1) = WordsTo(ls, a)
    BY <2>2, <2>3, <2>4, <2>5, Zenon
  <2>. QED  BY <2>1, <2>6
<1>4. \A n \in a..b : n \in S
  <2>. HIDE DEF S
  <2>. QED  BY ONLY <1>1, <1>2, <1>3, Upwards
<1>. QED  BY <1>1, <1>4

(* A text has no words when nothing in it is solid.                        *)
LEMMA NothingSolid == \A s \in Seq(Symbol) : Solid(s) = {} <=> Tight(s) = <<>>
<1>1. \A s \in Seq(Symbol) : Solid(s) = {} <=> AllWide(s)
  BY DEF Solid, AllWide
<1>. QED  BY <1>1, WideHasNoWords

(* A block has the same words without the indentation its lines share.     *)
LEMMA DedentKeepsWords ==
  ASSUME NEW s \in Seq(Symbol)
  PROVE  dedent(s) \in Seq(Symbol) /\ Tight(dedent(s)) = Tight(s)
<1>. DEFINE V == Seq(Symbol)
            ls == SplitLines(s)
            full == {i \in DOMAIN ls : Solid(ls[i]) # {}}
            shared == Min({Indent(ls[i]) : i \in full})
            cut(l) == IF Solid(l) = {} THEN <<>> ELSE SubSeq(l, shared + 1, Len(l))
            first == Min(full)
            last == Max(full)
            M == last - first + 1
            N == Len(ls)
            qs == [k \in 1..M |-> cut(ls[first + k - 1])]
<1>0. dedent(s) \in V
  BY Marks, DedentTyped
<1>1. ls \in Seq(V) /\ JoinLines(ls) = s
  BY SplitJoins DEF LineSeqs
<1>2. dedent(s) = IF full = {} THEN <<>> ELSE JoinLines(qs)
  BY Zenon DEF dedent
<1>e. Tight(<<>>) = <<>> /\ <<>> \in V
  BY Marks, TightGrows
<1>. HIDE DEF ls
<1>w. /\ WordsTo(ls, 0) = <<>> /\ WordsTo(ls, N) = Tight(s)
      /\ \A n \in 0..N : WordsTo(ls, n) \in V
      /\ \A n \in 1..N : WordsTo(ls, n) = Glue(WordsTo(ls, n-1), Tight(ls[n]))
  BY <1>1, LinesAddWords
<1>n. N \in Nat /\ DOMAIN ls = 1..N /\ \A i \in 1..N : ls[i] \in V
  BY <1>1
<1>a. \A a \in 0..N : \A b \in a..N :
        (\A i \in a+1..b : Tight(ls[i]) = <<>>) => WordsTo(ls, b) = WordsTo(ls, a)
  <2>. SUFFICES ASSUME NEW a \in 0..N, NEW b \in a..N, \A i \in a+1..b : Tight(ls[i]) = <<>>
                PROVE WordsTo(ls, b) = WordsTo(ls, a)
    OBVIOUS
  <2>. QED  BY <1>1, WideLinesAddNone
<1>t. \A i \in 1..N : i \notin full => Tight(ls[i]) = <<>>
  BY <1>n, NothingSolid
<1>. HIDE DEF V, N
<1>3. CASE full = {}
  <2>1. 0 \in 0..N /\ N \in 0..N /\ \A i \in 0+1..N : i \in 1..N
    BY <1>n
  <2>. HIDE DEF full
  <2>2. \A i \in 0+1..N : Tight(ls[i]) = <<>>
    BY <1>3, <1>t, <2>1
  <2>3. WordsTo(ls, N) = WordsTo(ls, 0)
    BY <1>a, <2>1, <2>2
  <2>. QED  BY <1>0, <1>2, <1>3, <1>e, <1>w, <2>3 DEF V
<1>4. CASE full # {}
  <2>1. full \in SUBSET (1..N)
    BY <1>n
  <2>2. first \in 1..N /\ last \in 1..N /\ first \in full /\ last \in full /\ \A k \in full : first <= k /\ k <= last
    <3>. HIDE DEF full
    <3>. QED  BY ONLY <1>n, <1>4, <2>1, PlacesHaveEnds DEF first, last
  <2>3. shared \in Nat /\ \A i \in full : shared <= Indent(ls[i])
    <3>. DEFINE I == {Indent(ls[i]) : i \in full}
    <3>0. \A i \in 1..N : Indent(ls[i]) \in Nat
      BY <1>n, IndentTyped DEF V
    <3>1. I # {} /\ I \in SUBSET Nat /\ \A i \in full : Indent(ls[i]) \in I
      <4>. HIDE DEF full
      <4>. QED  BY <1>4, <2>1, <3>0
    <3>. HIDE DEF I
    <3>2. Min(I) \in I /\ \A k \in I : Min(I) <= k
      BY ONLY <3>1, LeastIsMin
    <3>3. Min(I) \in Nat /\ \A i \in full : Min(I) <= Indent(ls[i])
      <4>. HIDE DEF full
      <4>. QED  BY <3>1, <3>2
    <3>. QED  BY <3>3 DEF I
  <2>. HIDE DEF shared, first, last
  <2>4. ASSUME NEW i \in 1..N PROVE cut(ls[i]) \in V /\ Tight(cut(ls[i])) = Tight(ls[i])
    <3>1. CASE i \notin full
      <4>1. Solid(ls[i]) = {}
        BY <1>n, <3>1
      <4>2. cut(ls[i]) = <<>>
        BY <4>1
      <4>. QED  BY <1>e, <1>t, <3>1, <4>2
    <3>2. CASE i \in full
      <4>1. Solid(ls[i]) # {}
        BY <3>2
      <4>2. cut(ls[i]) = SubSeq(ls[i], shared + 1, Len(ls[i]))
        BY <4>1
      <4>3. ls[i] \in Seq(Symbol) /\ Indent(ls[i]) \in 0..Len(ls[i])
        BY <1>n, IndentIsBlank DEF V
      <4>4. shared \in 0..Indent(ls[i])
        <5>1. Len(ls[i]) \in Nat
          BY <4>3
        <5>2. shared <= Indent(ls[i])
          BY <2>3, <3>2
        <5>. QED  BY <2>3, <4>3, <5>1, <5>2
      <4>. QED  BY <4>2, <4>3, <4>4, CutKeepsWords DEF V
    <3>. QED  BY <3>1, <3>2
  <2>. HIDE DEF cut, full
  <2>5. M \in Nat /\ first \in Nat /\ last \in Nat /\ first <= last /\ M >= 1 /\ first - 1 + M = last
        /\ \A k \in 1..M : first + k - 1 \in 1..N
    BY <1>n, <2>2
  <2>6. qs \in Seq(V) /\ Len(qs) = M /\ \A k \in 1..M : qs[k] = cut(ls[first + k - 1])
    <3>1. \A k \in 1..M : cut(ls[first + k - 1]) \in V
      BY <2>4, <2>5
    <3>. HIDE DEF M
    <3>. QED  BY <2>5, <3>1
  <2>. HIDE DEF qs, M
  <2>7. \A k \in 1..M : Tight(qs[k]) = Tight(ls[first + k - 1])
    BY <2>4, <2>5, <2>6
  <2>8. WordsTo(ls, first-1) = <<>>
    <3>1. 0 \in 0..N /\ first-1 \in 0..N /\ \A i \in 0+1..first-1 : i \in 1..N /\ ~(first <= i)
      BY <1>n, <2>2
    <3>2. \A i \in 0+1..first-1 : Tight(ls[i]) = <<>>
      BY <1>t, <2>2, <3>1
    <3>. QED  BY <1>a, <1>w, <3>1, <3>2
  <2>9. WordsTo(ls, N) = WordsTo(ls, last)
    <3>1. last \in 0..N /\ N \in last..N /\ \A i \in last+1..N : i \in 1..N /\ ~(i <= last)
      BY <1>n, <2>2
    <3>2. \A i \in last+1..N : Tight(ls[i]) = <<>>
      BY <1>t, <2>2, <3>1
    <3>. QED  BY <1>a, <3>1, <3>2
  <2>10. /\ WordsTo(qs, 0) = <<>> /\ WordsTo(qs, M) = Tight(JoinLines(qs))
         /\ \A n \in 1..M : WordsTo(qs, n) = Glue(WordsTo(qs, n-1), Tight(qs[n]))
    <3>1. qs \in Seq(Seq(Symbol))
      BY <2>6 DEF V
    <3>. QED  BY <2>6, <3>1, LinesAddWords
  <2>11. \A k \in 0..M : WordsTo(qs, k) = WordsTo(ls, first-1+k)
    <3>. DEFINE S == {k \in 0..M : WordsTo(qs, k) = WordsTo(ls, first-1+k)}
    <3>1. 0 \in S /\ 0 \in Nat
      <4>1. first-1+0 = first-1 /\ 0 \in 0..M
        BY <2>5
      <4>. QED  BY <2>8, <2>10, <4>1
    <3>2. ASSUME NEW k \in 0..M-1, k \in S PROVE k+1 \in S
      <4>1. k+1 \in 1..M /\ (k+1)-1 = k /\ k+1 \in 0..M /\ first+(k+1)-1 = first-1+(k+1)
            /\ (first-1+(k+1))-1 = first-1+k
        BY <2>5
      <4>2. first-1+(k+1) \in 1..N
        BY <2>5, <4>1
      <4>3. WordsTo(ls, first-1+(k+1)) = Glue(WordsTo(ls, first-1+k), Tight(ls[first-1+(k+1)]))
        BY <1>w, <4>1, <4>2
      <4>4. WordsTo(qs, k+1) = Glue(WordsTo(qs, k), Tight(qs[k+1]))
        BY <2>10, <4>1
      <4>5. Tight(qs[k+1]) = Tight(ls[first-1+(k+1)])
        BY <2>7, <4>1
      <4>6. WordsTo(qs, k) = WordsTo(ls, first-1+k)
        BY <3>2
      <4>7. WordsTo(qs, k+1) = WordsTo(ls, first-1+(k+1))
        BY <4>3, <4>4, <4>5, <4>6, Zenon
      <4>. QED  BY <4>1, <4>7
    <3>3. \A k \in 0..M : k \in S
      <4>. HIDE DEF S
      <4>. QED  BY ONLY <2>5, <3>1, <3>2, Upwards
    <3>. QED  BY <3>3
  <2>12. WordsTo(qs, M) = WordsTo(ls, last)
    <3>1. M \in 0..M
      BY <2>5
    <3>. QED  BY <2>5, <2>11, <3>1
  <2>. QED  BY <1>0, <1>2, <1>4, <1>w, <2>9, <2>10, <2>12 DEF V
<1>. QED  BY <1>3, <1>4

-----------------------------------------------------------------------------
Readings(s, i, pattern) ==
  {u \in [0..Len(pattern) -> 0..Len(s)+1] :
     /\ u[0] = i /\ \A n \in 1..Len(pattern) : u[n] = StepTo(s, u[n-1], pattern[n])
     /\ BodyEnd(s, i, pattern) = u[Len(pattern)]}

(* The end of a match as a function of how far the pattern was read.       *)
LEMMA BodyEndGoes ==
  ASSUME NEW X, NEW s \in Seq(X), NEW i \in 0..Len(s)+1, NEW Y, NEW pattern \in Seq(Y)
  PROVE  Readings(s, i, pattern) # {}
<1>. DEFINE N == Len(pattern)
            V == 0..Len(s)+1
            step == [p \in V \X (1..N) |-> StepTo(s, p[1], pattern[p[2]])]
            body(g, n) == IF n = 0 THEN i ELSE StepTo(s, g[n-1], pattern[n])
            Goes(g) == g = [n \in 0..N |-> body(g, n)]
            all == CHOOSE g : Goes(g)
<1>1. N \in Nat /\ Len(s) \in Nat
  OBVIOUS
<1>2. i \in V
  OBVIOUS
<1>3. step \in Steps(V, N)
  <2>1. \A v \in V, n \in 1..N : StepTo(s, v, pattern[n]) \in V
    <3>. HIDE DEF N
    <3>. QED  BY StepToTyped
  <2>2. \A p \in V \X (1..N) : StepTo(s, p[1], pattern[p[2]]) \in V
    <3>. HIDE DEF V, N
    <3>. QED  BY <2>1
  <2>. HIDE DEF V, N
  <2>. QED  BY <2>2 DEF Steps
<1>. HIDE DEF V
<1>4. PICK g \in Solutions(V, N, i, step) : TRUE
  <2>. HIDE DEF V, N, step
  <2>. QED  BY <1>1, <1>2, <1>3, Recursion
<1>5. g \in [0..N -> V] /\ g[0] = i /\ \A n \in 1..N : g[n] = step[<<g[n-1], n>>]
  <2>. HIDE DEF V, N, step
  <2>. QED  BY <1>4 DEF Solutions
<1>6. \A n \in 1..N : g[n] = StepTo(s, g[n-1], pattern[n])
  <2>1. \A n \in 1..N : n - 1 \in 0..N
    BY <1>1
  <2>. HIDE DEF V, N
  <2>2. \A n \in 1..N : g[n-1] \in V
    BY <1>5, <2>1
  <2>3. \A v \in V, n \in 1..N : step[<<v, n>>] = StepTo(s, v, pattern[n])
    OBVIOUS
  <2>. HIDE DEF step
  <2>. QED  BY <1>5, <2>2, <2>3
<1>7. Goes(g)
  <2>1. \A n \in 0..N : n = 0 \/ n \in 1..N
    BY <1>1
  <2>2. \A n \in 0..N : g[n] = body(g, n)
    <3>. HIDE DEF V, N, step
    <3>. QED  BY <1>5, <1>6, <2>1
  <2>. HIDE DEF V, body, N, step
  <2>. QED  BY <1>5, <2>2
<1>8. all = [n \in 0..N |-> body(all, n)]
  <2>. HIDE DEF Goes
  <2>1. Goes(all)
    BY <1>7, Zenon
  <2>. QED  BY <2>1, Zenon DEF Goes
<1>9. BodyEnd(s, i, pattern) = all[N]
  BY Zenon DEF BodyEnd, StepTo
<1>. HIDE DEF all, Goes
<1>10. \A n \in 0..N : all[n] = body(all, n)
  <2>. HIDE DEF body, N
  <2>. QED  BY <1>8
<1>11. all[0] = i /\ \A n \in 1..N : all[n] = StepTo(s, all[n-1], pattern[n])
  <2>1. 0 \in 0..N /\ \A n \in 1..N : n # 0 /\ n \in 0..N
    BY <1>1
  <2>. HIDE DEF N
  <2>. QED  BY <1>10, <2>1
<1>12. \A n \in 0..N : all[n] \in V
  <2>. DEFINE S == {n \in 0..N : all[n] \in V}
  <2>1. 0 \in S /\ 0 \in Nat
    BY <1>1, <1>2, <1>11
  <2>2. ASSUME NEW k \in 0..N-1, k \in S PROVE k + 1 \in S
    <3>1. k + 1 \in 1..N /\ k + 1 \in 0..N /\ (k + 1) - 1 = k
      BY <1>1
    <3>. HIDE DEF N
    <3>2. all[k] \in 0..Len(s)+1
      BY <2>2, <3>1 DEF V
    <3>3. StepTo(s, all[k], pattern[k+1]) \in 0..Len(s)+1
      BY <3>2, StepToTyped, Zenon
    <3>. QED  BY <1>11, <3>1, <3>3 DEF V
  <2>3. \A n \in 0..N : n \in S
    <3>. HIDE DEF S, N
    <3>. QED  BY ONLY <1>1, <2>1, <2>2, Upwards
  <2>. QED  BY <2>3
<1>13. all \in [0..N -> V]
  <2>. HIDE DEF N, body
  <2>1. DOMAIN all = 0..N
    BY <1>8
  <2>2. all = [n \in 0..N |-> all[n]]
    <3>1. all = [n \in 0..N |-> body(all, n)]
      BY <1>8
    <3>2. \A n \in 0..N : body(all, n) = all[n]
      BY <1>10
    <3>. QED  BY <3>1, <3>2
  <2>. QED  BY <1>12, <2>2
<1>. HIDE DEF body
<1>14. all \in Readings(s, i, pattern)
  BY <1>9, <1>11, <1>13 DEF V, N, Readings
<1>. QED  BY <1>14


(* One symbol more of the pattern.                                         *)
LEMMA BodyGrows ==
  ASSUME NEW s \in Seq(Symbol), NEW i \in 0..Len(s)+1, NEW p \in Seq(Symbol), NEW c \in Symbol
  PROVE  /\ BodyEnd(s, i, p) \in 0..Len(s)+1 /\ BodyEnd(s, i, <<>>) = i
         /\ BodyEnd(s, i, Append(p, c)) = StepTo(s, BodyEnd(s, i, p), c)
<1>. DEFINE V == 0..Len(s)+1  N == Len(p)  q == Append(p, c)
<1>1. N \in Nat /\ q \in Seq(Symbol) /\ Len(q) = N+1 /\ q[N+1] = c /\ \A n \in 1..N : q[n] = p[n]
  OBVIOUS
<1>g. \A r \in Seq(Symbol) : \E u \in [0..Len(r) -> V] :
          /\ u[0] = i /\ \A n \in 1..Len(r) : u[n] = StepTo(s, u[n-1], r[n])
          /\ BodyEnd(s, i, r) = u[Len(r)]
  <2>. SUFFICES ASSUME NEW r \in Seq(Symbol)
                PROVE \E u \in [0..Len(r) -> V] :
                        /\ u[0] = i /\ \A n \in 1..Len(r) : u[n] = StepTo(s, u[n-1], r[n])
                        /\ BodyEnd(s, i, r) = u[Len(r)]
    OBVIOUS
  <2>1. Readings(s, i, r) # {}
    BY BodyEndGoes
  <2>. QED  BY <2>1 DEF Readings
<1>2. BodyEnd(s, i, <<>>) = i
  <2>. DEFINE e == <<>>
  <2>1. e \in Seq(Symbol) /\ Len(e) = 0
    OBVIOUS
  <2>. HIDE DEF e
  <2>2. PICK u \in [0..Len(e) -> V] : u[0] = i /\ BodyEnd(s, i, e) = u[Len(e)]
    BY <1>g, <2>1
  <2>. QED  BY <2>1, <2>2 DEF e
<1>3. PICK u \in [0..N -> V] :
        u[0] = i /\ (\A n \in 1..N : u[n] = StepTo(s, u[n-1], p[n])) /\ BodyEnd(s, i, p) = u[N]
  BY <1>g
<1>. HIDE DEF q, N
<1>4. PICK w \in [0..N+1 -> V] :
        w[0] = i /\ (\A n \in 1..N+1 : w[n] = StepTo(s, w[n-1], q[n])) /\ BodyEnd(s, i, q) = w[N+1]
  <2>1. \E w \in [0..Len(q) -> V] :
          w[0] = i /\ (\A n \in 1..Len(q) : w[n] = StepTo(s, w[n-1], q[n])) /\ BodyEnd(s, i, q) = w[Len(q)]
    BY <1>g, <1>1
  <2>. QED  BY <1>1, <2>1, Zenon
<1>. HIDE DEF V
<1>5. \A n \in 0..N : w[n] = u[n]
  <2>. DEFINE S == {n \in 0..N : w[n] = u[n]}
  <2>1. 0 \in S /\ 0 \in Nat
    <3>1. 0 \in 0..N /\ 0 \in Nat
      BY <1>1
    <3>. QED  BY <1>3, <1>4, <3>1, Zenon
  <2>2. ASSUME NEW k \in 0..N-1, k \in S PROVE k + 1 \in S
    <3>1. k + 1 \in 1..N /\ k + 1 \in 1..N+1 /\ k + 1 \in 0..N /\ (k + 1) - 1 = k
      BY <1>1
    <3>2. /\ w[k+1] = StepTo(s, w[k], q[k+1]) /\ u[k+1] = StepTo(s, u[k], p[k+1])
          /\ w[k] = u[k] /\ q[k+1] = p[k+1]
      BY <1>1, <1>3, <1>4, <2>2, <3>1
    <3>. QED  BY <3>1, <3>2
  <2>3. \A n \in 0..N : n \in S
    <3>. HIDE DEF S
    <3>. QED  BY ONLY <1>1, <2>1, <2>2, Upwards
  <2>. QED  BY <2>3
<1>6. BodyEnd(s, i, q) = StepTo(s, BodyEnd(s, i, p), c)
  <2>1. N \in 0..N /\ N+1 \in 1..N+1 /\ (N+1)-1 = N
    BY <1>1
  <2>. QED  BY <1>1, <1>3, <1>4, <1>5, <2>1
<1>7. BodyEnd(s, i, p) \in V
  <2>1. N \in 0..N
    BY <1>1
  <2>. QED  BY <1>3, <2>1
<1>. QED  BY <1>2, <1>6, <1>7 DEF q, V

(* Where white space that goes on to at is over.                           *)
EndOfWhite(s, at, e) ==
  /\ e \in at..Len(s)+1
  /\ \A j \in at..e-1 : s[j] \in White
  /\ e = Len(s)+1 \/ s[e] \notin White

(* What a symbol of a pattern matches.                                     *)
LEMMA StepMatches ==
  ASSUME NEW s \in Seq(Symbol), NEW at \in 0..Len(s)+1, NEW c
  PROVE  IF \/ at \notin 1..Len(s)
            \/ c = Blank /\ s[at] \notin White
            \/ c # Blank /\ s[at] # c
         THEN StepTo(s, at, c) = 0
         ELSE IF c = Blank THEN EndOfWhite(s, at, StepTo(s, at, c)) ELSE StepTo(s, at, c) = at+1
<1>. DEFINE J == {j \in at..Len(s)+1 : j = Len(s)+1 \/ s[j] \notin White}
<1>1. Len(s) \in Nat /\ DOMAIN s = 1..Len(s)
  OBVIOUS
<1>2. CASE at \notin 1..Len(s)
  <2>1. at \notin DOMAIN s
    BY <1>1, <1>2
  <2>2. StepTo(s, at, c) = 0
    BY <2>1, Zenon DEF StepTo
  <2>. QED  BY <1>2, <2>2
<1>3. CASE at \in 1..Len(s) /\ c = Blank /\ s[at] \notin White
  <2>1. at \in DOMAIN s
    BY <1>1, <1>3
  <2>2. StepTo(s, at, c) = 0
    BY <1>3, <2>1, Zenon DEF StepTo
  <2>. QED  BY <1>3, <2>2
<1>4. CASE at \in 1..Len(s) /\ c # Blank /\ s[at] # c
  <2>1. at \in DOMAIN s
    BY <1>1, <1>4
  <2>2. StepTo(s, at, c) = 0
    BY <1>4, <2>1, Zenon DEF StepTo
  <2>. QED  BY <1>4, <2>2
<1>5. CASE at \in 1..Len(s) /\ c # Blank /\ s[at] = c
  <2>1. at \in DOMAIN s
    BY <1>1, <1>5
  <2>2. StepTo(s, at, c) = at+1
    BY <1>5, <2>1, Zenon DEF StepTo
  <2>. QED  BY <1>5, <2>2
<1>6. CASE at \in 1..Len(s) /\ c = Blank /\ s[at] \in White
  <2>1. at \in DOMAIN s
    BY <1>1, <1>6
  <2>2. StepTo(s, at, c) = Min(J)
    BY <1>6, <2>1, Zenon DEF StepTo
  <2>3. J \in SUBSET (1..Len(s)+1) /\ Len(s)+1 \in J /\ Len(s)+1 \in Nat
    BY <1>1, <1>6
  <2>4. J # {}
    BY <2>3
  <2>. HIDE DEF J
  <2>5. Min(J) \in J /\ \A k \in J : Min(J) <= k
    BY ONLY <2>3, <2>4, PlacesHaveEnds
  <2>. DEFINE e == Min(J)
  <2>6. e \in J /\ \A k \in J : e <= k
    BY <2>5
  <2>. HIDE DEF e
  <2>7. e \in at..Len(s)+1 /\ (e = Len(s)+1 \/ s[e] \notin White)
    BY <2>6 DEF J
  <2>8. ASSUME NEW j \in at..e-1 PROVE s[j] \in White
    <3>1. ~(e <= j) /\ j \in at..Len(s)+1
      BY <1>1, <1>6, <2>7
    <3>. QED  BY <2>6, <3>1 DEF J
  <2>9. EndOfWhite(s, at, e)
    BY <2>7, <2>8 DEF EndOfWhite
  <2>. QED  BY <1>6, <2>2, <2>9 DEF e
<1>. QED  BY <1>2, <1>3, <1>4, <1>5, <1>6

(* White space ends in one place, and later if it begins later.            *)
LEMMA WhiteEndsLater ==
  ASSUME NEW s \in Seq(Symbol), NEW a \in 1..Len(s)+1, NEW b \in a..Len(s)+1, NEW d, NEW e,
         EndOfWhite(s, a, d), EndOfWhite(s, b, e)
  PROVE  d <= e
<1>. SUFFICES ASSUME ~(d <= e) PROVE FALSE
  OBVIOUS
<1>1. Len(s) \in Nat
  OBVIOUS
<1>2. d \in a..Len(s)+1 /\ e \in b..Len(s)+1 /\ (e = Len(s)+1 \/ s[e] \notin White)
  BY DEF EndOfWhite
<1>3. e \in a..d-1 /\ e # Len(s)+1
  BY <1>1, <1>2
<1>4. s[e] \in White
  BY <1>3 DEF EndOfWhite
<1>. QED  BY <1>2, <1>3, <1>4

(* A pattern that fits from two places ends in their order.                *)
LEMMA BodiesInOrder ==
  ASSUME NEW s \in Seq(Symbol), NEW a \in 0..Len(s)+1, NEW b \in a..Len(s)+1
  PROVE  \A p \in Seq(Symbol) :
           BodyEnd(s, a, p) # 0 /\ BodyEnd(s, b, p) # 0 => BodyEnd(s, a, p) <= BodyEnd(s, b, p)
<1>. DEFINE Ordered(x, y) == x # 0 /\ y # 0 => x <= y
            S == {p \in Seq(Symbol) : Ordered(BodyEnd(s, a, p), BodyEnd(s, b, p))}
<1>0. Len(s) \in Nat /\ b \in 0..Len(s)+1 /\ a \in Int /\ b \in Int /\ a <= b
  OBVIOUS
<1>b. Blank \in Symbol /\ <<>> \in Seq(Symbol)
  BY Marks
<1>1. <<>> \in S
  <2>1. BodyEnd(s, a, <<>>) = a /\ BodyEnd(s, b, <<>>) = b
    BY <1>0, <1>b, BodyGrows
  <2>2. Ordered(BodyEnd(s, a, <<>>), BodyEnd(s, b, <<>>))
    BY <1>0, <2>1
  <2>. QED  BY <1>b, <2>2
<1>2. ASSUME NEW p \in Seq(Symbol), NEW c \in Symbol, p \in S PROVE Append(p, c) \in S
  <2>. DEFINE x == BodyEnd(s, a, p)  y == BodyEnd(s, b, p)
  <2>1. /\ x \in 0..Len(s)+1 /\ BodyEnd(s, a, Append(p, c)) = StepTo(s, x, c)
        /\ y \in 0..Len(s)+1 /\ BodyEnd(s, b, Append(p, c)) = StepTo(s, y, c)
    BY <1>0, BodyGrows
  <2>2. Ordered(x, y)
    BY <1>2
  <2>3. Append(p, c) \in Seq(Symbol)
    OBVIOUS
  <2>. HIDE DEF x, y
  <2>4. Ordered(StepTo(s, x, c), StepTo(s, y, c))
    <3>. SUFFICES ASSUME StepTo(s, x, c) # 0, StepTo(s, y, c) # 0
                  PROVE StepTo(s, x, c) <= StepTo(s, y, c)
      OBVIOUS
    <3>1. /\ x \in 1..Len(s) /\ IF c = Blank THEN EndOfWhite(s, x, StepTo(s, x, c)) ELSE StepTo(s, x, c) = x+1
          /\ y \in 1..Len(s) /\ IF c = Blank THEN EndOfWhite(s, y, StepTo(s, y, c)) ELSE StepTo(s, y, c) = y+1
      <4>1. /\ x \in 1..Len(s) /\ IF c = Blank THEN EndOfWhite(s, x, StepTo(s, x, c)) ELSE StepTo(s, x, c) = x+1
        BY <2>1, StepMatches
      <4>2. /\ y \in 1..Len(s) /\ IF c = Blank THEN EndOfWhite(s, y, StepTo(s, y, c)) ELSE StepTo(s, y, c) = y+1
        BY <2>1, StepMatches
      <4>. QED  BY <4>1, <4>2
    <3>2. x <= y
      BY <1>0, <2>2, <3>1
    <3>3. CASE c = Blank
      <4>1. x \in 1..Len(s)+1 /\ y \in x..Len(s)+1
        BY <1>0, <3>1, <3>2
      <4>. QED  BY <3>1, <3>3, <4>1, WhiteEndsLater
    <3>4. CASE c # Blank
      BY <1>0, <3>1, <3>2, <3>4
    <3>. QED  BY <3>3, <3>4
  <2>. QED  BY <2>1, <2>3, <2>4
<1>3. \A p \in Seq(Symbol) : p \in S
  <2>. HIDE DEF S
  <2>. QED  BY <1>1, <1>2, SequencesGrow
<1>. QED  BY <1>3

(* The first symbol of a pattern, and the rest from where it ends.         *)
LEMMA BodyFromFirst ==
  ASSUME NEW s \in Seq(Symbol), NEW i \in 0..Len(s)+1, NEW c \in Symbol
  PROVE  \A p \in Seq(Symbol) : BodyEnd(s, i, <<c>> \o p) = BodyEnd(s, StepTo(s, i, c), p)
<1>e. \A x \in 0..Len(s)+1 : BodyEnd(s, x, <<>>) = x
  <2>1. <<>> \in Seq(Symbol)
    OBVIOUS
  <2>. QED  BY <2>1, BodyGrows
<1>. DEFINE at == StepTo(s, i, c)
            S == {p \in Seq(Symbol) : BodyEnd(s, i, <<c>> \o p) = BodyEnd(s, at, p)}
<1>0. at \in 0..Len(s)+1
  BY StepToTyped
<1>1. <<>> \in S
  <2>1. <<c>> \o <<>> = Append(<<>>, c) /\ <<>> \in Seq(Symbol)
    OBVIOUS
  <2>2. BodyEnd(s, i, Append(<<>>, c)) = StepTo(s, BodyEnd(s, i, <<>>), c)
    BY <2>1, BodyGrows
  <2>3. BodyEnd(s, i, <<>>) = i
    BY <1>e
  <2>4. BodyEnd(s, at, <<>>) = at
    BY <1>0, <1>e
  <2>5. BodyEnd(s, i, <<c>> \o <<>>) = BodyEnd(s, at, <<>>)
    BY <2>1, <2>2, <2>3, <2>4, Zenon
  <2>. QED  BY <2>1, <2>5
<1>. HIDE DEF at
<1>2. ASSUME NEW p \in Seq(Symbol), NEW d \in Symbol, p \in S PROVE Append(p, d) \in S
  <2>1. <<c>> \o Append(p, d) = Append(<<c>> \o p, d) /\ <<c>> \o p \in Seq(Symbol) /\ Append(p, d) \in Seq(Symbol)
    OBVIOUS
  <2>2. BodyEnd(s, i, Append(<<c>> \o p, d)) = StepTo(s, BodyEnd(s, i, <<c>> \o p), d)
    <3>1. \A q \in Seq(Symbol) : BodyEnd(s, i, Append(q, d)) = StepTo(s, BodyEnd(s, i, q), d)
      BY BodyGrows
    <3>. QED  BY <2>1, <3>1, Zenon
  <2>3. BodyEnd(s, at, Append(p, d)) = StepTo(s, BodyEnd(s, at, p), d)
    BY <1>0, BodyGrows
  <2>4. BodyEnd(s, i, <<c>> \o p) = BodyEnd(s, at, p)
    BY <1>2
  <2>5. BodyEnd(s, i, <<c>> \o Append(p, d)) = BodyEnd(s, at, Append(p, d))
    BY <2>1, <2>2, <2>3, <2>4, Zenon
  <2>. QED  BY <2>1, <2>5
<1>3. \A p \in Seq(Symbol) : p \in S
  <2>. HIDE DEF S
  <2>. QED  BY <1>1, <1>2, SequencesGrow
<1>. QED  BY <1>3 DEF at

-----------------------------------------------------------------------------
(* A stretch of a text, and the words it is squeezed to.                   *)
Stretch(s, i, e) == SubSeq(s, i, e-1)
Squeezed(s, i, e) == Squeeze(Stretch(s, i, e))
WideBefore(s, i, j) == j # i /\ s[j-1] \in Space

(* A stretch that goes on by a symbol.                                     *)
LEMMA StretchGrows ==
  ASSUME NEW s \in Seq(Symbol), NEW i \in 1..Len(s)+1
  PROVE  /\ Stretch(s, i, i) = <<>>
         /\ \A j \in i..Len(s)+1 : Stretch(s, i, j) \in Seq(Symbol) /\ Len(Stretch(s, i, j)) = j-i
         /\ \A j \in i..Len(s)+1 : \A k \in 1..j-i : Stretch(s, i, j)[k] = s[i+k-1]
         /\ \A j \in i..Len(s) : Stretch(s, i, j+1) = Append(Stretch(s, i, j), s[j])
<1>1. Len(s) \in Nat /\ i \in Nat \ {0} /\ i-1 \in Nat
  OBVIOUS
<1>2. ASSUME NEW j \in i..Len(s)+1
      PROVE  /\ Stretch(s, i, j) \in Seq(Symbol) /\ Len(Stretch(s, i, j)) = j-i
             /\ \A k \in 1..j-i : Stretch(s, i, j)[k] = s[i+k-1]
  <2>1. j-1 \in Nat /\ j-1 <= Len(s) /\ i <= j-1+1 /\ j-1-i+1 = j-i
    BY <1>1
  <2>2. /\ SubSeq(s, i, j-1) \in Seq(Symbol) /\ Len(SubSeq(s, i, j-1)) = j-1-i+1
        /\ \A k \in 1..j-1-i+1 : SubSeq(s, i, j-1)[k] = s[i+k-1]
    BY <1>1, <2>1, RunIs
  <2>. QED  BY <2>1, <2>2 DEF Stretch
<1>3. Stretch(s, i, i) = <<>>
  BY <1>1 DEF Stretch
<1>4. ASSUME NEW j \in i..Len(s) PROVE Stretch(s, i, j+1) = Append(Stretch(s, i, j), s[j])
  <2>1. j \in Nat /\ i <= j /\ j <= Len(s) /\ (j+1)-1 = j
    BY <1>1
  <2>2. SubSeq(s, i, j) = Append(SubSeq(s, i, j-1), s[j])
    BY <1>1, <2>1, RunAppends
  <2>. QED  BY <2>1, <2>2 DEF Stretch
<1>. QED  BY <1>2, <1>3, <1>4

(* What it is squeezed to.                                                 *)
LEMMA SqueezesOn ==
  ASSUME NEW s \in Seq(Symbol), NEW i \in 1..Len(s)+1
  PROVE  /\ Squeezed(s, i, i) = <<>>
         /\ \A j \in i..Len(s)+1 : Squeezed(s, i, j) \in Seq(Symbol)
         /\ \A j \in i..Len(s) :
              /\ s[j] \notin Space => Squeezed(s, i, j+1) = Append(Squeezed(s, i, j), s[j])
              /\ s[j] \in Space /\ WideBefore(s, i, j) => Squeezed(s, i, j+1) = Squeezed(s, i, j)
              /\ s[j] \in Space /\ ~WideBefore(s, i, j) =>
                   Squeezed(s, i, j+1) = Append(Squeezed(s, i, j), Blank)
<1>0. Len(s) \in Nat /\ Blank \in Symbol
  BY Marks
<1>1. /\ Stretch(s, i, i) = <<>>
      /\ \A j \in i..Len(s)+1 : Stretch(s, i, j) \in Seq(Symbol) /\ Len(Stretch(s, i, j)) = j-i
      /\ \A j \in i..Len(s)+1 : \A k \in 1..j-i : Stretch(s, i, j)[k] = s[i+k-1]
      /\ \A j \in i..Len(s) : Stretch(s, i, j+1) = Append(Stretch(s, i, j), s[j])
  BY StretchGrows
<1>2. Squeeze(<<>>) = <<>> /\ \A v \in Seq(Symbol) : Squeeze(v) \in Seq(Symbol)
  BY <1>0, SqueezeGrows
<1>3. ASSUME NEW j \in i..Len(s)
      PROVE  /\ s[j] \notin Space => Squeezed(s, i, j+1) = Append(Squeezed(s, i, j), s[j])
             /\ s[j] \in Space /\ WideBefore(s, i, j) => Squeezed(s, i, j+1) = Squeezed(s, i, j)
             /\ s[j] \in Space /\ ~WideBefore(s, i, j) =>
                  Squeezed(s, i, j+1) = Append(Squeezed(s, i, j), Blank)
  <2>. DEFINE v == Stretch(s, i, j)
  <2>1. j \in i..Len(s)+1 /\ s[j] \in Symbol
    BY <1>0
  <2>2. /\ v \in Seq(Symbol) /\ Len(v) = j-i /\ Stretch(s, i, j+1) = Append(v, s[j])
        /\ \A k \in 1..j-i : v[k] = s[i+k-1]
    BY <1>1, <2>1
  <2>. HIDE DEF v
  <2>3. EndsWide(v) <=> WideBefore(s, i, j)
    <3>1. CASE j = i
      <4>1. v = <<>>
        BY <2>2, <3>1
      <4>. QED  BY <3>1, <4>1 DEF EndsWide, WideBefore
    <3>2. CASE j # i
      <4>1. j-i \in 1..j-i /\ i+(j-i)-1 = j-1 /\ Len(v) # 0
        BY <1>0, <2>2, <3>2
      <4>2. v[Len(v)] = s[j-1] /\ v # <<>>
        BY <2>2, <4>1
      <4>. QED  BY <3>2, <4>2 DEF EndsWide, WideBefore
    <3>. QED  BY <3>1, <3>2
  <2>4. /\ s[j] \notin Space => Squeeze(Append(v, s[j])) = Append(Squeeze(v), s[j])
        /\ s[j] \in Space /\ EndsWide(v) => Squeeze(Append(v, s[j])) = Squeeze(v)
        /\ s[j] \in Space /\ ~EndsWide(v) => Squeeze(Append(v, s[j])) = Append(Squeeze(v), Blank)
    BY <2>1, <2>2, SqueezeGrows
  <2>. QED  BY <2>2, <2>3, <2>4 DEF Squeezed, v
<1>. QED  BY <1>1, <1>2, <1>3 DEF Squeezed

(* The pattern of a stretch fits it: up to its end, and the white space    *)
(* after a stretch that ends in white space too.                           *)
LEMMA StretchFits ==
  ASSUME NEW s \in Seq(Symbol), NEW i \in 1..Len(s)+1, NEW e \in i..Len(s)+1,
         \A j \in i..e-1 : s[j] # Nbsp
  PROVE  IF WideBefore(s, i, e) THEN EndOfWhite(s, e, BodyEnd(s, i, Squeezed(s, i, e)))
         ELSE BodyEnd(s, i, Squeezed(s, i, e)) = e
<1>. DEFINE b(j) == BodyEnd(s, i, Squeezed(s, i, j))
            Fitting(j, x) == IF WideBefore(s, i, j) THEN EndOfWhite(s, j, x) ELSE x = j
            S == {j \in i..e : Fitting(j, b(j))}
<1>0. Len(s) \in Nat /\ i \in Nat /\ e \in Nat /\ i <= e /\ e <= Len(s)+1 /\ i \in i..e /\ e \in i..e /\ i \in 0..Len(s)+1
  OBVIOUS
<1>m. Blank \in Symbol /\ Blank \in Space /\ <<>> \in Seq(Symbol) /\ White \subseteq Space /\ \A c \in Space : c = Nbsp \/ c \in White
  BY Marks DEF Space, White
<1>q. /\ Squeezed(s, i, i) = <<>>
      /\ \A j \in i..Len(s)+1 : Squeezed(s, i, j) \in Seq(Symbol)
      /\ \A j \in i..Len(s) :
           /\ s[j] \notin Space => Squeezed(s, i, j+1) = Append(Squeezed(s, i, j), s[j])
           /\ s[j] \in Space /\ WideBefore(s, i, j) => Squeezed(s, i, j+1) = Squeezed(s, i, j)
           /\ s[j] \in Space /\ ~WideBefore(s, i, j) =>
                Squeezed(s, i, j+1) = Append(Squeezed(s, i, j), Blank)
  BY SqueezesOn
<1>g. /\ BodyEnd(s, i, <<>>) = i
      /\ \A p \in Seq(Symbol), c \in Symbol : BodyEnd(s, i, Append(p, c)) = StepTo(s, BodyEnd(s, i, p), c)
  BY <1>0, <1>m, BodyGrows
<1>1. i \in S
  <2>1. ~WideBefore(s, i, i)
    BY DEF WideBefore
  <2>2. b(i) = i
    BY <1>q, <1>g
  <2>. HIDE DEF b
  <2>. QED  BY <1>0, <2>1, <2>2
<1>2. ASSUME NEW j \in i..e-1, j \in S PROVE j+1 \in S
  <2>. DEFINE x == b(j)  y == b(j+1)  p == Squeezed(s, i, j)
  <2>1. j \in i..Len(s) /\ j \in i..Len(s)+1 /\ j \in 1..Len(s) /\ j \in 0..Len(s)+1 /\ j+1 \in i..e /\ j+1 # i /\ (j+1)-1 = j
    BY <1>0
  <2>2. Fitting(j, x) /\ s[j] # Nbsp /\ s[j] \in Symbol /\ p \in Seq(Symbol)
    BY <1>2, <1>q, <2>1
  <2>3. WideBefore(s, i, j+1) <=> s[j] \in Space
    BY <2>1 DEF WideBefore
  <2>4. s[j] \notin Space => y = StepTo(s, x, s[j])
    <3>1. BodyEnd(s, i, Append(p, s[j])) = StepTo(s, x, s[j])
      BY <1>g, <2>2
    <3>. QED  BY <1>q, <2>1, <3>1
  <2>5. s[j] \in Space /\ WideBefore(s, i, j) => y = x
    BY <1>q, <2>1
  <2>6. s[j] \in Space /\ ~WideBefore(s, i, j) => y = StepTo(s, x, Blank)
    <3>1. BodyEnd(s, i, Append(p, Blank)) = StepTo(s, x, Blank)
      BY <1>g, <1>m, <2>2
    <3>. QED  BY <1>q, <2>1, <3>1
  <2>. HIDE DEF x, y, p, b
  <2>7. Fitting(j+1, y)
    <3>1. CASE s[j] \notin Space
      <4>1. x = j
        <5>1. WideBefore(s, i, j) => EndOfWhite(s, j, x)
          BY <2>2
        <5>2. EndOfWhite(s, j, x) => x = j
          <6>. SUFFICES ASSUME EndOfWhite(s, j, x), x # j PROVE FALSE
            OBVIOUS
          <6>1. x \in j..Len(s)+1 /\ \A k \in j..x-1 : s[k] \in White
            BY DEF EndOfWhite
          <6>2. j \in j..x-1
            BY <1>0, <2>1, <6>1
          <6>. QED  BY <1>m, <3>1, <6>1, <6>2
        <5>. QED  BY <2>2, <5>1, <5>2
      <4>2. StepTo(s, j, s[j]) = j+1
        <5>1. s[j] # Blank
          BY <1>m, <3>1
        <5>. QED  BY <2>1, <5>1, StepMatches
      <4>. QED  BY <2>3, <2>4, <3>1, <4>1, <4>2
    <3>2. CASE s[j] \in Space
      <4>0. s[j] \in White
        BY <1>m, <2>2, <3>2
      <4>1. EndOfWhite(s, j, y)
        <5>1. CASE WideBefore(s, i, j)
          BY <2>2, <2>5, <3>2, <5>1
        <5>2. CASE ~WideBefore(s, i, j)
          <6>1. EndOfWhite(s, j, StepTo(s, j, Blank))
            BY <2>1, <4>0, StepMatches
          <6>. QED  BY <2>2, <2>6, <3>2, <5>2, <6>1
        <5>. QED  BY <5>1, <5>2
      <4>2. y \in j..Len(s)+1 /\ (\A k \in j..y-1 : s[k] \in White) /\ (y = Len(s)+1 \/ s[y] \notin White)
        BY <4>1 DEF EndOfWhite
      <4>3. y # j
        BY <1>0, <2>1, <4>0, <4>2
      <4>4. y \in j+1..Len(s)+1 /\ \A k \in j+1..y-1 : k \in j..y-1
        BY <1>0, <2>1, <4>2, <4>3
      <4>5. EndOfWhite(s, j+1, y)
        BY <4>2, <4>4 DEF EndOfWhite
      <4>. QED  BY <2>3, <3>2, <4>5
    <3>. QED  BY <3>1, <3>2
  <2>. HIDE DEF Fitting
  <2>. QED  BY <2>1, <2>7 DEF y
<1>3. \A j \in i..e : j \in S
  <2>. HIDE DEF S
  <2>. QED  BY ONLY <1>0, <1>1, <1>2, Upwards
<1>4. e \in S
  BY <1>0, <1>3
<1>. QED  BY <1>4

(* What a block is squeezed to, up to some symbol of it.                   *)
Proper(p) ==
  /\ p # <<>> => p[1] # Blank
  /\ \A k \in 1..Len(p) : p[k] \in Space => p[k] = Blank
  /\ \A k \in 1..Len(p)-1 : p[k] # Blank \/ p[k+1] # Blank

(* A pattern that fits is that of the stretch it fits.                     *)
FitsWhere(s, i, e, p) ==
  e # 0 => e \in i..Len(s)+1 /\ Squeezed(s, i, e) = p /\ \A j \in i..e-1 : s[j] # Nbsp

(* So does every pattern that is proper.                                  *)
LEMMA FitsItsStretch ==
  ASSUME NEW s \in Seq(Symbol), NEW i \in 1..Len(s)+1
  PROVE  \A p \in Seq(Symbol) : Proper(p) => FitsWhere(s, i, BodyEnd(s, i, p), p)
<1>. DEFINE S == {p \in Seq(Symbol) : Proper(p) => FitsWhere(s, i, BodyEnd(s, i, p), p)}
<1>0. Len(s) \in Nat /\ i \in Nat /\ i \in i..Len(s)+1 /\ i \in 0..Len(s)+1
  OBVIOUS
<1>m. Blank \in Symbol /\ Blank \in Space /\ <<>> \in Seq(Symbol) /\ White \subseteq Space /\ Nbsp \in Space /\ Nbsp \notin White
  <2>1. Nbsp \notin White
    BY DEF White, Nbsp, NL, CR, Blank
  <2>2. Blank \in Space /\ White \subseteq Space /\ Nbsp \in Space
    BY DEF Space, White
  <2>. QED  BY Marks, <2>1, <2>2
<1>q. /\ Squeezed(s, i, i) = <<>>
      /\ \A j \in i..Len(s)+1 : Squeezed(s, i, j) \in Seq(Symbol)
      /\ \A j \in i..Len(s) :
           /\ s[j] \notin Space => Squeezed(s, i, j+1) = Append(Squeezed(s, i, j), s[j])
           /\ s[j] \in Space /\ WideBefore(s, i, j) => Squeezed(s, i, j+1) = Squeezed(s, i, j)
           /\ s[j] \in Space /\ ~WideBefore(s, i, j) =>
                Squeezed(s, i, j+1) = Append(Squeezed(s, i, j), Blank)
  BY SqueezesOn
<1>g. /\ BodyEnd(s, i, <<>>) = i
      /\ \A p \in Seq(Symbol), c \in Symbol : /\ BodyEnd(s, i, p) \in 0..Len(s)+1
                                             /\ BodyEnd(s, i, Append(p, c)) = StepTo(s, BodyEnd(s, i, p), c)
  BY <1>0, <1>m, BodyGrows
<1>1. <<>> \in S
  <2>1. FitsWhere(s, i, i, <<>>)
    <3>1. \A j \in i..i-1 : FALSE
      BY <1>0
    <3>. QED  BY <1>0, <1>q, <3>1 DEF FitsWhere
  <2>. QED  BY <1>g, <1>m, <2>1
<1>2. ASSUME NEW p \in Seq(Symbol), NEW c \in Symbol, p \in S PROVE Append(p, c) \in S
  <2>. DEFINE r == Append(p, c)  at == BodyEnd(s, i, p)  e == BodyEnd(s, i, r)  n == Len(p)
  <2>1. /\ n \in Nat /\ r \in Seq(Symbol) /\ Len(r) = n+1 /\ r[n+1] = c /\ \A k \in 1..n : r[k] = p[k]
    OBVIOUS
  <2>2. at \in 0..Len(s)+1 /\ e = StepTo(s, at, c)
    BY <1>g
  <2>i. Proper(p) => FitsWhere(s, i, at, p)
    BY <1>2
  <2>. HIDE DEF S, at, e
  <2>3. SUFFICES ASSUME Proper(r), e # 0 PROVE FitsWhere(s, i, e, r)
    BY <2>1 DEF S, FitsWhere, e
  <2>p. p # <<>> <=> n # 0
    OBVIOUS
  <2>r. r # <<>>
    BY <2>1
  <2>. HIDE DEF r, n
  <2>4. /\ Proper(p) /\ (c \in Space => c = Blank)
        /\ c = Blank => p # <<>> /\ p[n] # Blank
    <3>1. /\ n+1 \in 1..n+1 /\ (n # 0 => 1 \in 1..n /\ n \in 1..(n+1)-1 /\ n \in 1..n)
          /\ (n = 0 => n+1 = 1) /\ \A k \in 1..n : k \in 1..n+1
          /\ \A k \in 1..n-1 : k \in 1..n /\ k+1 \in 1..n /\ k \in 1..(n+1)-1
      BY <2>1
    <3>2. Proper(p)
      BY <2>1, <2>3, <2>p, <2>r, <3>1 DEF Proper, n
    <3>3. c \in Space => c = Blank
      BY <2>1, <2>3, <3>1 DEF Proper
    <3>4. c = Blank => p # <<>> /\ p[n] # Blank
      <4>1. c = Blank => n # 0
        BY <2>1, <2>3, <2>r, <3>1 DEF Proper
      <4>2. n # 0 => (r[n] # Blank \/ r[n+1] # Blank)
        BY <2>1, <2>3, <3>1 DEF Proper
      <4>. QED  BY <2>1, <2>p, <3>1, <4>1, <4>2
    <3>. QED  BY <3>2, <3>3, <3>4
  <2>5. /\ at \in 1..Len(s) /\ IF c = Blank THEN s[at] \in White /\ EndOfWhite(s, at, e) ELSE s[at] = c /\ e = at+1
    BY <2>2, <2>3, StepMatches
  <2>6. at \in i..Len(s) /\ Squeezed(s, i, at) = p /\ \A j \in i..at-1 : s[j] # Nbsp
    <3>1. at # 0
      BY <2>5
    <3>2. at \in i..Len(s)+1 /\ Squeezed(s, i, at) = p /\ \A j \in i..at-1 : s[j] # Nbsp
      BY <2>4, <2>i, <3>1 DEF FitsWhere
    <3>. QED  BY <1>0, <2>5, <3>2
  <2>7. CASE c # Blank
    <3>1. c \notin Space /\ s[at] = c /\ e = at+1
      BY <2>4, <2>5, <2>7
    <3>2. Squeezed(s, i, e) = r
      BY <1>q, <2>6, <3>1 DEF r
    <3>3. e \in i..Len(s)+1 /\ \A j \in i..e-1 : j = at \/ j \in i..at-1
      BY <1>0, <2>6, <3>1
    <3>4. \A j \in i..e-1 : s[j] # Nbsp
      BY <1>m, <2>6, <3>1, <3>3
    <3>. QED  BY <3>2, <3>3, <3>4 DEF FitsWhere
  <2>8. CASE c = Blank
    <3>1. s[at] \in White /\ e \in at..Len(s)+1 /\ (\A j \in at..e-1 : s[j] \in White) /\ (e = Len(s)+1 \/ s[e] \notin White)
      BY <2>5, <2>8 DEF EndOfWhite
    <3>2. e \in at+1..Len(s)+1
      BY <1>0, <2>6, <3>1
    <3>3. ~WideBefore(s, i, at)
      <4>. DEFINE v == Stretch(s, i, at)
      <4>1. at \in i..Len(s)+1
        BY <1>0, <2>6
      <4>2. v \in Seq(Symbol) /\ Len(v) = at-i /\ \A k \in 1..at-i : v[k] = s[i+k-1]
        BY <4>1, StretchGrows
      <4>3. Squeeze(v) = p
        BY <2>6 DEF Squeezed
      <4>. HIDE DEF v
      <4>4. SqueezedAs(v, p)
        BY <4>2, <4>3, SqueezeMeans
      <4>5. v # <<>> /\ v[Len(v)] \notin Space
        BY <2>4, <2>8, <4>4 DEF SqueezedAs, n
      <4>6. Len(v) # 0
        BY <4>2, <4>5
      <4>7. at-i \in 1..at-i /\ i+(at-i)-1 = at-1
        BY <1>0, <2>6, <4>2, <4>6
      <4>8. s[at-1] \notin Space
        BY <4>2, <4>5, <4>7
      <4>. QED  BY <4>8 DEF WideBefore
    <3>4. \A j \in at+1..e : Squeezed(s, i, j) = r
      <4>. DEFINE T == {j \in at+1..e : Squeezed(s, i, j) = r}
      <4>1. at+1 \in T
        <5>1. Squeezed(s, i, at+1) = Append(p, Blank)
          BY <1>m, <1>q, <2>6, <3>1, <3>3
        <5>2. at+1 \in at+1..e
          BY <1>0, <2>6, <3>2
        <5>. QED  BY <2>8, <5>1, <5>2 DEF r
      <4>2. ASSUME NEW j \in at+1..e-1, j \in T PROVE j+1 \in T
        <5>1. j \in i..Len(s) /\ j \in at..e-1 /\ j-1 \in at..e-1 /\ j # i /\ j+1 \in at+1..e
          BY <1>0, <2>6, <3>2
        <5>2. s[j] \in Space /\ WideBefore(s, i, j)
          BY <1>m, <3>1, <5>1 DEF WideBefore
        <5>3. Squeezed(s, i, j+1) = Squeezed(s, i, j)
          BY <1>q, <5>1, <5>2
        <5>. QED  BY <4>2, <5>1, <5>3
      <4>3. at+1 \in Nat /\ e \in Nat
        BY <1>0, <2>6, <3>2
      <4>4. \A j \in at+1..e : j \in T
        <5>. HIDE DEF T
        <5>. QED  BY ONLY <4>1, <4>2, <4>3, Upwards
      <4>. QED  BY <4>4
    <3>5. e \in at+1..e /\ e \in i..Len(s)+1 /\ \A j \in i..e-1 : j \in at..e-1 \/ j \in i..at-1
      BY <1>0, <2>6, <3>2
    <3>6. \A j \in i..e-1 : s[j] # Nbsp
      BY <1>m, <2>6, <3>1, <3>5
    <3>. QED  BY <3>4, <3>5, <3>6 DEF FitsWhere
  <2>. QED  BY <2>7, <2>8
<1>3. \A p \in Seq(Symbol) : p \in S
  <2>. HIDE DEF S
  <2>. QED  BY <1>1, <1>2, SequencesGrow
<1>. QED  BY <1>3

(* The words of a block, as the pattern for them.                          *)
LEMMA WordsAreProper ==
  ASSUME NEW s \in Seq(Symbol), Solid(s) # {}
  PROVE  /\ Tight(s) \in Seq(Symbol) /\ Tight(s) # <<>> /\ Proper(Tight(s))
         /\ Tight(s)[1] \notin Space /\ Tight(s)[Len(Tight(s))] \notin Space
<1>. DEFINE t == TrimSpace(s)  p == Tight(s)
<1>1. t \in Seq(Symbol) /\ t # <<>> /\ t[1] \notin Space /\ t[Len(t)] \notin Space /\ Squeeze(t) = p
  BY TrimmedWords
<1>2. p \in Seq(Symbol)
  BY <1>1, Marks, SqueezeGrows
<1>. HIDE DEF t, p
<1>3. SqueezedAs(t, p)
  BY <1>1, SqueezeMeans
<1>4. p # <<>> /\ p[1] # Blank /\ p[Len(p)] # Blank
  BY <1>1, <1>3 DEF SqueezedAs
<1>5. 1 \in 1..Len(p) /\ Len(p) \in 1..Len(p)
  BY <1>2, <1>4
<1>6. Proper(p)
  BY <1>3, <1>4 DEF SqueezedAs, Proper
<1>7. p[1] \notin Space /\ p[Len(p)] \notin Space
  BY <1>4, <1>5, <1>6 DEF Proper
<1>. QED  BY <1>2, <1>4, <1>6, <1>7 DEF p

(* Nothing fits from nowhere.                                              *)
LEMMA NowhereFits ==
  ASSUME NEW s \in Seq(Symbol)
  PROVE  \A p \in Seq(Symbol) : BodyEnd(s, 0, p) = 0
<1>. DEFINE S == {p \in Seq(Symbol) : BodyEnd(s, 0, p) = 0}
<1>0. Len(s) \in Nat /\ 0 \in 0..Len(s)+1 /\ 0 \notin 1..Len(s) /\ <<>> \in Seq(Symbol) /\ Blank \in Symbol
  BY Marks
<1>g. /\ BodyEnd(s, 0, <<>>) = 0
      /\ \A p \in Seq(Symbol), c \in Symbol : BodyEnd(s, 0, Append(p, c)) = StepTo(s, BodyEnd(s, 0, p), c)
  BY <1>0, BodyGrows
<1>1. <<>> \in S
  BY <1>0, <1>g
<1>2. ASSUME NEW p \in Seq(Symbol), NEW c \in Symbol, p \in S PROVE Append(p, c) \in S
  <2>1. StepTo(s, 0, c) = 0
    BY <1>0, StepMatches
  <2>2. Append(p, c) \in Seq(Symbol)
    OBVIOUS
  <2>3. BodyEnd(s, 0, Append(p, c)) = 0
    BY <1>2, <1>g, <2>1
  <2>. QED  BY <2>2, <2>3
<1>3. \A p \in Seq(Symbol) : p \in S
  <2>. HIDE DEF S
  <2>. QED  BY <1>1, <1>2, SequencesGrow
<1>. QED  BY <1>3

(* The words of a block, and its pattern.                                  *)
Words(t) == t \in Seq(Symbol) /\ t # <<>> /\ Proper(t) /\ t[1] \notin Space /\ t[Len(t)] \notin Space
PatternFor(t, sunk) == IF sunk THEN <<Blank>> \o t ELSE t

(* buildFlexPattern makes that pattern of what dedent leaves of the block. *)
LEMMA BlockPattern ==
  ASSUME NEW block \in Seq(Symbol), Solid(block) # {}
  PROVE  /\ Words(Tight(block)) /\ Squeeze(TrimSpace(block)) = Tight(block)
         /\ Sunken(block) \in BOOLEAN
         /\ buildFlexPattern(dedent(block)) = PatternFor(Tight(block), Sunken(block))
<1>1. dedent(block) \in Seq(Symbol) /\ Tight(dedent(block)) = Tight(block)
  BY DedentKeepsWords
<1>2. Solid(dedent(block)) # {}
  BY <1>1, NothingSolid
<1>3. buildFlexPattern(dedent(block)) = PatternFor(Tight(block), Sunken(block))
  BY <1>1, <1>2, PatternIs DEF PatternFor, Sunken
<1>4. Words(Tight(block)) /\ Squeeze(TrimSpace(block)) = Tight(block)
  BY WordsAreProper, TrimmedWords DEF Words
<1>. QED  BY <1>3, <1>4 DEF Sunken

(* Where words fit, a stretch begins and ends with a word, and holds them. *)
LEMMA WordsFit ==
  ASSUME NEW s \in Seq(Symbol), NEW f \in 1..Len(s)+1, NEW t, Words(t), BodyEnd(s, f, t) # 0
  PROVE  /\ f \in 1..Len(s) /\ BodyEnd(s, f, t) \in f+1..Len(s)+1
         /\ Squeezed(s, f, BodyEnd(s, f, t)) = t
         /\ s[f] \notin Space /\ s[BodyEnd(s, f, t) - 1] \notin Space
         /\ \A j \in f..BodyEnd(s, f, t) - 1 : s[j] # Nbsp
<1>. DEFINE e == BodyEnd(s, f, t)  v == Stretch(s, f, e)
<1>0. Len(s) \in Nat
  OBVIOUS
<1>1. e \in f..Len(s)+1 /\ Squeezed(s, f, e) = t /\ \A j \in f..e-1 : s[j] # Nbsp
  BY FitsItsStretch DEF Words, FitsWhere
<1>. HIDE DEF e
<1>2. v \in Seq(Symbol) /\ Len(v) = e-f /\ \A k \in 1..e-f : v[k] = s[f+k-1]
  BY <1>1, StretchGrows
<1>3. Squeeze(v) = t
  BY <1>1 DEF Squeezed
<1>. HIDE DEF v
<1>4. SqueezedAs(v, t)
  BY <1>2, <1>3, SqueezeMeans
<1>5. v # <<>> /\ v[1] \notin Space /\ v[Len(v)] \notin Space
  <2>1. 1 \in 1..Len(t) /\ Len(t) \in 1..Len(t)
    BY DEF Words
  <2>2. t[1] # Blank /\ t[Len(t)] # Blank
    BY DEF Words, Space
  <2>. QED  BY <1>4, <2>2 DEF SqueezedAs, Words
<1>6. e-f \in Nat \ {0}
  BY <1>0, <1>1, <1>2, <1>5
<1>7. 1 \in 1..e-f /\ e-f \in 1..e-f /\ f+1-1 = f /\ f+(e-f)-1 = e-1 /\ e \in f+1..Len(s)+1 /\ f \in 1..Len(s)
  BY <1>0, <1>1, <1>6
<1>8. s[f] \notin Space /\ s[e-1] \notin Space
  BY <1>2, <1>5, <1>7
<1>. QED  BY <1>1, <1>7, <1>8 DEF e

(* Where a pattern with white space in front fits.                         *)
LEMMA SunkenFits ==
  ASSUME NEW s \in Seq(Symbol), NEW b \in 1..Len(s), NEW t, Words(t)
  PROVE  /\ BodyEnd(s, b, PatternFor(t, TRUE)) # 0 =>
              s[b] \in White /\ \E f \in 1..Len(s)+1 :
                                   EndOfWhite(s, b, f) /\ BodyEnd(s, b, PatternFor(t, TRUE)) = BodyEnd(s, f, t)
         /\ \A f \in 1..Len(s)+1 : s[b] \in White /\ EndOfWhite(s, b, f) =>
              BodyEnd(s, b, PatternFor(t, TRUE)) = BodyEnd(s, f, t)
<1>. DEFINE x == StepTo(s, b, Blank)
<1>0. Len(s) \in Nat /\ b \in 0..Len(s)+1 /\ b \in 1..Len(s)+1 /\ Blank \in Symbol /\ t \in Seq(Symbol)
  BY Marks DEF Words
<1>1. BodyEnd(s, b, PatternFor(t, TRUE)) = BodyEnd(s, x, t)
  BY <1>0, BodyFromFirst DEF PatternFor
<1>2. IF s[b] \in White THEN EndOfWhite(s, b, x) ELSE x = 0
  BY <1>0, StepMatches
<1>. HIDE DEF x
<1>3. EndOfWhite(s, b, x) => x \in 1..Len(s)+1
  BY <1>0 DEF EndOfWhite
<1>4. x = 0 => BodyEnd(s, x, t) = 0
  BY <1>0, NowhereFits
<1>5. ASSUME NEW f \in 1..Len(s)+1, s[b] \in White, EndOfWhite(s, b, f) PROVE f = x
  <2>1. EndOfWhite(s, b, x) /\ b \in b..Len(s)+1
    BY <1>0, <1>2, <1>5
  <2>2. f <= x /\ x <= f
    BY <1>0, <1>5, <2>1, WhiteEndsLater
  <2>. QED  BY <1>3, <2>1, <2>2
<1>. QED  BY <1>1, <1>2, <1>3, <1>4, <1>5

InPlace(s, f, sunk) == IF sunk THEN BelowWhite(s, f) ELSE FirstOnLine(s, f)

(* A match that goes on at a first word: white space up to it, of which the *)
(* indentation is kept; all of it, unless the pattern begins with \s+.     *)
GoesOnAt(s, m, f, sunk) ==
  /\ EndOfWhite(s, m.from, f) /\ StartsLine(s, m.line)
  /\ m.from <= m.line /\ m.line <= m.body /\ m.body <= f
  /\ \A j \in m.line..m.body-1 : s[j] = Blank
  /\ sunk \/ m.body = f

(* A match of a pattern goes on at a place where the words fit.            *)
LEMMA MatchMeans ==
  ASSUME NEW s \in Seq(Symbol), NEW i \in 1..Len(s), NEW t, Words(t), NEW sunk \in BOOLEAN,
         BlockAt(s, i, PatternFor(t, sunk)) # NoMatch
  PROVE  \E f \in 1..Len(s) :
           /\ GoesOnAt(s, BlockAt(s, i, PatternFor(t, sunk)), f, sunk)
           /\ InPlace(s, f, sunk) /\ BodyEnd(s, f, t) # 0
           /\ BlockAt(s, i, PatternFor(t, sunk)).from = i
           /\ BlockAt(s, i, PatternFor(t, sunk)).to = BodyEnd(s, f, t)
<1>. DEFINE pattern == PatternFor(t, sunk)
            first == (IF i = 1 THEN {i} ELSE {}) \cup (IF s[i] = NL THEN {i+1} ELSE {})
            bodies(q) == {b \in q..Len(s) : /\ \A j \in q..b-1 : s[j] = Blank
                                            /\ BodyEnd(s, b, pattern) # 0}
            fits == {q \in first : bodies(q) # {}}
            line == Min(fits)
            body == Max(bodies(line))
            m == [from |-> i, line |-> line, body |-> body, to |-> BodyEnd(s, body, pattern)]
<1>1. Len(s) \in Nat /\ Len(s)+1 \in Nat
  OBVIOUS
<1>m. /\ NL \in White /\ Blank \in White /\ White \subseteq Space /\ Blank # NL
  BY Different DEF White, Space
<1>2. BlockAt(s, i, pattern) = IF fits = {} THEN NoMatch ELSE m
  BY Zenon DEF BlockAt
<1>3. fits # {} /\ BlockAt(s, i, pattern) = m
  BY <1>2
<1>4. fits \in SUBSET (1..Len(s)+1)
  BY <1>1
<1>5. line \in fits /\ line \in 1..Len(s)+1
  <2>. HIDE DEF fits
  <2>. QED  BY ONLY <1>1, <1>3, <1>4, PlacesHaveEnds DEF line
<1>6. bodies(line) # {} /\ line \in first
  <2>. HIDE DEF line, bodies, first
  <2>. QED  BY <1>5
<1>. HIDE DEF line, fits, pattern
<1>7. bodies(line) \in SUBSET (1..Len(s))
  BY <1>5
<1>8. body \in bodies(line) /\ body \in 1..Len(s)
  <2>. HIDE DEF bodies
  <2>. QED  BY ONLY <1>1, <1>6, <1>7, PlacesHaveEnds DEF body
<1>. HIDE DEF body
<1>9. body \in line..Len(s) /\ (\A j \in line..body-1 : s[j] = Blank) /\ BodyEnd(s, body, pattern) # 0
  BY <1>8
<1>10. (line = i /\ i = 1) \/ (line = i+1 /\ s[i] = NL)
  <2>. HIDE DEF bodies
  <2>1. line \in first
    BY <1>6
  <2>2. \A x \in first : (x = i /\ i = 1) \/ (x = i+1 /\ s[i] = NL)
    OBVIOUS
  <2>. HIDE DEF first
  <2>. QED  BY <2>1, <2>2
<1>. HIDE DEF bodies, first
<1>11. StartsLine(s, line) /\ i <= line
  <2>1. (i+1)-1 = i
    OBVIOUS
  <2>. QED  BY <1>10, <2>1 DEF StartsLine
<1>12. m.from = i /\ m.to = BodyEnd(s, body, pattern) /\ m.line = line /\ m.body = body
  OBVIOUS
<1>. HIDE DEF m
<1>13. SUFFICES \E f \in 1..Len(s) :
                  /\ EndOfWhite(s, i, f) /\ InPlace(s, f, sunk) /\ BodyEnd(s, f, t) # 0
                  /\ BodyEnd(s, body, pattern) = BodyEnd(s, f, t) /\ body <= f /\ (sunk \/ body = f)
  <2>1. line <= body
    BY <1>1, <1>5, <1>9
  <2>. QED  BY <1>3, <1>9, <1>11, <1>12, <2>1 DEF pattern, GoesOnAt
<1>14. \A j \in i..body-1 : s[j] \in White
  <2>1. \A j \in i..body-1 : j \in line..body-1 \/ (j = i /\ s[i] = NL)
    BY <1>1, <1>9, <1>10
  <2>. QED  BY <1>9, <1>m, <2>1
<1>15. CASE sunk = FALSE
  <2>1. BodyEnd(s, body, t) # 0 /\ pattern = t
    BY <1>9, <1>15 DEF pattern, PatternFor
  <2>2. s[body] \notin Space
    <3>1. body \in 1..Len(s)+1
      BY <1>1, <1>8
    <3>. QED  BY <2>1, <3>1, WordsFit
  <2>3. EndOfWhite(s, i, body)
    <3>1. body \in i..Len(s)+1
      BY <1>1, <1>5, <1>9, <1>11
    <3>. QED  BY <1>14, <1>m, <2>2, <3>1 DEF EndOfWhite
  <2>4. FirstOnLine(s, body)
    <3>1. line \in 1..body
      BY <1>1, <1>5, <1>9
    <3>. QED  BY <1>9, <1>11, <3>1 DEF FirstOnLine
  <2>. QED  BY <1>8, <1>15, <2>1, <2>3, <2>4 DEF InPlace
<1>16. CASE sunk = TRUE
  <2>1. BodyEnd(s, body, PatternFor(t, TRUE)) # 0 /\ pattern = PatternFor(t, TRUE)
    BY <1>9, <1>16 DEF pattern
  <2>2. s[body] \in White /\ \E f \in 1..Len(s)+1 :
           EndOfWhite(s, body, f) /\ BodyEnd(s, body, PatternFor(t, TRUE)) = BodyEnd(s, f, t)
    BY <1>8, <2>1, SunkenFits
  <2>3. PICK f \in 1..Len(s)+1 : EndOfWhite(s, body, f) /\ BodyEnd(s, body, PatternFor(t, TRUE)) = BodyEnd(s, f, t)
    BY <2>2
  <2>4. f \in 1..Len(s) /\ s[f] \notin Space /\ BodyEnd(s, f, t) # 0
    <3>1. BodyEnd(s, f, t) # 0
      BY <2>1, <2>3
    <3>. QED  BY <3>1, WordsFit
  <2>5. f \in body..Len(s)+1 /\ (\A j \in body..f-1 : s[j] \in White) /\ f # body
    BY <1>m, <2>2, <2>3, <2>4 DEF EndOfWhite
  <2>6. EndOfWhite(s, i, f)
    <3>1. f \in i..Len(s)+1 /\ \A j \in i..f-1 : j \in i..body-1 \/ j \in body..f-1
      BY <1>1, <1>5, <1>8, <1>9, <1>11, <2>5
    <3>. QED  BY <1>14, <1>m, <2>4, <2>5, <3>1 DEF EndOfWhite
  <2>7. BelowWhite(s, f)
    <3>1. line \in 1..f-1 /\ \A j \in line..f-1 : j \in i..body-1 \/ j \in body..f-1
      BY <1>1, <1>5, <1>8, <1>9, <1>11, <2>5
    <3>2. \A j \in line..f-1 : s[j] \in White
      BY <1>14, <2>5, <3>1
    <3>. QED  BY <1>11, <3>1, <3>2 DEF BelowWhite
  <2>8. body <= f
    BY <1>1, <1>8, <2>5
  <2>. QED  BY <1>16, <2>1, <2>3, <2>4, <2>6, <2>7, <2>8 DEF InPlace
<1>. QED  BY <1>15, <1>16

(* And every place where the words fit starts a match, from the newline    *)
(* above it.                                                               *)
LEMMA PlacesMatch ==
  ASSUME NEW s \in Seq(Symbol), NEW f \in 1..Len(s), NEW t, Words(t), NEW sunk \in BOOLEAN,
         BodyEnd(s, f, t) # 0, InPlace(s, f, sunk)
  PROVE  \E i \in 1..f : EndOfWhite(s, i, f) /\ BlockAt(s, i, PatternFor(t, sunk)) # NoMatch
<1>. DEFINE pattern == PatternFor(t, sunk)
<1>1. Len(s) \in Nat /\ f \in 1..Len(s)+1
  OBVIOUS
<1>m. /\ NL \in White /\ Blank \in White /\ White \subseteq Space
  BY DEF White, Space
<1>2. s[f] \notin Space
  BY <1>1, WordsFit
<1>3. PICK q \in 1..f : /\ StartsLine(s, q) /\ \A j \in q..f-1 : s[j] \in White
                        /\ sunk = TRUE => q # f
                        /\ sunk = FALSE => \A j \in q..f-1 : s[j] = Blank
  <2>1. CASE sunk = TRUE
    <3>1. PICK q \in 1..f-1 : StartsLine(s, q) /\ \A j \in q..f-1 : s[j] \in White
      BY <2>1 DEF InPlace, BelowWhite
    <3>2. q \in 1..f /\ q # f
      BY <1>1
    <3>. QED  BY <2>1, <3>1, <3>2
  <2>2. CASE sunk = FALSE
    <3>1. PICK q \in 1..f : StartsLine(s, q) /\ \A j \in q..f-1 : s[j] = Blank
      BY <2>2 DEF InPlace, FirstOnLine
    <3>. QED  BY <1>m, <2>2, <3>1
  <2>. QED  BY <2>1, <2>2
<1>4. EndOfWhite(s, q, f)
  <2>1. f \in q..Len(s)+1
    BY <1>1, <1>3
  <2>. QED  BY <1>2, <1>3, <1>m, <2>1 DEF EndOfWhite
<1>. DEFINE i == IF q = 1 THEN 1 ELSE q-1
<1>5. i \in 1..f /\ (q = 1 => i = 1) /\ (q # 1 => i+1 = q /\ s[i] = NL) /\ i \in 1..Len(s)
  <2>1. q # 1 => s[q-1] = NL
    BY <1>3 DEF StartsLine
  <2>. QED  BY <1>1, <1>3, <2>1
<1>. HIDE DEF i
<1>6. EndOfWhite(s, i, f)
  <2>1. f \in i..Len(s)+1 /\ \A j \in i..f-1 : j \in q..f-1 \/ (j = i /\ s[i] = NL)
    BY <1>1, <1>3, <1>5
  <2>2. \A j \in i..f-1 : s[j] \in White
    BY <1>3, <1>m, <2>1
  <2>. QED  BY <1>2, <1>m, <2>1, <2>2 DEF EndOfWhite
<1>7. \E b \in q..Len(s) : (\A j \in q..b-1 : s[j] = Blank) /\ BodyEnd(s, b, pattern) # 0
  <2>1. CASE sunk = FALSE
    <3>1. f \in q..Len(s)
      BY <1>1, <1>3
    <3>2. BodyEnd(s, f, pattern) # 0
      BY <2>1 DEF PatternFor
    <3>. QED  BY <1>3, <2>1, <3>1, <3>2
  <2>2. CASE sunk = TRUE
    <3>1. q \in q..Len(s) /\ q \in 1..Len(s) /\ q \in q..f-1
      BY <1>1, <1>3, <2>2
    <3>2. \A j \in q..q-1 : FALSE
      BY <1>3
    <3>3. s[q] \in White
      BY <1>3, <3>1
    <3>4. BodyEnd(s, q, PatternFor(t, TRUE)) = BodyEnd(s, f, t)
      BY <1>1, <1>4, <3>1, <3>3, SunkenFits
    <3>. QED  BY <2>2, <3>1, <3>2, <3>4
  <2>. QED  BY <2>1, <2>2
<1>. HIDE DEF pattern
<1>. DEFINE first == (IF i = 1 THEN {i} ELSE {}) \cup (IF s[i] = NL THEN {i+1} ELSE {})
            bodies(x) == {b \in x..Len(s) : /\ \A j \in x..b-1 : s[j] = Blank
                                            /\ BodyEnd(s, b, pattern) # 0}
            fits == {x \in first : bodies(x) # {}}
            line == Min(fits)
            body == Max(bodies(line))
            m == [from |-> i, line |-> line, body |-> body, to |-> BodyEnd(s, body, pattern)]
<1>8. BlockAt(s, i, pattern) = IF fits = {} THEN NoMatch ELSE m
  BY Zenon DEF BlockAt
<1>9. q \in first
  BY <1>5
<1>10. bodies(q) # {}
  <2>. HIDE DEF first
  <2>. QED  BY <1>7
<1>11. fits # {}
  <2>. HIDE DEF first, bodies
  <2>. QED  BY <1>9, <1>10
<1>12. fits \in SUBSET (1..Len(s)+1)
  BY <1>1, <1>5
<1>13. line \in fits /\ line \in 1..Len(s)+1
  <2>1. Len(s)+1 \in Nat
    BY <1>1
  <2>. HIDE DEF fits
  <2>. QED  BY ONLY <2>1, <1>11, <1>12, PlacesHaveEnds DEF line
<1>14. bodies(line) # {}
  <2>. HIDE DEF line, bodies, first
  <2>. QED  BY <1>13
<1>. HIDE DEF line, fits, first
<1>15. bodies(line) \in SUBSET (1..Len(s))
  BY <1>13
<1>16. body \in bodies(line)
  <2>. HIDE DEF bodies
  <2>. QED  BY ONLY <1>1, <1>14, <1>15, PlacesHaveEnds DEF body
<1>. HIDE DEF body
<1>17. BodyEnd(s, body, pattern) # 0
  BY <1>16
<1>. HIDE DEF bodies
<1>18. m # NoMatch
  <2>1. m.to # 0
    BY <1>17
  <2>2. NoMatch.to = 0
    BY DEF NoMatch
  <2>. HIDE DEF m
  <2>. QED  BY <2>1, <2>2
<1>19. BlockAt(s, i, pattern) # NoMatch
  <2>. HIDE DEF m
  <2>. QED  BY <1>8, <1>11, <1>18
<1>. QED  BY <1>5, <1>6, <1>19 DEF pattern

-----------------------------------------------------------------------------
(* Any scan: what is taken goes up, and a match that is not taken starts   *)
(* inside one that is.                                                     *)
Offered(at) == \A i \in 1..Len(at) : at[i] # NoMatch => at[i].from = i /\ at[i].to \in Nat /\ i < at[i].to
Taken(at, ms, n) == \A k \in DOMAIN ms : ms[k].from \in 1..n /\ at[ms[k].from] # NoMatch /\ ms[k] = at[ms[k].from]
Covered(at, ms, n) == \A i \in 1..n : at[i] # NoMatch => \E k \in DOMAIN ms : ms[k].from <= i /\ i < ms[k].to
Greedy(at, ms, n) == Rising(ms) /\ Taken(at, ms, n) /\ Covered(at, ms, n)

(* It stays greedy with each place that Scan goes on to.                  *)
LEMMA TakesGreedily ==
  ASSUME NEW M, NEW at \in Seq(M), Offered(at), NEW n \in Nat, n+1 <= Len(at),
         NEW ms \in Seq(M), Greedy(at, ms, n)
  PROVE  Greedy(at, Take(ms, at[n+1], n+1), n+1)
<1>. DEFINE i == n+1  a == at[i]  L == Len(ms)
<1>1. L \in Nat /\ DOMAIN ms = 1..L /\ i \in 1..Len(at) /\ a \in M /\ i \in 1..n+1 /\ i \in Nat
  OBVIOUS
<1>2. a # NoMatch => a.from = i /\ a.to \in Nat /\ i < a.to
  BY <1>1 DEF Offered
<1>3. /\ Rising(ms) /\ Covered(at, ms, n)
      /\ \A k \in 1..L : ms[k].from \in 1..n /\ at[ms[k].from] # NoMatch /\ ms[k] = at[ms[k].from]
  BY <1>1 DEF Greedy, Taken
<1>t. \A k \in 1..L : ms[k].from \in 1..n /\ ms[k].to \in Nat /\ ms[k].from < ms[k].to
  <2>. SUFFICES ASSUME NEW k \in 1..L PROVE ms[k].from \in 1..n /\ ms[k].to \in Nat /\ ms[k].from < ms[k].to
    OBVIOUS
  <2>1. ms[k].from \in 1..n /\ ms[k].from \in 1..Len(at)
    BY <1>1, <1>3
  <2>2. at[ms[k].from].to \in Nat /\ ms[k].from < at[ms[k].from].to /\ ms[k] = at[ms[k].from]
    BY <1>3, <2>1 DEF Offered
  <2>. QED  BY <2>1, <2>2
<1>5. \A j \in 1..n+1 : j \in 1..n \/ j = i
  OBVIOUS
<1>. HIDE DEF a, i, L
<1>6. CASE a = NoMatch
  <2>1. Take(ms, a, i) = ms
    BY <1>6 DEF Take
  <2>2. Covered(at, ms, n+1)
    BY <1>3, <1>5, <1>6 DEF Covered, a
  <2>3. Taken(at, ms, n+1)
    <3>1. \A x \in 1..n : x \in 1..n+1
      OBVIOUS
    <3>. QED  BY <1>1, <1>3, <3>1 DEF Taken
  <2>. QED  BY <1>3, <2>1, <2>2, <2>3 DEF Greedy, a, i
<1>7. CASE a # NoMatch /\ ~(ms = <<>> \/ ms[L].to <= i)
  <2>1. Take(ms, a, i) = ms
    BY <1>7 DEF Take, L
  <2>2. L \in 1..L
    <3>1. L # 0
      BY <1>1, <1>7 DEF L
    <3>. QED  BY <1>1, <3>1
  <2>3. ms[L].from <= i /\ i < ms[L].to
    BY <1>1, <1>t, <1>7, <2>2 DEF i
  <2>4. Covered(at, ms, n+1)
    BY <1>1, <1>3, <1>5, <2>2, <2>3 DEF Covered
  <2>5. Taken(at, ms, n+1)
    <3>1. \A x \in 1..n : x \in 1..n+1
      OBVIOUS
    <3>. QED  BY <1>1, <1>3, <3>1 DEF Taken
  <2>. QED  BY <1>3, <2>1, <2>4, <2>5 DEF Greedy, a, i
<1>8. CASE a # NoMatch /\ (ms = <<>> \/ ms[L].to <= i)
  <2>. DEFINE t == Append(ms, a)
  <2>1. Take(ms, a, i) = t
    BY <1>8 DEF Take, L
  <2>2. /\ t \in Seq(M) /\ Len(t) = L+1
        /\ \A j \in 1..L : t[j] = ms[j]
        /\ t[L+1] = a
    <3>1. ms \in Seq(M) /\ a \in M
      BY <1>1
    <3>. QED  BY ONLY <3>1, AppendIs DEF L
  <2>. HIDE DEF t
  <2>3. DOMAIN t = 1..L+1 /\ \A k \in 1..L+1 : k \in 1..L \/ k = L+1
    BY <1>1, <2>2
  <2>4. \A k \in 1..L : ms[k].to <= i
    <3>. SUFFICES ASSUME NEW k \in 1..L PROVE ms[k].to <= i
      OBVIOUS
    <3>1. L \in 1..L /\ ms # <<>>
      <4>1. L # 0
        BY <1>1
      <4>. QED  BY <1>1, <4>1 DEF L
    <3>2. ms[L].to <= i
      BY <1>8, <3>1
    <3>3. k < L => ms[k].to <= ms[L].from
      BY <1>1, <1>3, <3>1 DEF Rising
    <3>5. ms[k].to \in Nat /\ ms[L].from \in Nat /\ ms[L].to \in Nat /\ i \in Nat /\ ms[L].from < ms[L].to
      BY <1>1, <1>t, <3>1
    <3>6. k < L \/ k = L
      BY <1>1
    <3>. QED  BY <3>2, <3>3, <3>5, <3>6
  <2>5. Rising(t)
    <3>. SUFFICES ASSUME NEW k \in 1..L+1, NEW l \in 1..L+1, k < l PROVE t[k].to <= t[l].from
      BY <2>3 DEF Rising
    <3>1. k \in 1..L /\ t[k] = ms[k]
      BY <1>1, <2>2
    <3>2. CASE l = L+1
      BY <1>2, <1>8, <2>2, <2>4, <3>1, <3>2
    <3>3. CASE l # L+1
      <4>1. l \in 1..L
        BY <1>1, <3>3
      <4>. QED  BY <1>1, <1>3, <2>2, <3>1, <4>1 DEF Rising
    <3>. QED  BY <3>2, <3>3
  <2>6. Covered(at, t, n+1)
    <3>. SUFFICES ASSUME NEW j \in 1..n+1, at[j] # NoMatch
                  PROVE  \E k \in 1..L+1 : t[k].from <= j /\ j < t[k].to
      BY <2>3 DEF Covered
    <3>1. CASE j \in 1..n
      <4>1. PICK k \in 1..L : ms[k].from <= j /\ j < ms[k].to
        BY <1>1, <1>3, <3>1 DEF Covered
      <4>2. k \in 1..L+1
        BY <1>1
      <4>. QED  BY <2>2, <4>1, <4>2
    <3>2. CASE j = i
      <4>1. L+1 \in 1..L+1 /\ i <= i
        BY <1>1 DEF i
      <4>. QED  BY <1>2, <1>8, <2>2, <3>2, <4>1
    <3>. QED  BY <1>5, <3>1, <3>2
  <2>7. Taken(at, t, n+1)
    <3>. SUFFICES ASSUME NEW k \in 1..L+1
                  PROVE  t[k].from \in 1..n+1 /\ at[t[k].from] # NoMatch /\ t[k] = at[t[k].from]
      BY <2>3 DEF Taken
    <3>1. CASE k \in 1..L
      <4>1. ms[k].from \in 1..n+1
        BY <1>3, <3>1
      <4>. QED  BY <1>3, <2>2, <3>1, <4>1
    <3>2. CASE k = L+1
      BY <1>1, <1>2, <1>8, <2>2, <3>2 DEF a
    <3>. QED  BY <2>3, <3>1, <3>2
  <2>. QED  BY <2>1, <2>5, <2>6, <2>7 DEF Greedy, a, i
<1>. QED  BY <1>6, <1>7, <1>8

(* So Scan is.                                                             *)
LEMMA ScansGreedily ==
  ASSUME NEW M, NEW at \in Seq(M), Offered(at)
  PROVE  Scan(at) \in Seq(M) /\ Greedy(at, Scan(at), Len(at))
<1>. DEFINE N == Len(at)  V == Seq(M \ {NoMatch})
<1>2. N \in Nat
  OBVIOUS
<1>. HIDE DEF N
<1>3. PICK u \in [0..N -> V] :
        /\ u[0] = <<>> /\ \A n \in 1..N : u[n] = Take(u[n-1], at[n], n)
        /\ Scan(at) = u[N]
  BY ScanGoes, Zenon DEF N
<1>v. \A ms \in V : ms \in Seq(M)
  OBVIOUS
<1>. HIDE DEF V
<1>. DEFINE S == {n \in 0..N : Greedy(at, u[n], n)}
<1>4. 0 \in S
  <2>. DEFINE e == <<>>
  <2>1. DOMAIN e = {} /\ 1..0 = {}
    OBVIOUS
  <2>. HIDE DEF e
  <2>3. Greedy(at, e, 0)
    BY <2>1 DEF Greedy, Rising, Covered, Taken
  <2>. QED  BY <1>2, <1>3, <2>3 DEF e
<1>5. ASSUME NEW n \in 0..N-1, n \in S PROVE n+1 \in S
  <2>1. n \in Nat /\ n+1 \in 1..N /\ n+1 \in 0..N /\ n \in 0..N /\ (n+1)-1 = n /\ n+1 <= Len(at)
    BY <1>2 DEF N
  <2>2. u[n+1] = Take(u[n], at[n+1], n+1)
    BY <1>3, <2>1
  <2>3. Greedy(at, u[n], n) /\ u[n] \in Seq(M)
    BY <1>3, <1>5, <1>v, <2>1
  <2>4. Greedy(at, u[n+1], n+1)
    BY <2>1, <2>2, <2>3, TakesGreedily
  <2>. QED  BY <2>1, <2>4
<1>6. \A n \in 0..N : n \in S
  <2>1. 0 \in Nat
    OBVIOUS
  <2>. HIDE DEF S
  <2>. QED  BY ONLY <1>2, <1>4, <1>5, <2>1, Upwards
<1>7. N \in 0..N
  BY <1>2
<1>8. Greedy(at, u[N], N) /\ u[N] \in Seq(M)
  BY <1>3, <1>6, <1>7, <1>v
<1>. QED  BY <1>3, <1>8 DEF N

-----------------------------------------------------------------------------
(* The places that fit a block, as where its words fit.                    *)
LEMMA OccurrencesFit ==
  ASSUME NEW s \in Seq(Symbol), NEW block \in Seq(Symbol), Solid(block) # {},
         NEW o \in BlockOccurrences(s, block)
  PROVE  /\ o = [from |-> o.from, to |-> o.to]
         /\ o.from \in 1..Len(s) /\ o.to \in o.from+1..Len(s)+1
         /\ InPlace(s, o.from, Sunken(block)) /\ BodyEnd(s, o.from, Tight(block)) = o.to
         /\ s[o.to-1] \notin Space
<1>. DEFINE t == Tight(block)
<1>1. Len(s) \in Nat /\ DOMAIN s = 1..Len(s)
  OBVIOUS
<1>i. PICK i \in 1..Len(s) : o \in {[from |-> i, to |-> j+1] : j \in i..Len(s)}
  BY <1>1 DEF BlockOccurrences, Stretches
<1>2. PICK j \in i..Len(s) : o = [from |-> i, to |-> j+1]
  BY <1>i
<1>. DEFINE e == j+1
<1>3. o.from = i /\ o.to = e /\ e \in i+1..Len(s)+1 /\ e \in i..Len(s)+1 /\ i \in 1..Len(s)+1
  BY <1>1, <1>2
<1>4. o = [from |-> o.from, to |-> o.to]
  BY <1>2
<1>. HIDE DEF e
<1>5. IsOccurrence(s, o, block)
  BY DEF BlockOccurrences
<1>6. s[i] \notin Space /\ s[e-1] \notin Space /\ InPlace(s, i, Sunken(block))
  BY <1>3, <1>5 DEF IsOccurrence, InPlace
<1>7. Nbsp \notin ToSet(Stretch(s, i, e)) /\ Squeezed(s, i, e) = t
  BY <1>3, <1>5, BlockPattern DEF IsOccurrence, Stretch, Squeezed
<1>8. \A x \in i..e-1 : s[x] # Nbsp
  <2>. SUFFICES ASSUME NEW x \in i..e-1 PROVE s[x] # Nbsp
    OBVIOUS
  <2>1. x-i+1 \in 1..e-i /\ i+(x-i+1)-1 = x
    BY <1>1, <1>3
  <2>2. Stretch(s, i, e) \in Seq(Symbol) /\ Len(Stretch(s, i, e)) = e-i /\ Stretch(s, i, e)[x-i+1] = s[x]
    BY <1>3, <2>1, StretchGrows
  <2>3. s[x] \in ToSet(Stretch(s, i, e))
    <3>1. x-i+1 \in DOMAIN Stretch(s, i, e)
      BY <2>1, <2>2
    <3>. QED  BY <2>2, <3>1 DEF ToSet
  <2>. QED  BY <1>7, <2>3
<1>9. BodyEnd(s, i, Squeezed(s, i, e)) = e
  <2>1. ~WideBefore(s, i, e)
    BY <1>6 DEF WideBefore
  <2>. QED  BY <1>3, <1>8, <2>1, StretchFits
<1>. QED  BY <1>3, <1>4, <1>6, <1>7, <1>9

(* Where the words of a block fit is a place that fits it.                 *)
LEMMA FitsOccur ==
  ASSUME NEW s \in Seq(Symbol), NEW block \in Seq(Symbol), Solid(block) # {},
         NEW f \in 1..Len(s), InPlace(s, f, Sunken(block)), BodyEnd(s, f, Tight(block)) # 0
  PROVE  [from |-> f, to |-> BodyEnd(s, f, Tight(block))] \in BlockOccurrences(s, block)
<1>. DEFINE t == Tight(block)  e == BodyEnd(s, f, t)  o == [from |-> f, to |-> e]
<1>1. Len(s) \in Nat /\ DOMAIN s = 1..Len(s) /\ f \in 1..Len(s)+1
  OBVIOUS
<1>2. Words(t) /\ Squeeze(TrimSpace(block)) = t
  BY BlockPattern
<1>3. /\ e \in f+1..Len(s)+1 /\ Squeezed(s, f, e) = t /\ s[f] \notin Space /\ s[e-1] \notin Space
      /\ \A j \in f..e-1 : s[j] # Nbsp
  BY <1>1, <1>2, WordsFit
<1>. HIDE DEF e, t
<1>4. o \in Stretches(s)
  <2>. DEFINE j == e-1
  <2>1. j \in f..Len(s) /\ j+1 = e /\ f \in DOMAIN s
    BY <1>1, <1>3
  <2>. HIDE DEF j
  <2>2. o = [from |-> f, to |-> j+1]
    BY <2>1
  <2>. QED  BY <2>1, <2>2 DEF Stretches
<1>5. Nbsp \notin ToSet(Stretch(s, f, e))
  <2>1. e \in f..Len(s)+1
    BY <1>1, <1>3
  <2>2. /\ Stretch(s, f, e) \in Seq(Symbol) /\ Len(Stretch(s, f, e)) = e-f
        /\ \A k \in 1..e-f : Stretch(s, f, e)[k] = s[f+k-1]
    BY <1>1, <2>1, StretchGrows
  <2>3. \A k \in 1..e-f : f+k-1 \in f..e-1
    BY <1>1, <2>1
  <2>4. DOMAIN Stretch(s, f, e) = 1..e-f
    BY <2>2
  <2>. QED  BY <1>3, <2>2, <2>3, <2>4 DEF ToSet
<1>6. IsOccurrence(s, o, block)
  <2>1. o.from = f /\ o.to = e
    OBVIOUS
  <2>. HIDE DEF o
  <2>. QED  BY <1>2, <1>3, <1>5, <2>1 DEF IsOccurrence, InPlace, Stretch, Squeezed
<1>. QED  BY <1>4, <1>6 DEF BlockOccurrences, e, t

(* What a search for blocks finds: matches that go up, each of them ending *)
(* a place that fits, with only white space of the match before it; and in *)
(* front of every place that fits, white space where a match goes on that  *)
(* ends no later.                                                          *)
EndsPlace(s, O, m, sunk) ==
  \E f \in Nat : [from |-> f, to |-> m.to] \in O /\ m.from <= f /\ GoesOnAt(s, m, f, sunk)

ReachesInto(s, m, o) ==
  /\ m.to <= o.to
  /\ \E i \in 1..o.from : EndOfWhite(s, i, o.from) /\ m.from <= i /\ i < m.to

FoundIn(s, O, ms, sunk) ==
  /\ ms \in Seq(BlockMatch(Len(s))) /\ Rising(ms)
  /\ \A k \in DOMAIN ms : ms[k].from < ms[k].to /\ EndsPlace(s, O, ms[k], sunk)
  /\ \A o \in O : \E k \in DOMAIN ms : ReachesInto(s, ms[k], o)

(* That is what Blocks finds of a block.                                   *)
LEMMA BlocksFind ==
  ASSUME NEW s \in Seq(Symbol), NEW block \in Seq(Symbol), Solid(block) # {}
  PROVE  FoundIn(s, BlockOccurrences(s, block), Blocks(s, block), Sunken(block))
<1>. DEFINE t == Tight(block)  sunk == Sunken(block)  p == PatternFor(t, sunk)
            at == [i \in DOMAIN s |-> BlockAt(s, i, p)]
            M == BlockMatch(Len(s)) \cup {NoMatch}
            ms == Blocks(s, block)  O == BlockOccurrences(s, block)  N == Len(s)
<1>0. N \in Nat /\ DOMAIN s = 1..N
  OBVIOUS
<1>1. Words(t) /\ sunk \in BOOLEAN /\ buildFlexPattern(dedent(block)) = p
  BY BlockPattern
<1>2. ms = Scan(at)
  BY <1>1, Zenon DEF Blocks
<1>3. p \in Seq(Symbol)
  <2>1. <<Blank>> \in Seq(Symbol) /\ t \in Seq(Symbol)
    BY <1>1, Marks DEF Words
  <2>. HIDE DEF t, sunk
  <2>. QED  BY <2>1 DEF PatternFor
<1>o. \A f \in 1..N : InPlace(s, f, sunk) /\ BodyEnd(s, f, t) # 0 => [from |-> f, to |-> BodyEnd(s, f, t)] \in O
  BY FitsOccur
<1>f. \A o \in O : /\ o.from \in 1..N /\ o.to \in o.from+1..N+1
                   /\ InPlace(s, o.from, sunk) /\ BodyEnd(s, o.from, t) = o.to
  BY OccurrencesFit
<1>b. ms \in Seq(BlockMatch(N))
  <2>1. {NL, Blank} \subseteq Symbol
    BY Marks
  <2>. QED  BY <2>1, BlocksTyped
<1>w. \A i \in 1..N : BlockAt(s, i, p) # NoMatch =>
         \E f \in 1..N :
           /\ GoesOnAt(s, BlockAt(s, i, p), f, sunk) /\ InPlace(s, f, sunk) /\ BodyEnd(s, f, t) # 0
           /\ BlockAt(s, i, p).from = i /\ BlockAt(s, i, p).to = BodyEnd(s, f, t)
  BY <1>1, MatchMeans
<1>m. \A f \in 1..N : BodyEnd(s, f, t) # 0 /\ InPlace(s, f, sunk) =>
         \E i \in 1..f : EndOfWhite(s, i, f) /\ BlockAt(s, i, p) # NoMatch
  BY <1>1, PlacesMatch
<1>e. \A f \in 1..N : BodyEnd(s, f, t) # 0 => BodyEnd(s, f, t) \in f+1..N+1
  <2>1. \A f \in 1..N : f \in 1..N+1
    BY <1>0
  <2>. QED  BY <1>1, <2>1, WordsFit
<1>a. t \in Seq(Symbol)
  BY <1>1 DEF Words
<1>. HIDE DEF t, sunk, p, O, ms
<1>4. \A i \in 1..N : BlockAt(s, i, p) \in M
  <2>. SUFFICES ASSUME NEW i \in 1..N PROVE BlockAt(s, i, p) \in M
    OBVIOUS
  <2>. QED  BY <1>3, BlockAtTyped, Zenon DEF M
<1>. HIDE DEF M, N
<1>5. at \in Seq(M) /\ Len(at) = N /\ \A i \in 1..N : at[i] = BlockAt(s, i, p)
  BY <1>0, <1>4
<1>. HIDE DEF at
<1>6. Offered(at)
  <2>. SUFFICES ASSUME NEW i \in 1..N, at[i] # NoMatch
                PROVE at[i].from = i /\ at[i].to \in Nat /\ i < at[i].to
    BY <1>5 DEF Offered
  <2>1. BlockAt(s, i, p) # NoMatch
    BY <1>5
  <2>2. PICK f \in 1..N : /\ GoesOnAt(s, BlockAt(s, i, p), f, sunk) /\ BodyEnd(s, f, t) # 0
                          /\ BlockAt(s, i, p).from = i /\ BlockAt(s, i, p).to = BodyEnd(s, f, t)
    BY <1>w, <2>1
  <2>3. i <= f
    BY <1>0, <2>2 DEF GoesOnAt, EndOfWhite
  <2>4. BodyEnd(s, f, t) \in f+1..N+1
    BY <1>e, <2>2
  <2>. QED  BY <1>0, <1>5, <2>2, <2>3, <2>4
<1>7. Greedy(at, ms, N)
  BY <1>2, <1>5, <1>6, ScansGreedily
<1>8. Rising(ms)
  BY <1>7 DEF Greedy
<1>9. ASSUME NEW k \in DOMAIN ms
      PROVE  /\ ms[k].from \in 1..N
             /\ \E f \in 1..N : /\ GoesOnAt(s, ms[k], f, sunk) /\ InPlace(s, f, sunk) /\ BodyEnd(s, f, t) # 0
                                /\ ms[k].to = BodyEnd(s, f, t)
  <2>1. ms[k].from \in 1..N /\ at[ms[k].from] # NoMatch /\ ms[k] = at[ms[k].from]
    BY <1>7 DEF Greedy, Taken
  <2>2. BlockAt(s, ms[k].from, p) # NoMatch /\ ms[k] = BlockAt(s, ms[k].from, p)
    BY <1>5, <2>1
  <2>3. \E f \in 1..N :
           /\ GoesOnAt(s, BlockAt(s, ms[k].from, p), f, sunk) /\ InPlace(s, f, sunk) /\ BodyEnd(s, f, t) # 0
           /\ BlockAt(s, ms[k].from, p).to = BodyEnd(s, f, t)
    BY <1>w, <2>1, <2>2
  <2>. QED  BY <2>1, <2>2, <2>3
<1>10. ASSUME NEW k \in DOMAIN ms
       PROVE  ms[k].from < ms[k].to /\ EndsPlace(s, O, ms[k], sunk)
  <2>1. PICK f \in 1..N : /\ GoesOnAt(s, ms[k], f, sunk) /\ InPlace(s, f, sunk) /\ BodyEnd(s, f, t) # 0
                          /\ ms[k].to = BodyEnd(s, f, t)
    BY <1>9
  <2>2. ms[k].from <= f /\ ms[k].from \in 1..N
    BY <1>0, <1>9, <2>1 DEF GoesOnAt, EndOfWhite
  <2>3. [from |-> f, to |-> ms[k].to] \in O
    BY <1>o, <2>1
  <2>4. BodyEnd(s, f, t) \in f+1..N+1
    BY <1>e, <2>1
  <2>. QED  BY <1>0, <2>1, <2>2, <2>3, <2>4 DEF EndsPlace
<1>11. ASSUME NEW o \in O PROVE \E k \in DOMAIN ms : ReachesInto(s, ms[k], o)
  <2>1. o.from \in 1..N /\ o.to \in o.from+1..N+1 /\ InPlace(s, o.from, sunk) /\ BodyEnd(s, o.from, t) = o.to
    BY <1>f
  <2>2. o.to # 0
    BY <1>0, <2>1
  <2>3. PICK i \in 1..o.from : EndOfWhite(s, i, o.from) /\ BlockAt(s, i, p) # NoMatch
    BY <1>m, <2>1, <2>2
  <2>4. i \in 1..N /\ at[i] # NoMatch
    BY <1>0, <1>5, <2>1, <2>3
  <2>5. PICK k \in DOMAIN ms : ms[k].from <= i /\ i < ms[k].to
    BY <1>7, <2>4 DEF Greedy, Covered
  <2>6. PICK f \in 1..N : /\ EndOfWhite(s, ms[k].from, f) /\ BodyEnd(s, f, t) # 0
                          /\ ms[k].to = BodyEnd(s, f, t)
    BY <1>9 DEF GoesOnAt
  <2>7. ms[k].from \in 1..N
    BY <1>9
  <2>8. f <= o.from
    <3>1. ms[k].from \in 1..Len(s)+1 /\ i \in ms[k].from..Len(s)+1
      BY <1>0, <2>4, <2>5, <2>7 DEF N
    <3>. QED  BY <2>3, <2>6, <3>1, WhiteEndsLater
  <2>9. ms[k].to <= o.to
    <3>1. f \in 0..Len(s)+1 /\ o.from \in f..Len(s)+1
      BY <1>0, <2>1, <2>6, <2>8 DEF N
    <3>2. BodyEnd(s, f, t) # 0 /\ BodyEnd(s, o.from, t) # 0
      BY <2>1, <2>2, <2>6
    <3>. QED  BY <1>a, <2>1, <2>6, <3>1, <3>2, BodiesInOrder
  <2>. QED  BY <2>3, <2>5, <2>9 DEF ReachesInto
<1>. QED  BY <1>8, <1>10, <1>11, <1>b DEF FoundIn, N, O, ms, sunk

(* So there are as many places apart from each other as blocks are found.  *)
LEMMA BlocksAreApart ==
  ASSUME NEW s \in Seq(Symbol), NEW block \in Seq(Symbol), Solid(block) # {},
         NEW ms, ms = Blocks(s, block)
  PROVE  \E S \in kSubset(Len(ms), BlockOccurrences(s, block)) : Apart(S)
<1>. DEFINE O == BlockOccurrences(s, block)  L == Len(ms)
            ok(k, f) == [from |-> f, to |-> ms[k].to] \in O /\ ms[k].from <= f
            f == [k \in 1..L |-> CHOOSE x \in Nat : ok(k, x)]
            g == [k \in 1..L |-> [from |-> f[k], to |-> ms[k].to]]
            S == {g[k] : k \in 1..L}
<1>1. FoundIn(s, O, ms, Sunken(block))
  BY BlocksFind
<1>2. L \in Nat /\ DOMAIN ms = 1..L /\ Rising(ms)
  BY <1>1 DEF FoundIn
<1>3. \A k \in 1..L : ms[k].from \in Nat /\ ms[k].to \in Nat /\ EndsPlace(s, O, ms[k], Sunken(block))
  <2>1. \A k \in 1..L : ms[k] \in BlockMatch(Len(s)) /\ EndsPlace(s, O, ms[k], Sunken(block))
    BY <1>1, <1>2 DEF FoundIn
  <2>. QED  BY <2>1 DEF BlockMatch
<1>o. \A o \in O : o.from < o.to
  <2>. SUFFICES ASSUME NEW o \in O PROVE o.from < o.to
    OBVIOUS
  <2>1. o.from \in 1..Len(s) /\ o.to \in o.from+1..Len(s)+1
    BY OccurrencesFit
  <2>. QED  BY <2>1
<1>4. L \in Nat
  BY <1>2
<1>. HIDE DEF L, O
<1>5. \A k \in 1..L : f[k] \in Nat /\ g[k] \in O /\ ms[k].from <= f[k]
  <2>. SUFFICES ASSUME NEW k \in 1..L PROVE f[k] \in Nat /\ g[k] \in O /\ ms[k].from <= f[k]
    OBVIOUS
  <2>1. \E x \in Nat : ok(k, x)
    BY <1>3 DEF EndsPlace
  <2>2. f[k] \in Nat /\ ok(k, f[k])
    <3>. HIDE DEF ok
    <3>. QED  BY <2>1
  <2>. HIDE DEF f
  <2>. QED  BY <2>2
<1>6. \A k, l \in 1..L : k < l => ms[k].to <= ms[l].from
  BY <1>2, <1>4 DEF Rising
<1>. HIDE DEF f
<1>7. \A k \in 1..L : g[k].from = f[k] /\ g[k].to = ms[k].to
  OBVIOUS
<1>8. \A k, l \in 1..L : k < l => g[k].to <= g[l].from
  <2>. SUFFICES ASSUME NEW k \in 1..L, NEW l \in 1..L, k < l PROVE g[k].to <= g[l].from
    OBVIOUS
  <2>. HIDE DEF g
  <2>1. ms[k].to <= ms[l].from /\ ms[l].from <= f[l]
    BY <1>5, <1>6
  <2>. QED  BY <1>3, <1>5, <1>7, <2>1
<1>9. \A k, l \in 1..L : g[k] = g[l] => k = l
  <2>. SUFFICES ASSUME NEW k \in 1..L, NEW l \in 1..L, g[k] = g[l], k < l PROVE FALSE
    BY <1>4
  <2>. HIDE DEF g
  <2>1. g[k].to <= g[k].from /\ g[k].from < g[k].to
    BY <1>5, <1>8, <1>o
  <2>2. g[k].from \in Nat /\ g[k].to \in Nat
    BY <1>3, <1>5, <1>7
  <2>. QED  BY <2>1, <2>2
<1>10. Cardinality(S) = L
  <2>1. g \in Surjection(1..L, S)
    BY DEF Surjection
  <2>2. g \in Injection(1..L, S)
    BY <1>9 DEF Injection, IsInjective
  <2>3. IsFiniteSet(1..L) /\ Cardinality(1..L) = L
    BY <1>4, FS_Interval
  <2>. HIDE DEF g, S
  <2>. QED  BY <2>1, <2>2, <2>3, FS_Surjection
<1>11. S \in kSubset(L, O)
  <2>. HIDE DEF g
  <2>. QED  BY <1>5, <1>10 DEF kSubset
<1>12. Apart(S)
  <2>. HIDE DEF g
  <2>. SUFFICES ASSUME NEW k \in 1..L, NEW l \in 1..L, g[k] # g[l]
                PROVE  g[k].to <= g[l].from \/ g[l].to <= g[k].from
    BY DEF Apart
  <2>1. k < l \/ l < k
    BY <1>4
  <2>. QED  BY <1>8, <2>1
<1>. QED  BY <1>11, <1>12 DEF L, O

(* A match goes on in front of one of two places that are apart only: white *)
(* space would go on from the last word of the other.                      *)
LEMMA ReachesOne ==
  ASSUME NEW s \in Seq(Symbol), NEW block \in Seq(Symbol), Solid(block) # {},
         NEW m \in BlockMatch(Len(s)), NEW o \in BlockOccurrences(s, block), NEW n \in BlockOccurrences(s, block),
         ReachesInto(s, m, o), ReachesInto(s, m, n)
  PROVE  ~(o.to <= n.from)
<1>. SUFFICES ASSUME o.to <= n.from PROVE FALSE
  OBVIOUS
<1>1. /\ o.from \in 1..Len(s) /\ o.to \in o.from+1..Len(s)+1 /\ s[o.to-1] \notin Space
      /\ n.from \in 1..Len(s)
  BY OccurrencesFit
<1>2. Len(s) \in Nat /\ m.to \in 1..Len(s)+1 /\ White \subseteq Space
  BY DEF BlockMatch, White, Space
<1>3. PICK i \in 1..n.from : EndOfWhite(s, i, n.from) /\ i < m.to
  BY DEF ReachesInto
<1>4. m.to <= o.to
  BY DEF ReachesInto
<1>5. o.to-1 \in i..n.from-1
  BY <1>1, <1>2, <1>3, <1>4
<1>6. s[o.to-1] \in White
  BY <1>3, <1>5 DEF EndOfWhite
<1>. QED  BY <1>1, <1>2, <1>6

(* And no more places are apart from each other.                           *)
LEMMA NoMoreBlocksAreApart ==
  ASSUME NEW s \in Seq(Symbol), NEW block \in Seq(Symbol), Solid(block) # {},
         NEW ms, ms = Blocks(s, block)
  PROVE  \A S \in kSubset(Len(ms)+1, BlockOccurrences(s, block)) : ~Apart(S)
<1>. DEFINE O == BlockOccurrences(s, block)  L == Len(ms)
<1>. SUFFICES ASSUME NEW S \in kSubset(L+1, O), Apart(S) PROVE FALSE
  OBVIOUS
<1>. DEFINE f == [m \in S |-> CHOOSE k \in 1..L : ReachesInto(s, ms[k], m)]
<1>1. FoundIn(s, O, ms, Sunken(block))
  BY BlocksFind
<1>2. L \in Nat /\ DOMAIN ms = 1..L
  BY <1>1 DEF FoundIn
<1>3. \A k \in 1..L : ms[k] \in BlockMatch(Len(s))
  BY <1>1, <1>2 DEF FoundIn
<1>4. S \subseteq O /\ Cardinality(S) = L+1
  BY DEF kSubset
<1>r. \A k \in 1..L : \A o, n \in O : ReachesInto(s, ms[k], o) /\ ReachesInto(s, ms[k], n) => ~(o.to <= n.from)
  BY <1>3, ReachesOne
<1>5. \A m \in S : \E k \in 1..L : ReachesInto(s, ms[k], m)
  BY <1>1, <1>2, <1>4 DEF FoundIn
<1>. HIDE DEF L, O
<1>6. \A m \in S : f[m] \in 1..L /\ ReachesInto(s, ms[f[m]], m)
  BY <1>5
<1>7. \A m, n \in S : f[m] = f[n] => m = n
  <2>. SUFFICES ASSUME NEW m \in S, NEW n \in S, f[m] = f[n], m # n PROVE FALSE
    OBVIOUS
  <2>. DEFINE a == f[m]
  <2>1. a \in 1..L /\ ReachesInto(s, ms[a], m) /\ ReachesInto(s, ms[a], n)
    BY <1>6
  <2>2. m.to <= n.from \/ n.to <= m.from
    BY DEF Apart
  <2>. HIDE DEF a, f
  <2>. QED  BY <1>4, <1>r, <2>1, <2>2
<1>8. f \in Injection(S, 1..L)
  <2>1. f \in [S -> 1..L]
    BY <1>6
  <2>2. DOMAIN f = S
    OBVIOUS
  <2>. HIDE DEF f
  <2>. QED  BY <1>7, <2>1, <2>2 DEF Injection, IsInjective
<1>9. IsFiniteSet(1..L) /\ Cardinality(1..L) = L
  BY <1>2, FS_Interval
<1>10. Cardinality(S) <= L
  <2>. HIDE DEF f
  <2>1. Cardinality(S) <= Cardinality(1..L)
    BY <1>8, <1>9, FS_Injection
  <2>. QED  BY <1>9, <2>1
<1>. QED  BY <1>2, <1>4, <1>10

-----------------------------------------------------------------------------
(* An edit without an anchor counts every place.                           *)
LEMMA FreeBlockCounts ==
  ASSUME NEW d, FreeBlock(d), d.op \in EditOperation, d.before \in Seq(Symbol),
         d.applied = AppliedMatches(d.before, d.op), d.applied # 0
  PROVE  EveryPlaceCounts(d)
<1>. DEFINE s == d.before  op == d.op  ms == Blocks(s, op.find)
<1>1. op.kind = "replace_block" /\ Solid(op.anchor) = {} /\ op.find \in Seq(Symbol)
  BY DEF FreeBlock, EditOperation
<1>2. d.applied = BlockMatches(s, op)
  BY <1>1, Zenon DEF AppliedMatches
<1>3. Solid(op.find) # {}
  BY <1>2 DEF BlockMatches
<1>4. BlockMatches(s, op) = Accepted(Len(ms), op)
  BY <1>1, <1>3, Zenon DEF BlockMatches
<1>5. d.applied = Len(ms)
  BY <1>2, <1>4 DEF Accepted
<1>6. Meant(d) = BlockOccurrences(s, op.find)
  <2>1. op.kind # "replace" /\ op.kind # "replace_suffix"
    BY <1>1
  <2>. QED  BY <2>1, Zenon DEF Meant
<1>. HIDE DEF ms
<1>7. \E S \in kSubset(Len(ms), BlockOccurrences(s, op.find)) : Apart(S)
  BY <1>1, <1>3, BlocksAreApart DEF ms
<1>8. \A S \in kSubset(Len(ms)+1, BlockOccurrences(s, op.find)) : ~Apart(S)
  BY <1>1, <1>3, NoMoreBlocksAreApart DEF ms
<1>. QED  BY <1>5, <1>6, <1>7, <1>8 DEF EveryPlaceCounts

(* The piece that ends before the one that stays is where it was.          *)
LEMMA FrontStays ==
  ASSUME NEW X, NEW s \in Seq(X), NEW after \in Seq(X), NEW from \in 1..Len(s)+1, NEW to \in 1..Len(s)+1,
         Around(s, from, to, after), NEW c \in 0..from-1
  PROVE  IsPrefix(Prefix(s, c), after)
<1>. DEFINE n == from-1  p == SubSeq(s, 1, c)  kept == SubSeq(s, to, Len(s))
<1>1. n \in Nat /\ n <= Len(s) /\ c \in Nat /\ c <= n /\ 1 \in Nat \ {0} /\ 1 <= c+1 /\ 1 <= n+1
  OBVIOUS
<1>2. n <= Len(after) - Len(kept) /\ SubSeq(s, 1, n) = SubSeq(after, 1, n)
  BY DEF Around
<1>3. Len(kept) \in Nat /\ Len(after) \in Nat
  <2>1. kept \in Seq(X)
    BY RestTyped
  <2>. HIDE DEF kept
  <2>. QED  BY <2>1
<1>. HIDE DEF kept, n
<1>4. n <= Len(after) /\ c <= Len(after) /\ c <= Len(s)
  BY <1>1, <1>2, <1>3
<1>5. \A j \in 1..n : SubSeq(s, 1, n)[j] = s[1+j-1] /\ SubSeq(after, 1, n)[j] = after[1+j-1]
  <2>1. n-1+1 = n
    BY <1>1
  <2>. QED  BY <1>1, <1>4, <2>1, RunIs
<1>6. \A j \in 1..c : s[j] = after[j]
  <2>1. \A j \in 1..c : j \in 1..n /\ 1+j-1 = j
    BY <1>1
  <2>. QED  BY <1>2, <1>5, <2>1
<1>7. p \in Seq(X) /\ Len(p) = c /\ \A j \in 1..c : p[j] = s[j]
  <2>1. c-1+1 = c /\ \A j \in 1..c : 1+j-1 = j
    BY <1>1
  <2>2. p \in Seq(X) /\ Len(p) = c-1+1 /\ \A j \in 1..c-1+1 : p[j] = s[1+j-1]
    BY <1>1, <1>4, RunIs
  <2>. HIDE DEF p
  <2>. QED  BY <2>1, <2>2
<1>8. SubSeq(after, 1, c) \in Seq(X) /\ Len(SubSeq(after, 1, c)) = c /\ \A j \in 1..c : SubSeq(after, 1, c)[j] = after[j]
  <2>. DEFINE r == SubSeq(after, 1, c)
  <2>1. c-1+1 = c /\ \A j \in 1..c : 1+j-1 = j
    BY <1>1
  <2>2. r \in Seq(X) /\ Len(r) = c-1+1 /\ \A j \in 1..c-1+1 : r[j] = after[1+j-1]
    BY <1>1, <1>4, RunIs
  <2>. HIDE DEF r
  <2>3. r \in Seq(X) /\ Len(r) = c /\ \A j \in 1..c : r[j] = after[j]
    BY <2>1, <2>2
  <2>. QED  BY <2>3 DEF r
<1>9. p = SubSeq(after, 1, c)
  <2>. DEFINE r == SubSeq(after, 1, c)
  <2>. HIDE DEF r, p
  <2>1. r \in Seq(X) /\ Len(r) = c /\ \A j \in 1..c : r[j] = after[j]
    BY <1>8 DEF r
  <2>2. p = r
    BY <1>6, <1>7, <2>1, SeqEqual
  <2>. QED  BY <2>2 DEF r
<1>10. SubSeq(p, 1, Len(p)) = p
  <2>. HIDE DEF p
  <2>. QED  BY <1>7
<1>11. IsPrefix(p, after)
  <2>. HIDE DEF p
  <2>. QED  BY <1>4, <1>7, <1>9, <1>10 DEF IsPrefix
<1>. QED  BY <1>11 DEF Prefix

(* What is written for a block, but for a newline that its match began with. *)
Aligned(s, m, replace) ==
  IF dedent(replace) = <<>> THEN <<>> ELSE alignReplace(dedent(replace), SubSeq(s, m.line, m.body - 1))

(* Replacing one block leaves what is around it.                           *)
LEMMA ReplaceOne ==
  ASSUME NEW s \in Seq(Symbol), NEW m \in BlockMatch(Len(s)), NEW replace \in Seq(Symbol)
  PROVE  /\ ReplaceBlocks(s, <<m>>, replace) \in Seq(Symbol)
         /\ Around(s, m.from, m.to, ReplaceBlocks(s, <<m>>, replace))
         /\ Aligned(s, m, replace) \in Seq(Symbol)
         /\ m.from <= m.line => ReplaceBlocks(s, <<m>>, replace) =
               (SubSeq(s, 1, m.line-1) \o Aligned(s, m, replace)) \o SubSeq(s, m.to, Len(s))
<1>. DEFINE clean == dedent(replace)
            ms == <<m>>
            new(x) == SubSeq(s, x.from, x.line - 1)
                        \o (IF clean = <<>> THEN <<>>
                            ELSE alignReplace(clean, SubSeq(s, x.line, x.body - 1)))
            ns == [k \in DOMAIN ms |-> new(ms[k])]
            a == Aligned(s, m, replace)  h == SubSeq(s, m.from, m.line - 1)
            q == SubSeq(s, 1, m.from - 1)  k == SubSeq(s, m.to, Len(s))
<1>1. {NL, Blank} \subseteq Symbol /\ NL \in Symbol /\ Len(s) \in Nat
  BY Marks
<1>2. ms \in Seq(BlockMatch(Len(s))) /\ Len(ms) = 1 /\ DOMAIN ms = {1} /\ ms[1] = m
  OBVIOUS
<1>3. ReplaceBlocks(s, ms, replace) \in Seq(Symbol)
  BY <1>1, <1>2, ReplaceBlocksTyped
<1>4. ReplaceBlocks(s, ms, replace) = Splice(s, ms, ns)
  BY Zenon DEF ReplaceBlocks
<1>5. clean \in Seq(Symbol)
  BY <1>1, DedentTyped
<1>6. new(m) = h \o a
  BY Zenon DEF Aligned
<1>7. /\ m.from \in Nat \ {0} /\ m.line \in Nat \ {0} /\ m.line - 1 \in Int /\ m.line - 1 <= Len(s)
      /\ m.body - 1 \in Int /\ m.body - 1 <= Len(s) /\ m.from - 1 \in Int /\ m.from - 1 <= Len(s)
      /\ m.to \in 1..Len(s)+1
  BY <1>1 DEF BlockMatch
<1>8. h \in Seq(Symbol) /\ q \in Seq(Symbol) /\ k \in Seq(Symbol)
  <2>1. 1 \in Nat \ {0}
    OBVIOUS
  <2>2. h \in Seq(Symbol) /\ q \in Seq(Symbol)
    BY ONLY s \in Seq(Symbol), <1>7, <2>1, RunTyped, Zenon
  <2>. QED  BY <1>7, <2>2, RestTyped
<1>9. a \in Seq(Symbol)
  <2>1. SubSeq(s, m.line, m.body - 1) \in Seq(Symbol)
    BY ONLY s \in Seq(Symbol), <1>7, RunTyped, Zenon
  <2>2. alignReplace(clean, SubSeq(s, m.line, m.body - 1)) \in Seq(Symbol)
    BY <1>1, <1>5, <2>1, AlignTyped, Zenon
  <2>3. <<>> \in Seq(Symbol)
    OBVIOUS
  <2>. QED  BY <2>2, <2>3, Zenon DEF Aligned
<1>. HIDE DEF new, ms, clean, a, h, q, k
<1>10. ns[1] = h \o a /\ ns[1] \in Seq(Symbol)
  <2>1. ns[1] = new(m)
    BY <1>2
  <2>2. h \o a \in Seq(Symbol)
    BY <1>8, <1>9
  <2>. QED  BY <1>6, <2>1, <2>2
<1>. HIDE DEF ns
<1>11. Within(ms, Len(s))
  BY <1>2 DEF Within, BlockMatch
<1>12. /\ Around(s, ms[1].from, ms[1].to, Splice(s, ms, ns))
       /\ Splice(s, ms, ns) = (SubSeq(s, 1, ms[1].from-1) \o ns[1]) \o SubSeq(s, ms[1].to, Len(s))
  BY ONLY s \in Seq(Symbol), <1>2, <1>10, <1>11, SpliceOne
<1>13. Around(s, m.from, m.to, ReplaceBlocks(s, ms, replace))
  BY <1>2, <1>4, <1>12
<1>14. ReplaceBlocks(s, ms, replace) = (q \o (h \o a)) \o k
  BY <1>2, <1>4, <1>10, <1>12 DEF q, k
<1>15. ASSUME m.from <= m.line PROVE q \o h = SubSeq(s, 1, m.line - 1)
  <2>1. /\ 1 \in 1..Len(s)+1 /\ m.from - 1 \in 1-1..Len(s) /\ m.line - 1 \in m.from-1..Len(s)
        /\ (m.from - 1) + 1 = m.from
    BY <1>1, <1>7, <1>15
  <2>2. SubSeq(s, 1, m.from-1) \o SubSeq(s, (m.from-1)+1, m.line-1) = SubSeq(s, 1, m.line-1)
    BY ONLY s \in Seq(Symbol), <2>1, ConcatAdjacentSubSeq
  <2>. QED  BY <2>1, <2>2 DEF q, h
<1>16. q \o (h \o a) = (q \o h) \o a
  BY <1>8, <1>9
<1>. QED  BY <1>3, <1>9, <1>13, <1>14, <1>15, <1>16 DEF ms, a, k

(* An anchored edit was accepted: the anchor is found once, and what is    *)
(* replaced is the first block found below it.                             *)
LEMMA AnchoredReplaces ==
  ASSUME NEW s \in Seq(Symbol), NEW op \in EditOperation, op.kind = "replace_block", Solid(op.anchor) # {},
         AppliedMatches(s, op) # 0
  PROVE  LET anchors == Blocks(s, op.anchor)
             below == BlocksBelow(s, anchors[1], op.find)
         IN /\ Solid(op.find) # {} /\ Len(anchors) = 1 /\ below # <<>>
            /\ applyCommand(s, op).text = ReplaceBlocks(s, <<below[1]>>, op.replace)
<1>. DEFINE anchors == Blocks(s, op.anchor)
            below == [a \in ToSet(anchors) |-> BlocksBelow(s, a, op.find)]
            b == BlocksToReplace(s, op)
            one == BlocksBelow(s, anchors[1], op.find)
<1>1. op.anchor \in Seq(Symbol) /\ {NL, Blank} \subseteq Symbol
  BY Marks DEF EditOperation
<1>2. AppliedMatches(s, op) = BlockMatches(s, op) /\ op.find # <<>>
  BY Zenon DEF AppliedMatches, Refused
<1>3. Solid(op.find) # {}
  BY <1>2 DEF BlockMatches
<1>4. Len(anchors) = 1 /\ \E a \in ToSet(anchors) : BlocksBelow(s, a, op.find) # <<>>
  BY <1>2, <1>3 DEF BlockMatches
<1>5. b = IF Solid(op.anchor) = {} THEN Blocks(s, op.find)
          ELSE IF anchors = <<>> \/ below[anchors[1]] = <<>> THEN <<>>
          ELSE <<below[anchors[1]][1]>>
  BY Zenon DEF BlocksToReplace
<1>6. applyCommand(s, op) = Change(ReplaceBlocks(s, b, op.replace), Len(b))
  BY <1>2, <1>3, BlockApplied, Zenon
<1>7. anchors \in Seq(BlockMatch(Len(s)))
  BY <1>1, BlocksTyped
<1>. HIDE DEF anchors, b
<1>8. DOMAIN anchors = {1} /\ ToSet(anchors) = {anchors[1]}
  <2>1. DOMAIN anchors = {1}
    BY <1>4, <1>7
  <2>. QED  BY <2>1 DEF ToSet
<1>9. anchors # <<>>
  <2>1. Len(anchors) = 1
    BY <1>4
  <2>. QED  BY ONLY <2>1
<1>10. below[anchors[1]] = one
  BY <1>8
<1>11. one # <<>>
  BY <1>4, <1>8
<1>. HIDE DEF below, one
<1>12. b = <<one[1]>>
  BY <1>5, <1>9, <1>10, <1>11, Zenon
<1>13. applyCommand(s, op).text = ReplaceBlocks(s, b, op.replace)
  BY <1>6 DEF Change
<1>. QED  BY <1>3, <1>4, <1>11, <1>12, <1>13 DEF one, anchors

(* The rest of the rest of a text.                                         *)
LEMMA RestOfRest ==
  ASSUME NEW X, NEW s \in Seq(X), NEW a \in 1..Len(s)+1, NEW b \in 1..Len(s)-a+2
  PROVE  SubSeq(SubSeq(s, a, Len(s)), b, Len(s)-a+1) = SubSeq(s, b+a-1, Len(s))
<1>. DEFINE N == Len(s)  r == SubSeq(s, a, N)  L == N-a+1  u == SubSeq(r, b, L)  v == SubSeq(s, b+a-1, N)
<1>1. /\ N \in Nat /\ a \in Nat \ {0} /\ N <= Len(s) /\ a <= N+1 /\ L \in Nat
      /\ b \in Nat \ {0} /\ b <= L+1 /\ b+a-1 \in Nat \ {0} /\ b+a-1 <= N+1
  OBVIOUS
<1>2. r \in Seq(X) /\ Len(r) = L /\ \A j \in 1..L : r[j] = s[a+j-1]
  BY <1>1, RunIs
<1>3. v \in Seq(X) /\ Len(v) = N-(b+a-1)+1 /\ \A j \in 1..N-(b+a-1)+1 : v[j] = s[(b+a-1)+j-1]
  BY <1>1, RunIs
<1>. HIDE DEF r
<1>4. u \in Seq(X) /\ Len(u) = L-b+1 /\ \A j \in 1..L-b+1 : u[j] = r[b+j-1]
  <2>1. L <= Len(r)
    BY <1>1, <1>2
  <2>. QED  BY <1>1, <1>2, <2>1, RunIs
<1>5. \A j \in 1..L-b+1 : b+j-1 \in 1..L /\ a+(b+j-1)-1 = (b+a-1)+j-1
  BY <1>1
<1>6. L-b+1 = N-(b+a-1)+1
  BY <1>1
<1>. HIDE DEF u, v, L, N
<1>7. \A j \in 1..L-b+1 : u[j] = v[j]
  <2>. SUFFICES ASSUME NEW j \in 1..L-b+1 PROVE u[j] = v[j]
    OBVIOUS
  <2>1. r[b+j-1] = s[a+(b+j-1)-1]
    BY <1>2, <1>5
  <2>2. v[j] = s[(b+a-1)+j-1]
    BY <1>3, <1>6
  <2>. QED  BY <1>4, <1>5, <2>1, <2>2
<1>8. u = v
  BY <1>3, <1>4, <1>6, <1>7, SeqEqual
<1>. QED  BY <1>8 DEF u, v, r, L, N

(* What an anchored edit must be.                                          *)
RightBelow(d) ==
  LET anchors == BlockOccurrences(d.before, d.op.anchor)
  IN \E a \in anchors :
       LET rest == SubSeq(d.before, a.to, Len(d.before))
       IN /\ \A b \in anchors : a = b \/ ~Apart({a, b})
          /\ IsPrefix(Prefix(d.before, a.to - 1), d.after)
          /\ \E m \in BlockOccurrences(rest, d.op.find) :
               /\ \A n \in BlockOccurrences(rest, d.op.find) : m.to <= n.to
               /\ IsSuffix(SubSeq(rest, m.to, Len(rest)), d.after)

(* It is.                                                                  *)
LEMMA AnchoredIsRight ==
  ASSUME NEW d, AnchoredBlock(d), d.op \in EditOperation, d.before \in Seq(Symbol),
         d.applied = AppliedMatches(d.before, d.op), d.applied # 0,
         d.after = applyCommand(d.before, d.op).text
  PROVE  RightBelow(d)
<1>. DEFINE s == d.before  op == d.op  N == Len(s)
            A == BlockOccurrences(s, op.anchor)
            x == Blocks(s, op.anchor)[1]
            rest == SubSeq(s, x.to, Len(s))
            F == Blocks(rest, op.find)  O == BlockOccurrences(rest, op.find)
            y == F[1]
            moved(f) == [from |-> f.from + x.to - 1, line |-> f.line + x.to - 1,
                         body |-> f.body + x.to - 1, to |-> f.to + x.to - 1]
            m == moved(y)
<1>0. /\ op \in EditOperation /\ op.kind = "replace_block" /\ Solid(op.anchor) # {}
      /\ op.anchor \in Seq(Symbol) /\ op.find \in Seq(Symbol) /\ op.replace \in Seq(Symbol)
      /\ s \in Seq(Symbol) /\ AppliedMatches(s, op) # 0
  BY DEF AnchoredBlock, EditOperation
<1>1. /\ Solid(op.find) # {} /\ Len(Blocks(s, op.anchor)) = 1 /\ BlocksBelow(s, x, op.find) # <<>>
      /\ d.after = ReplaceBlocks(s, <<BlocksBelow(s, x, op.find)[1]>>, op.replace)
  BY <1>0, AnchoredReplaces
<1>2. FoundIn(s, A, Blocks(s, op.anchor), Sunken(op.anchor))
  BY <1>0, BlocksFind
<1>. HIDE DEF s, op
<1>3. DOMAIN Blocks(s, op.anchor) = {1} /\ x \in BlockMatch(N)
  <2>1. Blocks(s, op.anchor) \in Seq(BlockMatch(N))
    BY <1>2 DEF FoundIn
  <2>. QED  BY <1>1, <2>1
<1>4. EndsPlace(s, A, x, Sunken(op.anchor)) /\ \A o \in A : ReachesInto(s, x, o)
  BY <1>2, <1>3 DEF FoundIn
<1>5. PICK p : [from |-> p, to |-> x.to] \in A
  BY <1>4 DEF EndsPlace
<1>6. x.to \in 1..N+1 /\ N \in Nat
  BY <1>0, <1>3 DEF BlockMatch
<1>7. rest \in Seq(Symbol) /\ Len(rest) = N - x.to + 1
  BY <1>0, <1>6, RestTyped
<1>8. BlocksBelow(s, x, op.find) = [i \in DOMAIN F |-> moved(F[i])]
  BY Zenon DEF BlocksBelow
<1>. HIDE DEF rest
<1>9. FoundIn(rest, O, F, Sunken(op.find))
  BY <1>0, <1>1, <1>7, BlocksFind
<1>. HIDE DEF F, O, moved
<1>10. /\ F \in Seq(BlockMatch(Len(rest))) /\ Rising(F)
       /\ \A k \in DOMAIN F : F[k].from < F[k].to /\ EndsPlace(rest, O, F[k], Sunken(op.find))
       /\ \A o \in O : \E k \in DOMAIN F : ReachesInto(rest, F[k], o)
  BY <1>9 DEF FoundIn
<1>11. 1 \in DOMAIN F
  <2>1. F # <<>>
    <3>1. F = <<>> => DOMAIN F = {}
      OBVIOUS
    <3>2. DOMAIN F = {} => [i \in DOMAIN F |-> moved(F[i])] = <<>>
      OBVIOUS
    <3>. QED  BY <1>1, <1>8, <3>1, <3>2
  <2>. QED  BY <1>10, <2>1
<1>12. BlocksBelow(s, x, op.find)[1] = m
  BY <1>8, <1>11
<1>13. y \in BlockMatch(Len(rest)) /\ y.from < y.to /\ EndsPlace(rest, O, y, Sunken(op.find))
  BY <1>10, <1>11
<1>14. y.from \in Nat \ {0} /\ y.to \in 1..Len(rest)+1
  BY <1>7, <1>13 DEF BlockMatch
<1>15. m \in BlockMatch(N) /\ m.from = y.from + x.to - 1 /\ m.to = y.to + x.to - 1
  <2>1. \A k \in 1..Len(rest)+1 : k + x.to - 1 \in 1..N+1
    BY <1>6, <1>7
  <2>2. y.from \in 1..Len(rest)+1 /\ y.line \in 1..Len(rest)+1 /\ y.body \in 1..Len(rest)+1 /\ y.to \in 1..Len(rest)+1
    BY <1>13 DEF BlockMatch
  <2>. HIDE DEF y
  <2>. QED  BY <2>1, <2>2 DEF BlockMatch, moved
<1>. HIDE DEF m
<1>16. d.after \in Seq(Symbol) /\ Around(s, m.from, m.to, d.after)
  <2>1. d.after = ReplaceBlocks(s, <<m>>, op.replace)
    BY <1>1, <1>12
  <2>. QED  BY <1>0, <1>15, <2>1, ReplaceOne
<1>. HIDE DEF x, y
<1>17. PICK q : [from |-> q, to |-> y.to] \in O
  BY <1>13 DEF EndsPlace
<1>. DEFINE a == [from |-> p, to |-> x.to]  w == [from |-> q, to |-> y.to]
<1>18. \A b \in A : a = b \/ ~Apart({a, b})
  <2>. SUFFICES ASSUME NEW b \in A, a # b, Apart({a, b}) PROVE FALSE
    OBVIOUS
  <2>1. a \in A /\ ReachesInto(s, x, a) /\ ReachesInto(s, x, b)
    BY <1>4, <1>5
  <2>2. a.to <= b.from \/ b.to <= a.from
    BY DEF Apart
  <2>. HIDE DEF a
  <2>3. ~(a.to <= b.from) /\ ~(b.to <= a.from)
    BY <1>0, <1>3, <2>1, ReachesOne
  <2>. QED  BY <2>2, <2>3
<1>19. IsPrefix(Prefix(s, x.to - 1), d.after)
  <2>1. m.from \in 1..Len(s)+1 /\ m.to \in 1..Len(s)+1
    BY <1>15 DEF BlockMatch
  <2>2. x.to - 1 \in 0..m.from-1
    BY <1>6, <1>14, <1>15
  <2>. HIDE DEF N
  <2>. QED  BY <1>0, <1>16, <2>1, <2>2, FrontStays
<1>20. \A n \in O : y.to <= n.to
  <2>. SUFFICES ASSUME NEW n \in O PROVE y.to <= n.to
    OBVIOUS
  <2>1. PICK k \in DOMAIN F : ReachesInto(rest, F[k], n)
    BY <1>10
  <2>2. F[k].to <= n.to
    BY <2>1 DEF ReachesInto
  <2>3. k \in Nat /\ k >= 1
    BY <1>10
  <2>4. CASE k = 1
    BY <2>2, <2>4 DEF y
  <2>5. CASE k > 1
    <3>1. F[1].to <= F[k].from
      BY <1>10, <1>11, <2>5 DEF Rising
    <3>2. F[k] \in BlockMatch(Len(rest)) /\ F[k].from < F[k].to
      BY <1>10
    <3>3. F[k].from \in Nat /\ F[k].to \in Nat
      BY <1>7, <3>2 DEF BlockMatch
    <3>4. n.to \in Nat
      <4>1. n.to \in n.from+1..Len(rest)+1 /\ n.from \in 1..Len(rest)
        BY <1>0, <1>1, <1>7, OccurrencesFit DEF O
      <4>. QED  BY <1>7, <4>1
    <3>. QED  BY <1>14, <2>2, <3>1, <3>2, <3>3, <3>4 DEF y
  <2>. QED  BY <2>3, <2>4, <2>5
<1>21. SubSeq(rest, y.to, Len(rest)) = SubSeq(s, m.to, Len(s))
  <2>1. y.to \in 1..Len(s)-x.to+2
    BY <1>6, <1>7, <1>14
  <2>2. SubSeq(SubSeq(s, x.to, Len(s)), y.to, Len(s)-x.to+1) = SubSeq(s, y.to+x.to-1, Len(s))
    BY <1>0, <1>6, <2>1, RestOfRest
  <2>. QED  BY <1>7, <1>15, <2>2 DEF rest
<1>22. IsSuffix(SubSeq(rest, y.to, Len(rest)), d.after)
  BY <1>16, <1>21, Zenon DEF Around
<1>23. rest = SubSeq(s, a.to, Len(s)) /\ a.to = x.to /\ w.to = y.to
  BY DEF rest
<1>24. a \in A /\ w \in O
  BY <1>5, <1>17
<1>. HIDE DEF a, w, A
<1>25. /\ IsPrefix(Prefix(s, a.to - 1), d.after)
       /\ \A n \in O : w.to <= n.to
       /\ IsSuffix(SubSeq(rest, w.to, Len(rest)), d.after)
  BY <1>19, <1>20, <1>22, <1>23
<1>26. O = BlockOccurrences(SubSeq(s, a.to, Len(s)), op.find)
  BY <1>23 DEF O
<1>. HIDE DEF rest, O
<1>. QED  BY <1>18, <1>23, <1>24, <1>25, <1>26, Zenon DEF RightBelow, A, s, op

(* Without an anchor every place counts, with one the first block below it *)
(* is replaced (edit.go:292-360, main.go:320-338): of every finished       *)
(* operation.                                                              *)
THEOREM PlacesRight == EditSpec => []RightPlaces
<1>1. EditIInv /\ History => RightPlaces
  <2>. SUFFICES ASSUME EditIInv, History, NEW d \in Done
                PROVE  (FreeBlock(d) => EveryPlaceCounts(d)) /\ (AnchoredBlock(d) => RightBelow(d))
    <3>1. (\A e \in Done : FreeBlock(e) => EveryPlaceCounts(e)) => NoBlockIsForgotten
      BY Zenon DEF NoBlockIsForgotten
    <3>2. (\A e \in Done : AnchoredBlock(e) => RightBelow(e)) => BelowItsAnchor
      BY Zenon DEF BelowItsAnchor, RightBelow
    <3>. QED  BY <3>1, <3>2 DEF RightPlaces
  <2>1. Finished(d)
    BY DoneIsFinished
  <2>7. FreeBlock(d) => EveryPlaceCounts(d)
    BY <2>1, FreeBlockCounts, Zenon DEF Finished
  <2>8. AnchoredBlock(d) => RightBelow(d)
    BY <2>1, AnchoredIsRight, Zenon DEF Finished
  <2>. QED  BY <2>7, <2>8
<1>. QED  BY <1>1, EditHistory, PTL

-----------------------------------------------------------------------------
(* A finished edit without an anchor that replaced one block: what was     *)
(* found, and what was written.                                            *)
LEMMA FreeBlockWrites ==
  ASSUME NEW d, FreeBlock(d), d.op \in EditOperation, d.before \in Seq(Symbol),
         d.applied = AppliedMatches(d.before, d.op), d.applied = 1,
         d.after = applyCommand(d.before, d.op).text
  PROVE  LET x == Blocks(d.before, d.op.find)[1]
         IN /\ Solid(d.op.find) # {} /\ x \in BlockMatch(Len(d.before))
            /\ EndsPlace(d.before, BlockOccurrences(d.before, d.op.find), x, Sunken(d.op.find))
            /\ x.from <= x.line /\ Aligned(d.before, x, d.op.replace) \in Seq(Symbol)
            /\ d.after = (SubSeq(d.before, 1, x.line-1) \o Aligned(d.before, x, d.op.replace))
                           \o SubSeq(d.before, x.to, Len(d.before))
<1>. DEFINE s == d.before  op == d.op  ms == Blocks(s, op.find)  x == ms[1]
            O == BlockOccurrences(s, op.find)
<1>1. /\ op.kind = "replace_block" /\ Solid(op.anchor) = {}
      /\ op.find \in Seq(Symbol) /\ op.replace \in Seq(Symbol)
  BY DEF FreeBlock, EditOperation
<1>2. d.applied = BlockMatches(s, op) /\ op.find # <<>>
  <2>1. d.applied # 0
    OBVIOUS
  <2>2. d.applied = BlockMatches(s, op)
    BY <1>1, <2>1, Zenon DEF AppliedMatches
  <2>3. op.find # <<>>
    BY <2>1, Zenon DEF AppliedMatches, Refused
  <2>. QED  BY <2>2, <2>3
<1>3. Solid(op.find) # {}
  BY <1>2 DEF BlockMatches
<1>4. BlockMatches(s, op) = Accepted(Len(ms), op)
  BY <1>1, <1>3, Zenon DEF BlockMatches
<1>5. Len(ms) = 1
  <2>1. Accepted(Len(ms), op) = 1
    BY <1>2, <1>4
  <2>2. Accepted(Len(ms), op) = Len(ms) \/ Accepted(Len(ms), op) = 0
    BY DEF Accepted
  <2>. QED  BY <2>1, <2>2
<1>6. applyCommand(s, op) = Change(ReplaceBlocks(s, ms, op.replace), Len(ms))
  <2>1. BlocksToReplace(s, op) = ms
    BY <1>1, Zenon DEF BlocksToReplace
  <2>. QED  BY <1>1, <1>2, <1>3, <2>1, BlockApplied, Zenon
<1>7. FoundIn(s, O, ms, Sunken(op.find))
  BY <1>1, <1>3, BlocksFind
<1>. HIDE DEF ms, O
<1>8. ms \in Seq(BlockMatch(Len(s))) /\ \A k \in DOMAIN ms : EndsPlace(s, O, ms[k], Sunken(op.find))
  BY <1>7 DEF FoundIn
<1>9. DOMAIN ms = {1} /\ ms = <<x>> /\ x \in BlockMatch(Len(s))
  <2>. DEFINE B == BlockMatch(Len(s))  o == <<x>>
  <2>. HIDE DEF B
  <2>1. ms \in Seq(B) /\ Len(ms) = 1
    BY <1>5, <1>8 DEF B
  <2>2. DOMAIN ms = {1} /\ x \in B
    <3>1. DOMAIN ms = 1..1 /\ 1 \in DOMAIN ms
      BY <2>1
    <3>2. ms[1] \in B
      <4>1. 1 \in 1..Len(ms)
        BY <2>1
      <4>. QED  BY ONLY <2>1, <4>1, ElementOfSeq
    <3>. QED  BY <3>1, <3>2
  <2>. HIDE DEF x
  <2>3. o \in Seq(B) /\ Len(o) = 1 /\ o[1] = x
    BY <2>2
  <2>. HIDE DEF o
  <2>4. ms[1] = x
    BY DEF x
  <2>5. \A k \in 1..1 : ms[k] = o[k]
    BY <2>3, <2>4
  <2>6. ms = o
    BY <2>1, <2>3, <2>5, SeqEqual
  <2>. QED  BY <2>2, <2>6 DEF o, B
<1>10. EndsPlace(s, O, x, Sunken(op.find))
  BY <1>8, <1>9
<1>11. x.from <= x.line
  BY <1>10 DEF EndsPlace, GoesOnAt
<1>12. d.after = ReplaceBlocks(s, ms, op.replace)
  BY <1>6 DEF Change
<1>. HIDE DEF x, s
<1>13. /\ Aligned(s, x, op.replace) \in Seq(Symbol)
       /\ ReplaceBlocks(s, <<x>>, op.replace) =
               (SubSeq(s, 1, x.line-1) \o Aligned(s, x, op.replace)) \o SubSeq(s, x.to, Len(s))
  BY <1>1, <1>9, <1>11, ReplaceOne DEF s
<1>14. d.after = (SubSeq(s, 1, x.line-1) \o Aligned(s, x, op.replace)) \o SubSeq(s, x.to, Len(s))
  BY <1>9, <1>12, <1>13
<1>. QED  BY <1>3, <1>9, <1>10, <1>11, <1>13, <1>14, Zenon DEF s, ms, x, O

(* Its white space is all that goes with a block.                          *)
LEMMA BlockStaysInPlace ==
  ASSUME NEW d, FreeBlock(d), d.op \in EditOperation, d.before \in Seq(Symbol),
         d.applied = AppliedMatches(d.before, d.op), d.applied = 1,
         d.after = applyCommand(d.before, d.op).text
  PROVE  OnlyItsPlace(d, IF Sunken(d.op.find) THEN White ELSE {Blank})
<1>. DEFINE s == d.before  op == d.op  x == Blocks(s, op.find)[1]  O == BlockOccurrences(s, op.find)
            sunk == Sunken(op.find)  loose == IF sunk THEN White ELSE {Blank}
            kept == SubSeq(s, x.to, Len(s))  n == x.line - 1
<1>1. /\ Solid(op.find) # {} /\ x \in BlockMatch(Len(s)) /\ EndsPlace(s, O, x, sunk)
      /\ x.from <= x.line /\ Aligned(s, x, op.replace) \in Seq(Symbol)
      /\ d.after = (SubSeq(s, 1, x.line-1) \o Aligned(s, x, op.replace)) \o SubSeq(s, x.to, Len(s))
  BY FreeBlockWrites
<1>2. Meant(d) = O
  <2>1. op.kind = "replace_block"
    BY DEF FreeBlock
  <2>2. op.kind # "replace" /\ op.kind # "replace_suffix"
    BY <2>1
  <2>. QED  BY <2>2, Zenon DEF Meant
<1>. HIDE DEF s, x, O, sunk
<1>3. x.line \in 1..Len(s)+1 /\ x.to \in 1..Len(s)+1 /\ x.from \in Nat /\ x.body \in Nat /\ Len(s) \in Nat
  BY <1>1 DEF BlockMatch, s
<1>4. Around(s, x.line, x.to, d.after)
  BY <1>1, <1>3, PiecesStay DEF s
<1>5. PICK f \in Nat : [from |-> f, to |-> x.to] \in O /\ GoesOnAt(s, x, f, sunk)
  BY <1>1 DEF EndsPlace
<1>. DEFINE m == [from |-> f, to |-> x.to]
<1>6. IsSuffix(kept, d.after) /\ n <= Len(d.after) - Len(kept) /\ SubSeq(s, 1, n) = SubSeq(d.after, 1, n)
  BY <1>4, Zenon DEF Around
<1>7. /\ EndOfWhite(s, x.from, f) /\ x.from <= x.line /\ x.line <= x.body /\ x.body <= f
      /\ (\A j \in x.line..x.body-1 : s[j] = Blank) /\ (sunk \/ x.body = f)
  BY <1>5 DEF GoesOnAt
<1>8. n \in 0..f-1
  BY <1>3, <1>7
<1>9. \A j \in n+1..f-1 : s[j] \in loose
  <2>1. n+1 = x.line
    BY <1>3
  <2>2. CASE sunk
    <3>1. \A j \in x.line..f-1 : j \in x.from..f-1
      BY <1>3, <1>7
    <3>. QED  BY <1>7, <2>1, <2>2, <3>1 DEF EndOfWhite
  <2>3. CASE ~sunk
    BY <1>7, <2>1, <2>3
  <2>. QED  BY <2>2, <2>3
<1>10. Prefix(s, n) = Prefix(d.after, n)
  BY <1>6 DEF Prefix
<1>11. m.from = f /\ m.to = x.to /\ m \in O
  BY <1>5
<1>. HIDE DEF m, n, loose
<1>12. \E p \in 0..m.from-1 : /\ p <= Len(d.after) - Len(kept) /\ Prefix(s, p) = Prefix(d.after, p)
                              /\ \A j \in p+1..m.from-1 : s[j] \in loose
  BY <1>6, <1>8, <1>9, <1>10, <1>11
<1>13. kept = SubSeq(s, m.to, Len(s))
  BY <1>11
<1>. HIDE DEF kept
<1>. QED  BY <1>2, <1>6, <1>11, <1>12, <1>13, Zenon DEF OnlyItsPlace, loose, sunk, op, s

-----------------------------------------------------------------------------
(* Where a word begins or ends.                                            *)
LEMMA BoundaryIs ==
  ASSUME NEW s, NEW i
  PROVE  WordBoundary(s, i) <=> (IsWord(s, i-1) /\ ~IsWord(s, i)) \/ (~IsWord(s, i-1) /\ IsWord(s, i))
<1>1. IsWord(s, i-1) \in BOOLEAN /\ IsWord(s, i) \in BOOLEAN
  BY DEF IsWord
<1>2. \A a, b \in BOOLEAN : (a # b) <=> ((a /\ ~b) \/ (~a /\ b))
  OBVIOUS
<1>. QED  BY <1>1, <1>2, Zenon DEF WordBoundary

(* A name that fits at a place, as a word.                                 *)
FitsAsWord(s, name, i) == OccursAt(s, name, i) /\ WordBoundary(s, i) /\ WordBoundary(s, i + Len(name))

NameFound(name, k, i) == [from |-> i, to |-> i + Len(name), name |-> k]

(* The first name that fits is found.                                      *)
LEMMA NameAtIs ==
  ASSUME NEW s, NEW i, NEW names
  PROVE  NameAt(s, i, names) = IF FitsAsWord(s, names[1], i) THEN NameFound(names[1], 1, i)
                               ELSE IF FitsAsWord(s, names[2], i) THEN NameFound(names[2], 2, i)
                               ELSE NoMatch
<1>. DEFINE fits == {k \in 1..2 : /\ OccursAt(s, names[k], i)
                                  /\ WordBoundary(s, i)
                                  /\ WordBoundary(s, i + Len(names[k]))}
            f == Min(fits)
<1>1. NameAt(s, i, names) = IF fits = {} THEN NoMatch ELSE [from |-> i, to |-> i + Len(names[f]), name |-> f]
  BY Zenon DEF NameAt
<1>2. \A k \in 1..2 : k \in fits <=> FitsAsWord(s, names[k], i)
  BY DEF FitsAsWord
<1>3. fits \in SUBSET (1..2) /\ 2 \in Nat
  OBVIOUS
<1>. HIDE DEF fits
<1>4. fits # {} => f \in fits /\ \A k \in fits : f <= k
  BY <1>3, PlacesHaveEnds
<1>. HIDE DEF f
<1>k. fits # {} => f = 1 \/ f = 2
  <2>1. \A k \in fits : k = 1 \/ k = 2
    BY <1>3
  <2>. QED  BY <1>4, <2>1
<1>5. 1 \in fits => f = 1
  <2>. SUFFICES ASSUME 1 \in fits PROVE f = 1
    OBVIOUS
  <2>1. fits # {}
    OBVIOUS
  <2>2. f <= 1 /\ (f = 1 \/ f = 2)
    BY <1>4, <1>k, <2>1
  <2>. QED  BY <2>2
<1>6. 1 \notin fits /\ 2 \in fits => f = 2
  <2>. SUFFICES ASSUME 1 \notin fits, 2 \in fits PROVE f = 2
    OBVIOUS
  <2>1. fits # {}
    OBVIOUS
  <2>2. f \in fits /\ (f = 1 \/ f = 2)
    BY <1>4, <1>k, <2>1
  <2>. QED  BY <2>2
<1>7. 1 \notin fits /\ 2 \notin fits => fits = {}
  BY <1>3
<1>. HIDE DEF NoMatch
<1>8. (1 \in fits <=> FitsAsWord(s, names[1], i)) /\ (2 \in fits <=> FitsAsWord(s, names[2], i))
  BY <1>2
<1>. QED  BY <1>1, <1>5, <1>6, <1>7, <1>8, Zenon DEF NameFound

(* Words, texts that do not end in the middle of one, and two names that    *)
(* are words.                                                              *)
Word(w) == w \in Seq(Symbol) /\ \A j \in 1..Len(w) : w[j] \in WordSymbols
Closed(u) == u = <<>> \/ u[Len(u)] \notin WordSymbols
TwoNames(names) ==
  /\ Word(names[1]) /\ Word(names[2])
  /\ names[1] # <<>> /\ names[2] # <<>> /\ names[1] # names[2]

(* A symbol that is no letter changes nothing.                             *)
LEMMA FitsBefore ==
  ASSUME NEW u \in Seq(Symbol), NEW c \in Symbol, c \notin WordSymbols,
         NEW name, Word(name), name # <<>>
  PROVE  /\ \A i \in 1..Len(u) : FitsAsWord(Append(u, c), name, i) <=> FitsAsWord(u, name, i)
         /\ ~FitsAsWord(Append(u, c), name, Len(u)+1)
<1>. DEFINE r == Append(u, c)  n == Len(u)  l == Len(name)
<1>1. /\ n \in Nat /\ DOMAIN u = 1..n /\ DOMAIN r = 1..n+1 /\ Len(r) = n+1
      /\ r[n+1] = c /\ \A j \in 1..n : r[j] = u[j]
  OBVIOUS
<1>2. l \in Nat \ {0} /\ DOMAIN name = 1..l /\ 1 \in 1..l /\ l \in 1..l /\ \A j \in 1..l : name[j] \in WordSymbols
  BY DEF Word
<1>. HIDE DEF r, n, l
<1>3. \A x \in Nat : IsWord(r, x) <=> IsWord(u, x)
  <2>. SUFFICES ASSUME NEW x \in Nat PROVE IsWord(r, x) <=> IsWord(u, x)
    OBVIOUS
  <2>1. CASE x = n+1
    <3>1. x \notin DOMAIN u
      BY <1>1, <2>1
    <3>. QED  BY <1>1, <2>1, <3>1 DEF IsWord
  <2>2. CASE x # n+1
    <3>1. x \in 1..n+1 <=> x \in 1..n
      BY <1>1, <2>2
    <3>. QED  BY <1>1, <3>1 DEF IsWord
  <2>. QED  BY <2>1, <2>2
<1>4. \A x \in Nat \ {0} : WordBoundary(r, x) <=> WordBoundary(u, x)
  <2>1. \A x \in Nat \ {0} : x-1 \in Nat /\ x \in Nat
    OBVIOUS
  <2>. QED  BY <1>3, <2>1, BoundaryIs
<1>5. ASSUME NEW i \in 1..n PROVE FitsAsWord(r, name, i) <=> FitsAsWord(u, name, i)
  <2>1. i \in Nat \ {0} /\ i+l \in Nat \ {0} /\ \A j \in 1..l : i+j-1 \in 1..i+l-1
    BY <1>1, <1>2
  <2>2. OccursAt(r, name, i) => i+l-1 <= n
    <3>. SUFFICES ASSUME OccursAt(r, name, i), ~(i+l-1 <= n) PROVE FALSE
      OBVIOUS
    <3>1. i+l-1 <= n+1 /\ r[i+l-1] = name[l]
      BY <1>1, <1>2 DEF OccursAt, l
    <3>2. i+l-1 = n+1
      BY <1>1, <1>2, <3>1
    <3>. QED  BY <1>1, <1>2, <3>1, <3>2
  <2>3. i+l-1 <= n => \A j \in 1..l : r[i+j-1] = u[i+j-1]
    <3>. SUFFICES ASSUME i+l-1 <= n, NEW j \in 1..l PROVE r[i+j-1] = u[i+j-1]
      OBVIOUS
    <3>1. i+j-1 \in 1..n
      BY <1>1, <1>2
    <3>. QED  BY <1>1, <3>1
  <2>4. i+l-1 <= n => i+l-1 <= n+1
    BY <1>1, <1>2
  <2>5. OccursAt(r, name, i) <=> OccursAt(u, name, i)
    <3>1. OccursAt(r, name, i) <=> i+l-1 <= n+1 /\ \A j \in 1..l : r[i+j-1] = name[j]
      BY <1>1, <1>2 DEF OccursAt, l
    <3>2. OccursAt(u, name, i) <=> i+l-1 <= n /\ \A j \in 1..l : u[i+j-1] = name[j]
      BY <1>1, <1>2 DEF OccursAt, l, n
    <3>. QED  BY <2>2, <2>3, <2>4, <3>1, <3>2
  <2>. QED  BY <1>4, <2>1, <2>5 DEF FitsAsWord, l
<1>6. ~FitsAsWord(r, name, n+1)
  <2>. SUFFICES ASSUME OccursAt(r, name, n+1) PROVE FALSE
    BY DEF FitsAsWord
  <2>1. (n+1)+1-1 = n+1
    BY <1>1
  <2>2. r[(n+1)+1-1] = name[1]
    BY <1>2 DEF OccursAt
  <2>. QED  BY <1>1, <1>2, <2>1, <2>2
<1>. QED  BY <1>5, <1>6 DEF r, n

(* Behind a text that is closed, a name fits where a word begins if it is  *)
(* the word, nowhere inside the word, and before it as it did.             *)
LEMMA FitsWord ==
  ASSUME NEW u \in Seq(Symbol), Closed(u), NEW w, Word(w), w # <<>>,
         NEW name, Word(name), name # <<>>
  PROVE  /\ \A i \in 1..Len(u) : FitsAsWord(u \o w, name, i) <=> FitsAsWord(u, name, i)
         /\ FitsAsWord(u \o w, name, Len(u)+1) <=> name = w
         /\ \A i \in Len(u)+2..Len(u)+Len(w) : ~FitsAsWord(u \o w, name, i)
<1>. DEFINE r == u \o w  n == Len(u)  l == Len(name)  h == Len(w)
<1>0. w \in Seq(Symbol) /\ name \in Seq(Symbol)
  BY DEF Word
<1>1. /\ n \in Nat /\ DOMAIN u = 1..n /\ h \in Nat \ {0}
  BY <1>0
<1>2. l \in Nat \ {0} /\ DOMAIN name = 1..l /\ 1 \in 1..l /\ l \in 1..l /\ \A j \in 1..l : name[j] \in WordSymbols
  BY DEF Word
<1>3. r \in Seq(Symbol) /\ Len(r) = n+h /\ (\A j \in 1..n : r[j] = u[j]) /\ \A j \in 1..h : r[n+j] = w[j]
  BY <1>0, OneAndOther
<1>4. DOMAIN r = 1..n+h
  BY <1>3
<1>5. \A j \in 1..h : w[j] \in WordSymbols
  BY DEF Word
<1>6. n # 0 => u[n] \notin WordSymbols
  <2>1. n # 0 => u # <<>>
    OBVIOUS
  <2>. QED  BY <2>1 DEF Closed
<1>. HIDE DEF r, n, l, h
<1>7. \A x \in 0..n : IsWord(r, x) <=> IsWord(u, x)
  <2>1. \A x \in 0..n : x \in 1..n+h <=> x \in 1..n
    BY <1>1
  <2>. QED  BY <1>1, <1>3, <1>4, <2>1 DEF IsWord
<1>8. \A x \in n+1..n+h : IsWord(r, x)
  <2>. SUFFICES ASSUME NEW x \in n+1..n+h PROVE IsWord(r, x)
    OBVIOUS
  <2>1. x-n \in 1..h /\ n+(x-n) = x /\ x \in 1..n+h
    BY <1>1
  <2>2. r[x] = w[x-n]
    BY <1>3, <2>1
  <2>. QED  BY <1>4, <1>5, <2>1, <2>2 DEF IsWord
<1>9. ~IsWord(r, n) /\ ~IsWord(u, n) /\ ~IsWord(r, n+h+1) /\ ~IsWord(u, n+1)
  <2>1. n+h+1 \notin 1..n+h /\ n+1 \notin 1..n /\ n \in 0..n /\ (n \in 1..n => n # 0)
    BY <1>1
  <2>2. ~IsWord(u, n)
    BY <1>1, <1>6, <2>1 DEF IsWord
  <2>. QED  BY <1>1, <1>4, <1>7, <2>1, <2>2 DEF IsWord
<1>10. ASSUME NEW i \in 1..n PROVE FitsAsWord(r, name, i) <=> FitsAsWord(u, name, i)
  <2>1. i+l-1 <= n+h /\ (\A j \in 1..l : r[i+j-1] = name[j]) => i+l-1 < n
    <3>. SUFFICES ASSUME \A j \in 1..l : r[i+j-1] = name[j], ~(i+l-1 < n) PROVE FALSE
      OBVIOUS
    <3>1. n-i+1 \in 1..l /\ i+(n-i+1)-1 = n /\ n # 0 /\ n \in 1..n
      BY <1>1, <1>2
    <3>2. r[n] = name[n-i+1]
      BY <3>1
    <3>. QED  BY <1>2, <1>3, <1>6, <3>1, <3>2
  <2>2. i+l-1 <= n /\ (\A j \in 1..l : u[i+j-1] = name[j]) => i+l-1 < n
    <3>. SUFFICES ASSUME \A j \in 1..l : u[i+j-1] = name[j], ~(i+l-1 < n) PROVE FALSE
      OBVIOUS
    <3>1. n-i+1 \in 1..l /\ i+(n-i+1)-1 = n /\ n # 0 /\ n \in 1..n
      BY <1>1, <1>2
    <3>2. u[n] = name[n-i+1]
      BY <3>1
    <3>. QED  BY <1>2, <1>3, <1>6, <3>1, <3>2
  <2>3. i+l-1 < n => \A j \in 1..l : r[i+j-1] = u[i+j-1]
    <3>. SUFFICES ASSUME i+l-1 < n, NEW j \in 1..l PROVE r[i+j-1] = u[i+j-1]
      OBVIOUS
    <3>1. i+j-1 \in 1..n
      BY <1>1, <1>2
    <3>. QED  BY <1>3, <3>1
  <2>4. OccursAt(r, name, i) <=> i+l-1 <= n+h /\ \A j \in 1..l : r[i+j-1] = name[j]
    BY <1>2, <1>3 DEF OccursAt, l
  <2>5. OccursAt(u, name, i) <=> i+l-1 <= n /\ \A j \in 1..l : u[i+j-1] = name[j]
    BY <1>2 DEF OccursAt, l, n
  <2>6. i+l-1 < n => i+l-1 <= n /\ i+l-1 <= n+h
    BY <1>1, <1>2
  <2>7. (OccursAt(r, name, i) <=> OccursAt(u, name, i)) /\ (OccursAt(u, name, i) => i+l-1 < n)
    BY <2>1, <2>2, <2>3, <2>4, <2>5, <2>6
  <2>8. i \in 0..n /\ i-1 \in 0..n /\ (i+l-1 < n => i+l \in 0..n /\ (i+l)-1 \in 0..n)
    BY <1>1, <1>2
  <2>9. WordBoundary(r, i) <=> WordBoundary(u, i)
    BY <1>7, <2>8, BoundaryIs
  <2>10. i+l-1 < n => (WordBoundary(r, i+l) <=> WordBoundary(u, i+l))
    BY <1>7, <2>8, BoundaryIs
  <2>. QED  BY <2>7, <2>9, <2>10 DEF FitsAsWord, l
<1>11. FitsAsWord(r, name, n+1) <=> name = w
  <2>1. OccursAt(r, name, n+1) <=> (n+1)+l-1 <= n+h /\ \A j \in 1..l : r[(n+1)+j-1] = name[j]
    BY <1>2, <1>3 DEF OccursAt, l
  <2>2. (\A j \in 1..l : (n+1)+j-1 = n+j) /\ ((n+1)+l-1 <= n+h <=> l <= h)
    BY <1>1, <1>2
  <2>3. l <= h => \A j \in 1..l : r[n+j] = w[j]
    <3>1. l <= h => \A j \in 1..l : j \in 1..h
      BY <1>1, <1>2
    <3>. QED  BY <1>3, <3>1
  <2>4. OccursAt(r, name, n+1) <=> l <= h /\ \A j \in 1..l : w[j] = name[j]
    BY <2>1, <2>2, <2>3
  <2>5. WordBoundary(r, n+1)
    <3>1. (n+1)-1 = n /\ n+1 \in n+1..n+h
      BY <1>1
    <3>. QED  BY <1>8, <1>9, <3>1, BoundaryIs
  <2>6. l <= h => (WordBoundary(r, (n+1)+l) <=> l = h)
    <3>. SUFFICES ASSUME l <= h PROVE WordBoundary(r, (n+1)+l) <=> l = h
      OBVIOUS
    <3>1. ((n+1)+l)-1 \in n+1..n+h
      BY <1>1, <1>2
    <3>2. l = h => (n+1)+l = n+h+1
      BY <1>1
    <3>3. l # h => (n+1)+l \in n+1..n+h
      BY <1>1, <1>2
    <3>. QED  BY <1>8, <1>9, <3>1, <3>2, <3>3, BoundaryIs
  <2>7. name = w <=> l = h /\ \A j \in 1..l : w[j] = name[j]
    BY <1>0, SeqEqual DEF l, h
  <2>8. l = h => l <= h
    BY <1>1
  <2>. QED  BY <2>4, <2>5, <2>6, <2>7, <2>8 DEF FitsAsWord, l
<1>12. ASSUME NEW i \in n+2..n+h PROVE ~FitsAsWord(r, name, i)
  <2>1. i \in n+1..n+h /\ i-1 \in n+1..n+h
    BY <1>1
  <2>2. ~WordBoundary(r, i)
    BY <1>8, <2>1, BoundaryIs
  <2>. QED  BY <2>2 DEF FitsAsWord
<1>. QED  BY <1>10, <1>11, <1>12 DEF r, n, h

(* A search that goes on with one place where there may be a match, and    *)
(* nothing behind it.                                                      *)
LEMMA ScanNext ==
  ASSUME NEW M, NEW at \in Seq(M), NEW bt \in Seq(M), NEW n \in Nat, Len(bt) = n, n+1 <= Len(at),
         \A i \in 1..n : at[i] = bt[i], \A i \in n+2..Len(at) : at[i] = NoMatch,
         Within(Scan(bt), n)
  PROVE  Scan(at) = IF at[n+1] = NoMatch THEN Scan(bt) ELSE Append(Scan(bt), at[n+1])
<1>. DEFINE N == Len(at)  a == at[n+1]  p(m) == SubSeq(at, 1, m)
            S == {m \in n+1..N : Scan(p(m)) = Scan(p(n+1))}
<1>1. N \in Nat /\ n+1 \in 1..N /\ a \in M
  OBVIOUS
<1>2. \A m \in 1..N : p(m) \in Seq(M) /\ Len(p(m)) = m /\ \A j \in 1..m : p(m)[j] = at[j]
  <2>. SUFFICES ASSUME NEW m \in 1..N
                PROVE p(m) \in Seq(M) /\ Len(p(m)) = m /\ \A j \in 1..m : p(m)[j] = at[j]
    OBVIOUS
  <2>1. /\ 1 \in Nat \ {0} /\ m \in Nat /\ m <= Len(at) /\ 1 <= m+1 /\ m-1+1 = m
        /\ \A j \in 1..m : 1+j-1 = j
    BY <1>1
  <2>2. p(m) \in Seq(M) /\ Len(p(m)) = m-1+1 /\ \A j \in 1..m-1+1 : p(m)[j] = at[1+j-1]
    BY <2>1, RunIs
  <2>. HIDE DEF p
  <2>. QED  BY <2>1, <2>2
<1>3. \A ms, i : Take(ms, NoMatch, i) = ms
  BY DEF Take
<1>. HIDE DEF a, p, NoMatch
<1>4. p(n+1) = Append(bt, a)
  <2>1. /\ Append(bt, a) \in Seq(M) /\ Len(Append(bt, a)) = n+1
        /\ (\A j \in 1..n : Append(bt, a)[j] = bt[j]) /\ Append(bt, a)[n+1] = a
    BY <1>1, AppendIs
  <2>2. p(n+1) \in Seq(M) /\ Len(p(n+1)) = n+1 /\ \A j \in 1..n+1 : p(n+1)[j] = at[j]
    BY <1>1, <1>2
  <2>3. \A j \in 1..n+1 : j \in 1..n \/ j = n+1
    OBVIOUS
  <2>4. \A j \in 1..n+1 : p(n+1)[j] = Append(bt, a)[j]
    BY <2>1, <2>2, <2>3 DEF a
  <2>. QED  BY <2>1, <2>2, <2>4, SeqEqual
<1>5. Scan(p(n+1)) = Take(Scan(bt), a, n+1)
  <2>1. Scan(Append(bt, a)) = Take(Scan(bt), a, Len(bt)+1)
    BY <1>1, ScanGrows, Zenon
  <2>. QED  BY <1>4, <2>1
<1>6. Take(Scan(bt), a, n+1) = IF a = NoMatch THEN Scan(bt) ELSE Append(Scan(bt), a)
  <2>. DEFINE ms == Scan(bt)  V == M \ {NoMatch}
  <2>1. ms \in Seq(V)
    BY ScanTyped
  <2>2. Within(ms, n)
    OBVIOUS
  <2>. HIDE DEF ms, V
  <2>3. ms = <<>> \/ ms[Len(ms)].to <= n+1
    <3>. SUFFICES ASSUME ms # <<>> PROVE ms[Len(ms)].to <= n+1
      OBVIOUS
    <3>1. Len(ms) \in DOMAIN ms
      BY <2>1
    <3>2. ms[Len(ms)].to \in 1..n+1
      BY <2>2, <3>1 DEF Within
    <3>. QED  BY <3>2
  <2>4. CASE a = NoMatch
    BY <1>3, <2>4
  <2>5. CASE a # NoMatch
    BY <2>3, <2>5 DEF Take, ms
  <2>. QED  BY <2>4, <2>5
<1>7. n+1 \in S
  BY <1>1
<1>8. ASSUME NEW m \in n+1..N-1, m \in S PROVE m+1 \in S
  <2>1. m \in 1..N /\ m+1 \in 1..N /\ m+1 \in n+2..N /\ m+1 \in n+1..N /\ m \in Nat
    BY <1>1
  <2>2. at[m+1] = NoMatch /\ at[m+1] \in M
    BY <2>1
  <2>3. p(m+1) = Append(p(m), NoMatch)
    <3>1. p(m) \in Seq(M) /\ Len(p(m)) = m /\ (\A j \in 1..m : p(m)[j] = at[j]) /\ NoMatch \in M
      BY <1>2, <2>1, <2>2
    <3>2. p(m+1) \in Seq(M) /\ Len(p(m+1)) = m+1 /\ \A j \in 1..m+1 : p(m+1)[j] = at[j]
      BY <1>2, <2>1
    <3>. DEFINE q == Append(p(m), NoMatch)
    <3>3. q \in Seq(M) /\ Len(q) = m+1 /\ (\A j \in 1..m : q[j] = p(m)[j]) /\ q[m+1] = NoMatch
      <4>1. \A v \in Seq(M), x \in M :
              /\ Append(v, x) \in Seq(M) /\ Len(Append(v, x)) = Len(v)+1
              /\ (\A j \in 1..Len(v) : Append(v, x)[j] = v[j]) /\ Append(v, x)[Len(v)+1] = x
        BY AppendIs
      <4>2. q \in Seq(M) /\ Len(q) = Len(p(m))+1 /\ (\A j \in 1..Len(p(m)) : q[j] = p(m)[j]) /\ q[Len(p(m))+1] = NoMatch
        BY <3>1, <4>1, Zenon
      <4>. HIDE DEF q
      <4>. QED  BY <3>1, <4>2
    <3>4. \A j \in 1..m+1 : j \in 1..m \/ j = m+1
      BY <2>1
    <3>. HIDE DEF q
    <3>5. \A j \in 1..m+1 : p(m+1)[j] = q[j]
      BY <2>2, <3>1, <3>2, <3>3, <3>4
    <3>6. p(m+1) = q
      BY <3>2, <3>3, <3>5, SeqEqual
    <3>. QED  BY <3>6 DEF q
  <2>4. Scan(Append(p(m), NoMatch)) = Take(Scan(p(m)), NoMatch, Len(p(m))+1)
    <3>1. p(m) \in Seq(M) /\ NoMatch \in M
      BY <1>2, <2>1, <2>2
    <3>. QED  BY <3>1, ScanGrows, Zenon
  <2>5. Scan(p(m+1)) = Scan(p(m))
    BY <1>3, <2>3, <2>4, Zenon
  <2>. QED  BY <1>8, <2>1, <2>5
<1>9. N \in S
  <2>1. \A m \in n+1..N : m \in S
    <3>. HIDE DEF S
    <3>1. n+1 \in Nat
      OBVIOUS
    <3>. QED  BY ONLY <1>1, <1>7, <1>8, <3>1, Upwards
  <2>. QED  BY <1>1, <2>1
<1>10. p(N) = at
  <2>1. N = 0 \/ N \in 1..N
    BY <1>1
  <2>2. p(N) \in Seq(M) /\ Len(p(N)) = N /\ \A j \in 1..N : p(N)[j] = at[j]
    BY <1>1, <1>2, <2>1
  <2>. QED  BY <2>2, SeqEqual DEF N
<1>. QED  BY <1>5, <1>6, <1>9, <1>10 DEF a

(* What is found of two names.                                             *)
NameSpot == [from : Nat, to : Nat, name : 1..2]
NamesAt(s, names) == [i \in DOMAIN s |-> NameAt(s, i, names)]

(* Names finds spots of the two names, apart from each other.             *)
LEMMA NamesAre ==
  ASSUME NEW s \in Seq(Symbol), NEW names, TwoNames(names)
  PROVE  /\ NamesAt(s, names) \in Seq(NameSpot \cup {NoMatch}) /\ Len(NamesAt(s, names)) = Len(s)
         /\ \A i \in 1..Len(s) : NamesAt(s, names)[i] = NameAt(s, i, names)
         /\ Names(s, names) = Scan(NamesAt(s, names))
         /\ Names(s, names) \in Seq(NameSpot) /\ Within(Names(s, names), Len(s))
<1>. DEFINE at == NamesAt(s, names)  M == NameSpot \cup {NoMatch}
<1>1. DOMAIN s = 1..Len(s) /\ Len(s) \in Nat
  OBVIOUS
<1>2. names[1] \in Seq(Symbol) /\ names[2] \in Seq(Symbol)
  BY DEF TwoNames, Word
<1>3. \A i \in 1..Len(s) : NameAt(s, i, names) \in M
  <2>. SUFFICES ASSUME NEW i \in 1..Len(s) PROVE NameAt(s, i, names) \in M
    OBVIOUS
  <2>1. NameAt(s, i, names) \in NameMatch(Len(s)) \cup {NoMatch}
    BY <1>2, NameAtTyped, Zenon
  <2>2. NameMatch(Len(s)) \subseteq NameSpot
    BY DEF NameMatch, NameSpot
  <2>. QED  BY <2>1, <2>2
<1>4. Names(s, names) \in Seq(NameMatch(Len(s))) /\ Within(Names(s, names), Len(s))
  BY <1>2, NamesTyped, Zenon
<1>5. Names(s, names) \in Seq(NameSpot)
  <2>. DEFINE A == NameMatch(Len(s))  B == NameSpot  ms == Names(s, names)
  <2>1. A \subseteq B /\ ms \in Seq(A)
    BY <1>4 DEF NameMatch, NameSpot
  <2>. HIDE DEF A, B, ms
  <2>2. ms \in Seq(B)
    BY <2>1
  <2>. QED  BY <2>2 DEF B, ms
<1>6. Names(s, names) = Scan(at)
  BY Zenon DEF Names, NamesAt
<1>. HIDE DEF M
<1>7. at \in Seq(M) /\ Len(at) = Len(s) /\ \A i \in 1..Len(s) : at[i] = NameAt(s, i, names)
  BY <1>1, <1>3 DEF NamesAt
<1>. QED  BY <1>4, <1>5, <1>6, <1>7 DEF M

(* Behind a symbol that is no letter nothing more is found.                *)
LEMMA NamesGoOn ==
  ASSUME NEW u \in Seq(Symbol), NEW c \in Symbol, c \notin WordSymbols, NEW names, TwoNames(names)
  PROVE  Names(Append(u, c), names) = Names(u, names)
<1>. DEFINE r == Append(u, c)  at == NamesAt(r, names)  bt == NamesAt(u, names)  n == Len(u)
            M == NameSpot \cup {NoMatch}
<1>1. r \in Seq(Symbol) /\ Len(r) = n+1 /\ n \in Nat
  OBVIOUS
<1>2. /\ \A i \in 1..n : FitsAsWord(r, names[1], i) <=> FitsAsWord(u, names[1], i)
      /\ ~FitsAsWord(r, names[1], n+1)
      /\ \A i \in 1..n : FitsAsWord(r, names[2], i) <=> FitsAsWord(u, names[2], i)
      /\ ~FitsAsWord(r, names[2], n+1)
  BY FitsBefore DEF TwoNames
<1>. HIDE DEF r, n
<1>3. /\ \A i \in 1..n : NameAt(r, i, names) = NameAt(u, i, names)
      /\ NameAt(r, n+1, names) = NoMatch
  <2>. HIDE DEF NoMatch
  <2>. QED  BY <1>2, NameAtIs, Zenon
<1>4. /\ at \in Seq(M) /\ Len(at) = n+1 /\ \A i \in 1..n+1 : at[i] = NameAt(r, i, names)
      /\ Names(r, names) = Scan(at)
  BY <1>1, NamesAre
<1>5. /\ bt \in Seq(M) /\ Len(bt) = n /\ \A i \in 1..n : bt[i] = NameAt(u, i, names)
      /\ Names(u, names) = Scan(bt) /\ Within(Scan(bt), n)
  BY NamesAre DEF n
<1>. HIDE DEF at, bt, M, NoMatch
<1>6. \A i \in 1..n : i \in 1..n+1
  BY <1>1
<1>7. n+1 \in 1..n+1 /\ n+1 <= Len(at) /\ n+2..Len(at) = {}
  BY <1>1, <1>4
<1>8. /\ \A i \in 1..n : at[i] = bt[i]
      /\ \A i \in n+2..Len(at) : at[i] = NoMatch
      /\ at[n+1] = NoMatch
  BY <1>3, <1>4, <1>5, <1>6, <1>7
<1>9. Scan(at) = IF at[n+1] = NoMatch THEN Scan(bt) ELSE Append(Scan(bt), at[n+1])
  BY <1>1, <1>4, <1>5, <1>7, <1>8, ScanNext
<1>. QED  BY <1>4, <1>5, <1>8, <1>9 DEF r

(* Behind a text that is closed a word is found if it is a name.           *)
LEMMA NamesMeet ==
  ASSUME NEW u \in Seq(Symbol), Closed(u), NEW w, Word(w), w # <<>>, NEW names, TwoNames(names)
  PROVE  Names(u \o w, names) = IF w = names[1] THEN Append(Names(u, names), NameFound(w, 1, Len(u)+1))
                                ELSE IF w = names[2] THEN Append(Names(u, names), NameFound(w, 2, Len(u)+1))
                                ELSE Names(u, names)
<1>. DEFINE r == u \o w  at == NamesAt(r, names)  bt == NamesAt(u, names)  n == Len(u)  h == Len(w)
            M == NameSpot \cup {NoMatch}
<1>1. r \in Seq(Symbol) /\ Len(r) = n+h /\ n \in Nat /\ h \in Nat \ {0}
  <2>1. w \in Seq(Symbol)
    BY DEF Word
  <2>. QED  BY <2>1
<1>2. /\ \A i \in 1..n : FitsAsWord(r, names[1], i) <=> FitsAsWord(u, names[1], i)
      /\ FitsAsWord(r, names[1], n+1) <=> names[1] = w
      /\ \A i \in n+2..n+h : ~FitsAsWord(r, names[1], i)
      /\ \A i \in 1..n : FitsAsWord(r, names[2], i) <=> FitsAsWord(u, names[2], i)
      /\ FitsAsWord(r, names[2], n+1) <=> names[2] = w
      /\ \A i \in n+2..n+h : ~FitsAsWord(r, names[2], i)
  BY FitsWord DEF TwoNames
<1>f. \A k, i : NameFound(w, k, i) # NoMatch
  <2>. SUFFICES ASSUME NEW k, NEW i, NameFound(w, k, i) = NoMatch PROVE FALSE
    OBVIOUS
  <2>1. DOMAIN NameFound(w, k, i) = {"from", "to", "name"} /\ DOMAIN NoMatch = {"to"}
    BY DEF NameFound, NoMatch
  <2>2. "from" # "to"
    OBVIOUS
  <2>. QED  BY <2>1, <2>2
<1>. HIDE DEF r, n, h
<1>3. /\ \A i \in 1..n : NameAt(r, i, names) = NameAt(u, i, names)
      /\ NameAt(r, n+1, names) = IF w = names[1] THEN NameFound(w, 1, n+1)
                                 ELSE IF w = names[2] THEN NameFound(w, 2, n+1) ELSE NoMatch
      /\ \A i \in n+2..n+h : NameAt(r, i, names) = NoMatch
  <2>. HIDE DEF NoMatch
  <2>. QED  BY <1>2, NameAtIs, Zenon
<1>4. /\ at \in Seq(M) /\ Len(at) = n+h /\ \A i \in 1..n+h : at[i] = NameAt(r, i, names)
      /\ Names(r, names) = Scan(at)
  BY <1>1, NamesAre
<1>5. /\ bt \in Seq(M) /\ Len(bt) = n /\ \A i \in 1..n : bt[i] = NameAt(u, i, names)
      /\ Names(u, names) = Scan(bt) /\ Within(Scan(bt), n)
  BY NamesAre DEF n
<1>. HIDE DEF at, bt, M, NoMatch
<1>6. /\ \A i \in 1..n : i \in 1..n+h
      /\ \A i \in n+2..n+h : i \in 1..n+h
  BY <1>1
<1>7. n+1 \in 1..n+h /\ n+1 <= Len(at)
  BY <1>1, <1>4
<1>8. /\ \A i \in 1..n : at[i] = bt[i]
      /\ \A i \in n+2..Len(at) : at[i] = NoMatch
      /\ at[n+1] = NameAt(r, n+1, names)
  BY <1>3, <1>4, <1>5, <1>6, <1>7
<1>9. Scan(at) = IF at[n+1] = NoMatch THEN Scan(bt) ELSE Append(Scan(bt), at[n+1])
  <2>1. at \in Seq(M) /\ bt \in Seq(M) /\ n \in Nat /\ Len(bt) = n /\ n+1 <= Len(at) /\ Within(Scan(bt), n)
    BY <1>1, <1>4, <1>5, <1>7
  <2>. QED  BY ONLY <2>1, <1>8, ScanNext
<1>10. Names(r, names) = IF w = names[1] THEN Append(Names(u, names), NameFound(w, 1, n+1))
                         ELSE IF w = names[2] THEN Append(Names(u, names), NameFound(w, 2, n+1))
                         ELSE Names(u, names)
  <2>1. CASE w = names[1]
    <3>1. at[n+1] = NameFound(w, 1, n+1)
      BY <1>3, <1>8, <2>1
    <3>2. Scan(at) = Append(Scan(bt), NameFound(w, 1, n+1))
      BY <1>9, <1>f, <3>1
    <3>. QED  BY <1>4, <1>5, <2>1, <3>2
  <2>2. CASE w # names[1] /\ w = names[2]
    <3>1. at[n+1] = NameFound(w, 2, n+1)
      BY <1>3, <1>8, <2>2
    <3>2. Scan(at) = Append(Scan(bt), NameFound(w, 2, n+1))
      BY <1>9, <1>f, <3>1
    <3>. QED  BY <1>4, <1>5, <2>2, <3>2
  <2>3. CASE w # names[1] /\ w # names[2]
    <3>1. at[n+1] = NoMatch
      BY <1>3, <1>8, <2>3, Zenon
    <3>. QED  BY <1>4, <1>5, <1>9, <2>3, <3>1, Zenon
  <2>. QED  BY <2>1, <2>2, <2>3
<1>. QED  BY <1>10 DEF r, n

-----------------------------------------------------------------------------
(* What is behind all matches is kept as it is.                            *)
GoesFar(X, s, ms, new) == \A w \in Seq(X) : Splice(s \o w, ms, new) = Splice(s, ms, new) \o w

(* Every text that goes on behind the last match does.                     *)
LEMMA SpliceGoesFar ==
  ASSUME NEW X, NEW s \in Seq(X), NEW M, NEW ms \in Seq(M), Within(ms, Len(s)),
         NEW new, \A k \in DOMAIN ms : new[k] \in Seq(X)
  PROVE  GoesFar(X, s, ms, new)
<1>. DEFINE t == Splice(s, ms, new)
            S == {w \in Seq(X) : Splice(s \o w, ms, new) = t \o w}
<1>1. t \in Seq(X)
  BY SpliceTyped
<1>. HIDE DEF t
<1>2. <<>> \in S
  <2>1. s \o <<>> = s /\ t \o <<>> = t /\ <<>> \in Seq(X)
    BY <1>1
  <2>. QED  BY <2>1 DEF t
<1>3. ASSUME NEW w \in Seq(X), NEW c \in X, w \in S PROVE Append(w, c) \in S
  <2>. DEFINE r == s \o w
  <2>1. /\ Append(w, c) \in Seq(X) /\ s \o Append(w, c) = Append(r, c) /\ t \o Append(w, c) = Append(t \o w, c)
        /\ r \in Seq(X) /\ Len(r) = Len(s) + Len(w)
    BY <1>1
  <2>2. Splice(r, ms, new) = t \o w
    BY <1>3
  <2>. HIDE DEF r
  <2>3. Within(ms, Len(r))
    <3>1. Len(s) \in Nat /\ Len(w) \in Nat
      OBVIOUS
    <3>2. \A x \in 1..Len(s)+1 : x \in 1..Len(r)+1
      BY <2>1, <3>1
    <3>. QED  BY <3>2 DEF Within
  <2>4. Splice(Append(r, c), ms, new) = Append(Splice(r, ms, new), c)
    <3>1. GoesOn(r, c, ms, new)
      BY <2>1, <2>3, SpliceGoesOn, Zenon
    <3>. QED  BY <3>1, Zenon DEF GoesOn
  <2>5. Splice(s \o Append(w, c), ms, new) = t \o Append(w, c)
    BY <2>1, <2>2, <2>4, Zenon
  <2>. QED  BY <2>1, <2>5
<1>4. \A w \in Seq(X) : w \in S
  <2>. HIDE DEF S
  <2>. QED  BY <1>2, <1>3, SequencesGrow
<1>. QED  BY <1>4 DEF t, GoesFar

(* The other name of two, for a word that is one of them.                  *)
IsName(w, names) == w = names[1] \/ w = names[2]
Other(w, names) == IF w = names[1] THEN names[2] ELSE IF w = names[2] THEN names[1] ELSE w

(* Swapped is what was found, replaced by the other names.                 *)
LEMMA SwapIs ==
  ASSUME NEW s \in Seq(Symbol), NEW names, TwoNames(names)
  PROVE  \E new : /\ \A k \in DOMAIN Names(s, names) : new[k] = names[3 - Names(s, names)[k].name] /\ new[k] \in Seq(Symbol)
                  /\ SwapNames(s, names) = Splice(s, Names(s, names), new)
<1>. DEFINE ms == Names(s, names)  ns == [k \in DOMAIN ms |-> names[3 - ms[k].name]]
<1>1. SwapNames(s, names) = Splice(s, ms, ns)
  BY Zenon DEF SwapNames
<1>2. ms \in Seq(NameSpot)
  BY NamesAre
<1>3. names[1] \in Seq(Symbol) /\ names[2] \in Seq(Symbol)
  BY DEF TwoNames, Word
<1>. HIDE DEF ms
<1>4. \A k \in DOMAIN ms : ns[k] = names[3 - ms[k].name] /\ ns[k] \in Seq(Symbol)
  <2>1. \A m \in NameSpot : 3 - m.name = 1 \/ 3 - m.name = 2
    BY DEF NameSpot
  <2>. DEFINE B == NameSpot
  <2>. HIDE DEF B
  <2>2. \A k \in DOMAIN ms : ms[k] \in B
    BY <1>2 DEF B
  <2>3. \A k \in DOMAIN ms : 3 - ms[k].name = 1 \/ 3 - ms[k].name = 2
    BY <2>1, <2>2 DEF B
  <2>. QED  BY <1>3, <2>3
<1>. HIDE DEF ns
<1>. QED  BY <1>1, <1>4 DEF ms

(* Behind a symbol that is no letter.                                      *)
LEMMA SwapGoesOn ==
  ASSUME NEW u \in Seq(Symbol), NEW c \in Symbol, c \notin WordSymbols, NEW names, TwoNames(names)
  PROVE  SwapNames(Append(u, c), names) = Append(SwapNames(u, names), c)
<1>. DEFINE ms == Names(u, names)  r == Append(u, c)  nu == [k \in DOMAIN ms |-> names[3 - ms[k].name]]
<1>1. Names(r, names) = ms
  BY NamesGoOn
<1>2. SwapNames(u, names) = Splice(u, ms, nu)
  BY Zenon DEF SwapNames
<1>3. SwapNames(r, names) = Splice(r, ms, nu)
  BY <1>1, Zenon DEF SwapNames
<1>4. ms \in Seq(NameSpot) /\ Within(ms, Len(u))
  BY NamesAre
<1>5. \A k \in DOMAIN ms : nu[k] \in Seq(Symbol)
  <2>1. PICK new : \A k \in DOMAIN ms : new[k] = names[3 - ms[k].name] /\ new[k] \in Seq(Symbol)
    BY SwapIs, Zenon
  <2>. HIDE DEF ms
  <2>. QED  BY <2>1
<1>. HIDE DEF ms, nu
<1>6. GoesOn(u, c, ms, nu)
  BY <1>4, <1>5, SpliceGoesOn, Zenon
<1>. QED  BY <1>2, <1>3, <1>6, Zenon DEF GoesOn, r

(* Behind a text that is closed.                                           *)
LEMMA SwapMeets ==
  ASSUME NEW u \in Seq(Symbol), Closed(u), NEW w, Word(w), NEW names, TwoNames(names)
  PROVE  /\ SwapNames(u \o w, names) = SwapNames(u, names) \o Other(w, names)
         /\ Len(Names(u \o w, names)) = Len(Names(u, names)) + (IF IsName(w, names) THEN 1 ELSE 0)
<1>. DEFINE ms == Names(u, names)  r == u \o w  x == Other(w, names)
            nr == [k \in DOMAIN Names(r, names) |-> names[3 - Names(r, names)[k].name]]
<1>0. w \in Seq(Symbol) /\ names[1] \in Seq(Symbol) /\ names[2] \in Seq(Symbol) /\ x \in Seq(Symbol)
  BY DEF Word, TwoNames, Other
<1>t. SwapNames(u, names) \in Seq(Symbol)
  BY <1>0, SwapTyped
<1>4. ms \in Seq(NameSpot) /\ Within(ms, Len(u))
  BY NamesAre
<1>5. PICK new : /\ \A k \in DOMAIN ms : new[k] = names[3 - ms[k].name] /\ new[k] \in Seq(Symbol)
                 /\ SwapNames(u, names) = Splice(u, ms, new)
  BY SwapIs, Zenon
<1>6. SwapNames(r, names) = Splice(r, Names(r, names), nr)
  BY Zenon DEF SwapNames
<1>l. Len(ms) \in Nat
  BY <1>4
<1>. HIDE DEF ms
<1>7. CASE w = <<>>
  <2>1. r = u
    BY <1>7
  <2>2. ~IsName(w, names) /\ x = <<>>
    BY <1>7 DEF TwoNames, IsName, Other
  <2>3. SwapNames(u, names) \o <<>> = SwapNames(u, names)
    BY <1>t
  <2>. HIDE DEF r, x
  <2>. QED  BY <1>l, <2>1, <2>2, <2>3 DEF r, x, ms
<1>8. CASE w # <<>> /\ ~IsName(w, names)
  <2>1. Names(r, names) = ms
    <3>1. w # names[1] /\ w # names[2]
      BY <1>8 DEF IsName
    <3>. QED  BY <1>8, <3>1, NamesMeet DEF ms
  <2>2. x = w
    BY <1>8 DEF IsName, Other
  <2>3. SwapNames(r, names) = Splice(r, ms, nr) /\ \A k \in DOMAIN ms : nr[k] = names[3 - ms[k].name]
    <3>. HIDE DEF r
    <3>. QED  BY <1>6, <2>1
  <2>. HIDE DEF nr
  <2>4. \A k \in DOMAIN ms : nr[k] \in Seq(Symbol)
    BY <1>5, <2>3
  <2>5. Splice(r, ms, nr) = Splice(u, ms, nr) \o w
    <3>. DEFINE B == NameSpot
    <3>1. ms \in Seq(B)
      BY <1>4
    <3>. HIDE DEF B
    <3>2. GoesFar(Symbol, u, ms, nr)
      BY <1>4, <2>4, <3>1, SpliceGoesFar
    <3>. QED  BY <1>0, <3>2, Zenon DEF GoesFar, r
  <2>6. Splice(u, ms, nr) = SwapNames(u, names)
    <3>. DEFINE nu == [k \in DOMAIN ms |-> names[3 - ms[k].name]]
    <3>1. SwapNames(u, names) = Splice(u, ms, nu)
      BY Zenon DEF SwapNames, ms
    <3>2. nr = nu
      BY <2>1 DEF nr
    <3>. QED  BY <3>1, <3>2
  <2>. HIDE DEF x
  <2>. QED  BY <1>8, <1>l, <2>1, <2>2, <2>3, <2>5, <2>6 DEF x, r, ms
<1>9. ASSUME NEW k \in 1..2, w = names[k], w # <<>>,
             Names(r, names) = Append(ms, NameFound(w, k, Len(u)+1)), x = names[3-k]
      PROVE  /\ SwapNames(r, names) = SwapNames(u, names) \o x
             /\ Len(Names(r, names)) = Len(ms) + 1
  <2>. DEFINE f == NameFound(w, k, Len(u)+1)  ns == Append(ms, f)  B == NameSpot
  <2>1. f \in B /\ f.from = Len(u)+1 /\ f.to = Len(u) + Len(w) + 1 /\ f.name = k
    <3>1. Len(u) \in Nat /\ Len(w) \in Nat
      BY <1>0
    <3>2. Len(u)+1 \in Nat /\ Len(u)+1+Len(w) \in Nat /\ Len(u)+1+Len(w) = Len(u) + Len(w) + 1
      BY <3>1
    <3>. QED  BY <3>2 DEF NameFound, NameSpot
  <2>. HIDE DEF f, B
  <2>2. /\ Len(ns) = Len(ms)+1 /\ DOMAIN ms = 1..Len(ms) /\ DOMAIN ns = 1..Len(ms)+1
        /\ ns[Len(ms)+1] = f /\ \A j \in 1..Len(ms) : ns[j] = ms[j]
    <3>1. ms \in Seq(B)
      BY <1>4 DEF B
    <3>. QED  BY <2>1, <3>1
  <2>3. SwapNames(r, names) = Splice(r, ns, nr) /\ \A j \in DOMAIN ns : nr[j] = names[3 - ns[j].name]
    <3>1. Names(r, names) = ns
      BY <1>9 DEF f
    <3>. HIDE DEF ns, r
    <3>. QED  BY <1>6, <3>1
  <2>. HIDE DEF ns, nr
  <2>4. nr[Len(ms)+1] = x
    <3>1. Len(ms)+1 \in DOMAIN ns
      BY <1>l, <2>2
    <3>. QED  BY <1>9, <2>1, <2>2, <2>3, <3>1
  <2>5. \A j \in DOMAIN ms : nr[j] = new[j]
    <3>1. \A j \in DOMAIN ms : j \in DOMAIN ns /\ ns[j] = ms[j]
      BY <1>l, <2>2
    <3>. QED  BY <1>5, <2>3, <3>1
  <2>6. Meets(u, w, ms, f, new, nr, x)
    <3>1. ms \in Seq(B)
      BY <1>4 DEF B
    <3>2. \A j \in DOMAIN ms : new[j] \in Seq(Symbol)
      BY <1>5
    <3>. HIDE DEF x
    <3>. QED  BY ONLY u \in Seq(Symbol), <1>0, <1>4, <2>1, <2>4, <2>5, <3>1, <3>2, SpliceMeets
  <2>7. Splice(r, ns, nr) = Splice(u, ms, new) \o x
    BY <2>6, Zenon DEF Meets, ns
  <2>8. Names(r, names) = ns
    BY <1>9 DEF f, ns
  <2>. QED  BY <1>5, <2>2, <2>3, <2>7, <2>8, Zenon
<1>10. CASE w # <<>> /\ w = names[1]
  <2>1. Names(r, names) = Append(ms, NameFound(w, 1, Len(u)+1))
    BY <1>10, NamesMeet DEF ms
  <2>2. x = names[3-1] /\ IsName(w, names) /\ 1 \in 1..2
    BY <1>10 DEF IsName, Other
  <2>. HIDE DEF x, r
  <2>3. SwapNames(r, names) = SwapNames(u, names) \o x /\ Len(Names(r, names)) = Len(ms) + 1
    BY <1>9, <1>10, <2>1, <2>2
  <2>. QED  BY <2>2, <2>3 DEF x, r, ms
<1>11. CASE w # <<>> /\ w # names[1] /\ w = names[2]
  <2>1. Names(r, names) = Append(ms, NameFound(w, 2, Len(u)+1))
    <3>1. Names(r, names) = IF w = names[1] THEN Append(ms, NameFound(w, 1, Len(u)+1))
                            ELSE IF w = names[2] THEN Append(ms, NameFound(w, 2, Len(u)+1)) ELSE ms
      BY <1>11, NamesMeet DEF ms
    <3>. QED  BY <1>11, <3>1
  <2>2. x = names[3-2] /\ IsName(w, names) /\ 2 \in 1..2
    BY <1>11 DEF IsName, Other
  <2>. HIDE DEF x, r
  <2>3. SwapNames(r, names) = SwapNames(u, names) \o x /\ Len(Names(r, names)) = Len(ms) + 1
    BY <1>9, <1>11, <2>1, <2>2
  <2>. QED  BY <2>2, <2>3 DEF x, r, ms
<1>. QED  BY <1>7, <1>8, <1>10, <1>11 DEF IsName

(* A swap and its way back.                                                *)
Undone(s, names) ==
  /\ SwapNames(s, names) \in Seq(Symbol)
  /\ SwapNames(SwapNames(s, names), names) = s
  /\ Len(Names(SwapNames(s, names), names)) = Len(Names(s, names))

(* A text as a part that is closed, also when it is swapped, and a word.    *)
Parted(s, u, w, names) ==
  /\ u \in Seq(Symbol) /\ s = u \o w /\ Word(w)
  /\ Closed(u) /\ Closed(SwapNames(u, names)) /\ Undone(u, names)

(* The word behind it is swapped and swapped back.                         *)
LEMMA PartsUndone ==
  ASSUME NEW names, TwoNames(names), NEW s, NEW u, NEW w, Parted(s, u, w, names)
  PROVE  Undone(s, names)
<1>. DEFINE v == SwapNames(u, names)  x == Other(w, names)
<1>1. u \in Seq(Symbol) /\ v \in Seq(Symbol) /\ s = u \o w /\ Word(w) /\ Word(x) /\ Closed(u) /\ Closed(v)
  BY DEF Parted, Undone, TwoNames, Other
<1>2. x \in Seq(Symbol) /\ w \in Seq(Symbol)
  BY <1>1 DEF Word
<1>3. Other(x, names) = w /\ (IsName(x, names) <=> IsName(w, names))
  BY DEF Other, IsName, TwoNames
<1>4. SwapNames(v, names) = u /\ Len(Names(v, names)) = Len(Names(u, names))
  BY DEF Parted, Undone
<1>. HIDE DEF v, x
<1>5. /\ SwapNames(u \o w, names) = v \o x
      /\ Len(Names(u \o w, names)) = Len(Names(u, names)) + (IF IsName(w, names) THEN 1 ELSE 0)
  BY <1>1, SwapMeets DEF v, x
<1>6. /\ SwapNames(v \o x, names) = u \o w
      /\ Len(Names(v \o x, names)) = Len(Names(v, names)) + (IF IsName(x, names) THEN 1 ELSE 0)
  BY <1>1, <1>3, <1>4, SwapMeets
<1>7. v \o x \in Seq(Symbol)
  BY <1>1, <1>2
<1>. QED  BY <1>1, <1>3, <1>4, <1>5, <1>6, <1>7 DEF Undone

(* Every text is such a text.                                              *)
LEMMA TextsParted ==
  ASSUME NEW names, TwoNames(names)
  PROVE  \A s \in Seq(Symbol) : \E u, w : Parted(s, u, w, names)
<1>. DEFINE S == {s \in Seq(Symbol) : \E u, w : Parted(s, u, w, names)}  e == <<>>
<1>0. e \in Seq(Symbol) /\ Word(e) /\ Closed(e)
  BY DEF Word, Closed
<1>1. ASSUME NEW s \in Seq(Symbol), Undone(s, names), Closed(s), Closed(SwapNames(s, names)) PROVE s \in S
  <2>1. s = s \o e
    OBVIOUS
  <2>. HIDE DEF e
  <2>2. Parted(s, s, e, names)
    BY <1>0, <1>1, <2>1, Zenon DEF Parted
  <2>. QED  BY <2>2
<1>2. e \in S
  <2>1. Names(e, names) \in Seq(NameSpot) /\ Names(e, names) = e
    <3>1. NamesAt(e, names) = e
      BY DEF NamesAt
    <3>2. Scan(e) = e
      <4>1. \A x : \A at \in Seq({x}) : Scan(e) = e
        BY ScanGrows
      <4>2. e \in Seq({0})
        OBVIOUS
      <4>. QED  BY <4>1, <4>2, Zenon
    <3>3. Names(e, names) = Scan(NamesAt(e, names))
      BY Zenon DEF Names, NamesAt
    <3>4. e \in Seq(NameSpot)
      <4>. DEFINE B == NameSpot
      <4>. HIDE DEF B
      <4>1. e \in Seq(B)
        OBVIOUS
      <4>. QED  BY <4>1 DEF B
    <3>. QED  BY <3>1, <3>2, <3>3, <3>4, Zenon
  <2>2. SwapNames(e, names) = e
    <3>. DEFINE ns == [k \in DOMAIN e |-> names[3 - e[k].name]]
    <3>1. SwapNames(e, names) = Splice(e, e, ns)
      BY <2>1, Zenon DEF SwapNames
    <3>2. Splice(e, e, ns) = Concat(Pieces(e, e, ns)) \o SubSeq(e, EndAfter(e, Len(e)), Len(e))
      BY SpliceIs
    <3>3. Pieces(e, e, ns) = e /\ Len(e) = 0
      BY DEF Pieces
    <3>4. Concat(e) = e
      <4>1. e \in Seq(Seq(Symbol)) /\ e \in Seq(Symbol)
        OBVIOUS
      <4>. QED  BY <4>1, ConcatGrows
    <3>5. EndAfter(e, 0) = 1
      BY DEF EndAfter
    <3>6. e \o SubSeq(e, 1, 0) = e
      OBVIOUS
    <3>. QED  BY <3>1, <3>2, <3>3, <3>4, <3>5, <3>6
  <2>3. Undone(e, names)
    BY <1>0, <2>2, Zenon DEF Undone
  <2>. HIDE DEF e, S
  <2>. QED  BY <1>0, <1>1, <2>2, <2>3
<1>3. ASSUME NEW s \in Seq(Symbol), NEW c \in Symbol, s \in S PROVE Append(s, c) \in S
  <2>1. PICK u, w : Parted(s, u, w, names)
    BY <1>3
  <2>2. Append(s, c) \in Seq(Symbol)
    OBVIOUS
  <2>3. CASE c \in WordSymbols
    <3>1. w \in Seq(Symbol) /\ u \in Seq(Symbol) /\ s = u \o w
      BY <2>1 DEF Parted, Word
    <3>2. Append(s, c) = u \o Append(w, c)
      <4>1. \A a, b \in Seq(Symbol) : a \o Append(b, c) = Append(a \o b, c)
        OBVIOUS
      <4>. QED  BY <3>1, <4>1, Zenon
    <3>3. Word(Append(w, c))
      <4>1. /\ Append(w, c) \in Seq(Symbol) /\ Len(Append(w, c)) = Len(w)+1
            /\ (\A j \in 1..Len(w) : Append(w, c)[j] = w[j]) /\ Append(w, c)[Len(w)+1] = c
        BY <3>1, AppendIs
      <4>2. \A j \in 1..Len(w)+1 : j \in 1..Len(w) \/ j = Len(w)+1
        BY <3>1
      <4>3. \A j \in 1..Len(w) : w[j] \in WordSymbols
        BY <2>1 DEF Parted, Word
      <4>. QED  BY <2>3, <4>1, <4>2, <4>3 DEF Word
    <3>4. Parted(Append(s, c), u, Append(w, c), names)
      BY <2>1, <3>2, <3>3, Zenon DEF Parted
    <3>. QED  BY <2>2, <3>4
  <2>4. CASE c \notin WordSymbols
    <3>. DEFINE t == SwapNames(s, names)  r == Append(s, c)
    <3>1. Undone(s, names)
      BY <2>1, PartsUndone
    <3>2. t \in Seq(Symbol) /\ SwapNames(t, names) = s /\ Len(Names(t, names)) = Len(Names(s, names))
      BY <3>1 DEF Undone
    <3>3. SwapNames(r, names) = Append(t, c) /\ Names(r, names) = Names(s, names)
      BY <2>4, SwapGoesOn, NamesGoOn
    <3>. HIDE DEF t
    <3>4. SwapNames(Append(t, c), names) = Append(SwapNames(t, names), c)
      BY <2>4, <3>2, SwapGoesOn
    <3>5. Names(Append(t, c), names) = Names(t, names)
      BY <2>4, <3>2, NamesGoOn
    <3>6. Closed(r) /\ Closed(Append(t, c)) /\ Append(t, c) \in Seq(Symbol)
      <4>1. \A q \in Seq(Symbol) : Append(q, c)[Len(Append(q, c))] = c /\ Append(q, c) \in Seq(Symbol)
        OBVIOUS
      <4>. QED  BY <2>4, <3>2, <4>1 DEF Closed
    <3>. HIDE DEF r
    <3>7. Undone(r, names)
      BY <3>2, <3>3, <3>4, <3>5, <3>6, Zenon DEF Undone, r
    <3>8. r \in Seq(Symbol) /\ Closed(SwapNames(r, names))
      BY <2>2, <3>3, <3>6 DEF r
    <3>. HIDE DEF S
    <3>. QED  BY <1>1, <3>6, <3>7, <3>8 DEF r
  <2>. QED  BY <2>3, <2>4
<1>4. \A s \in Seq(Symbol) : s \in S
  <2>. HIDE DEF S
  <2>. QED  BY <1>2, <1>3, SequencesGrow DEF e
<1>. QED  BY <1>4

(* A finished swap of two names that are words is undone by another.       *)
LEMMA SwapIsUndone ==
  ASSUME NEW d, d.op.kind = "swap_name", d.op \in EditOperation, d.before \in Seq(Symbol),
         d.applied = AppliedMatches(d.before, d.op), d.applied # 0,
         d.after = applyCommand(d.before, d.op).text,
         UNION {ToSet(n) : n \in ToSet(NamesToSwap(d.op))} \subseteq WordSymbols
  PROVE  /\ SwapNames(d.after, NamesToSwap(d.op)) = d.before
         /\ Len(Names(d.after, NamesToSwap(d.op))) = d.applied
<1>. DEFINE s == d.before  op == d.op  names == NamesToSwap(op)  count == Len(Names(s, names))
<1>1. AppliedMatches(s, op) = NameMatches(s, op) /\ op.find # <<>>
  <2>1. AppliedMatches(s, op) # 0
    OBVIOUS
  <2>. QED  BY <2>1, Zenon DEF AppliedMatches, Refused
<1>2. Swappable(names) /\ (NameMatches(s, op) = count \/ NameMatches(s, op) = Accepted(count, op))
  BY <1>1, Zenon DEF NameMatches
<1>3. Accepted(count, op) = count \/ Accepted(count, op) = 0
  BY DEF Accepted
<1>4. d.applied = count
  <2>. HIDE DEF count
  <2>. QED  BY <1>1, <1>2, <1>3
<1>5. d.after = SwapNames(s, names)
  BY <1>1, <1>2, SwapApplied DEF Change
<1>6. TwoNames(names)
  <2>1. names = <<Name(op.find), Name(op.replace)>>
    BY DEF NamesToSwap
  <2>2. Name(op.find) \in Seq(Symbol) /\ Name(op.replace) \in Seq(Symbol)
    <3>1. op.find \in Seq(Symbol) /\ op.replace \in Seq(Symbol) /\ Blank \in Symbol
      BY Marks DEF EditOperation
    <3>. QED  BY <3>1, NameTyped, Zenon
  <2>. HIDE DEF names
  <2>3. names[1] \in Seq(Symbol) /\ names[2] \in Seq(Symbol) /\ ToSet(names) = {names[1], names[2]}
    BY <2>1, <2>2 DEF ToSet
  <2>4. names[1] # <<>> /\ names[2] # <<>> /\ names[1] # names[2]
    BY <1>2, <2>3 DEF Swappable
  <2>5. \A n \in ToSet(names) : ToSet(n) \subseteq WordSymbols
    BY DEF names
  <2>6. Word(names[1]) /\ Word(names[2])
    <3>1. \A n \in Seq(Symbol) : \A j \in 1..Len(n) : n[j] \in ToSet(n)
      BY DEF ToSet
    <3>. QED  BY <2>3, <2>5, <3>1 DEF Word
  <2>. QED  BY <2>4, <2>6 DEF TwoNames
<1>. HIDE DEF names
<1>7. Undone(s, names)
  <2>1. \E u, w : Parted(s, u, w, names)
    BY <1>6, TextsParted
  <2>. QED  BY <1>6, <2>1, PartsUndone
<1>. QED  BY <1>4, <1>5, <1>7 DEF Undone, names, s, op, count

-----------------------------------------------------------------------------
(* What a line consists of.                                                *)
LineSymbol == Symbol \ {NL}

(* No line has a newline in it.                                            *)
LEMMA LinesEnd == \A s \in Seq(Symbol) : SplitLines(s) \in LineSeqs(LineSymbol)
<1>. DEFINE Y == LineSymbol  S == {s \in Seq(Symbol) : SplitLines(s) \in LineSeqs(Y)}  e == <<>>
<1>1. e \in S
  <2>1. e \in Seq(Y) /\ e \in Seq(Symbol)
    OBVIOUS
  <2>. HIDE DEF e, Y
  <2>2. SplitLines(e) \in LineSeqs(Y)
    BY <2>1, SplitTyped
  <2>. QED  BY <2>1, <2>2
<1>2. ASSUME NEW s \in Seq(Symbol), NEW c \in Symbol, s \in S PROVE Append(s, c) \in S
  <2>. DEFINE ls == SplitLines(s)
  <2>1. Append(s, c) \in Seq(Symbol)
    OBVIOUS
  <2>2. SplitLines(Append(s, c)) = WithSymbol(ls, c)
    BY SplitGrows, Zenon
  <2>3. ls \in LineSeqs(Y)
    BY <1>2
  <2>. HIDE DEF ls
  <2>4. CASE c = NL
    <3>. DEFINE V == Seq(Y)
    <3>1. ls \in Seq(V) /\ e \in V
      BY <2>3 DEF LineSeqs
    <3>. HIDE DEF V, e
    <3>2. Append(ls, e) \in Seq(V) /\ Append(ls, e) # <<>>
      BY <3>1
    <3>3. WithSymbol(ls, c) = Append(ls, e)
      BY <2>4 DEF WithSymbol, e
    <3>4. WithSymbol(ls, c) \in LineSeqs(Y)
      BY <3>2, <3>3 DEF LineSeqs, V
    <3>. QED  BY <2>1, <2>2, <3>4
  <2>5. CASE c # NL
    <3>1. c \in Y
      BY <2>5 DEF LineSymbol
    <3>. HIDE DEF Y
    <3>2. WithSymbol(ls, c) \in LineSeqs(Y)
      BY <2>3, <3>1, WithSymbolTyped
    <3>. QED  BY <2>1, <2>2, <3>2
  <2>. QED  BY <2>4, <2>5
<1>3. \A s \in Seq(Symbol) : s \in S
  <2>. HIDE DEF S
  <2>. QED  BY <1>1, <1>2, SequencesGrow DEF e
<1>. QED  BY <1>3

(* A line that was begun goes on.                                          *)
LEMMA LineGoesOn ==
  ASSUME NEW r \in Seq(Symbol), NEW a \in Seq(Seq(Symbol)), SplitLines(r) = Append(a, <<>>)
  PROVE  \A l \in Seq(LineSymbol) : SplitLines(r \o l) = Append(a, l)
<1>. DEFINE Y == LineSymbol  V == Seq(Symbol)  e == <<>>
            S == {l \in Seq(Y) : SplitLines(r \o l) = Append(a, l)}
<1>0. \A l \in Seq(Y) : l \in V
  BY DEF LineSymbol
<1>1. e \in S
  <2>1. e \in Seq(Y) /\ r \o e = r
    OBVIOUS
  <2>. HIDE DEF e, Y
  <2>2. SplitLines(r \o e) = Append(a, e)
    BY <2>1 DEF e
  <2>. QED  BY <2>1, <2>2
<1>2. ASSUME NEW l \in Seq(Y), NEW c \in Y, l \in S PROVE Append(l, c) \in S
  <2>. DEFINE w == Append(a, l)  n == Len(a)+1
  <2>1. Append(l, c) \in Seq(Y) /\ l \in V /\ c \in Symbol /\ c # NL
    BY <1>0 DEF LineSymbol
  <2>2. r \o l \in V /\ r \o Append(l, c) = Append(r \o l, c)
    <3>1. \A p, q \in Seq(Symbol) : p \o q \in Seq(Symbol) /\ \A x \in Symbol : p \o Append(q, x) = Append(p \o q, x)
      OBVIOUS
    <3>. QED  BY <2>1, <3>1, Zenon
  <2>3. SplitLines(r \o l) = w
    BY <1>2
  <2>4. SplitLines(Append(r \o l, c)) = WithSymbol(SplitLines(r \o l), c)
    BY <2>1, <2>2, SplitGrows, Zenon
  <2>5. SplitLines(r \o Append(l, c)) = WithSymbol(w, c)
    BY <2>2, <2>3, <2>4, Zenon
  <2>6. a \in Seq(V) /\ Append(l, c) \in V
    BY <2>1
  <2>. HIDE DEF V
  <2>7. /\ n \in Nat /\ w \in Seq(V) /\ Len(w) = n /\ w[n] = l /\ \A i \in 1..Len(a) : w[i] = a[i]
        /\ Append(a, Append(l, c)) \in Seq(V) /\ Len(Append(a, Append(l, c))) = n
        /\ Append(a, Append(l, c))[n] = Append(l, c) /\ \A i \in 1..Len(a) : Append(a, Append(l, c))[i] = a[i]
    <3>1. \A x \in V : /\ Append(a, x) \in Seq(V) /\ Len(Append(a, x)) = Len(a)+1
                       /\ (\A j \in 1..Len(a) : Append(a, x)[j] = a[j]) /\ Append(a, x)[Len(a)+1] = x
      BY <2>6, AppendIs
    <3>2. Len(a)+1 \in Nat
      BY <2>6
    <3>. QED  BY <2>1, <2>6, <3>1, <3>2
  <2>. DEFINE t == Append(l, c)  z == [w EXCEPT ![n] = t]
  <2>8. WithSymbol(w, c) = z
    <3>1. WithSymbol(w, c) = [w EXCEPT ![Len(w)] = Append(@, c)]
      BY <2>1, Zenon DEF WithSymbol
    <3>2. [w EXCEPT ![Len(w)] = Append(@, c)] = [w EXCEPT ![n] = Append(w[n], c)]
      BY <2>7
    <3>. QED  BY <2>7, <3>1, <3>2
  <2>9. z = Append(a, t)
    <3>. HIDE DEF w
    <3>0. n \in 1..n /\ \A i \in 1..n : i = n \/ (i \in 1..Len(a) /\ i # n)
      BY <2>6
    <3>h. t \in V
      BY <2>6
    <3>. HIDE DEF t, n
    <3>1. z \in Seq(V) /\ Len(z) = n /\ z[n] = t /\ \A i \in 1..n : i # n => z[i] = w[i]
      BY <2>7, <3>0, <3>h
    <3>2. Append(a, t) \in Seq(V) /\ Len(Append(a, t)) = n /\ Append(a, t)[n] = t /\ \A i \in 1..Len(a) : Append(a, t)[i] = a[i]
      BY <2>7 DEF t
    <3>. HIDE DEF z
    <3>3. \A i \in 1..n : z[i] = Append(a, t)[i]
      BY <2>7, <3>0, <3>1, <3>2
    <3>. QED  BY <3>1, <3>2, <3>3, SeqEqual
  <2>10. SplitLines(r \o Append(l, c)) = Append(a, Append(l, c))
    BY <2>5, <2>8, <2>9, Zenon
  <2>. QED  BY <2>1, <2>10
<1>3. \A l \in Seq(Y) : l \in S
  <2>. HIDE DEF S, Y
  <2>. QED  BY <1>1, <1>2, SequencesGrow DEF e
<1>. QED  BY <1>3

(* Lines that are joined are the lines of the text.                        *)
LEMMA JoinSplits == \A qs \in Seq(Seq(LineSymbol)) : qs # <<>> => SplitLines(JoinLines(qs)) = qs
<1>. DEFINE V == Seq(LineSymbol)  e == <<>>  S == {qs \in Seq(V) : qs # e => SplitLines(JoinLines(qs)) = qs}
<1>0. /\ \A l \in V : l \in Seq(Symbol)
      /\ \A qs \in Seq(V) : qs \in Seq(Seq(Symbol))
      /\ NL \in Symbol
  <2>1. \A l \in V : l \in Seq(Symbol)
    BY DEF LineSymbol
  <2>. DEFINE W == Seq(Symbol)
  <2>. HIDE DEF V, W
  <2>2. \A qs \in Seq(V) : qs \in Seq(W)
    BY <2>1 DEF W
  <2>. QED  BY <2>1, <2>2, Marks DEF W
<1>1. e \in S
  <2>1. e \in Seq(V)
    <3>. HIDE DEF V
    <3>. QED  OBVIOUS
  <2>. QED  BY <2>1
<1>2. ASSUME NEW qs \in Seq(V), NEW l \in V, qs \in S PROVE Append(qs, l) \in S
  <2>1. Append(qs, l) \in Seq(V)
    <3>. HIDE DEF V
    <3>. QED  OBVIOUS
  <2>2. /\ JoinLines(qs) \in Seq(Symbol)
        /\ qs = <<>> => JoinLines(Append(qs, l)) = l
        /\ qs # <<>> => JoinLines(Append(qs, l)) = Append(JoinLines(qs), NL) \o l
    BY <1>0, JoinGrows, Zenon
  <2>3. CASE qs = e
    <3>1. SplitLines(<<>>) = <<<<>>>>
      BY <1>0, SplitGrows, Zenon
    <3>2. e \in Seq(Seq(Symbol)) /\ e \in Seq(Symbol) /\ e \o l = l /\ Append(e, e) = <<e>>
      BY <1>0
    <3>3. SplitLines(e \o l) = Append(e, l)
      <4>1. SplitLines(e) = Append(e, e)
        BY <3>1, <3>2, Zenon
      <4>. HIDE DEF e
      <4>2. \A k \in V : SplitLines(e \o k) = Append(e, k)
        BY <3>2, <4>1, LineGoesOn DEF e
      <4>. QED  BY <4>2
    <3>4. SplitLines(JoinLines(Append(qs, l))) = Append(qs, l)
      BY <2>2, <2>3, <3>2, <3>3, Zenon
    <3>. QED  BY <2>1, <3>4
  <2>4. CASE qs # e
    <3>. DEFINE t == JoinLines(qs)  r == Append(t, NL)
    <3>1. SplitLines(t) = qs /\ t \in Seq(Symbol)
      BY <1>2, <2>2, <2>4
    <3>. HIDE DEF t
    <3>2. SplitLines(r) = Append(qs, <<>>)
      <4>1. SplitLines(r) = WithSymbol(SplitLines(t), NL)
        BY <1>0, <3>1, SplitGrows, Zenon
      <4>. QED  BY <3>1, <4>1, Zenon DEF WithSymbol
    <3>3. r \in Seq(Symbol)
      BY <1>0, <3>1
    <3>4. SplitLines(r \o l) = Append(qs, l)
      <4>. HIDE DEF r
      <4>1. \A k \in V : SplitLines(r \o k) = Append(qs, k)
        BY <1>0, <3>2, <3>3, LineGoesOn
      <4>. QED  BY <4>1
    <3>5. SplitLines(JoinLines(Append(qs, l))) = Append(qs, l)
      BY <2>2, <2>4, <3>4, Zenon DEF r, t
    <3>. QED  BY <2>1, <3>5
  <2>. QED  BY <2>3, <2>4
<1>3. \A qs \in Seq(V) : qs \in S
  <2>. HIDE DEF S, V
  <2>. QED  BY <1>1, <1>2, SequencesGrow DEF e
<1>. QED  BY <1>3

(* One part of each line, and nothing else.                                *)
LEMMA ConcatOfOnes ==
  ASSUME NEW V
  PROVE  \A ls \in Seq(V) : Concat([i \in DOMAIN ls |-> <<ls[i]>>]) = ls
<1>. DEFINE ones(ls) == [i \in DOMAIN ls |-> <<ls[i]>>]  e == <<>>
            S == {ls \in Seq(V) : Concat(ones(ls)) = ls}
<1>1. e \in S
  <2>1. ones(e) = e /\ e \in Seq(V) /\ e \in Seq(Seq(V))
    OBVIOUS
  <2>. HIDE DEF ones, e
  <2>2. Concat(e) = e
    BY <2>1, ConcatGrows, Zenon DEF e
  <2>. QED  BY <2>1, <2>2
<1>2. ASSUME NEW ls \in Seq(V), NEW l \in V, ls \in S PROVE Append(ls, l) \in S
  <2>. DEFINE W == Seq(V)  r == Append(ls, l)  n == Len(ls)  p == <<l>>
  <2>1. p \in W /\ n \in Nat /\ DOMAIN ls = 1..n /\ \A i \in 1..n : <<ls[i]>> \in W
    OBVIOUS
  <2>2. r \in Seq(V) /\ Len(r) = n+1 /\ DOMAIN r = 1..n+1 /\ r[n+1] = l /\ \A i \in 1..n : r[i] = ls[i]
    OBVIOUS
  <2>. HIDE DEF W, r, n
  <2>3. ones(ls) \in Seq(W) /\ Len(ones(ls)) = n /\ \A i \in 1..n : ones(ls)[i] = <<ls[i]>>
    BY <2>1
  <2>4. \A i \in 1..n+1 : i \in 1..n \/ i = n+1
    BY <2>1
  <2>5. \A i \in 1..n+1 : <<r[i]>> \in W
    BY <2>1, <2>2, <2>4 DEF p
  <2>6. ones(r) \in Seq(W) /\ Len(ones(r)) = n+1 /\ \A i \in 1..n+1 : ones(r)[i] = <<r[i]>>
    BY <2>1, <2>2, <2>5
  <2>7. <<r[n+1]>> = p
    BY <2>2 DEF p
  <2>. HIDE DEF ones, p
  <2>8. /\ Append(ones(ls), p) \in Seq(W) /\ Len(Append(ones(ls), p)) = n+1
        /\ (\A i \in 1..n : Append(ones(ls), p)[i] = ones(ls)[i]) /\ Append(ones(ls), p)[n+1] = p
    <3>1. \A u \in Seq(W), x \in W :
            /\ Append(u, x) \in Seq(W) /\ Len(Append(u, x)) = Len(u)+1
            /\ (\A j \in 1..Len(u) : Append(u, x)[j] = u[j]) /\ Append(u, x)[Len(u)+1] = x
      BY AppendIs
    <3>. QED  BY <2>1, <2>3, <3>1
  <2>9. \A i \in 1..n+1 : ones(r)[i] = Append(ones(ls), p)[i]
    <3>1. n+1 \in 1..n+1 /\ \A i \in 1..n : i \in 1..n+1
      BY <2>1
    <3>2. ones(r)[n+1] = p
      BY <2>6, <2>7, <3>1
    <3>3. \A i \in 1..n : ones(r)[i] = ones(ls)[i]
      BY <2>2, <2>3, <2>6, <3>1
    <3>. QED  BY <2>4, <2>8, <3>2, <3>3
  <2>10. ones(r) = Append(ones(ls), p)
    BY <2>6, <2>8, <2>9, SeqEqual
  <2>11. Concat(Append(ones(ls), p)) = Concat(ones(ls)) \o p
    <3>1. ones(ls) \in Seq(Seq(V)) /\ p \in Seq(V)
      BY <2>1, <2>3 DEF W
    <3>. QED  BY <3>1, ConcatGrows, Zenon
  <2>12. ls \o p = r
    <3>. QED  BY DEF p, r
  <2>13. Concat(ones(ls)) = ls
    BY <1>2
  <2>14. Concat(ones(r)) = r
    BY <2>10, <2>11, <2>12, <2>13, Zenon
  <2>. QED  BY <2>2, <2>14 DEF r
<1>3. \A ls \in Seq(V) : ls \in S
  <2>. HIDE DEF S
  <2>. QED  BY <1>1, <1>2, SequencesGrow DEF e
<1>. QED  BY <1>3

(* A text without remarks keeps all its lines.                             *)
LEMMA PlainKeepsLines ==
  ASSUME NEW s \in Seq(Symbol \ {Remark, RemarkEnd})
  PROVE  KeptLines(s) = SplitLines(s)
<1>. DEFINE X == Symbol \ {Remark, RemarkEnd}  V == Seq(X)  ls == SplitLines(s)
            part(i) == IF IsRemark(ls[i]) THEN <<>> ELSE <<ls[i]>>
<1>1. ls \in Seq(V)
  <2>1. s \in Seq(X)
    OBVIOUS
  <2>. HIDE DEF X
  <2>. QED  BY <2>1, SplitTyped DEF LineSeqs
<1>2. \A c : \A t \in V : IsPrefix(<<c>>, t) => c \in X
  <2>. SUFFICES ASSUME NEW c, NEW t \in V, IsPrefix(<<c>>, t) PROVE c \in X
    OBVIOUS
  <2>1. Len(t) \in Nat /\ 1 <= Len(t) /\ SubSeq(<<c>>, 1, 1) = SubSeq(t, 1, 1)
    BY DEF IsPrefix
  <2>2. SubSeq(<<c>>, 1, 1)[1] = c /\ SubSeq(t, 1, 1)[1] = t[1] /\ t[1] \in X
    <3>. HIDE DEF X
    <3>. QED  BY <2>1
  <2>. QED  BY <2>1, <2>2
<1>3. \A t \in V : ~IsRemark(t)
  <2>. SUFFICES ASSUME NEW t \in V, IsRemark(t) PROVE FALSE
    OBVIOUS
  <2>1. Remark \notin X /\ RemarkEnd \notin X
    OBVIOUS
  <2>. HIDE DEF X
  <2>2. TrimSpace(t) \in V
    BY TrimTyped
  <2>. QED  BY <1>2, <2>1, <2>2 DEF IsRemark
<1>4. KeptLines(s) = Concat([i \in DOMAIN ls |-> part(i)])
  BY Zenon DEF KeptLines
<1>. HIDE DEF V, ls
<1>5. \A i \in DOMAIN ls : part(i) = <<ls[i]>>
  <2>1. \A i \in DOMAIN ls : ls[i] \in V
    BY <1>1
  <2>. QED  BY <1>3, <2>1
<1>6. [i \in DOMAIN ls |-> part(i)] = [i \in DOMAIN ls |-> <<ls[i]>>]
  <2>. HIDE DEF part
  <2>. QED  BY <1>5
<1>. HIDE DEF part
<1>7. Concat([i \in DOMAIN ls |-> <<ls[i]>>]) = ls
  BY <1>1, ConcatOfOnes
<1>. QED  BY <1>4, <1>6, <1>7 DEF ls

(* What indents a line ends before a symbol that does not.                 *)
LEMMA IndentIs ==
  ASSUME NEW l \in Seq(Symbol)
  PROVE  /\ Solid(l) # {} => /\ Indent(l) + 1 \in 1..Len(l) /\ l[Indent(l)+1] # Blank
         /\ \A k \in Nat : (k+1 \in 1..Len(l) /\ l[k+1] # Blank /\ \A i \in 1..k : l[i] = Blank) => Indent(l) = k
<1>. DEFINE S == {i \in DOMAIN l : l[i] # Blank}
<1>1. Len(l) \in Nat /\ DOMAIN l = 1..Len(l) /\ S \in SUBSET (1..Len(l))
  OBVIOUS
<1>2. \A j \in 1..Len(l) : l[j] # Blank => S # {} /\ Indent(l) = Min(S) - 1
  <2>. SUFFICES ASSUME NEW j \in 1..Len(l), l[j] # Blank PROVE S # {} /\ Indent(l) = Min(S) - 1
    OBVIOUS
  <2>1. l[j] \in ToSet(l)
    BY <1>1 DEF ToSet
  <2>2. ~\A c \in ToSet(l) : c = Blank
    BY <2>1
  <2>. QED  BY <1>1, <2>2, Zenon DEF Indent
<1>3. S # {} => Min(S) \in S /\ \A k \in S : Min(S) <= k
  <2>. HIDE DEF S
  <2>. QED  BY ONLY <1>1, PlacesHaveEnds
<1>4. ASSUME Solid(l) # {} PROVE Indent(l) + 1 \in 1..Len(l) /\ l[Indent(l)+1] # Blank
  <2>1. PICK j \in 1..Len(l) : l[j] \notin Space
    BY <1>1, <1>4 DEF Solid
  <2>2. l[j] # Blank
    BY <2>1 DEF Space
  <2>3. Min(S) \in S /\ Indent(l) = Min(S) - 1
    BY <1>2, <1>3, <2>2
  <2>4. Min(S) \in 1..Len(l) /\ l[Min(S)] # Blank
    BY <1>1, <2>3
  <2>. HIDE DEF S
  <2>5. (Min(S) - 1) + 1 = Min(S)
    BY <1>1, <2>4
  <2>. QED  BY <2>3, <2>4, <2>5
<1>5. ASSUME NEW k \in Nat, k+1 \in 1..Len(l), l[k+1] # Blank, \A i \in 1..k : l[i] = Blank PROVE Indent(l) = k
  <2>1. k+1 \in S /\ S # {} /\ Indent(l) = Min(S) - 1
    BY <1>1, <1>2, <1>5
  <2>2. Min(S) \in S /\ Min(S) <= k+1
    BY <1>3, <2>1
  <2>3. Min(S) \in 1..Len(l) /\ l[Min(S)] # Blank
    BY <1>1, <2>2
  <2>. HIDE DEF S
  <2>4. Min(S) \notin 1..k
    BY <1>5, <2>3
  <2>5. Min(S) = k+1
    BY <1>1, <2>2, <2>3, <2>4
  <2>. QED  BY <2>1, <2>5
<1>. QED  BY <1>4, <1>5

(* The lines of a block, without the indentation they share: the first and *)
(* the last have words, others have words or nothing.                      *)
Outlined(qs) ==
  /\ qs \in Seq(Seq(LineSymbol)) /\ qs # <<>>
  /\ \A k \in 1..Len(qs) : qs[k] = <<>> \/ Solid(qs[k]) # {}
  /\ Solid(qs[1]) # {} /\ Solid(qs[Len(qs)]) # {}
  /\ \E k \in 1..Len(qs) : Solid(qs[k]) # {} /\ Indent(qs[k]) = 0

(* A line is cut where all of its block begin.                             *)
LEMMA CutLine ==
  ASSUME NEW l \in Seq(LineSymbol), Solid(l) # {}, NEW n \in 0..Indent(l)
  PROVE  /\ SubSeq(l, n+1, Len(l)) \in Seq(LineSymbol) /\ Solid(SubSeq(l, n+1, Len(l))) # {}
         /\ Indent(SubSeq(l, n+1, Len(l))) = Indent(l) - n
<1>. DEFINE v == SubSeq(l, n+1, Len(l))  h == Len(l)  d == Indent(l)
<1>1. l \in Seq(Symbol)
  BY DEF LineSymbol
<1>2. /\ d \in 0..h /\ (\A i \in 1..d : l[i] = Blank) /\ h \in Nat /\ DOMAIN l = 1..h
      /\ d+1 \in 1..h /\ l[d+1] # Blank
  BY <1>1, IndentIsBlank, IndentIs
<1>. HIDE DEF d, h
<1>3. n \in Nat /\ n <= d /\ n+1 \in Nat \ {0} /\ n+1 <= h+1 /\ h <= h /\ h-(n+1)+1 = h-n /\ \A j \in Nat : (n+1)+j-1 = n+j
  BY <1>2 DEF d
<1>4. v \in Seq(LineSymbol) /\ Len(v) = h-n /\ \A j \in 1..h-n : v[j] = l[n+j]
  <2>1. /\ v \in Seq(LineSymbol) /\ Len(v) = h-(n+1)+1 /\ \A j \in 1..h-(n+1)+1 : v[j] = l[(n+1)+j-1]
    <3>1. n+1 \in Nat \ {0} /\ Len(l) \in Nat /\ Len(l) <= Len(l) /\ n+1 <= Len(l)+1
      BY <1>2, <1>3 DEF h
    <3>. DEFINE a == n+1
    <3>. HIDE DEF a
    <3>2. /\ SubSeq(l, a, Len(l)) \in Seq(LineSymbol) /\ Len(SubSeq(l, a, Len(l))) = Len(l)-a+1
          /\ \A j \in 1..Len(l)-a+1 : SubSeq(l, a, Len(l))[j] = l[a+j-1]
      BY ONLY l \in Seq(LineSymbol), <3>1, RunIs DEF a
    <3>. QED  BY <3>2 DEF a, h, v
  <2>. HIDE DEF v
  <2>. QED  BY <1>2, <1>3, <2>1
<1>. HIDE DEF v
<1>5. v \in Seq(Symbol) /\ DOMAIN v = 1..h-n
  BY <1>2, <1>3, <1>4 DEF LineSymbol
<1>6. Indent(v) = d-n
  <2>1. d-n \in Nat /\ (d-n)+1 \in 1..h-n /\ n+((d-n)+1) = d+1 /\ \A i \in 1..d-n : n+i \in 1..d /\ i \in 1..h-n
    BY <1>2, <1>3
  <2>2. v[(d-n)+1] # Blank /\ \A i \in 1..d-n : v[i] = Blank
    BY <1>2, <1>4, <2>1
  <2>3. (d-n)+1 \in 1..Len(v)
    BY <1>4, <2>1
  <2>. QED  BY <1>5, <2>1, <2>2, <2>3, IndentIs
<1>7. Solid(v) # {}
  <2>1. PICK j \in 1..h : l[j] \notin Space
    BY <1>2 DEF Solid
  <2>2. j \notin 1..n
    <3>1. \A i \in 1..n : i \in 1..d
      BY <1>2, <1>3
    <3>2. Blank \in Space
      BY DEF Space
    <3>. QED  BY <1>2, <2>1, <3>1, <3>2
  <2>3. j-n \in 1..h-n /\ n+(j-n) = j
    BY <1>2, <1>3, <2>2
  <2>4. v[j-n] \notin Space
    BY <1>4, <2>1, <2>3
  <2>. QED  BY <1>5, <2>3, <2>4 DEF Solid
<1>. QED  BY <1>4, <1>6, <1>7 DEF v, h, d

(* What dedent leaves of a block.                                          *)
LEMMA DedentOutlines ==
  ASSUME NEW s \in Seq(Symbol), dedent(s) # <<>>
  PROVE  \E qs : Outlined(qs) /\ dedent(s) = JoinLines(qs)
<1>. DEFINE V == Seq(LineSymbol)
            ls == SplitLines(s)
            full == {i \in DOMAIN ls : Solid(ls[i]) # {}}
            I == {Indent(ls[i]) : i \in full}
            shared == Min(I)
            cut(l) == IF Solid(l) = {} THEN <<>> ELSE SubSeq(l, shared + 1, Len(l))
            first == Min(full)
            last == Max(full)
            M == last - first + 1
            N == Len(ls)
            qs == [k \in 1..M |-> cut(ls[first + k - 1])]
<1>1. dedent(s) = IF full = {} THEN <<>> ELSE JoinLines(qs)
  BY Zenon DEF dedent
<1>2. full # {} /\ dedent(s) = JoinLines(qs)
  BY <1>1
<1>3. ls \in Seq(V)
  BY LinesEnd DEF LineSeqs
<1>v. \A l \in V : l \in Seq(Symbol)
  BY DEF LineSymbol
<1>e. <<>> \in V
  OBVIOUS
<1>. HIDE DEF ls, V
<1>4. N \in Nat /\ DOMAIN ls = 1..N /\ (\A i \in 1..N : ls[i] \in V) /\ full \in SUBSET (1..N)
  BY <1>3
<1>. HIDE DEF N
<1>5. first \in 1..N /\ last \in 1..N /\ first \in full /\ last \in full /\ \A k \in full : first <= k /\ k <= last
  <2>. HIDE DEF full
  <2>. QED  BY ONLY <1>2, <1>4, PlacesHaveEnds DEF first, last
<1>6. shared \in I /\ shared \in Nat /\ \A i \in full : shared <= Indent(ls[i])
  <2>1. \A i \in 1..N : Indent(ls[i]) \in Nat
    <3>1. \A l \in Seq(Symbol) : Indent(l) \in Nat
      BY IndentTyped
    <3>. QED  BY <1>4, <1>v, <3>1
  <2>2. I # {} /\ I \in SUBSET Nat /\ \A i \in full : Indent(ls[i]) \in I
    <3>. HIDE DEF full
    <3>. QED  BY <1>2, <1>4, <2>1
  <2>. HIDE DEF I
  <2>3. Min(I) \in I /\ \A k \in I : Min(I) <= k
    BY ONLY <2>2, LeastIsMin
  <2>. HIDE DEF full
  <2>. QED  BY <2>2, <2>3
<1>7. PICK low \in full : Indent(ls[low]) = shared
  <2>. HIDE DEF full, shared
  <2>. QED  BY <1>6
<1>8. \A i \in full : Solid(ls[i]) # {}
  OBVIOUS
<1>9. \A i \in 1..N : i \notin full => Solid(ls[i]) = {}
  BY <1>4
<1>. HIDE DEF shared, first, last, full
<1>10. ASSUME NEW i \in full
       PROVE  cut(ls[i]) \in V /\ Solid(cut(ls[i])) # {} /\ Indent(cut(ls[i])) = Indent(ls[i]) - shared
  <2>1. ls[i] \in Seq(LineSymbol) /\ Solid(ls[i]) # {} /\ i \in 1..N
    BY <1>4, <1>8 DEF V
  <2>2. Indent(ls[i]) \in Nat
    <3>1. ls[i] \in Seq(Symbol)
      BY <1>4, <1>v, <2>1
    <3>. QED  BY <3>1, IndentTyped
  <2>3. shared \in 0..Indent(ls[i])
    BY <1>6, <2>2
  <2>4. cut(ls[i]) = SubSeq(ls[i], shared + 1, Len(ls[i]))
    BY <2>1
  <2>. DEFINE l == ls[i]
  <2>. HIDE DEF cut, l
  <2>5. /\ SubSeq(l, shared+1, Len(l)) \in Seq(LineSymbol) /\ Solid(SubSeq(l, shared+1, Len(l))) # {}
        /\ Indent(SubSeq(l, shared+1, Len(l))) = Indent(l) - shared
    BY <2>1, <2>3, CutLine DEF l
  <2>. QED  BY <2>4, <2>5 DEF l, V
<1>11. ASSUME NEW i \in 1..N, i \notin full PROVE cut(ls[i]) = <<>>
  BY <1>9, <1>11
<1>. HIDE DEF cut
<1>12. M \in Nat /\ M >= 1 /\ (\A k \in 1..M : first + k - 1 \in 1..N) /\ first + 1 - 1 = first /\ first + M - 1 = last
       /\ 1 \in 1..M /\ M \in 1..M
  BY <1>4, <1>5
<1>13. qs \in Seq(V) /\ Len(qs) = M /\ \A k \in 1..M : qs[k] = cut(ls[first + k - 1])
  <2>1. \A i \in 1..N : cut(ls[i]) \in V
    BY <1>e, <1>10, <1>11
  <2>2. \A k \in 1..M : cut(ls[first + k - 1]) \in V
    BY <1>12, <2>1
  <2>. HIDE DEF M
  <2>. QED  BY <1>12, <2>2
<1>. HIDE DEF qs
<1>14. qs # <<>>
  BY <1>12, <1>13
<1>. HIDE DEF M
<1>15. \A k \in 1..M : qs[k] = <<>> \/ Solid(qs[k]) # {}
  BY <1>10, <1>11, <1>12, <1>13
<1>16. Solid(qs[1]) # {} /\ Solid(qs[M]) # {}
  BY <1>5, <1>10, <1>12, <1>13
<1>17. \E k \in 1..M : Solid(qs[k]) # {} /\ Indent(qs[k]) = 0
  <2>1. low - first + 1 \in 1..M /\ first + (low - first + 1) - 1 = low
    BY <1>4, <1>5, <1>7 DEF M
  <2>2. qs[low - first + 1] = cut(ls[low])
    BY <1>13, <2>1
  <2>3. Indent(ls[low]) - shared = 0
    BY <1>6, <1>7
  <2>. QED  BY <1>7, <1>10, <2>1, <2>2, <2>3
<1>18. Outlined(qs)
  BY <1>13, <1>14, <1>15, <1>16, <1>17 DEF Outlined, V
<1>. QED  BY <1>2, <1>18

(* A run of blanks before each line that is not empty.                     *)
Indented(qs, ind) == [k \in DOMAIN qs |-> IF qs[k] = <<>> THEN <<>> ELSE ind \o qs[k]]

(* A line behind blanks is cut back to itself.                             *)
LEMMA LineIndented ==
  ASSUME NEW l \in Seq(LineSymbol), Solid(l) # {},
         NEW ind \in Seq(LineSymbol), \A j \in 1..Len(ind) : ind[j] = Blank
  PROVE  /\ ind \o l \in Seq(LineSymbol) /\ Solid(ind \o l) # {}
         /\ Indent(ind \o l) = Len(ind) + Indent(l)
         /\ SubSeq(ind \o l, Len(ind)+1, Len(ind \o l)) = l
<1>. DEFINE r == ind \o l  n == Len(ind)  h == Len(l)  d == Indent(l)  v == SubSeq(r, n+1, Len(r))
<1>1. l \in Seq(Symbol) /\ ind \in Seq(Symbol)
  BY DEF LineSymbol
<1>2. /\ d \in 0..h /\ (\A i \in 1..d : l[i] = Blank) /\ h \in Nat /\ DOMAIN l = 1..h
      /\ d+1 \in 1..h /\ l[d+1] # Blank /\ n \in Nat
  BY <1>1, IndentIsBlank, IndentIs
<1>3. r \in Seq(LineSymbol) /\ Len(r) = n+h /\ (\A j \in 1..n : r[j] = ind[j]) /\ \A j \in 1..h : r[n+j] = l[j]
  BY OneAndOther
<1>4. r \in Seq(Symbol)
  BY <1>3 DEF LineSymbol
<1>. HIDE DEF r, n, h, d
<1>5. DOMAIN r = 1..n+h
  BY <1>3
<1>6. Indent(r) = n+d
  <2>1. n+d \in Nat /\ (n+d)+1 \in 1..n+h /\ (n+d)+1 = n+(d+1)
    BY <1>2
  <2>2. \A i \in 1..n+d : i \in 1..n \/ (i-n \in 1..d /\ i-n \in 1..h /\ n+(i-n) = i)
    BY <1>2
  <2>3. r[(n+d)+1] # Blank
    BY <1>2, <1>3, <2>1
  <2>4. \A i \in 1..n+d : r[i] = Blank
    <3>. SUFFICES ASSUME NEW i \in 1..n+d PROVE r[i] = Blank
      OBVIOUS
    <3>1. CASE i \in 1..n
      BY <1>3, <3>1 DEF n
    <3>2. CASE i \notin 1..n
      <4>1. i-n \in 1..d /\ i-n \in 1..h /\ n+(i-n) = i
        BY <2>2, <3>2
      <4>. QED  BY <1>2, <1>3, <4>1
    <3>. QED  BY <3>1, <3>2
  <2>. QED  BY <1>3, <1>4, <2>1, <2>3, <2>4, IndentIs
<1>7. Solid(r) # {}
  <2>1. PICK j \in 1..h : l[j] \notin Space
    BY <1>2 DEF Solid
  <2>2. n+j \in 1..n+h
    BY <1>2
  <2>. QED  BY <1>3, <1>5, <2>1, <2>2 DEF Solid
<1>8. v = l
  <2>. DEFINE a == n+1
  <2>1. a \in Nat \ {0} /\ Len(r) \in Nat /\ Len(r) <= Len(r) /\ a <= Len(r)+1 /\ Len(r)-a+1 = h
        /\ \A j \in 1..h : a+j-1 = n+j
    BY <1>2, <1>3
  <2>. HIDE DEF a
  <2>2. /\ SubSeq(r, a, Len(r)) \in Seq(LineSymbol) /\ Len(SubSeq(r, a, Len(r))) = Len(r)-a+1
        /\ \A j \in 1..Len(r)-a+1 : SubSeq(r, a, Len(r))[j] = r[a+j-1]
    BY ONLY <1>3, <2>1, RunIs
  <2>3. v = SubSeq(r, a, Len(r))
    BY DEF a
  <2>. HIDE DEF v
  <2>4. v \in Seq(LineSymbol) /\ Len(v) = h /\ \A j \in 1..h : v[j] = l[j]
    BY <1>3, <2>1, <2>2, <2>3
  <2>. QED  BY <2>4, SeqEqual DEF h
<1>. QED  BY <1>3, <1>6, <1>7, <1>8 DEF r, n, d, v

(* Blanks before the lines of a block do not change what dedent leaves.    *)
LEMMA IndentedKeepsShape ==
  ASSUME NEW qs, Outlined(qs), NEW ind \in Seq(LineSymbol), \A j \in 1..Len(ind) : ind[j] = Blank
  PROVE  /\ SplitLines(JoinLines(qs)) = qs
         /\ SplitLines(JoinLines(Indented(qs, ind))) = Indented(qs, ind)
         /\ dedent(JoinLines(Indented(qs, ind))) = JoinLines(qs)
         /\ Indent(Indented(qs, ind)[1]) = Len(ind) + Indent(qs[1])
<1>. DEFINE V == Seq(LineSymbol)
            ls == Indented(qs, ind)
            n == Len(ind)
            full == {i \in DOMAIN ls : Solid(ls[i]) # {}}
            I == {Indent(ls[i]) : i \in full}
            shared == Min(I)
            cut(l) == IF Solid(l) = {} THEN <<>> ELSE SubSeq(l, shared + 1, Len(l))
            first == Min(full)
            last == Max(full)
            M == last - first + 1
            N == Len(qs)
            cs == [k \in 1..M |-> cut(ls[first + k - 1])]
<1>1. /\ qs \in Seq(V) /\ N \in Nat \ {0} /\ DOMAIN qs = 1..N /\ 1 \in 1..N /\ N \in 1..N
      /\ \A k \in 1..N : qs[k] = <<>> \/ Solid(qs[k]) # {}
      /\ Solid(qs[1]) # {} /\ Solid(qs[N]) # {}
      /\ \E k \in 1..N : Solid(qs[k]) # {} /\ Indent(qs[k]) = 0
  <2>1. qs \in Seq(V) /\ qs # <<>>
    BY DEF Outlined
  <2>2. N \in Nat \ {0} /\ DOMAIN qs = 1..N
    <3>. HIDE DEF V
    <3>. QED  BY <2>1
  <2>3. /\ \A k \in 1..N : qs[k] = <<>> \/ Solid(qs[k]) # {}
        /\ Solid(qs[1]) # {} /\ Solid(qs[N]) # {}
        /\ \E k \in 1..N : Solid(qs[k]) # {} /\ Indent(qs[k]) = 0
    BY Zenon DEF Outlined
  <2>. HIDE DEF N, V
  <2>4. 1 \in 1..N /\ N \in 1..N
    BY <2>2
  <2>. QED  BY <2>1, <2>2, <2>3, <2>4, Zenon
<1>2. n \in Nat /\ ind \in V
  OBVIOUS
<1>e. <<>> \in V /\ Solid(<<>>) = {}
  BY DEF Solid
<1>l. \A l \in V : Solid(l) # {} => /\ ind \o l \in V /\ Solid(ind \o l) # {}
                                    /\ Indent(ind \o l) = n + Indent(l) /\ Indent(l) \in Nat
                                    /\ SubSeq(ind \o l, n+1, Len(ind \o l)) = l
  <2>1. \A l \in V : Indent(l) \in Nat
    BY IndentTyped
  <2>. QED  BY <2>1, LineIndented
<1>. HIDE DEF V, n, N
<1>3. \A k \in 1..N : qs[k] \in V
  BY <1>1
<1>4. \A k \in 1..N : ls[k] = IF qs[k] = <<>> THEN <<>> ELSE ind \o qs[k]
  BY <1>1 DEF Indented
<1>5. \A k \in 1..N : ls[k] \in V
  <2>. HIDE DEF ls
  <2>. QED  BY <1>1, <1>3, <1>4, <1>e, <1>l
<1>6. ls \in Seq(V) /\ Len(ls) = N /\ DOMAIN ls = 1..N /\ ls # <<>>
  <2>1. ls = [k \in 1..N |-> ls[k]]
    BY <1>1 DEF Indented
  <2>. HIDE DEF ls
  <2>2. ls \in Seq(V) /\ Len(ls) = N
    BY <1>1, <1>5, <2>1
  <2>. QED  BY <1>1, <2>2
<1>. HIDE DEF ls
<1>7. SplitLines(JoinLines(ls)) = ls /\ SplitLines(JoinLines(qs)) = qs
  <2>1. qs # <<>>
    BY DEF Outlined
  <2>. QED  BY <1>1, <1>6, <2>1, JoinSplits DEF V
<1>8. dedent(JoinLines(ls)) = IF full = {} THEN <<>> ELSE JoinLines(cs)
  BY <1>7, Zenon DEF dedent
<1>9. \A k \in 1..N : /\ k \in full <=> qs[k] # <<>>
                      /\ k \in full => Solid(qs[k]) # {}
                      /\ qs[k] # <<>> => ls[k] = ind \o qs[k]
                      /\ qs[k] = <<>> => ls[k] = <<>>
  BY <1>1, <1>3, <1>4, <1>6, <1>e, <1>l
<1>10. full \in SUBSET (1..N) /\ 1 \in full /\ N \in full /\ full # {}
  <2>1. qs[1] # <<>> /\ qs[N] # <<>>
    BY <1>1, <1>e
  <2>2. full \in SUBSET (1..N)
    BY <1>6
  <2>. HIDE DEF full
  <2>. QED  BY <1>1, <1>9, <2>1, <2>2
<1>11. \A k \in full : Indent(ls[k]) = n + Indent(qs[k]) /\ Indent(qs[k]) \in Nat
  <2>. HIDE DEF full
  <2>. QED  BY <1>3, <1>9, <1>10, <1>l
<1>. DEFINE S == {k \in 1..N : Solid(ls[k]) # {}}
<1>12. first = 1 /\ last = N
  <2>. HIDE DEF full
  <2>1. first \in full /\ last \in full /\ \A k \in full : first <= k /\ k <= last
    BY ONLY <1>1, <1>10, PlacesHaveEnds DEF first, last
  <2>2. first \in 1..N /\ last \in 1..N /\ first <= 1 /\ N <= last
    BY <1>10, <2>1
  <2>. HIDE DEF first, last
  <2>. QED  BY <1>1, <2>2
<1>13. shared = n
  <2>1. PICK low \in 1..N : Solid(qs[low]) # {} /\ Indent(qs[low]) = 0
    BY <1>1
  <2>2. low \in full
    <3>1. qs[low] # <<>>
      BY <1>e, <2>1
    <3>. HIDE DEF full
    <3>. QED  BY <1>9, <3>1
  <2>3. I \in SUBSET Nat /\ n \in I /\ I # {} /\ \A k \in I : n <= k
    <3>. HIDE DEF full
    <3>1. Indent(ls[low]) = n
      BY <1>2, <1>11, <2>1, <2>2
    <3>2. \A k \in full : Indent(ls[k]) \in Nat /\ n <= Indent(ls[k])
      BY <1>2, <1>11
    <3>. QED  BY <2>2, <3>1, <3>2
  <2>. HIDE DEF I
  <2>4. Min(I) \in I /\ \A k \in I : Min(I) <= k
    BY ONLY <2>3, LeastIsMin
  <2>5. Min(I) <= n /\ n <= Min(I) /\ Min(I) \in Nat
    BY <2>3, <2>4
  <2>. QED  BY <1>2, <2>5
<1>14. M = N /\ \A k \in 1..N : first + k - 1 = k
  <2>. HIDE DEF first, last
  <2>. QED  BY <1>1, <1>12
<1>15. \A k \in 1..N : cut(ls[k]) = qs[k]
  <2>. SUFFICES ASSUME NEW k \in 1..N PROVE cut(ls[k]) = qs[k]
    OBVIOUS
  <2>. HIDE DEF full, shared
  <2>1. CASE qs[k] = <<>>
    <3>1. Solid(ls[k]) = {}
      BY <1>9, <1>e, <2>1
    <3>. QED  BY <2>1, <3>1
  <2>2. CASE qs[k] # <<>>
    <3>1. ls[k] = ind \o qs[k] /\ Solid(qs[k]) # {} /\ qs[k] \in V
      BY <1>3, <1>9, <2>2
    <3>2. Solid(ind \o qs[k]) # {} /\ SubSeq(ind \o qs[k], n+1, Len(ind \o qs[k])) = qs[k]
      BY <1>l, <3>1
    <3>3. Solid(ls[k]) # {} /\ SubSeq(ls[k], shared+1, Len(ls[k])) = qs[k]
      BY <1>13, <3>1, <3>2, Zenon
    <3>. QED  BY <3>3, Zenon
  <2>. QED  BY <2>1, <2>2
<1>. HIDE DEF cut, first, last, M
<1>16. cs = qs
  <2>1. \A k \in 1..N : cut(ls[first + k - 1]) = qs[k]
    BY <1>14, <1>15
  <2>2. cs = [k \in 1..N |-> qs[k]]
    BY <1>14, <2>1
  <2>3. qs = [k \in 1..N |-> qs[k]]
    BY <1>1
  <2>. HIDE DEF cs
  <2>. QED  BY <2>2, <2>3
<1>. HIDE DEF cs, full
<1>17. dedent(JoinLines(ls)) = JoinLines(qs)
  BY <1>8, <1>10, <1>16
<1>18. Indent(ls[1]) = n + Indent(qs[1])
  BY <1>10, <1>11
<1>. QED  BY <1>7, <1>17, <1>18 DEF ls, n

-----------------------------------------------------------------------------
(* The middle of three texts.                                              *)
InTheMiddle(p, a, c) ==
  LET t == (p \o a) \o c IN SubSeq(t, Len(p)+1, Len(t) - Len(c)) = a

(* It is there.                                                            *)
LEMMA MiddleIs ==
  ASSUME NEW p \in Seq(Symbol), NEW a \in Seq(Symbol), NEW c \in Seq(Symbol)
  PROVE  InTheMiddle(p, a, c)
<1>. DEFINE q == p \o a  t == q \o c  l == Len(p)  h == Len(a)  b == l+1  e == Len(t) - Len(c)  v == SubSeq(t, b, e)
<1>1. l \in Nat /\ h \in Nat /\ Len(c) \in Nat
  OBVIOUS
<1>2. q \in Seq(Symbol) /\ Len(q) = l+h /\ \A j \in 1..h : q[l+j] = a[j]
  BY OneAndOther
<1>. HIDE DEF q, l, h
<1>3. t \in Seq(Symbol) /\ Len(t) = (l+h) + Len(c) /\ \A j \in 1..l+h : t[j] = q[j]
  <2>1. \A u, w \in Seq(Symbol) :
          /\ u \o w \in Seq(Symbol) /\ Len(u \o w) = Len(u) + Len(w) /\ \A j \in 1..Len(u) : (u \o w)[j] = u[j]
    BY OneAndOther
  <2>2. t \in Seq(Symbol) /\ Len(t) = Len(q) + Len(c) /\ \A j \in 1..Len(q) : t[j] = q[j]
    BY <1>2, <2>1, Zenon
  <2>. HIDE DEF t
  <2>. QED  BY <1>2, <2>2
<1>. HIDE DEF t
<1>4. e \in Nat /\ e = l+h /\ e <= Len(t) /\ b \in Nat \ {0} /\ b <= e+1 /\ e-b+1 = h /\ \A j \in 1..h : b+j-1 = l+j /\ l+j \in 1..l+h
  BY <1>1, <1>3
<1>. HIDE DEF b, e
<1>5. v \in Seq(Symbol) /\ Len(v) = e-b+1 /\ \A j \in 1..e-b+1 : v[j] = t[b+j-1]
  BY ONLY <1>3, <1>4, RunIs
<1>. HIDE DEF v
<1>6. \A j \in 1..h : v[j] = a[j]
  BY <1>2, <1>3, <1>4, <1>5
<1>7. v = a
  BY <1>4, <1>5, <1>6, SeqEqual DEF h
<1>. QED  BY <1>7 DEF v, e, b, l, t, q, InTheMiddle

(* A finished edit of one block keeps the block's place in the indentation. *)
KeepsIndentation(d) ==
  \E m \in BlockOccurrences(d.before, d.op.find) :
    LET line == m.from - 1 - Max({n \in 0..m.from-1 : n = 0 \/ d.before[n] = NL})
        cut == Len(d.before) - (m.to - 1)
        region == SubSeq(d.after, m.from - line, Len(d.after) - cut)
    IN /\ dedent(region) = Shape(d.op)
       /\ Indent(SplitLines(region)[1]) = line + Indent(SplitLines(Shape(d.op))[1])

(* The lines of a replacement go behind the blanks that were there.        *)
LEMMA AlignedIs ==
  ASSUME NEW replace \in Seq(Symbol), {Remark, RemarkEnd} \cap ToSet(replace) = {}, dedent(replace) # <<>>,
         NEW ind \in Seq(LineSymbol), \A j \in 1..Len(ind) : ind[j] = Blank
  PROVE  /\ dedent(alignReplace(dedent(replace), ind)) = dedent(replace)
         /\ Indent(SplitLines(alignReplace(dedent(replace), ind))[1])
              = Len(ind) + Indent(SplitLines(dedent(replace))[1])
<1>. DEFINE clean == dedent(replace)  X == Symbol \ {Remark, RemarkEnd}  ls == Indented(SplitLines(clean), ind)
<1>1. PICK qs : Outlined(qs) /\ clean = JoinLines(qs)
  BY DedentOutlines
<1>2. replace \in Seq(X)
  <2>1. \A j \in 1..Len(replace) : replace[j] \in X
    BY DEF ToSet
  <2>. HIDE DEF X
  <2>. QED  BY <2>1
<1>3. NL \in X
  BY DEF Symbol, NL, Remark, RemarkEnd
<1>4. KeptLines(clean) = SplitLines(clean)
  <2>1. clean \in Seq(X)
    <3>. HIDE DEF X
    <3>. QED  BY <1>2, <1>3, DedentTyped
  <2>. HIDE DEF clean
  <2>. QED  BY <2>1, PlainKeepsLines
<1>. HIDE DEF clean
<1>5. alignReplace(clean, ind) = JoinLines([i \in DOMAIN KeptLines(clean) |->
                                    IF KeptLines(clean)[i] = <<>> THEN <<>> ELSE ind \o KeptLines(clean)[i]])
  BY Zenon DEF alignReplace
<1>6. alignReplace(clean, ind) = JoinLines(ls)
  BY <1>4, <1>5, Zenon DEF Indented
<1>7. /\ SplitLines(JoinLines(qs)) = qs
      /\ SplitLines(JoinLines(Indented(qs, ind))) = Indented(qs, ind)
      /\ dedent(JoinLines(Indented(qs, ind))) = JoinLines(qs)
      /\ Indent(Indented(qs, ind)[1]) = Len(ind) + Indent(qs[1])
  BY <1>1, IndentedKeepsShape
<1>8. SplitLines(clean) = qs /\ ls = Indented(qs, ind)
  BY <1>1, <1>7
<1>. HIDE DEF ls
<1>9. dedent(alignReplace(clean, ind)) = clean
  BY <1>1, <1>6, <1>7, <1>8, Zenon
<1>10. Indent(SplitLines(alignReplace(clean, ind))[1]) = Len(ind) + Indent(SplitLines(clean)[1])
  BY <1>6, <1>7, <1>8, Zenon
<1>. QED  BY <1>9, <1>10 DEF clean

(* A finished edit does so unless its block was pasted sunken.             *)
LEMMA BlockIsIndented ==
  ASSUME NEW d, FreeBlock(d), d.op \in EditOperation, d.before \in Seq(Symbol),
         d.applied = AppliedMatches(d.before, d.op), d.applied = 1,
         d.after = applyCommand(d.before, d.op).text,
         ~Sunken(d.op.find), {Remark, RemarkEnd} \cap ToSet(d.op.replace) = {}, Shape(d.op) # <<>>
  PROVE  KeepsIndentation(d)
<1>. DEFINE s == d.before  op == d.op  x == Blocks(s, op.find)[1]  O == BlockOccurrences(s, op.find)
            a == Aligned(s, x, op.replace)  p == SubSeq(s, 1, x.line-1)  c == SubSeq(s, x.to, Len(s))
            sunk == Sunken(op.find)  n == Len(s)
<1>1. /\ Solid(op.find) # {} /\ x \in BlockMatch(n) /\ EndsPlace(s, O, x, sunk)
      /\ x.from <= x.line /\ a \in Seq(Symbol) /\ d.after = (p \o a) \o c
  BY FreeBlockWrites
<1>r. op.replace \in Seq(Symbol)
  BY DEF EditOperation
<1>2. a = alignReplace(dedent(op.replace), SubSeq(s, x.line, x.body - 1)) /\ dedent(op.replace) # <<>>
  BY Zenon DEF Aligned, Shape
<1>. HIDE DEF x, a, O, s
<1>3. x.line \in 1..n+1 /\ x.to \in 1..n+1 /\ x.from \in Nat /\ x.body \in Nat /\ n \in Nat /\ s \in Seq(Symbol)
  BY <1>1 DEF BlockMatch, s
<1>4. PICK f \in Nat : [from |-> f, to |-> x.to] \in O /\ GoesOnAt(s, x, f, sunk)
  BY <1>1 DEF EndsPlace
<1>5. /\ StartsLine(s, x.line) /\ x.from <= x.line /\ x.line <= f /\ x.body = f
      /\ (\A j \in x.line..f-1 : s[j] = Blank)
  BY <1>4 DEF GoesOnAt
<1>f. f \in 1..n
  <2>1. [from |-> f, to |-> x.to] \in Stretches(s)
    BY <1>4 DEF O, BlockOccurrences
  <2>2. \A w \in Stretches(s) : w.from \in 1..n
    BY <1>3 DEF Stretches
  <2>3. [from |-> f, to |-> x.to].from = f
    OBVIOUS
  <2>. HIDE DEF n
  <2>. QED  BY <2>1, <2>2, <2>3, Zenon
<1>. DEFINE m == [from |-> f, to |-> x.to]  b == x.line  ind == SubSeq(s, b, f-1)
            T == {k \in 0..f-1 : k = 0 \/ s[k] = NL}
<1>6. Max(T) = b-1
  <2>1. b-1 \in T /\ T \in SUBSET (0..f-1) /\ f-1 \in Nat
    BY <1>3, <1>5, <1>f DEF StartsLine
  <2>2. \A k \in T : k <= b-1
    <3>. SUFFICES ASSUME NEW k \in T, ~(k <= b-1) PROVE FALSE
      OBVIOUS
    <3>1. k \in b..f-1 /\ k # 0 /\ s[k] = NL
      BY <1>3, <1>5, <1>f
    <3>2. NL # Blank
      BY DEF NL, Blank
    <3>. QED  BY <1>5, <3>1, <3>2
  <2>. HIDE DEF T
  <2>3. Max(T) \in T /\ \A k \in T : k <= Max(T)
    BY ONLY <2>1, GreatestNatural
  <2>4. Max(T) <= b-1 /\ b-1 <= Max(T) /\ Max(T) \in 0..f-1
    BY <2>1, <2>2, <2>3
  <2>. QED  BY <1>3, <2>4
<1>7. /\ ind \in Seq(LineSymbol) /\ Len(ind) = f-b /\ \A j \in 1..Len(ind) : ind[j] = Blank
  <2>. DEFINE e == f-1
  <2>1. b \in Nat \ {0} /\ e \in Nat /\ e <= Len(s) /\ b <= e+1 /\ e-b+1 = f-b /\ \A j \in 1..e-b+1 : b+j-1 \in b..f-1
    BY <1>3, <1>5, <1>f
  <2>. HIDE DEF e, b, n
  <2>2. SubSeq(s, b, e) \in Seq(Symbol) /\ Len(SubSeq(s, b, e)) = e-b+1 /\ \A j \in 1..e-b+1 : SubSeq(s, b, e)[j] = s[b+j-1]
    BY ONLY <1>3, <2>1, RunIs
  <2>3. ind = SubSeq(s, b, e)
    BY DEF e
  <2>. HIDE DEF ind
  <2>4. \A j \in 1..Len(ind) : ind[j] = Blank
    BY <1>5, <2>1, <2>2, <2>3 DEF b
  <2>5. Blank \in LineSymbol
    BY DEF LineSymbol, Symbol, Blank, NL
  <2>6. ind \in Seq(LineSymbol)
    <3>1. \A q \in Seq(Symbol) : (\A j \in 1..Len(q) : q[j] \in LineSymbol) => q \in Seq(LineSymbol)
      <4>. DEFINE Y == LineSymbol
      <4>. HIDE DEF Y
      <4>1. \A q \in Seq(Symbol) : (\A j \in 1..Len(q) : q[j] \in Y) => q \in Seq(Y)
        OBVIOUS
      <4>. QED  BY <4>1 DEF Y
    <3>2. \A j \in 1..Len(ind) : ind[j] \in LineSymbol
      BY <2>4, <2>5
    <3>. QED  BY <2>2, <2>3, <3>1, <3>2
  <2>. QED  BY <2>1, <2>2, <2>3, <2>4, <2>6
<1>8. /\ dedent(a) = Shape(op) /\ Indent(SplitLines(a)[1]) = (f-b) + Indent(SplitLines(Shape(op))[1])
  <2>1. a = alignReplace(dedent(op.replace), ind)
    BY <1>2, <1>5, Zenon
  <2>. HIDE DEF ind, b
  <2>. QED  BY <1>2, <1>7, <1>r, <2>1, AlignedIs DEF Shape
<1>9. p \in Seq(Symbol) /\ Len(p) = b-1 /\ c \in Seq(Symbol) /\ Len(c) = n-x.to+1
  <2>. DEFINE e == b-1
  <2>1. 1 \in Nat \ {0} /\ e \in Nat /\ e <= Len(s) /\ 1 <= e+1 /\ e-1+1 = e
    BY <1>3
  <2>. HIDE DEF e
  <2>2. SubSeq(s, 1, e) \in Seq(Symbol) /\ Len(SubSeq(s, 1, e)) = e-1+1
    BY ONLY <1>3, <2>1, RunIs
  <2>3. c \in Seq(Symbol) /\ Len(c) = n-x.to+1
    BY <1>3, RestTyped
  <2>. QED  BY <2>1, <2>2, <2>3 DEF e
<1>. HIDE DEF p, c, T, ind
<1>10. SubSeq(d.after, Len(p)+1, Len(d.after) - Len(c)) = a
  <2>1. InTheMiddle(p, a, c)
    BY <1>1, <1>9, MiddleIs
  <2>. QED  BY <1>1, <2>1, Zenon DEF InTheMiddle
<1>. DEFINE line == m.from - 1 - Max({k \in 0..m.from-1 : k = 0 \/ s[k] = NL})
            cut == n - (m.to - 1)
            region == SubSeq(d.after, m.from - line, Len(d.after) - cut)
<1>11. m.from = f /\ m.to = x.to
  OBVIOUS
<1>12. line = f - 1 - Max(T)
  BY <1>11, Zenon DEF T
<1>. HIDE DEF m, line
<1>13. line = f-b /\ m.from - line = Len(p)+1 /\ cut = Len(c)
  <2>1. line = f-b
    <3>1. line = f-1-(b-1)
      BY <1>6, <1>12, Zenon
    <3>2. b \in Nat /\ f \in Nat
      BY <1>3
    <3>. HIDE DEF b
    <3>. QED  BY <3>1, <3>2
  <2>2. b \in Nat /\ f \in Nat /\ n \in Nat /\ x.to \in Nat
    BY <1>3
  <2>3. m.from - line = f - (f-b) /\ cut = n - (x.to - 1)
    BY <1>11, <2>1, Zenon
  <2>4. f - (f-b) = b /\ n - (x.to - 1) = n - x.to + 1 /\ Len(p)+1 = b
    <3>. HIDE DEF b, n
    <3>. QED  BY <1>9, <2>2
  <2>. QED  BY <1>9, <2>1, <2>3, <2>4, Zenon
<1>14. region = a
  BY <1>10, <1>13, Zenon
<1>. HIDE DEF region
<1>15. dedent(region) = Shape(op) /\ Indent(SplitLines(region)[1]) = line + Indent(SplitLines(Shape(op))[1])
  BY <1>8, <1>13, <1>14, Zenon
<1>16. m \in O
  BY <1>4 DEF m
<1>. QED  BY <1>15, <1>16, Zenon DEF KeepsIndentation, region, line, cut, n, O, s, op

-----------------------------------------------------------------------------
(* A block that is replaced leaves all around it as it was and takes its   *)
(* indentation with it, the new block starts where the old one did and     *)
(* keeps its shape, and a swap of two identifiers is undone by another     *)
(* (edit.go:292-388, main.go:229-380).                                     *)
THEOREM OnlyPlacesChange == EditSpec => []OnlyThePlacesChange
<1>1. EditIInv /\ History => OnlyThePlacesChange
  <2>. SUFFICES ASSUME EditIInv, History PROVE OnlyThePlacesChange
    OBVIOUS
  <2>1. NothingAround
    <3>. SUFFICES ASSUME NEW d \in Done, FreeBlock(d), d.applied = 1
                  PROVE OnlyItsPlace(d, IF Sunken(d.op.find) THEN White ELSE {Blank})
      BY Zenon DEF NothingAround
    <3>1. Finished(d)
      BY DoneIsFinished
    <3>. QED  BY <3>1, BlockStaysInPlace, Zenon DEF Finished
  <2>2. BlockKeepsItsIndentation
    <3>. SUFFICES ASSUME NEW d \in Done, FreeBlock(d), d.applied = 1, ~Sunken(d.op.find),
                         {Remark, RemarkEnd} \cap ToSet(d.op.replace) = {}, Shape(d.op) # <<>>
                  PROVE KeepsIndentation(d)
      BY Zenon DEF BlockKeepsItsIndentation, KeepsIndentation
    <3>1. Finished(d)
      BY DoneIsFinished
    <3>. QED  BY <3>1, BlockIsIndented, Zenon DEF Finished
  <2>3. SwapTwiceIsNothing
    <3>. SUFFICES ASSUME NEW d \in Done, d.op.kind = "swap_name",
                         UNION {ToSet(n) : n \in ToSet(NamesToSwap(d.op))} \subseteq WordSymbols
                  PROVE /\ SwapNames(d.after, NamesToSwap(d.op)) = d.before
                        /\ Len(Names(d.after, NamesToSwap(d.op))) = d.applied
      BY Zenon DEF SwapTwiceIsNothing
    <3>1. Finished(d)
      BY DoneIsFinished
    <3>. QED  BY <3>1, SwapIsUndone, Zenon DEF Finished
  <2>. QED  BY <2>1, <2>2, <2>3 DEF OnlyThePlacesChange
<1>. QED  BY <1>1, EditHistory, PTL
===============================================================================
