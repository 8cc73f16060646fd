------------------------------ MODULE LineDiff ------------------------------
(***************************************************************************)
(* The line diff of diff.go: what an agent inspects before it applies a    *)
(* preview.  One behaviour is one call of computeChanges: common lines are *)
(* trimmed, Myers' search goes one distance per step, the way back one     *)
(* distance per step, and the edits found are grouped into hunks.  A text  *)
(* is its sequence of lines; only equality of lines matters.               *)
(***************************************************************************)
EXTENDS Integers, Sequences, SequencesExt, FiniteSetsExt

CONSTANTS
  Lines,      \* what a line can be
  MaxLines,   \* bound: lines of a text
  MaxTrace    \* maxMyersTraceInts

ASSUME LineDiffAssumption == MaxLines \in Nat \ {0} /\ MaxTrace \in Nat

VARIABLES
  old, new,       \* the two texts
  prefix,         \* lines trimmed at the start
  before, after,  \* what trimming leaves of them
  stage,          \* "trim", "search", "back", "group", "done"
  distance,       \* of the search, then of the way back
  frontier,       \* the furthest x reached on each diagonal
  trace,          \* the frontiers of distances 0, 1, ...
  x, y,           \* where the way back stands
  edits,          \* the edit script
  hunks           \* the result

input == <<old, new>>
middle == <<prefix, before, after>>
search == <<frontier, trace>>
diffVars == <<input, middle, stage, distance, search, x, y, edits, hunks>>

\* splitDiffLines returns at least one line, if only an empty one.
Texts == BoundedSeq(Lines, MaxLines) \ {<<>>}

Hunk(start, removed, added) == [old_start |-> start, removed |-> removed, added |-> added]
Edit(kind, text) == [kind |-> kind, text |-> text]

DiffInit ==
  /\ old \in Texts /\ new \in Texts
  /\ prefix = 0 /\ before = <<>> /\ after = <<>>
  /\ stage = "trim" /\ distance = 0
  /\ frontier = <<>> /\ trace = <<>>
  /\ x = 0 /\ y = 0 /\ edits = <<>> /\ hunks = <<>>

-----------------------------------------------------------------------------
(* Trimming. *)

CommonPrefix(a, b) ==
  Max({n \in 0..Min({Len(a), Len(b)}) : SubSeq(a, 1, n) = SubSeq(b, 1, n)})

\* The last n lines.
Tails(a, n) == SubSeq(a, Len(a) - n + 1, Len(a))

\* Mutant of CommonSuffix: the suffix may run into the prefix.
CommonSuffixLong(a, b, start) ==
  Max({n \in 0..Min({Len(a), Len(b)}) : Tails(a, n) = Tails(b, n)})

\* The common end of what follows the first start lines.
CommonSuffix(a, b, start) ==
  Max({n \in 0..Min({Len(a), Len(b)}) - start : Tails(a, n) = Tails(b, n)})

Trim ==
  /\ stage = "trim"
  /\ LET start == CommonPrefix(old, new)
         end == CommonSuffix(old, new, start)
         a == SubSeq(old, start + 1, Len(old) - end)
         b == SubSeq(new, start + 1, Len(new) - end)
         top == Len(a) + Len(b) + 1
     IN /\ prefix' = start /\ before' = a /\ after' = b
        /\ IF a = <<>> \/ b = <<>>
             THEN /\ stage' = "done"
                  /\ hunks' = IF old = new THEN <<>> ELSE <<Hunk(start + 1, a, b)>>
                  /\ UNCHANGED frontier
             ELSE /\ stage' = "search"
                  /\ frontier' = [k \in -top..top |-> 0]
                  /\ UNCHANGED hunks
  /\ UNCHANGED <<input, distance, trace, x, y, edits>>

-----------------------------------------------------------------------------
(* Searching. *)

Limit == Len(before) + Len(after)
Width == 2 * Limit + 3

\* Mutant of Origin: on a tie the path comes down instead of across.
OriginTie(f, d, k) ==
  IF k = -d \/ (k # d /\ f[k - 1] <= f[k + 1]) THEN k + 1 ELSE k - 1

\* The diagonal from which d edits reach diagonal k, by the frontier of d - 1.
Origin(f, d, k) ==
  IF k = -d \/ (k # d /\ f[k - 1] < f[k + 1]) THEN k + 1 ELSE k - 1

\* The equal lines that follow the point (u, v).
Snake(u, v) ==
  Max({0} \union {n \in 0..Min({Len(before) - u, Len(after) - v}) :
                    \A i \in 1..n : before[u + i] = after[v + i]})

Furthest(f, d, k) ==
  LET u == IF Origin(f, d, k) = k + 1 THEN f[k + 1] ELSE f[k - 1] + 1
  IN u + Snake(u, u - k)

Diagonals(d) == {k \in -d..d : (k + d) % 2 = 0}

\* Mutant of WithinBudget: the frontier about to be kept is not counted.
WithinBudgetLate == distance <= Limit /\ Len(trace) * Width <= MaxTrace

WithinBudget == distance <= Limit /\ (Len(trace) + 1) * Width <= MaxTrace

\* The loop writes diagonals of one parity and reads those of the other, so one
\* distance is one function.
Reached(f, d) == [k \in DOMAIN f |-> IF k \in Diagonals(d) THEN Furthest(f, d, k) ELSE f[k]]

\* It stops as soon as a diagonal reaches both ends.
Search ==
  /\ stage = "search"
  /\ WithinBudget
  /\ LET reached == Reached(frontier, distance)
         ended == \E k \in Diagonals(distance) :
                    reached[k] >= Len(before) /\ reached[k] - k >= Len(after)
     IN /\ frontier' = reached
        /\ trace' = Append(trace, reached)
        /\ IF ended
             THEN stage' = "back" /\ x' = Len(before) /\ y' = Len(after) /\ UNCHANGED distance
             ELSE distance' = distance + 1 /\ UNCHANGED <<stage, x, y>>
  /\ UNCHANGED <<input, middle, edits, hunks>>

\* The trace would grow too large: one hunk for all that was not trimmed.
GiveUp ==
  /\ stage = "search"
  /\ ~WithinBudget
  /\ hunks' = <<Hunk(prefix + 1, before, after)>>
  /\ stage' = "done"
  /\ UNCHANGED <<input, middle, distance, search, x, y, edits>>

-----------------------------------------------------------------------------
(* The way back. *)

\* Mutant of Previous: the frontier one distance too far back.
PreviousTooFar == trace[Max({1, distance - 1})]

\* trace counts from 1: its entry d is the frontier of distance d - 1.
Previous == trace[distance]

\* The point the last edit of this distance set out from.
From ==
  LET k == Origin(Previous, distance, x - y) IN <<Previous[k], Previous[k] - k>>

\* Where the equal lines on the way to that point end.
Corner ==
  LET n == Max({0, Min({x - From[1], y - From[2]})}) IN <<x - n, y - n>>

Equals(first, last) == [i \in 1..(last - first + 1) |-> Edit("equal", before[first + i - 1])]

Back ==
  /\ stage = "back"
  /\ distance > 0
  /\ LET u == Corner[1]
         v == Corner[2]
         insert == u = From[1]
     IN /\ edits' = <<IF insert THEN Edit("insert", after[v]) ELSE Edit("delete", before[u])>>
                    \o Equals(u + 1, x) \o edits
        /\ x' = IF insert THEN u ELSE u - 1
        /\ y' = IF insert THEN v - 1 ELSE v
  /\ distance' = distance - 1
  /\ UNCHANGED <<input, middle, stage, search, hunks>>

\* Equal lines down to the first, then whatever one side has left.
BackAtStart ==
  /\ stage = "back"
  /\ distance = 0
  /\ LET n == Min({x, y})
     IN edits' = [i \in 1..(y - n) |-> Edit("insert", after[i])]
                 \o [i \in 1..(x - n) |-> Edit("delete", before[i])]
                 \o Equals(x - n + 1, x) \o edits
  /\ x' = 0 /\ y' = 0
  /\ stage' = "group"
  /\ UNCHANGED <<input, middle, distance, search, hunks>>

-----------------------------------------------------------------------------
(* Grouping. *)

\* Mutant of Grouped: an insertion never joins the deletion before it.
GroupedByKind(g, edit) ==
  LET one == Hunk(g.line, <<>>, <<>>)
  IN CASE edit.kind = "equal" -> [line |-> g.line + 1, found |-> g.found \o g.open, open |-> <<>>]
       [] edit.kind = "delete" ->
            [line |-> g.line + 1, found |-> g.found \o g.open,
             open |-> <<[one EXCEPT !.removed = <<edit.text>>]>>]
       [] edit.kind = "insert" ->
            [line |-> g.line, found |-> g.found \o g.open,
             open |-> <<[one EXCEPT !.added = <<edit.text>>]>>]

\* One edit: an equal line closes the open hunk, the others open one or add to it.
Grouped(g, edit) ==
  LET here == IF g.open = <<>> THEN Hunk(g.line, <<>>, <<>>) ELSE g.open[1]
  IN CASE edit.kind = "equal" -> [line |-> g.line + 1, found |-> g.found \o g.open, open |-> <<>>]
       [] edit.kind = "delete" ->
            [line |-> g.line + 1, found |-> g.found,
             open |-> <<[here EXCEPT !.removed = Append(@, edit.text)]>>]
       [] edit.kind = "insert" ->
            [line |-> g.line, found |-> g.found,
             open |-> <<[here EXCEPT !.added = Append(@, edit.text)]>>]

Group ==
  /\ stage = "group"
  /\ LET grouped[n \in 0..Len(edits)] ==
           IF n = 0 THEN [line |-> prefix + 1, found |-> <<>>, open |-> <<>>]
                    ELSE Grouped(grouped[n - 1], edits[n])
         all == grouped[Len(edits)]
     IN hunks' = all.found \o all.open
  /\ stage' = "done"
  /\ UNCHANGED <<input, middle, distance, search, x, y, edits>>

DiffNext == Trim \/ Search \/ GiveUp \/ Back \/ BackAtStart \/ Group

DiffSpec == DiffInit /\ [][DiffNext]_diffVars

-----------------------------------------------------------------------------
(* Properties. *)

\* What one more hunk makes of the lines put out so far, and the line to go on with.
PutHunk(lines, put, h) ==
  [out |-> put.out \o SubSeq(lines, put.next, h.old_start - 1) \o h.added,
   next |-> h.old_start + Len(h.removed)]

\* The text with the hunks of hs put in place of the lines they remove.
Patched(lines, hs) ==
  LET put[n \in 0..Len(hs)] ==
        IF n = 0 THEN [out |-> <<>>, next |-> 1] ELSE PutHunk(lines, put[n - 1], hs[n])
      all == put[Len(hs)]
  IN all.out \o SubSeq(lines, all.next, Len(lines))

\* Fewest insertions and deletions that turn the first i lines of a into the
\* first j of b, by the textbook recurrence.
EditDistance(a, b) ==
  LET D[c \in (0..Len(a)) \X (0..Len(b))] ==
        LET i == c[1]
            j == c[2]
        IN IF i = 0 \/ j = 0 THEN i + j
           ELSE IF a[i] = b[j] THEN D[<<i - 1, j - 1>>]
           ELSE 1 + Min({D[<<i - 1, j>>], D[<<i, j - 1>>]})
  IN D[<<Len(a), Len(b)>>]

\* Types, and the memory the trace may take.
DiffTypeOK ==
  /\ {old, new, before, after} \subseteq Seq(Lines)
  /\ prefix \in 0..MaxLines
  /\ stage \in {"trim", "search", "back", "group", "done"}
  /\ trace # <<>> => Len(trace) * Width <= MaxTrace
  /\ stage \in {"search", "back", "group"} => before # <<>> /\ after # <<>>
  /\ stage = "back" => distance \in 0..Len(trace) - 1

\* diff.go:22 "distant edits remain separate hunks": between two hunks there is a
\* line that both texts keep.
HunksAreApart ==
  stage = "done" =>
    \A i \in 1..Len(hunks) - 1 :
      hunks[i].old_start + Len(hunks[i].removed) < hunks[i + 1].old_start

\* edit.go:186, README "inspect every returned hunk": the hunks, put in place of
\* the lines they name, turn the old text into the new one, also after a fallback,
\* with lines that repeat, and with an empty text; they name the lines as they are,
\* and are apart.
HunksTurnOldIntoNew ==
  stage = "done" =>
    /\ Patched(old, hunks) = new
    /\ HunksAreApart
    /\ \A i \in DOMAIN hunks :
         LET h == hunks[i]
         IN SubSeq(old, h.old_start, h.old_start + Len(h.removed) - 1) = h.removed

\* diff.go:4 "a shortest edit script".
ScriptIsShortest ==
  stage = "group" =>
    Cardinality({i \in DOMAIN edits : edits[i].kind # "equal"}) = EditDistance(before, after)

\* The way back indexes lines by differences of frontiers, some of which lie
\* past the end of a text: it never leaves either text.
WayBackStaysInside ==
  stage = "back" =>
    /\ x \in 0..Len(before) /\ y \in 0..Len(after)
    /\ distance > 0 => IF Corner[1] = From[1] THEN Corner[2] \in 1..Len(after)
                                              ELSE Corner[1] \in 1..Len(before)
=============================================================================
