------------------------------ MODULE EditOps -------------------------------
(***************************************************************************)
(* Planning a structured edit: planEdits and applyStructuredOperations of  *)
(* edit.go, with applyCommands and its helpers of main.go. A behaviour is  *)
(* one call: the bytes are decoded, every operation is first counted and   *)
(* checked and then carried out by applyCommands, which counts again, and  *)
(* the result is rendered. Any error drops everything.                     *)
(***************************************************************************)
EXTENDS Text

CONSTANTS
  Requests,     \* the [data, operations, newline] a behaviour may start with;
                \* newline is the platform's
  None          \* expected_matches that is not given

EditOperation ==
  [kind : STRING, anchor : Seq(Symbol), find : Seq(Symbol), replace : Seq(Symbol),
   expected : {None} \cup Int]

ASSUME RequestsAssumption ==
  \A r \in Requests : /\ r.data \in Seq(Symbol) /\ r.newline \in PlatformLineEndings
                     /\ r.operations \in Seq(EditOperation)

VARIABLES
  request,      \* the call's arguments
  pc,           \* "decode", "edit", "planned", "error"
  reason,       \* of an error: "refused", "count_changed", "no_change"
  current,      \* the text so far
  stats,        \* what each finished operation did: before, applied
  output        \* the bytes of the plan

editVars == <<request, pc, reason, current, stats, output>>

-----------------------------------------------------------------------------
(* Blocks: dedent, and the whitespace-tolerant search for what is left.    *)
Indent(line) == IF \A c \in ToSet(line) : c = Blank THEN Len(line)
                ELSE Min({i \in DOMAIN line : line[i] # Blank}) - 1

dedent(s) ==
  LET ls == SplitLines(s)
      full == {i \in DOMAIN ls : Solid(ls[i]) # {}}
      shared == Min({Indent(ls[i]) : i \in full})
      cut(l) == IF Solid(l) = {} THEN <<>> ELSE SubSeq(l, shared + 1, Len(l))
  IN IF full = {} THEN <<>>
     ELSE JoinLines([k \in 1..Max(full) - Min(full) + 1 |->
                       cut(ls[Min(full) + k - 1])])

(* A pattern is the block with each run of white space as one Blank, which *)
(* stands for \s+, and none at the end.                                    *)
Squeeze(s) ==
  Concat([i \in DOMAIN s |->
            IF s[i] \notin Space THEN <<s[i]>>
            ELSE IF i = 1 \/ s[i-1] \notin Space THEN <<Blank>> ELSE <<>>])

\* Mutant of buildFlexPattern: a \s+ at the end eats the newline.
PatternWithTail(block) == Squeeze(block)

buildFlexPattern(block) ==
  LET p == Squeeze(block)
  IN IF p # <<>> /\ Last(p) = Blank THEN Front(p) ELSE p

(* Where the pattern ends if its first symbol matches at i; 0 if nowhere.  *)
BodyEnd(s, i, pattern) ==
  LET upto[n \in 0..Len(pattern)] ==
        IF n = 0 THEN i
        ELSE LET at == upto[n-1]
                 c == pattern[n]
             IN CASE at \notin DOMAIN s -> 0
                  [] c = Blank /\ at \in DOMAIN s /\ s[at] \in White ->
                       Min({j \in at..Len(s)+1 : j = Len(s)+1 \/ s[j] \notin White})
                  [] c # Blank /\ at \in DOMAIN s /\ s[at] = c -> at + 1
                  [] OTHER -> 0
  IN upto[Len(pattern)]

(* (^|\n)([ \t]* )(pattern): the newline is skipped only where the pattern *)
(* does not fit without it, and the indentation is as long as can be.      *)
BlockAt(s, i, pattern) ==
  LET first == (IF i = 1 THEN {i} ELSE {}) \cup (IF s[i] = NL THEN {i+1} ELSE {})
      bodies(q) == {b \in q..Len(s) : /\ \A j \in q..b-1 : s[j] = Blank
                                      /\ BodyEnd(s, b, pattern) # 0}
      fits == {q \in first : bodies(q) # {}}
  IN IF fits = {} THEN NoMatch
     ELSE LET body == Max(bodies(Min(fits)))
          IN [from |-> i, line |-> Min(fits), body |-> body,
              to |-> BodyEnd(s, body, pattern)]

Blocks(s, block) ==
  LET pattern == buildFlexPattern(dedent(block))
  IN Scan([i \in DOMAIN s |-> BlockAt(s, i, pattern)])

IsRemark(line) ==
  \/ IsPrefix(<<Remark>>, line)
  \/ IsPrefix(<<RemarkEnd>>, TrimSpace(line))

KeptLines(s) ==
  LET ls == SplitLines(s)
  IN Concat([i \in DOMAIN ls |-> IF IsRemark(ls[i]) THEN <<>> ELSE <<ls[i]>>])

\* Mutant of alignReplace: the indentation goes before the first line only.
AlignFirstLine(replace, indent) ==
  LET kept == KeptLines(replace)
  IN IF kept = <<>> \/ kept[1] = <<>> THEN JoinLines(kept)
     ELSE indent \o JoinLines(kept)

alignReplace(replace, indent) ==
  LET kept == KeptLines(replace)
  IN JoinLines([i \in DOMAIN kept |->
                  IF kept[i] = <<>> THEN <<>> ELSE indent \o kept[i]])

(* The matches below a match, in the rest of the text on its own, and at    *)
(* their place in the whole text.                                          *)
BlocksBelow(s, m, block) ==
  LET found == Blocks(SubSeq(s, m.to, Len(s)), block)
      moved(f) == [from |-> f.from + m.to - 1, line |-> f.line + m.to - 1,
                   body |-> f.body + m.to - 1, to |-> f.to + m.to - 1]
  IN [i \in DOMAIN found |-> moved(found[i])]

\* Mutant of BlocksToReplace: every target below the anchor.
EveryTargetBelow(s, op) ==
  LET anchors == Blocks(s, op.anchor)
      below == [a \in ToSet(anchors) |-> BlocksBelow(s, a, op.find)]
  IN IF Solid(op.anchor) = {} THEN Blocks(s, op.find)
     ELSE IF anchors = <<>> THEN <<>> ELSE below[anchors[1]]

(* The command line's search: the first anchor will do.                    *)
BlocksToReplace(s, op) ==
  LET anchors == Blocks(s, op.anchor)
      below == [a \in ToSet(anchors) |-> BlocksBelow(s, a, op.find)]
  IN IF Solid(op.anchor) = {} THEN Blocks(s, op.find)
     ELSE IF anchors = <<>> \/ below[anchors[1]] = <<>> THEN <<>>
     ELSE <<below[anchors[1]][1]>>

\* Mutant of ReplaceBlocks: the newline that the match began with is lost.
ReplaceWithNewline(s, ms, replace) ==
  Splice(s, ms, [k \in DOMAIN ms |->
                   alignReplace(dedent(replace), SubSeq(s, ms[k].line, ms[k].body - 1))])

ReplaceBlocks(s, ms, replace) ==
  LET clean == dedent(replace)
      new(m) == SubSeq(s, m.from, m.line - 1)
                  \o (IF clean = <<>> THEN <<>>
                      ELSE alignReplace(clean, SubSeq(s, m.line, m.body - 1)))
  IN Splice(s, ms, [k \in DOMAIN ms |-> new(ms[k])])

-----------------------------------------------------------------------------
(* Names: \b(A|B)\b, each match replaced by the other name.                *)
Name(s) == TrimSpace(ReplaceAll(s, Nbsp, Blank))
NamesToSwap(op) == <<Name(op.find), Name(op.replace)>>
Swappable(names) == <<>> \notin ToSet(names) /\ names[1] # names[2]

NameAt(s, i, names) ==
  LET fits == {k \in 1..2 : /\ OccursAt(s, names[k], i)
                            /\ WordBoundary(s, i)
                            /\ WordBoundary(s, i + Len(names[k]))}
  IN IF fits = {} THEN NoMatch
     ELSE [from |-> i, to |-> i + Len(names[Min(fits)]), name |-> Min(fits)]

Names(s, names) == Scan([i \in DOMAIN s |-> NameAt(s, i, names)])

\* Mutant of SwapNames: one pass for each direction.
SwapInTwoPasses(s, names) ==
  LET write(t, ms, new) == Splice(t, ms, [k \in DOMAIN ms |-> new])
      once == write(s, Names(s, names), names[2])
  IN write(once, SelectSeq(Names(once, names), LAMBDA m : m.name = 2), names[1])

SwapNames(s, names) ==
  LET ms == Names(s, names) IN Splice(s, ms, [k \in DOMAIN ms |-> names[3 - ms[k].name]])

-----------------------------------------------------------------------------
(* applyCommands for one command: the new text and the number of matches.  *)
(* Whatever does not match, or makes no sense, leaves the text as it is.   *)
(* (A choice from a set of one only gives a value a name.)                 *)
SingleLine(op) == {NL, CR} \cap (ToSet(op.find) \cup ToSet(op.replace)) = {}

LiteralFind(op) == ReplaceAll(op.find, Nbsp, Blank)
NewLines(s) == ReplaceText(s, <<CR, NL>>, <<NL>>)

\* Mutant of ReplaceSuffix: cuts off as many symbols as the find was given with.
CutAsGiven(s, op) == SubSeq(s, 1, Len(s) - Len(op.find)) \o NewLines(op.replace)

ReplaceSuffix(s, op) ==
  SubSeq(s, 1, Len(s) - Len(NewLines(op.find))) \o NewLines(op.replace)

Change(text, matches) == [text |-> text, matches |-> matches]

applyCommand(s, op) ==
  IF op.find = <<>> THEN Change(s, 0)
  ELSE CHOOSE change \in
    CASE op.kind = "replace_block" /\ Solid(op.find) # {} ->
           {Change(ReplaceBlocks(s, ms, op.replace), Len(ms))
              : ms \in {BlocksToReplace(s, op)}}
      [] op.kind = "replace" /\ SingleLine(op) ->
           {Change(ReplaceText(s, find, op.replace), Len(Occurrences(s, find)))
              : find \in {LiteralFind(op)}}
      [] op.kind = "replace_suffix" ->
           {IF IsSuffix(NewLines(op.find), s)
            THEN Change(ReplaceSuffix(s, op), 1) ELSE Change(s, 0)}
      [] op.kind = "swap_name" ->
           {IF Swappable(names)
            THEN Change(SwapNames(s, names), Len(Names(s, names)))
            ELSE Change(s, 0) : names \in {NamesToSwap(op)}}
      [] OTHER -> {Change(s, 0)} : TRUE

-----------------------------------------------------------------------------
(* The checks of applyStructuredOperations: how many matches an operation  *)
(* will replace, and 0 if it is refused.                                   *)
Accepted(count, op) ==
  IF count = (IF op.expected = None THEN 1 ELSE op.expected) THEN count ELSE 0

\* Mutant of BlockMatches: the first anchor will do, as on the command line.
BlockMatchesFirst(s, op) ==
  IF Solid(op.find) = {} THEN 0
  ELSE IF Solid(op.anchor) = {} THEN Accepted(Len(Blocks(s, op.find)), op)
  ELSE IF op.expected \in {None, 1} /\ BlocksToReplace(s, op) # <<>> THEN 1 ELSE 0

BlockMatches(s, op) ==
  IF Solid(op.find) = {} THEN 0
  ELSE IF Solid(op.anchor) = {} THEN Accepted(Len(Blocks(s, op.find)), op)
  ELSE LET anchors == Blocks(s, op.anchor)
       IN IF /\ op.expected \in {None, 1}
             /\ Len(anchors) = 1
             /\ \E a \in ToSet(anchors) : BlocksBelow(s, a, op.find) # <<>>
          THEN 1 ELSE 0

LiteralMatches(s, op) ==
  IF ~SingleLine(op) THEN 0
  ELSE Accepted(Len(Occurrences(s, LiteralFind(op))), op)

SuffixMatches(s, op) ==
  IF op.expected \in {None, 1} /\ IsSuffix(NewLines(op.find), s) THEN 1 ELSE 0

NameMatches(s, op) ==
  LET count == Len(Names(s, NamesToSwap(op)))
  IN IF ~Swappable(NamesToSwap(op)) THEN 0
     ELSE IF op.expected = None THEN count ELSE Accepted(count, op)

Refused(op) ==
  \/ op.find = <<>>
  \/ op.expected # None /\ op.expected < 1
  \/ op.kind # "replace_block" /\ Solid(op.anchor) # {}

AppliedMatches(s, op) ==
  IF Refused(op) THEN 0
  ELSE CASE op.kind = "replace_block" -> BlockMatches(s, op)
         [] op.kind = "replace" -> LiteralMatches(s, op)
         [] op.kind = "replace_suffix" -> SuffixMatches(s, op)
         [] op.kind = "swap_name" -> NameMatches(s, op)
         [] OTHER -> 0

-----------------------------------------------------------------------------
EditInit ==
  /\ request \in Requests
  /\ pc = "decode" /\ reason = "none"
  /\ current = <<>> /\ stats = <<>> /\ output = <<>>

Decode ==
  /\ pc = "decode"
  /\ pc' = "edit"
  /\ current' = decodeTarget(request.data)
  /\ UNCHANGED <<request, reason, stats, output>>

(* The operation that is next.                                             *)
NextOperation == request.operations[Len(stats) + 1]
Pending == pc = "edit" /\ Len(stats) < Len(request.operations)

ApplyOperation ==
  /\ Pending
  /\ \E op \in {NextOperation} :
     \E applied \in {AppliedMatches(current, op)}, done \in {applyCommand(current, op)} :
       /\ applied > 0
       /\ done.matches = applied
       /\ done.text # current
       /\ current' = done.text
       /\ stats' = Append(stats, [before |-> current, applied |-> applied])
  /\ UNCHANGED <<request, pc, reason, output>>

RefuseOperation ==
  /\ Pending
  /\ \E op \in {NextOperation} :
     \E applied \in {AppliedMatches(current, op)}, done \in {applyCommand(current, op)} :
       /\ reason' = CASE applied = 0 -> "refused"
                       [] applied # 0 /\ done.matches # applied -> "count_changed"
                       [] OTHER -> "no_change"
       /\ applied > 0 /\ done.matches = applied => done.text = current
  /\ pc' = "error"
  /\ UNCHANGED <<request, current, stats, output>>

Render ==
  /\ pc = "edit" /\ Len(stats) = Len(request.operations)
  /\ output' = renderOutput(current, hadBOM(request.data), request.newline)
  /\ IF textWithoutUTF8BOM(output') = textWithoutUTF8BOM(request.data)
     THEN pc' = "error" /\ reason' = "no_change"
     ELSE pc' = "planned" /\ reason' = "none"
  /\ UNCHANGED <<request, current, stats>>

EditNext == Decode \/ ApplyOperation \/ RefuseOperation \/ Render

EditSpec == EditInit /\ [][EditNext]_editVars

-----------------------------------------------------------------------------
(* What a block edit is meant to do, said without patterns and scanning:   *)
(* an occurrence is a stretch of the text that starts with a word, first   *)
(* on its line, and has the words of the block, divided where they are (by *)
(* what \s takes for a space: an NBSP divides the words of a block only).  *)
(* A block that dedent leaves with white space in front (its first line is *)
(* deeper than another) occurs only below such white space.                *)
Prefix(s, n) == SubSeq(s, 1, n)

StartsLine(s, i) == i = 1 \/ s[i-1] = NL

FirstOnLine(s, i) ==
  \E q \in 1..i : StartsLine(s, q) /\ \A j \in q..i-1 : s[j] = Blank

BelowWhite(s, i) ==
  \E q \in 1..i-1 : StartsLine(s, q) /\ \A j \in q..i-1 : s[j] \in White

Sunken(block) == dedent(block)[1] \in Space

IsOccurrence(s, m, block) ==
  /\ {s[m.from], s[m.to-1]} \cap Space = {}
  /\ IF Sunken(block) THEN BelowWhite(s, m.from) ELSE FirstOnLine(s, m.from)
  /\ LET found == SubSeq(s, m.from, m.to-1)
     IN Nbsp \notin ToSet(found) /\ Squeeze(found) = Squeeze(TrimSpace(block))

Stretches(s) ==
  UNION {{[from |-> i, to |-> j+1] : j \in i..Len(s)} : i \in DOMAIN s}

BlockOccurrences(s, block) == {m \in Stretches(s) : IsOccurrence(s, m, block)}

LiteralOccurrences(s, find) ==
  {m \in Stretches(s) : SubSeq(s, m.from, m.to-1) = find}

Apart(ms) == \A m, n \in ms : m # n => m.to <= n.from \/ n.to <= m.from

(* The finished operations, each with the texts before and after it.       *)
Done == {[op |-> request.operations[k],
          before |-> stats[k].before,
          applied |-> stats[k].applied,
          after |-> IF k = Len(stats) THEN current ELSE stats[k+1].before]
         : k \in DOMAIN stats}

FreeBlock(d) == d.op.kind = "replace_block" /\ Solid(d.op.anchor) = {}
AnchoredBlock(d) == d.op.kind = "replace_block" /\ Solid(d.op.anchor) # {}

(* Everywhere an operation without an anchor could have been meant.        *)
Meant(d) ==
  CASE d.op.kind = "replace" -> LiteralOccurrences(d.before, LiteralFind(d.op))
    [] d.op.kind = "replace_suffix" ->
         {m \in LiteralOccurrences(d.before, NewLines(d.op.find)) : m.to = Len(d.before) + 1}
    [] OTHER -> BlockOccurrences(d.before, d.op.find)

(* The types, and the last check of planEdits: a plan changes something.   *)
EditTypeOK ==
  /\ pc \in {"decode", "edit", "planned", "error"}
  /\ reason \in {"none", "refused", "count_changed", "no_change"}
  /\ current \in Seq(Symbol) /\ output \in Seq(Symbol)
  /\ stats \in Seq([before : Seq(Symbol), applied : Nat \ {0}])
  /\ Len(stats) <= Len(request.operations)
  /\ pc = "planned" => /\ Len(stats) = Len(request.operations)
                        /\ textWithoutUTF8BOM(output) # textWithoutUTF8BOM(request.data)

(* The two halves of the code agree: applyCommands finds as many matches   *)
(* as the checks of applyStructuredOperations counted before it            *)
(* (edit.go:420), whatever the operation, the anchor and the text are.     *)
CountsAgree == reason # "count_changed"

(* No place is forgotten (edit.go:343, 363): an edit that replaces n       *)
(* places is refused if n+1 places, apart from each other, fit it. Places  *)
(* that share symbols count as one: the code does not see that they are    *)
(* two.                                                                    *)
EveryPlaceCounts(d) ==
  /\ \E ms \in kSubset(d.applied, Meant(d)) : Apart(ms)
  /\ \A ms \in kSubset(d.applied + 1, Meant(d)) : ~Apart(ms)

NoBlockIsForgotten == \A d \in Done : FreeBlock(d) => EveryPlaceCounts(d)

(* An anchored edit (edit.go:319-339) changes nothing down to the end of   *)
(* its anchor, which occurs once, and replaces the first place below it.   *)
BelowItsAnchor ==
  \A d \in Done : AnchoredBlock(d) =>
    LET anchors == BlockOccurrences(d.before, d.op.anchor)
    IN \E a \in anchors :
         LET rest == SubSeq(d.before, a.to, Len(d.before))
         IN /\ \A b \in anchors : a = b \/ ~Apart({a, b})
            /\ IsPrefix(Prefix(d.before, a.to - 1), d.after)
            /\ \E m \in BlockOccurrences(rest, d.op.find) :
                 /\ \A n \in BlockOccurrences(rest, d.op.find) : m.to <= n.to
                 /\ IsSuffix(SubSeq(rest, m.to, Len(rest)), d.after)

(* The block that is replaced is the one that was meant, or the operation  *)
(* is refused: with an anchor the first below it, without one every place  *)
(* there is (edit.go:292-360).                                             *)
RightPlaces == NoBlockIsForgotten /\ BelowItsAnchor

(* Nothing else is touched: the new text is the old one up to the place    *)
(* that was meant, symbols in loose just before it aside, and below it.    *)
OnlyItsPlace(d, loose) ==
  \E m \in Meant(d) :
    LET kept == SubSeq(d.before, m.to, Len(d.before))
    IN /\ IsSuffix(kept, d.after)
       /\ \E n \in 0..m.from-1 :
            /\ n <= Len(d.after) - Len(kept)
            /\ Prefix(d.before, n) = Prefix(d.after, n)
            /\ \A j \in n+1..m.from-1 : d.before[j] \in loose

(* A literal edit counts every place that fits, and one that replaces one  *)
(* place, or the end of the text, leaves all around it as it was           *)
(* (edit.go:356-388, main.go:329-349).                                     *)
LiteralsAreExact ==
  \A d \in Done :
    /\ d.op.kind = "replace" => EveryPlaceCounts(d)
    /\ d.applied = 1 /\ d.op.kind \in {"replace", "replace_suffix"} => OnlyItsPlace(d, {})

(* A block takes its indentation with it, and other white space only if it *)
(* was pasted with its first line deeper than the others.                  *)
NothingAround ==
  \A d \in Done : FreeBlock(d) /\ d.applied = 1 =>
    OnlyItsPlace(d, IF Sunken(d.op.find) THEN White ELSE {Blank})

(* A block keeps its place in the indentation of the text: the new lines   *)
(* have the shape of the replacement and the first of them starts where    *)
(* the old one did. (Not when the block is pasted with its first line      *)
(* deeper than another: then one column of it goes to \s+.)                *)
Shape(op) == dedent(op.replace)
BlockKeepsItsIndentation ==
  \A d \in Done :
    LET plain == {Remark, RemarkEnd} \cap ToSet(d.op.replace) = {}
    IN /\ FreeBlock(d) /\ d.applied = 1
       /\ ~Sunken(d.op.find) /\ plain /\ Shape(d.op) # <<>>
       => \E m \in BlockOccurrences(d.before, d.op.find) :
            LET line == m.from - 1 - Max({n \in 0..m.from-1 : n = 0 \/ d.before[n] = NL})
                cut == Len(d.before) - (m.to - 1)
                region == SubSeq(d.after, m.from - line, Len(d.after) - cut)
            IN /\ dedent(region) = Shape(d.op)
               /\ Indent(SplitLines(region)[1]) = line + Indent(SplitLines(Shape(d.op))[1])

(* A swap is one pass in both directions: done twice, with names that are  *)
(* identifiers, it is undone, and it meets as many names on the way back.  *)
SwapTwiceIsNothing ==
  \A d \in Done :
    LET names == NamesToSwap(d.op)
    IN d.op.kind = "swap_name" /\ UNION {ToSet(n) : n \in ToSet(names)} \subseteq WordSymbols
       => /\ SwapNames(d.after, names) = d.before
          /\ Len(Names(d.after, names)) = d.applied

(* A block is written where it was meant and nowhere else, and at its      *)
(* indentation; a swap writes both names (main.go:229-380).                *)
OnlyThePlacesChange == NothingAround /\ BlockKeepsItsIndentation /\ SwapTwiceIsNothing

(* A plan holds the text that the operations produced, with the platform's *)
(* line endings only and the byte order mark if there was one: reading the *)
(* file back gives that text, and writing it again gives the same bytes.   *)
(* (A mark that an operation writes at the start of a text that had none   *)
(* is the file's mark from then on, and is not read back.)                 *)
PlanReadsBack ==
  pc = "planned" =>
    /\ hadBOM(output) = (hadBOM(request.data) \/ hadBOM(current))
    /\ hadBOM(request.data) \/ ~hadBOM(current)
         => decodeTarget(output) = normalizeLineEndings(current)
    /\ renderOutput(decodeTarget(output), hadBOM(output), request.newline) = output
    /\ ToSet(output) \cap {NL, CR} \subseteq ToSet(request.newline)
=============================================================================
