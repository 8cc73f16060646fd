-------------------------------- MODULE Text --------------------------------
(***************************************************************************)
(* Texts, as the editing code of main.go sees them: sequences of symbols.  *)
(* Every symbol that is not named here stands for a piece of a word, and   *)
(* those in WordSymbols are letters to a regular expression's \b.          *)
(*                                                                         *)
(* main.go: normalizeLineEndings, decodeTarget, renderOutput,              *)
(* textWithoutUTF8BOM; the functions of Go's strings and regexp packages   *)
(* that the code calls are external.                                       *)
(***************************************************************************)
EXTENDS Integers, FiniteSets, SequencesExt

CONSTANT WordSymbols    \* the symbols of identifiers

NL == "nl"              \* \n
CR == "cr"              \* \r
Blank == " "            \* a space or a tab
Nbsp == "nbsp"          \* U+00A0: a space to Go's unicode, not to \s
Bom == "bom"            \* the UTF-8 byte order mark
Remark == "remark"      \* ===REMARKNCOLOR===
RemarkEnd == "remark_end"

Symbol == STRING \cup {NL, CR, Blank, Nbsp, Bom, Remark, RemarkEnd}

Space == {NL, CR, Blank, Nbsp}      \* unicode.IsSpace
White == {NL, CR, Blank}            \* \s

(* What a build writes for a newline: platformLineEnding.                  *)
PlatformLineEndings == {<<NL>>, <<CR, NL>>}

ASSUME WordAssumption ==
  WordSymbols \cap (Space \cup {Bom, Remark, RemarkEnd}) = {}

-----------------------------------------------------------------------------
(* The parts one after the other; strings.Split, strings.Join at newlines. *)
Concat(parts) ==
  LET upto[n \in 0..Len(parts)] == IF n = 0 THEN <<>> ELSE upto[n-1] \o parts[n]
  IN upto[Len(parts)]

SplitLines(s) ==
  LET upto[n \in 0..Len(s)] ==
        IF n = 0 THEN <<<<>>>>
        ELSE LET ls == upto[n-1]
             IN IF s[n] = NL THEN Append(ls, <<>>)
                ELSE [ls EXCEPT ![Len(ls)] = Append(@, s[n])]
  IN upto[Len(s)]

JoinLines(ls) ==
  Concat([i \in DOMAIN ls |-> IF i = 1 THEN ls[1] ELSE <<NL>> \o ls[i]])

Solid(s) == {i \in DOMAIN s : s[i] \notin Space}

(* strings.TrimSpace                                                       *)
TrimSpace(s) ==
  IF Solid(s) = {} THEN <<>> ELSE SubSeq(s, Min(Solid(s)), Max(Solid(s)))

(* A match is a record with at least [from, to]: the symbols from..to-1;   *)
(* NoMatch ends nowhere. Scan is the left-to-right search for matches that *)
(* do not overlap which FindAll, Count and ReplaceAll all perform: at[i]   *)
(* is the match that starts at i. Splice writes new[k] for the k-th match. *)
NoMatch == [to |-> 0]

Scan(at) ==
  LET upto[i \in 0..Len(at)] ==
        IF i = 0 THEN <<>>
        ELSE LET ms == upto[i-1]
             IN IF at[i] # NoMatch /\ (ms = <<>> \/ ms[Len(ms)].to <= i)
                THEN Append(ms, at[i]) ELSE ms
  IN upto[Len(at)]

Splice(s, ms, new) ==
  LET end(k) == IF k = 0 THEN 1 ELSE ms[k].to
  IN Concat([k \in DOMAIN ms |-> SubSeq(s, end(k-1), ms[k].from - 1) \o new[k]])
       \o SubSeq(s, end(Len(ms)), Len(s))

OccursAt(s, find, i) ==
  /\ i + Len(find) - 1 <= Len(s)
  /\ \A j \in DOMAIN find : s[i+j-1] = find[j]

(* strings.Count and strings.ReplaceAll of a text that is not empty        *)
Occurrences(s, find) ==
  Scan([i \in DOMAIN s |-> IF OccursAt(s, find, i)
                           THEN [from |-> i, to |-> i + Len(find)] ELSE NoMatch])

ReplaceText(s, find, new) ==
  LET ms == Occurrences(s, find) IN Splice(s, ms, [k \in DOMAIN ms |-> new])

(* \b before position i                                                    *)
IsWord(s, i) == i \in DOMAIN s /\ s[i] \in WordSymbols
WordBoundary(s, i) == IsWord(s, i-1) # IsWord(s, i)

-----------------------------------------------------------------------------
normalizeLineEndings(s) ==
  ReplaceAll(ReplaceText(s, <<CR, NL>>, <<NL>>), CR, NL)

hadBOM(data) == IsPrefix(<<Bom>>, data)

textWithoutUTF8BOM(data) == IF hadBOM(data) THEN Tail(data) ELSE data

decodeTarget(data) == normalizeLineEndings(textWithoutUTF8BOM(data))

\* Mutant of renderOutput: the text is taken to have LF only.
RenderAsIs(text, bom, newline) ==
  (IF bom THEN <<Bom>> ELSE <<>>) \o ReplaceText(text, <<NL>>, newline)

renderOutput(text, bom, newline) ==
  (IF bom THEN <<Bom>> ELSE <<>>)
    \o ReplaceText(normalizeLineEndings(text), <<NL>>, newline)
=============================================================================
