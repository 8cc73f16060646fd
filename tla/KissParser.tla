----------------------------- MODULE KissParser -----------------------------
(***************************************************************************)
(* parseKissCommands of main.go: a patch file is read line by line. A tag  *)
(* means something in some states only and is content in the others; a     *)
(* command is taken when the line after its end is seen, and dropped when  *)
(* it has no WITH. A line of content is a record with its number, so that  *)
(* no two are alike. preprocessSpec changes the ends of lines and the      *)
(* spaces around them, which are no part of a line here.                   *)
(***************************************************************************)
EXTENDS Integers, FiniteSets, SequencesExt

CONSTANT MaxPatch   \* bound on the length of a patch

ASSUME LinesAssumption == MaxPatch \in Nat

StartTags == {"REPLACE_BLOCK", "REPLACE", "SWAP_NAME"}
EndTags == {"END_REP", "END_SWP"}
Tags == StartTags \cup EndTags \cup {"ANCHOR", "TARGET", "WITH"}

VARIABLES
  patch,        \* the lines read so far, each [tag, no]; tag "" is content
  state, cmdType,
  anchorLines, findLines, replaceLines,
  commands,     \* the commands taken
  done          \* the whole patch was read

kissVars == <<patch, state, cmdType, anchorLines, findLines, replaceLines, commands, done>>
parts == <<anchorLines, findLines, replaceLines>>

Line(tag) == [tag |-> tag, no |-> Len(patch) + 1]

KissInit ==
  /\ patch = <<>> /\ commands = <<>> /\ done = FALSE
  /\ state = "OUTSIDE" /\ cmdType = ""
  /\ anchorLines = <<>> /\ findLines = <<>> /\ replaceLines = <<>>

Read(tag) ==
  /\ ~done /\ Len(patch) < MaxPatch
  /\ patch' = Append(patch, Line(tag))
  /\ done' = done

\* Mutant of flush: a command is taken whatever the state is.
FlushAnywhere ==
  commands' = IF replaceLines # <<>>
              THEN Append(commands, [type |-> cmdType, anchor |-> anchorLines,
                                     find |-> findLines, replace |-> replaceLines])
              ELSE commands

flush ==
  commands' = IF state = "IN_REPLACE" /\ cmdType # ""
              THEN Append(commands, [type |-> cmdType, anchor |-> anchorLines,
                                     find |-> findLines, replace |-> replaceLines])
              ELSE commands

EndTag ==
  /\ \E tag \in EndTags : Read(tag)
  /\ flush
  /\ state' = "OUTSIDE"
  /\ UNCHANGED <<cmdType, parts>>

\* Mutant of StartTag: the replacement goes on where the last one ended.
StartTagKeepingReplacement ==
  /\ \E tag \in StartTags : Read(tag) /\ cmdType' = tag
  /\ flush
  /\ state' = "IN_FIND"
  /\ anchorLines' = <<>> /\ findLines' = <<>>
  /\ UNCHANGED replaceLines

StartTag ==
  /\ \E tag \in StartTags : Read(tag) /\ cmdType' = tag
  /\ flush
  /\ state' = "IN_FIND"
  /\ anchorLines' = <<>> /\ findLines' = <<>> /\ replaceLines' = <<>>

(* ANCHOR and TARGET are tags in the head of a block command.              *)
InBlockHead == cmdType = "REPLACE_BLOCK" /\ state \in {"IN_ANCHOR", "IN_FIND"}

AnchorTag ==
  /\ InBlockHead
  /\ Read("ANCHOR")
  /\ state' = "IN_ANCHOR" /\ anchorLines' = <<>>
  /\ UNCHANGED <<cmdType, findLines, replaceLines, commands>>

TargetTag ==
  /\ InBlockHead
  /\ Read("TARGET")
  /\ state' = "IN_FIND" /\ findLines' = <<>>
  /\ UNCHANGED <<cmdType, anchorLines, replaceLines, commands>>

WithTag ==
  /\ state \in {"IN_ANCHOR", "IN_FIND"}
  /\ Read("WITH")
  /\ state' = "IN_REPLACE"
  /\ UNCHANGED <<cmdType, parts, commands>>

(* Everything else is content, or ignored outside of a command.            *)
IsContent(tag) ==
  \/ tag = ""
  \/ tag = "WITH" /\ state \notin {"IN_ANCHOR", "IN_FIND"}
  \/ tag \in {"ANCHOR", "TARGET"} /\ ~InBlockHead

Content ==
  \E tag \in {"", "WITH", "ANCHOR", "TARGET"} :
    /\ IsContent(tag)
    /\ Read(tag)
    /\ anchorLines' = IF state = "IN_ANCHOR" THEN Append(anchorLines, Line(tag)) ELSE anchorLines
    /\ findLines' = IF state = "IN_FIND" THEN Append(findLines, Line(tag)) ELSE findLines
    /\ replaceLines' = IF state = "IN_REPLACE" THEN Append(replaceLines, Line(tag)) ELSE replaceLines
    /\ UNCHANGED <<state, cmdType, commands>>

(* The end of the patch ends a command, too.                               *)
EndOfPatch ==
  /\ ~done /\ done' = TRUE
  /\ flush
  /\ UNCHANGED <<patch, state, cmdType, parts>>

KissNext == EndTag \/ StartTag \/ AnchorTag \/ TargetTag \/ WithTag \/ Content \/ EndOfPatch

KissSpec == KissInit /\ [][KissNext]_kissVars

-----------------------------------------------------------------------------
(* The commands of a text, read off the whole of it: a command starts at   *)
(* line i and ends before the next start or end tag; the first WITH before *)
(* that, at w, divides it. The text to find is what follows a block's last *)
(* TARGET, or else its start, and the anchor what follows its last ANCHOR, *)
(* each up to the next of these tags.                                      *)
Tagged(text, tags, from, to) == {i \in from..to : text[i].tag \in tags}

EndOf(text, i) ==
  Min(Tagged(text, StartTags \cup EndTags, i+1, Len(text)) \cup {Len(text) + 1})

Withs(text, i) == Tagged(text, {"WITH"}, i+1, EndOf(text, i) - 1)

Heads(text, i, w, tags) ==
  IF text[i].tag = "REPLACE_BLOCK" THEN Tagged(text, tags, i+1, w-1) ELSE {}

PartAfter(text, i, w, h) ==
  SubSeq(text, h+1, Min({g \in Heads(text, i, w, {"ANCHOR", "TARGET"}) \cup {w} : g > h}) - 1)

AnchorPart(text, i, w) ==
  LET anchors == Heads(text, i, w, {"ANCHOR"})
  IN IF anchors = {} THEN <<>> ELSE PartAfter(text, i, w, Max(anchors))

FindPart(text, i, w) ==
  PartAfter(text, i, w, Max({i} \cup Heads(text, i, w, {"TARGET"})))

CommandAt(text, i) ==
  LET w == Min(Withs(text, i))
  IN [type |-> text[i].tag, anchor |-> AnchorPart(text, i, w), find |-> FindPart(text, i, w),
      replace |-> SubSeq(text, w+1, EndOf(text, i) - 1)]

IsWhole(text, i) == text[i].tag \in StartTags /\ Withs(text, i) # {}

WrittenUpTo(text) ==
  LET upto[n \in 0..Len(text)] ==
        IF n = 0 THEN <<>>
        ELSE IF IsWhole(text, n) THEN Append(upto[n-1], CommandAt(text, n)) ELSE upto[n-1]
  IN upto

Written(text) == WrittenUpTo(text)[Len(text)]

(* The types, and that nothing of an anchor outlives its command.          *)
KissTypeOK ==
  /\ patch \in Seq([tag : Tags \cup {""}, no : 1..MaxPatch])
  /\ state \in {"OUTSIDE", "IN_FIND", "IN_ANCHOR", "IN_REPLACE"}
  /\ cmdType \in StartTags \cup {""}
  /\ cmdType = "" => state = "OUTSIDE"
  /\ state = "IN_ANCHOR" => cmdType = "REPLACE_BLOCK"
  /\ cmdType # "REPLACE_BLOCK" => anchorLines = <<>>
  /\ \A k \in DOMAIN commands : commands[k].type \in StartTags

(* Line by line the parser finds the commands that were written, each      *)
(* once, in their order and with their own lines; what it drops has no     *)
(* WITH (main.go:100-183).                                                 *)
ParsesWhatIsWritten == done => commands = Written(patch)

(* Whatever the patch is: each part of a command is a run of consecutive   *)
(* lines of it, and no line is used by two commands, although the parts    *)
(* are kept, not cleared, after a command was taken (main.go:123-128).     *)
IsRun(part, whole) ==
  \A i \in DOMAIN part :
    /\ part[i].no \in DOMAIN whole
    /\ part[i] = whole[part[i].no]
    /\ part[i].no = part[1].no + i - 1

LinesOf(c) == ToSet(c.anchor) \cup ToSet(c.find) \cup ToSet(c.replace)

Quotes(c) ==
  IsRun(c.anchor, patch) /\ IsRun(c.find, patch) /\ IsRun(c.replace, patch)

CommandsQuoteThePatch ==
  /\ \A k \in DOMAIN commands : Quotes(commands[k])
  /\ \A k, l \in DOMAIN commands : k < l =>
       \A x \in LinesOf(commands[k]), y \in LinesOf(commands[l]) : x.no < y.no
=============================================================================
