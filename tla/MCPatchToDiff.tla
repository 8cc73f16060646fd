--------------------------- MODULE MCPatchToDiff ----------------------------
(***************************************************************************)
(* From a patch or a request to the diff. Its four parts share no state    *)
(* and each is called once: the arguments of a tool call are decoded, a    *)
(* patch is parsed, the operations are carried out on a text, two texts    *)
(* are compared. A behaviour is one call of one of them; the others stand  *)
(* still, with some small input.                                           *)
(*                                                                         *)
(* Patches have up to six lines: two commands, one of them a block with    *)
(* its anchor, or any disorder of tags. Compared is every pair of texts of *)
(* up to four lines over three letters; the budget lets the largest        *)
(* middles (width 19) keep five frontiers of nine, so that long searches   *)
(* fall back and all others finish. For the rest see MCEditOps and         *)
(* MCToolCalls.                                                            *)
(***************************************************************************)
EXTENDS MCToolCalls, KissParser, MCEditOps, LineDiff

VARIABLE called    \* the one that is called

SomeCall == CHOOSE c \in Calls : ~c.id
SomeRequest == CHOOSE r \in Requests : Len(r.operations) = 1
SomeText == CHOOSE text \in Texts : Len(text) = 1

CallStands == call = SomeCall /\ CallInit
EditStands == request = SomeRequest /\ EditInit
DiffStands == old = SomeText /\ new = old /\ DiffInit

Init ==
  /\ KissInit
  /\ \/ called = "call" /\ EditStands /\ DiffStands /\ CallInit
     \/ called = "edit" /\ CallStands /\ DiffStands /\ EditInit
     \/ called = "diff" /\ CallStands /\ EditStands /\ DiffInit
     \/ called = "parse" /\ CallStands /\ EditStands /\ DiffStands

Next ==
  /\ \/ called = "call" /\ CallNext /\ UNCHANGED <<kissVars, editVars, diffVars>>
     \/ called = "parse" /\ KissNext /\ UNCHANGED <<callVars, editVars, diffVars>>
     \/ called = "edit" /\ EditNext /\ UNCHANGED <<callVars, kissVars, diffVars>>
     \/ called = "diff" /\ DiffNext /\ UNCHANGED <<callVars, kissVars, editVars>>
  /\ UNCHANGED called

Spec == Init /\ [][Next]_<<called, callVars, kissVars, editVars, diffVars>>

(* Each part keeps its types.                                              *)
TypeOK == CallTypeOK /\ KissTypeOK /\ EditTypeOK /\ DiffTypeOK

MCMaxLines == 4
MCMaxTrace == 100
MCMaxPatch == 6
=============================================================================
