----------------------------- MODULE FileNames ------------------------------
(***************************************************************************)
(* Files with several names: the server's path guard, and the command line *)
(* beside the server. They share no state; a behaviour is one of the       *)
(* guard, or one of the tools, while the other stands still.               *)
(***************************************************************************)
EXTENDS PathGuard, CommandLine

VARIABLE part    \* "guard" or "tools"

GuardStands ==
  /\ platform = "other"
  /\ tree = [p \in AllPaths |-> IF p = <<>> THEN Directory ELSE Nothing]
  /\ GuardInit

ToolsStand ==
  /\ disk = CHOOSE t \in Disks : TRUE
  /\ CliInit

Init ==
  \/ part = "guard" /\ ToolsStand /\ GuardInit
  \/ part = "tools" /\ GuardStands /\ CliInit

Next ==
  /\ \/ part = "guard" /\ GuardNext /\ UNCHANGED cliVars
     \/ part = "tools" /\ CliNext /\ UNCHANGED guardVars
  /\ UNCHANGED part

Spec == Init /\ [][Next]_<<part, guardVars, cliVars>>

(* Each part keeps its types, and both trees stay trees.                   *)
TypeOK == GuardTypeOK /\ CliTypeOK
=============================================================================
