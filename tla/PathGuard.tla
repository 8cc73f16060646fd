------------------------------ MODULE PathGuard -----------------------------
(***************************************************************************)
(* The paths of the MCP server: resolveMCPRoot with the platform's policy, *)
(* and secureMCPTarget for a file that must exist and for one that is to   *)
(* be created, with the directories created on its way. A request has the  *)
(* tree to itself: what other programs do to it meanwhile is not modelled. *)
(***************************************************************************)
EXTENDS Paths

CONSTANTS
  Trees,       \* the trees a server may find
  Inputs,      \* the paths of requests, each [abs |-> BOOLEAN, names |-> sequence]
  DriveMount,  \* the path that reads /mnt/<drive>
  OnNinep,     \* the paths on a 9p filesystem
  MaxCreates,  \* bound on the files a behaviour tries to create
  DriveType    \* of a Windows volume, the first name of a path

ASSUME PathGuardAssumption ==
  /\ \A t \in Trees : IsTree(t)
  /\ \A i \in Inputs : i.abs \in BOOLEAN /\ i.names \in Seq(Names \cup {Up})

VARIABLES
  platform, tree, creates,
  root,        \* {} or the root of the server
  answer       \* of the last request: what was asked and the target it got

guardVars == <<platform, tree, creates, root, answer>>

NoAnswer == [tool |-> "none"]

(* root_policy_linux.go, root_policy_windows.go, root_policy_other.go      *)
isWSLWindowsDriveMount(p) == IsPrefix(DriveMount, p)

validateWindowsLocalDriveRoot(p) ==
  p # <<>> /\ DriveType[Head(p)] \in {"removable", "fixed", "ramdisk"}

validatePlatformRootInput(p) ==
  CASE platform = "linux" -> ~isWSLWindowsDriveMount(p)
    [] platform = "windows" -> validateWindowsLocalDriveRoot(p)
    [] OTHER -> TRUE

validatePlatformRoot(p) ==
  CASE platform = "linux" -> validatePlatformRootInput(p) /\ p \notin OnNinep
    [] OTHER -> validatePlatformRootInput(p)

\* Mutant of resolveMCPRoot: the policy sees the root as it was configured.
ResolveCheckedEarly(p) ==
  IF ~validatePlatformRoot(p) THEN {} ELSE {q \in EvalSymlinks(tree, p) : tree[q] = Directory}

resolveMCPRoot(p) ==
  IF ~validatePlatformRootInput(p) THEN {}
  ELSE {q \in EvalSymlinks(tree, p) : tree[q] = Directory /\ validatePlatformRoot(q)}

(* The nearest ancestor of p that exists, in a set; {} when a look at one  *)
(* fails.                                                                  *)
Ancestor(t, p) ==
  LET k == Max({j \in 0..Len(p) : Lstat(t, SubSeq(p, 1, j)) # "absent"})
      q == SubSeq(p, 1, k)
  IN IF Lstat(t, q) = "found" THEN {q} ELSE {}

Absolute(r, input) == Clean(IF input.abs THEN input.names ELSE r \o input.names)

\* Mutant of secureMCPTarget: the names decide alone.
SecureByName(t, r, input, mustExist) ==
  LET p == Absolute(r, input)
  IN IF ~Within(r, p) THEN {} ELSE IF mustExist THEN EvalSymlinks(t, p) ELSE {p}

\* Mutant of secureMCPTarget: a link may not be part of the path.
SecureWithoutLinks(t, r, input, mustExist) ==
  LET p == Absolute(r, input)
  IN IF ~Within(r, p) \/ \A a \in Ancestor(t, p) : EvalSymlinks(t, a) # {a} THEN {}
     ELSE IF mustExist THEN EvalSymlinks(t, p) ELSE {p}

\* Mutant of secureMCPTarget: the target keeps its name.
SecureUnresolved(t, r, input, mustExist) ==
  LET p == Absolute(r, input)
      inside(q) == \E e \in EvalSymlinks(t, q) : Within(r, e)
  IN IF ~Within(r, p) \/ ~\E a \in Ancestor(t, p) : inside(a) THEN {}
     ELSE IF mustExist /\ ~inside(p) THEN {} ELSE {p}

\* Mutant of secureMCPTarget: a file that must exist may not be reached by a link.
SecureOpensPlain(t, r, input, mustExist) ==
  LET p == Absolute(r, input)
      inside(q) == \E e \in EvalSymlinks(t, q) : Within(r, e)
  IN IF ~Within(r, p) \/ ~\E a \in Ancestor(t, p) : inside(a) THEN {}
     ELSE IF mustExist /\ EvalSymlinks(t, p) # {p} THEN {} ELSE {p}

secureMCPTarget(t, r, input, mustExist) ==
  LET p == Absolute(r, input)
      inside(q) == \E e \in EvalSymlinks(t, q) : Within(r, e)
  IN IF ~Within(r, p) \/ ~\E a \in Ancestor(t, p) : inside(a) THEN {}
     ELSE IF ~mustExist THEN {p}
     ELSE {e \in EvalSymlinks(t, p) : Within(r, e)}

GuardInit ==
  /\ platform \in {"linux", "windows", "other"}
  /\ tree \in Trees
  /\ root = {} /\ answer = NoAnswer /\ creates = 0

Start ==
  /\ root = {}
  /\ \E p \in AllPaths : root' = resolveMCPRoot(p) /\ root' # {}
  /\ UNCHANGED <<platform, tree, creates, answer>>

(* A request for an existing file: preview, edit, apply and rollback. All  *)
(* but rollback refuse what is no regular file.                            *)
OpenTarget ==
  /\ answer = NoAnswer
  /\ \E r \in root, input \in Inputs, tool \in {"preview", "rollback"} :
       answer' = [tool |-> tool, input |-> input,
                  target |-> {q \in secureMCPTarget(tree, r, input, TRUE) :
                                tool = "rollback" \/ Stat(tree, q).kind = "file"}]
  /\ UNCHANGED <<platform, tree, creates, root>>

\* Mutant of MkdirAll: the last directory alone.
MkdirLast(t, p) ==
  LET a == CHOOSE q \in Ancestor(t, p) : TRUE
      made == {q \o SubSeq(p, Len(a)+1, Len(p)) : q \in EvalSymlinks(t, a)}
  IN [q \in DOMAIN t |-> IF q \in made THEN Directory ELSE t[q]]

(* os.MkdirAll below a directory that exists.                              *)
MkdirAll(t, p) ==
  LET a == CHOOSE q \in Ancestor(t, p) : TRUE
      missing == {SubSeq(p, Len(a)+1, j) : j \in Len(a)+1 .. Len(p)}
      made == {q \o s : q \in EvalSymlinks(t, a), s \in missing}
  IN [q \in DOMAIN t |-> IF q \in made THEN Directory ELSE t[q]]

(* clipfit_create: the directories, a second look at the path, and the     *)
(* file with O_EXCL. A write that fails removes the file and leaves the    *)
(* directories.                                                            *)
Create ==
  /\ answer = NoAnswer
  /\ creates < MaxCreates /\ creates' = creates + 1
  /\ \E r \in root, input \in Inputs, createParents \in BOOLEAN, written \in BOOLEAN :
       LET target == {p \in secureMCPTarget(tree, r, input, FALSE) : Lstat(tree, p) = "absent"}
       IN \E p \in target :
            LET t == IF createParents THEN MkdirAll(tree, Front(p)) ELSE tree
                again == IF createParents
                         THEN secureMCPTarget(t, r, [abs |-> TRUE, names |-> p], FALSE)
                         ELSE {q \in target : Stat(t, Front(q)) = Directory}
                new == UNION {Place(t, q) : q \in again}
            IN /\ Len(p) <= MaxDepth /\ new \subseteq DOMAIN tree
               /\ written => new # {}
               /\ tree' = IF ~written THEN t
                          ELSE [q \in DOMAIN t |-> IF q \in new THEN File("created") ELSE t[q]]
               /\ answer' = [tool |-> "create", input |-> input,
                             target |-> IF written THEN again ELSE {}]
  /\ UNCHANGED <<platform, root>>

(* The answer was sent; the next request comes.                            *)
Answered ==
  /\ answer # NoAnswer /\ answer' = NoAnswer
  /\ UNCHANGED <<platform, tree, creates, root>>

GuardNext == Start \/ OpenTarget \/ Create \/ Answered

GuardSpec == GuardInit /\ [][GuardNext]_guardVars

-----------------------------------------------------------------------------
(* The tree stays a tree, and the root a directory of it.                  *)
GuardTypeOK ==
  /\ platform \in {"linux", "windows", "other"}
  /\ IsTree(tree)
  /\ \A r \in root : tree[r] = Directory
  /\ Cardinality(root) <= 1

(* A server that runs has a root the policy allows, whatever links lead to *)
(* it from the root that was configured (mcp.go:94-122).                   *)
RootIsLocal ==
  \A r \in root :
    /\ EvalSymlinks(tree, r) = {r}
    /\ platform = "linux" => ~IsPrefix(DriveMount, r) /\ r \notin OnNinep
    /\ platform = "windows" => validateWindowsLocalDriveRoot(r)

(* What a tool opens is a node inside the root with no link on the way, so *)
(* that a file has one name for the table of previews and for the backups  *)
(* (mcp.go:535-588).                                                       *)
TargetIsInside ==
  answer.tool \in {"preview", "rollback"} =>
    \A q \in answer.target, r \in root :
      Within(r, q) /\ tree[q] # Nothing /\ EvalSymlinks(tree, q) = {q}

(* Nothing is refused that is inside: a relative path without ".." that    *)
(* leads to a file inside the root, through links or not, is opened, and   *)
(* it is the file it leads to.                                             *)
InsideIsServed ==
  answer.tool = "preview" /\ ~answer.input.abs /\ Up \notin ToSet(answer.input.names) =>
    \A r \in root : \A e \in EvalSymlinks(tree, r \o answer.input.names) :
      Within(r, e) /\ tree[e].kind = "file" => answer.target = {e}

(* A created file can be opened by the path that created it.               *)
CreatedIsServed ==
  answer.tool = "create" =>
    \A r \in root, q \in answer.target :
      \E e \in secureMCPTarget(tree, r, answer.input, TRUE) : tree[e] = File("created")

(* The server works on what is inside its root, all of it and nothing      *)
(* else, under one name, and the root is local (mcp.go:94-122, 535-597).   *)
ServesExactlyTheInside == RootIsLocal /\ TargetIsInside /\ InsideIsServed /\ CreatedIsServed

(* A request changes the tree only inside the root, and only where there   *)
(* was nothing: no file and no link is ever replaced (mcp.go:438-505).     *)
CreateOnlyAddsInside ==
  [][\A p \in DOMAIN tree : tree'[p] # tree[p] =>
       tree[p] = Nothing /\ \A r \in root : Within(r, p)]_guardVars
=============================================================================
