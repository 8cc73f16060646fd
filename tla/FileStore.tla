----------------------------- MODULE FileStore -----------------------------
(***************************************************************************)
(* The files ClipFit edits and the one backup it keeps of each, at the     *)
(* granularity of the system calls that writers share.  MCP servers        *)
(* (mcp.go, edit.go) and runs of the command line (main.go) each handle    *)
(* one request at a time, but nothing locks a file or its backup: between  *)
(* any two steps of a process another process, an editor or the cleaner of *)
(* the system's temp directory may act, and a process may die.             *)
(***************************************************************************)
EXTENDS Integers, FiniteSets

CONSTANTS
  Targets,     \* absolute paths, symlinks resolved for the servers
  Contents,    \* whole contents a file can have
  Empty,       \* the bytes of a file that was just created or truncated
  Torn,        \* bytes that are no whole content: a part of one, or a mixture
  Absent,      \* nothing at the path
  Link,        \* a symlink at the path: it resolves to some other file
  Servers,     \* MCP server processes
  Clis,        \* processes of the command line
  None,        \* no process
  MaxOutside,  \* bound on the changes other programs make
  MaxCrashes   \* bound on the processes that die

Procs == Servers \union Clis
Data == Contents \union {Empty, Torn}

ASSUME FileStoreAssumption ==
  /\ Absent \notin Data /\ Link \notin Data /\ Absent # Link
  /\ Empty \notin Contents /\ Torn \notin Contents /\ Empty # Torn
  /\ Servers \intersect Clis = {}
  /\ None \notin Procs
  /\ MaxOutside \in Nat /\ MaxCrashes \in Nat

VARIABLES
  fs,         \* what each path holds
  backup,     \* what the backup file of each path holds
  creating,   \* the process whose new, still open file the path names
  filling,    \* the processes that have the current backup file open for writing
  pc,         \* where each process is in its request
  job,        \* the request: operation, target, planned-from, read and output bytes
  disturbed,  \* history: processes whose target or backup somebody else changed
  outside,    \* changes made by other programs so far
  crashes     \* processes that died so far

fileVars == <<fs, backup, creating, filling, pc, job, disturbed, outside, crashes>>
budgets == <<outside, crashes>>

PCs == {"idle", "plan", "draft", "resolve", "check", "open", "fill", "install",
        "rollback", "create", "create_write", "create_undo"}

Ops == {"none", "preview", "apply", "edit", "cli_apply", "rollback", "create"}

\* The requests that back the target up before they replace it.
Planned == {"apply", "edit"}
Backed == Planned \union {"cli_apply"}

Job == [op : Ops, t : Targets \union {None}, base : Data \union {None},
        cur : Data \union {None}, out : Data \union {None}]

NoJob == [op |-> "none", t |-> None, base |-> None, cur |-> None, out |-> None]

\* What reading the path can return: of a symlink, the bytes of some other file.
Reads(t) == IF fs[t] = Link THEN Contents ELSE {fs[t]} \ {Absent}

\* What EvalSymlinks maps to itself.
Regular(t) == fs[t] \in Data

\* Those a change to t or its backup by actor disturbs.
Bystanders(actor, t) == {q \in Procs \ {actor} : job[q].t = t}

Goto(p, place) == pc' = [pc EXCEPT ![p] = place]

\* The request of p is over, with success or with an error for the caller.
End(p) ==
  /\ pc' = [pc EXCEPT ![p] = "idle"]
  /\ job' = [job EXCEPT ![p] = NoJob]

Begin(p, place, request) ==
  /\ pc[p] = "idle"
  /\ pc' = [pc EXCEPT ![p] = place]
  /\ job' = [job EXCEPT ![p] = request]

disk == <<fs, backup, creating, filling>>

FileInit ==
  /\ fs \in [Targets -> Contents \union {Absent, Link}]
  /\ backup \in [Targets -> Contents \union {Absent}]
  /\ creating = [t \in Targets |-> None]
  /\ filling = [t \in Targets |-> {}]
  /\ pc = [p \in Procs |-> "idle"]
  /\ job = [p \in Procs |-> NoJob]
  /\ disturbed = {}
  /\ outside = 0
  /\ crashes = 0

-----------------------------------------------------------------------------
(* Planning an edit and checking that the plan still fits the file. *)

\* commitPreview hands a stored plan, made from base at some earlier time, to
\* writePlannedEdit.
StartApply(p, t, base, out) ==
  /\ out # base
  /\ Begin(p, "resolve", [NoJob EXCEPT !.op = "apply", !.t = t, !.base = base, !.out = out])
  /\ UNCHANGED <<disk, disturbed, budgets>>

\* planEdits, for clipfit_preview or clipfit_edit: the path must resolve to a
\* regular file.
StartPlan(p, t, op) ==
  /\ op \in {"preview", "edit"}
  /\ Regular(t)
  /\ Begin(p, "plan", [NoJob EXCEPT !.op = op, !.t = t])
  /\ UNCHANGED <<disk, disturbed, budgets>>

\* planEdits reads the file; the operations must match and must change something.
PlanRead(p) ==
  /\ pc[p] = "plan"
  /\ \/ \E d \in Reads(job[p].t), out \in Contents :
          /\ out # d
          /\ job' = [job EXCEPT ![p] = [@ EXCEPT !.base = d, !.out = out]]
          /\ Goto(p, IF job[p].op = "edit" THEN "resolve" ELSE "draft")
     \/ End(p)
  /\ UNCHANGED <<disk, disturbed, budgets>>

\* previewEdits keeps the plan in memory and writes nothing.
FinishPreview(p) ==
  /\ pc[p] = "draft"
  /\ End(p)
  /\ UNCHANGED <<disk, disturbed, budgets>>

\* writePlannedEdit: the path must still resolve to itself.
Resolve(p) ==
  /\ pc[p] = "resolve"
  /\ \/ Regular(job[p].t) /\ Goto(p, "check") /\ UNCHANGED job
     \/ End(p)
  /\ disturbed' = disturbed \ {p}
  /\ UNCHANGED <<disk, budgets>>

\* Mutant of CheckHash: the bytes to back up are read, the hash is not compared.
CheckHashSkipped(p) ==
  /\ pc[p] = "check"
  /\ \/ \E d \in Reads(job[p].t) :
          /\ job' = [job EXCEPT ![p] = [@ EXCEPT !.cur = d]]
          /\ Goto(p, "open")
     \/ End(p)
  /\ UNCHANGED <<disk, disturbed, budgets>>

\* Mutant of CheckHash: a failed read goes unnoticed.
CheckHashUnread(p) ==
  /\ pc[p] = "check"
  /\ job' = [job EXCEPT ![p] = [@ EXCEPT !.cur = fs[job[p].t]]]
  /\ Goto(p, "open")
  /\ UNCHANGED <<disk, disturbed, budgets>>

\* The file is read again, and goes on only with the hash of the bytes that the
\* plan was made from.
CheckHash(p) ==
  /\ pc[p] = "check"
  /\ \/ /\ job[p].base \in Reads(job[p].t)
        /\ job' = [job EXCEPT ![p] = [@ EXCEPT !.cur = job[p].base]]
        /\ Goto(p, "open")
     \/ End(p)
  /\ UNCHANGED <<disk, disturbed, budgets>>

\* runApply of the command line reads the file once and checks nothing later;
\* commands that match nothing leave out as it was read and are applied too.
StartCliApply(p, t) ==
  /\ \E d \in Reads(t) : \E out \in Contents \union {d} :
       Begin(p, "open", [NoJob EXCEPT !.op = "cli_apply", !.t = t, !.cur = d, !.out = out])
  /\ disturbed' = disturbed \ {p}
  /\ UNCHANGED <<disk, budgets>>

-----------------------------------------------------------------------------
(* writeBackup and writeAtomic. *)

\* os.WriteFile opens the backup with O_TRUNC, or fails before it does.
OpenBackup(p) ==
  /\ pc[p] = "open"
  /\ LET t == job[p].t
     IN \/ /\ backup' = [backup EXCEPT ![t] = Empty]
           /\ filling' = [filling EXCEPT ![t] = @ \union {p}]
           /\ disturbed' = disturbed \union Bystanders(p, t)
           /\ Goto(p, "fill")
           /\ UNCHANGED job
        \/ End(p) /\ UNCHANGED <<backup, filling, disturbed>>
  /\ UNCHANGED <<fs, creating, budgets>>

\* What the backup can hold once p has written data into it: over the bytes of
\* another writer, whose tail may stick out, the result is a mixture.
Overlay(t, data) == IF backup[t] = Empty THEN {data} ELSE {data, Torn}

\* The bytes go to the file p opened, which the path may no longer name.  A
\* failed write or close leaves none, some or all of them, and ends the request.
FillBackup(p) ==
  /\ pc[p] = "fill"
  /\ LET t == job[p].t
         mine == p \in filling[t]
     IN \/ /\ \E d \in Overlay(t, job[p].cur) :
                backup' = IF mine THEN [backup EXCEPT ![t] = d] ELSE backup
           /\ Goto(p, "install")
           /\ UNCHANGED job
           /\ filling' = [filling EXCEPT ![t] = @ \ {p}]
           /\ disturbed' = IF mine THEN disturbed \union Bystanders(p, t) ELSE disturbed
        \/ /\ \E d \in {backup[t], Torn} \union Overlay(t, job[p].cur) :
                backup' = IF mine THEN [backup EXCEPT ![t] = d] ELSE backup
           /\ End(p)
           /\ filling' = [filling EXCEPT ![t] = @ \ {p}]
           /\ disturbed' = IF mine THEN disturbed \union Bystanders(p, t) ELSE disturbed
  /\ UNCHANGED <<fs, creating, budgets>>

\* The temporary file is complete before the rename that replaces the target;
\* what fails before the rename, or the rename itself, leaves the target alone.
Install(p) ==
  /\ pc[p] = "install"
  /\ End(p)
  /\ LET t == job[p].t
     IN \/ /\ fs' = [fs EXCEPT ![t] = job[p].out]
           /\ creating' = [creating EXCEPT ![t] = None]
           /\ disturbed' = disturbed \union Bystanders(p, t)
        \/ UNCHANGED <<fs, creating, disturbed>>
  /\ UNCHANGED <<backup, filling, budgets>>

-----------------------------------------------------------------------------
(* Rollback, which keeps no copy of what it replaces. *)

\* The server insists that the target exists and is no symlink to elsewhere;
\* the command line takes any path.
StartRollback(p, t) ==
  /\ p \in Servers => Regular(t)
  /\ Begin(p, "rollback", [NoJob EXCEPT !.op = "rollback", !.t = t])
  /\ UNCHANGED <<disk, disturbed, budgets>>

\* The backup is read whatever it holds, even while somebody is writing it.
ReadBackup(p) ==
  /\ pc[p] = "rollback"
  /\ LET t == job[p].t
     IN \/ /\ backup[t] # Absent
           /\ \E d \in {backup[t]} \union {torn \in {Torn} : filling[t] # {}} :
                job' = [job EXCEPT ![p] = [@ EXCEPT !.out = d]]
           /\ Goto(p, "install")
        \/ End(p)
  /\ UNCHANGED <<disk, disturbed, budgets>>

-----------------------------------------------------------------------------
(* clipfit_create. *)

\* Lstat must find nothing; the parents are made before the file is opened.
StartCreate(p, t, out) ==
  /\ fs[t] = Absent
  /\ Begin(p, "create", [NoJob EXCEPT !.op = "create", !.t = t, !.out = out])
  /\ UNCHANGED <<disk, disturbed, budgets>>

\* Mutant of CreateOpen: O_TRUNC for O_EXCL, trusting the Lstat before.
CreateOpenTruncating(p) ==
  /\ pc[p] = "create"
  /\ fs' = [fs EXCEPT ![job[p].t] = Empty]
  /\ creating' = [creating EXCEPT ![job[p].t] = p]
  /\ disturbed' = disturbed \union Bystanders(p, job[p].t)
  /\ Goto(p, "create_write")
  /\ UNCHANGED <<job, backup, filling, budgets>>

\* O_CREATE|O_EXCL: whatever appeared at the path meanwhile ends the request.
CreateOpen(p) ==
  /\ pc[p] = "create"
  /\ LET t == job[p].t
     IN \/ /\ fs[t] = Absent
           /\ fs' = [fs EXCEPT ![t] = Empty]
           /\ creating' = [creating EXCEPT ![t] = p]
           /\ disturbed' = disturbed \union Bystanders(p, t)
           /\ Goto(p, "create_write")
           /\ UNCHANGED job
        \/ End(p) /\ UNCHANGED <<fs, creating, disturbed>>
  /\ UNCHANGED <<backup, filling, budgets>>

\* Write, Sync and Close; any of them may fail, with any part of the bytes written.
CreateWrite(p) ==
  /\ pc[p] = "create_write"
  /\ LET t == job[p].t
         mine == creating[t] = p
     IN /\ \/ /\ fs' = IF mine THEN [fs EXCEPT ![t] = job[p].out] ELSE fs
              /\ creating' = IF mine THEN [creating EXCEPT ![t] = None] ELSE creating
              /\ End(p)
           \/ /\ \E d \in {Empty, Torn, job[p].out} :
                   fs' = IF mine THEN [fs EXCEPT ![t] = d] ELSE fs
              /\ Goto(p, "create_undo")
              /\ UNCHANGED <<creating, job>>
        /\ disturbed' = IF mine THEN disturbed \union Bystanders(p, t) ELSE disturbed
  /\ UNCHANGED <<backup, filling, budgets>>

\* The deferred clean-up removes by name, whatever the name stands for by then.
CreateUndo(p) ==
  /\ pc[p] = "create_undo"
  /\ LET t == job[p].t
     IN /\ fs' = [fs EXCEPT ![t] = Absent]
        /\ creating' = [creating EXCEPT ![t] = None]
        /\ disturbed' = disturbed \union Bystanders(p, t)
  /\ End(p)
  /\ UNCHANGED <<backup, filling, budgets>>

-----------------------------------------------------------------------------
(* What no request does. *)

\* clipfit clean, or the system's temp cleaner, unlinks one backup; a process
\* that has it open goes on writing to a file without a name.
Clean(t) ==
  /\ backup[t] # Absent
  /\ backup' = [backup EXCEPT ![t] = Absent]
  /\ filling' = [filling EXCEPT ![t] = {}]
  /\ disturbed' = disturbed \union Bystanders(None, t)
  /\ UNCHANGED <<fs, creating, pc, job, budgets>>

\* Another program replaces or removes the file or puts a symlink in its place.
Outside(t, x) ==
  /\ outside < MaxOutside
  /\ x # fs[t]
  /\ fs' = [fs EXCEPT ![t] = x]
  /\ creating' = [creating EXCEPT ![t] = None]
  /\ disturbed' = disturbed \union Bystanders(None, t)
  /\ outside' = outside + 1
  /\ UNCHANGED <<backup, filling, pc, job, crashes>>

\* A process dies between two steps, or in the middle of a write.
Crash(p) ==
  /\ crashes < MaxCrashes
  /\ pc[p] # "idle"
  /\ LET t == job[p].t
     IN /\ \E d \in {backup[t], Torn} :
             backup' = IF p \in filling[t] THEN [backup EXCEPT ![t] = d] ELSE backup
        /\ \E d \in {fs[t], Torn} :
             fs' = IF pc[p] = "create_write" /\ creating[t] = p
                   THEN [fs EXCEPT ![t] = d] ELSE fs
        /\ filling' = [filling EXCEPT ![t] = @ \ {p}]
        /\ creating' = IF creating[t] = p THEN [creating EXCEPT ![t] = None] ELSE creating
        /\ disturbed' = IF backup' # backup \/ fs' # fs
                        THEN disturbed \union Bystanders(p, t) ELSE disturbed
  /\ End(p)
  /\ crashes' = crashes + 1
  /\ UNCHANGED outside

-----------------------------------------------------------------------------
Request(p, t) ==
  \/ /\ p \in Servers
     /\ \/ \E base \in Data, out \in Contents : StartApply(p, t, base, out)
        \/ \E op \in {"preview", "edit"} : StartPlan(p, t, op)
        \/ \E out \in Contents : StartCreate(p, t, out)
  \/ p \in Clis /\ StartCliApply(p, t)
  \/ StartRollback(p, t)

Step(p) ==
  \/ PlanRead(p)
  \/ FinishPreview(p)
  \/ Resolve(p)
  \/ CheckHash(p)
  \/ OpenBackup(p)
  \/ FillBackup(p)
  \/ Install(p)
  \/ ReadBackup(p)
  \/ CreateOpen(p)
  \/ CreateWrite(p)
  \/ CreateUndo(p)

FileNext ==
  \/ \E p \in Procs, t \in Targets : Request(p, t)
  \/ \E p \in Procs : Step(p) \/ Crash(p)
  \/ \E t \in Targets : Clean(t)
  \/ \E t \in Targets, x \in Contents \union {Absent, Link} : Outside(t, x)

FileSpec == FileInit /\ [][FileNext]_fileVars

-----------------------------------------------------------------------------
FileTypeOK ==
  /\ fs \in [Targets -> Data \union {Absent, Link}]
  /\ backup \in [Targets -> Data \union {Absent}]
  /\ creating \in [Targets -> Procs \union {None}]
  /\ filling \in [Targets -> SUBSET Procs]
  /\ pc \in [Procs -> PCs]
  /\ job \in [Procs -> Job]
  /\ \A p \in Procs : (pc[p] = "idle") <=> (job[p] = NoJob)
  /\ disturbed \in SUBSET Procs
  /\ outside \in 0 .. MaxOutside
  /\ crashes \in 0 .. MaxCrashes

\* README "creates a rollback backup before an atomic write": at the rename of
\* an apply or edit that nobody disturbed since it resolved the path, the bytes
\* about to be replaced are the ones the plan was made from, and the backup
\* holds exactly them.  The command line, which may be replacing a symlink, is
\* held to the bytes it read.
QuietApplyIsExact ==
  \A p \in Procs :
    (pc[p] = "install" /\ job[p].op \in Backed /\ p \notin disturbed) =>
      LET j == job[p]
      IN /\ backup[j.t] = j.cur
         /\ fs[j.t] = j.cur \/ (p \in Clis /\ fs[j.t] = Link)
         /\ j.op \in Planned => j.cur = j.base

\* README "never overwrites an existing path or symlink": though Lstat looked
\* long before, opening and writing a new file changes a path only from nothing
\* or from the file this very request created.
CreateNeverOverwrites ==
  [][\A p \in Procs :
       (pc[p] \in {"create", "create_write"} /\ pc'[p] # pc[p]) =>
         LET t == job[p].t
         IN fs'[t] # fs[t] => fs[t] = Absent \/ creating[t] = p]_fileVars

-----------------------------------------------------------------------------
(* What the repository says and the code does not do. *)

\* README "source-file change ... causes apply to refuse the write": a file whose
\* bytes are no longer the ones the plan was made from is not replaced.
StaleApplyIsRefused ==
  \A p \in Procs :
    (pc[p] = "install" /\ job[p].op \in Planned /\ Regular(job[p].t))
      => fs[job[p].t] = job[p].base

\* main.go "Refuse to apply without a backup so the rollback safety net is always
\* available": when no process is writing a backup, it is whole or was cleaned.
SafetyNetIsWhole ==
  \A t \in Targets : filling[t] = {} => backup[t] \in Contents \union {Absent}
=============================================================================
