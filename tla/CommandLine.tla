----------------------------- MODULE CommandLine ----------------------------
(***************************************************************************)
(* The command line beside the MCP server, on files with several names:    *)
(* apply, rollback and clean of main.go one after the other, and the       *)
(* server's edit and rollback. Both keep one backup per target, the        *)
(* command line by the absolute path it was given, without its "..", and   *)
(* the server by the path without links. The command line reads and writes *)
(* the path as it was given when it applies, but the path without its ".." *)
(* when it rolls back: where a link precedes "..", these are two files. On *)
(* Windows the system drops ".." as filepath does, and they are one. What  *)
(* runs at the same time is FileStore's matter.                            *)
(***************************************************************************)
EXTENDS Paths

CONSTANTS
  Disks,    \* the disks there are
  Args,     \* the absolute paths given to the tools, with ".." or not
  MaxRuns   \* bound on the number of tools run

Contents == 0..MaxRuns   \* what files hold: a run writes its number
Absent == -1             \* no backup
Torn == -2               \* what a failed write leaves of a backup

ASSUME CommandLineAssumption ==
  /\ MaxRuns \in Nat
  /\ \A p \in Args : p \in Seq(Names \cup {Up}) /\ Clean(p) \in AllPaths
  /\ \A t \in Disks : IsTree(t) /\ \A p \in AllPaths : t[p].kind = "file" => t[p].data \in Contents

VARIABLES
  disk,
  backups,   \* of each path, or Absent
  exit,      \* of the last tool
  runs,
  last,      \* the last run: tool, path, and what it met
  undo       \* the apply a rollback would undo: {} or {[tool, path, disk]}

cliVars == <<disk, backups, exit, runs, last, undo>>

(* What a name reads: the contents of a file, in a set.                    *)
Reads(t, p) == {q.data : q \in {n \in {Stat(t, p)} : n.kind = "file"}}

(* os.ReadFile of a path as it was given.                                  *)
ReadFile(t, p) == UNION {Reads(t, q) : q \in Physical(t, p)}

(* writeAtomic: the temporary file is made in filepath.Dir of the path,    *)
(* which has no "..", and the rename goes to the path as it was given. It  *)
(* replaces a file or a link, not a directory. The disks it can leave.     *)
writeAtomic(p, data) ==
  {[disk EXCEPT ![r] = File(data)] :
     r \in {r \in DOMAIN disk :
             /\ \E q \in Physical(disk, p) : r \in Place(disk, q)
             /\ disk[r] # Directory
             /\ Stat(disk, Clean(Front(p))) = Directory}}

(* The file that holds the backup of a path, by the hash of the path.      *)
backupPath(p) == p

(* What a parsed instruction file comes to when it is applied.             *)
Outcomes == {"unreadable", "no commands", "invalid", "matched", "partly", "unmatched"}
Missed == {"partly", "unmatched"}

CliInit ==
  /\ disk \in Disks
  /\ backups = [p \in AllPaths |-> Absent]
  /\ exit = 0 /\ runs = 0 /\ last = [tool |-> "none"] /\ undo = {}

Run(record) ==
  /\ runs < MaxRuns /\ runs' = runs + 1
  /\ last' = record

(* runApply up to the backup: every return that changes nothing.           *)
Refusal(p, spec) ==
  CASE ReadFile(disk, p) = {} \/ spec = "unreadable" -> 2
    [] ReadFile(disk, p) # {} /\ spec = "no commands" -> 1
    [] ReadFile(disk, p) # {} /\ spec = "invalid" -> 2
    [] OTHER -> IF spec \in Missed THEN 1 ELSE 0

(* What was computed; a file in which nothing matched is written, too.     *)
Output(p, spec) ==
  IF spec = "unmatched" THEN CHOOSE d \in ReadFile(disk, p) : TRUE ELSE runs + 1

ApplyRefused(p, spec, dryRun) ==
  /\ dryRun \/ ReadFile(disk, p) = {} \/ spec \in {"unreadable", "no commands", "invalid"}
  /\ exit' = Refusal(p, spec)
  /\ undo' = {}
  /\ UNCHANGED <<disk, backups>>

\* Mutant of ApplyWrites: a failed rename goes unnoticed.
ApplyIgnoresError(p, spec) ==
  /\ ReadFile(disk, p) # {} /\ spec \in Missed \cup {"matched"}
  /\ \E read \in ReadFile(disk, p) : backups' = [backups EXCEPT ![backupPath(Clean(p))] = read]
  /\ disk' \in writeAtomic(p, Output(p, spec)) \cup {disk} /\ exit' = (IF spec \in Missed THEN 1 ELSE 0)
  /\ undo' = {[tool |-> "command line", path |-> p, disk |-> disk]}

ApplyWrites(p, spec) ==
  /\ ReadFile(disk, p) # {} /\ spec \in Missed \cup {"matched"}
  /\ \/ /\ \E left \in {Torn, backups[backupPath(Clean(p))]} :      \* writeBackup fails
             backups' = [backups EXCEPT ![backupPath(Clean(p))] = left]
        /\ exit' = 2 /\ undo' = {} /\ UNCHANGED disk
     \/ /\ \E read \in ReadFile(disk, p) : backups' = [backups EXCEPT ![backupPath(Clean(p))] = read]
        /\ \/ disk' \in writeAtomic(p, Output(p, spec)) /\ exit' = (IF spec \in Missed THEN 1 ELSE 0)
           \/ exit' = 2 /\ UNCHANGED disk                    \* writeAtomic fails
        /\ undo' = {[tool |-> "command line", path |-> p, disk |-> disk]}

CliApply ==
  \E p \in Args, spec \in Outcomes, dryRun \in BOOLEAN :
    /\ Run([tool |-> "apply", path |-> p, spec |-> spec, dry |-> dryRun,
            before |-> disk, output |-> runs + 1])
    /\ \/ ApplyRefused(p, spec, dryRun)
       \/ ~dryRun /\ ApplyWrites(p, spec)

(* The rollback of a backup to a path, and the disk it makes. A write      *)
(* fails, at the latest, when the path is a directory's.                   *)
Restore(p, key) ==
  \/ disk' \in writeAtomic(p, backups[key]) /\ exit' = 0
  \/ exit' = 2 /\ UNCHANGED disk

\* Mutant of CliRollback: the backup is looked up without links.
CliRollbackResolved ==
  \E p \in Args :
    /\ Run([tool |-> "rollback", path |-> p, undone |-> undo])
    /\ \E q \in EvalSymlinks(disk, Clean(p)) :
         IF backups[q] = Absent THEN exit' = 1 /\ UNCHANGED disk ELSE Restore(p, q)
    /\ undo' = {} /\ UNCHANGED backups

CliRollback ==
  \E p \in Args :
    /\ Run([tool |-> "rollback", path |-> p, undone |-> undo])
    /\ IF backups[backupPath(Clean(p))] = Absent THEN exit' = 1 /\ UNCHANGED disk
                                                 ELSE Restore(Clean(p), backupPath(Clean(p)))
    /\ undo' = {} /\ UNCHANGED backups

(* clean, and the system that clears its temp directory: some or all       *)
(* backups are gone.                                                       *)
CleanBackups ==
  /\ Run([tool |-> "clean"])
  /\ \E gone \in SUBSET {p \in AllPaths : backups[p] # Absent} :
       /\ backups' = [p \in AllPaths |-> IF p \in gone THEN Absent ELSE backups[p]]
       /\ exit' \in {0} \cup {2 : p \in {q \in AllPaths : backups'[q] # Absent}}
  /\ undo' = {} /\ UNCHANGED disk

\* Mutant of McpEdit: the target keeps the name it was asked for.
McpEditUnresolved ==
  \E p \in Args : \E q \in {Clean(p)} :
    /\ Reads(disk, q) # {}
    /\ Run([tool |-> "edit", path |-> p, before |-> disk, output |-> runs + 1])
    /\ \E read \in Reads(disk, q) : backups' = [backups EXCEPT ![backupPath(q)] = read]
    /\ disk' \in writeAtomic(q, runs + 1)
    /\ undo' = {[tool |-> "server", path |-> p, disk |-> disk]}
    /\ UNCHANGED exit

(* clipfit_edit, or preview and apply, that succeeds: on the path that     *)
(* secureMCPTarget returns.                                                *)
McpEdit ==
  \E p \in Args : \E q \in EvalSymlinks(disk, Clean(p)) :
    /\ Reads(disk, q) # {}
    /\ Run([tool |-> "edit", path |-> p, before |-> disk, output |-> runs + 1])
    /\ \E read \in Reads(disk, q) : backups' = [backups EXCEPT ![backupPath(q)] = read]
    /\ disk' \in writeAtomic(q, runs + 1)
    /\ undo' = {[tool |-> "server", path |-> p, disk |-> disk]}
    /\ UNCHANGED exit

McpRollback ==
  \E p \in Args : \E q \in EvalSymlinks(disk, Clean(p)) :
    /\ backups[backupPath(q)] # Absent
    /\ Run([tool |-> "clipfit_rollback", path |-> p, undone |-> undo])
    /\ disk' \in writeAtomic(q, backups[backupPath(q)])
    /\ undo' = {} /\ UNCHANGED <<exit, backups>>

CliNext == CliApply \/ CliRollback \/ CleanBackups \/ McpEdit \/ McpRollback

CliSpec == CliInit /\ [][CliNext]_cliVars

-----------------------------------------------------------------------------
(* The disk stays a disk of files with contents, and exit is an exit code. *)
CliTypeOK ==
  /\ IsTree(disk)
  /\ \A p \in AllPaths : disk[p].kind = "file" => disk[p].data \in Contents \cup {Torn}
  /\ \A p \in AllPaths : backups[p] \in Contents \cup {Absent, Torn}
  /\ exit \in 0..2

Rollbacks == {"rollback", "clipfit_rollback"}
ByItsOwnTool(u) == (last.tool = "rollback") = (u.tool = "command line")
HasNoLinks(u) == EvalSymlinks(u.disk, Clean(u.path)) = {Clean(u.path)}
SameReadings(t) == \A p \in AllPaths : Walk(t, p).end # "loop" => Reads(disk, p) = Reads(t, p)

(* With its ".." or without, the path stands for the same place.           *)
OnePlace(t, p) == \A q \in Physical(t, p) : Place(t, q) = Place(t, Clean(p))

(* A rollback right after an apply undoes it: with the same path every     *)
(* name reads what it read before, by whatever links the path leads and    *)
(* even when the rename had failed. The tools undo each other's work when  *)
(* the path has no links (main.go:605-669, mcp.go:509-530). Two things     *)
(* make it fail. A ".." behind a link of a path given to the command line: *)
(* apply then edits one file and rollback, with exit 0, writes what it had *)
(* read over another (main.go:550-655). And a name that could not be read  *)
(* because of too many links: one of them may be the link that apply and   *)
(* rollback replaced by a file.                                            *)
RollbackUndoesApply ==
  last.tool \in Rollbacks /\ (last.tool = "rollback" => exit = 0) =>
    \A u \in last.undone :
      /\ u.path = last.path
      /\ ByItsOwnTool(u) \/ HasNoLinks(u)
      /\ u.tool = "command line" => OnePlace(u.disk, u.path)
      => SameReadings(u.disk)

(* What a script can rely on: an apply that exits with 0 matched all its   *)
(* commands and, unless dry, what its path stood for, ".." and links in    *)
(* it, reads their output, if it does not lead through the very link that  *)
(* the rename replaced; with 2, no name reads anything new.                *)
ExitTellsWhatHappened ==
  last.tool = "apply" =>
    /\ exit = 0 => last.spec = "matched"
    /\ exit = 0 /\ ~last.dry =>
         \A q \in Physical(last.before, last.path) : Place(disk, q) # {} => Reads(disk, q) = {last.output}
    /\ exit = 2 \/ last.dry => disk = last.before

(* After an edit by the server every name of the file reads the new text,  *)
(* and every other name what it read before: no link is replaced, as the   *)
(* command line does, which renames over it.                               *)
AliasesSeeTheEdit ==
  last.tool = "edit" =>
    \A p \in AllPaths :
      Reads(disk, p) = IF EvalSymlinks(last.before, p) # {}
                          /\ EvalSymlinks(last.before, p) = EvalSymlinks(last.before, Clean(last.path))
                       THEN {last.output} ELSE Reads(last.before, p)

(* What a tool says it wrote is what the names read afterwards: the exit   *)
(* code of the command line (main.go:549-625), and an edit by the server   *)
(* (mcp.go:535-588).                                                       *)
WritesAreSeen == ExitTellsWhatHappened /\ AliasesSeeTheEdit
=============================================================================
