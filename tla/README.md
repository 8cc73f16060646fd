# ClipFit, modelled and proved in TLA+

ClipFit edits text files on behalf of an agent. One Go program is both a command
line (`clipfit apply|rollback|clean`) and an MCP server (`clipfit mcp --root`)
that speaks JSON-RPC over stdin and stdout. This directory holds models of its
parts, the TLC runs that check them, and proofs for TLAPS.

## 1. The system

| component | code | state it keeps | operations |
|---|---|---|---|
| preview table | `edit.go` 74-132, 204-232, 455-481 | `server.previews`, the clock | preview, apply, prune, evict, restart |
| planned writes, backups | `edit.go` 134-275, `main.go` 456-507, 541-684, `mcp.go` 441-589 | the files, one backup file per path in the temp directory | plan, check, back up, rename, create, rollback, clean |
| serve loop, response writer | `mcp.go` 128-364, `transport.go` | the request being served, a `bufio.Writer`, the writer goroutine, a timer | decode, handle, size check, write, flush, time out, close, exit |
| telemetry, process exit | `telemetry.go`, `mcp.go` 70-92 | a bounded queue, a loss counter, a goroutine, stderr | emit, encode, close |
| operations, matching | `edit.go` 134-202, 292-440, `main.go` 185-380 | the text so far, within one call | count, check, replace, count again, render |
| line endings, BOM | `line_endings_*.go`, `main.go` 414-454 | none | decode, render |
| patch parser | `main.go` 48-183 | the parser's state, within one call | one line, end of patch |
| line diff | `diff.go` | none | hunks of a change |
| path guard, root policy | `mcp.go` 94-122, 535-597, `root_policy_*.go` | the root, fixed at start | resolve, contain, make directories |
| command line | `main.go` 549-758 | files and backups under the names it was given | apply, rollback, clean, exit |
| tool calls | `mcp.go` 251-380, `mcp_tools.go`, `edit.go` 21-36 | none | decode, check, dispatch |

How they meet: the serve loop handles one request at a time, so within one
server the preview table has one user. The *files* and the *backup directory*
are shared by every server, every command-line run, the temp cleaner and all
other programs, with no lock. The loop hands each reply to a goroutine of its
own and waits for it or for a timer; that goroutine and main share the
`bufio.Writer` and the telemetry queue. Telemetry's goroutine and the last
message of `runMCP` share stderr.

What is hard: the instants between a check and the rename it guards; a backup
that is overwritten in place; two readings of the clock in one apply; ids that
outlive a failed write, an expiry or a restart; a client that stops reading in
the middle of a frame; `select` with two ready branches; losses counted by one
goroutine and reported by another; matches counted by one piece of code and
replaced by another; indentation taken off and put back; one file with several
names. `PROJECT.json` lists each such place with
its line.

What makes each part correct:
- preview table: an id is applied at most once, only while fresh, only if its
  preview was delivered; the table is bounded; eviction takes the oldest;
- files: an apply replaces the bytes it was planned from, after saving exactly
  those; a create overwrites nothing;
- serve loop: the output is whole frames in order, success means flushed,
  sending ends;
- telemetry: emitters never block, every event is accounted for, hardly a loss stays
  unreported, exit comes;
- operations: what is replaced is what was meant, all of it and nothing else;
- patch parser: the commands are those that were written;
- path guard: what is inside the root is served, what is outside is neither
  opened nor changed, and a file has one name;
- command line: a rollback undoes an apply, and the exit code tells what happened;
- tool calls: what the schema admits is tried, what it does not declare is refused, up
  to the case of names.

## 2. The modules

```
TokenLedger <--refined by-- PreviewStore --+
                                           +--EXTENDS-- EditServer
                            FileStore  ----+
ServeLoop        Telemetry        LineDiff
Text  --EXTENDS-- EditOps         KissParser        ToolCalls
Paths --EXTENDS-- PathGuard, CommandLine --EXTENDS-- FileNames
MC<module>: constants for TLC
SequenceLemmas, EditServerProofs (files, table, server), ServeLoopProofs, TelemetryProofs,
EditOpsProofs, EditPlacesProofs (where an edit takes effect), FileNamesProofs,
PatchToDiffProofs (calls, parser, diff, and the four parts of MCPatchToDiff together): theorems
```

**TokenLedger** is what a single-use, short-lived token promises, with no table and no
rule for what is evicted or pruned when: an id is offered once and for at most
`Lifetime`, at most `Capacity` are on offer, one on offer may be claimed once and not
after its time, or become void, and never comes back.

**PreviewStore** is `server.previews`. One request is split where the code looks
at the clock or calls out: `DraftPreview` (plan, id, expiry), then
`RejectPreview` or `StorePreview` (size check, prune, evict, insert);
`BeginApply` (prune, look up), `RecheckExpiry` (the second `time.Now()`),
`FinishApply` (both branches after the write delete the id). `Restart` loses
the table but not the ids' past. The map's random order appears as `Oldest`
being a set when expiry times tie. `Bodies`, what a plan may say, is a constant
here and FileStore's plans in EditServer. `claims` and `stored` are history.

**FileStore** is the disk, at the granularity of the system calls that several
processes share. `fs[t]` and `backup[t]` hold whole contents, `Empty`, or
`Torn` (some other bytes); `Absent` and `Link` are what else a path can be. One
action is one call of the code: `Resolve`, `CheckHash`, `OpenBackup` (truncates),
`FillBackup`, `Install` (the rename; the temporary file has a random name, so
writing it is nobody else's business), `ReadBackup`, `CreateOpen`,
`CreateWrite`, `CreateUndo`. Each may fail where the call can fail. `filling`
and `creating` say whose open file a name still stands for, so that a cleaned
backup or a replaced new file is not written any more. `Outside`, `Clean` and
`Crash` happen between any two steps. Servers plan first and check later;
the command line reads once and checks nothing. `disturbed` is history: the
processes whose file or backup somebody else touched since they began.

**EditServer** extends the two: a preview is FileStore's plan and PreviewStore's
draft in one step (`Draft`, `Size`), an apply claims its id and then writes
(`LookUp`, `Claim`), and the id is forgotten when `writePlannedEdit` returns
(`Forget`). `NewSession` and `TimePasses` are a restart and the clock. `replaced` counts the
renames each id has paid for. A restart may hit in the middle of a write.

**ServeLoop** is the loop, the response writer and the pipe. Requests come in the
classes the code tells apart (`bad_version`, `builtin`, `notice`, `unknown`,
`bad_params`, `call`, `preview`) with sizes in abstract units; `Answer` and
`Sized` are `handle` and the size check of `sendMCPResponse`. Each reply has a
goroutine (`wpc[n]`) with its own pending bytes over one shared buffer, so that
two writers *could* meet. `stage` of the code is a function of `wpc` and is read
in `CloseOutput`, a step after `select` has chosen. After the close the call
under way may still deliver, fail or stay blocked, as operating systems differ. When the
loop fails, `PrintError` is the message on stderr, which need not ever be taken, and
`Exit` the end of the process.
The JSON text of a frame is its size; an id that is absent or null has size 0.

**Telemetry** is `Emit` in its three steps (the flag, the send or the default branch, and
only then the counter), the goroutine, which takes a record, swaps the counter and
writes in separate steps, `Close` with its 100 ms, and the end of `runMCP`. Of a record only
its producer matters, and of the output the counts. stderr takes lines whole, serves one
`Write` at a time, and may have no room for ever. A `Write` may also fail (`EncodeFails`,
`PrintErrorFails`): the code discards the error, and the record and the losses it carried
are gone, which the history variables `unwritten` and `forgotten` count. A closed stderr
ends the process (`BrokenPipe`: Go's runtime does so for file descriptor 2). Helpers stand
for writer goroutines: they may outlive the loop after a timeout but not after the
end of the input.

**LineDiff** is one call of `computeChanges` per behaviour: `Trim`, then `Search`
once per distance (or `GiveUp` at the budget), `Back` once per distance,
`BackAtStart`, `Group`. The code updates one frontier in place; diagonals of one
parity are written while those of the other are read, so a distance is one
function here. When the search ends at a diagonal the code leaves those after it as they
were; nothing reads them again. `trace` counts from 1. A text is its sequence of lines.

**Text** has texts as sequences of symbols: newline, CR, a blank, NBSP, the BOM, the
two remark tags, and pieces of words. Beside the conversions of `main.go` it
holds the functions of Go's `strings` and `regexp` that the code calls, all of
which scan from left to right for matches that do not overlap (`Scan`).

**EditOps** is one call of `planEdits` after the file was read: `Decode`, then
`ApplyOperation` or `RefuseOperation` once per operation, then `Render`. An
operation is first counted (`BlockMatches`, `LiteralMatches`, `SuffixMatches`,
`NameMatches`: the checks of `applyStructuredOperations`), then carried out by
`applyCommand`, which searches anew as it does for the command line. A pattern
is the block with each run of white space as one blank; `BlockAt` is what Go's
leftmost-first regexp makes of `(^|\n)([ \t]*)(pattern)`. The properties speak of
`BlockOccurrences`, defined by words and lines with no pattern and no scan. Tabs
are blanks, and two symbols are never alike in part.

**KissParser** is `parseKissCommands`, one action per kind of line. Lines of
content carry their number, so that a misplaced or repeated line shows.
`Written` reads the commands off the whole patch. Trailing spaces and CR, which
`preprocessSpec` and the tag matching remove, are no part of a line.

**Paths** is a tree of directories, files and symbolic links with what `os` and
`path/filepath` do on it: `Descend` goes down to the first node that is no
directory, `Walk` goes on behind links, up to a bound, and tells a name
that does not exist from one behind too many links and from other failures.
`Walk` and `Clean` recurse as functions, on the links that are left and on the names.
`Physical` is what the system makes of a path with "..": the directory above the one
that the names before it lead to, through links, where `Clean` drops the two
names without a look at the disk. **PathGuard** is the server's use of it:
`Start` (`resolveMCPRoot` with the policy of the platform), `OpenTarget` (the
tools on an existing file), `Create` (with the directories it makes, the second
look at the path, and the file). The Windows policy is a type for each volume, the
Linux one a drive mount and the paths on 9p.

**CommandLine** runs apply, rollback and clean of the command line and the
server's edit and rollback, one after the other, on a tree in which a file has
several names. A run writes its own number, so that contents tell who wrote
them. What of a spec matters is its outcome (`Outcomes`: unreadable, no commands,
invalid, all, some or none matched). `last` and `undo` are history: the last run,
and the apply that a rollback would undo. A path may have ".." in it, and each use of it is the
code's: `runApply` reads the path as it was given and renames to it (`Physical`), makes the
temporary file in its `filepath.Dir` and names the backup by `filepath.Abs` (both `Clean`);
`runRollback` works with the cleaned path alone; the server resolves the cleaned
path. On Windows, where the system cleans paths too, the two are one. FileStore has the same tools side by
side on one name. **FileNames** puts PathGuard and CommandLine side by side: one of
them takes the steps, the other stands still.

**ToolCalls** has the published schema (`Admits`), the decoder (`decodeMCPArgs`) and
the checks (`Passes`, `ShapeOK`) as three readings of one object of JSON values. The
decoder matches a name with a field up to case (`Fold`, a constant with the one
assumption that the fields' own names are their own folded form), also under
`DisallowUnknownFields`; the schema does not. An integer is written with digits, or as `1.0`
or `1e0` or too large for 64 bits (`Exponent`), which the schema admits and the decoder
does not. Left out are objects that name one field twice, in one spelling or
in two: which of the two counts is a matter of the order in the text. `handleToolCall` leads to the tool or refuses. What the tool does then is in the
other modules.

## 3. The runs

| run | bounds | states | shows |
|---|---|---|---|
| `preview_store` | 2 slots, 4 ids, lifetime 1, clock to 4 | 247 k | type, capacity, single use, oldest-first eviction, table holds offers only, refinement of TokenLedger (claims once and in time) |
| `file_store` | 1 file, 2 contents, a server and a command line, 1 foreign change, 1 crash | 382 k | an undisturbed apply is exact, create overwrites nothing |
| `file_store_stale` | same | - | finding: a stale apply is not always refused |
| `file_store_net` | same, no foreign change, no crash | - | finding: a failed backup destroys the earlier one |
| `edit_server` | 1 file, 2 contents, 2 ids (symmetric), 1 slot, lifetime 0 | 1.7 M | one rename per id at most, of the reviewed bytes |
| `serve_loop` | 2 requests, limit 5, buffer 3, pipe 2, frames of 2 to 6 | 106 k | stream is frames in order, success means flushed, rejected previews leave nothing, sending ends |
| `serve_loop_limit` | same | - | finding: errors escape the size limit |
| `serve_loop_long_id` | ids beyond the reserve | - | finding: a rejected reply leaves its preview stored |
| `telemetry` | queue 2, stderr 1, 3 events each from main and a helper, and main's last | 306 k | every event accounted for, few losses unreported, clean close, emitters and exit do not block |
| `telemetry_exit` | same | - | finding: the message after a transport error can block the exit |
| `patch_to_diff` | each of the four parts below, alone | 1.6 M | what the schema admits is tried and what it does not declare, up to case, refused; the commands are those written; what is replaced is what was meant and nothing else, and a plan reads back as its text; hunks rebuild the new text, the script is shortest, no index leaves a text |
| `file_names` | path guard and tools, each alone | 382 k | the root is allowed, what is inside is served under one name, nothing outside is opened or changed; rollback undoes apply, what a tool says it wrote is what is read |

The last two runs add up components that share no state. A variable (`called`, `part`),
fixed at the start, says which of them a behaviour exercises; the others stand
still. So the reachable states are the sum of the components', each component's
behaviours are its own, and one run checks them all.

| part | module | inputs |
|---|---|---|
| `call` | ToolCalls | 41 k calls, lists of 0 to 3 operations with a maximum of 2 |
| `parse` | KissParser | patches of up to 6 lines |
| `edit` | EditOps | 39 k requests of one or two operations on texts of up to 3 lines, both platforms' line endings |
| `diff` | LineDiff | all pairs of texts of up to 4 lines over 3 letters, budget 100 |
| `guard` | PathGuard | 2 names, depth 3, up to 2 links of 3, 3 platforms, 1 create |
| `tools` | CommandLine | 2 names, 17 disks, 7 paths, two of them with "..", 3 runs |

Why these bounds are enough to be of use. Two slots and four ids let a third
plan evict one of two with equal or different expiry times, and a fourth follow.
A lifetime of 1 with a clock to 4 lets every request straddle an expiry. Files
do not interact (each has a backup of its own), so one suffices; two processes
are what it takes to interleave, and the two kinds differ. With one foreign
change and one crash TLC tries each at every step. A second
request follows every ending of the first, and frames that fit the buffer, exceed
it, exceed the pipe and exceed the limit all occur. Three or four events of each producer
against a queue of two overflow it, find it drained before the loss is counted, and
overflow it again. Four lines
over three letters hold every overlap of prefix and suffix, frontiers past both
ends, two hunks with a line between, and searches longer than the budget.
Three lines hold blocks that touch, overlap, repeat, and stand deeper or
shallower than the block that is looked for; each place where an operation can
insert a CR, an NBSP or a remark is followed by an operation that sees it, and one operation
writes a byte order mark where the text begins. Six lines of
a patch hold two commands, or one block with its anchor, and tags in any disorder
around them. Two links can form a cycle, chain, lead out of the root
and back, and stand at, above and below the target. Three runs are an apply, a
second apply or edit by another name, and a rollback by a third; `/b` and `/a/b` may
be the same file, a link to it, or a link into its directory; `/b/../a/a` has
".." behind a directory or a link to one, and `/a/b/../b` stands for `/b` when `/a/b` is
a link to `/a`. An operation of a
tool call has each property left out, null, mistyped, and with the values that the checks
tell apart, in all combinations. The constants `Names`, `MaxDepth`, `MaxLinks` (links the
system follows in one path), `MaxCreates`, `MaxRuns`, `MaxLines`, `MaxPatch` and
`MaxOperations` (100 in the code) are these bounds.
The proofs below remove the bounds for all safety properties.

Deadlock is checked except for ServeLoop and Telemetry, where the process ends
by design, and for `patch_to_diff` and `file_names`: a call of an algorithm returns,
no root may be allowed, and the tools' runs are bounded.

Fairness. Safety runs assume none. ServeLoop assumes it of the steps main takes in the
writer's `select` and after it (`Send`) and of the timer, and of nothing else: the Go
scheduler runs a runnable goroutine and a Go timer fires, but a writer may sit in a system
call for ever, a client owes nothing, and the message that main prints when the loop has
failed may never be taken, so `PrintError` and `Exit` are not fair. `SendEnds` therefore
says that sending ends, in the next request or in a failed loop, and not that the
process exits. Telemetry, whose matter that is, assumes fairness of main's ending and of
the background goroutine *when they can step* (a write without room cannot), and of a
producer past the check; nobody is assumed to read stderr, and no write is assumed
to fail.

Each property has a mutant in its module (`... Mutant of ...`): a definition as a
plausible bug would have it, with which TLC finds the property violated.

## 4. Where code and words differ

1. `main.go:503`. `writeBackup` truncates the only earlier backup before it
   writes the new one; if that write fails the request ends, as `main.go:609`
   says, "to preserve rollback capability", but there is nothing left to roll back to.
2. `edit.go:264`. The check for a changed file precedes the backup and the rename;
   a change in that window is overwritten, against README "source-file change
   ... causes apply to refuse the write". What does hold is proved:
   `QuietApplyIsExact`.
3. `transport.go:37`. Error replies are not measured, against "256 KiB safety
   limit on each encoded JSON-RPC response".
4. `edit.go:114`. A preview is measured with a fixed reserve instead of its id;
   with a longer id its reply is rejected after the plan was stored, against "A
   rejected preview never issues or retains a preview_id". It is a matter of
   memory only: the id was never shown, and the plan expires.
5. `mcp.go:87`. With neither stdout nor stderr drained, the process stays in its
   last message instead of exiting.

Met while modelling, and shown by no run of their own; the properties are
stated so that they hold, with the exception named:
- `edit.go:346`, `README.md:301`: a block that occurs twice with a line in common is
  counted once (`EveryPlaceCounts` counts places apart from each other).
- `main.go:228`, the skill's "relative shape must match exactly": any run of white
  space in a block matches any other (`IsOccurrence` compares words).
- `main.go:239`: a remark line deeper than the shallowest line of the replacement is
  inserted (`BlockKeepsItsIndentation` excludes remarks).
- `edit.go:338`: below an anchor the rest of the anchor's own line is searched as if a
  line started there (`BelowItsAnchor` looks at the rest as a text of its own).
- `edit.go:384`: a suffix is compared with a text to which an earlier operation
  may have given CRs (`Meant` looks for it as it stands).
- `mcp.go:551`: names are compared with the root before links are resolved, so that
  under a root configured through a link absolute paths in the client's spelling
  are refused (`InsideIsServed` speaks of relative paths).
- `main.go:569`, `main.go:645`: exit code 1 also means a spec without commands and a
  rollback without backup (`ExitTellsWhatHappened` promises nothing for 1).
- `main.go:550-655`: apply reads and renames the path as it was given, rollback writes to
  the cleaned one. Given `d/link/../f`, with a link that leads elsewhere, these are two
  files: the rollback exits with 0, leaves the edited file as it is and overwrites
  `d/f` with what the apply had read. `README.md:72` says "Rollback restores the original
  backup bytes". `RollbackUndoesApply` excepts just this (`OnePlace`); without that
  condition TLC finds it in two runs, apply and rollback of `/a/b/../b`.
- `main.go:550`: command line and server name the backup of a linked file
  differently (`RollbackUndoesApply` demands that a tool undoes the other's work
  only for paths without links).
- `main.go:468`: the rename replaces a link by a file. A path that leads through
  that very link, or a name that could not be read because of it, reads something else
  afterwards (`ExitTellsWhatHappened` and `RollbackUndoesApply` except them). No
  small tree shows it to TLC; the proofs did not go through without the exceptions.
- `mcp.go:369`: properties that the schema requires may be left out
  (`DeclaredOnly` speaks of those that are given). A property in another case, `PATH` or
  `Expected_Matches`, is taken for the declared one, although the schema has
  `additionalProperties: false` (`DeclaredOnly` compares names up to case). An
  integer written `1.0` is refused, although it is one for the schema (`Sensible`).
- `telemetry.go:54`: a loss that is counted after the queue has been drained is
  reported by no record until the next one is written, and by none if there is no next
  one. `LateLossesAreFew` says that this may be at most one of each producer.
- `telemetry.go:82`: a failed write loses a record and the count of losses in it
  (`unwritten`, `forgotten`); nothing later tells of them.

## 5. The proofs

The theorems hold for every value of the constants that satisfies
the modules' assumptions: that sentinels differ from proper values, that no process is
both kinds, that bounds are numbers (capacity at least 1), that the
trees one starts with are trees, that a call's arguments are JSON values and a request's
texts are texts. What is proved of the runs: all safety
properties, state by state and step by step. One
theorem has a hypothesis: `RejectedPreview` supposes that every id fits the reserve, as
finding 4 shows that it must.

*SequenceLemmas.* The library's induction theorems take an operator as a parameter, which
the provers cannot instantiate; here induction is a fact about sets. `LeastNatural`: a set of
numbers has a least one. `Upwards`: a set with the first number of a range that goes on
from each to the next holds the range. `SequencesGrow`: a set with the empty sequence
that with a sequence has every longer one by an element holds all sequences. `Recursion`: a
recursive function on `0..n` has a solution.

*PreviewStore* (in EditServerProofs). The inductive invariant `TableIInv` adds three parts to the safety
invariants. `PhaseInv`: a plan being sized is new to the table and expires no
earlier than any stored one; a plan looked up or being written is in the table,
with its id unclaimed or claimed once. `ClaimInv`: a claimed id is in the table
only while it is being written. `StoredInv`: what was stored is finite, issued,
and expires within a lifetime from now. `SingleUse` alone is not inductive,
because it says nothing of the table; `ClaimInv` does. `FreshPlansSurvive`
needs the order of expiry times in `PhaseInv`: the clock never goes back, so
the newcomer is never older than what it evicts. `Invariance` goes step by step;
`Refinement` maps every step to a step of TokenLedger or a stutter; `UntilFacts` says that an
id on offer is so until its plan expires, and `UntilKept` that it stays so, which is
what a claim needs to be in time though the table was pruned at an earlier reading
of the clock.

*FileStore* (in EditServerProofs). The inductive invariant is type correctness, `JobInv` (what a request knows at each
of its places), `HolderInv` (an open file belongs to a process that is writing
it) and `QuietInv` (what an undisturbed process may rely on, place by place,
from the check over the truncated backup to the rename). `QuietApplyIsExact`
alone is not inductive: it speaks of the last place only. `CreateSafety` is the
action property.

*EditServer.* `Composition` shows that every step is a step of PreviewStore or leaves
its variables alone, and the same of FileStore: the invariants of both then hold of the
composition. Two parts relate them. `LinkInv`: the server
works on an apply exactly while a claimed plan is being written, and what the apply takes the
file to hold and will install are that plan's. `PaidInv`: an id's renames are no more
than its claims, and none while its write is not over. `AppliedAtMostOnce` is `PaidInv`
with `SingleUse`; `ReviewedBytesOnly` is `LinkInv` at the rename.

*ServeLoop.* `FrameInv` says where the units of the current frame are, by the place of its
goroutine: in the stream, the buffer, or with the goroutine, which put together in this
order are the frames so far. `StreamInv` adds that no other goroutine holds any, and that main
takes the next request only when the last reply was sent without error: a goroutine that
outlives a timeout is the last one. `HeldInv` says that a stored
preview was answered with its result, which needs the reserve.

*Telemetry.* `EndInv` orders the end (main stops emitting, then Close sets its flag,
then the goroutine drains, then it is done), from which `CleanClose` is read off, and
`CountInv` bounds the events. `LateLossesAreFew` is inductive by itself (`LateStep`): a
producer takes the default branch only when the queue is full, a queue that is full runs dry
only through records that are each followed by a swap, and after the last of these
swaps each producer can be late with one loss, for another one of its own would need a full
queue. `EveryEventIsAccountedFor` is an equation of sums over the producers and over the
queue; `AccountInv` adds that losses travel with a record only between the swap and its
write. The sums are folds; the lemmas before it show what one more, one less or one
changed summand makes of them.

*KissParser* (in PatchToDiffProofs). `CommandsQuoteThePatch` says nothing of lines that are still being
collected. The invariant adds three parts. `Runs`: anchor, target and
replacement are each a run of lines of the patch. `Open`: the part being
collected ends with the line read last. `Fresh`: all of them come after
the lines of every command taken, unless the state is `OUTSIDE`, where the parts
are stale. That exception is what `main.go:123` is about: the parts are
not cleared at an end tag, and only the state keeps them from being used again.

`ParsesWhatIsWritten` compares the commands with `Written`, which looks at the whole patch, so
the invariant `KeepsUp` must say what the parser knows of a patch that is still being read. Outside of a
command: the commands are `Written` of the lines so far. Inside of the one that started at
line s: they are what was written before s, and the lists hold the parts that would be read
off if the patch went on, `HeadRead` before the with tag and the replacement after it. The work is
in showing what one more line does to a reading of the whole: a part that has ended stays
as it is (`SettledStays`, `WrittenStays`), an open part goes on by that line or
ends before it (`PartGoesOn`, `EndsBefore`).

*ToolCalls* (in PatchToDiffProofs). `OneCall` keeps the outcome to what the decoder and the
checks make of the arguments. `SchemaIsKept` is then a fact about one value of JSON:
`FieldIsTyped` and `DecodedIsTyped` follow a property through the decoder,
`AdmittedOperation` and `AdmittedListPasses` show that what the schema admits is decoded and
passes the checks of its kind, and `OnlyDeclaredIsTried` the converse.

*EditOps.* The first half types and places what the operators of Text and EditOps return: that
matches lie within the text, and that what is put together of its pieces is a text. `CountsMeet`
is `CountsAgree` for one text and operation: the code that counts and the code that
replaces look for the same, kind by kind; only with an anchor do they look differently, and there one
match below the one anchor is a match below the first. `PlanReadsBack` is about
writing and reading symbol by symbol: a text without CR that is written with a line ending
of a platform is read as it was (`ReadsWhatIsWritten`), and reading removes every CR. `History` adds
to the invariant that each finished operation is what the two functions make of
its text, from which `LiteralsAreExact` follows: the search of a literal sweeps the
text (`Swept`: what it takes occurs, and each place that it passed begins inside of
something taken), so that places apart from each other are no more than the matches
(`NoMoreAreApart`), and the text around one match stays where it was (`SpliceOne`).

*EditPlacesProofs.* `RightPlaces` compares the code, which turns a block into a pattern, with
a reference that knows no patterns: a place is a stretch that begins with the first word on its
line (or below white space, for a block pasted with its first line deeper), ends with a word
and has the words of the block. What links the two is the words of a text
(`Tight`: what `Squeeze` leaves, without the edges). They follow the text symbol by symbol
(`TightGrows`) and lines one by one (`LinesAddWords`), so `dedent`, which cuts only blanks, keeps them
(`DedentKeepsWords`), and the pattern is made of the words of the block (`BlockPattern`). That a
pattern fits a stretch just when it has its words is `FitsItsStretch` in one direction and
`WordsFit` in the other. A match also takes white space in front of its place
(`MatchMeans`), so the leftmost match is not simply the leftmost place: `PlacesMatch` finds for each
place a match that ends it, `ScansGreedily` says that a match that was not taken
begins inside one that was, and `ReachesOne` that no match reaches into two places that are apart. Hence
`BlocksAreApart` and `NoMoreBlocksAreApart`, which count; `AnchoredIsRight` reads off the first place
below an anchor from the same facts about the rest of the text.

`OnlyThePlacesChange` has three parts, each proved of a finished operation, which `History`
describes. `NothingAround`: `Splice` keeps both sides (`ReplaceOne`), and what the match took
in front of the place are blanks, or white space when the block is pasted with its
first line deeper (`BlockStaysInPlace`). `BlockKeepsItsIndentation`: `dedent` of a block is its lines without the least
indentation of those that are not empty (`DedentOutlines`), which does not change when the
same blanks are put in front of each of them (`IndentedKeepsShape`); the lines written are
such lines, with the blanks that the first match line had (`AlignedIs`). `SwapTwiceIsNothing`: a
text is taken apart into words and other symbols (`TextsParted`), a swap acts on each part by
itself (`SwapGoesOn`, `SwapMeets`), and a word is the other name after one swap and itself after two.

*The composition* (in PatchToDiffProofs). A step of MCPatchToDiff is a step of each part or leaves it alone
(`PartsAlone`), so the theorems about each part hold of the run.

*FileNames.* The first half is about walks: `WalksSolve` shows that the recursion
which defines `Walk` has a solution. From there on: a walk ends at a
node that is reached by its own name without links (`WalkFinds`), a path with one more name leads on from where the path
leads (`OneNameMore`), and it leads to the same on two trees that differ only where it does
not pass (`GrownTree`, `SameRead`). `GuardInv` adds to `ServesExactlyTheInside` only types; the
work is in `CreateStep`, where the directories made on the way must be shown to lead where
the second look at the path finds them. `CliInv` adds `Undoable`: after an apply or edit
the backup holds what its path read, under the name the same tool will look it up by, and
the disk is the earlier one but for one node. For a path with ".." `PhysicalIsPath` says that
what the system makes of it is one path without, and `WrittenAsGiven` that an apply writes where
this one stands; `OnePlace` is then what lets the rollback, which cleans the path, write there too.

*LineDiff* (in PatchToDiffProofs). Any two texts, any memory allowed. `Furthers` says where a snake ends, and
`Frontiers` that each frontier follows from the one before; they are the meaning of the
search's trace. The trouble is that frontiers pass the ends of a text, where the code's
loops stop comparing: `PastAll` shows that a point past an end could have been reached one
distance earlier without the line that leads past it, so that the first point at or past
both ends is the end itself (`EndIsEnd`), and that the way back, which starts from there, stays inside
(`BackIs`, which is `WayBackStaysInside`). That the script is shortest is two inequalities
with the textbook recurrence: what distance d reaches inside the texts costs at most d
(`CheapAll`), and what costs d has been passed on its diagonal by distance d
(`PassedAll`); both need that neighbouring cells of the table differ by at most one
(`DistanceGrows`). So the distance at which the search ends is the edit distance
(`DistanceFound`), which in turn is a bound for every script (`NoScriptIsShorter`, by
following the script's path through the table), and the invariant `DiffInv` counts the changes on the way back:
`LeadsOn(u, v, d)` says that the edits found lead from the point (u, v) to the ends with all
but d of them. The hunks: `Turns(b, a, hs, l, m)` says that hunks hs make the first l lines
of the old text the first m of the new one; every edit takes it one point further along the
path, whether it closes, opens or extends a hunk (`EditGrouped`), and the trimmed lines
complete it (`TurnsAll`). A fallback is one hunk of the same kind (`OneHunk`).

TLC only: liveness (`SendEnds`, `EmitReturns`, `ServerStopExits`), which this prover does
not treat.

## 6. Not modelled, and why

- The reading of JSON text, wording, reports, flags, help: no state.
- `preprocessSpec`: it changes line ends and the edges of lines only.
- The retry of a `clipfit_edit` whose reply was lost: the tool has no token and its
  schema says that it is not idempotent; the two-step mode is what makes a retry safe.
- Programs that change the tree while the server resolves a path: PathGuard's requests have
  the tree to themselves. FileStore lets a target become a link at any step.
- `mcpServer.apply` and `legacyMCPToolDefinitions`: reached by no request.
- File modes, temporary-file litter, missing fsync: no property here tells them
  apart; they are listed as hazards.
- Installers, build script, docs, examples.

## 7. What is left

All modules of section 2 are written, and all safety properties are proved. A next
step would be `Server`: ServeLoop with EditServer behind it, for "a request whose reply was
lost did or did not write".
