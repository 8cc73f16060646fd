--------------------------- MODULE EditServerProofs ---------------------------
(***************************************************************************)
(* Theorems about FileStore, PreviewStore and EditServer, for any ids, table *)
(* size, expiry time, paths, contents and processes. First the files: what *)
(* an undisturbed request knows about the file and the backup grows from step *)
(* to step, QuietInv says what it knows at each of its places, and no step of *)
(* another process takes it away without disturbing the request. Then the  *)
(* table: TableIInv strengthens its invariants to one that each step       *)
(* preserves. Then both together: every step of the server is a step of the *)
(* files and a step of the table, or leaves them alone, so the invariants of *)
(* both hold of it; LinkInv and PaidInv add what ties the two together.    *)
(***************************************************************************)
EXTENDS EditServer, FiniteSetTheorems, TLAPS

\* What the request is at each place of its process.
JobInv ==
  \A p \in Procs :
    /\ pc[p] # "idle" => job[p].t \in Targets
    /\ pc[p] = "plan" => job[p].op \in {"preview", "edit"}
    /\ pc[p] \in {"resolve", "check"} =>
         job[p].op \in Planned /\ job[p].base \in Data /\ job[p].out \in Data
    /\ pc[p] \in {"open", "fill"} =>
         job[p].op \in Backed /\ job[p].cur \in Data /\ job[p].out \in Data
    /\ pc[p] = "rollback" => job[p].op = "rollback"
    /\ pc[p] = "install" =>
         job[p].op \in Backed \union {"rollback"} /\ job[p].out \in Data
    /\ pc[p] \in {"open", "fill", "install"} /\ job[p].op \in Planned =>
         job[p].cur = job[p].base
    /\ pc[p] \in {"create", "create_write", "create_undo"} => job[p].out \in Data

\* Who has a file open.
HolderInv ==
  /\ \A t \in Targets : \A p \in filling[t] : pc[p] = "fill" /\ job[p].t = t
  /\ \A t \in Targets : creating[t] # None =>
       pc[creating[t]] \in {"create_write", "create_undo"} /\ job[creating[t]].t = t

\* The file is as the request read it, or a symlink the command line read through.
Unchanged(p) ==
  fs[job[p].t] = job[p].cur \/ (p \in Clis /\ fs[job[p].t] = Link)

QuietInv ==
  \A p \in Procs \ disturbed :
    /\ pc[p] = "check" => Regular(job[p].t)
    /\ pc[p] = "open" => Unchanged(p)
    /\ pc[p] = "fill" => Unchanged(p) /\ backup[job[p].t] = Empty /\ p \in filling[job[p].t]
    /\ pc[p] = "install" /\ job[p].op \in Backed =>
         Unchanged(p) /\ backup[job[p].t] = job[p].cur

FileIInv == FileTypeOK /\ JobInv /\ HolderInv /\ QuietInv

-----------------------------------------------------------------------------
\* A request's fields, one operation at a time.
LEMMA JobFields ==
  ASSUME NEW t \in Targets, NEW base \in Data, NEW cur \in Data, NEW out \in Data
  PROVE  /\ [NoJob EXCEPT !.op = "apply", !.t = t, !.base = base, !.out = out] \in Job
         /\ \A op \in Ops : [NoJob EXCEPT !.op = op, !.t = t] \in Job
         /\ [NoJob EXCEPT !.op = "cli_apply", !.t = t, !.cur = cur, !.out = out] \in Job
         /\ [NoJob EXCEPT !.op = "create", !.t = t, !.out = out] \in Job
BY DEF NoJob, Job, Ops

LEMMA NoJobType == NoJob \in Job /\ NoJob.op = "none"
BY DEF NoJob, Job, Ops

\* What filling in a field changes: the hash check, reading a backup.
LEMMA CheckedFields ==
  ASSUME NEW j \in Job, NEW d \in Data, NEW k, k = [j EXCEPT !.cur = d]
  PROVE  k \in Job /\ k.op = j.op /\ k.t = j.t /\ k.base = j.base /\ k.cur = d /\ k.out = j.out
BY DEF Job

LEMMA LoadedFields ==
  ASSUME NEW j \in Job, NEW d \in Data, NEW k, k = [j EXCEPT !.out = d]
  PROVE  k \in Job /\ k.op = j.op /\ k.t = j.t /\ k.out = d
BY DEF Job

\* The initial state satisfies the invariant.
LEMMA FileInitIInv == FileInit => FileIInv
<1> SUFFICES ASSUME FileInit PROVE FileIInv
  OBVIOUS
<1>1. NoJob \in Job
  BY DEF NoJob, Job, Ops
<1>2. FileTypeOK
  BY <1>1, FileStoreAssumption DEF FileInit, FileTypeOK, Data, PCs
<1>3. JobInv /\ HolderInv /\ QuietInv
  BY DEF FileInit, JobInv, HolderInv, QuietInv
<1> QED
  BY <1>2, <1>3 DEF FileIInv

-----------------------------------------------------------------------------
(* Each action preserves the invariant. *)

\* A request that ends without touching a file.
LEMMA EndStep ==
  ASSUME FileIInv, NEW p \in Procs, End(p), pc[p] \notin {"fill", "create_write", "create_undo"},
         UNCHANGED <<disk, disturbed, budgets>>
  PROVE  FileIInv'
<1> USE FileStoreAssumption DEF FileIInv, FileTypeOK, End, disk, budgets
<1>1. FileTypeOK'
  BY NoJobType DEF PCs
<1>2. JobInv'
  BY DEF JobInv
<1>3. HolderInv'
  BY DEF HolderInv
<1>4. QuietInv'
  BY DEF QuietInv, Unchanged, Regular
<1> QED
  BY <1>1, <1>2, <1>3, <1>4

\* A request starts: nothing is known about the file yet.
LEMMA StartApplyStep == ASSUME FileIInv, NEW p \in Servers, NEW t \in Targets, NEW base \in Data, NEW out \in Contents, StartApply(p, t, base, out) PROVE FileIInv'
<1> USE FileStoreAssumption DEF FileIInv, FileTypeOK, StartApply, Begin, disk, budgets
<1>1. FileTypeOK'
  <2>1. job' \in [Procs -> Job]
    BY JobFields, NoJobType DEF Data, Procs, Ops, JobInv
  <2>2. \A q \in Procs : (pc'[q] = "idle") <=> (job'[q] = NoJob)
    BY DEF Procs, NoJob, JobInv, Planned, Backed, Job
  <2>3. /\ fs' \in [Targets -> Data \union {Absent, Link}]
        /\ backup' \in [Targets -> Data \union {Absent}]
    BY DEF Data, JobInv, Procs
  <2>4. /\ creating' \in [Targets -> Procs \union {None}]
        /\ filling' \in [Targets -> SUBSET Procs]
        /\ pc' \in [Procs -> PCs]
        /\ disturbed' \in SUBSET Procs
    BY DEF PCs, Procs, Bystanders, JobInv
  <2>5. outside' \in 0 .. MaxOutside /\ crashes' \in 0 .. MaxCrashes
    OBVIOUS
  <2> QED
    BY <2>1, <2>2, <2>3, <2>4, <2>5
<1>2. JobInv'
  BY DEF JobInv, NoJob, Planned, Backed, Data, Ops
<1>3. HolderInv'
  BY DEF HolderInv, JobInv, NoJob
<1>4. QuietInv'
  BY DEF QuietInv, JobInv, HolderInv, Unchanged, Regular, Bystanders, Backed, Planned, NoJob
<1> QED
  BY <1>1, <1>2, <1>3, <1>4

\* Planning starts from a path only.
LEMMA StartPlanStep == ASSUME FileIInv, NEW p \in Servers, NEW t \in Targets, NEW op \in {"preview", "edit"}, StartPlan(p, t, op) PROVE FileIInv'
<1> USE FileStoreAssumption DEF FileIInv, FileTypeOK, StartPlan, Begin, disk, budgets
<1>1. FileTypeOK'
  <2>1. job' \in [Procs -> Job]
    BY JobFields, NoJobType DEF Data, Procs, Ops, JobInv
  <2>2. \A q \in Procs : (pc'[q] = "idle") <=> (job'[q] = NoJob)
    BY DEF Procs, NoJob, JobInv, Planned, Backed, Job
  <2>3. /\ fs' \in [Targets -> Data \union {Absent, Link}]
        /\ backup' \in [Targets -> Data \union {Absent}]
    BY DEF Data, JobInv, Procs
  <2>4. /\ creating' \in [Targets -> Procs \union {None}]
        /\ filling' \in [Targets -> SUBSET Procs]
        /\ pc' \in [Procs -> PCs]
        /\ disturbed' \in SUBSET Procs
    BY DEF PCs, Procs, Bystanders, JobInv
  <2>5. outside' \in 0 .. MaxOutside /\ crashes' \in 0 .. MaxCrashes
    OBVIOUS
  <2> QED
    BY <2>1, <2>2, <2>3, <2>4, <2>5
<1>2. JobInv'
  BY DEF JobInv, NoJob, Planned, Backed, Data, Ops
<1>3. HolderInv'
  BY DEF HolderInv, JobInv, NoJob
<1>4. QuietInv'
  BY DEF QuietInv, JobInv, HolderInv, Unchanged, Regular, Bystanders, Backed, Planned, NoJob
<1> QED
  BY <1>1, <1>2, <1>3, <1>4

\* A create starts with its bytes.
LEMMA StartCreateStep == ASSUME FileIInv, NEW p \in Servers, NEW t \in Targets, NEW out \in Contents, StartCreate(p, t, out) PROVE FileIInv'
<1> USE FileStoreAssumption DEF FileIInv, FileTypeOK, StartCreate, Begin, disk, budgets
<1>1. FileTypeOK'
  <2>1. job' \in [Procs -> Job]
    BY JobFields, NoJobType DEF Data, Procs, Ops, JobInv
  <2>2. \A q \in Procs : (pc'[q] = "idle") <=> (job'[q] = NoJob)
    BY DEF Procs, NoJob, JobInv, Planned, Backed, Job
  <2>3. /\ fs' \in [Targets -> Data \union {Absent, Link}]
        /\ backup' \in [Targets -> Data \union {Absent}]
    BY DEF Data, JobInv, Procs
  <2>4. /\ creating' \in [Targets -> Procs \union {None}]
        /\ filling' \in [Targets -> SUBSET Procs]
        /\ pc' \in [Procs -> PCs]
        /\ disturbed' \in SUBSET Procs
    BY DEF PCs, Procs, Bystanders, JobInv
  <2>5. outside' \in 0 .. MaxOutside /\ crashes' \in 0 .. MaxCrashes
    OBVIOUS
  <2> QED
    BY <2>1, <2>2, <2>3, <2>4, <2>5
<1>2. JobInv'
  BY DEF JobInv, NoJob, Planned, Backed, Data, Ops
<1>3. HolderInv'
  BY DEF HolderInv, JobInv, NoJob
<1>4. QuietInv'
  BY DEF QuietInv, JobInv, HolderInv, Unchanged, Regular, Bystanders, Backed, Planned, NoJob
<1> QED
  BY <1>1, <1>2, <1>3, <1>4

\* A rollback starts from a path only.
LEMMA StartRollbackStep == ASSUME FileIInv, NEW p \in Procs, NEW t \in Targets, StartRollback(p, t) PROVE FileIInv'
<1> USE FileStoreAssumption DEF FileIInv, FileTypeOK, StartRollback, Begin, disk, budgets
<1>1. FileTypeOK'
  <2>1. job' \in [Procs -> Job]
    BY JobFields, NoJobType DEF Data, Procs, Ops, JobInv
  <2>2. \A q \in Procs : (pc'[q] = "idle") <=> (job'[q] = NoJob)
    BY DEF Procs, NoJob, JobInv, Planned, Backed, Job
  <2>3. /\ fs' \in [Targets -> Data \union {Absent, Link}]
        /\ backup' \in [Targets -> Data \union {Absent}]
    BY DEF Data, JobInv, Procs
  <2>4. /\ creating' \in [Targets -> Procs \union {None}]
        /\ filling' \in [Targets -> SUBSET Procs]
        /\ pc' \in [Procs -> PCs]
        /\ disturbed' \in SUBSET Procs
    BY DEF PCs, Procs, Bystanders, JobInv
  <2>5. outside' \in 0 .. MaxOutside /\ crashes' \in 0 .. MaxCrashes
    OBVIOUS
  <2> QED
    BY <2>1, <2>2, <2>3, <2>4, <2>5
<1>2. JobInv'
  BY DEF JobInv, NoJob, Planned, Backed, Data, Ops
<1>3. HolderInv'
  BY DEF HolderInv, JobInv, NoJob
<1>4. QuietInv'
  BY DEF QuietInv, JobInv, HolderInv, Unchanged, Regular, Bystanders, Backed, Planned, NoJob
<1> QED
  BY <1>1, <1>2, <1>3, <1>4

\* The command line knows the bytes it read, or that it read through a symlink.
LEMMA StartCliApplyStep ==
  ASSUME FileIInv, NEW p \in Clis, NEW t \in Targets, StartCliApply(p, t) PROVE FileIInv'
<1> USE FileStoreAssumption DEF FileIInv, FileTypeOK, disk, budgets
<1>0. PICK d \in Reads(t) : \E e \in Contents \union {d} :
        Begin(p, "open", [NoJob EXCEPT !.op = "cli_apply", !.t = t, !.cur = d, !.out = e])
  BY DEF StartCliApply
<1>1. PICK out \in Contents \union {d} :
        Begin(p, "open", [NoJob EXCEPT !.op = "cli_apply", !.t = t, !.cur = d, !.out = out])
  BY <1>0
<1> DEFINE request == [NoJob EXCEPT !.op = "cli_apply", !.t = t, !.cur = d, !.out = out]
<1>2. /\ p \in Procs /\ d \in Data /\ out \in Data
      /\ fs[t] = d \/ fs[t] = Link
  BY DEF Reads, Data, Procs
<1>3. /\ request \in Job /\ request.op = "cli_apply" /\ request.t = t
      /\ request.cur = d /\ request.out = out
  BY <1>2, JobFields DEF NoJob
<1> HIDE DEF request
<1>4. /\ pc[p] = "idle" /\ pc' = [pc EXCEPT ![p] = "open"]
      /\ job' = [job EXCEPT ![p] = request]
  BY <1>1 DEF Begin, request
<1>5. /\ disturbed' = disturbed \ {p}
      /\ UNCHANGED <<fs, backup, creating, filling, outside, crashes>>
  BY DEF StartCliApply
<1>6. FileTypeOK'
  BY <1>2, <1>3, <1>4, <1>5, NoJobType DEF PCs
<1>7. JobInv'
  BY <1>2, <1>3, <1>4, <1>5 DEF JobInv, Planned, Backed
<1>8. HolderInv'
  BY <1>2, <1>4, <1>5 DEF HolderInv
<1>9. QuietInv'
  BY <1>2, <1>3, <1>4, <1>5 DEF QuietInv, Unchanged, Regular
<1> QED
  BY <1>6, <1>7, <1>8, <1>9

\* A plan has the bytes it was made from and those it writes.
LEMMA PlanReadStep == ASSUME FileIInv, NEW p \in Procs, PlanRead(p) PROVE FileIInv'
<1> USE FileStoreAssumption DEF FileIInv, FileTypeOK, PlanRead, disk, budgets
<1>1. CASE End(p)
  BY <1>1, EndStep
<1>2. ASSUME NEW d \in Reads(job[p].t), NEW out \in Contents,
             job' = [job EXCEPT ![p] = [@ EXCEPT !.base = d, !.out = out]],
             Goto(p, IF job[p].op = "edit" THEN "resolve" ELSE "draft")
      PROVE  FileIInv'
  <2>1. /\ job[p] \in Job /\ job[p].t \in Targets /\ d \in Data /\ out \in Data
        /\ job[p].op \in {"preview", "edit"}
    <3>1. job[p] \in Job /\ job[p].t \in Targets /\ job[p].op \in {"preview", "edit"}
      BY DEF JobInv
    <3>2. d \in Data /\ out \in Data
      BY <3>1 DEF Reads, Data
    <3> QED
      BY <3>1, <3>2
  <2>2. /\ job'[p] \in Job /\ job'[p].op = job[p].op /\ job'[p].t = job[p].t
        /\ job'[p].base = d /\ job'[p].out = out
        /\ \A q \in Procs \ {p} : job'[q] = job[q]
    <3> HIDE DEF PlanRead
    <3>0. job \in [Procs -> Job] /\ job' = [job EXCEPT ![p] = [@ EXCEPT !.base = d, !.out = out]]
      BY <1>2
    <3> HIDE DEF FileIInv
    <3>1. job'[p] = [job[p] EXCEPT !.base = d, !.out = out]
      BY <3>0
    <3>2. \A q \in Procs \ {p} : job'[q] = job[q]
      BY <3>0
    <3>3. /\ job'[p] \in Job /\ job'[p].op = job[p].op /\ job'[p].t = job[p].t
          /\ job'[p].base = d /\ job'[p].out = out
      <4> DEFINE k == job'[p]
      <4>1. job[p] \in Job /\ d \in Data /\ out \in Data
        BY <2>1
      <4>2. k = [job[p] EXCEPT !.base = d, !.out = out]
        BY <3>1
      <4> HIDE DEF k
      <4>3. k \in Job /\ k.op = job[p].op /\ k.t = job[p].t /\ k.base = d /\ k.out = out
        BY <4>1, <4>2 DEF Job
      <4> QED
        BY <4>3 DEF k
    <3> QED
      BY <3>2, <3>3
  <2>3. /\ pc' = [pc EXCEPT ![p] = pc'[p]] /\ pc'[p] \in {"resolve", "draft"}
        /\ pc'[p] = "resolve" => job[p].op = "edit"
    BY <1>2 DEF Goto
  <2>4. UNCHANGED <<fs, backup, creating, filling, disturbed, outside, crashes>>
    OBVIOUS
  <2>5. job' \in [Procs -> Job]
    BY <1>2, <2>2
  <2> HIDE DEF PlanRead
  <2>a. \A q \in Procs : (pc'[q] = "idle") <=> (job'[q] = NoJob)
    BY <2>1, <2>2, <2>3, NoJobType
  <2>6. FileTypeOK'
    BY <2>3, <2>4, <2>5, <2>a DEF PCs
  <2>7. JobInv'
    BY <2>1, <2>2, <2>3, <2>4 DEF JobInv, Planned
  <2>8. HolderInv'
    <3>1. pc[p] = "plan"
      BY DEF PlanRead
    <3> QED
      BY <2>2, <2>3, <2>4, <3>1 DEF HolderInv
  <2>9. QuietInv'
    BY <2>2, <2>3, <2>4 DEF QuietInv, Unchanged, Regular
  <2> QED
    BY <2>6, <2>7, <2>8, <2>9
<1> QED
  BY <1>1, <1>2

\* A preview ends.
LEMMA FinishPreviewStep == ASSUME FileIInv, NEW p \in Procs, FinishPreview(p) PROVE FileIInv'
<1> USE FileStoreAssumption DEF FileIInv, FileTypeOK, FinishPreview, Goto, End, disk, budgets
<1>1. FileTypeOK'
  <2>1. job' \in [Procs -> Job]
    BY JobFields, NoJobType DEF Data, Procs, Ops, JobInv
  <2>2. \A q \in Procs : (pc'[q] = "idle") <=> (job'[q] = NoJob)
    BY DEF Procs, NoJob, JobInv, Planned, Backed, Job
  <2>3. /\ fs' \in [Targets -> Data \union {Absent, Link}]
        /\ backup' \in [Targets -> Data \union {Absent}]
    BY DEF Data, JobInv, Procs
  <2>4. /\ creating' \in [Targets -> Procs \union {None}]
        /\ filling' \in [Targets -> SUBSET Procs]
        /\ pc' \in [Procs -> PCs]
        /\ disturbed' \in SUBSET Procs
    BY DEF PCs, Procs, Bystanders, JobInv
  <2>5. outside' \in 0 .. MaxOutside /\ crashes' \in 0 .. MaxCrashes
    OBVIOUS
  <2> QED
    BY <2>1, <2>2, <2>3, <2>4, <2>5
<1>2. JobInv'
  BY DEF JobInv, NoJob, Planned, Backed, Data, Ops
<1>3. HolderInv'
  BY DEF HolderInv, JobInv, NoJob
<1>4. QuietInv'
  BY DEF QuietInv, JobInv, HolderInv, Unchanged, Regular, Bystanders, Backed, Planned, NoJob
<1> QED
  BY <1>1, <1>2, <1>3, <1>4

\* From here on the request knows the path is a regular file, until disturbed.
LEMMA ResolveStep == ASSUME FileIInv, NEW p \in Procs, Resolve(p) PROVE FileIInv'
<1> USE FileStoreAssumption DEF FileIInv, FileTypeOK, Resolve, Goto, End, disk, budgets
<1>1. FileTypeOK'
  <2>1. job' \in [Procs -> Job]
    BY JobFields, NoJobType DEF Data, Procs, Ops, JobInv
  <2>2. \A q \in Procs : (pc'[q] = "idle") <=> (job'[q] = NoJob)
    BY DEF Procs, NoJob, JobInv, Planned, Backed, Job
  <2>3. /\ fs' \in [Targets -> Data \union {Absent, Link}]
        /\ backup' \in [Targets -> Data \union {Absent}]
    BY DEF Data, JobInv, Procs
  <2>4. /\ creating' \in [Targets -> Procs \union {None}]
        /\ filling' \in [Targets -> SUBSET Procs]
        /\ pc' \in [Procs -> PCs]
        /\ disturbed' \in SUBSET Procs
    BY DEF PCs, Procs, Bystanders, JobInv
  <2>5. outside' \in 0 .. MaxOutside /\ crashes' \in 0 .. MaxCrashes
    OBVIOUS
  <2> QED
    BY <2>1, <2>2, <2>3, <2>4, <2>5
<1>2. JobInv'
  BY DEF JobInv, NoJob, Planned, Backed, Data, Ops
<1>3. HolderInv'
  BY DEF HolderInv, JobInv, NoJob
<1>4. QuietInv'
  BY DEF QuietInv, JobInv, HolderInv, Unchanged, Regular, Bystanders, Backed, Planned, NoJob
<1> QED
  BY <1>1, <1>2, <1>3, <1>4

\* The bytes at the path are those of the plan.
LEMMA CheckHashStep == ASSUME FileIInv, NEW p \in Procs, CheckHash(p) PROVE FileIInv'
<1> USE FileStoreAssumption DEF FileIInv, FileTypeOK, CheckHash, disk, budgets
<1>1. CASE End(p)
  BY <1>1, EndStep
<1>2. ASSUME job[p].base \in Reads(job[p].t),
             job' = [job EXCEPT ![p] = [@ EXCEPT !.cur = job[p].base]],
             Goto(p, "open")
      PROVE  FileIInv'
  <2>1. /\ job[p] \in Job /\ job[p].t \in Targets /\ job[p].base \in Data
        /\ job[p].out \in Data /\ job[p].op \in Planned
    BY DEF JobInv
  <2>2. /\ job'[p] \in Job /\ job'[p].op = job[p].op /\ job'[p].t = job[p].t
        /\ job'[p].base = job[p].base /\ job'[p].cur = job[p].base /\ job'[p].out = job[p].out
        /\ \A q \in Procs \ {p} : job'[q] = job[q]
    <3>1. job'[p] = [job[p] EXCEPT !.cur = job[p].base]
      BY <1>2
    <3>2. \A q \in Procs \ {p} : job'[q] = job[q]
      BY <1>2
    <3> QED
      BY <2>1, <3>1, <3>2, CheckedFields
  <2>3. pc' = [pc EXCEPT ![p] = "open"]
    BY <1>2 DEF Goto
  <2>4. UNCHANGED <<fs, backup, creating, filling, disturbed, outside, crashes>>
    OBVIOUS
  <2>5. job' \in [Procs -> Job]
    BY <1>2, <2>2
  <2>6. p \notin disturbed => fs[job[p].t] = job[p].base
    BY <1>2, <2>1 DEF QuietInv, Regular, Reads
  <2> HIDE DEF CheckHash
  <2>7. FileTypeOK'
    BY <2>1, <2>2, <2>3, <2>4, <2>5, NoJobType DEF PCs, Planned
  <2>8. JobInv'
    BY <2>1, <2>2, <2>3, <2>4 DEF JobInv, Planned, Backed
  <2>9. HolderInv'
    BY <1>2, <2>2, <2>3, <2>4 DEF HolderInv, CheckHash
  <2>10. QuietInv'
    BY <2>2, <2>3, <2>4, <2>6 DEF QuietInv, Unchanged, Regular
  <2> QED
    BY <2>7, <2>8, <2>9, <2>10
<1> QED
  BY <1>1, <1>2

\* The backup is empty and open.
LEMMA OpenBackupStep == ASSUME FileIInv, NEW p \in Procs, OpenBackup(p) PROVE FileIInv'
<1> USE FileStoreAssumption DEF FileIInv, FileTypeOK, OpenBackup, Goto, End, disk, budgets
<1>1. FileTypeOK'
  <2>1. job' \in [Procs -> Job]
    BY JobFields, NoJobType DEF Data, Procs, Ops, JobInv
  <2>2. \A q \in Procs : (pc'[q] = "idle") <=> (job'[q] = NoJob)
    BY DEF Procs, NoJob, JobInv, Planned, Backed, Job
  <2>3. /\ fs' \in [Targets -> Data \union {Absent, Link}]
        /\ backup' \in [Targets -> Data \union {Absent}]
    BY DEF Data, JobInv, Procs
  <2>4. /\ creating' \in [Targets -> Procs \union {None}]
        /\ filling' \in [Targets -> SUBSET Procs]
        /\ pc' \in [Procs -> PCs]
        /\ disturbed' \in SUBSET Procs
    BY DEF PCs, Procs, Bystanders, JobInv
  <2>5. outside' \in 0 .. MaxOutside /\ crashes' \in 0 .. MaxCrashes
    OBVIOUS
  <2> QED
    BY <2>1, <2>2, <2>3, <2>4, <2>5
<1>2. JobInv'
  BY DEF JobInv, NoJob, Planned, Backed, Data, Ops
<1>3. HolderInv'
  BY DEF HolderInv, JobInv, NoJob
<1>4. QuietInv'
  BY DEF QuietInv, JobInv, HolderInv, Unchanged, Regular, Bystanders, Backed, Planned, NoJob
<1> QED
  BY <1>1, <1>2, <1>3, <1>4

\* The backup holds the bytes that were read.
LEMMA FillBackupStep == ASSUME FileIInv, NEW p \in Procs, FillBackup(p) PROVE FileIInv'
<1> USE FileStoreAssumption DEF FileIInv, FileTypeOK, FillBackup, Overlay, Goto, End, disk, budgets
<1>1. FileTypeOK'
  <2>1. job' \in [Procs -> Job]
    BY JobFields, NoJobType DEF Data, Procs, Ops, JobInv
  <2>2. \A q \in Procs : (pc'[q] = "idle") <=> (job'[q] = NoJob)
    BY DEF Procs, NoJob, JobInv, Planned, Backed, Job
  <2>3. /\ fs' \in [Targets -> Data \union {Absent, Link}]
        /\ backup' \in [Targets -> Data \union {Absent}]
    BY DEF Data, JobInv, Procs
  <2>4. /\ creating' \in [Targets -> Procs \union {None}]
        /\ filling' \in [Targets -> SUBSET Procs]
        /\ pc' \in [Procs -> PCs]
        /\ disturbed' \in SUBSET Procs
    BY DEF PCs, Procs, Bystanders, JobInv
  <2>5. outside' \in 0 .. MaxOutside /\ crashes' \in 0 .. MaxCrashes
    OBVIOUS
  <2> QED
    BY <2>1, <2>2, <2>3, <2>4, <2>5
<1>2. JobInv'
  BY DEF JobInv, NoJob, Planned, Backed, Data, Ops
<1>3. HolderInv'
  BY DEF HolderInv, JobInv, NoJob
<1>4. QuietInv'
  BY DEF QuietInv, JobInv, HolderInv, Unchanged, Regular, Bystanders, Backed, Planned, NoJob
<1> QED
  BY <1>1, <1>2, <1>3, <1>4

\* The rename disturbs whoever works on the same path.
LEMMA InstallStep == ASSUME FileIInv, NEW p \in Procs, Install(p) PROVE FileIInv'
<1> USE FileStoreAssumption DEF FileIInv, FileTypeOK, Install, Goto, End, disk, budgets
<1>1. FileTypeOK'
  <2>1. job' \in [Procs -> Job]
    BY JobFields, NoJobType DEF Data, Procs, Ops, JobInv
  <2>2. \A q \in Procs : (pc'[q] = "idle") <=> (job'[q] = NoJob)
    BY DEF Procs, NoJob, JobInv, Planned, Backed, Job
  <2>3. /\ fs' \in [Targets -> Data \union {Absent, Link}]
        /\ backup' \in [Targets -> Data \union {Absent}]
    BY DEF Data, JobInv, Procs
  <2>4. /\ creating' \in [Targets -> Procs \union {None}]
        /\ filling' \in [Targets -> SUBSET Procs]
        /\ pc' \in [Procs -> PCs]
        /\ disturbed' \in SUBSET Procs
    BY DEF PCs, Procs, Bystanders, JobInv
  <2>5. outside' \in 0 .. MaxOutside /\ crashes' \in 0 .. MaxCrashes
    OBVIOUS
  <2> QED
    BY <2>1, <2>2, <2>3, <2>4, <2>5
<1>2. JobInv'
  BY DEF JobInv, NoJob, Planned, Backed, Data, Ops
<1>3. HolderInv'
  BY DEF HolderInv, JobInv, NoJob
<1>4. QuietInv'
  BY DEF QuietInv, JobInv, HolderInv, Unchanged, Regular, Bystanders, Backed, Planned, NoJob
<1> QED
  BY <1>1, <1>2, <1>3, <1>4

\* A rollback takes whatever the backup holds.
LEMMA ReadBackupStep == ASSUME FileIInv, NEW p \in Procs, ReadBackup(p) PROVE FileIInv'
<1> USE FileStoreAssumption DEF FileIInv, FileTypeOK, ReadBackup, disk, budgets
<1>1. CASE End(p)
  BY <1>1, EndStep
<1>2. ASSUME NEW d \in {backup[job[p].t]} \union {Torn}, backup[job[p].t] # Absent,
             job' = [job EXCEPT ![p] = [@ EXCEPT !.out = d]],
             Goto(p, "install")
      PROVE  FileIInv'
  <2>1. /\ job[p] \in Job /\ job[p].t \in Targets /\ d \in Data /\ job[p].op = "rollback"
    BY <1>2 DEF JobInv, Data
  <2>2. /\ job'[p] \in Job /\ job'[p].op = "rollback" /\ job'[p].t = job[p].t
        /\ job'[p].out = d
        /\ \A q \in Procs \ {p} : job'[q] = job[q]
    <3>1. job'[p] = [job[p] EXCEPT !.out = d]
      BY <1>2
    <3>2. \A q \in Procs \ {p} : job'[q] = job[q]
      BY <1>2
    <3> QED
      BY <2>1, <3>1, <3>2, LoadedFields
  <2>3. pc' = [pc EXCEPT ![p] = "install"]
    BY <1>2 DEF Goto
  <2>4. UNCHANGED <<fs, backup, creating, filling, disturbed, outside, crashes>>
    OBVIOUS
  <2>5. job' \in [Procs -> Job]
    BY <1>2, <2>2
  <2> HIDE DEF ReadBackup
  <2>6. FileTypeOK'
    BY <2>1, <2>2, <2>3, <2>4, <2>5, NoJobType DEF PCs
  <2>7. JobInv'
    BY <2>1, <2>2, <2>3, <2>4 DEF JobInv, Planned, Backed
  <2>8. HolderInv'
    BY <1>2, <2>2, <2>3, <2>4 DEF HolderInv, ReadBackup
  <2>9. QuietInv'
    BY <2>2, <2>3, <2>4 DEF QuietInv, Unchanged, Regular, Backed, Planned
  <2> QED
    BY <2>6, <2>7, <2>8, <2>9
<1> QED
  BY <1>1, <1>2

\* A new file disturbs whoever works on the same path.
LEMMA CreateOpenStep == ASSUME FileIInv, NEW p \in Procs, CreateOpen(p) PROVE FileIInv'
<1> USE FileStoreAssumption DEF FileIInv, FileTypeOK, CreateOpen, Goto, End, disk, budgets
<1>1. FileTypeOK'
  <2>1. job' \in [Procs -> Job]
    BY JobFields, NoJobType DEF Data, Procs, Ops, JobInv
  <2>2. \A q \in Procs : (pc'[q] = "idle") <=> (job'[q] = NoJob)
    BY DEF Procs, NoJob, JobInv, Planned, Backed, Job
  <2>3. /\ fs' \in [Targets -> Data \union {Absent, Link}]
        /\ backup' \in [Targets -> Data \union {Absent}]
    BY DEF Data, JobInv, Procs
  <2>4. /\ creating' \in [Targets -> Procs \union {None}]
        /\ filling' \in [Targets -> SUBSET Procs]
        /\ pc' \in [Procs -> PCs]
        /\ disturbed' \in SUBSET Procs
    BY DEF PCs, Procs, Bystanders, JobInv
  <2>5. outside' \in 0 .. MaxOutside /\ crashes' \in 0 .. MaxCrashes
    OBVIOUS
  <2> QED
    BY <2>1, <2>2, <2>3, <2>4, <2>5
<1>2. JobInv'
  BY DEF JobInv, NoJob, Planned, Backed, Data, Ops
<1>3. HolderInv'
  BY DEF HolderInv, JobInv, NoJob
<1>4. QuietInv'
  BY DEF QuietInv, JobInv, HolderInv, Unchanged, Regular, Bystanders, Backed, Planned, NoJob
<1> QED
  BY <1>1, <1>2, <1>3, <1>4

\* So do its bytes.
LEMMA CreateWriteStep == ASSUME FileIInv, NEW p \in Procs, CreateWrite(p) PROVE FileIInv'
<1> USE FileStoreAssumption DEF FileIInv, FileTypeOK, CreateWrite, Goto, End, disk, budgets
<1>1. FileTypeOK'
  <2>1. job' \in [Procs -> Job]
    BY JobFields, NoJobType DEF Data, Procs, Ops, JobInv
  <2>2. \A q \in Procs : (pc'[q] = "idle") <=> (job'[q] = NoJob)
    BY DEF Procs, NoJob, JobInv, Planned, Backed, Job
  <2>3. /\ fs' \in [Targets -> Data \union {Absent, Link}]
        /\ backup' \in [Targets -> Data \union {Absent}]
    BY DEF Data, JobInv, Procs
  <2>4. /\ creating' \in [Targets -> Procs \union {None}]
        /\ filling' \in [Targets -> SUBSET Procs]
        /\ pc' \in [Procs -> PCs]
        /\ disturbed' \in SUBSET Procs
    BY DEF PCs, Procs, Bystanders, JobInv
  <2>5. outside' \in 0 .. MaxOutside /\ crashes' \in 0 .. MaxCrashes
    OBVIOUS
  <2> QED
    BY <2>1, <2>2, <2>3, <2>4, <2>5
<1>2. JobInv'
  BY DEF JobInv, NoJob, Planned, Backed, Data, Ops
<1>3. HolderInv'
  <2>1. \A t \in Targets : \A q \in filling'[t] : pc'[q] = "fill" /\ job'[q].t = t
    BY DEF HolderInv
  <2>2. \A t \in Targets : creating[t] # None => creating[t] \in Procs
    BY FileStoreAssumption
  <2>3. ASSUME NEW t \in Targets, creating'[t] # None
        PROVE  pc'[creating'[t]] \in {"create_write", "create_undo"} /\ job'[creating'[t]].t = t
    <3>1. creating'[t] = creating[t]
      BY <2>3
    <3>2. creating[t] \in Procs
      BY <2>2, <2>3, <3>1
    <3>3. CASE creating[t] # p
      BY <2>3, <3>1, <3>2, <3>3 DEF HolderInv
    <3>4. CASE creating[t] = p
      <4>1. job[p].t = t
        BY <2>3, <3>1, <3>4 DEF HolderInv
      <4> QED
        BY <2>3, <3>1, <3>4, <4>1 DEF HolderInv
    <3> QED
      BY <3>3, <3>4
  <2> QED
    BY <2>1, <2>3 DEF HolderInv
<1>4. QuietInv'
  BY DEF QuietInv, JobInv, HolderInv, Unchanged, Regular, Bystanders, Backed, Planned, NoJob
<1> QED
  BY <1>1, <1>2, <1>3, <1>4

\* And its removal.
LEMMA CreateUndoStep == ASSUME FileIInv, NEW p \in Procs, CreateUndo(p) PROVE FileIInv'
<1> USE FileStoreAssumption DEF FileIInv, FileTypeOK, CreateUndo, Goto, End, disk, budgets
<1>1. FileTypeOK'
  <2>1. job' \in [Procs -> Job]
    BY JobFields, NoJobType DEF Data, Procs, Ops, JobInv
  <2>2. \A q \in Procs : (pc'[q] = "idle") <=> (job'[q] = NoJob)
    BY DEF Procs, NoJob, JobInv, Planned, Backed, Job
  <2>3. /\ fs' \in [Targets -> Data \union {Absent, Link}]
        /\ backup' \in [Targets -> Data \union {Absent}]
    BY DEF Data, JobInv, Procs
  <2>4. /\ creating' \in [Targets -> Procs \union {None}]
        /\ filling' \in [Targets -> SUBSET Procs]
        /\ pc' \in [Procs -> PCs]
        /\ disturbed' \in SUBSET Procs
    BY DEF PCs, Procs, Bystanders, JobInv
  <2>5. outside' \in 0 .. MaxOutside /\ crashes' \in 0 .. MaxCrashes
    OBVIOUS
  <2> QED
    BY <2>1, <2>2, <2>3, <2>4, <2>5
<1>2. JobInv'
  BY DEF JobInv, NoJob, Planned, Backed, Data, Ops
<1>3. HolderInv'
  BY DEF HolderInv, JobInv, NoJob
<1>4. QuietInv'
  BY DEF QuietInv, JobInv, HolderInv, Unchanged, Regular, Bystanders, Backed, Planned, NoJob
<1> QED
  BY <1>1, <1>2, <1>3, <1>4

\* A cleaned backup disturbs whoever was making it.
LEMMA CleanStep == ASSUME FileIInv, NEW t \in Targets, Clean(t) PROVE FileIInv'
<1> USE FileStoreAssumption DEF FileIInv, FileTypeOK, Clean, budgets
<1>1. FileTypeOK'
  <2>1. job' \in [Procs -> Job]
    BY JobFields, NoJobType DEF Data, Procs, Ops, JobInv
  <2>2. \A q \in Procs : (pc'[q] = "idle") <=> (job'[q] = NoJob)
    BY DEF Procs, NoJob, JobInv, Planned, Backed, Job
  <2>3. /\ fs' \in [Targets -> Data \union {Absent, Link}]
        /\ backup' \in [Targets -> Data \union {Absent}]
    BY DEF Data, JobInv, Procs
  <2>4. /\ creating' \in [Targets -> Procs \union {None}]
        /\ filling' \in [Targets -> SUBSET Procs]
        /\ pc' \in [Procs -> PCs]
        /\ disturbed' \in SUBSET Procs
    BY DEF PCs, Procs, Bystanders, JobInv
  <2>5. outside' \in 0 .. MaxOutside /\ crashes' \in 0 .. MaxCrashes
    OBVIOUS
  <2> QED
    BY <2>1, <2>2, <2>3, <2>4, <2>5
<1>2. JobInv'
  BY DEF JobInv, NoJob, Planned, Backed, Data, Ops
<1>3. HolderInv'
  BY DEF HolderInv, JobInv, NoJob
<1>4. QuietInv'
  BY DEF QuietInv, JobInv, HolderInv, Unchanged, Regular, Bystanders, Backed, Planned, NoJob
<1> QED
  BY <1>1, <1>2, <1>3, <1>4

\* Another program disturbs everybody at that path.
LEMMA OutsideStep == ASSUME FileIInv, NEW t \in Targets, NEW x \in Contents \union {Absent, Link}, Outside(t, x) PROVE FileIInv'
<1> USE FileStoreAssumption DEF FileIInv, FileTypeOK, Outside, budgets
<1>1. FileTypeOK'
  <2>1. job' \in [Procs -> Job]
    BY JobFields, NoJobType DEF Data, Procs, Ops, JobInv
  <2>2. \A q \in Procs : (pc'[q] = "idle") <=> (job'[q] = NoJob)
    BY DEF Procs, NoJob, JobInv, Planned, Backed, Job
  <2>3. /\ fs' \in [Targets -> Data \union {Absent, Link}]
        /\ backup' \in [Targets -> Data \union {Absent}]
    BY DEF Data, JobInv, Procs
  <2>4. /\ creating' \in [Targets -> Procs \union {None}]
        /\ filling' \in [Targets -> SUBSET Procs]
        /\ pc' \in [Procs -> PCs]
        /\ disturbed' \in SUBSET Procs
    BY DEF PCs, Procs, Bystanders, JobInv
  <2>5. outside' \in 0 .. MaxOutside /\ crashes' \in 0 .. MaxCrashes
    OBVIOUS
  <2> QED
    BY <2>1, <2>2, <2>3, <2>4, <2>5
<1>2. JobInv'
  BY DEF JobInv, NoJob, Planned, Backed, Data, Ops
<1>3. HolderInv'
  BY DEF HolderInv, JobInv, NoJob
<1>4. QuietInv'
  BY DEF QuietInv, JobInv, HolderInv, Unchanged, Regular, Bystanders, Backed, Planned, NoJob
<1> QED
  BY <1>1, <1>2, <1>3, <1>4

\* A death may leave torn bytes behind, which disturbs the others.
LEMMA CrashStep == ASSUME FileIInv, NEW p \in Procs, Crash(p) PROVE FileIInv'
<1> USE FileStoreAssumption DEF FileIInv, FileTypeOK, Crash, Goto, End, disk, budgets
<1>1. FileTypeOK'
  <2>1. job' \in [Procs -> Job]
    BY JobFields, NoJobType DEF Data, Procs, Ops, JobInv
  <2>2. \A q \in Procs : (pc'[q] = "idle") <=> (job'[q] = NoJob)
    BY DEF Procs, NoJob, JobInv, Planned, Backed, Job
  <2>3. /\ fs' \in [Targets -> Data \union {Absent, Link}]
        /\ backup' \in [Targets -> Data \union {Absent}]
    BY DEF Data, JobInv, Procs
  <2>4. /\ creating' \in [Targets -> Procs \union {None}]
        /\ filling' \in [Targets -> SUBSET Procs]
        /\ pc' \in [Procs -> PCs]
        /\ disturbed' \in SUBSET Procs
    BY DEF PCs, Procs, Bystanders, JobInv
  <2>5. outside' \in 0 .. MaxOutside /\ crashes' \in 0 .. MaxCrashes
    OBVIOUS
  <2> QED
    BY <2>1, <2>2, <2>3, <2>4, <2>5
<1>2. JobInv'
  BY DEF JobInv, NoJob, Planned, Backed, Data, Ops
<1>3. HolderInv'
  BY DEF HolderInv, JobInv, NoJob
<1>4. QuietInv'
  BY DEF QuietInv, JobInv, HolderInv, Unchanged, Regular, Bystanders, Backed, Planned, NoJob
<1> QED
  BY <1>1, <1>2, <1>3, <1>4

\* Every step of every actor preserves the invariant.
LEMMA FileStepIInv == FileIInv /\ [FileNext]_fileVars => FileIInv'
<1> SUFFICES ASSUME FileIInv, [FileNext]_fileVars PROVE FileIInv'
  OBVIOUS
<1>1. ASSUME NEW p \in Procs, NEW t \in Targets, Request(p, t) PROVE FileIInv'
  BY <1>1, StartApplyStep, StartPlanStep, StartCreateStep, StartRollbackStep, StartCliApplyStep
     DEF Request
<1>2. ASSUME NEW p \in Procs, Step(p) PROVE FileIInv'
  BY <1>2, PlanReadStep, FinishPreviewStep, ResolveStep, CheckHashStep, OpenBackupStep,
     FillBackupStep, InstallStep, ReadBackupStep, CreateOpenStep, CreateWriteStep, CreateUndoStep
     DEF Step
<1>3. ASSUME NEW p \in Procs, Crash(p) PROVE FileIInv'
  BY <1>3, CrashStep
<1>4. ASSUME NEW t \in Targets, Clean(t) PROVE FileIInv'
  BY <1>4, CleanStep
<1>5. ASSUME NEW t \in Targets, NEW x \in Contents \union {Absent, Link}, Outside(t, x) PROVE FileIInv'
  BY <1>5, OutsideStep
<1>6. CASE UNCHANGED fileVars
  BY <1>6 DEF fileVars, FileIInv, FileTypeOK, JobInv, HolderInv, QuietInv, Unchanged, Regular
<1> QED
  BY <1>1, <1>2, <1>3, <1>4, <1>5, <1>6 DEF FileNext

\* FileIInv holds throughout.
LEMMA FileInvariance == FileSpec => []FileIInv
BY FileInitIInv, FileStepIInv, PTL DEF FileSpec

-----------------------------------------------------------------------------
(* The theorems. *)

\* The files, the backups and the requests keep their types.
THEOREM FileTypeCorrect == FileSpec => []FileTypeOK
BY FileInvariance, PTL DEF FileIInv

\* edit.go:252-275, main.go:549-629: an apply or edit that nobody disturbs
\* replaces the bytes it was planned from, and its backup holds them.
THEOREM QuietApply == FileSpec => []QuietApplyIsExact
<1>1. FileIInv => QuietApplyIsExact
  BY DEF FileIInv, JobInv, QuietInv, Unchanged, QuietApplyIsExact
<1> QED
  BY <1>1, FileInvariance, PTL

\* mcp.go:446-497: whatever happens between Lstat and the open, creating a file
\* overwrites nothing that another actor put at the path.
THEOREM CreateSafety == FileSpec => CreateNeverOverwrites
<1> DEFINE A == \A p \in Procs :
                  (pc[p] \in {"create", "create_write"} /\ pc'[p] # pc[p]) =>
                    LET t == job[p].t
                    IN fs'[t] # fs[t] => fs[t] = Absent \/ creating[t] = p
<1>1. FileIInv /\ [FileNext]_fileVars => [A]_fileVars
  <2> SUFFICES ASSUME FileIInv, FileNext, NEW p \in Procs,
                      pc[p] \in {"create", "create_write"}, pc'[p] # pc[p],
                      fs'[job[p].t] # fs[job[p].t]
               PROVE  fs[job[p].t] = Absent \/ creating[job[p].t] = p
    OBVIOUS
  <2> USE DEF FileIInv, FileTypeOK, End, Goto, disk, budgets
  <2>1. ASSUME NEW q \in Procs, NEW t \in Targets, Request(q, t) PROVE FALSE
    BY <2>1 DEF Request, StartApply, StartPlan, StartCreate, StartRollback, StartCliApply, Begin, Procs
  <2>2. ASSUME NEW q \in Procs \ {p}, Step(q) PROVE FALSE
    BY <2>2 DEF Step, PlanRead, FinishPreview, Resolve, CheckHash, OpenBackup, FillBackup,
                Install, ReadBackup, CreateOpen, CreateWrite, CreateUndo
  <2>3. ASSUME Step(p) PROVE fs[job[p].t] = Absent \/ creating[job[p].t] = p
    BY <2>3 DEF Step, PlanRead, FinishPreview, Resolve, CheckHash, OpenBackup, FillBackup,
                Install, ReadBackup, CreateOpen, CreateWrite, CreateUndo
  <2>4. ASSUME NEW q \in Procs, Crash(q) PROVE fs[job[p].t] = Absent \/ creating[job[p].t] = p
    BY <2>4 DEF Crash
  <2>5. ASSUME NEW t \in Targets, Clean(t) PROVE FALSE
    BY <2>5 DEF Clean
  <2>6. ASSUME NEW t \in Targets, NEW x \in Contents \union {Absent, Link}, Outside(t, x) PROVE FALSE
    BY <2>6 DEF Outside
  <2> QED
    BY <2>1, <2>2, <2>3, <2>4, <2>5, <2>6 DEF FileNext
<1> QED
  BY <1>1, FileInvariance, PTL DEF FileSpec, CreateNeverOverwrites

-----------------------------------------------------------------------------
(* The table of previews.                                                  *)

\* Where the request in progress is, and what its plan then is to the table:
\* new to it while it is sized, a member of it from lookup to the end.
PhaseInv ==
  /\ phase = "sizing" =>
       /\ plan.id \in issued /\ plan.id \notin IdsOf(stored)
       /\ claims[plan.id] = 0
       /\ plan.expires <= clock + PreviewTTL
       /\ \A q \in stored : q.expires <= plan.expires
  /\ phase = "looked_up" => plan \in previews /\ claims[plan.id] = 0
  /\ phase = "writing" => plan \in previews /\ claims[plan.id] = 1

\* An id reaches the write path only while its plan is in the table, and its
\* plan leaves the table before another request starts.
ClaimInv ==
  /\ \A k \in Ids : claims[k] \in {0, 1}
  /\ \A k \in Ids : k \notin issued => claims[k] = 0
  /\ \A p \in previews : claims[p.id] = 1 => phase = "writing" /\ plan = p

StoredInv ==
  /\ IsFiniteSet(stored)
  /\ \A p \in stored : p.id \in issued /\ p.expires <= clock + PreviewTTL

TableIInv ==
  /\ TableTypeOK
  /\ PhaseInv
  /\ ClaimInv
  /\ StoredInv
  /\ TableHoldsOffersOnly
  /\ CapacityBound
  /\ FreshPlansSurvive

-----------------------------------------------------------------------------
(* The table as data. *)

\* A table shrinks by what is pruned and by at most one plan for the newcomer;
\* what is left has room for one more.
LEMMA WithRoomBound ==
  ASSUME NEW plans, IsFiniteSet(plans), Cardinality(plans) <= MaxPreviewPlans,
         NEW kept \in WithRoom(plans)
  PROVE  /\ kept \subseteq plans
         /\ IsFiniteSet(kept)
         /\ Cardinality(kept) \in Nat
         /\ Cardinality(kept) < MaxPreviewPlans
<1> USE PreviewStoreAssumption
<1>1. Cardinality(plans) \in Nat
  BY FS_CardinalityType
<1>2. CASE Cardinality(plans) >= MaxPreviewPlans
  <2>1. PICK p \in Oldest(plans) : kept = plans \ {p}
    BY <1>2 DEF WithRoom
  <2>2. p \in plans
    BY DEF Oldest
  <2>3. IsFiniteSet(kept) /\ Cardinality(kept) = Cardinality(plans) - 1
    BY <2>1, <2>2, FS_RemoveElement
  <2> QED
    BY <1>1, <1>2, <2>1, <2>3
<1>3. CASE ~(Cardinality(plans) >= MaxPreviewPlans)
  <2>1. kept = plans
    BY <1>3 DEF WithRoom
  <2> QED
    BY <1>1, <1>3, <2>1
<1> QED
  BY <1>2, <1>3

\* Ids are no more than plans.
LEMMA IdsOfBound ==
  ASSUME NEW plans, IsFiniteSet(plans)
  PROVE  /\ IsFiniteSet(IdsOf(plans))
         /\ Cardinality(IdsOf(plans)) <= Cardinality(plans)
<1> DEFINE f == [p \in plans |-> p.id]
<1>1. f \in Surjection(plans, IdsOf(plans))
  BY DEF Surjection, IdsOf
<1> QED
  BY <1>1, FS_Surjection

\* Every step but storePreview leaves a part of the table, which is still small.
LEMMA SubtableBound ==
  ASSUME NEW plans, IsFiniteSet(plans), Cardinality(plans) <= MaxPreviewPlans,
         NEW part \in SUBSET plans
  PROVE  Cardinality(part) <= MaxPreviewPlans
BY FS_Subset, FS_CardinalityType, PreviewStoreAssumption

-----------------------------------------------------------------------------
(* The step lemmas, one per conjunct of TableIInv. *)

\* The initial state satisfies the invariant.
LEMMA TableInitIInv == TableInit => TableIInv
<1> SUFFICES ASSUME TableInit PROVE TableIInv
  OBVIOUS
<1> USE PreviewStoreAssumption, FS_EmptySet
<1>1. TableTypeOK
  BY DEF TableInit, TableTypeOK, Phases
<1>2. PhaseInv /\ ClaimInv /\ StoredInv
  BY DEF TableInit, PhaseInv, ClaimInv, StoredInv
<1>3. TableHoldsOffersOnly /\ CapacityBound /\ FreshPlansSurvive
  BY DEF TableInit, TableHoldsOffersOnly, CapacityBound, FreshPlansSurvive
<1> QED
  BY <1>1, <1>2, <1>3 DEF TableIInv

\* Types are preserved: in particular a request holds a plan until it ends.
LEMMA TypeStep == ASSUME TableIInv, [TableNext]_tableVars PROVE TableTypeOK'
<1> USE PreviewStoreAssumption DEF TableIInv, TableTypeOK, Phases, Plan
<1>1. ASSUME NEW k \in Ids, NEW b \in Bodies, DraftPreview(k, b) PROVE TableTypeOK'
  BY <1>1 DEF DraftPreview
<1>2. CASE RejectPreview
  BY <1>2 DEF RejectPreview
<1>3. CASE StorePreview
  <2>1. PICK kept \in WithRoom(Prune(previews, clock)) : previews' = kept \union {plan}
    BY <1>3 DEF StorePreview
  <2>2. kept \subseteq previews
    BY DEF WithRoom, Oldest, Prune
  <2> QED
    BY <1>3, <2>1, <2>2 DEF StorePreview
<1>4. ASSUME NEW k \in Ids, BeginApply(k) PROVE TableTypeOK'
  <2>1. previews' \subseteq previews
    BY <1>4 DEF BeginApply, Prune
  <2> QED
    BY <1>4, <2>1 DEF BeginApply
<1>5. CASE RecheckExpiry
  <2>1. previews' \subseteq previews
    BY <1>5 DEF RecheckExpiry, Without
  <2>2. phase = "looked_up" /\ plan \in Plan /\ plan.id \in Ids
    BY <1>5 DEF RecheckExpiry, PhaseInv
  <2> QED
    BY <1>5, <2>1, <2>2 DEF RecheckExpiry
<1>6. CASE FinishApply
  BY <1>6 DEF FinishApply, Without
<1>7. CASE Restart
  BY <1>7 DEF Restart
<1>8. CASE Tick
  BY <1>8 DEF Tick
<1>9. CASE UNCHANGED tableVars
  BY <1>9 DEF tableVars
<1> QED
  BY <1>1, <1>2, <1>3, <1>4, <1>5, <1>6, <1>7, <1>8, <1>9 DEF TableNext

\* What each step does to the table: it prunes, forgets one id or everything,
\* and only storePreview adds to it.
LEMMA TableStep ==
  ASSUME TableIInv, [TableNext]_tableVars
  PROVE  \/ /\ StorePreview
            /\ phase = "sizing" /\ plan \in Plan
            /\ \E kept \in WithRoom(Prune(previews, clock)) :
                 kept \subseteq previews /\ previews' = kept \union {plan}
         \/ previews' \subseteq previews
<1> USE DEF TableIInv, TableTypeOK, Phases
<1>1. ASSUME NEW k \in Ids, NEW b \in Bodies, DraftPreview(k, b)
      PROVE  previews' = previews /\ phase = "idle"
  BY <1>1 DEF DraftPreview
<1>2. CASE StorePreview
  BY <1>2 DEF StorePreview, WithRoom, Oldest, Prune
<1>3. ASSUME NEW k \in Ids, BeginApply(k)
      PROVE  previews' \subseteq previews /\ phase = "idle"
  BY <1>3 DEF BeginApply, Prune
<1>4. CASE RejectPreview \/ RecheckExpiry \/ FinishApply \/ Restart \/ Tick \/ UNCHANGED tableVars
  BY <1>4 DEF RejectPreview, RecheckExpiry, FinishApply, Without, Restart, Tick, tableVars
<1> QED
  BY <1>1, <1>2, <1>3, <1>4 DEF TableNext

\* The table never outgrows maxPreviewPlans.
LEMMA CapacityStep == ASSUME TableIInv, [TableNext]_tableVars PROVE CapacityBound'
<1> USE PreviewStoreAssumption
<1>1. IsFiniteSet(previews) /\ Cardinality(previews) <= MaxPreviewPlans
  BY FS_Subset DEF TableIInv, StoredInv, TableHoldsOffersOnly, CapacityBound
<1>2. CASE previews' \subseteq previews
  BY <1>1, <1>2, SubtableBound DEF CapacityBound
<1>3. ASSUME NEW kept \in WithRoom(Prune(previews, clock)), previews' = kept \union {plan}
      PROVE  CapacityBound'
  <2>1. /\ IsFiniteSet(Prune(previews, clock))
        /\ Cardinality(Prune(previews, clock)) <= MaxPreviewPlans
    BY <1>1, FS_Subset, SubtableBound DEF Prune
  <2>2. IsFiniteSet(kept) /\ Cardinality(kept) \in Nat /\ Cardinality(kept) < MaxPreviewPlans
    BY <2>1, WithRoomBound
  <2>3. Cardinality(kept \union {plan}) <= Cardinality(kept) + 1
    BY <2>2, FS_AddElement
  <2>4. Cardinality(kept \union {plan}) \in Nat
    BY <2>2, FS_AddElement, FS_CardinalityType
  <2> QED
    BY <1>3, <2>2, <2>3, <2>4 DEF CapacityBound
<1> QED
  BY <1>2, <1>3, TableStep

\* A plan that is being sized is new; one that is looked up or written is in the table.
LEMMA PhaseStep == ASSUME TableIInv, [TableNext]_tableVars PROVE PhaseInv'
<1> USE PreviewStoreAssumption DEF TableIInv, TableTypeOK, Phases, PhaseInv, Plan
<1>1. ASSUME NEW k \in Ids, NEW b \in Bodies, DraftPreview(k, b) PROVE PhaseInv'
  <2>1. k \notin IdsOf(stored) /\ claims[k] = 0
    BY <1>1 DEF DraftPreview, StoredInv, ClaimInv, IdsOf
  <2>2. \A q \in stored : q.expires <= plan'.expires
    BY <1>1 DEF DraftPreview, StoredInv
  <2>3. plan'.id = k /\ plan'.expires = clock + PreviewTTL
    BY <1>1 DEF DraftPreview
  <2> QED
    BY <1>1, <2>1, <2>2, <2>3 DEF DraftPreview, IdsOf
<1>2. CASE RejectPreview
  BY <1>2 DEF RejectPreview
<1>3. CASE StorePreview
  BY <1>3 DEF StorePreview
<1>4. ASSUME NEW k \in Ids, BeginApply(k) PROVE PhaseInv'
  <2>1. CASE k \notin IdsOf(previews') /\ UNCHANGED <<plan, phase>>
    BY <1>4, <2>1 DEF BeginApply
  <2>2. CASE \E p \in previews' : p.id = k /\ plan' = p /\ phase' = "looked_up"
    <3>1. previews' \subseteq previews /\ phase = "idle" /\ claims' = claims
      BY <1>4 DEF BeginApply, Prune
    <3>2. claims[plan'.id] = 0
      BY <2>2, <3>1 DEF ClaimInv
    <3> QED
      BY <2>2, <3>1, <3>2
  <2> QED
    BY <1>4, <2>1, <2>2 DEF BeginApply
<1>5. CASE RecheckExpiry
  <2>1. plan \in previews /\ plan.id \in Ids /\ claims[plan.id] = 0
    BY <1>5 DEF RecheckExpiry
  <2> QED
    BY <1>5, <2>1 DEF RecheckExpiry
<1>6. CASE FinishApply
  BY <1>6 DEF FinishApply
<1>7. CASE Restart
  BY <1>7 DEF Restart
<1>8. CASE Tick
  <2>1. /\ clock' = clock + 1
        /\ UNCHANGED <<previews, phase, plan, issued, claims, stored>>
    BY <1>8 DEF Tick
  <2>2. phase = "sizing" => plan \in Plan
    OBVIOUS
  <2> QED
    BY <2>1, <2>2 DEF IdsOf
<1>9. CASE UNCHANGED tableVars
  BY <1>9 DEF tableVars, IdsOf
<1> QED
  BY <1>1, <1>2, <1>3, <1>4, <1>5, <1>6, <1>7, <1>8, <1>9 DEF TableNext

\* An id is claimed once, and while its plan is being written.
LEMMA ClaimStep == ASSUME TableIInv, [TableNext]_tableVars PROVE ClaimInv'
<1> USE DEF TableIInv, TableTypeOK, Phases, ClaimInv, Plan
<1>1. ASSUME NEW k \in Ids, NEW b \in Bodies, DraftPreview(k, b) PROVE ClaimInv'
  BY <1>1 DEF DraftPreview
<1>2. CASE RejectPreview
  BY <1>2 DEF RejectPreview
<1>3. CASE StorePreview
  <2>1. \E kept \in SUBSET previews : previews' = kept \union {plan}
    BY <1>3 DEF StorePreview, WithRoom, Oldest, Prune
  <2>2. claims' = claims /\ issued' = issued /\ claims[plan.id] = 0 /\ phase = "sizing"
    BY <1>3 DEF StorePreview, PhaseInv
  <2> QED
    BY <2>1, <2>2
<1>4. ASSUME NEW k \in Ids, BeginApply(k) PROVE ClaimInv'
  BY <1>4 DEF BeginApply, Prune
<1>5. CASE RecheckExpiry
  <2>1. plan \in previews /\ plan.id \in Ids /\ claims[plan.id] = 0 /\ plan.id \in issued
    BY <1>5 DEF RecheckExpiry, PhaseInv, StoredInv, TableHoldsOffersOnly
  <2>2. \A p \in previews : p.id = plan.id => p = plan
    BY <2>1 DEF TableHoldsOffersOnly
  <2>3. CASE clock > plan.expires
    BY <1>5, <2>3 DEF RecheckExpiry, Without
  <2>4. CASE ~(clock > plan.expires)
    BY <1>5, <2>1, <2>2, <2>4 DEF RecheckExpiry
  <2> QED
    BY <2>3, <2>4
<1>6. CASE FinishApply
  BY <1>6 DEF FinishApply, Without
<1>7. CASE Restart
  BY <1>7 DEF Restart
<1>8. CASE Tick
  BY <1>8 DEF Tick
<1>9. CASE UNCHANGED tableVars
  BY <1>9 DEF tableVars
<1> QED
  BY <1>1, <1>2, <1>3, <1>4, <1>5, <1>6, <1>7, <1>8, <1>9 DEF TableNext

\* stored grows by the plan in hand and is lost with the process.
LEMMA StoredStep ==
  ASSUME TableIInv, [TableNext]_tableVars
  PROVE  StoredInv' /\ TableHoldsOffersOnly'
<1> USE PreviewStoreAssumption
        DEF TableIInv, TableTypeOK, Phases, StoredInv, TableHoldsOffersOnly, Plan
<1>1. ASSUME NEW k \in Ids, NEW b \in Bodies, DraftPreview(k, b)
      PROVE  StoredInv' /\ TableHoldsOffersOnly'
  BY <1>1 DEF DraftPreview
<1>2. CASE StorePreview
  <2>1. /\ stored' = stored \union {plan} /\ clock' = clock /\ issued' = issued
        /\ \E kept \in SUBSET previews : previews' = kept \union {plan}
    BY <1>2 DEF StorePreview, WithRoom, Oldest, Prune
  <2>2. IsFiniteSet(stored')
    BY <2>1, FS_AddElement
  <2>3. /\ plan.id \in issued /\ plan.expires <= clock + PreviewTTL
        /\ \A q \in stored : q.id # plan.id
    BY <1>2 DEF StorePreview, PhaseInv, IdsOf
  <2>4. StoredInv'
    BY <2>1, <2>2, <2>3
  <2>5. TableHoldsOffersOnly'
    BY <2>1, <2>3
  <2> QED
    BY <2>4, <2>5
<1>3. ASSUME NEW k \in Ids, BeginApply(k)
      PROVE  StoredInv' /\ TableHoldsOffersOnly'
  BY <1>3 DEF BeginApply, Prune
<1>4. CASE RejectPreview \/ RecheckExpiry \/ FinishApply \/ UNCHANGED tableVars
  BY <1>4 DEF RejectPreview, RecheckExpiry, FinishApply, Without, tableVars
<1>5. CASE Restart
  BY <1>5, FS_EmptySet DEF Restart
<1>6. CASE Tick
  BY <1>6 DEF Tick
<1> QED
  BY <1>1, <1>2, <1>3, <1>4, <1>5, <1>6 DEF TableNext

\* A plan leaves the table because it expired, was used, or was the oldest of
\* a full one; once gone for the last reason, its betters stay in stored.
LEMMA FreshStep == ASSUME TableIInv, [TableNext]_tableVars PROVE FreshPlansSurvive'
<1> USE PreviewStoreAssumption
<1> DEFINE Better(S, p) == {q \in S \ {p} : q.expires >= p.expires}
<1>0. /\ clock \in Nat /\ clock' \in Nat /\ clock <= clock'
      /\ claims \in [Ids -> Nat] /\ stored \subseteq Plan /\ IsFiniteSet(stored)
  <2>1. clock <= clock'
    BY DEF TableIInv, TableTypeOK, TableNext, DraftPreview, RejectPreview, StorePreview, BeginApply,
           RecheckExpiry, FinishApply, Restart, Tick, tableVars
  <2> QED
    BY <2>1, TypeStep DEF TableIInv, TableTypeOK, StoredInv
<1>1. CASE stored' = {}
  BY <1>1 DEF FreshPlansSurvive
<1>2. CASE stored' = stored /\ (\A p \in previews : p \in previews'
                                 \/ clock > p.expires \/ claims'[p.id] # 0)
                            /\ (\A k \in Ids : claims[k] # 0 => claims'[k] # 0)
  BY <1>0, <1>2 DEF FreshPlansSurvive, TableIInv, Plan
<1>3. CASE StorePreview
  <2> DEFINE kept0 == Prune(previews, clock)
  <2>1. PICK kept \in WithRoom(kept0) : previews' = kept \union {plan}
    BY <1>3 DEF StorePreview
  <2>2. /\ stored' = stored \union {plan} /\ clock' = clock /\ claims' = claims
        /\ phase = "sizing" /\ plan \in Plan
    BY <1>3 DEF StorePreview, TableIInv, TableTypeOK
  <2>3. /\ \A q \in stored : q.id # plan.id /\ q # plan
        /\ \A q \in stored : q.expires <= plan.expires
    BY <2>2 DEF TableIInv, PhaseInv, IdsOf
  <2> SUFFICES ASSUME NEW p \in stored', clock <= p.expires, claims[p.id] = 0, p \notin previews'
               PROVE  Cardinality(Better(stored', p)) >= MaxPreviewPlans
    BY <2>2 DEF FreshPlansSurvive
  <2>4. p \in stored /\ p # plan
    BY <2>1, <2>2
  <2>5. IsFiniteSet(stored') /\ IsFiniteSet(Better(stored', p))
    BY <1>0, <2>2, FS_AddElement, FS_Subset
  <2>6. CASE p \notin previews
    <3>1. Cardinality(Better(stored, p)) >= MaxPreviewPlans
      BY <2>4, <2>6 DEF TableIInv, FreshPlansSurvive
    <3>2. Better(stored, p) \subseteq Better(stored', p)
      BY <2>2
    <3>3. Cardinality(Better(stored, p)) <= Cardinality(Better(stored', p))
      BY <2>5, <3>2, FS_Subset
    <3>4. IsFiniteSet(Better(stored, p))
      BY <2>5, <3>2, FS_Subset
    <3> QED
      BY <2>5, <3>1, <3>3, <3>4, FS_CardinalityType
  <2>7. CASE p \in previews
    <3>a. IsFiniteSet(kept0)
      BY <1>0, FS_Subset DEF TableIInv, Prune, TableHoldsOffersOnly
    <3>b. p \in kept0
      BY <1>0, <2>4, <2>7 DEF Prune, Plan
    <3>1. p \in kept0 /\ IsFiniteSet(kept0)
      BY <3>a, <3>b
    <3>2. p \in Oldest(kept0) /\ kept = kept0 \ {p} /\ Cardinality(kept0) >= MaxPreviewPlans
      BY <2>1, <3>1 DEF WithRoom
    <3>3. IsFiniteSet(kept) /\ Cardinality(kept) = Cardinality(kept0) - 1
      BY <3>1, <3>2, FS_RemoveElement
    <3>4. plan \notin kept
      BY <2>3, <3>2 DEF TableIInv, TableHoldsOffersOnly, Prune
    <3>5. /\ IsFiniteSet(kept \union {plan})
          /\ Cardinality(kept \union {plan}) = Cardinality(kept) + 1
      BY <3>3, <3>4, FS_AddElement
    <3>6. kept \union {plan} \subseteq Better(stored', p)
      <4>1. \A q \in kept : q \in stored /\ q # p /\ q.expires \in Int /\ p.expires <= q.expires
        BY <1>0, <3>2 DEF Oldest, Prune, TableIInv, TableHoldsOffersOnly, Plan
      <4>2. p.expires <= plan.expires /\ p.expires \in Int /\ plan.expires \in Int
        BY <1>0, <2>2, <2>3, <2>4 DEF Plan
      <4> QED
        BY <2>2, <2>4, <4>1, <4>2
    <3>7. Cardinality(kept \union {plan}) <= Cardinality(Better(stored', p))
      BY <2>5, <3>6, FS_Subset
    <3>8. Cardinality(kept0) \in Nat /\ Cardinality(Better(stored', p)) \in Nat
      BY <2>5, <3>1, FS_CardinalityType
    <3> QED
      BY <3>2, <3>3, <3>5, <3>7, <3>8
  <2> QED
    BY <2>6, <2>7
<1>4. ASSUME NEW k \in Ids, NEW b \in Bodies, DraftPreview(k, b) PROVE FreshPlansSurvive'
  BY <1>2, <1>4 DEF DraftPreview
<1>5. ASSUME NEW k \in Ids, BeginApply(k) PROVE FreshPlansSurvive'
  BY <1>2, <1>5 DEF BeginApply, Prune
<1>6. CASE RecheckExpiry
  <2>1. plan \in previews /\ plan.id \in Ids /\ stored' = stored
    BY <1>6 DEF RecheckExpiry, TableIInv, PhaseInv, TableTypeOK, Plan
  <2>2. \A p \in previews : p.id = plan.id => p = plan
    BY <2>1 DEF TableIInv, TableHoldsOffersOnly
  <2>3. CASE clock > plan.expires
    BY <1>2, <1>6, <2>1, <2>2, <2>3 DEF RecheckExpiry, Without
  <2>4. CASE ~(clock > plan.expires)
    BY <1>0, <1>2, <1>6, <2>1, <2>4 DEF RecheckExpiry
  <2> QED
    BY <2>3, <2>4
<1>7. CASE FinishApply
  <2>1. claims[plan.id] = 1
    BY <1>7 DEF FinishApply, TableIInv, PhaseInv
  <2> QED
    BY <1>2, <1>7, <2>1 DEF FinishApply, Without
<1>8. CASE RejectPreview \/ Tick \/ UNCHANGED tableVars
  BY <1>2, <1>8 DEF RejectPreview, Tick, tableVars
<1>9. CASE Restart
  BY <1>1, <1>9 DEF Restart
<1> QED
  BY <1>3, <1>4, <1>5, <1>6, <1>7, <1>8, <1>9 DEF TableNext

\* Every step of the server preserves the invariant.
LEMMA TableStepIInv == TableIInv /\ [TableNext]_tableVars => TableIInv'
BY TypeStep, PhaseStep, ClaimStep, StoredStep, CapacityStep, FreshStep DEF TableIInv

\* TableIInv holds throughout.
LEMMA TableInvariance == TableSpec => []TableIInv
<1>1. TableInit => TableIInv
  BY TableInitIInv
<1>2. TableIInv /\ [TableNext]_tableVars => TableIInv'
  BY TableStepIInv
<1> QED
  BY <1>1, <1>2, PTL DEF TableSpec

-----------------------------------------------------------------------------
(* The theorems. *)

\* The table, the clock and the request in progress keep their types; a request
\* holds a plan exactly as long as it is not over (edit.go:85-132, 204-232).
THEOREM TableTypeCorrect == TableSpec => []TableTypeOK
BY TableInvariance, PTL DEF TableIInv

\* edit.go:455-472: maxPreviewPlans bounds the table, for every bound.
THEOREM Capacity == TableSpec => []CapacityBound
BY TableInvariance, PTL DEF TableIInv

\* edit.go:204-232: an id reaches the write path at most once.
THEOREM SingleUseTheorem == TableSpec => []SingleUse
<1>1. TableIInv => SingleUse
  BY DEF TableIInv, ClaimInv, SingleUse
<1> QED
  BY <1>1, TableInvariance, PTL

\* edit.go:455-481: no fresh, unused plan is evicted while a staler one is kept.
THEOREM FreshPlans == TableSpec => []FreshPlansSurvive
BY TableInvariance, PTL DEF TableIInv

\* edit.go:119-130: a preview that was refused leaves no plan behind.
THEOREM OffersOnly == TableSpec => []TableHoldsOffersOnly
BY TableInvariance, PTL DEF TableIInv

-----------------------------------------------------------------------------
(* The refinement of TokenLedger. *)

\* The promise's initial state: nothing was issued.
LEMMA LedgerInit == TableInit => Ledger!Init
<1> SUFFICES ASSUME TableInit PROVE Ledger!Init
  OBVIOUS
<1>1. \A k \in Ids : LedgerStatus(k) = "unissued"
  BY DEF TableInit, LedgerStatus, IdsOf
<1> QED
  BY <1>1 DEF TableInit, Ledger!Init, Ledger!Worth, LedgerUntil

\* Outside the write path no plan in the table was ever claimed.
LEMMA StatusFacts ==
  ASSUME TableIInv
  PROVE  /\ \A k \in IdsOf(previews) : k \in Ids /\ k \in issued
         /\ phase # "writing" => \A k \in IdsOf(previews) : claims[k] = 0
         /\ \A k \in Ids : LedgerStatus(k) = "live" <=> k \in IdsOf(previews) /\ claims[k] = 0
<1>1. \A p \in previews : p \in stored /\ p.id \in Ids /\ p.id \in issued
  BY DEF TableIInv, TableHoldsOffersOnly, StoredInv, TableTypeOK, Plan
<1>2. \A k \in Ids : claims[k] \in {0, 1}
  BY DEF TableIInv, ClaimInv
<1>3. \A p \in previews : phase # "writing" => claims[p.id] = 0
  BY <1>1, <1>2 DEF TableIInv, ClaimInv
<1> QED
  BY <1>1, <1>2, <1>3 DEF IdsOf, LedgerStatus

\* A live id is on offer until its plan expires, any other has no time.
UntilInv ==
  /\ \A p \in previews : claims[p.id] = 0 => LedgerUntil(p.id) = p.expires
  /\ \A k \in Ids : LedgerStatus(k) # "live" => LedgerUntil(k) = 0

LEMMA UntilFacts == TableIInv => UntilInv
<1> SUFFICES ASSUME TableIInv, NEW p \in previews, claims[p.id] = 0
             PROVE  LedgerUntil(p.id) = p.expires
  BY DEF UntilInv, LedgerUntil
<1>1. LedgerStatus(p.id) = "live"
  BY DEF LedgerStatus, IdsOf
<1>2. \A q \in previews : q.id = p.id => q = p
  BY DEF TableIInv, TableHoldsOffersOnly
<1>3. (CHOOSE q \in previews : q.id = p.id) = p
  BY <1>2
<1> QED
  BY <1>1, <1>3 DEF LedgerUntil

\* An id whose status and plan stay keeps its time.
LEMMA UntilKept ==
  ASSUME TableIInv, TableIInv', NEW k \in Ids, LedgerStatus(k)' = LedgerStatus(k),
         LedgerStatus(k) = "live" => \A p \in previews' : p.id = k => p \in previews
  PROVE  LedgerUntil(k)' = LedgerUntil(k)
<1>0. UntilInv'
  BY UntilFacts, PTL
<1>1. CASE LedgerStatus(k) # "live"
  BY <1>0, <1>1, UntilFacts DEF UntilInv
<1>2. CASE LedgerStatus(k) = "live"
  <2>1. k \in IdsOf(previews') /\ claims[k] = 0 /\ claims'[k] = 0
    BY <1>2 DEF LedgerStatus, TableIInv, ClaimInv
  <2>2. PICK p \in previews' : p.id = k
    BY <2>1 DEF IdsOf
  <2>3. p \in previews
    BY <1>2, <2>2
  <2>4. LedgerUntil(p.id) = p.expires
    BY <2>1, <2>2, <2>3, UntilFacts DEF UntilInv
  <2>5. LedgerUntil(k)' = p.expires
    BY <1>0, <2>1, <2>2 DEF UntilInv
  <2> QED
    BY <2>2, <2>4, <2>5
<1> QED
  BY <1>1, <1>2

\* A step after which some ids that were on offer or unissued are worth nothing,
\* and nothing else changed, is a step of the promise.
LEMMA VoidStep ==
  ASSUME TableIInv, TableIInv', clock' = clock, previews' \subseteq previews,
         \A k \in Ids : \/ LedgerStatus(k)' = LedgerStatus(k)
                        \/ LedgerStatus(k) \in {"unissued", "live"} /\ LedgerStatus(k)' = "dead"
  PROVE  Ledger!Next
<1> DEFINE gone == {k \in Ids : LedgerStatus(k)' # LedgerStatus(k)}
           l == [k \in Ids |-> [status |-> LedgerStatus(k), until |-> LedgerUntil(k)]]
<1>1. \A k \in gone : l[k].status \in {"unissued", "live"}
  OBVIOUS
<1>2. \A k \in Ids \ gone : LedgerUntil(k)' = LedgerUntil(k)
  BY UntilKept
<1>0. UntilInv'
  BY UntilFacts, PTL
<1>3. \A k \in gone : LedgerStatus(k)' = "dead" /\ LedgerUntil(k)' = 0
  BY <1>0 DEF UntilInv
<1>4. l' = [k \in Ids |-> IF k \in gone THEN Ledger!Worth("dead") ELSE l[k]]
  BY <1>2, <1>3 DEF Ledger!Worth
<1>5. Ledger!Void(gone)
  BY <1>1, <1>4 DEF Ledger!Void
<1>6. gone \in SUBSET Ids
  OBVIOUS
<1> QED
  BY <1>5, <1>6 DEF Ledger!Next

\* Storing the plan in hand offers its id; the ids that went to make room are void.
LEMMA IssueStep == ASSUME TableIInv, TableIInv', StorePreview PROVE Ledger!Next
<1> DEFINE l == [k \in Ids |-> [status |-> LedgerStatus(k), until |-> LedgerUntil(k)]]
           kept0 == Prune(previews, clock)
<1>1. PICK kept \in WithRoom(kept0) : previews' = kept \union {plan}
  BY DEF StorePreview
<1> DEFINE gone == IdsOf(previews) \ IdsOf(kept)
<1>2. /\ phase = "sizing" /\ plan \in Plan /\ plan.id \in Ids /\ plan.id \in issued
      /\ phase' = "idle" /\ issued' = issued /\ claims' = claims
      /\ claims[plan.id] = 0 /\ plan.id \notin IdsOf(previews)
  BY DEF StorePreview, TableIInv, TableTypeOK, PhaseInv, Plan, TableHoldsOffersOnly, IdsOf
<1>3. /\ kept \subseteq previews /\ IsFiniteSet(kept)
      /\ Cardinality(kept) \in Nat /\ Cardinality(kept) < MaxPreviewPlans
  <2>1. /\ IsFiniteSet(kept0) /\ Cardinality(kept0) <= MaxPreviewPlans
        /\ kept0 \subseteq previews
    BY FS_Subset, SubtableBound DEF Prune, TableIInv, StoredInv, TableHoldsOffersOnly, CapacityBound
  <2> QED
    BY <2>1, WithRoomBound
<1>4. Ledger!Live = IdsOf(previews)
  BY <1>2, StatusFacts DEF Ledger!Live
<1>5. IdsOf(kept) \subseteq IdsOf(previews) /\ IdsOf(previews') = IdsOf(kept) \union {plan.id}
  BY <1>1, <1>3 DEF IdsOf
<1>6. Cardinality(Ledger!Live \ gone) < MaxPreviewPlans
  <2>1. Ledger!Live \ gone = IdsOf(kept)
    BY <1>4, <1>5
  <2>2. Cardinality(IdsOf(kept)) <= Cardinality(kept) /\ Cardinality(IdsOf(kept)) \in Nat
    BY <1>3, IdsOfBound, FS_CardinalityType
  <2> QED
    BY <1>3, <2>1, <2>2, PreviewStoreAssumption
<1>7. l[plan.id].status = "unissued"
  BY <1>2 DEF LedgerStatus
<1>8. \A j \in Ids : LedgerStatus(j)' = IF j = plan.id THEN "live"
                                        ELSE IF j \in gone THEN "dead" ELSE LedgerStatus(j)
  <2> SUFFICES ASSUME NEW j \in Ids
               PROVE  LedgerStatus(j)' = IF j = plan.id THEN "live"
                                         ELSE IF j \in gone THEN "dead" ELSE LedgerStatus(j)
    OBVIOUS
  <2>1. \A k \in IdsOf(previews) : k \in issued /\ claims[k] = 0
    BY <1>2, StatusFacts
  <2>2. ~(0 > 0)
    OBVIOUS
  <2> QED
    BY <1>2, <1>5, <2>1, <2>2 DEF LedgerStatus
<1>0. UntilInv'
  BY UntilFacts, PTL
<1>13. PICK k \in Ids : k = plan.id
  BY <1>2
<1>11. LedgerUntil(k)' = plan.expires
  <2>1. plan \in previews' /\ claims'[plan.id] = 0
    BY <1>1, <1>2
  <2>2. \A p \in previews' : claims'[p.id] = 0 /\ p.id = k => LedgerUntil(k)' = p.expires
    BY <1>0 DEF UntilInv
  <2> QED
    BY <1>13, <2>1, <2>2
<1>12. ASSUME NEW j \in Ids, j # plan.id
       PROVE  LedgerUntil(j)' = IF j \in gone THEN 0 ELSE LedgerUntil(j)
  <2>1. CASE j \in gone
    <3>1. LedgerStatus(j)' = "dead"
      BY <1>8, <1>12, <2>1
    <3> QED
      BY <1>0, <2>1, <3>1 DEF UntilInv
  <2>2. CASE j \notin gone
    <3>1. LedgerStatus(j)' = LedgerStatus(j)
      BY <1>8, <1>12, <2>2
    <3>2. \A p \in previews' : p.id = j => p \in previews
      BY <1>1, <1>3, <1>12
    <3> QED
      BY <2>2, <3>1, <3>2, UntilKept
  <2> QED
    BY <2>1, <2>2
<1> HIDE DEF gone
<1>9. l' = [j \in Ids |-> IF j = plan.id THEN [status |-> "live", until |-> plan.expires]
                          ELSE IF j \in gone THEN Ledger!Worth("dead") ELSE l[j]]
  <2> SUFFICES ASSUME NEW j \in Ids
               PROVE  [status |-> LedgerStatus(j)', until |-> LedgerUntil(j)']
                        = IF j = plan.id THEN [status |-> "live", until |-> plan.expires]
                          ELSE IF j \in gone THEN Ledger!Worth("dead") ELSE l[j]
    OBVIOUS
  <2>1. CASE j = plan.id
    BY <1>8, <1>11, <1>13, <2>1
  <2>2. CASE j # plan.id /\ j \in gone
    BY <1>8, <1>12, <2>2 DEF Ledger!Worth
  <2>3. CASE j # plan.id /\ j \notin gone
    BY <1>8, <1>12, <2>3
  <2> QED
    BY <2>1, <2>2, <2>3
<1>10. Ledger!Issue(plan.id)
  <2>1. gone \in SUBSET Ledger!Live
    BY <1>4 DEF gone
  <2>2. Ledger!Cardinality(Ledger!Live \ gone) = Cardinality(Ledger!Live \ gone)
    BY DEF Ledger!Cardinality, Cardinality
  <2>3. plan.expires \in 0 .. clock + PreviewTTL /\ clock' = clock
    BY <1>2, PreviewStoreAssumption DEF StorePreview, TableIInv, TableTypeOK, PhaseInv, Plan
  <2>4. \E until \in 0 .. clock + PreviewTTL :
          l' = [j \in Ids |-> IF j = plan.id THEN [status |-> "live", until |-> until]
                              ELSE IF j \in gone THEN Ledger!Worth("dead") ELSE l[j]]
    BY <1>9, <2>3
  <2>5. \E away \in SUBSET Ledger!Live, until \in 0 .. clock + PreviewTTL :
          /\ Ledger!Cardinality(Ledger!Live \ away) < MaxPreviewPlans
          /\ l' = [j \in Ids |-> IF j = plan.id THEN [status |-> "live", until |-> until]
                                 ELSE IF j \in away THEN Ledger!Worth("dead") ELSE l[j]]
    <3> HIDE DEF l
    <3> QED
      BY <1>6, <2>1, <2>2, <2>4
  <2> QED
    BY <1>7, <2>3, <2>5, Zenon DEF Ledger!Issue
<1> QED
  BY <1>2, <1>10 DEF Ledger!Next

\* Every step of the server is a step of the promise.
LEMMA LedgerStep ==
  ASSUME TableIInv, TableIInv', [TableNext]_tableVars
  PROVE  Ledger!Next
<1> DEFINE Voids ==
             /\ clock' = clock /\ previews' \subseteq previews
             /\ \A k \in Ids : \/ LedgerStatus(k)' = LedgerStatus(k)
                               \/ LedgerStatus(k) \in {"unissued", "live"} /\ LedgerStatus(k)' = "dead"
           l == [k \in Ids |-> [status |-> LedgerStatus(k), until |-> LedgerUntil(k)]]
<1> USE DEF TableIInv, TableTypeOK, Phases, Plan
<1>0. /\ \A k \in Ids : claims[k] \in {0, 1}
      /\ \A k \in IdsOf(previews) : k \in issued
      /\ phase # "writing" => \A k \in IdsOf(previews) : claims[k] = 0
  BY StatusFacts DEF ClaimInv
<1>1. ASSUME NEW k \in Ids, NEW b \in Bodies, DraftPreview(k, b) PROVE Voids
  <2>2. /\ phase = "idle" /\ phase' = "sizing" /\ k \notin issued /\ issued' = issued \union {k}
        /\ plan'.id = k /\ claims' = claims /\ previews' = previews
    BY <1>1 DEF DraftPreview
  <2>1. \A j \in Ids : LedgerStatus(j)' = LedgerStatus(j)
    BY ONLY <1>0, <2>2 DEF LedgerStatus
  <2> QED
    BY <1>1, <2>1 DEF DraftPreview
<1>2. ASSUME RejectPreview PROVE Voids
  <2>2. /\ phase = "sizing" /\ phase' = "idle" /\ issued' = issued
        /\ claims' = claims /\ previews' = previews
    BY <1>2 DEF RejectPreview
  <2>1. \A j \in Ids : \/ LedgerStatus(j)' = LedgerStatus(j)
                       \/ LedgerStatus(j) \in {"unissued", "live"} /\ LedgerStatus(j)' = "dead"
    BY ONLY <2>2 DEF LedgerStatus
  <2> QED
    BY <1>2, <2>1 DEF RejectPreview
<1>3. CASE StorePreview
  BY <1>3, IssueStep
<1>4. ASSUME NEW k \in Ids, BeginApply(k) PROVE Voids
  <2>1. /\ phase = "idle" /\ phase' \in {"idle", "looked_up"} /\ clock' = clock
        /\ previews' \subseteq previews
        /\ IdsOf(previews') \subseteq IdsOf(previews) /\ issued' = issued /\ claims' = claims
    BY <1>4 DEF BeginApply, Prune, IdsOf
  <2>2. \A j \in Ids : \/ LedgerStatus(j)' = LedgerStatus(j)
                       \/ LedgerStatus(j) \in {"unissued", "live"} /\ LedgerStatus(j)' = "dead"
    BY ONLY <1>0, <2>1 DEF LedgerStatus
  <2> QED
    BY <2>1, <2>2
<1>5. CASE RecheckExpiry
  <2>1. phase = "looked_up" /\ plan \in previews /\ plan.id \in Ids /\ claims[plan.id] = 0
        /\ plan.id \in IdsOf(previews) /\ issued' = issued /\ clock' = clock
    BY <1>5 DEF RecheckExpiry, PhaseInv, IdsOf
  <2>2. CASE clock > plan.expires
    <3>1. /\ IdsOf(previews') \subseteq IdsOf(previews) /\ claims' = claims /\ phase' = "idle"
          /\ previews' \subseteq previews
      BY <1>5, <2>2 DEF RecheckExpiry, Without, IdsOf
    <3> QED
      BY <1>0, <2>1, <3>1, VoidStep DEF LedgerStatus
  <2>3. CASE ~(clock > plan.expires)
    <3>1. /\ claims' = [claims EXCEPT ![plan.id] = 1] /\ previews' = previews /\ phase' = "writing"
      BY <1>5, <2>1, <2>3 DEF RecheckExpiry
    <3>2. LedgerStatus(plan.id) = "live" /\ LedgerUntil(plan.id) = plan.expires
      BY <2>1, UntilFacts DEF UntilInv, LedgerStatus
    <3>3. \A k \in Ids : LedgerStatus(k)' = IF k = plan.id THEN "claimed" ELSE LedgerStatus(k)
      BY <2>1, <3>1 DEF LedgerStatus
    <3>4. \A k \in Ids \ {plan.id} : LedgerUntil(k)' = LedgerUntil(k)
      BY <3>1, <3>3, UntilKept
    <3>9. PICK i \in Ids : i = plan.id
      BY <2>1
    <3>5. LedgerUntil(i)' = 0
      <4>1. UntilInv'
        BY UntilFacts, PTL
      <4>2. LedgerStatus(i)' = "claimed"
        BY <3>3, <3>9
      <4> QED
        BY <4>1, <4>2 DEF UntilInv
    <3>6. l' = [l EXCEPT ![plan.id] = Ledger!Worth("claimed")]
      <4> SUFFICES ASSUME NEW k \in Ids
                   PROVE  [status |-> LedgerStatus(k)', until |-> LedgerUntil(k)']
                            = IF k = i THEN [status |-> "claimed", until |-> 0]
                              ELSE [status |-> LedgerStatus(k), until |-> LedgerUntil(k)]
        BY <3>9 DEF Ledger!Worth
      <4> QED
        BY <3>3, <3>4, <3>5, <3>9
    <3>7. clock <= plan.expires
      BY <2>1, <2>3 DEF Plan
    <3>8. Ledger!Claim(plan.id)
      BY <2>1, <3>2, <3>6, <3>7 DEF Ledger!Claim
    <3> QED
      BY <2>1, <3>8 DEF Ledger!Next
  <2> QED
    BY <2>2, <2>3
<1>6. ASSUME FinishApply PROVE Voids
  <2>1. /\ phase = "writing" /\ plan \in previews /\ plan.id \in Ids /\ claims[plan.id] = 1
        /\ previews' = Without(previews, plan.id) /\ phase' = "idle"
        /\ issued' = issued /\ claims' = claims /\ clock' = clock
    BY <1>6 DEF FinishApply, PhaseInv
  <2>2. \A k \in Ids \ {plan.id} : k \in IdsOf(previews') <=> k \in IdsOf(previews)
    BY <2>1 DEF Without, IdsOf
  <2>3. \A k \in Ids : LedgerStatus(k)' = LedgerStatus(k)
    BY <2>1, <2>2 DEF LedgerStatus
  <2>4. previews' \subseteq previews
    BY <2>1 DEF Without
  <2> QED
    BY <2>1, <2>3, <2>4
<1>7. ASSUME Restart PROVE Voids
  <2>1. \A j \in Ids : \/ LedgerStatus(j)' = LedgerStatus(j)
                       \/ LedgerStatus(j) \in {"unissued", "live"} /\ LedgerStatus(j)' = "dead"
    <3>1. /\ phase' = "idle" /\ issued' = issued /\ claims' = claims /\ IdsOf(previews') = {}
      BY <1>7 DEF Restart, IdsOf
    <3> QED
      BY ONLY <1>0, <3>1 DEF LedgerStatus
  <2> QED
    BY <1>7, <2>1 DEF Restart
<1>8. ASSUME Tick \/ UNCHANGED tableVars
      PROVE  \A k \in Ids : LedgerStatus(k)' = LedgerStatus(k) /\ LedgerUntil(k)' = LedgerUntil(k)
  <2>1. previews' = previews
    BY <1>8 DEF Tick, tableVars
  <2>2. \A k \in Ids : LedgerStatus(k)' = LedgerStatus(k)
    BY <1>8 DEF Tick, tableVars, LedgerStatus, IdsOf
  <2> QED
    BY <2>1, <2>2, UntilKept
<1>9. CASE Tick
  <2>1. clock' > clock
    BY <1>9 DEF Tick
  <2>2. l' = l
    BY <1>8, <1>9
  <2> QED
    BY <2>1, <2>2 DEF Ledger!Next, Ledger!Elapse
<1>10. ASSUME UNCHANGED tableVars PROVE Voids
  <2>1. clock' = clock /\ previews' = previews
    BY <1>10 DEF tableVars
  <2> QED
    BY <1>8, <1>10, <2>1
<1>11. Voids => Ledger!Next
  BY VoidStep
<1> HIDE DEF Voids, l
<1> QED
  BY <1>1, <1>2, <1>3, <1>4, <1>5, <1>6, <1>7, <1>9, <1>10, <1>11 DEF TableNext

\* The table of edit.go, its clock and its evictions keep the promise of
\* TokenLedger: offered once and for previewTTL at most, claimed once and in time,
\* never more than maxPreviewPlans live.
THEOREM Refinement == TableSpec => ImplementsLedger
<1>1. TableIInv /\ TableIInv' /\ [TableNext]_tableVars => Ledger!Next
  BY LedgerStep
<1> QED
  BY <1>1, LedgerInit, TableInvariance, PTL DEF TableSpec, ImplementsLedger, Ledger!Spec

-----------------------------------------------------------------------------
(* Files and table together.                                               *)

\* The request the files know of is the one the table knows of: a request that
\* still plans has no plan, and a write is the write of the plan in hand.
LinkInv ==
  /\ pc[Server] # "idle" =>
       \/ phase = "idle" /\ job[Server].op # "apply"
       \/ phase = "writing" /\ job[Server].op = "apply" /\ pc[Server] \notin {"plan", "draft"}
  /\ pc[Server] = "draft" => job[Server].base \in Data /\ job[Server].out \in Contents
  /\ job[Server].op = "apply" =>
       /\ job[Server].t = plan.body.t
       /\ job[Server].base = plan.body.base
       /\ job[Server].out = plan.body.out

\* A rename is paid for by a claim, and the claim of a write that is not over
\* has paid for nothing yet.
PaidInv ==
  /\ replaced \in [Ids -> Nat]
  /\ \A k \in Ids : replaced[k] <= claims[k]
  /\ phase = "writing" /\ pc[Server] # "idle" => replaced[plan.id] = 0

IInv == FileIInv /\ TableIInv /\ LinkInv /\ PaidInv

-----------------------------------------------------------------------------
(* The steps of the components. *)

\* The server is one of the processes, and what a plan says is a possible write.
LEMMA ServerFacts ==
  /\ Server \in Procs /\ Server \notin Clis
  /\ phase # "idle" /\ TableIInv =>
       plan \in Plan /\ plan.id \in Ids /\ plan.body.t \in Targets
       /\ plan.body.base \in Data /\ plan.body.out \in Contents
BY EditServerAssumption, FileStoreAssumption, PreviewStoreAssumption
   DEF Procs, Plan, TableIInv, TableTypeOK

\* What a request in hand says of its file.
LEMMA BodyType ==
  ASSUME NEW t \in Targets, NEW base \in Data, NEW out \in Contents
  PROVE  [t |-> t, base |-> base, out |-> out] \in Bodies
BY EditServerAssumption

\* A step of the server moves the files as FileStore says, or not at all.
LEMMA FilesOfStep == ASSUME IInv, [Next]_vars PROVE [FileNext]_fileVars
<1> USE EditServerAssumption, ServerFacts
<1>1. ASSUME NEW t \in Targets, StartPreview(t) PROVE FileNext
  BY <1>1 DEF StartPreview, FileNext, Request
<1>2. ASSUME NEW t \in Targets, StartOther(t) PROVE FileNext
  BY <1>2 DEF StartOther, FileNext, Request
<1>3. ASSUME NEW k \in Ids, Draft(k) PROVE FileNext
  BY <1>3 DEF Draft, FileNext, Step
<1>4. CASE Claim
  <2>1. phase = "looked_up"
    BY <1>4 DEF Claim, RecheckExpiry
  <2>2. /\ plan.body.t \in Targets
        /\ plan.body.base \in Data /\ plan.body.out \in Contents
    BY <2>1 DEF IInv
  <2>3. CASE StartApply(Server, plan.body.t, plan.body.base, plan.body.out)
    BY <2>2, <2>3 DEF FileNext, Request
  <2> QED
    BY <1>4, <2>3 DEF Claim
<1>5. CASE ServerStep
  BY <1>5 DEF ServerStep, FileNext
<1>6. CASE NewSession
  BY <1>6 DEF NewSession, FileNext
<1>7. CASE Others
  BY <1>7 DEF Others, FileNext, Procs
<1>8. CASE Size \/ Forget \/ TimePasses \/ UNCHANGED vars \/ \E k \in Ids : LookUp(k)
  BY <1>8 DEF Size, Forget, TimePasses, LookUp, vars
<1> QED
  BY <1>1, <1>2, <1>3, <1>4, <1>5, <1>6, <1>7, <1>8 DEF Next

\* And the table as PreviewStore says, or not at all.
LEMMA TableOfStep == ASSUME IInv, [Next]_vars PROVE [TableNext]_tableVars
<1>1. ASSUME NEW k \in Ids, Draft(k) PROVE TableNext
  <2>1. pc[Server] = "draft" /\ job[Server].t \in Targets
        /\ job[Server].base \in Data /\ job[Server].out \in Contents
    BY <1>1, ServerFacts DEF Draft, FinishPreview, IInv, LinkInv, FileIInv, JobInv
  <2> QED
    BY <1>1, <2>1, BodyType DEF Draft, TableNext
<1>2. ASSUME NEW k \in Ids, LookUp(k) PROVE TableNext
  BY <1>2 DEF LookUp, TableNext
<1>3. CASE Size \/ Claim \/ Forget \/ NewSession \/ TimePasses
  BY <1>3 DEF Size, Claim, Forget, NewSession, TimePasses, TableNext
<1>4. CASE ServerStep \/ Others \/ UNCHANGED vars
           \/ \E t \in Targets : StartPreview(t) \/ StartOther(t)
  BY <1>4 DEF ServerStep, Others, StartPreview, StartOther, vars
<1> QED
  BY <1>1, <1>2, <1>3, <1>4 DEF Next

-----------------------------------------------------------------------------
(* The steps of the link. *)

\* What a step of another process leaves of the server's request.
LEMMA ServerKept ==
  ASSUME FileTypeOK, Others
  PROVE  pc'[Server] = pc[Server] /\ job'[Server] = job[Server]
<1> USE ServerFacts DEF FileTypeOK, Begin, End, Goto
<1>1. ASSUME NEW p \in Procs \ {Server}, NEW t \in Targets, Request(p, t)
      PROVE  pc'[Server] = pc[Server] /\ job'[Server] = job[Server]
  BY <1>1 DEF Request, StartApply, StartPlan, StartCreate, StartCliApply, StartRollback
<1>2. ASSUME NEW p \in Procs \ {Server}, Step(p)
      PROVE  pc'[Server] = pc[Server] /\ job'[Server] = job[Server]
  BY <1>2 DEF Step, PlanRead, FinishPreview, Resolve, CheckHash, OpenBackup, FillBackup,
              Install, ReadBackup, CreateOpen, CreateWrite, CreateUndo
<1>3. ASSUME NEW p \in Procs \ {Server}, Crash(p)
      PROVE  pc'[Server] = pc[Server] /\ job'[Server] = job[Server]
  BY <1>3 DEF Crash
<1>4. ASSUME NEW t \in Targets, Clean(t)
      PROVE  pc'[Server] = pc[Server] /\ job'[Server] = job[Server]
  BY <1>4 DEF Clean
<1>5. ASSUME NEW t \in Targets, NEW x \in Contents \union {Absent, Link}, Outside(t, x)
      PROVE  pc'[Server] = pc[Server] /\ job'[Server] = job[Server]
  BY <1>5 DEF Outside
<1> QED
  BY <1>1, <1>2, <1>3, <1>4, <1>5 DEF Others, Procs

\* A request of the server that starts now is the one it asks for.
LEMMA BeginFields ==
  ASSUME FileTypeOK, NEW place, NEW request, Begin(Server, place, request)
  PROVE  pc'[Server] = place /\ job'[Server] = request
BY ServerFacts DEF FileTypeOK, Begin

\* A request of the server that is over has no operation.
LEMMA EndFields ==
  ASSUME FileTypeOK, End(Server)
  PROVE  pc'[Server] = "idle" /\ job'[Server].op = "none"
BY ServerFacts DEF FileTypeOK, End, NoJob

\* What the server's own step does to its request: it ends it or goes on with it.
LEMMA OwnStep ==
  ASSUME FileIInv, Step(Server)
  PROVE  \/ pc'[Server] = "idle" /\ job'[Server].op = "none"
         \/ /\ pc[Server] # "idle" /\ pc'[Server] \notin {"idle", "plan"}
            /\ job'[Server].op = job[Server].op /\ job'[Server].t = job[Server].t
            /\ job[Server].op = "apply" /\ pc[Server] # "plan" =>
                 job'[Server].base = job[Server].base /\ job'[Server].out = job[Server].out
            /\ pc'[Server] = "draft" =>
                 /\ pc[Server] = "plan"
                 /\ job'[Server].base \in Data /\ job'[Server].out \in Contents
<1> USE ServerFacts DEF FileIInv, FileTypeOK
<1>1. CASE End(Server)
  BY <1>1, EndFields
<1>2. CASE PlanRead(Server) /\ ~End(Server)
  <2>1. PICK d \in Reads(job[Server].t), out \in Contents :
          /\ job' = [job EXCEPT ![Server] = [@ EXCEPT !.base = d, !.out = out]]
          /\ Goto(Server, IF job[Server].op = "edit" THEN "resolve" ELSE "draft")
    BY <1>2 DEF PlanRead
  <2>2. /\ pc[Server] = "plan" /\ job[Server] \in Job /\ job[Server].t \in Targets
        /\ job[Server].op # "apply" /\ d \in Data
    BY <1>2 DEF PlanRead, JobInv, Reads, Data
  <2>3. job'[Server] = [job[Server] EXCEPT !.base = d, !.out = out]
    BY <2>1
  <2>4. /\ job'[Server].op = job[Server].op /\ job'[Server].t = job[Server].t
        /\ job'[Server].base = d /\ job'[Server].out = out
    BY <2>2, <2>3 DEF Job
  <2>5. pc'[Server] \in {"resolve", "draft"}
    BY <2>1 DEF Goto
  <2> QED
    BY <2>2, <2>4, <2>5
<1>3. CASE CheckHash(Server) /\ ~End(Server)
  <2>1. /\ pc[Server] = "check" /\ job[Server] \in Job
        /\ job'[Server] = [job[Server] EXCEPT !.cur = job[Server].base]
        /\ pc'[Server] = "open" /\ job[Server].base \in Data
    BY <1>3 DEF CheckHash, Goto, JobInv
  <2> QED
    BY <2>1, CheckedFields
<1>4. CASE ReadBackup(Server) /\ ~End(Server)
  <2>1. PICK d \in {backup[job[Server].t]} \union {Torn} :
          /\ backup[job[Server].t] # Absent
          /\ job' = [job EXCEPT ![Server] = [@ EXCEPT !.out = d]]
          /\ Goto(Server, "install")
    BY <1>4 DEF ReadBackup
  <2>2. /\ pc[Server] = "rollback" /\ job[Server] \in Job /\ job[Server].op = "rollback"
        /\ d \in Data
    BY <1>4, <2>1 DEF ReadBackup, JobInv, Data
  <2>3. job'[Server] = [job[Server] EXCEPT !.out = d] /\ pc'[Server] = "install"
    BY <2>1 DEF Goto
  <2> QED
    BY <2>2, <2>3, LoadedFields
<1>5. CASE ~End(Server) /\ (Resolve(Server) \/ OpenBackup(Server) \/ FillBackup(Server)
                            \/ CreateOpen(Server) \/ CreateWrite(Server))
  BY <1>5 DEF Resolve, OpenBackup, FillBackup, CreateOpen, CreateWrite, Goto
<1> QED
  BY <1>1, <1>2, <1>3, <1>4, <1>5 DEF Step, FinishPreview, Install, CreateUndo

\* The initial state satisfies the invariant.
LEMMA InitIInv == Init => IInv
<1> SUFFICES ASSUME Init PROVE IInv
  OBVIOUS
<1>1. FileIInv /\ TableIInv
  BY FileInitIInv, TableInitIInv DEF Init
<1>2. LinkInv /\ PaidInv
  BY ServerFacts DEF Init, FileInit, TableInit, LinkInv, PaidInv, NoJob
<1> QED
  BY <1>1, <1>2 DEF IInv

\* A step that leaves the server's request and its plan alone.
LEMMA LinkKept ==
  ASSUME IInv, pc'[Server] = pc[Server], job'[Server] = job[Server], phase' = phase, plan' = plan
  PROVE  LinkInv'
BY DEF IInv, LinkInv

\* The two requests stay one.
LEMMA LinkStep == ASSUME IInv, [Next]_vars PROVE LinkInv'
<1> USE ServerFacts
<1>0. FileTypeOK /\ TableTypeOK /\ LinkInv
  BY DEF IInv, FileIInv, TableIInv
<1>1. ASSUME NEW t \in Targets, NEW op \in {"preview", "edit"}, Free, StartPlan(Server, t, op),
             UNCHANGED tableVars
      PROVE  LinkInv'
  <2>1. pc'[Server] = "plan" /\ job'[Server] = [NoJob EXCEPT !.op = op, !.t = t] /\ phase' = "idle"
    BY <1>0, <1>1, BeginFields DEF StartPlan, Free, tableVars
  <2> QED
    BY <2>1 DEF LinkInv, NoJob
<1>2. ASSUME NEW t \in Targets, StartOther(t) PROVE LinkInv'
  <2>1. ASSUME NEW out \in Contents, StartCreate(Server, t, out) PROVE LinkInv'
    <3>1. /\ pc'[Server] = "create" /\ phase' = "idle"
          /\ job'[Server] = [NoJob EXCEPT !.op = "create", !.t = t, !.out = out]
      BY <1>0, <1>2, <2>1, BeginFields DEF StartOther, StartCreate, Free, tableVars
    <3> QED
      BY <3>1 DEF LinkInv, NoJob
  <2>2. CASE StartRollback(Server, t)
    <3>1. /\ pc'[Server] = "rollback" /\ phase' = "idle"
          /\ job'[Server] = [NoJob EXCEPT !.op = "rollback", !.t = t]
      BY <1>0, <1>2, <2>2, BeginFields DEF StartOther, StartRollback, Free, tableVars
    <3> QED
      BY <3>1 DEF LinkInv, NoJob
  <2> QED
    BY <1>1, <1>2, <2>1, <2>2 DEF StartOther
<1>3. ASSUME NEW k \in Ids, Draft(k) PROVE LinkInv'
  <2>1. pc'[Server] = "idle" /\ job'[Server].op = "none"
    BY <1>0, <1>3, EndFields DEF Draft, FinishPreview
  <2> QED
    BY <2>1 DEF LinkInv
<1>4. ASSUME NEW k \in Ids, LookUp(k) PROVE LinkInv'
  <2>1. pc'[Server] = "idle" /\ job'[Server].op # "apply"
    <3>1. pc[Server] = "idle" /\ job' = job /\ pc' = pc
      BY <1>4 DEF LookUp, Free, fileVars
    <3>2. job[Server] = NoJob
      BY <1>0, <3>1 DEF FileTypeOK
    <3> QED
      BY <3>1, <3>2 DEF NoJob
  <2> QED
    BY <2>1 DEF LinkInv
<1>5. CASE Size \/ Forget
  <2>1. pc[Server] = "idle" /\ job' = job /\ pc' = pc
    BY <1>0, <1>5 DEF Size, RejectPreview, StorePreview, Forget, fileVars, LinkInv
  <2>2. job[Server] = NoJob
    BY <1>0, <2>1 DEF FileTypeOK
  <2> QED
    BY <2>1, <2>2 DEF LinkInv, NoJob
<1>6. CASE Claim
  <2>1. phase = "looked_up" /\ pc[Server] = "idle" /\ job[Server].op = "none"
    BY <1>0, <1>6 DEF Claim, RecheckExpiry, LinkInv, FileTypeOK, NoJob
  <2>2. CASE phase' = "writing" /\ StartApply(Server, plan.body.t, plan.body.base, plan.body.out)
    <3>1. plan' = plan
      BY <1>6, <2>2 DEF Claim, RecheckExpiry
    <3>2. /\ pc'[Server] = "resolve"
          /\ job'[Server] = [NoJob EXCEPT !.op = "apply", !.t = plan.body.t,
                                          !.base = plan.body.base, !.out = plan.body.out]
      BY <1>0, <2>2, BeginFields DEF StartApply
    <3> QED
      BY <2>2, <3>1, <3>2 DEF LinkInv, NoJob
  <2>3. CASE UNCHANGED fileVars
    BY <2>1, <2>3 DEF LinkInv, fileVars
  <2> QED
    BY <1>6, <2>2, <2>3 DEF Claim
<1>7. CASE ServerStep
  <2>1. Step(Server) /\ phase' = phase /\ plan' = plan
    BY <1>7 DEF ServerStep, tableVars
  <2>2. FileIInv
    BY DEF IInv
  <2> QED
    BY <1>0, <2>1, <2>2, OwnStep DEF LinkInv
<1>8. CASE NewSession
  <2>1. CASE Crash(Server)
    BY <1>0, <2>1, EndFields DEF LinkInv, Crash
  <2>2. CASE pc[Server] = "idle" /\ UNCHANGED fileVars
    BY <1>0, <2>2 DEF LinkInv, FileTypeOK, fileVars, NoJob
  <2> QED
    BY <1>8, <2>1, <2>2 DEF NewSession
<1>9. CASE Others
  BY <1>0, <1>9, ServerKept, LinkKept DEF Others, tableVars
<1>10. CASE TimePasses \/ UNCHANGED vars
  BY <1>10, LinkKept DEF TimePasses, Tick, vars, fileVars, tableVars
<1>11. ASSUME NEW t \in Targets, StartPreview(t) PROVE LinkInv'
  BY <1>1, <1>11 DEF StartPreview
<1> QED
  BY <1>2, <1>3, <1>4, <1>5, <1>6, <1>7, <1>8, <1>9, <1>10, <1>11 DEF Next

\* Nothing but a rename is booked.
LEMMA PaidKept ==
  ASSUME IInv, UNCHANGED <<claims, replaced>>,
         phase' = "writing" /\ pc'[Server] # "idle" =>
           phase = "writing" /\ pc[Server] # "idle" /\ plan' = plan
  PROVE  PaidInv'
BY DEF IInv, PaidInv

\* A claim is spent at its one rename.
LEMMA PaidStep == ASSUME IInv, [Next]_vars PROVE PaidInv'
<1> USE ServerFacts
<1>0. /\ FileTypeOK /\ LinkInv /\ PaidInv /\ claims \in [Ids -> Nat]
      /\ phase = "looked_up" => claims[plan.id] = 0
      /\ phase = "writing" => claims[plan.id] = 1
  BY DEF IInv, FileIInv, TableIInv, TableTypeOK, PhaseInv
<1>1. ASSUME NEW t \in Targets, StartPreview(t) \/ StartOther(t) PROVE PaidInv'
  <2>1. phase' = "idle" /\ UNCHANGED <<claims, replaced>>
    BY <1>1 DEF StartPreview, StartOther, Free, tableVars
  <2> QED
    BY <2>1, PaidKept
<1>2. ASSUME NEW k \in Ids, Draft(k) PROVE PaidInv'
  BY <1>2, PaidKept DEF Draft, DraftPreview
<1>3. ASSUME NEW k \in Ids, LookUp(k) PROVE PaidInv'
  <2>1. phase' # "writing" /\ UNCHANGED <<claims, replaced>>
    BY <1>3 DEF LookUp, Free, BeginApply
  <2> QED
    BY <2>1, PaidKept
<1>4. CASE Size \/ Forget \/ NewSession
  <2>1. phase' = "idle" /\ UNCHANGED <<claims, replaced>>
    BY <1>4 DEF Size, RejectPreview, StorePreview, Forget, FinishApply, NewSession, Restart
  <2> QED
    BY <2>1, PaidKept
<1>5. CASE Claim
  <2>1. phase = "looked_up" /\ plan.id \in Ids /\ replaced' = replaced
    BY <1>5 DEF Claim, RecheckExpiry, IInv
  <2>2. CASE clock > plan.expires
    BY <1>5, <2>2, PaidKept DEF Claim, RecheckExpiry
  <2>3. CASE ~(clock > plan.expires)
    <3>1. /\ claims' = [claims EXCEPT ![plan.id] = 1] /\ plan' = plan
          /\ claims[plan.id] = 0
      BY <1>0, <1>5, <2>1, <2>3 DEF Claim, RecheckExpiry
    <3>2. replaced[plan.id] = 0
      BY <1>0, <2>1, <3>1 DEF PaidInv
    <3> QED
      BY <1>0, <2>1, <3>1, <3>2 DEF PaidInv
  <2> QED
    BY <2>2, <2>3
<1>6. CASE ServerStep
  <2>1. UNCHANGED <<claims, phase, plan>> /\ Step(Server)
    BY <1>6 DEF ServerStep, tableVars
  <2>2. pc[Server] # "idle"
    BY <2>1 DEF Step, PlanRead, FinishPreview, Resolve, CheckHash, OpenBackup, FillBackup,
                Install, ReadBackup, CreateOpen, CreateWrite, CreateUndo
  <2>3. CASE phase = "writing" /\ pc[Server] = "install" /\ replaced' # replaced
    <3>1. replaced' = [replaced EXCEPT ![plan.id] = @ + 1] /\ plan.id \in Ids
      BY <1>6, <2>3 DEF ServerStep, IInv
    <3>2. replaced[plan.id] = 0 /\ claims[plan.id] = 1
      BY <1>0, <2>2, <2>3 DEF PaidInv
    <3>3. pc'[Server] = "idle"
      <4>1. Install(Server)
        BY <2>1, <2>3 DEF Step, PlanRead, FinishPreview, Resolve, CheckHash, OpenBackup,
                          FillBackup, ReadBackup, CreateOpen, CreateWrite, CreateUndo
      <4> QED
        BY <1>0, <4>1, EndFields DEF Install
    <3> QED
      BY <1>0, <2>1, <3>1, <3>2, <3>3 DEF PaidInv
  <2>4. CASE replaced' = replaced
    BY <2>1, <2>2, <2>4, PaidKept
  <2> QED
    BY <1>6, <2>3, <2>4 DEF ServerStep
<1>7. CASE Others
  BY <1>0, <1>7, ServerKept, PaidKept DEF Others, tableVars
<1>8. CASE TimePasses \/ UNCHANGED vars
  BY <1>8, PaidKept DEF TimePasses, Tick, vars, fileVars, tableVars
<1> QED
  BY <1>1, <1>2, <1>3, <1>4, <1>5, <1>6, <1>7, <1>8 DEF Next

\* Every step of everybody preserves the invariant.
LEMMA StepIInv == IInv /\ [Next]_vars => IInv'
<1> SUFFICES ASSUME IInv, [Next]_vars PROVE IInv'
  OBVIOUS
<1>1. FileIInv'
  BY FilesOfStep, FileStepIInv DEF IInv
<1>2. TableIInv'
  BY TableOfStep, TableStepIInv DEF IInv
<1> QED
  BY <1>1, <1>2, LinkStep, PaidStep DEF IInv

\* IInv holds throughout.
LEMMA Invariance == Spec => []IInv
BY InitIInv, StepIInv, PTL DEF Spec

-----------------------------------------------------------------------------
(* The theorems. *)

\* Every behaviour of the server is a behaviour of its files and one of its
\* table, so what is proved of FileStore and of PreviewStore holds of it.
THEOREM Composition == Spec => ComponentsRespected
<1>1. Init => FileInit /\ TableInit
  BY DEF Init
<1>2. IInv /\ [Next]_vars => [FileNext]_fileVars /\ [TableNext]_tableVars
  BY FilesOfStep, TableOfStep
<1> QED
  BY <1>1, <1>2, Invariance, PTL DEF Spec, ComponentsRespected, FileSpec, TableSpec

\* The types, and that the two halves of the server speak of one request.
THEOREM TypeCorrect == Spec => []TypeOK
<1>1. ASSUME IInv PROVE TypeOK
  <2>1. FileTypeOK /\ TableTypeOK /\ LinkInv /\ PaidInv
    BY <1>1 DEF IInv, FileIInv, TableIInv
  <2>2. job[Server].op = "apply" => pc[Server] # "idle"
    BY <2>1, ServerFacts DEF FileTypeOK, NoJob
  <2> QED
    BY <2>1, <2>2 DEF LinkInv, PaidInv, TypeOK
<1> QED
  BY <1>1, Invariance, PTL

\* edit.go:204-232: an id pays for at most one rename.
THEOREM AppliedOnce == Spec => []AppliedAtMostOnce
<1>1. IInv => AppliedAtMostOnce
  <2> SUFFICES ASSUME IInv, NEW k \in Ids PROVE replaced[k] <= 1
    BY DEF AppliedAtMostOnce
  <2>1. replaced[k] \in Nat /\ replaced[k] <= claims[k] /\ claims[k] \in {0, 1}
    BY DEF IInv, PaidInv, TableIInv, ClaimInv
  <2> QED
    BY <2>1
<1> QED
  BY <1>1, Invariance, PTL

\* edit.go:219-275: the rename of an apply installs the bytes of a plan that is
\* in the table, was accepted, and is claimed once, over the bytes it was
\* previewed on unless somebody disturbed them.
THEOREM ReviewedBytes == Spec => ReviewedBytesOnly
<1> DEFINE Renaming == pc[Server] = "install" /\ job[Server].op = "apply" /\ pc'[Server] = "idle"
           Good == /\ plan \in previews /\ plan \in stored /\ claims[plan.id] = 1
                   /\ plan.body.t = job[Server].t
                   /\ fs' # fs => /\ fs'[plan.body.t] = plan.body.out
                                  /\ Server \notin disturbed => fs[plan.body.t] = plan.body.base
<1>1. IInv /\ [Next]_vars => [Renaming => Good]_vars
  <2> SUFFICES ASSUME IInv, Next, Renaming PROVE Good
    OBVIOUS
  <2> USE ServerFacts
  <2>1. /\ phase = "writing" /\ plan \in previews /\ plan \in stored /\ claims[plan.id] = 1
        /\ plan.body.t = job[Server].t /\ plan.body.base = job[Server].base
        /\ plan.body.out = job[Server].out /\ plan.body.t \in Targets
    BY DEF IInv, LinkInv, TableIInv, PhaseInv, TableHoldsOffersOnly
  <2>2. Server \notin disturbed => fs[job[Server].t] = job[Server].base
    BY DEF IInv, FileIInv, QuietInv, JobInv, Unchanged, Backed, Planned
  <2>3. FileTypeOK
    BY DEF IInv, FileIInv
  <2>4. CASE ServerStep
    <3>1. Install(Server)
      BY <2>4 DEF ServerStep, Step, PlanRead, FinishPreview, Resolve, CheckHash, OpenBackup,
                  FillBackup, ReadBackup, CreateOpen, CreateWrite, CreateUndo
    <3>2. fs' # fs => fs'[job[Server].t] = job[Server].out
      BY <2>1, <2>3, <3>1 DEF Install, FileTypeOK
    <3> QED
      BY <2>1, <2>2, <3>2
  <2>5. CASE NewSession
    <3>1. fs' = fs
      BY <2>5 DEF NewSession, Crash, fileVars
    <3> QED
      BY <2>1, <3>1
  <2>6. ASSUME ~ServerStep, ~NewSession PROVE FALSE
    <3>1. ~Others
      BY <2>3, ServerKept
    <3>2. \A t \in Targets : ~StartPreview(t) /\ ~StartOther(t)
      BY DEF StartPreview, StartOther, Free
    <3>3. \A k \in Ids : ~Draft(k) /\ ~LookUp(k)
      BY DEF Draft, FinishPreview, LookUp, Free
    <3>4. ~Size /\ ~Forget /\ ~TimePasses
      BY DEF Size, Forget, TimePasses, fileVars
    <3>5. ~Claim
      BY <2>1 DEF Claim, RecheckExpiry
    <3> QED
      BY <2>6, <3>1, <3>2, <3>3, <3>4, <3>5 DEF Next
  <2> QED
    BY <2>4, <2>5, <2>6
<1> QED
  BY <1>1, Invariance, PTL DEF Spec, ReviewedBytesOnly
===============================================================================
