----------------------------- MODULE EditServer -----------------------------
(***************************************************************************)
(* One MCP server at work: its requests move the preview table of          *)
(* PreviewStore and the files of FileStore together.  The serve loop of    *)
(* mcp.go takes the next request when the last is over; the clock, the     *)
(* other processes and the outside world move between any two steps.       *)
(***************************************************************************)
EXTENDS FileStore, PreviewStore

CONSTANT Server   \* the process whose table is modelled

\* A plan says of its file what planEdits found out about it.
ASSUME EditServerAssumption ==
  /\ Server \in Servers
  /\ Bodies = [t : Targets, base : Data, out : Contents]

VARIABLE replaced \* history: the renames over a target that each id has paid for

vars == <<fileVars, tableVars, replaced>>

\* The serve loop is between two requests.
Free == pc[Server] = "idle" /\ phase = "idle"

Init ==
  /\ FileInit
  /\ TableInit
  /\ replaced = [k \in Ids |-> 0]

-----------------------------------------------------------------------------
(* clipfit_preview: plan as FileStore does, then draft, size and store. *)

\* Bound: a preview is planned only while an id is left to draw.
StartPreview(t) ==
  /\ Free
  /\ issued # Ids
  /\ StartPlan(Server, t, "preview")
  /\ UNCHANGED <<tableVars, replaced>>

Draft(k) ==
  /\ LET j == job[Server]
     IN DraftPreview(k, [t |-> j.t, base |-> j.base, out |-> j.out])
  /\ FinishPreview(Server)
  /\ UNCHANGED replaced

Size ==
  /\ RejectPreview \/ StorePreview
  /\ UNCHANGED <<fileVars, replaced>>

-----------------------------------------------------------------------------
(* clipfit_apply: look the id up, write what its plan says, forget it. *)

LookUp(k) ==
  /\ Free
  /\ BeginApply(k)
  /\ UNCHANGED <<fileVars, replaced>>

\* The second look at the clock decides whether writePlannedEdit is called.
Claim ==
  /\ RecheckExpiry
  /\ \/ /\ phase' = "writing"
        /\ StartApply(Server, plan.body.t, plan.body.base, plan.body.out)
     \/ /\ phase' # "writing"
        /\ UNCHANGED fileVars
  /\ UNCHANGED replaced

\* Mutant of Forget: the plan stays in the table until it expires.
ForgetNothing ==
  /\ pc[Server] = "idle"
  /\ phase = "writing"
  /\ phase' = "idle"
  /\ plan' = NoPlan
  /\ UNCHANGED <<clock, previews, issued, claims, stored, fileVars, replaced>>

\* Mutant of Forget: the plan is deleted before the write returns.
ForgetEarly ==
  /\ FinishApply
  /\ UNCHANGED <<fileVars, replaced>>

\* writePlannedEdit has returned: both branches of commitPreview delete the plan.
Forget ==
  /\ pc[Server] = "idle"
  /\ FinishApply
  /\ UNCHANGED <<fileVars, replaced>>

-----------------------------------------------------------------------------
(* The steps of a write, and the requests that use no token. *)

\* A rename for an apply is booked on its id.
ServerStep ==
  /\ Step(Server)
  /\ pc[Server] # "draft"
  /\ replaced' = IF phase = "writing" /\ pc[Server] = "install" /\ fs'[job[Server].t] = job[Server].out
                 THEN [replaced EXCEPT ![plan.id] = @ + 1] ELSE replaced
  /\ UNCHANGED tableVars

StartOther(t) ==
  /\ Free
  /\ \/ StartPlan(Server, t, "edit")
     \/ \E out \in Contents : StartCreate(Server, t, out)
     \/ StartRollback(Server, t)
  /\ UNCHANGED <<tableVars, replaced>>

\* The process dies in a request, or ends between two; its table is lost.
NewSession ==
  /\ Restart
  /\ \/ Crash(Server)
     \/ pc[Server] = "idle" /\ UNCHANGED fileVars
  /\ UNCHANGED replaced

\* Everybody else.
Others ==
  /\ \/ \E p \in Servers \union Clis : p # Server /\
          \/ \E t \in Targets : Request(p, t)
          \/ Step(p)
          \/ Crash(p)
     \/ \E t \in Targets : Clean(t)
     \/ \E t \in Targets, x \in Contents \union {Absent, Link} : Outside(t, x)
  /\ UNCHANGED <<tableVars, replaced>>

TimePasses ==
  /\ Tick
  /\ UNCHANGED <<fileVars, replaced>>

Next ==
  \/ \E t \in Targets : StartPreview(t) \/ StartOther(t)
  \/ \E k \in Ids : Draft(k) \/ LookUp(k)
  \/ Size
  \/ Claim
  \/ Forget
  \/ ServerStep
  \/ NewSession
  \/ Others
  \/ TimePasses

Spec == Init /\ [][Next]_vars

-----------------------------------------------------------------------------
\* The two components keep their types; the request the table knows of is the
\* one the files know of.
TypeOK ==
  /\ FileTypeOK
  /\ TableTypeOK
  /\ replaced \in [Ids -> Nat]
  /\ job[Server].op = "apply" => phase = "writing"
  /\ phase \in {"sizing", "looked_up"} => pc[Server] = "idle"

\* README "single-use preview_id": no id ever pays for two renames, across failed
\* writes, expiry, crashes in the middle of a write, and restarts.
AppliedAtMostOnce == \A k \in Ids : replaced[k] <= 1

\* README "apply ... exactly the reviewed preview": when the rename of an apply
\* happens, its plan is still the one in the table, the bytes installed are that
\* plan's, and an undisturbed file held the bytes the plan was previewed on.
ReviewedBytesOnly ==
  [][(pc[Server] = "install" /\ job[Server].op = "apply" /\ pc'[Server] = "idle") =>
       /\ plan \in previews /\ plan \in stored /\ claims[plan.id] = 1
       /\ plan.body.t = job[Server].t
       /\ fs' # fs => /\ fs'[plan.body.t] = plan.body.out
                      /\ Server \notin disturbed => fs[plan.body.t] = plan.body.base]_vars

\* Every behaviour of the server is one of the files and one of the table, so
\* what is proved of FileStore and PreviewStore holds of the server.
ComponentsRespected == FileSpec /\ TableSpec
=============================================================================
