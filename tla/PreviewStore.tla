---------------------------- MODULE PreviewStore ----------------------------
(***************************************************************************)
(* The in-memory table of preview plans of one MCP server (edit.go), its   *)
(* clock, and the two requests that use it: clipfit_preview, which drafts  *)
(* a plan, sizes the response and stores it, and clipfit_apply, which      *)
(* prunes, looks the id up, reads the clock a second time, writes and      *)
(* forgets the id.  The server runs one request at a time, but time passes *)
(* between any two of its clock reads and a process may die anywhere.      *)
(***************************************************************************)
EXTENDS Integers, FiniteSets

CONSTANTS
  Ids,              \* the ids newPreviewID can draw; 128 random bits, so no id is drawn twice
  Bodies,           \* what a plan says about the file (target, before hash, bytes to write)
  NoPlan,           \* no request holds a plan
  MaxPreviewPlans,  \* maxPreviewPlans
  PreviewTTL,       \* previewTTL
  MaxClock          \* bound on the clock

VARIABLES
  clock,     \* time.Now()
  previews,  \* server.previews: a set of plans, no two with one id
  phase,     \* where the request in progress stands
  plan,      \* the plan that request holds
  issued,    \* every id drawn so far, by this server process or an earlier one
  claims,    \* history: how often each id reached the write path
  stored     \* history: the plans storePreview put in the table in this session

tableVars == <<clock, previews, phase, plan, issued, claims, stored>>

Plan == [id : Ids, body : Bodies, expires : Nat]

ASSUME PreviewStoreAssumption ==
  /\ MaxPreviewPlans \in Nat \ {0}
  /\ PreviewTTL \in Nat
  /\ MaxClock \in Nat
  /\ NoPlan \notin Plan

Phases == {"idle", "sizing", "looked_up", "writing"}

IdsOf(plans) == {p.id : p \in plans}

\* prunePreviews keeps a plan up to and including the instant it expires.
Prune(plans, now) == {p \in plans : ~(now > p.expires)}

\* Mutant of Oldest: the eviction takes whichever plan the map yields.
OldestAny(plans) == plans

\* The plans storePreview may pick to evict.  Its loop follows Go's random
\* map order, so among plans with one expiry time any may be the first.
Oldest(plans) == {p \in plans : \A q \in plans : p.expires <= q.expires}

\* Mutant of WithRoom: one plan too many is tolerated.
WithRoomOffByOne(plans) ==
  IF Cardinality(plans) > MaxPreviewPlans THEN {plans \ {p} : p \in Oldest(plans)}
                                          ELSE {plans}

\* The tables storePreview may be left with once it has made room.
WithRoom(plans) ==
  IF Cardinality(plans) >= MaxPreviewPlans THEN {plans \ {p} : p \in Oldest(plans)}
                                           ELSE {plans}

Without(plans, k) == {p \in plans : p.id # k}

TableInit ==
  /\ clock = 0
  /\ previews = {}
  /\ phase = "idle"
  /\ plan = NoPlan
  /\ issued = {}
  /\ claims = [k \in Ids |-> 0]
  /\ stored = {}

-----------------------------------------------------------------------------
(* clipfit_preview.  A request that planEdits refuses changes nothing here. *)

\* Mutant of DraftPreview: ids repeat, as a per-session counter would.
DraftPreviewReusing(k, b) ==
  /\ phase = "idle"
  /\ k \notin IdsOf(previews)
  /\ issued' = issued \union {k}
  /\ plan' = [id |-> k, body |-> b, expires |-> clock + PreviewTTL]
  /\ phase' = "sizing"
  /\ UNCHANGED <<clock, previews, claims, stored>>

\* The edits are planned, an id is drawn and the expiry time is read off the clock.
DraftPreview(k, b) ==
  /\ phase = "idle"
  /\ k \notin issued
  /\ issued' = issued \union {k}
  /\ plan' = [id |-> k, body |-> b, expires |-> clock + PreviewTTL]
  /\ phase' = "sizing"
  /\ UNCHANGED <<clock, previews, claims, stored>>

\* Mutant of RejectPreview: the plan is stored before its response is sized.
RejectPreviewLate ==
  /\ phase = "sizing"
  /\ phase' = "idle"
  /\ plan' = NoPlan
  /\ \E kept \in WithRoom(Prune(previews, clock)) : previews' = kept \union {plan}
  /\ UNCHANGED <<clock, issued, claims, stored>>

\* Mutant of RejectPreview: the early return leaves the draft behind.
RejectPreviewLeaky ==
  /\ phase = "sizing"
  /\ phase' = "idle"
  /\ UNCHANGED <<clock, previews, plan, issued, claims, stored>>

\* The encoded response would exceed maxMCPResponseBytes: the draft is dropped.
RejectPreview ==
  /\ phase = "sizing"
  /\ phase' = "idle"
  /\ plan' = NoPlan
  /\ UNCHANGED <<clock, previews, issued, claims, stored>>

\* storePreview: prune, evict the oldest plan if the table is still full, insert.
StorePreview ==
  /\ phase = "sizing"
  /\ \E kept \in WithRoom(Prune(previews, clock)) : previews' = kept \union {plan}
  /\ stored' = stored \union {plan}
  /\ phase' = "idle"
  /\ plan' = NoPlan
  /\ UNCHANGED <<clock, issued, claims>>

-----------------------------------------------------------------------------
(* clipfit_apply.  The id is whatever the client sends. *)

\* Prune, then look the id up; an unknown id ends the request.
BeginApply(k) ==
  /\ phase = "idle"
  /\ previews' = Prune(previews, clock)
  /\ \/ \E p \in previews' : p.id = k /\ plan' = p /\ phase' = "looked_up"
     \/ k \notin IdsOf(previews') /\ UNCHANGED <<plan, phase>>
  /\ UNCHANGED <<clock, issued, claims, stored>>

\* Mutant of RecheckExpiry: the prune a moment ago is thought to be enough.
RecheckExpirySkipped ==
  /\ phase = "looked_up"
  /\ phase' = "writing"
  /\ claims' = [claims EXCEPT ![plan.id] = @ + 1]
  /\ UNCHANGED <<clock, previews, plan, issued, stored>>

\* The clock is read again; a plan that expired since the prune is deleted,
\* otherwise the request goes on to the write path.
RecheckExpiry ==
  /\ phase = "looked_up"
  /\ \/ /\ clock > plan.expires
        /\ previews' = Without(previews, plan.id)
        /\ phase' = "idle"
        /\ plan' = NoPlan
        /\ UNCHANGED claims
     \/ /\ ~(clock > plan.expires)
        /\ phase' = "writing"
        /\ claims' = [claims EXCEPT ![plan.id] = @ + 1]
        /\ UNCHANGED <<previews, plan>>
  /\ UNCHANGED <<clock, issued, stored>>

\* Mutant of FinishApply: a failed write leaves the id for a retry.
FinishApplyRetryable ==
  /\ phase = "writing"
  /\ previews' \in {previews, Without(previews, plan.id)}
  /\ phase' = "idle"
  /\ plan' = NoPlan
  /\ UNCHANGED <<clock, issued, claims, stored>>

\* writePlannedEdit returned, with or without an error: the id is spent.
FinishApply ==
  /\ phase = "writing"
  /\ previews' = Without(previews, plan.id)
  /\ phase' = "idle"
  /\ plan' = NoPlan
  /\ UNCHANGED <<clock, issued, claims, stored>>

-----------------------------------------------------------------------------
\* The process ends (crash, EOF, write timeout) and a new one starts with no plans.
Restart ==
  /\ previews' = {}
  /\ phase' = "idle"
  /\ plan' = NoPlan
  /\ stored' = {}
  /\ UNCHANGED <<clock, issued, claims>>

Tick ==
  /\ clock < MaxClock
  /\ clock' = clock + 1
  /\ UNCHANGED <<previews, phase, plan, issued, claims, stored>>

TableNext ==
  \/ \E k \in Ids, b \in Bodies : DraftPreview(k, b)
  \/ RejectPreview
  \/ StorePreview
  \/ \E k \in Ids : BeginApply(k)
  \/ RecheckExpiry
  \/ FinishApply
  \/ Restart
  \/ Tick

TableSpec == TableInit /\ [][TableNext]_tableVars

-----------------------------------------------------------------------------
TableTypeOK ==
  /\ clock \in Nat
  /\ previews \in SUBSET Plan
  /\ phase \in Phases
  /\ plan \in Plan \union {NoPlan}
  /\ (phase = "idle") <=> (plan = NoPlan)
  /\ issued \in SUBSET Ids
  /\ claims \in [Ids -> Nat]
  /\ stored \in SUBSET Plan

\* maxPreviewPlans bounds the plans, each holding a whole file, that a server
\* keeps, whatever mix of stores, expiries and applies led here.
CapacityBound == Cardinality(previews) <= MaxPreviewPlans

\* README "short-lived, single-use preview_id": an id reaches the write path
\* at most once, across failed writes, expiries, evictions and restarts.
SingleUse == \A k \in Ids : claims[k] <= 1

\* storePreview evicts the oldest only: a plan stored in this session that has
\* neither expired nor been used is missing from the table only if at least
\* MaxPreviewPlans plans that expire no earlier were stored beside it.
FreshPlansSurvive ==
  \A p \in stored :
    (clock <= p.expires /\ claims[p.id] = 0 /\ p \notin previews)
      => Cardinality({q \in stored \ {p} : q.expires >= p.expires}) >= MaxPreviewPlans

\* An id that was drawn for a preview the server then refused, or that was spent
\* or lost, names no plan: the table holds at most one plan per id and only
\* plans that were stored in this session.
TableHoldsOffersOnly ==
  /\ previews \subseteq stored
  /\ \A p, q \in stored : p.id = q.id => p = q

-----------------------------------------------------------------------------
\* The refinement: an id is live from the moment it is stored, until its plan expires.
LedgerStatus(k) ==
  IF claims[k] > 0 THEN "claimed"
  ELSE IF k \in IdsOf(previews) THEN "live"
  ELSE IF k \notin issued \/ (phase = "sizing" /\ plan.id = k) THEN "unissued"
  ELSE "dead"

LedgerUntil(k) ==
  IF LedgerStatus(k) = "live" THEN (CHOOSE p \in previews : p.id = k).expires ELSE 0

Ledger == INSTANCE TokenLedger WITH
            Capacity <- MaxPreviewPlans,
            Lifetime <- PreviewTTL,
            ledger <- [k \in Ids |-> [status |-> LedgerStatus(k), until |-> LedgerUntil(k)]],
            now <- clock

\* README "short-lived, single-use preview_id": the table of edit.go, pruned at
\* other moments than the id is spent at, keeps the promise of TokenLedger.  A
\* write is begun only on an id that was offered, at most previewTTL before, that
\* is still on offer and that nothing was written on before.
ImplementsLedger == Ledger!Spec
=============================================================================
