---------------------------- MODULE TokenLedger ----------------------------
(***************************************************************************)
(* What the preview tokens of the MCP server promise to a client, with no  *)
(* table and no eviction rule: an id is offered at most once and for at    *)
(* most Lifetime, may be withdrawn at any time, and is claimed for a write *)
(* at most once and never after its time.  At no time are more than        *)
(* Capacity ids on offer.  PreviewStore shows that the table of edit.go    *)
(* keeps this promise.                                                     *)
(***************************************************************************)
EXTENDS Integers, FiniteSets

CONSTANTS Ids,       \* the preview ids that newPreviewID can return
          Capacity,  \* the most ids that may be on offer together
          Lifetime   \* the longest an id is on offer

VARIABLES ledger,    \* what each id is worth to a client, and until when
          now        \* the time

Status == {"unissued", "live", "claimed", "dead"}

Live == {k \in Ids : ledger[k].status = "live"}

\* An id that is not on offer has no time limit.
Worth(status) == [status |-> status, until |-> 0]

TypeOK ==
  /\ ledger \in [Ids -> [status : Status, until : Nat]]
  /\ now \in Nat

Init == ledger = [k \in Ids |-> Worth("unissued")] /\ now = 0

\* A new id is offered; to make room some of the live ones may be withdrawn.
Issue(k) ==
  /\ ledger[k].status = "unissued"
  /\ \E gone \in SUBSET Live, until \in 0..now + Lifetime :
       /\ Cardinality(Live \ gone) < Capacity
       /\ ledger' = [j \in Ids |-> IF j = k THEN [status |-> "live", until |-> until]
                                   ELSE IF j \in gone THEN Worth("dead") ELSE ledger[j]]
  /\ UNCHANGED now

\* A live id is redeemed in time: the one transition after which a file may be
\* written.
Claim(k) ==
  /\ ledger[k].status = "live"
  /\ now <= ledger[k].until
  /\ ledger' = [ledger EXCEPT ![k] = Worth("claimed")]
  /\ UNCHANGED now

\* Expiry, a lost session, or a preview that was refused before it was offered.
Void(gone) ==
  /\ \A k \in gone : ledger[k].status \in {"unissued", "live"}
  /\ ledger' = [k \in Ids |-> IF k \in gone THEN Worth("dead") ELSE ledger[k]]
  /\ UNCHANGED now

Elapse == now' > now /\ UNCHANGED ledger

Next ==
  \/ \E k \in Ids : Issue(k) \/ Claim(k)
  \/ \E gone \in SUBSET Ids : Void(gone)
  \/ Elapse

Spec == Init /\ [][Next]_<<ledger, now>>
=============================================================================
