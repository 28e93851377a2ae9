--------------------------- MODULE GatedPromotion ---------------------------
(***************************************************************************)
(* What the organisation promises of a change, whatever queue, workers and *)
(* stage processes carry it: humans pass the three gates in order, nobody  *)
(* decides on a run that was refused or cancelled, and only a change that  *)
(* passed all three gates, and was refused at none, is merged.             *)
(*                                                                         *)
(* A merge may land after a cancellation: cancelling kills no process, so  *)
(* a promote stage already started goes on.                                *)
(***************************************************************************)
EXTENDS Naturals

CONSTANT RunIds

VARIABLES
  approved,    \* the gates humans approved, by run
  refused,     \* runs a human refused
  merged,      \* runs whose change was merged
  cancelled    \* runs whose cancellation was confirmed

promotion == <<approved, refused, merged, cancelled>>

GateOrder == <<"gate1", "gate2", "gate3">>

GatesBefore(i) == {GateOrder[k] : k \in 1..(i - 1)}

\* A human may decide on gate i of r: it is the one r has come to.
AtGate(r, i) ==
  /\ r \notin refused \union cancelled
  /\ approved[r] = GatesBefore(i)

Approve(r, i) ==
  /\ AtGate(r, i)
  /\ approved' = [approved EXCEPT ![r] = @ \union {GateOrder[i]}]
  /\ UNCHANGED <<refused, merged, cancelled>>

Refuse(r, i) ==
  /\ AtGate(r, i)
  /\ refused' = refused \union {r}
  /\ UNCHANGED <<approved, merged, cancelled>>

Merge(r) ==
  /\ r \notin refused
  /\ approved[r] = GatesBefore(4)
  /\ merged' = merged \union {r}
  /\ UNCHANGED <<approved, refused, cancelled>>

Cancel(r) ==
  /\ cancelled' = cancelled \union {r}
  /\ UNCHANGED <<approved, refused, merged>>

PromotionInit ==
  /\ approved = [r \in RunIds |-> {}]
  /\ refused = {}
  /\ merged = {}
  /\ cancelled = {}

PromotionNext ==
  \E r \in RunIds :
    \/ \E i \in 1..3 : Approve(r, i) \/ Refuse(r, i)
    \/ Merge(r)
    \/ Cancel(r)

PromotionSpec == PromotionInit /\ [][PromotionNext]_promotion
=============================================================================
