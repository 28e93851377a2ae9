------------------------------ MODULE RunState ------------------------------
(***************************************************************************)
(* The document a run is kept in (agentorg/state.py, RunState), reduced to *)
(* the fields decisions are taken on, and the pure functions over it:      *)
(* what each stage writes, what proves a stage ran, what may be promoted,  *)
(* and what a stage's exit code means to the queue.                        *)
(***************************************************************************)
EXTENDS Naturals, FiniteSets

REQUIRED_GATES == {"gate1", "gate2", "gate3"}

\* The screen and the worker record the first two; "overridden" comes from the
\* shell alone (gates_cli).
Decisions ==
  [gate : REQUIRED_GATES, decision : {"approved", "rejected", "overridden"}]

APPROVING == {"approved", "overridden"}

\* decisions is a list in the code; it is only ever read by membership.
Doc ==
  [status : {"absent", "running", "blocked", "rejected", "failed", "promoted"},
   plan : BOOLEAN, security : {"none", "pass", "block"},
   sre : {"none", "go", "no_go"}, decisions : SUBSET Decisions]

\* No document was ever saved under this run id.
Absent ==
  [status |-> "absent", plan |-> FALSE, security |-> "none", sre |-> "none",
   decisions |-> {}]

ENDINGS == {"blocked", "rejected", "failed", "promoted"}

-----------------------------------------------------------------------------
(* What the stages write. *)

Planned == [Absent EXCEPT !.status = "running", !.plan = TRUE]

\* gates.resume: append the decision; a refusal also ends the run.
Resumed(doc, g, decision) ==
  [doc EXCEPT !.decisions = @ \union {[gate |-> g, decision |-> decision]},
              !.status = IF decision = "rejected" THEN "rejected" ELSE @]

\* develop reviewed and scanned: the block rule, then the revision cap spent
\* without an approving review, then the way to gate2.
DevelopOutcomes == {"blocked", "unapproved", "cleared"}

Developed(doc, outcome) ==
  [doc EXCEPT !.security = IF outcome = "blocked" THEN "block" ELSE "pass",
              !.status = CASE outcome = "blocked" -> "blocked"
                           [] outcome = "unapproved" -> "failed"
                           [] outcome = "cleared" -> @]

Checked(doc, verdict) ==
  [doc EXCEPT !.sre = verdict,
              !.status = IF verdict = "no_go" THEN "failed" ELSE @]

-----------------------------------------------------------------------------
(* What is read off it. *)

ApprovedGates(doc) ==
  {d.gate : d \in {e \in doc.decisions : e.decision \in APPROVING}}

not_promotable(doc) ==
  \/ doc.status \in ENDINGS
  \/ doc.security # "pass"
  \/ doc.sre # "go"
  \/ \E d \in doc.decisions : d.decision = "rejected"
  \/ \E g \in REQUIRED_GATES : g \notin ApprovedGates(doc)

\* The merge's own statement of the same rule, kept by github_ops beside the
\* call it guards, and written separately.
merge_refusal(doc) ==
  \/ doc.security # "pass"
  \/ doc.sre # "go"
  \/ \E d \in doc.decisions : d.decision = "rejected"
  \/ ~ REQUIRED_GATES \subseteq ApprovedGates(doc)

\* _STAGE_EVIDENCE: the field whose presence proves the stage did its work.
\* Gates, recorders and promote have none.
HasEvidence(doc, stage) ==
  \/ stage = "plan" /\ doc.plan
  \/ stage = "develop" /\ doc.security # "none"
  \/ stage = "sre" /\ doc.sre # "none"

\* The status the queue records for a stage process's exit code.
status_for(exit) ==
  CASE exit = 0 -> "done"
    [] exit = 3 -> "blocked"
    [] exit = 4 -> "rejected"
    [] exit = 5 -> "already_final"
    [] OTHER -> "failed"
=============================================================================
