------------------------------ MODULE ActionsRun ------------------------------
(***************************************************************************)
(* A run of the deployed pipeline: one job of the Actions workflow per     *)
(* stage, the document handed from job to job as an artifact, the tenant's *)
(* index row (tenancy/run_index.py), which only the jobs with a credential *)
(* write and whose writes may fail unnoticed, and the console              *)
(* (web/lib/dynamo, ci-view.ts, authz.ts), which reads the row and, when   *)
(* it can be reached, GitHub.                                              *)
(***************************************************************************)
EXTENDS RunState

VARIABLES
  job,       \* what GitHub says of each job: "none" before it is due
  document,  \* the run's document, as the last job to save it left it
  noted,     \* the gates whose rejection recorder has run
  indexed,   \* the index row: a status and a copy of the document
  person     \* what a person decided at each gate

actionsVars == <<job, document, noted, indexed, person>>

-----------------------------------------------------------------------------
\* needs: the job before, "" for the first.
Before ==
  [plan |-> "", gate1 |-> "plan", develop |-> "gate1", gate2 |-> "develop",
   sre |-> "gate2", gate3 |-> "sre", promote |-> "gate3"]

JobsInOrder == DOMAIN Before

Succeeded(s) == IF s = "" THEN TRUE ELSE job[s] = "success"

\* The condition of the three recorder jobs.
RecorderDue(g) ==
  job[g] \in {"failure", "skipped"} /\ Succeeded(Before[g]) /\ g \notin noted

\* The workflow's run is completed.
Completed ==
  /\ \A s \in JobsInOrder : job[s] \notin {"waiting", "running"}
  /\ job["promote"] = "success" \/ \E s \in JobsInOrder : job[s] \notin {"none", "success"}
  /\ \A g \in REQUIRED_GATES : ~RecorderDue(g)

\* A job that was never due is skipped in the end.
Conclusion(s) == IF job[s] = "none" /\ Completed THEN "skipped" ELSE job[s]

Becomes(s, status) == job' = [job EXCEPT ![s] = status]

-----------------------------------------------------------------------------
(* The index row. Absent as the copy: the row holds none.                   *)

NoIndexRow == [status |-> "none", state |-> Absent]

Started == [Absent EXCEPT !.status = "running"]

\* _state_json: a document too large, or that cannot be serialised, is none.
_state_json(doc) == {[given |-> TRUE, doc |-> doc], [given |-> FALSE, doc |-> Absent]}

\* Get, then put: without a document the copy that is there stays.
update_run_status(status, json) ==
  /\ indexed # NoIndexRow
  /\ indexed' = [status |-> status, state |-> IF json.given THEN json.doc ELSE indexed.state]

\* The row follows the document; a failure leaves it, and says nothing.
update_status(doc) ==
  \/ UNCHANGED indexed
  \/ \E json \in _state_json(doc) : update_run_status(doc.status, json)

\* record_run: an upsert, before the first agent is called.
record_run ==
  indexed' \in {NoIndexRow, [status |-> "running", state |-> Started],
                [status |-> "running", state |-> Absent]}

-----------------------------------------------------------------------------
(* The jobs. *)

StartJob(s) ==
  /\ job[s] = "none" /\ Succeeded(Before[s]) /\ ~Completed
  /\ Becomes(s, IF s \in REQUIRED_GATES THEN "waiting" ELSE "running")
  /\ IF s = "plan" THEN record_run ELSE UNCHANGED indexed
  /\ UNCHANGED <<document, noted, person>>

\* A job that dies before its stage saved anything: the installation, the
\* download of the artifact, a crash, its time running out.
JobDies(s) ==
  /\ job[s] = "running"
  /\ Becomes(s, "failure")
  /\ UNCHANGED <<document, noted, indexed, person>>

\* _emit: the document is saved, then the row follows; the job ends by the
\* stage's exit code, or with the upload failing after it.
Emits(s, doc, ok) ==
  /\ document' = doc
  /\ update_status(doc)
  /\ \E uploaded \in BOOLEAN : Becomes(s, IF ok /\ uploaded THEN "success" ELSE "failure")
  /\ UNCHANGED <<noted, person>>

PlanJob == job["plan"] = "running" /\ Emits("plan", Planned, TRUE)

DevelopJob ==
  /\ job["develop"] = "running"
  /\ \E outcome \in DevelopOutcomes :
       Emits("develop", Developed(document, outcome), outcome = "cleared")

SreJob ==
  /\ job["sre"] = "running"
  /\ \E verdict \in {"go", "no_go"} : Emits("sre", Checked(document, verdict), verdict = "go")

PromoteJob ==
  /\ job["promote"] = "running"
  /\ Emits("promote",
           IF document.status \in ENDINGS THEN document
           ELSE [document EXCEPT !.status = IF not_promotable(document) THEN "failed"
                                            ELSE "promoted"],
           ~not_promotable(document))

\* A gate job runs once its Environment is released, and holds no credential.
GateJob(g) ==
  /\ job[g] = "running"
  /\ document' = Resumed(document, g, "approved")
  /\ Becomes(g, "success")
  /\ UNCHANGED <<noted, indexed, person>>

\* _stage_gate_rejected: a run that has ended is left as it ended.
Recorder(g) ==
  /\ RecorderDue(g)
  /\ noted' = noted \union {g}
  /\ document' = IF document.status \in ENDINGS THEN document
                 ELSE Resumed(document, g, "rejected")
  /\ UNCHANGED <<job, indexed, person>>

-----------------------------------------------------------------------------
(* The people. *)

Decided(g, what) == person' = [person EXCEPT ![g] = what]

\* In GitHub's own screen, where a refused job is skipped.
ReviewAtGitHub(g) ==
  /\ job[g] = "waiting"
  /\ \/ Becomes(g, "running") /\ Decided(g, "approved")
     \/ Becomes(g, "skipped") /\ Decided(g, "refused")
  /\ UNCHANGED <<document, noted, indexed>>

\* A person cancels the workflow's run.
CancelRun ==
  /\ \E s \in JobsInOrder : job[s] \in {"waiting", "running"}
  /\ job' = [s \in JobsInOrder |->
               IF job[s] \in {"waiting", "running"} THEN "cancelled" ELSE job[s]]
  /\ UNCHANGED <<document, noted, indexed, person>>

-----------------------------------------------------------------------------
(* The console. *)

\* The status the row tells: the copy's own, or the column.
StoredStatus == IF indexed.state # Absent THEN indexed.state.status ELSE indexed.status

\* awaitingGates, off the copy: the first gate whose stage is done and that
\* nobody decided.
awaitingGates ==
  LET copy    == indexed.state
      ready   == [g \in REQUIRED_GATES |->
                    CASE g = "gate1" -> copy.plan
                      [] g = "gate2" -> copy.security # "none"
                      [] g = "gate3" -> copy.sre # "none"]
      decided == {d.gate : d \in copy.decisions}
      earlier == [g \in REQUIRED_GATES |->
                    CASE g = "gate1" -> {}
                      [] g = "gate2" -> {"gate1"}
                      [] g = "gate3" -> {"gate1", "gate2"}]
  IN  {g \in REQUIRED_GATES :
         /\ copy # Absent /\ StoredStatus \notin ENDINGS
         /\ ready[g] /\ g \notin decided
         /\ \A e \in earlier[g] : ready[e] /\ e \in decided}

\* approveRun: authz.decide over the row, then approveGate, which asks GitHub
\* again. A gate refused through the API ends as a failure.
ApproveRun(g) ==
  /\ indexed # NoIndexRow /\ g \in awaitingGates
  /\ job[g] = "waiting"
  /\ \/ Becomes(g, "running") /\ Decided(g, "approved")
     \/ Becomes(g, "failure") /\ Decided(g, "refused")
  /\ UNCHANGED <<document, noted, indexed>>

\* Deliberate bug: a gate that did not succeed was refused, reached or not.
RefusedIfUnsuccessful(g) == Conclusion(g) \notin {"none", "waiting", "running", "success", "cancelled"}

isRefusedGate(g) ==
  /\ Conclusion(g) \notin {"none", "waiting", "running", "success", "cancelled"}
  /\ Succeeded(Before[g])

\* GitHub may correct a stored "running", and nothing else.
reconcileStatus(live) ==
  IF StoredStatus \in ENDINGS THEN StoredStatus
  ELSE IF ~live \/ ~Completed THEN "running"
  ELSE IF job["promote"] = "success" THEN "promoted"
  ELSE IF \E g \in REQUIRED_GATES : isRefusedGate(g) THEN "rejected"
  ELSE IF job["develop"] = "failure" /\ indexed.state.security = "block" THEN "blocked"
  ELSE "failed"

-----------------------------------------------------------------------------
ActionsInit ==
  /\ job = [s \in JobsInOrder |-> "none"]
  /\ document = Absent
  /\ noted = {}
  /\ indexed = NoIndexRow
  /\ person = [g \in REQUIRED_GATES |-> "nobody"]

ActionsNext ==
  \/ \E s \in JobsInOrder : StartJob(s) \/ JobDies(s)
  \/ PlanJob \/ DevelopJob \/ SreJob \/ PromoteJob
  \/ \E g \in REQUIRED_GATES :
       GateJob(g) \/ Recorder(g) \/ ReviewAtGitHub(g) \/ ApproveRun(g)
  \/ CancelRun

ActionsSpec == ActionsInit /\ [][ActionsNext]_actionsVars

-----------------------------------------------------------------------------
ActionsTypeOK ==
  /\ job \in [JobsInOrder -> {"none", "waiting", "running", "success", "failure",
                              "skipped", "cancelled"}]
  /\ document \in Doc /\ indexed.state \in Doc
  /\ noted \subseteq REQUIRED_GATES
  /\ person \in [REQUIRED_GATES -> {"nobody", "approved", "refused"}]

\* What the console says of a run, with GitHub reachable or not and with any of
\* the row's writes lost or cut. Promoted, blocked and rejected are said only of a
\* run that was saved as promoted, that the security rule blocked, or that has a
\* gate that was reached and did not pass. "failed" says less, only that the run
\* is over: never of a run with a recorded rejection, nor of a block the row heard
\* of; but it may stand for a block the row never heard of, and for a promotion
\* whose job failed after saving it and whose row write was lost. A run that is
\* over on GitHub is not shown as running (reconcileStatus, isRefusedGate).
ConsoleShowsTheEnding ==
  indexed # NoIndexRow =>
    \A live \in BOOLEAN :
      LET s == reconcileStatus(live) IN
      /\ s \in ENDINGS => document.status \in ENDINGS \/ Completed
      /\ s = "promoted" => document.status = "promoted"
      /\ s = "blocked" => document.security = "block"
      /\ s = "rejected" =>
           \E g \in REQUIRED_GATES : job[g] \in {"skipped", "failure"}
      /\ s = "failed" =>
           /\ document.status # "rejected" /\ indexed.state.security # "block"
           /\ document.status = "promoted" => job["promote"] = "failure"
      /\ live /\ Completed => s # "running"

\* "The only remaining reason this job runs is a refusal at the Environment": a
\* rejection is recorded at a gate only if a person refused that gate
\* (_stage_gate_rejected). It does not hold: the job of an approved gate may die.
RefusalsAreByPeople ==
  \A d \in document.decisions : d.decision = "rejected" => person[d.gate] = "refused"
=============================================================================
