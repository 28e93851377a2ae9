------------------------------- MODULE Worker -------------------------------
(***************************************************************************)
(* The worker fleet of scripts/worker.py driving runs through the queue,   *)
(* with the stage processes of scripts/run_stage.py it starts, the humans  *)
(* who decide at the gates and the API server that cancels runs.           *)
(*                                                                         *)
(* A worker is a sequence of steps between which anything else may happen: *)
(* it claims a row, reads the run's document for evidence, starts the      *)
(* stage, which loads the document, works on its copy and saves it whole,  *)
(* then records the ending on the row, and only then, in another call,     *)
(* enqueues the next stage.  It may die between any two of them, and it    *)
(* never renews its lease, so the row may be handed to another worker      *)
(* while it is still at work.                                              *)
(***************************************************************************)
EXTENDS JobQueue, RunState

CONSTANTS
  Tickets,       \* calls of start_run; each stands for its pending-<ticket> id
  Runs,          \* run ids the plan stage mints
  Cancellable,   \* run ids the API's client may ask to cancel
  MaxCrashes,    \* bound on the deaths of workers
  MaxOverruns    \* bound on leases that pass while their holder is at work

ASSUME RunIdsAssumption ==
  /\ RunIds = Tickets \union Runs
  /\ Tickets \intersect Runs = {}
  /\ Nobody \notin RunIds
  /\ Cancellable \subseteq RunIds
  /\ 1 \in Attempts

\* The fleet enqueues every stage and records every ending.
ASSUME InPlayAssumption ==
  StagesInPlay = ChainStages /\ EndingsInPlay = TERMINAL_STATUSES

ASSUME BoundsAssumption == MaxCrashes \in Nat /\ MaxOverruns \in Nat

VARIABLES
  docs,        \* the run documents, by run id
  wk,          \* what each worker is doing
  merges,      \* how often merge_pr was called for a run
  started,     \* tickets start_run was called for
  cancel,      \* what the API server is in the middle of cancelling
  cancelled,   \* runs whose cancellation was confirmed to the client
  crashes,
  overruns

fleet == <<docs, wk, merges, started, crashes, overruns>>
api == <<cancel, cancelled>>
vars == <<jobs, docs, wk, merges, started, cancel, cancelled, crashes, overruns>>

-----------------------------------------------------------------------------
PCs == {"idle", "claimed", "skip", "start", "running", "recorded", "merged",
        "exited", "adopted", "enqueue", "dead"}

Steps ==
  [pc : PCs, job : 0..MaxJobs, run : RunIds \union {Nobody},
   stage : Stages \union {""}, reclaimed : BOOLEAN, doc : Doc, exit : 0..6]

At(pc) ==
  [pc |-> pc, job |-> 0, run |-> Nobody, stage |-> "", reclaimed |-> FALSE,
   doc |-> Absent, exit |-> 0]

NoCancel == [run |-> Nobody, todo |-> {}]

WorkerTypeOK ==
  /\ TypeOK
  /\ docs \in [RunIds -> Doc]
  /\ wk \in [Workers -> Steps]
  /\ merges \in [RunIds -> Nat]
  /\ started \subseteq Tickets
  /\ cancel \in [run : RunIds \union {Nobody}, todo : SUBSET JobIds]
  /\ cancelled \subseteq RunIds
  /\ crashes \in 0..MaxCrashes
  /\ overruns \in 0..MaxOverruns

Live(j) == jobs[j].status \notin TERMINAL_STATUSES

\* The worker is alive and has the row in hand, whoever holds it by now.
AtWork(w, j) == wk[w].pc \notin {"idle", "dead"} /\ wk[w].job = j

GateOf(stage) ==
  CASE stage \in {"gate1", "gate1-rejected"} -> "gate1"
    [] stage \in {"gate2", "gate2-rejected"} -> "gate2"
    [] stage \in {"gate3", "gate3-rejected"} -> "gate3"

-----------------------------------------------------------------------------
(* start_run, and the claim. *)

StartRun(t) ==
  /\ t \notin started
  /\ Enqueue(t, "plan", 1)
  /\ started' = started \union {t}
  /\ UNCHANGED <<docs, wk, merges, cancel, cancelled, crashes, overruns>>

ClaimJob(w, j) ==
  /\ wk[w].pc = "idle"
  /\ Claim(w, j)
  /\ wk' = [wk EXCEPT ![w] =
              [pc |-> "claimed", job |-> j, run |-> jobs[j].run,
               stage |-> jobs[j].stage,
               reclaimed |-> jobs'[j].reclaimed_from # Nobody,
               doc |-> Absent, exit |-> 0]]
  /\ UNCHANGED <<docs, merges, started, cancel, cancelled, crashes, overruns>>

\* Deliberate bug: a reclaimed row is run again without looking.
NeverLooks(w) == FALSE

already_ran(w) ==
  wk[w].reclaimed /\ HasEvidence(docs[wk[w].run], wk[w].stage)

CheckEvidence(w) ==
  /\ wk[w].pc = "claimed"
  /\ wk' = [wk EXCEPT ![w].pc = IF already_ran(w) THEN "skip" ELSE "start"]
  /\ UNCHANGED <<jobs, docs, merges, started, api, crashes, overruns>>

-----------------------------------------------------------------------------
(* The stage process. *)

Exits(w, code) == wk' = [wk EXCEPT ![w].pc = "exited", ![w].exit = code]

\* Every stage but plan loads the run; a run nobody saved is exit 1.
LoadRun(w) ==
  /\ wk[w].pc = "start"
  /\ IF wk[w].stage # "plan" /\ docs[wk[w].run].status = "absent"
     THEN Exits(w, 1)
     ELSE wk' = [wk EXCEPT ![w].pc = "running", ![w].doc = docs[wk[w].run]]
  /\ UNCHANGED <<jobs, docs, merges, started, api, crashes, overruns>>

Running(w, stages) == wk[w].pc = "running" /\ wk[w].stage \in stages

\* _emit: the whole document is saved as this process has it.
Emit(w, doc) == docs' = [docs EXCEPT ![wk[w].run] = doc]

\* plan saves a document under a fresh run id and prints the id.
Plan(w, r) ==
  /\ Running(w, {"plan"})
  /\ docs[r].status = "absent"
  /\ docs' = [docs EXCEPT ![r] = Planned]
  /\ wk' = [wk EXCEPT ![w].pc = "exited", ![w].run = r]
  /\ UNCHANGED <<jobs, merges, started, api, crashes, overruns>>

\* A gate, or a recorder on a run still running, hands its decision to
\* gates.resume, which reloads the document, appends and saves it.
RecordDecision(w, stages, decision) ==
  /\ Running(w, stages)
  /\ LET doc == Resumed(docs[wk[w].run], GateOf(wk[w].stage), decision)
     IN  /\ Emit(w, doc)
         /\ wk' = [wk EXCEPT ![w].pc = "recorded", ![w].doc = doc]
  /\ UNCHANGED <<jobs, merges, started, api, crashes, overruns>>

RecordApproval(w) == RecordDecision(w, GATES, "approved")

RecordRefusal(w) ==
  /\ wk[w].doc.status \notin ENDINGS
  /\ RecordDecision(w, Recorders, "rejected")

\* ... then comments, and saves once more what gates.resume returned.
EmitDecision(w) ==
  /\ wk[w].pc = "recorded"
  /\ Emit(w, wk[w].doc)
  /\ Exits(w, IF wk[w].stage \in GATES THEN 0 ELSE 4)
  /\ UNCHANGED <<jobs, merges, started, api, crashes, overruns>>

\* A recorder or promote that finds the run ended saves it as it was.
DeclineEnded(w) ==
  /\ Running(w, Recorders \union {"promote"})
  /\ wk[w].doc.status \in ENDINGS
  /\ Emit(w, wk[w].doc)
  /\ Exits(w, 5)
  /\ UNCHANGED <<jobs, merges, started, api, crashes, overruns>>

Develop(w, outcome) ==
  /\ Running(w, {"develop"})
  /\ Emit(w, Developed(wk[w].doc, outcome))
  /\ Exits(w, CASE outcome = "blocked" -> 3
                [] outcome = "unapproved" -> 4
                [] outcome = "cleared" -> 0)
  /\ UNCHANGED <<jobs, merges, started, api, crashes, overruns>>

Sre(w, verdict) ==
  /\ Running(w, {"sre"})
  /\ Emit(w, Checked(wk[w].doc, verdict))
  /\ Exits(w, IF verdict = "no_go" THEN 4 ELSE 0)
  /\ UNCHANGED <<jobs, merges, started, api, crashes, overruns>>

RefusePromotion(w) ==
  /\ Running(w, {"promote"})
  /\ wk[w].doc.status \notin ENDINGS
  /\ not_promotable(wk[w].doc)
  /\ Emit(w, [wk[w].doc EXCEPT !.status = "failed"])
  /\ Exits(w, 6)
  /\ UNCHANGED <<jobs, merges, started, api, crashes, overruns>>

\* merge_pr, and only then the word promoted.
Merge(w) ==
  /\ Running(w, {"promote"})
  /\ ~not_promotable(wk[w].doc)
  /\ merges' = [merges EXCEPT ![wk[w].run] = @ + 1]
  /\ wk' = [wk EXCEPT ![w].pc = "merged"]
  /\ UNCHANGED <<jobs, docs, started, api, crashes, overruns>>

EmitPromoted(w) ==
  /\ wk[w].pc = "merged"
  /\ Emit(w, [wk[w].doc EXCEPT !.status = "promoted"])
  /\ Exits(w, 0)
  /\ UNCHANGED <<jobs, merges, started, api, crashes, overruns>>

\* The process dies of an uncaught exception or of the 900 s timeout: the
\* runner's caller records failed with exit 1 in both cases.
StageCrashes(w) ==
  /\ wk[w].pc \in {"running", "recorded", "merged"}
  /\ Exits(w, 1)
  /\ UNCHANGED <<jobs, docs, merges, started, api, crashes, overruns>>

-----------------------------------------------------------------------------
(* After the stage. *)

\* The run id plan printed is written on the row.  A clash raises.
Adopt(w) ==
  /\ wk[w].pc = "exited" /\ wk[w].stage = "plan" /\ wk[w].exit = 0
  /\ adopt_run_id(wk[w].job, wk[w].run)
  /\ wk' = [wk EXCEPT ![w].pc = "adopted"]
  /\ UNCHANGED <<docs, merges, started, api, crashes, overruns>>

\* Ready to record, and with what status.
Recording(w, st) ==
  \/ wk[w].pc = "skip" /\ st = "already_final"
  \/ wk[w].pc = "adopted" /\ st = status_for(wk[w].exit)
  \/ /\ wk[w].pc = "exited" /\ st = status_for(wk[w].exit)
     /\ wk[w].stage # "plan" \/ wk[w].exit # 0

\* Deliberate bug: any ending but a crash enqueues the next stage.
AdvancesUnlessFailed(w, st) ==
  /\ st # "failed"
  /\ wk[w].stage \in ChainStages
  /\ next_stage(wk[w].stage) # ""

\* Deliberate bug: a gate's row is the end of its line.
AdvancesUnlessGate(w, st) ==
  /\ st = "done" /\ wk[w].stage \notin GATES
  /\ next_stage(wk[w].stage) # ""

\* A recorder of a refusal has no stage after it, nor has the last one.
HasSuccessor(stage) == stage \notin Recorders /\ next_stage(stage) # ""

Advances(w, st) == st = "done" /\ HasSuccessor(wk[w].stage)

\* Deliberate bug: the next stage is enqueued, the row of this one left as it is.
EnqueuesWithoutEnding(w, st) ==
  /\ Recording(w, st)
  /\ Advances(w, st)
  /\ Enqueue(wk[w].run, next_stage(wk[w].stage), 1)
  /\ wk' = [wk EXCEPT ![w] = At("idle")]
  /\ UNCHANGED <<docs, merges, started, api, crashes, overruns>>

Record(w, st) ==
  /\ Recording(w, st)
  /\ Complete(wk[w].job, st)
  /\ wk' = [wk EXCEPT ![w] = IF Advances(w, st)
                             THEN [@ EXCEPT !.pc = "enqueue", !.doc = Absent]
                             ELSE At("idle")]
  /\ UNCHANGED <<docs, merges, started, api, crashes, overruns>>

\* Deliberate bug: the refusal is swallowed and the run goes on.
RefusalSwallowed(w, st) ==
  /\ Recording(w, st)
  /\ ~Live(wk[w].job)
  /\ wk' = [wk EXCEPT ![w].pc = IF Advances(w, st) THEN "enqueue" ELSE "idle"]
  /\ UNCHANGED <<jobs, docs, merges, started, api, crashes, overruns>>

\* The row ended meanwhile: complete raises, and nothing catches it.
RecordRefused(w, st) ==
  /\ Recording(w, st)
  /\ ~Live(wk[w].job)
  /\ wk' = [wk EXCEPT ![w] = At("dead")]
  /\ UNCHANGED <<jobs, docs, merges, started, api, crashes, overruns>>

EnqueueNext(w) ==
  /\ wk[w].pc = "enqueue"
  /\ Enqueue(wk[w].run, next_stage(wk[w].stage), 1)
  /\ wk' = [wk EXCEPT ![w] = At("idle")]
  /\ UNCHANGED <<docs, merges, started, api, crashes, overruns>>

-----------------------------------------------------------------------------
(* Deaths, restarts and leases. *)

Crash(w) ==
  /\ wk[w].pc \notin {"idle", "dead"}
  /\ crashes < MaxCrashes
  /\ crashes' = crashes + 1
  /\ wk' = [wk EXCEPT ![w] = At("dead")]
  /\ UNCHANGED <<jobs, docs, merges, started, api, overruns>>

Restart(w) ==
  /\ wk[w].pc = "dead"
  /\ wk' = [wk EXCEPT ![w] = At("idle")]
  /\ UNCHANGED <<jobs, docs, merges, started, api, crashes, overruns>>

\* The lease of a worker that is gone passes; so may that of one still at
\* work, since a stage may take 900 s, a lease lasts 600 s and nothing renews.
LeaseLapses(j) ==
  /\ LeaseExpires(j)
  /\ UNCHANGED <<docs, wk, merges, started, api, crashes>>
  /\ IF AtWork(jobs[j].claimed_by, j)
     THEN overruns < MaxOverruns /\ overruns' = overruns + 1
     ELSE UNCHANGED overruns

-----------------------------------------------------------------------------
(* Humans and the API. *)

Decide(r, g, decision, op, j) ==
  /\ Resume(r, g, decision, op, j)
  /\ UNCHANGED <<fleet, api>>

\* cancel_run lists the run's live rows; with none it answers 409.
CancelRun(r) ==
  LET live == {j \in JobIds : jobs[j].run = r /\ Live(j)} IN
  /\ cancel = NoCancel
  /\ live # {}
  /\ cancel' = [run |-> r, todo |-> live]
  /\ UNCHANGED <<jobs, fleet, cancelled>>

\* ... and completes them one by one, as rejected.
CancelRow(j) ==
  LET rest == cancel.todo \ {j} IN
  /\ j \in Oldest(cancel.todo)
  /\ Complete(j, "rejected")
  /\ IF rest = {}
     THEN cancel' = NoCancel /\ cancelled' = cancelled \union {cancel.run}
     ELSE cancel' = [cancel EXCEPT !.todo = rest] /\ UNCHANGED cancelled
  /\ UNCHANGED fleet

\* A row that ended meanwhile makes the whole call fail.
CancelRefused(j) ==
  /\ j \in Oldest(cancel.todo)
  /\ ~Live(j)
  /\ cancel' = NoCancel
  /\ UNCHANGED <<jobs, fleet, cancelled>>

-----------------------------------------------------------------------------
WorkerInit ==
  /\ QueueInit
  /\ docs = [r \in RunIds |-> Absent]
  /\ wk = [w \in Workers |-> At("idle")]
  /\ merges = [r \in RunIds |-> 0]
  /\ started = {}
  /\ cancel = NoCancel
  /\ cancelled = {}
  /\ crashes = 0
  /\ overruns = 0

StageStep(w) ==
  \/ LoadRun(w)
  \/ \E r \in Runs : Plan(w, r)
  \/ RecordApproval(w)
  \/ RecordRefusal(w)
  \/ EmitDecision(w)
  \/ DeclineEnded(w)
  \/ \E outcome \in DevelopOutcomes : Develop(w, outcome)
  \/ \E verdict \in {"go", "no_go"} : Sre(w, verdict)
  \/ RefusePromotion(w)
  \/ Merge(w)
  \/ EmitPromoted(w)
  \/ StageCrashes(w)

WorkerStep(w) ==
  \/ \E j \in JobIds : ClaimJob(w, j)
  \/ CheckEvidence(w)
  \/ StageStep(w)
  \/ Adopt(w)
  \/ \E st \in TERMINAL_STATUSES : Record(w, st) \/ RecordRefused(w, st)
  \/ EnqueueNext(w)
  \/ Restart(w)

HumanStep ==
  \E r \in RunIds, g \in GATES, op \in Operators, j \in JobIds,
     decision \in {"approved", "rejected"} : Decide(r, g, decision, op, j)

ApiStep ==
  \/ \E r \in Cancellable : CancelRun(r)
  \/ \E j \in JobIds : CancelRow(j) \/ CancelRefused(j)

WorkerNext ==
  \/ \E t \in Tickets : StartRun(t)
  \/ \E w \in Workers : WorkerStep(w) \/ Crash(w)
  \/ \E j \in JobIds : LeaseLapses(j)
  \/ HumanStep
  \/ ApiStep

WorkerSpec == WorkerInit /\ [][WorkerNext]_vars

\* Workers are restarted and keep stepping, and time passes.  Nothing is
\* assumed of humans, of the API's clients, or of crashes.
Fairness ==
  /\ \A w \in Workers : WF_vars(WorkerStep(w))
  /\ \A j \in 1..MaxJobs : WF_vars(j \in JobIds /\ LeaseLapses(j))

FairWorkerSpec == WorkerSpec /\ Fairness

-----------------------------------------------------------------------------
RowFor(r, s, statuses) ==
  \E j \in JobIds :
    jobs[j].run = r /\ jobs[j].stage = s /\ jobs[j].status \in statuses

RowIn(j, statuses) == j \in JobIds /\ jobs[j].status \in statuses

\* The stage whose completion put a row of stage s on the queue.
PreviousStage(s) ==
  CASE s \in {"gate1", "gate1-rejected"} -> "plan"
    [] s = "develop" -> "gate1"
    [] s \in {"gate2", "gate2-rejected"} -> "develop"
    [] s = "sre" -> "gate2"
    [] s \in {"gate3", "gate3-rejected"} -> "sre"
    [] s = "promote" -> "gate3"

\* A run is in one place: never two rows of it that could still move.
OneLiveRowPerRun ==
  \A i, j \in JobIds :
    jobs[i].run = jobs[j].run /\ Live(i) /\ Live(j) => i = j

\* Every row was put there by the success of the stage before it: no stage
\* runs after one that was blocked, refused, crashed or skipped.
ChainIsUnbroken ==
  \A j \in JobIds :
    jobs[j].stage # "plan" =>
      RowFor(jobs[j].run, PreviousStage(jobs[j].stage), {"done"})

\* A change is merged only for a run whose three gates were each released by
\* a human and ran, after a develop and an sre stage that ended well.
MergeWasEarned ==
  \A r \in RunIds : merges[r] > 0 =>
    /\ \A s \in {"gate1", "develop", "gate2", "sre", "gate3"} :
         RowFor(r, s, {"done"})
    /\ \A j \in JobIds : jobs[j].run = r /\ jobs[j].stage \in GATES =>
         jobs[j].decided_by # Nobody

\* "No further stage runs" (api/service.py:443): once the API has confirmed
\* a cancellation, the run never again has a row a worker or human could move.
CancelHolds ==
  \A r \in cancelled, j \in JobIds : jobs[j].run = r => ~Live(j)

\* How a run ended is never rewritten: a block is not turned into a refusal,
\* nor a refusal into a promotion (the erased block of run 32509257195).
EndingIsFinal ==
  [][\A r \in RunIds :
       docs[r].status \in ENDINGS => docs'[r].status = docs[r].status]_vars

\* A row that a worker may take, or has taken, comes to an end whatever
\* workers die on the way: the queue's answer to a dead worker.
EveryClaimEnds ==
  \A j \in 1..MaxJobs :
    RowIn(j, {"ready", "claimed"}) ~> RowIn(j, TERMINAL_STATUSES)

\* Without deaths, a human's approval is followed by the next stage, unless
\* the gate's own process fails or the run is cancelled.
ApprovalAdvances ==
  \A r \in Runs, g \in GATES :
    RowFor(r, g, {"ready"})
      ~> \/ RowFor(r, next_stage(g), JobStatus)
         \/ RowFor(r, g, {"failed", "rejected"})
         \/ crashes > 0

\* The rows of the queue and the calls of merge_pr, read as the promise of
\* GatedPromotion: an approval is a gate's row with a name on it, a refusal a
\* row repointed at a recorder.
Promotion == INSTANCE GatedPromotion WITH
  approved <- [r \in RunIds |->
                 {g \in GATES : \E j \in JobIds :
                    /\ jobs[j].run = r /\ jobs[j].stage = g
                    /\ jobs[j].decided_by # Nobody}],
  refused <- {r \in RunIds : \E j \in JobIds :
                jobs[j].run = r /\ jobs[j].stage \in Recorders},
  merged <- {r \in RunIds : merges[r] > 0}

\* The fleet keeps the promise, with leases lost under living workers and
\* cancellations at any point: every step is one of GatedPromotion, or none.
KeepsThePromise == Promotion!PromotionSpec

\* A restart is a non-event (worker.py:627): a run whose latest stage is over
\* without ending the run is in some worker's hands, about to go on.
NothingIsStranded ==
  \A j \in JobIds :
    /\ jobs[j].status \in {"done", "already_final"}
    /\ docs[jobs[j].run].status = "running"
    /\ ~ \E i \in JobIds : i # j /\ jobs[i].run = jobs[j].run /\ i > j
    => \E w \in Workers : wk[w].pc = "enqueue" /\ wk[w].run = jobs[j].run
=============================================================================
