---------------------------- MODULE WorkerProofs ----------------------------
(***************************************************************************)
(* Proofs about Worker: whatever workers, stage processes, humans and the  *)
(* API do, the table only ever takes steps of JobQueue, so what JobQueue   *)
(* guarantees, the fleet inherits.  The fleet's part is to call the queue  *)
(* with rows, runs and stages that exist: a worker always has a row of the *)
(* table and a run in hand, and only enqueues after a stage of the chain.  *)
(***************************************************************************)
EXTENDS Worker, JobQueueProofs

\* A worker at work has a row of the table, and a stage with a successor when
\* it is about to enqueue one.
InHand(s, ids) ==
  s.pc \notin {"idle", "dead"} =>
    /\ s.job \in ids /\ s.run \in RunIds /\ s.stage \in Stages
    /\ s.pc = "enqueue" => s.stage \notin Recorders /\ next_stage(s.stage) # ""

\* The API only has rows left to cancel of a run it was asked to cancel.
CancelInv == cancel.todo # {} => cancel.run \in RunIds

WorkerInv ==
  WorkerTypeOK /\ CancelInv /\ \A w \in Workers : InHand(wk[w], JobIds)

-----------------------------------------------------------------------------
(* The run's document. *)

LEMMA DocsWritten ==
  /\ Absent \in Doc
  /\ Planned \in Doc
  /\ \A doc \in Doc :
       /\ \A g \in REQUIRED_GATES, decision \in {"approved", "rejected"} :
            Resumed(doc, g, decision) \in Doc
       /\ \A outcome \in DevelopOutcomes : Developed(doc, outcome) \in Doc
       /\ \A verdict \in {"go", "no_go"} : Checked(doc, verdict) \in Doc
       /\ \A status \in {"failed", "promoted"} :
            [doc EXCEPT !.status = status] \in Doc
<1>1. Absent \in Doc
  BY DEF Absent, Doc
<1>2. Planned \in Doc
  BY DEF Planned, Absent, Doc
<1> SUFFICES ASSUME NEW doc \in Doc
             PROVE
       /\ \A g \in REQUIRED_GATES, decision \in {"approved", "rejected"} :
            Resumed(doc, g, decision) \in Doc
       /\ \A outcome \in DevelopOutcomes : Developed(doc, outcome) \in Doc
       /\ \A verdict \in {"go", "no_go"} : Checked(doc, verdict) \in Doc
       /\ \A status \in {"failed", "promoted"} :
            [doc EXCEPT !.status = status] \in Doc
  BY <1>1, <1>2
<1>3. ASSUME NEW g \in REQUIRED_GATES, NEW decision \in {"approved", "rejected"}
      PROVE  Resumed(doc, g, decision) \in Doc
  <2>1. [gate |-> g, decision |-> decision] \in Decisions
    BY DEF Decisions
  <2>2. doc.decisions \union {[gate |-> g, decision |-> decision]}
          \in SUBSET Decisions
    BY <2>1 DEF Doc
  <2>3. (IF decision = "rejected" THEN "rejected" ELSE doc.status)
          \in {"absent", "running", "blocked", "rejected", "failed", "promoted"}
    BY DEF Doc
  <2> HIDE DEF Decisions
  <2> QED
    BY <2>2, <2>3 DEF Resumed, Doc
<1>4. ASSUME NEW outcome \in DevelopOutcomes
      PROVE  Developed(doc, outcome) \in Doc
  BY DEF Developed, DevelopOutcomes, Doc
<1>5. ASSUME NEW verdict \in {"go", "no_go"}
      PROVE  Checked(doc, verdict) \in Doc
  BY DEF Checked, Doc
<1>6. ASSUME NEW status \in {"failed", "promoted"}
      PROVE  [doc EXCEPT !.status = status] \in Doc
  BY DEF Doc
<1> QED
  BY <1>3, <1>4, <1>5, <1>6

LEMMA GateOfIsAGate ==
  ASSUME NEW s \in GATES \union Recorders
  PROVE  GateOf(s) \in REQUIRED_GATES
BY DEF GateOf, GATES, Recorders, REQUIRED_GATES

-----------------------------------------------------------------------------
(* The queue, as the fleet calls it. *)

LEMMA LaterPosition == \A k \in 1..7 : k # 7 => k + 1 \in 1..7
OBVIOUS

LEMMA NextStageIsInChain ==
  ASSUME NEW s \in ChainStages, next_stage(s) # ""
  PROVE  next_stage(s) \in ChainStages
<1> DEFINE i == CHOOSE k \in 1..7 : STAGE_CHAIN[k] = s
<1>1. i \in 1..7
  <2>1. \E k \in 1..7 : STAGE_CHAIN[k] = s
    BY DEF ChainStages
  <2> QED
    BY <2>1
<1>2. next_stage(s) = IF i = 7 THEN "" ELSE STAGE_CHAIN[i + 1]
  BY DEF next_stage
<1> HIDE DEF i
<1>3. i # 7
  BY <1>2, Zenon
<1>4. i + 1 \in 1..7
  BY <1>1, <1>3, LaterPosition, Zenon
<1> QED
  BY <1>2, <1>3, <1>4 DEF ChainStages

LEMMA CallsOfTheFleet ==
  /\ \A r \in RunIds, s \in ChainStages : Enqueue(r, s, 1) => QueueNext
  /\ \A j \in JobIds :
       /\ \A w \in Workers : Claim(w, j) => QueueNext
       /\ \A st \in TERMINAL_STATUSES : Complete(j, st) => QueueNext
       /\ \A r \in RunIds : adopt_run_id(j, r) => QueueNext
       /\ LeaseExpires(j) => QueueNext
       /\ \A r \in RunIds, g \in GATES, op \in Operators,
             decision \in {"approved", "rejected"} :
               Resume(r, g, decision, op, j) => QueueNext
BY RunIdsAssumption, InPlayAssumption
   DEF QueueNext, APPROVING_DECISIONS, REFUSING_DECISIONS

LEMMA TableGrows ==
  ASSUME TypeOK, [QueueNext]_jobs
  PROVE  TypeOK' /\ JobIds \subseteq JobIds' /\ JobIds \subseteq 0..MaxJobs
<1>1. jobs \in Seq(Job) /\ Len(jobs) <= MaxJobs /\ JobIds = 1..Len(jobs)
  BY RowsAreJobs DEF TypeOK
<1>2. JobIds \subseteq 0..MaxJobs
  BY <1>1, MaxJobsAssumption, LenProperties
<1>3. TypeOK'
  BY QueueTypeOKStep
<1>4. CASE UNCHANGED jobs
  BY <1>2, <1>3, <1>4 DEF JobIds
<1>5. CASE Appends
  BY <1>1, <1>2, <1>3, <1>5, AppendRow, NewJobIsAJob DEF Appends
<1>6. CASE MovesOne
  BY <1>1, <1>2, <1>3, <1>6, ReplaceRow DEF MovesOne
<1>7. CASE Adopts
  BY <1>2, <1>3, <1>7, AdoptedRow DEF Adopts
<1> QED
  BY <1>4, <1>5, <1>6, <1>7, StepShape

-----------------------------------------------------------------------------
(* Steps of a worker. *)

LEMMA Idles ==
  ASSUME NEW pc \in {"idle", "dead"}, NEW ids
  PROVE  At(pc) \in Steps /\ InHand(At(pc), ids)
<1>1. Absent \in Doc /\ 0 \in 0..MaxJobs /\ 0 \in 0..6
  BY DocsWritten, MaxJobsAssumption
<1> QED
  BY <1>1 DEF At, Steps, PCs, InHand

\* What is left to show of a step that moves worker w to the record new.
LEMMA WorkerMoves ==
  ASSUME WorkerInv, [QueueNext]_jobs, NEW w \in Workers, NEW new \in Steps,
         InHand(new, JobIds), wk' = [wk EXCEPT ![w] = new],
         docs' \in [RunIds -> Doc], merges' \in [RunIds -> Nat],
         crashes' \in 0..MaxCrashes, UNCHANGED <<started, api, overruns>>
  PROVE  WorkerInv'
<1>1. TypeOK' /\ JobIds \subseteq JobIds'
  BY TableGrows DEF WorkerInv, WorkerTypeOK
<1>2. wk' \in [Workers -> Steps] /\ wk'[w] = new
      /\ \A v \in Workers \ {w} : wk'[v] = wk[v]
  BY DEF WorkerInv, WorkerTypeOK
<1>3. WorkerTypeOK'
  BY <1>1, <1>2 DEF WorkerInv, WorkerTypeOK, api
<1>4. ASSUME NEW v \in Workers
      PROVE  InHand(wk'[v], JobIds')
  <2>1. InHand(wk'[v], JobIds)
    BY <1>2 DEF WorkerInv
  <2> QED
    BY <1>1, <2>1 DEF InHand
<1>5. CancelInv'
  BY DEF WorkerInv, CancelInv, api
<1> QED
  BY <1>3, <1>4, <1>5 DEF WorkerInv

LEMMA InvOfWorker ==
  ASSUME WorkerInv, NEW w \in Workers
  PROVE  /\ TypeOK /\ wk[w] \in Steps /\ InHand(wk[w], JobIds)
         /\ docs \in [RunIds -> Doc] /\ merges \in [RunIds -> Nat]
         /\ crashes \in 0..MaxCrashes
BY DEF WorkerInv, WorkerTypeOK

\* A worker goes on with the row it has, to any step but the enqueueing one.
LEMMA GoesOn ==
  ASSUME WorkerInv, NEW w \in Workers, wk[w].pc \notin {"idle", "dead"},
         NEW pc \in PCs \ {"enqueue"}
  PROVE  /\ LET new == [wk[w] EXCEPT !.pc = pc]
            IN  new \in Steps /\ InHand(new, JobIds)
         /\ \A exit \in 0..6 :
              LET new == [wk[w] EXCEPT !.pc = pc, !.exit = exit]
              IN  new \in Steps /\ InHand(new, JobIds)
         /\ \A doc \in Doc :
              LET new == [wk[w] EXCEPT !.pc = pc, !.doc = doc]
              IN  new \in Steps /\ InHand(new, JobIds)
         /\ \A r \in RunIds :
              LET new == [wk[w] EXCEPT !.pc = pc, !.run = r]
              IN  new \in Steps /\ InHand(new, JobIds)
BY InvOfWorker DEF Steps, InHand

\* The stage process leaves the table alone: what it may change is w's place,
\* the documents and the count of merges.
StageFrame(w, new) ==
  /\ wk' = [wk EXCEPT ![w] = new]
  /\ docs' \in [RunIds -> Doc] /\ merges' \in [RunIds -> Nat]
  /\ UNCHANGED <<jobs, started, api, crashes, overruns>>

LEMMA StageMoves ==
  ASSUME WorkerInv, NEW w \in Workers, NEW new \in Steps,
         InHand(new, JobIds), StageFrame(w, new)
  PROVE  WorkerInv'
<1>1. [QueueNext]_jobs /\ crashes' \in 0..MaxCrashes
  BY InvOfWorker DEF StageFrame
<1> QED
  BY <1>1, WorkerMoves DEF StageFrame

\* At work, the run's document is a document.
LEMMA DocInHand ==
  ASSUME WorkerInv, NEW w \in Workers, wk[w].pc \notin {"idle", "dead"}
  PROVE  /\ wk[w].run \in RunIds /\ wk[w].doc \in Doc
         /\ docs[wk[w].run] \in Doc
         /\ \A doc \in Doc :
              [docs EXCEPT ![wk[w].run] = doc] \in [RunIds -> Doc]
BY InvOfWorker DEF InHand, Steps

LEMMA ExitsKeep ==
  ASSUME WorkerInv, NEW w \in Workers, wk[w].pc \notin {"idle", "dead"},
         NEW code \in 0..6, Exits(w, code),
         docs' \in [RunIds -> Doc], merges' \in [RunIds -> Nat],
         UNCHANGED <<jobs, started, api, crashes, overruns>>
  PROVE  WorkerInv'
<1> DEFINE new == [wk[w] EXCEPT !.pc = "exited", !.exit = code]
<1>1. new \in Steps /\ InHand(new, JobIds)
  BY GoesOn DEF PCs
<1>2. StageFrame(w, new)
  BY DEF Exits, StageFrame
<1> HIDE DEF new
<1> QED
  BY <1>1, <1>2, StageMoves

LEMMA SavesAndExits ==
  ASSUME WorkerInv, NEW w \in Workers, wk[w].pc \notin {"idle", "dead"},
         NEW doc \in Doc, Emit(w, doc), NEW code \in 0..6, Exits(w, code),
         UNCHANGED <<jobs, merges, started, api, crashes, overruns>>
  PROVE  WorkerInv'
<1>1. docs' \in [RunIds -> Doc] /\ merges' \in [RunIds -> Nat]
  BY DocInHand, InvOfWorker DEF Emit
<1> QED
  BY <1>1, ExitsKeep

LEMMA GoesToKeeps ==
  ASSUME WorkerInv, NEW w \in Workers, wk[w].pc \notin {"idle", "dead"},
         NEW pc \in PCs \ {"enqueue"}, wk' = [wk EXCEPT ![w].pc = pc],
         docs' \in [RunIds -> Doc], merges' \in [RunIds -> Nat],
         UNCHANGED <<jobs, started, api, crashes, overruns>>
  PROVE  WorkerInv'
<1> DEFINE new == [wk[w] EXCEPT !.pc = pc]
<1>1. new \in Steps /\ InHand(new, JobIds)
  BY GoesOn
<1>2. StageFrame(w, new)
  BY DEF StageFrame
<1> HIDE DEF new
<1> QED
  BY <1>1, <1>2, StageMoves

-----------------------------------------------------------------------------
(* The stage process, action by action. *)

LEMMA LoadRunKeeps ==
  ASSUME WorkerInv, NEW w \in Workers, LoadRun(w)
  PROVE  WorkerInv'
<1>1. /\ wk[w].pc \notin {"idle", "dead"}
      /\ docs' \in [RunIds -> Doc] /\ merges' \in [RunIds -> Nat]
      /\ UNCHANGED <<jobs, started, api, crashes, overruns>>
  BY InvOfWorker DEF LoadRun
<1>2. CASE Exits(w, 1)
  BY <1>1, <1>2, ExitsKeep
<1>3. CASE wk' = [wk EXCEPT ![w].pc = "running", ![w].doc = docs[wk[w].run]]
  <2> DEFINE new == [wk[w] EXCEPT !.pc = "running", !.doc = docs[wk[w].run]]
  <2>1. new \in Steps /\ InHand(new, JobIds)
    BY <1>1, DocInHand, GoesOn DEF PCs
  <2>2. StageFrame(w, new)
    BY <1>1, <1>3 DEF StageFrame
  <2> HIDE DEF new
  <2> QED
    BY <2>1, <2>2, StageMoves
<1> QED
  BY <1>2, <1>3 DEF LoadRun

LEMMA PlanKeeps ==
  ASSUME WorkerInv, NEW w \in Workers, NEW r \in Runs, Plan(w, r)
  PROVE  WorkerInv'
<1> DEFINE new == [wk[w] EXCEPT !.pc = "exited", !.run = r]
<1>1. r \in RunIds /\ wk[w].pc \notin {"idle", "dead"}
  BY RunIdsAssumption DEF Plan, Running
<1>2. new \in Steps /\ InHand(new, JobIds)
  BY <1>1, GoesOn DEF PCs
<1>3. docs' \in [RunIds -> Doc] /\ merges' \in [RunIds -> Nat]
  BY <1>1, InvOfWorker, DocsWritten DEF Plan
<1>4. StageFrame(w, new)
  BY <1>3 DEF StageFrame, Plan
<1> HIDE DEF new
<1> QED
  BY <1>2, <1>4, StageMoves

LEMMA RecordDecisionKeeps ==
  ASSUME WorkerInv, NEW w \in Workers, NEW stages \in SUBSET (GATES \union Recorders),
         NEW decision \in {"approved", "rejected"},
         RecordDecision(w, stages, decision)
  PROVE  WorkerInv'
<1> DEFINE doc == Resumed(docs[wk[w].run], GateOf(wk[w].stage), decision)
           new == [wk[w] EXCEPT !.pc = "recorded", !.doc = doc]
<1>1. wk[w].pc \notin {"idle", "dead"} /\ GateOf(wk[w].stage) \in REQUIRED_GATES
  BY GateOfIsAGate DEF RecordDecision, Running
<1>2. doc \in Doc
  BY <1>1, DocInHand, DocsWritten
<1>3. Emit(w, doc) /\ wk' = [wk EXCEPT ![w].pc = "recorded", ![w].doc = doc]
      /\ UNCHANGED <<jobs, merges, started, api, crashes, overruns>>
  BY DEF RecordDecision
<1> HIDE DEF doc
<1>4. new \in Steps /\ InHand(new, JobIds)
  BY <1>1, <1>2, GoesOn DEF PCs
<1>5. docs' \in [RunIds -> Doc] /\ merges' \in [RunIds -> Nat]
  BY <1>1, <1>2, <1>3, DocInHand, InvOfWorker DEF Emit
<1>6. StageFrame(w, new)
  BY <1>3, <1>5 DEF StageFrame
<1> HIDE DEF new
<1> QED
  BY <1>4, <1>6, StageMoves

LEMMA StageStepKeeps ==
  ASSUME WorkerInv, NEW w \in Workers, StageStep(w)
  PROVE  WorkerInv'
<1>1. CASE RecordApproval(w)
  BY <1>1, RecordDecisionKeeps DEF RecordApproval
<1>2. CASE RecordRefusal(w)
  BY <1>2, RecordDecisionKeeps DEF RecordRefusal
<1>3. CASE EmitDecision(w)
  <2>1. wk[w].pc \notin {"idle", "dead"}
    BY <1>3 DEF EmitDecision
  <2>2. (IF wk[w].stage \in GATES THEN 0 ELSE 4) \in 0..6
    OBVIOUS
  <2> QED
    BY <1>3, <2>1, <2>2, DocInHand, SavesAndExits DEF EmitDecision
<1>4. CASE DeclineEnded(w)
  <2>1. wk[w].pc \notin {"idle", "dead"} /\ 5 \in 0..6
    BY <1>4 DEF DeclineEnded, Running
  <2> QED
    BY <1>4, <2>1, DocInHand, SavesAndExits DEF DeclineEnded
<1>5. ASSUME NEW outcome \in DevelopOutcomes, Develop(w, outcome)
      PROVE  WorkerInv'
  <2>1. wk[w].pc \notin {"idle", "dead"}
    BY <1>5 DEF Develop, Running
  <2>2. (CASE outcome = "blocked" -> 3 [] outcome = "unapproved" -> 4
           [] outcome = "cleared" -> 0) \in 0..6
    BY DEF DevelopOutcomes
  <2>3. Developed(wk[w].doc, outcome) \in Doc
    BY <2>1, DocInHand, DocsWritten
  <2> QED
    BY <1>5, <2>1, <2>2, <2>3, SavesAndExits DEF Develop
<1>6. ASSUME NEW verdict \in {"go", "no_go"}, Sre(w, verdict)
      PROVE  WorkerInv'
  <2>1. wk[w].pc \notin {"idle", "dead"}
    BY <1>6 DEF Sre, Running
  <2>2. (IF verdict = "no_go" THEN 4 ELSE 0) \in 0..6
    OBVIOUS
  <2>3. Checked(wk[w].doc, verdict) \in Doc
    BY <2>1, DocInHand, DocsWritten
  <2> QED
    BY <1>6, <2>1, <2>2, <2>3, SavesAndExits DEF Sre
<1>7. CASE RefusePromotion(w)
  <2>1. wk[w].pc \notin {"idle", "dead"} /\ 6 \in 0..6
    BY <1>7 DEF RefusePromotion, Running
  <2>2. [wk[w].doc EXCEPT !.status = "failed"] \in Doc
    BY <2>1, DocInHand, DocsWritten
  <2> QED
    BY <1>7, <2>1, <2>2, SavesAndExits DEF RefusePromotion
<1>8. CASE Merge(w)
  <2>1. wk[w].pc \notin {"idle", "dead"} /\ "merged" \in PCs \ {"enqueue"}
    BY <1>8 DEF Merge, Running, PCs
  <2>2. docs' \in [RunIds -> Doc] /\ merges' \in [RunIds -> Nat]
    BY <1>8, <2>1, InvOfWorker, DocInHand DEF Merge
  <2> QED
    BY <1>8, <2>1, <2>2, GoesToKeeps DEF Merge
<1>9. CASE EmitPromoted(w)
  <2>1. wk[w].pc \notin {"idle", "dead"} /\ 0 \in 0..6
    BY <1>9 DEF EmitPromoted
  <2>2. [wk[w].doc EXCEPT !.status = "promoted"] \in Doc
    BY <2>1, DocInHand, DocsWritten
  <2> QED
    BY <1>9, <2>1, <2>2, SavesAndExits DEF EmitPromoted
<1>10. CASE StageCrashes(w)
  <2>1. wk[w].pc \notin {"idle", "dead"} /\ 1 \in 0..6
    BY <1>10 DEF StageCrashes
  <2>2. docs' \in [RunIds -> Doc] /\ merges' \in [RunIds -> Nat]
    BY <1>10, InvOfWorker DEF StageCrashes
  <2> QED
    BY <1>10, <2>1, <2>2, ExitsKeep DEF StageCrashes
<1> QED
  BY <1>1, <1>2, <1>3, <1>4, <1>5, <1>6, <1>7, <1>8, <1>9, <1>10,
     LoadRunKeeps, PlanKeeps DEF StageStep

LEMMA StageLeavesTheTable ==
  ASSUME NEW w \in Workers, StageStep(w)
  PROVE  UNCHANGED jobs
BY DEF StageStep, LoadRun, Plan, RecordApproval, RecordRefusal, RecordDecision,
       EmitDecision, DeclineEnded, Develop, Sre, RefusePromotion, Merge,
       EmitPromoted, StageCrashes

-----------------------------------------------------------------------------
(* The worker's own steps, each with the table's step it is. *)

LEMMA ClaimJobKeeps ==
  ASSUME WorkerInv, NEW w \in Workers, NEW j \in JobIds, ClaimJob(w, j)
  PROVE  QueueNext /\ WorkerInv'
<1> DEFINE again == jobs'[j].reclaimed_from # Nobody
           new == [pc |-> "claimed", job |-> j, run |-> jobs[j].run,
                   stage |-> jobs[j].stage, reclaimed |-> again,
                   doc |-> Absent, exit |-> 0]
<1>1. QueueNext
  BY CallsOfTheFleet DEF ClaimJob
<1>2. jobs[j] \in Job /\ j \in 0..MaxJobs
  BY InvOfWorker, RowsAreJobs, TableGrows, <1>1 DEF TypeOK
<1>3. new \in Steps
  <2>1. again \in BOOLEAN
    BY Zenon
  <2> HIDE DEF again
  <2>2. jobs[j].run \in RunIds \union {Nobody} /\ jobs[j].stage \in Stages \union {""}
    BY <1>2 DEF Job
  <2>3. "claimed" \in PCs /\ 0 \in 0..6 /\ Absent \in Doc
    BY DocsWritten DEF PCs
  <2> QED
    BY <1>2, <2>1, <2>2, <2>3, Zenon DEF Steps
<1>4. InHand(new, JobIds)
  BY <1>2 DEF InHand, Job
<1>5. wk' = [wk EXCEPT ![w] = new] /\ docs' \in [RunIds -> Doc]
      /\ merges' \in [RunIds -> Nat] /\ crashes' \in 0..MaxCrashes
      /\ UNCHANGED <<started, api, overruns>>
  BY InvOfWorker DEF ClaimJob, api
<1> HIDE DEF new
<1> QED
  BY <1>1, <1>3, <1>4, <1>5, WorkerMoves

LEMMA CheckEvidenceKeeps ==
  ASSUME WorkerInv, NEW w \in Workers, CheckEvidence(w)
  PROVE  UNCHANGED jobs /\ WorkerInv'
<1> DEFINE pc == IF already_ran(w) THEN "skip" ELSE "start"
<1>1. wk' = [wk EXCEPT ![w].pc = pc] /\ pc \in PCs \ {"enqueue"}
      /\ wk[w].pc \notin {"idle", "dead"}
  BY DEF CheckEvidence, PCs
<1>2. docs' \in [RunIds -> Doc] /\ merges' \in [RunIds -> Nat]
      /\ UNCHANGED <<jobs, started, api, crashes, overruns>>
  BY InvOfWorker DEF CheckEvidence
<1> HIDE DEF pc
<1> QED
  BY <1>1, <1>2, GoesToKeeps

LEMMA AdoptKeeps ==
  ASSUME WorkerInv, NEW w \in Workers, Adopt(w)
  PROVE  QueueNext /\ WorkerInv'
<1> DEFINE new == [wk[w] EXCEPT !.pc = "adopted"]
<1>1. wk[w].pc \notin {"idle", "dead"} /\ "adopted" \in PCs \ {"enqueue"}
  BY DEF Adopt, PCs
<1>2. wk[w].job \in JobIds /\ wk[w].run \in RunIds
  BY <1>1, InvOfWorker DEF InHand
<1>3. QueueNext
  BY <1>2, CallsOfTheFleet DEF Adopt
<1>4. new \in Steps /\ InHand(new, JobIds)
  BY <1>1, GoesOn
<1>5. wk' = [wk EXCEPT ![w] = new] /\ docs' \in [RunIds -> Doc]
      /\ merges' \in [RunIds -> Nat] /\ crashes' \in 0..MaxCrashes
      /\ UNCHANGED <<started, api, overruns>>
  BY InvOfWorker DEF Adopt
<1> HIDE DEF new
<1> QED
  BY <1>3, <1>4, <1>5, WorkerMoves

LEMMA RecordKeeps ==
  ASSUME WorkerInv, NEW w \in Workers, NEW st \in TERMINAL_STATUSES,
         Record(w, st)
  PROVE  QueueNext /\ WorkerInv'
<1> DEFINE next == [wk[w] EXCEPT !.pc = "enqueue", !.doc = Absent]
           new == IF Advances(w, st) THEN next ELSE At("idle")
<1>1. wk[w].pc \notin {"idle", "dead"} /\ wk[w] \in Steps
      /\ wk[w].job \in JobIds /\ InHand(wk[w], JobIds)
  BY InvOfWorker DEF InHand, Record, Recording
<1>2. QueueNext
  BY <1>1, CallsOfTheFleet DEF Record
<1>3. Advances(w, st) => next \in Steps /\ InHand(next, JobIds)
  <2>1. next \in Steps
    BY <1>1, DocsWritten DEF Steps, PCs
  <2> QED
    BY <1>1, <2>1 DEF InHand, Advances, HasSuccessor, Steps
<1>4. new \in Steps /\ InHand(new, JobIds)
  BY <1>3, Idles
<1>5. wk' = [wk EXCEPT ![w] = new] /\ docs' \in [RunIds -> Doc]
      /\ merges' \in [RunIds -> Nat] /\ crashes' \in 0..MaxCrashes
      /\ UNCHANGED <<started, api, overruns>>
  BY InvOfWorker DEF Record
<1> HIDE DEF new
<1> QED
  BY <1>2, <1>4, <1>5, WorkerMoves

LEMMA EnqueueNextKeeps ==
  ASSUME WorkerInv, NEW w \in Workers, EnqueueNext(w)
  PROVE  QueueNext /\ WorkerInv'
<1>1. wk[w].run \in RunIds /\ next_stage(wk[w].stage) \in ChainStages
  <2>1. wk[w].run \in RunIds /\ wk[w].stage \in Stages \ Recorders
        /\ next_stage(wk[w].stage) # ""
    BY InvOfWorker DEF EnqueueNext, InHand
  <2>2. wk[w].stage \in ChainStages
    BY <2>1 DEF Stages
  <2> QED
    BY <2>1, <2>2, NextStageIsInChain
<1>2. QueueNext
  BY <1>1, CallsOfTheFleet DEF EnqueueNext
<1>3. wk' = [wk EXCEPT ![w] = At("idle")] /\ docs' \in [RunIds -> Doc]
      /\ merges' \in [RunIds -> Nat] /\ crashes' \in 0..MaxCrashes
      /\ UNCHANGED <<started, api, overruns>>
  BY InvOfWorker DEF EnqueueNext
<1> QED
  BY <1>2, <1>3, Idles, WorkerMoves

LEMMA DeathsKeep ==
  ASSUME WorkerInv, NEW w \in Workers, NEW pc \in {"idle", "dead"},
         wk' = [wk EXCEPT ![w] = At(pc)], crashes' \in 0..MaxCrashes,
         UNCHANGED <<jobs, docs, merges, started, api, overruns>>
  PROVE  WorkerInv'
<1>1. docs' \in [RunIds -> Doc] /\ merges' \in [RunIds -> Nat]
  BY InvOfWorker
<1> QED
  BY <1>1, Idles, WorkerMoves

-----------------------------------------------------------------------------
(* Steps of anybody but workers. *)

\* wk is left alone, and so is everything the fleet keeps about runs.
LEMMA OthersKeep ==
  ASSUME WorkerInv, [QueueNext]_jobs, UNCHANGED <<docs, wk, merges, crashes>>,
         started' \subseteq Tickets, overruns' \in 0..MaxOverruns,
         cancel' \in [run : RunIds \union {Nobody}, todo : SUBSET JobIds'],
         CancelInv', cancelled' \subseteq RunIds
  PROVE  WorkerInv'
<1>1. TypeOK' /\ JobIds \subseteq JobIds'
  BY TableGrows DEF WorkerInv, WorkerTypeOK
<1>2. WorkerTypeOK'
  BY <1>1 DEF WorkerInv, WorkerTypeOK
<1>3. \A w \in Workers : InHand(wk'[w], JobIds')
  BY <1>1 DEF WorkerInv, InHand
<1> QED
  BY <1>2, <1>3 DEF WorkerInv

\* The API's record of what it cancels stays good while the table grows.
LEMMA ApiIsKept ==
  ASSUME WorkerInv, [QueueNext]_jobs
  PROVE  /\ cancel \in [run : RunIds \union {Nobody}, todo : SUBSET JobIds']
         /\ cancel \in [run : RunIds \union {Nobody}, todo : SUBSET JobIds]
         /\ NoCancel \in [run : RunIds \union {Nobody}, todo : SUBSET JobIds']
         /\ cancel' \in {cancel, NoCancel} => CancelInv'
         /\ JobIds \subseteq JobIds'
         /\ cancelled \subseteq RunIds /\ started \subseteq Tickets
         /\ overruns \in 0..MaxOverruns
<1>1. JobIds \subseteq JobIds'
  BY TableGrows DEF WorkerInv, WorkerTypeOK
<1> QED
  BY <1>1 DEF WorkerInv, WorkerTypeOK, NoCancel, CancelInv

LEMMA StartRunKeeps ==
  ASSUME WorkerInv, NEW t \in Tickets, StartRun(t)
  PROVE  QueueNext /\ WorkerInv'
<1>1. t \in RunIds /\ "plan" \in ChainStages
  BY RunIdsAssumption DEF ChainStages, STAGE_CHAIN
<1>2. QueueNext
  BY <1>1, CallsOfTheFleet DEF StartRun
<1> QED
  BY <1>2, ApiIsKept, OthersKeep DEF StartRun

LEMMA DecideKeeps ==
  ASSUME WorkerInv, NEW r \in RunIds, NEW g \in GATES, NEW op \in Operators,
         NEW j \in JobIds, NEW decision \in {"approved", "rejected"},
         Decide(r, g, decision, op, j)
  PROVE  QueueNext /\ WorkerInv'
<1>1. QueueNext
  BY CallsOfTheFleet DEF Decide
<1> QED
  BY <1>1, ApiIsKept, OthersKeep DEF Decide, fleet, api

LEMMA LeaseLapsesKeeps ==
  ASSUME WorkerInv, NEW j \in JobIds, LeaseLapses(j)
  PROVE  QueueNext /\ WorkerInv'
<1>1. QueueNext
  BY CallsOfTheFleet DEF LeaseLapses
<1>2. overruns' \in 0..MaxOverruns
  BY <1>1, ApiIsKept, BoundsAssumption DEF LeaseLapses
<1> QED
  BY <1>1, <1>2, ApiIsKept, OthersKeep DEF LeaseLapses, api

LEMMA ApiStepKeeps ==
  ASSUME WorkerInv, ApiStep
  PROVE  [QueueNext]_jobs /\ WorkerInv'
<1>1. ASSUME NEW r \in Cancellable, CancelRun(r)
      PROVE  [QueueNext]_jobs /\ WorkerInv'
  <2>1. [QueueNext]_jobs /\ JobIds' = JobIds /\ r \in RunIds
    BY <1>1, RunIdsAssumption DEF CancelRun, JobIds
  <2>2. cancel' \in [run : RunIds \union {Nobody}, todo : SUBSET JobIds']
        /\ CancelInv'
    BY <1>1, <2>1 DEF CancelRun, CancelInv
  <2> QED
    BY <1>1, <2>1, <2>2, ApiIsKept, OthersKeep DEF CancelRun, fleet
<1>2. ASSUME NEW j \in JobIds, CancelRow(j)
      PROVE  [QueueNext]_jobs /\ WorkerInv'
  <2>1. QueueNext
    BY <1>2, CallsOfTheFleet DEF CancelRow, TERMINAL_STATUSES
  <2>2. CASE cancel.todo \ {j} = {}
    <3>1. cancel' = NoCancel /\ cancelled' = cancelled \union {cancel.run}
      BY <1>2, <2>2 DEF CancelRow
    <3>2. j \in cancel.todo
      BY <1>2 DEF CancelRow, Oldest
    <3>3. cancel.run \in RunIds
      BY <3>2 DEF WorkerInv, CancelInv
    <3> QED
      BY <1>2, <2>1, <3>1, <3>3, ApiIsKept, OthersKeep DEF CancelRow, fleet
  <2>3. CASE cancel.todo \ {j} # {}
    <3>1. cancel' = [cancel EXCEPT !.todo = cancel.todo \ {j}]
          /\ UNCHANGED cancelled
      BY <1>2, <2>3 DEF CancelRow
    <3>2. CancelInv' /\ cancel' \in [run : RunIds \union {Nobody},
                                    todo : SUBSET JobIds']
      BY <2>1, <2>3, <3>1, ApiIsKept DEF WorkerInv, CancelInv
    <3> QED
      BY <1>2, <2>1, <3>1, <3>2, ApiIsKept, OthersKeep DEF CancelRow, fleet
  <2> QED
    BY <2>2, <2>3
<1>3. ASSUME NEW j \in JobIds, CancelRefused(j)
      PROVE  [QueueNext]_jobs /\ WorkerInv'
  BY <1>3, ApiIsKept, OthersKeep DEF CancelRefused, fleet
<1> QED
  BY <1>1, <1>2, <1>3 DEF ApiStep
-----------------------------------------------------------------------------
LEMMA WorkerStepKeeps ==
  ASSUME WorkerInv, NEW w \in Workers, WorkerStep(w) \/ Crash(w)
  PROVE  [QueueNext]_jobs /\ WorkerInv'
<1>1. CASE CheckEvidence(w) \/ StageStep(w)
  <2>1. UNCHANGED jobs
    BY <1>1, CheckEvidenceKeeps, StageLeavesTheTable
  <2> QED
    BY <1>1, <2>1, CheckEvidenceKeeps, StageStepKeeps
<1>2. ASSUME NEW st \in TERMINAL_STATUSES, RecordRefused(w, st)
      PROVE  [QueueNext]_jobs /\ WorkerInv'
  BY <1>2, InvOfWorker, DeathsKeep DEF RecordRefused
<1>3. CASE Restart(w)
  BY <1>3, InvOfWorker, DeathsKeep DEF Restart
<1>4. CASE Crash(w)
  <2>1. crashes' \in 0..MaxCrashes
    BY <1>4, InvOfWorker, BoundsAssumption DEF Crash
  <2> QED
    BY <1>4, <2>1, DeathsKeep DEF Crash
<1> QED
  BY <1>1, <1>2, <1>3, <1>4, ClaimJobKeeps, AdoptKeeps, RecordKeeps,
     EnqueueNextKeeps DEF WorkerStep

LEMMA WorkerInvIsKept ==
  WorkerInv /\ [WorkerNext]_vars => [QueueNext]_jobs /\ WorkerInv'
<1>1. ASSUME WorkerInv, WorkerNext PROVE [QueueNext]_jobs /\ WorkerInv'
  BY <1>1, StartRunKeeps, WorkerStepKeeps, LeaseLapsesKeeps, DecideKeeps,
     ApiStepKeeps DEF WorkerNext, HumanStep
<1>2. ASSUME WorkerInv, UNCHANGED vars PROVE [QueueNext]_jobs /\ WorkerInv'
  BY <1>2 DEF vars, WorkerInv, WorkerTypeOK, TypeOK, JobIds, CancelInv, InHand
<1> QED
  BY <1>1, <1>2

LEMMA WorkerInvAtInit == WorkerInit => WorkerInv
<1> SUFFICES ASSUME WorkerInit PROVE WorkerInv
  OBVIOUS
<1>1. TypeOK
  BY MaxJobsAssumption, EmptySeq DEF WorkerInit, QueueInit, TypeOK
<1>2. \A w \in Workers : wk[w] \in Steps /\ InHand(wk[w], JobIds)
  BY Idles DEF WorkerInit
<1>3. WorkerTypeOK
  BY <1>1, <1>2, DocsWritten, BoundsAssumption
     DEF WorkerInit, WorkerTypeOK, NoCancel
<1>4. CancelInv
  BY DEF WorkerInit, CancelInv, NoCancel
<1> QED
  BY <1>2, <1>3, <1>4 DEF WorkerInv

LEMMA WorkerInvHolds == WorkerSpec => []WorkerInv
BY WorkerInvAtInit, WorkerInvIsKept, PTL DEF WorkerSpec

\* The fleet, the documents and the API stay well formed: a worker never works
\* on a row that is not there, and the API never cancels one.
THEOREM FleetTypeOK == WorkerSpec => []WorkerTypeOK
BY WorkerInvHolds, PTL DEF WorkerInv

\* Whatever run_one, the stages, humans and cancel_run do, in any order, with
\* any deaths and lost leases, they use the queue as JobQueue allows.
THEOREM FleetUsesTheQueue == WorkerSpec => QueueSpec
<1>1. WorkerInit => QueueInit
  BY DEF WorkerInit
<1> QED
  BY <1>1, WorkerInvIsKept, WorkerInvHolds, PTL DEF WorkerSpec, QueueSpec

\* So no worker ever runs a gate, or the recorder of a refusal, that no named
\* human released.
THEOREM FleetGatesHold == WorkerSpec => []NoGateRunsUndecided
BY FleetUsesTheQueue, GatesHold, PTL

\* And no stage of a run is ever on the queue twice: what a second start, a
\* reclaimed plan or a late rename might have made of it.
THEOREM FleetStagesAreUnique == WorkerSpec => []OneRowPerStage
BY FleetUsesTheQueue, StagesAreUnique, PTL

\* And a stage that ended stays as it ended, whoever else was working on it.
THEOREM FleetEndingsAreFinal == WorkerSpec => TerminalIsFinal
BY FleetUsesTheQueue, EndingsAreFinal, PTL
=============================================================================
