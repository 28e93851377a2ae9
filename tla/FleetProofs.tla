----------------------------- MODULE FleetProofs -----------------------------
(***************************************************************************)
(* Proofs about what the fleet does to a run: it is in one place at a      *)
(* time, it is merged only after three gates, and what humans refuse or    *)
(* cancel stays refused and cancelled, with leases lost under living       *)
(* workers and deaths at any point.                                        *)
(*                                                                         *)
(* The argument reads the table by run: every row of a run has a position  *)
(* in the chain of its own, only the furthest one may be live, and each    *)
(* one past the first gate was put there by a row below it that is done    *)
(* for good.  What has to hold of the workers for that to be kept is       *)
(* MintSound and HandOver: a run id plan minted is one worker's until its  *)
(* first gate is on the queue, and a worker about to enqueue a stage is    *)
(* the only one to hold the run.                                           *)
(***************************************************************************)
EXTENDS WorkerProofs

-----------------------------------------------------------------------------
(* The inductive invariant. *)

\* Where a stage stands in STAGE_CHAIN; a recorder stands where its gate does.
Position(s) ==
  CASE s = "plan" -> 1
    [] s \in {"gate1", "gate1-rejected"} -> 2
    [] s = "develop" -> 3
    [] s \in {"gate2", "gate2-rejected"} -> 4
    [] s = "sre" -> 5
    [] s \in {"gate3", "gate3-rejected"} -> 6
    [] s = "promote" -> 7

Place(j) == Position(jobs[j].stage)

SameRun(i, j) == jobs[i].run = jobs[j].run

Busy(w) == wk[w].pc \notin {"idle", "dead"}

\* A run id no start_run and no plan can hand out any more.
Saved(r) == r \in Runs => docs[r].status # "absent"
Known(r) == Saved(r) /\ (r \in Tickets => r \in started)

\* A row waits only at a gate nobody decided, and no gate is done undecided.
GateSound(job) ==
  /\ job.status = "paused" =>
       /\ job.stage \in GATES /\ job.awaiting_gate = job.stage
       /\ job.decided_by = Nobody
  /\ job.stage \in GATES /\ job.status = "done" => job.decided_by # Nobody

RowSound(j) ==
  /\ GateSound(jobs[j])
  /\ Known(jobs[j].run)
  /\ jobs[j].run \in Tickets => jobs[j].stage = "plan"

\* What a worker works on is what its row says; only plan may have been renamed.
HandSound(w) ==
  Busy(w) =>
    /\ jobs[wk[w].job].status # "paused"
    /\ jobs[wk[w].job].stage = wk[w].stage
    /\ wk[w].stage # "plan" => jobs[wk[w].job].run = wk[w].run
    /\ wk[w].pc \in {"recorded", "merged"} => wk[w].stage # "plan"
    /\ wk[w].pc \in {"running", "recorded", "merged"} /\ wk[w].stage # "plan" =>
         wk[w].doc.status # "absent"
    /\ wk[w].pc = "adopted" => wk[w].stage = "plan" /\ wk[w].exit = 0

\* w's plan stage minted r, and r has no row of its own yet.
Minted(w, r) ==
  /\ wk[w].stage = "plan" /\ wk[w].run = r
  /\ \/ wk[w].pc = "exited" /\ wk[w].exit = 0
     \/ wk[w].pc \in {"adopted", "enqueue"}

MintSound ==
  \A w \in Workers, r \in RunIds : Minted(w, r) =>
    /\ r \in Runs /\ Known(r)
    /\ \A v \in Workers : Minted(v, r) => v = w
    /\ \A j \in JobIds : jobs[j].run = r => j = wk[w].job

\* One row of a run at each position, the furthest alone live, and each past
\* the first gate preceded by one that is done.
Distinct ==
  \A i, j \in JobIds : SameRun(i, j) /\ Place(i) = Place(j) => i = j

Latest ==
  \A i, j \in JobIds : SameRun(i, j) /\ Live(j) => Place(i) <= Place(j)

Below ==
  \A j \in JobIds : Place(j) > 2 =>
    \E i \in JobIds :
      /\ SameRun(i, j) /\ Place(i) + 1 = Place(j)
      /\ jobs[i].stage \in ChainStages /\ jobs[i].status = "done"

\* w is about to enqueue the stage after its own.
GoingOn(w, r) == wk[w].pc = "enqueue" /\ wk[w].run = r

HandOver ==
  \A w \in Workers, r \in RunIds : GoingOn(w, r) =>
    /\ \A j \in JobIds :
         jobs[j].run = r => ~Live(j) /\ Place(j) <= Position(wk[w].stage)
    /\ wk[w].stage # "plan" => jobs[wk[w].job].status = "done"
    /\ \A v \in Workers : GoingOn(v, r) => v = w

\* Nothing but the row j keeps r going.
LastOf(r, j) ==
  /\ Known(r)
  /\ \A w \in Workers : ~GoingOn(w, r)
  /\ \A w \in Workers : Minted(w, r) => wk[w].job = j
  /\ \A i \in JobIds : jobs[i].run = r /\ Live(i) => i = j

\* Nothing keeps r going.
Over(r) ==
  /\ Known(r)
  /\ \A w \in Workers : ~GoingOn(w, r)
  /\ \A w \in Workers : Minted(w, r) => ~Live(wk[w].job)
  /\ \A i \in JobIds : jobs[i].run = r => ~Live(i)

CancelSound ==
  /\ \A i, j \in cancel.todo : i = j
  /\ \A j \in cancel.todo : Live(j) => LastOf(cancel.run, j)

CancelledSound == \A r \in cancelled : Over(r)

MergeSound ==
  \A r \in RunIds : merges[r] > 0 =>
    \E j \in JobIds : jobs[j].run = r /\ Place(j) = 7

FleetInv ==
  /\ \A j \in JobIds : RowSound(j)
  /\ \A w \in Workers : HandSound(w)
  /\ MintSound /\ HandOver
  /\ Distinct /\ Latest /\ Below
  /\ CancelSound /\ CancelledSound /\ MergeSound

\* With what the queue and the types guarantee already.
Sound == WorkerInv /\ RowInvariant /\ FleetInv

-----------------------------------------------------------------------------
(* The chain. *)

LEMMA NamedPositions ==
  /\ Position("plan") = 1 /\ Position("develop") = 3 /\ Position("sre") = 5
  /\ Position("promote") = 7
  /\ Position("gate1") = 2 /\ Position("gate1-rejected") = 2
  /\ Position("gate2") = 4 /\ Position("gate2-rejected") = 4
  /\ Position("gate3") = 6 /\ Position("gate3-rejected") = 6
BY DEF Position

LEMMA Positions ==
  /\ \A s \in Stages :
       /\ Position(s) \in 1..7
       /\ Position(s) = 1 <=> s = "plan"
       /\ Position(s) = 7 <=> s = "promote"
       /\ s \notin ChainStages <=> s \in Recorders
       /\ s \in GATES => Position(s) \in {2, 4, 6}
       /\ s \in Recorders => Position(s) \in {2, 4, 6}
  /\ \A g \in GATES : /\ REJECTION_STAGES[g] \in Recorders
                      /\ Position(REJECTION_STAGES[g]) = Position(g)
  /\ \A s, t \in ChainStages : Position(s) = Position(t) => s = t
<1>1. ChainStages =
        {"plan", "gate1", "develop", "gate2", "sre", "gate3", "promote"}
  BY DEF ChainStages, STAGE_CHAIN
<1>2. Stages = {"plan", "gate1", "develop", "gate2", "sre", "gate3", "promote",
                "gate1-rejected", "gate2-rejected", "gate3-rejected"}
  BY <1>1 DEF Stages, Recorders
<1>3. /\ REJECTION_STAGES["gate1"] = "gate1-rejected"
      /\ REJECTION_STAGES["gate2"] = "gate2-rejected"
      /\ REJECTION_STAGES["gate3"] = "gate3-rejected"
  BY DEF REJECTION_STAGES, GATES
<1>4. ASSUME NEW s \in Stages
      PROVE  /\ Position(s) \in 1..7
             /\ Position(s) = 1 <=> s = "plan"
             /\ Position(s) = 7 <=> s = "promote"
             /\ s \notin ChainStages <=> s \in Recorders
             /\ s \in GATES => Position(s) \in {2, 4, 6}
             /\ s \in Recorders => Position(s) \in {2, 4, 6}
  BY <1>1, <1>2, NamedPositions DEF Recorders, GATES
<1>5. ASSUME NEW g \in GATES
      PROVE  /\ REJECTION_STAGES[g] \in Recorders
             /\ Position(REJECTION_STAGES[g]) = Position(g)
  BY <1>3, NamedPositions DEF Recorders, GATES
<1>6. ASSUME NEW s \in ChainStages, NEW t \in ChainStages, Position(s) = Position(t)
      PROVE  s = t
  BY <1>1, <1>6, NamedPositions
<1> QED
  BY <1>4, <1>5, <1>6

LEMMA PositionInChain == \A k \in 1..7 : Position(STAGE_CHAIN[k]) = k
<1>1. /\ STAGE_CHAIN[1] = "plan" /\ STAGE_CHAIN[2] = "gate1"
      /\ STAGE_CHAIN[3] = "develop" /\ STAGE_CHAIN[4] = "gate2"
      /\ STAGE_CHAIN[5] = "sre" /\ STAGE_CHAIN[6] = "gate3"
      /\ STAGE_CHAIN[7] = "promote"
  BY DEF STAGE_CHAIN
<1>2. 1..7 = {1, 2, 3, 4, 5, 6, 7}
  OBVIOUS
<1> QED
  BY <1>1, <1>2, NamedPositions

LEMMA NextPosition ==
  ASSUME NEW s \in ChainStages, next_stage(s) # ""
  PROVE  next_stage(s) \in ChainStages
         /\ Position(next_stage(s)) = Position(s) + 1
<1> DEFINE i == CHOOSE k \in 1..7 : STAGE_CHAIN[k] = s
<1>1. i \in 1..7 /\ STAGE_CHAIN[i] = s
  <2>1. \E k \in 1..7 : STAGE_CHAIN[k] = s
    BY DEF ChainStages
  <2> QED
    BY <2>1
<1>2. next_stage(s) = IF i = 7 THEN "" ELSE STAGE_CHAIN[i + 1]
  BY DEF next_stage
<1> HIDE DEF i
<1>3. i # 7 /\ next_stage(s) = STAGE_CHAIN[i + 1]
  BY <1>2, Zenon
<1>4. i + 1 \in 1..7
  BY <1>1, <1>3, LaterPosition, Zenon
<1>5. Position(s) = i /\ Position(next_stage(s)) = i + 1
  BY <1>1, <1>3, <1>4, PositionInChain, Zenon
<1> QED
  BY <1>5, NextStageIsInChain

-----------------------------------------------------------------------------
(* A row that moves without changing its place. *)

Still(old, new) ==
  /\ new.run = old.run
  /\ Position(new.stage) = Position(old.stage)
  /\ old.status # "paused" => new.stage = old.stage /\ new.status # "paused"
  /\ old.stage \notin GATES => new.stage = old.stage
  /\ old.status \in TERMINAL_STATUSES => new.status = old.status
  /\ GateSound(new)

LEMMA LeasedStill ==
  ASSUME NEW old \in Job, old.status \in {"ready", "claimed"}, NEW w \in Workers
  PROVE  Leased(old, w) \in Job /\ Still(old, Leased(old, w))
<1>1. Leased(old, w) \in Job
  BY DEF Leased, Job, JobStatus
<1> QED
  BY <1>1 DEF Leased, Job, Still, GateSound, TERMINAL_STATUSES

LEMMA EndedStill ==
  ASSUME NEW old \in Job, NEW st \in TERMINAL_STATUSES, RowDecided(old),
         old.status \notin TERMINAL_STATUSES,
         old.status # "paused" \/ st # "done"
  PROVE  Ended(old, st) \in Job /\ Still(old, Ended(old, st))
<1>1. Ended(old, st) \in Job
  BY DEF Ended, Job, JobStatus
<1>2. old.status \in {"ready", "claimed", "paused"}
  BY DEF Job, JobStatus
<1> QED
  BY <1>1, <1>2
     DEF Ended, Job, Still, GateSound, TERMINAL_STATUSES, RowDecided

LEMMA ReleasedStill ==
  ASSUME NEW old \in Job, old.status = "paused", GateSound(old),
         NEW g \in GATES, old.awaiting_gate = g, NEW op \in Operators,
         NEW decision \in {"approved", "rejected"}
  PROVE  Released(old, g, decision, op) \in Job
         /\ Still(old, Released(old, g, decision, op))
<1>1. old.stage = g /\ op # Nobody
  BY NobodyAssumption DEF GateSound
<1>2. /\ REJECTION_STAGES[g] \in Recorders
      /\ Position(REJECTION_STAGES[g]) = Position(g)
      /\ REJECTION_STAGES[g] \in Stages
  BY Positions DEF Stages
<1>3. Released(old, g, decision, op) \in Job
  BY <1>2 DEF Released, Job, JobStatus
<1> QED
  BY <1>1, <1>2, <1>3
     DEF Released, Job, Still, GateSound, TERMINAL_STATUSES

LEMMA ExpiredStill ==
  ASSUME NEW old \in Job, old.lease = "live", RowHolder(old)
  PROVE  LET new == [old EXCEPT !.lease = "expired"]
         IN  new \in Job /\ Still(old, new)
BY DEF RowHolder, Job, Still, GateSound, TERMINAL_STATUSES

-----------------------------------------------------------------------------
(* The table, when no row changes its place. *)

StillTable ==
  JobIds' = JobIds /\ \A j \in JobIds : Still(jobs[j], jobs'[j])

LEMMA RowsOfRuns ==
  ASSUME Sound
  PROVE  /\ jobs \in Seq(Job) /\ TypeOK
         /\ \A j \in JobIds :
              /\ jobs[j] \in Job /\ jobs[j].stage \in Stages
              /\ Place(j) \in 1..7
              /\ RowHolder(jobs[j]) /\ RowDecided(jobs[j])
              /\ GateSound(jobs[j])
<1>1. jobs \in Seq(Job) /\ TypeOK /\ \A j \in JobIds : jobs[j] \in Job
  BY RowsAreJobs DEF Sound, RowInvariant, TypeOK
<1>2. \A j \in JobIds : RowHolder(jobs[j]) /\ RowDecided(jobs[j])
  BY RowsOfInvariants DEF Sound, RowInvariant
<1>3. \A j \in JobIds : jobs[j].stage \in Stages
  BY <1>1 DEF Job
<1> QED
  BY <1>1, <1>2, <1>3, Positions DEF Sound, FleetInv, RowSound, Place

LEMMA OneRowStill ==
  ASSUME Sound, NEW j \in JobIds, NEW new \in Job, Still(jobs[j], new),
         RowBecomes(j, new)
  PROVE  StillTable
<1>1. \A i \in JobIds : Still(jobs[i], jobs[i])
  BY RowsOfRuns DEF Still
<1>2. JobIds' = JobIds /\ jobs'[j] = new
      /\ \A i \in JobIds \ {j} : jobs'[i] = jobs[i]
  BY RowsOfRuns, ReplaceRow
<1> QED
  BY <1>1, <1>2 DEF StillTable

LEMMA NoRowMoves ==
  ASSUME Sound, UNCHANGED jobs
  PROVE  StillTable
BY RowsOfRuns DEF StillTable, Still, JobIds

LEMMA TableIsKept ==
  ASSUME Sound, StillTable, \A r \in RunIds : Known(r) => Known(r)'
  PROVE  /\ \A j \in JobIds' : RowSound(j)'
         /\ Distinct' /\ Latest' /\ Below'
         /\ merges' = merges => MergeSound'
<1>1. \A j \in JobIds :
        /\ jobs'[j].run = jobs[j].run /\ jobs[j].run \in RunIds
        /\ Place(j)' = Place(j)
        /\ Live(j)' => Live(j)
  BY RowsOfRuns DEF StillTable, Still, Place, Live, Job
<1>2. JobIds' = JobIds
  BY DEF StillTable
<1>3. ASSUME NEW j \in JobIds
      PROVE  RowSound(j)'
  <2>1. RowSound(j)
    BY DEF Sound, FleetInv
  <2>2. GateSound(jobs'[j]) /\ (jobs[j].stage = "plan" => jobs'[j].stage = "plan")
    BY DEF StillTable, Still, GATES
  <2>3. Known(jobs[j].run)'
    BY <1>1, <2>1 DEF RowSound
  <2> QED
    BY <1>1, <2>1, <2>2, <2>3 DEF RowSound
<1>4. Distinct' /\ Latest'
  BY <1>1, <1>2 DEF Sound, FleetInv, Distinct, Latest, SameRun
<1>5. Below'
  <2>1. \A i \in JobIds :
          jobs[i].status = "done" =>
            jobs'[i].status = "done" /\ jobs'[i].stage = jobs[i].stage
    BY DEF StillTable, Still, TERMINAL_STATUSES
  <2> QED
    BY <1>1, <1>2, <2>1 DEF Sound, FleetInv, Below, SameRun
<1>6. merges' = merges => MergeSound'
  BY <1>1, <1>2 DEF Sound, FleetInv, MergeSound
<1> QED
  BY <1>2, <1>3, <1>4, <1>5, <1>6

-----------------------------------------------------------------------------
(* The workers, when none takes a run over. *)

StillHands ==
  \A w \in Workers, r \in RunIds :
    /\ Minted(w, r)' => Minted(w, r) /\ wk'[w].job = wk[w].job
    /\ GoingOn(w, r)' => /\ GoingOn(w, r) /\ wk'[w].job = wk[w].job
                         /\ wk'[w].stage = wk[w].stage

StillRuns == \A r \in RunIds : Known(r) => Known(r)'

LEMMA WorkersHands ==
  ASSUME Sound, NEW w \in Workers
  PROVE  /\ HandSound(w) /\ wk[w] \in Steps
         /\ Busy(w) => wk[w].job \in JobIds /\ wk[w].run \in RunIds
                       /\ wk[w].stage \in Stages
         /\ \A r \in RunIds : Minted(w, r) \/ GoingOn(w, r) => Busy(w)
BY InvOfWorker DEF Sound, FleetInv, InHand, Busy, Minted, GoingOn

LEMMA LiveRows ==
  ASSUME Sound, StillTable, NEW j \in JobIds
  PROVE  /\ jobs'[j].run = jobs[j].run /\ Place(j)' = Place(j)
         /\ Live(j)' => Live(j)
         /\ jobs[j].status = "done" => jobs'[j].status = "done"
BY DEF StillTable, Still, Place, Live, TERMINAL_STATUSES

LEMMA MintIsKept ==
  ASSUME Sound, StillTable, StillHands, StillRuns
  PROVE  MintSound'
<1>1. \A j \in JobIds : jobs'[j].run = jobs[j].run
  BY LiveRows
<1>2. JobIds' = JobIds
  BY DEF StillTable
<1> QED
  BY <1>1, <1>2 DEF Sound, FleetInv, MintSound, StillHands, StillRuns

LEMMA HandOverIsKept ==
  ASSUME Sound, StillTable, StillHands
  PROVE  HandOver'
<1>1. JobIds' = JobIds
  BY DEF StillTable
<1> SUFFICES ASSUME NEW w \in Workers, NEW r \in RunIds, GoingOn(w, r)'
             PROVE
    /\ \A j \in JobIds : jobs'[j].run = r =>
          ~Live(j)' /\ Place(j)' <= Position(wk'[w].stage)
    /\ wk'[w].stage # "plan" => jobs'[wk'[w].job].status = "done"
    /\ \A v \in Workers : GoingOn(v, r)' => v = w
  BY <1>1 DEF HandOver
<1>2. /\ GoingOn(w, r) /\ wk'[w].job = wk[w].job
      /\ wk'[w].stage = wk[w].stage /\ wk[w].job \in JobIds
  BY WorkersHands DEF StillHands
<1> QED
  BY <1>2, LiveRows DEF Sound, FleetInv, HandOver, StillHands

LEMMA ClaimsOnRuns ==
  ASSUME Sound, StillTable, StillHands, NEW r \in RunIds
  PROVE  /\ JobIds' = JobIds
         /\ \A w \in Workers :
              /\ Minted(w, r)' => /\ Minted(w, r) /\ wk'[w].job = wk[w].job
                                  /\ wk[w].job \in JobIds
              /\ GoingOn(w, r)' => GoingOn(w, r)
BY WorkersHands DEF StillHands, StillTable

LEMMA OverStays ==
  ASSUME Sound, StillTable, StillHands, StillRuns, NEW r \in RunIds, Over(r)
  PROVE  Over(r)'
BY ClaimsOnRuns, LiveRows DEF Over, StillRuns

LEMMA LastStays ==
  ASSUME Sound, StillTable, StillHands, StillRuns, NEW r \in RunIds,
         NEW j \in JobIds, LastOf(r, j)
  PROVE  LastOf(r, j)' /\ (~Live(j)' => Over(r)')
BY ClaimsOnRuns, LiveRows DEF LastOf, Over, StillRuns

LEMMA CancelIsKept ==
  ASSUME Sound, StillTable, StillHands, StillRuns
  PROVE  /\ cancel' \in {cancel, NoCancel} => CancelSound'
         /\ cancelled' = cancelled => CancelledSound'
<1>1. ASSUME cancel' = cancel, NEW r \in RunIds, r = cancel.run,
             NEW j \in cancel.todo, Live(j)'
      PROVE  LastOf(r, j)'
  <2>1. j \in JobIds
    BY DEF Sound, WorkerInv, WorkerTypeOK
  <2>2. LastOf(r, j)
    BY <1>1, <2>1, LiveRows DEF Sound, FleetInv, CancelSound
  <2> QED
    BY <2>1, <2>2, LastStays
<1>2. cancel' = cancel => CancelSound'
  <2>1. cancel.todo # {} => cancel.run \in RunIds
    BY DEF Sound, WorkerInv, CancelInv
  <2> QED
    BY <1>1, <2>1 DEF Sound, FleetInv, CancelSound, LastOf
<1>3. cancel' = NoCancel => CancelSound'
  BY DEF CancelSound, NoCancel
<1>4. cancelled \subseteq RunIds
  BY DEF Sound, WorkerInv, WorkerTypeOK
<1>5. cancelled' = cancelled => CancelledSound'
  BY <1>4, OverStays DEF Sound, FleetInv, CancelledSound
<1> QED
  BY <1>2, <1>3, <1>5

LEMMA StillStepKeeps ==
  ASSUME Sound, StillTable, StillHands, StillRuns,
         \A w \in Workers : HandSound(w)',
         cancel' \in {cancel, NoCancel}, cancelled' = cancelled,
         merges' = merges \/ MergeSound'
  PROVE  FleetInv'
BY TableIsKept, MintIsKept, HandOverIsKept, CancelIsKept DEF FleetInv, StillRuns

LEMMA HandsUnmoved ==
  ASSUME Sound, StillTable, NEW w \in Workers, wk'[w] = wk[w]
  PROVE  HandSound(w)'
<1> SUFFICES ASSUME Busy(w)
             PROVE  /\ jobs'[wk[w].job].status # "paused"
                    /\ jobs'[wk[w].job].stage = jobs[wk[w].job].stage
                    /\ jobs'[wk[w].job].run = jobs[wk[w].job].run
  BY WorkersHands DEF HandSound, Busy
<1> QED
  BY WorkersHands DEF HandSound, StillTable, Still

\* Nobody but w moves, and w is out of work, or goes on short of the next stage.
GoesTo(w, new) ==
  /\ wk' = [wk EXCEPT ![w] = new]
  /\ \/ new.pc \in {"idle", "dead"}
     \/ /\ Busy(w)
        /\ new.job = wk[w].job /\ new.run = wk[w].run /\ new.stage = wk[w].stage
        /\ new.pc \in {"skip", "start", "running", "recorded", "merged", "exited"}
        /\ new.pc \in {"recorded", "merged"} => new.stage # "plan"
        /\ new.pc \in {"running", "recorded", "merged"} /\ new.stage # "plan" =>
             new.doc.status # "absent"
        /\ new.pc = "exited" /\ new.exit = 0 => new.stage # "plan"

LEMMA GoingOnIsStill ==
  ASSUME Sound, StillTable, NEW w \in Workers, NEW new, GoesTo(w, new)
  PROVE  StillHands /\ \A v \in Workers : HandSound(v)'
<1>1. wk'[w] = new /\ \A v \in Workers \ {w} : wk'[v] = wk[v]
  BY DEF GoesTo, Sound, WorkerInv, WorkerTypeOK
<1>2. StillHands
  BY <1>1 DEF GoesTo, StillHands, Minted, GoingOn
<1>3. HandSound(w)'
  <2> SUFFICES ASSUME Busy(w), new.job = wk[w].job
               PROVE  /\ jobs'[wk[w].job].status # "paused"
                      /\ jobs'[wk[w].job].stage = wk[w].stage
                      /\ wk[w].stage # "plan" => jobs'[wk[w].job].run = wk[w].run
    BY <1>1 DEF GoesTo, HandSound, Busy
  <2> QED
    BY WorkersHands DEF HandSound, StillTable, Still
<1> QED
  BY <1>1, <1>2, <1>3, HandsUnmoved

-----------------------------------------------------------------------------
(* The stage process. *)

StillDocs ==
  \A r \in RunIds : docs[r].status # "absent" => docs'[r].status # "absent"

LEMMA DocsStayKnown ==
  ASSUME StillDocs, started' = started
  PROVE  StillRuns
BY RunIdsAssumption DEF StillDocs, StillRuns, Known, Saved

LEMMA SavesStay ==
  ASSUME Sound, NEW w \in Workers, Busy(w), NEW doc, doc.status # "absent",
         Emit(w, doc)
  PROVE  StillDocs
<1>1. docs \in [RunIds -> Doc] /\ wk[w].run \in RunIds
  BY WorkersHands DEF Sound, WorkerInv, WorkerTypeOK
<1> QED
  BY <1>1 DEF Emit, StillDocs

LEMMA DocsGoOn ==
  ASSUME NEW doc \in Doc, doc.status # "absent"
  PROVE  /\ \A g, decision : Resumed(doc, g, decision).status # "absent"
         /\ \A outcome \in DevelopOutcomes : Developed(doc, outcome).status # "absent"
         /\ \A verdict : Checked(doc, verdict).status # "absent"
         /\ \A status : [doc EXCEPT !.status = status].status = status
BY DEF Doc, Resumed, Developed, DevelopOutcomes, Checked

\* The document of a run past plan was saved, and so was the copy in hand.
LEMMA DocOfHand ==
  ASSUME Sound, NEW w \in Workers, Busy(w)
  PROVE  /\ wk[w] \in Steps /\ wk[w].doc \in Doc /\ docs[wk[w].run] \in Doc
         /\ wk[w].run \in RunIds
         /\ wk[w].stage # "plan" => docs[wk[w].run].status # "absent"
         /\ wk[w].pc \in {"running", "recorded", "merged"} /\ wk[w].stage # "plan" =>
              wk[w].doc.status # "absent"
<1>1. HandSound(w) /\ wk[w] \in Steps /\ wk[w].job \in JobIds /\ wk[w].run \in RunIds
  BY WorkersHands
<1>2. wk[w].doc \in Doc /\ docs[wk[w].run] \in Doc
  BY <1>1 DEF Sound, WorkerInv, WorkerTypeOK, Steps
<1>3. wk[w].stage # "plan" => docs[wk[w].run].status # "absent"
  <2>1. RowSound(wk[w].job)
    BY <1>1 DEF Sound, FleetInv
  <2> QED
    BY <1>1, <2>1, RunIdsAssumption DEF HandSound, RowSound, Known, Saved
<1> QED
  BY <1>1, <1>2, <1>3 DEF HandSound

LEMMA StageStill ==
  ASSUME Sound, NEW w \in Workers, NEW new, GoesTo(w, new), StillDocs,
         UNCHANGED <<jobs, started, api>>, merges' = merges \/ MergeSound'
  PROVE  FleetInv'
<1>1. StillTable /\ StillRuns
  BY NoRowMoves, DocsStayKnown
<1>2. StillHands /\ \A v \in Workers : HandSound(v)'
  BY <1>1, GoingOnIsStill
<1> QED
  BY <1>1, <1>2, StillStepKeeps DEF api

LEMMA ExitsStill ==
  ASSUME Sound, NEW w \in Workers, Busy(w), NEW code, Exits(w, code),
         code = 0 => wk[w].stage # "plan", StillDocs,
         UNCHANGED <<jobs, merges, started, api>>
  PROVE  FleetInv'
<1> DEFINE new == [wk[w] EXCEPT !.pc = "exited", !.exit = code]
<1>1. /\ new.pc = "exited" /\ new.exit = code /\ new.job = wk[w].job
      /\ new.run = wk[w].run /\ new.stage = wk[w].stage
  BY DocOfHand DEF Steps
<1>2. wk' = [wk EXCEPT ![w] = new]
  BY DEF Exits
<1> HIDE DEF new
<1>3. GoesTo(w, new)
  BY <1>1, <1>2 DEF GoesTo
<1> QED
  BY <1>3, StageStill

LEMMA SavedExitStill ==
  ASSUME Sound, NEW w \in Workers, Busy(w), NEW code, Exits(w, code),
         code = 0 => wk[w].stage # "plan", NEW doc, doc.status # "absent",
         Emit(w, doc), UNCHANGED <<jobs, merges, started, api>>
  PROVE  FleetInv'
BY SavesStay, ExitsStill

LEMMA LoadRunStill ==
  ASSUME Sound, NEW w \in Workers, LoadRun(w)
  PROVE  FleetInv'
<1>1. Busy(w) /\ StillDocs /\ UNCHANGED <<jobs, merges, started, api>>
  BY DEF LoadRun, Busy, StillDocs
<1>2. CASE Exits(w, 1)
  BY <1>1, <1>2, ExitsStill
<1>3. CASE wk' = [wk EXCEPT ![w].pc = "running", ![w].doc = docs[wk[w].run]]
  <2> DEFINE new == [wk[w] EXCEPT !.pc = "running", !.doc = docs[wk[w].run]]
  <2>1. /\ new.pc = "running" /\ new.doc = docs[wk[w].run]
        /\ new.job = wk[w].job /\ new.run = wk[w].run /\ new.stage = wk[w].stage
    BY <1>1, DocOfHand DEF Steps
  <2>2. wk' = [wk EXCEPT ![w] = new]
    BY <1>3
  <2> HIDE DEF new
  <2>3. GoesTo(w, new)
    BY <1>1, <2>1, <2>2, DocOfHand DEF GoesTo
  <2> QED
    BY <1>1, <2>3, StageStill
<1> QED
  BY <1>2, <1>3 DEF LoadRun

LEMMA RecordDecisionStill ==
  ASSUME Sound, NEW w \in Workers, NEW stages, "plan" \notin stages,
         NEW decision, RecordDecision(w, stages, decision)
  PROVE  FleetInv'
<1> DEFINE doc == Resumed(docs[wk[w].run], GateOf(wk[w].stage), decision)
           new == [wk[w] EXCEPT !.pc = "recorded", !.doc = doc]
<1>1. Busy(w) /\ wk[w].stage # "plan" /\ UNCHANGED <<jobs, merges, started, api>>
  BY DEF RecordDecision, Running, Busy
<1>2. doc.status # "absent"
  BY <1>1, DocOfHand, DocsGoOn
<1>3. Emit(w, doc) /\ wk' = [wk EXCEPT ![w] = new]
  BY DEF RecordDecision
<1> HIDE DEF doc
<1>4. /\ new.pc = "recorded" /\ new.doc = doc
      /\ new.job = wk[w].job /\ new.run = wk[w].run /\ new.stage = wk[w].stage
  BY <1>1, DocOfHand DEF Steps
<1> HIDE DEF new
<1>5. GoesTo(w, new)
  BY <1>1, <1>2, <1>3, <1>4 DEF GoesTo
<1> QED
  BY <1>1, <1>2, <1>3, <1>5, SavesStay, StageStill

\* A run that is merged has a promote row, and keeps it.
LEMMA MergeStill ==
  ASSUME Sound, NEW w \in Workers, Merge(w)
  PROVE  FleetInv'
<1> DEFINE new == [wk[w] EXCEPT !.pc = "merged"]
<1>1. Busy(w) /\ wk[w].pc = "running" /\ wk[w].stage = "promote"
      /\ StillDocs /\ UNCHANGED <<jobs, started, api>>
  BY DEF Merge, Running, Busy, StillDocs
<1>2. /\ new.pc = "merged" /\ new.doc = wk[w].doc
      /\ new.job = wk[w].job /\ new.run = wk[w].run /\ new.stage = wk[w].stage
  BY <1>1, DocOfHand DEF Steps
<1>3. wk' = [wk EXCEPT ![w] = new]
  BY DEF Merge
<1> HIDE DEF new
<1>4. GoesTo(w, new)
  BY <1>1, <1>2, <1>3, DocOfHand DEF GoesTo
<1>5. MergeSound'
  <2>1. /\ wk[w].job \in JobIds /\ jobs[wk[w].job].run = wk[w].run
        /\ jobs[wk[w].job].stage = "promote"
    BY <1>1, WorkersHands DEF HandSound
  <2>2. Place(wk[w].job) = 7
    BY <2>1, NamedPositions DEF Place
  <2>3. \A r \in RunIds : r # wk[w].run => merges'[r] = merges[r]
    BY DEF Merge, Sound, WorkerInv, WorkerTypeOK
  <2>4. \A r \in RunIds : merges'[r] > 0 =>
          \E j \in JobIds : jobs[j].run = r /\ Place(j) = 7
    BY <2>1, <2>2, <2>3 DEF Sound, FleetInv, MergeSound
  <2> QED
    BY <1>1, <2>4 DEF MergeSound, Place, JobIds
<1> QED
  BY <1>1, <1>4, <1>5, StageStill

\* plan takes a run id nobody has used, so nobody else has it.
LEMMA PlanMints ==
  ASSUME Sound, NEW w \in Workers, NEW r \in Runs, Plan(w, r)
  PROVE  FleetInv'
<1> DEFINE new == [wk[w] EXCEPT !.pc = "exited", !.run = r]
<1>1. Busy(w) /\ wk[w].stage = "plan" /\ r \in RunIds /\ ~Known(r)
      /\ UNCHANGED <<jobs, merges, started, api>>
  BY RunIdsAssumption DEF Plan, Running, Busy, Known, Saved
<1>2. /\ new.pc = "exited" /\ new.job = wk[w].job /\ new.run = r
      /\ new.stage = "plan" /\ wk'[w] = new
      /\ \A v \in Workers \ {w} : wk'[v] = wk[v]
  BY <1>1, DocOfHand DEF Plan, Steps, Sound, WorkerInv, WorkerTypeOK
<1>3. StillTable
  BY <1>1, NoRowMoves
<1>4. StillRuns /\ Known(r)'
  <2>1. docs'[r] = Planned /\ \A q \in RunIds \ {r} : docs'[q] = docs[q]
    BY <1>1 DEF Plan, Sound, WorkerInv, WorkerTypeOK
  <2>2. Planned.status # "absent" /\ r \notin Tickets
    BY RunIdsAssumption DEF Planned, Absent
  <2> QED
    BY <1>1, <2>1, <2>2 DEF StillRuns, Known, Saved
<1> HIDE DEF new
<1>5. \A v \in Workers : HandSound(v)'
  <2>1. HandSound(w)'
    BY <1>1, <1>2, WorkersHands DEF HandSound, Busy
  <2> QED
    BY <1>2, <1>3, <2>1, HandsUnmoved
<1>6. /\ \A j \in JobIds : jobs[j].run # r
      /\ \A v \in Workers : ~Minted(v, r)
      /\ \A v \in Workers : ~GoingOn(v, r)
  <2>1. \A j \in JobIds : jobs[j].run # r
    BY <1>1 DEF Sound, FleetInv, RowSound
  <2>2. \A v \in Workers : ~Minted(v, r)
    BY <1>1 DEF Sound, FleetInv, MintSound
  <2>3. ASSUME NEW v \in Workers, GoingOn(v, r)
        PROVE  FALSE
    <3>1. wk[v].job \in JobIds /\ HandSound(v) /\ Busy(v)
      BY <1>1, <2>3, WorkersHands
    <3>2. wk[v].stage # "plan"
      BY <2>2, <2>3 DEF Minted, GoingOn
    <3> QED
      BY <2>1, <2>3, <3>1, <3>2 DEF HandSound, GoingOn
  <2> QED
    BY <2>1, <2>2, <2>3
<1>7. \A v \in Workers, q \in RunIds :
        /\ Minted(v, q)' => \/ v = w /\ q = r
                            \/ Minted(v, q) /\ q # r /\ wk'[v] = wk[v]
        /\ GoingOn(v, q)' => GoingOn(v, q) /\ q # r /\ wk'[v] = wk[v]
  BY <1>1, <1>2, <1>6 DEF Minted, GoingOn
<1>8. MintSound'
  <2>1. JobIds' = JobIds /\ jobs' = jobs
    BY <1>1 DEF JobIds
  <2> QED
    BY <1>4, <1>6, <1>7, <2>1 DEF Sound, FleetInv, MintSound, StillRuns
<1>9. HandOver'
  <2>1. JobIds' = JobIds /\ jobs' = jobs
    BY <1>1 DEF JobIds
  <2> QED
    BY <1>7, <2>1 DEF Sound, FleetInv, HandOver, Live, Place
<1>10. ASSUME NEW q \in RunIds, NEW j, LastOf(q, j) \/ Over(q)
       PROVE  (LastOf(q, j) => LastOf(q, j)') /\ (Over(q) => Over(q)')
  <2>1. q # r /\ jobs' = jobs /\ Known(q)'
    BY <1>1, <1>4, <1>10 DEF LastOf, Over, StillRuns
  <2> QED
    BY <1>7, <2>1 DEF LastOf, Over, JobIds, Live
<1>11. CancelSound' /\ CancelledSound'
  <2>1. cancel' = cancel /\ cancelled' = cancelled /\ jobs' = jobs
    BY <1>1 DEF api
  <2>2. (cancel.todo # {} => cancel.run \in RunIds) /\ cancelled \subseteq RunIds
    BY DEF Sound, WorkerInv, CancelInv, WorkerTypeOK
  <2>3. CancelledSound'
    BY <1>10, <2>1, <2>2 DEF Sound, FleetInv, CancelledSound
  <2>4. ASSUME NEW q \in RunIds, q = cancel.run, NEW j \in cancel.todo, Live(j)
        PROVE  LastOf(q, j)'
    BY <1>10, <2>4 DEF Sound, FleetInv, CancelSound
  <2>5. CancelSound'
    BY <2>1, <2>2, <2>4 DEF Sound, FleetInv, CancelSound, LastOf, Live
  <2> QED
    BY <2>3, <2>5
<1> QED
  BY <1>1, <1>3, <1>4, <1>5, <1>8, <1>9, <1>11, TableIsKept
     DEF FleetInv, StillRuns

LEMMA StageStepStill ==
  ASSUME Sound, NEW w \in Workers, StageStep(w)
  PROVE  FleetInv'
<1>1. CASE RecordApproval(w)
  BY <1>1, RecordDecisionStill DEF RecordApproval, GATES
<1>2. CASE RecordRefusal(w)
  BY <1>2, RecordDecisionStill DEF RecordRefusal, Recorders
<1>3. CASE EmitDecision(w)
  <2>1. Busy(w) /\ wk[w].pc = "recorded" /\ wk[w].stage # "plan"
        /\ UNCHANGED <<jobs, merges, started, api>>
    BY <1>3, WorkersHands DEF EmitDecision, Busy, HandSound
  <2> QED
    BY <1>3, <2>1, DocOfHand, SavedExitStill DEF EmitDecision
<1>4. CASE DeclineEnded(w)
  <2>1. Busy(w) /\ wk[w].doc.status # "absent"
        /\ UNCHANGED <<jobs, merges, started, api>>
    BY <1>4 DEF DeclineEnded, Running, Busy, ENDINGS
  <2> QED
    BY <1>4, <2>1, SavedExitStill DEF DeclineEnded
<1>5. ASSUME NEW outcome \in DevelopOutcomes, Develop(w, outcome)
      PROVE  FleetInv'
  <2>1. Busy(w) /\ wk[w].pc = "running" /\ wk[w].stage = "develop"
        /\ UNCHANGED <<jobs, merges, started, api>>
    BY <1>5 DEF Develop, Running, Busy
  <2>2. Developed(wk[w].doc, outcome).status # "absent"
    BY <2>1, DocOfHand, DocsGoOn
  <2> QED
    BY <1>5, <2>1, <2>2, SavedExitStill DEF Develop
<1>6. ASSUME NEW verdict \in {"go", "no_go"}, Sre(w, verdict)
      PROVE  FleetInv'
  <2>1. Busy(w) /\ wk[w].pc = "running" /\ wk[w].stage = "sre"
        /\ UNCHANGED <<jobs, merges, started, api>>
    BY <1>6 DEF Sre, Running, Busy
  <2>2. Checked(wk[w].doc, verdict).status # "absent"
    BY <2>1, DocOfHand, DocsGoOn
  <2> QED
    BY <1>6, <2>1, <2>2, SavedExitStill DEF Sre
<1>7. CASE RefusePromotion(w)
  <2>1. Busy(w) /\ UNCHANGED <<jobs, merges, started, api>>
    BY <1>7 DEF RefusePromotion, Running, Busy
  <2> DEFINE doc == [wk[w].doc EXCEPT !.status = "failed"]
  <2>2. doc.status # "absent"
    BY <2>1, DocOfHand DEF Doc
  <2>3. Emit(w, doc) /\ Exits(w, 6)
    BY <1>7 DEF RefusePromotion
  <2> HIDE DEF doc
  <2> QED
    BY <2>1, <2>2, <2>3, SavedExitStill
<1>8. CASE EmitPromoted(w)
  <2>1. Busy(w) /\ wk[w].stage # "plan" /\ UNCHANGED <<jobs, merges, started, api>>
    BY <1>8, WorkersHands DEF EmitPromoted, Busy, HandSound
  <2>2. [wk[w].doc EXCEPT !.status = "promoted"].status # "absent"
    BY <2>1, DocOfHand DEF Doc
  <2> QED
    BY <1>8, <2>1, <2>2, SavedExitStill DEF EmitPromoted
<1>9. CASE StageCrashes(w)
  BY <1>9, ExitsStill DEF StageCrashes, Busy, StillDocs
<1> QED
  BY <1>1, <1>2, <1>3, <1>4, <1>5, <1>6, <1>7, <1>8, <1>9,
     LoadRunStill, PlanMints, MergeStill DEF StageStep

-----------------------------------------------------------------------------
(* The worker's own steps. *)

LEMMA CheckEvidenceStill ==
  ASSUME Sound, NEW w \in Workers, CheckEvidence(w)
  PROVE  FleetInv'
<1> DEFINE pc == IF already_ran(w) THEN "skip" ELSE "start"
           new == [wk[w] EXCEPT !.pc = pc]
<1>1. Busy(w) /\ StillDocs /\ UNCHANGED <<jobs, merges, started, api>>
      /\ pc \in {"skip", "start"}
  BY DEF CheckEvidence, Busy, StillDocs
<1>2. wk' = [wk EXCEPT ![w] = new]
  BY DEF CheckEvidence
<1> HIDE DEF pc
<1>3. /\ new.pc = pc /\ new.job = wk[w].job /\ new.run = wk[w].run
      /\ new.stage = wk[w].stage
  BY <1>1, DocOfHand DEF Steps
<1> HIDE DEF new
<1>4. GoesTo(w, new)
  BY <1>1, <1>2, <1>3 DEF GoesTo
<1> QED
  BY <1>1, <1>4, StageStill

LEMMA OutOfWorkStill ==
  ASSUME Sound, NEW w \in Workers, NEW pc \in {"idle", "dead"},
         wk' = [wk EXCEPT ![w] = At(pc)],
         UNCHANGED <<jobs, docs, merges, started, api>>
  PROVE  FleetInv'
<1>1. GoesTo(w, At(pc))
  BY DEF GoesTo, At
<1> QED
  BY <1>1, StageStill DEF StillDocs

LEMMA ClaimJobStill ==
  ASSUME Sound, NEW w \in Workers, NEW j \in JobIds, ClaimJob(w, j)
  PROVE  FleetInv'
<1>1. jobs[j] \in Job /\ jobs[j].status \in {"ready", "claimed"}
  BY RowsOfRuns DEF ClaimJob, Claim, Oldest, Claimable
<1>2. RowBecomes(j, Leased(jobs[j], w))
  BY DEF ClaimJob, Claim, RowBecomes
<1>3. Leased(jobs[j], w) \in Job /\ StillTable
  BY <1>1, <1>2, LeasedStill, OneRowStill
<1>4. /\ wk'[w].pc = "claimed" /\ wk'[w].job = j
      /\ wk'[w].stage = jobs[j].stage /\ wk'[w].run = jobs[j].run
      /\ \A v \in Workers \ {w} : wk'[v] = wk[v]
      /\ UNCHANGED <<docs, merges, started, cancel, cancelled>>
  BY DEF ClaimJob, Sound, WorkerInv, WorkerTypeOK
<1>5. StillHands
  BY <1>4 DEF StillHands, Minted, GoingOn
<1>6. HandSound(w)'
  <2>1. Still(jobs[j], jobs'[j])
    BY <1>3 DEF StillTable
  <2> QED
    BY <1>1, <1>4, <2>1 DEF HandSound, Still
<1>7. \A v \in Workers : HandSound(v)'
  BY <1>3, <1>4, <1>6, HandsUnmoved
<1>8. StillRuns
  BY <1>4, DocsStayKnown DEF StillDocs
<1> QED
  BY <1>3, <1>4, <1>5, <1>7, <1>8, StillStepKeeps

\* The row in hand, when its ending is recorded.
LEMMA HandEnds ==
  ASSUME Sound, NEW w \in Workers, NEW st \in TERMINAL_STATUSES, Record(w, st)
  PROVE  /\ Busy(w) /\ wk[w].job \in JobIds /\ Live(wk[w].job)
         /\ StillTable /\ jobs'[wk[w].job].status = st
<1>1. Busy(w) /\ Live(wk[w].job)
  BY DEF Record, Recording, Busy, Complete, Live
<1> DEFINE j == wk[w].job
<1>2. j \in JobIds /\ jobs[j].status # "paused" /\ jobs[j] \in Job
      /\ RowDecided(jobs[j]) /\ jobs[j].status \notin TERMINAL_STATUSES
  BY <1>1, WorkersHands, RowsOfRuns DEF HandSound, Live
<1>3. RowBecomes(j, Ended(jobs[j], st))
  BY DEF Record, Complete, RowBecomes
<1>4. Ended(jobs[j], st) \in Job /\ Still(jobs[j], Ended(jobs[j], st))
  BY <1>2, EndedStill
<1>5. StillTable
  BY <1>2, <1>3, <1>4, OneRowStill
<1>6. jobs'[j] = Ended(jobs[j], st)
  BY <1>2, <1>3, <1>4, RowsOfRuns, ReplaceRow
<1>7. jobs'[j].status = st
  BY <1>2, <1>6 DEF Ended, Job
<1> QED
  BY <1>1, <1>2, <1>5, <1>7

LEMMA RecordsAndRests ==
  ASSUME Sound, NEW w \in Workers, NEW st \in TERMINAL_STATUSES,
         Record(w, st), ~Advances(w, st)
  PROVE  FleetInv'
<1>1. StillTable
  BY HandEnds
<1>2. GoesTo(w, At("idle")) /\ UNCHANGED <<docs, merges, started, cancel, cancelled>>
  BY DEF Record, GoesTo, At, api
<1>3. StillHands /\ \A v \in Workers : HandSound(v)'
  BY <1>1, <1>2, GoingOnIsStill
<1>4. StillRuns
  BY <1>2, DocsStayKnown DEF StillDocs
<1> QED
  BY <1>1, <1>2, <1>3, <1>4, StillStepKeeps

\* The worker that ended its row as done is alone with the run: its row was
\* the furthest, and live, so no other worker was about to go on.
LEMMA RecordsAndGoesOn ==
  ASSUME Sound, NEW w \in Workers, NEW st \in TERMINAL_STATUSES,
         Record(w, st), Advances(w, st)
  PROVE  FleetInv'
<1> DEFINE q == wk[w].run
<1>1. /\ StillTable /\ Busy(w) /\ wk[w].job \in JobIds /\ q \in RunIds
      /\ wk[w].stage \in Stages /\ HandSound(w)
  BY HandEnds, WorkersHands
<1>2. PICK j \in JobIds : j = wk[w].job
  BY <1>1
<1>3. /\ Live(j) /\ jobs'[j].status = "done" /\ ~Live(j)' /\ st = "done"
  BY <1>2, HandEnds DEF Advances, Live, TERMINAL_STATUSES
<1>4. /\ wk'[w].pc = "enqueue" /\ wk'[w].job = j /\ wk'[w].run = q
      /\ wk'[w].stage = wk[w].stage
      /\ \A v \in Workers \ {w} : wk'[v] = wk[v]
      /\ UNCHANGED <<docs, merges, started, cancel, cancelled>>
  <2>1. wk[w] \in Steps /\ wk \in [Workers -> Steps]
    BY DEF Sound, WorkerInv, WorkerTypeOK
  <2>2. wk' = [wk EXCEPT ![w] = [wk[w] EXCEPT !.pc = "enqueue", !.doc = Absent]]
    BY DEF Record
  <2> QED
    BY <1>2, <2>1, <2>2 DEF Record, Steps, api
<1>5. StillRuns
  BY <1>4, DocsStayKnown DEF StillDocs
<1>6. \A v \in Workers : HandSound(v)'
  <2>1. HandSound(w)'
    BY <1>1, <1>2, <1>4 DEF HandSound, Busy, StillTable, Still
  <2> QED
    BY <1>1, <1>4, <2>1, HandsUnmoved
<1>7. wk[w].stage = "plan" => Minted(w, q)
  BY <1>3 DEF Record, Recording, Minted, status_for
<1>8. wk[w].stage # "plan" => jobs[j].run = q
  BY <1>1, <1>2 DEF HandSound
<1>9. /\ \A i \in JobIds : jobs[i].run = q => Place(i) <= Position(wk[w].stage)
      /\ \A i \in JobIds : jobs[i].run = q /\ Live(i) => i = j
      /\ \A v \in Workers : ~GoingOn(v, q)
  <2>1. Place(j) = Position(wk[w].stage)
    BY <1>1, <1>2 DEF HandSound, Place
  <2>2. CASE wk[w].stage = "plan"
    <3>1. \A i \in JobIds : jobs[i].run = q => i = j
      BY <1>1, <1>2, <1>7, <2>2 DEF Sound, FleetInv, MintSound
    <3>2. ASSUME NEW v \in Workers, GoingOn(v, q) PROVE FALSE
      <4>1. Minted(v, q) => v = w
        BY <1>1, <1>7, <2>2 DEF Sound, FleetInv, MintSound
      <4>2. v # w
        BY <3>2 DEF GoingOn, Record, Recording
      <4>3. wk[v].stage # "plan"
        BY <3>2, <4>1, <4>2 DEF GoingOn, Minted
      <4>4. wk[v].job \in JobIds /\ jobs[wk[v].job].run = q
            /\ jobs[wk[v].job].stage = wk[v].stage
        BY <3>2, <4>3, WorkersHands DEF HandSound, GoingOn, Busy
      <4> QED
        BY <1>1, <1>2, <2>2, <3>1, <4>3, <4>4 DEF HandSound
    <3> QED
      BY <2>1, <3>1, <3>2, RowsOfRuns
  <2>3. CASE wk[w].stage # "plan"
    <3>1. \A i \in JobIds : jobs[i].run = q => Place(i) <= Place(j)
      BY <1>3, <1>8, <2>3 DEF Sound, FleetInv, Latest, SameRun
    <3>2. \A i \in JobIds : jobs[i].run = q /\ Live(i) => i = j
      <4>1. ASSUME NEW i \in JobIds, jobs[i].run = q, Live(i)
            PROVE  i = j
        <5>1. Place(i) <= Place(j) /\ Place(j) <= Place(i)
          BY <1>8, <2>3, <3>1, <4>1 DEF Sound, FleetInv, Latest, SameRun
        <5>2. Place(i) = Place(j)
          BY <5>1, RowsOfRuns
        <5> QED
          BY <1>8, <2>3, <4>1, <5>2 DEF Sound, FleetInv, Distinct, SameRun
      <4> QED
        BY <4>1
    <3>3. \A v \in Workers : ~GoingOn(v, q)
      BY <1>1, <1>3, <1>8, <2>3 DEF Sound, FleetInv, HandOver
    <3> QED
      BY <2>1, <3>1, <3>2, <3>3
  <2> QED
    BY <2>2, <2>3
<1>10. \A v \in Workers, r \in RunIds :
         /\ Minted(v, r)' => Minted(v, r) /\ wk'[v].job = wk[v].job
         /\ GoingOn(v, r)' => \/ v = w /\ r = q
                              \/ GoingOn(v, r) /\ r # q /\ wk'[v] = wk[v]
  <2>1. \A r \in RunIds : Minted(w, r)' => r = q /\ wk[w].stage = "plan"
    BY <1>4 DEF Minted
  <2> QED
    BY <1>2, <1>4, <1>7, <1>9, <2>1 DEF Minted, GoingOn
<1> HIDE DEF q
<1>11. MintSound'
  <2>1. \A i \in JobIds : jobs'[i].run = jobs[i].run
    BY <1>1, LiveRows
  <2>2. JobIds' = JobIds
    BY <1>1 DEF StillTable
  <2> QED
    BY <1>5, <1>10, <2>1, <2>2 DEF Sound, FleetInv, MintSound, StillRuns
<1>12. HandOver'
  <2>1. JobIds' = JobIds
    BY <1>1 DEF StillTable
  <2>2. \A i \in JobIds : /\ jobs'[i].run = jobs[i].run /\ Place(i)' = Place(i)
                          /\ Live(i)' => Live(i)
                          /\ jobs[i].status = "done" => jobs'[i].status = "done"
    BY <1>1, LiveRows
  <2>3. ASSUME NEW v \in Workers, NEW r \in RunIds, GoingOn(v, r)'
        PROVE  /\ \A i \in JobIds : jobs'[i].run = r =>
                     ~Live(i)' /\ Place(i)' <= Position(wk'[v].stage)
               /\ wk'[v].stage # "plan" => jobs'[wk'[v].job].status = "done"
    <3>1. CASE v = w /\ r = q
      BY <1>3, <1>4, <1>9, <2>2, <3>1
    <3>2. CASE GoingOn(v, r) /\ wk'[v] = wk[v]
      <4>1. wk[v].job \in JobIds
        BY <3>2, WorkersHands
      <4> QED
        BY <2>2, <3>2, <4>1 DEF Sound, FleetInv, HandOver
    <3> QED
      BY <1>10, <2>3, <3>1, <3>2
  <2>4. \A v \in Workers, u \in Workers, r \in RunIds :
          GoingOn(v, r)' /\ GoingOn(u, r)' => v = u
    BY <1>10 DEF Sound, FleetInv, HandOver
  <2> QED
    BY <2>1, <2>3, <2>4 DEF HandOver
<1>13. ASSUME NEW r \in RunIds
       PROVE  /\ Over(r) => Over(r)'
              /\ \A i \in JobIds : LastOf(r, i) /\ Live(i)' => LastOf(r, i)'
  <2>1. JobIds' = JobIds
    BY <1>1 DEF StillTable
  <2>2. \A i \in JobIds : jobs'[i].run = jobs[i].run /\ (Live(i)' => Live(i))
    BY <1>1, LiveRows
  <2>3. \A v \in Workers : Minted(v, r)' =>
          /\ Minted(v, r) /\ wk'[v].job = wk[v].job /\ wk[v].job \in JobIds
    BY <1>10, WorkersHands
  <2>4. CASE r # q
    <3>1. \A v \in Workers : GoingOn(v, r)' => GoingOn(v, r)
      BY <1>10, <2>4
    <3> QED
      BY <1>5, <2>1, <2>2, <2>3, <3>1 DEF Over, LastOf, StillRuns
  <2>5. CASE r = q
    <3>1. ~Over(r)
      <4>1. Over(r) => wk[w].stage # "plan"
        BY <1>2, <1>3, <1>7, <2>5 DEF Over
      <4> QED
        BY <1>3, <1>8, <2>5, <4>1 DEF Over
    <3>2. ASSUME NEW i \in JobIds, LastOf(r, i) PROVE i = j
      <4>1. CASE wk[w].stage = "plan"
        BY <1>2, <1>7, <2>5, <3>2, <4>1 DEF LastOf
      <4>2. CASE wk[w].stage # "plan"
        BY <1>3, <1>8, <2>5, <3>2, <4>2 DEF LastOf
      <4> QED
        BY <4>1, <4>2
    <3> QED
      BY <1>3, <3>1, <3>2
  <2> QED
    BY <2>4, <2>5
<1>14. CancelSound' /\ CancelledSound'
  <2>1. (cancel.todo # {} => cancel.run \in RunIds) /\ cancelled \subseteq RunIds
        /\ cancel.todo \subseteq JobIds
    BY DEF Sound, WorkerInv, CancelInv, WorkerTypeOK
  <2>2. CancelledSound'
    BY <1>4, <1>13, <2>1 DEF Sound, FleetInv, CancelledSound
  <2>3. ASSUME NEW r \in RunIds, r = cancel.run, NEW i \in cancel.todo, Live(i)'
        PROVE  LastOf(r, i)'
    BY <1>1, <1>13, <2>1, <2>3, LiveRows DEF Sound, FleetInv, CancelSound
  <2>4. CancelSound'
    BY <1>4, <2>1, <2>3 DEF Sound, FleetInv, CancelSound, LastOf
  <2> QED
    BY <2>2, <2>4
<1> QED
  BY <1>1, <1>4, <1>5, <1>6, <1>11, <1>12, <1>14, TableIsKept
     DEF FleetInv, StillRuns

-----------------------------------------------------------------------------
(* Renaming the row of plan. *)

\* A minted run and the run a worker goes on with are not shared.
LEMMA OneOwner ==
  ASSUME Sound, NEW u \in Workers, NEW v \in Workers, NEW r \in RunIds,
         Minted(v, r), GoingOn(u, r)
  PROVE  u = v
<1>1. CASE wk[u].stage = "plan"
  BY <1>1 DEF Sound, FleetInv, MintSound, Minted, GoingOn
<1>2. CASE wk[u].stage # "plan"
  <2>1. wk[u].job \in JobIds /\ jobs[wk[u].job].run = r
        /\ jobs[wk[u].job].stage # "plan"
    BY <1>2, WorkersHands DEF HandSound, GoingOn, Busy
  <2>2. wk[u].job = wk[v].job
    BY <2>1 DEF Sound, FleetInv, MintSound
  <2>3. jobs[wk[v].job].stage = "plan"
    BY WorkersHands DEF HandSound, Minted
  <2> QED
    BY <2>1, <2>2, <2>3
<1> QED
  BY <1>1, <1>2

LEMMA GoesOnWithRun ==
  ASSUME Sound, NEW w \in Workers, NEW r \in RunIds, GoingOn(w, r)
  PROVE  r \in Runs /\ Known(r)
<1>1. CASE wk[w].stage = "plan"
  BY <1>1 DEF Sound, FleetInv, MintSound, Minted, GoingOn
<1>2. CASE wk[w].stage # "plan"
  <2>1. wk[w].job \in JobIds /\ jobs[wk[w].job].run = r
        /\ jobs[wk[w].job].stage # "plan"
    BY <1>2, WorkersHands DEF HandSound, GoingOn, Busy
  <2> QED
    BY <2>1, RunIdsAssumption DEF Sound, FleetInv, RowSound
<1> QED
  BY <1>1, <1>2

LEMMA AdoptStill ==
  ASSUME Sound, NEW w \in Workers, Adopt(w)
  PROVE  FleetInv'
<1>1. PICK r \in RunIds, j \in JobIds : r = wk[w].run /\ j = wk[w].job
  BY WorkersHands DEF Adopt, Busy
<1>2. Minted(w, r) /\ Busy(w) /\ HandSound(w)
  BY <1>1, WorkersHands DEF Adopt, Minted, Busy
<1>3. /\ jobs[j].stage = "plan" /\ Place(j) = 1 /\ r \in Runs /\ Known(r)
      /\ \A i \in JobIds : jobs[i].run = r => i = j
  <2>1. jobs[j].stage = "plan" /\ Place(j) = 1
    BY <1>1, <1>2, NamedPositions DEF HandSound, Minted, Place
  <2> QED
    BY <1>1, <1>2, <2>1 DEF Sound, FleetInv, MintSound
<1>4. /\ JobIds' = JobIds
      /\ jobs'[j].run = r /\ jobs'[j].stage = "plan"
      /\ jobs'[j].status = jobs[j].status
      /\ GateSound(jobs'[j])
      /\ \A i \in JobIds \ {j} : jobs'[i] = jobs[i]
  <2>1. jobs'[j] = [jobs[j] EXCEPT !.run = r] /\ JobIds' = JobIds
        /\ \A i \in JobIds \ {j} : jobs'[i] = jobs[i]
    BY <1>1, RowsOfRuns, AdoptedRow DEF Adopt
  <2>2. jobs[j] \in Job /\ GateSound(jobs[j])
    BY RowsOfRuns
  <2> QED
    BY <1>3, <2>1, <2>2 DEF Job, GateSound
<1>5. /\ wk'[w].pc = "adopted" /\ wk'[w].job = j /\ wk'[w].run = r
      /\ wk'[w].stage = "plan" /\ wk'[w].exit = 0
      /\ \A v \in Workers \ {w} : wk'[v] = wk[v]
      /\ UNCHANGED <<docs, merges, started, cancel, cancelled>>
  BY <1>1 DEF Adopt, api, Sound, WorkerInv, WorkerTypeOK, Steps
<1>6. StillRuns
  BY <1>5, DocsStayKnown DEF StillDocs
<1>7. \A i \in JobIds : /\ jobs'[i].run = IF i = j THEN r ELSE jobs[i].run
                        /\ jobs'[i].stage = jobs[i].stage
                        /\ Place(i)' = Place(i) /\ (Live(i)' <=> Live(i))
                        /\ jobs'[i].status = jobs[i].status
  BY <1>3, <1>4 DEF Place, Live
<1>8. \A i \in JobIds' : RowSound(i)'
  <2>1. RowSound(j)'
    BY <1>3, <1>4, <1>6, RunIdsAssumption DEF RowSound, StillRuns
  <2>2. ASSUME NEW i \in JobIds \ {j} PROVE RowSound(i)'
    <3>1. RowSound(i) /\ jobs'[i] = jobs[i] /\ jobs[i].run \in RunIds
      BY <1>4, RowsOfRuns DEF Sound, FleetInv, Job
    <3>2. Known(jobs[i].run)'
      BY <1>5, <3>1 DEF RowSound, Known, Saved
    <3> QED
      BY <3>1, <3>2 DEF RowSound
  <2> QED
    BY <1>4, <2>1, <2>2
<1>9. Distinct' /\ Latest'
  BY <1>3, <1>4, <1>7, RowsOfRuns DEF Sound, FleetInv, Distinct, Latest, SameRun
<1>10. Below'
  <2>1. ASSUME NEW k \in JobIds, Place(k) > 2
        PROVE  \E i \in JobIds :
                 /\ jobs'[i].run = jobs'[k].run /\ Place(i) + 1 = Place(k)
                 /\ jobs'[i].stage \in ChainStages /\ jobs'[i].status = "done"
    <3>1. PICK i \in JobIds : /\ SameRun(i, k) /\ Place(i) + 1 = Place(k)
                              /\ jobs[i].stage \in ChainStages
                              /\ jobs[i].status = "done"
      BY <2>1 DEF Sound, FleetInv, Below
    <3>2. i # j /\ k # j
      BY <1>3, <2>1, <3>1, RowsOfRuns
    <3> QED
      BY <1>7, <3>1, <3>2 DEF SameRun
  <2> QED
    BY <1>4, <1>7, <2>1 DEF Below, SameRun
<1>11. MergeSound'
  BY <1>3, <1>4, <1>5, <1>7 DEF Sound, FleetInv, MergeSound
<1>12. \A v \in Workers, q \in RunIds :
         /\ Minted(v, q)' => Minted(v, q) /\ wk'[v].job = wk[v].job
         /\ Minted(v, q)' /\ q = r => v = w
         /\ GoingOn(v, q)' => GoingOn(v, q) /\ wk'[v] = wk[v] /\ q # r
  <2>1. \A v \in Workers : Minted(v, r) => v = w
    BY <1>2 DEF Sound, FleetInv, MintSound
  <2>2. \A v \in Workers : GoingOn(v, r) => v = w
    BY <1>2, OneOwner
  <2>3. ~GoingOn(w, r)
    BY DEF Adopt, GoingOn
  <2> QED
    BY <1>1, <1>2, <1>5, <2>1, <2>2, <2>3 DEF Minted, GoingOn
<1>13. MintSound'
  BY <1>1, <1>3, <1>4, <1>6, <1>7, <1>12
     DEF Sound, FleetInv, MintSound, StillRuns
<1>14. HandOver'
  <2>1. \A v \in Workers, q \in RunIds : GoingOn(v, q) => wk[v].job \in JobIds
    BY WorkersHands
  <2> QED
    BY <1>4, <1>7, <1>12, <2>1 DEF Sound, FleetInv, HandOver
<1>15. ASSUME NEW q \in RunIds
       PROVE  /\ Over(q) => Over(q)'
              /\ \A i \in JobIds : LastOf(q, i) => LastOf(q, i)'
  <2>1. /\ \A v \in Workers : Minted(v, q)' =>
            /\ Minted(v, q) /\ wk'[v].job = wk[v].job /\ wk[v].job \in JobIds
        /\ \A v \in Workers : GoingOn(v, q)' => GoingOn(v, q)
    BY <1>12, WorkersHands
  <2>2. Over(q) /\ q = r => ~Live(j)
    BY <1>1, <1>2 DEF Over
  <2>3. \A i \in JobIds : LastOf(q, i) /\ q = r => i = j
    BY <1>1, <1>2 DEF LastOf
  <2> QED
    BY <1>4, <1>6, <1>7, <2>1, <2>2, <2>3 DEF Over, LastOf, StillRuns
<1>16. CancelSound' /\ CancelledSound'
  <2>1. (cancel.todo # {} => cancel.run \in RunIds) /\ cancelled \subseteq RunIds
        /\ cancel.todo \subseteq JobIds
    BY DEF Sound, WorkerInv, CancelInv, WorkerTypeOK
  <2>2. CancelledSound'
    BY <1>5, <1>15, <2>1 DEF Sound, FleetInv, CancelledSound
  <2>3. ASSUME NEW q \in RunIds, q = cancel.run, NEW i \in cancel.todo, Live(i)'
        PROVE  LastOf(q, i)'
    BY <1>7, <1>15, <2>1, <2>3 DEF Sound, FleetInv, CancelSound
  <2>4. CancelSound'
    BY <1>5, <2>1, <2>3 DEF Sound, FleetInv, CancelSound, LastOf
  <2> QED
    BY <2>2, <2>4
<1>17. ASSUME NEW v \in Workers PROVE HandSound(v)'
  <2>1. CASE v = w
    BY <1>2, <1>4, <1>1, <1>5, <2>1 DEF HandSound, Busy
  <2>2. CASE v # w
    BY <1>3, <1>5, <1>7, <2>2, WorkersHands DEF HandSound, Busy
  <2> QED
    BY <2>1, <2>2
<1> QED
  BY <1>8, <1>9, <1>10, <1>11, <1>13, <1>14, <1>16, <1>17 DEF FleetInv

-----------------------------------------------------------------------------
(* A row is added. *)

\* Row by row: the table gains a row for stage s of r, above r's other rows,
\* none of which is live, and nobody else keeps r going.
Adds(r, s) ==
  /\ jobs' = Append(jobs, NewJob(r, s, 1))
  /\ \A j \in JobIds : jobs[j].run = r => ~Live(j) /\ Place(j) < Position(s)
  /\ Position(s) > 2 =>
       \E i \in JobIds : /\ jobs[i].run = r /\ Place(i) + 1 = Position(s)
                         /\ jobs[i].stage \in ChainStages
                         /\ jobs[i].status = "done"
  /\ r \in Tickets => s = "plan"
  /\ started \subseteq started' /\ Known(r)'
  /\ UNCHANGED <<docs, merges, cancel, cancelled>>

LeavesOnly(r) ==
  /\ ~Over(r) /\ \A i \in JobIds : ~LastOf(r, i)
  /\ \A v \in Workers : wk'[v] = wk[v] \/ ~Busy(v)'
  /\ \A v \in Workers, q \in RunIds :
       /\ Minted(v, q)' => Minted(v, q) /\ q # r /\ wk'[v] = wk[v]
       /\ GoingOn(v, q)' => GoingOn(v, q) /\ q # r /\ wk'[v] = wk[v]

LEMMA NewRow ==
  ASSUME NEW r \in RunIds, NEW s \in ChainStages
  PROVE  LET new == NewJob(r, s, 1)
         IN  /\ new \in Job /\ new.run = r /\ new.stage = s /\ GateSound(new)
             /\ new.status # "done"
<1>1. NewJob(r, s, 1) \in Job
  BY NewJobIsAJob, RunIdsAssumption
<1> QED
  BY <1>1 DEF NewJob, GateSound

\* The table with row m added.
LEMMA AddedRow ==
  ASSUME Sound, NEW r \in RunIds, NEW s \in ChainStages, Adds(r, s)
  PROVE  \E m : /\ JobIds' = JobIds \union {m} /\ m \notin JobIds
                /\ jobs'[m].run = r /\ jobs'[m].stage = s
                /\ GateSound(jobs'[m]) /\ jobs'[m].status # "done"
                /\ Place(m)' = Position(s)
                /\ \A j \in JobIds : /\ jobs'[j] = jobs[j] /\ Place(j)' = Place(j)
                                     /\ (Live(j)' <=> Live(j))
<1> DEFINE n == Len(jobs) + 1
<1>1. /\ JobIds' = JobIds \union {n} /\ n \notin JobIds
      /\ jobs'[n] = NewJob(r, s, 1) /\ \A j \in JobIds : jobs'[j] = jobs[j]
  BY RowsOfRuns, NewRow, AppendRow DEF Adds
<1> HIDE DEF n
<1>2. PICK m : m = n
  OBVIOUS
<1>3. /\ JobIds' = JobIds \union {m} /\ m \notin JobIds
      /\ jobs'[m] = NewJob(r, s, 1) /\ \A j \in JobIds : jobs'[j] = jobs[j]
  BY <1>1, <1>2
<1>4. /\ jobs'[m].run = r /\ jobs'[m].stage = s
      /\ GateSound(jobs'[m]) /\ jobs'[m].status # "done"
  BY <1>3, NewRow
<1> QED
  BY <1>3, <1>4 DEF Place, Live

LEMMA AddKeepsTable ==
  ASSUME Sound, NEW r \in RunIds, NEW s \in ChainStages, Adds(r, s)
  PROVE  /\ \A j \in JobIds' : RowSound(j)'
         /\ Distinct' /\ Latest' /\ Below' /\ MergeSound'
<1>1. PICK m : /\ JobIds' = JobIds \union {m} /\ m \notin JobIds
               /\ jobs'[m].run = r /\ jobs'[m].stage = s
               /\ GateSound(jobs'[m]) /\ jobs'[m].status # "done"
               /\ Place(m)' = Position(s)
               /\ \A j \in JobIds : /\ jobs'[j] = jobs[j] /\ Place(j)' = Place(j)
                                    /\ (Live(j)' <=> Live(j))
  BY AddedRow
<1>2. \A j \in JobIds' : RowSound(j)'
  <2>1. RowSound(m)'
    BY <1>1 DEF RowSound, Adds
  <2>2. ASSUME NEW j \in JobIds PROVE RowSound(j)'
    <3>1. RowSound(j) /\ jobs'[j] = jobs[j] /\ jobs[j].run \in RunIds
      BY <1>1, RowsOfRuns DEF Sound, FleetInv, Job
    <3> QED
      BY <1>1, <3>1 DEF RowSound, Known, Saved, Adds
  <2> QED
    BY <1>1, <2>1, <2>2
<1>3. \A j \in JobIds : jobs[j].run = r => ~Live(j) /\ Place(j) < Position(s)
  BY DEF Adds
<1>4. Position(s) \in 1..7 /\ \A j \in JobIds : Place(j) \in 1..7
  BY Positions, RowsOfRuns DEF Stages
<1>5. Distinct'
  <2>1. Distinct
    BY DEF Sound, FleetInv
  <2> QED
    BY <1>1, <1>3, <1>4, <2>1 DEF Distinct, SameRun
<1>6. Latest'
  <2>1. Latest
    BY DEF Sound, FleetInv
  <2> QED
    BY <1>1, <1>3, <1>4, <2>1 DEF Latest, SameRun
<1>7. Below'
  <2>1. ASSUME NEW k \in JobIds', Place(k)' > 2
        PROVE  \E i \in JobIds' :
                 /\ jobs'[i].run = jobs'[k].run /\ Place(i)' + 1 = Place(k)'
                 /\ jobs'[i].stage \in ChainStages /\ jobs'[i].status = "done"
    <3>1. CASE k = m
      BY <1>1, <2>1, <3>1 DEF Adds
    <3>2. CASE k \in JobIds
      <4>1. PICK i \in JobIds : /\ jobs[i].run = jobs[k].run
                                /\ Place(i) + 1 = Place(k)
                                /\ jobs[i].stage \in ChainStages
                                /\ jobs[i].status = "done"
        BY <1>1, <2>1, <3>2 DEF Sound, FleetInv, Below, SameRun
      <4> QED
        BY <1>1, <3>2, <4>1
    <3> QED
      BY <1>1, <3>1, <3>2
  <2> QED
    BY <2>1 DEF Below, SameRun
<1>8. MergeSound'
  <2>1. MergeSound /\ merges' = merges
    BY DEF Sound, FleetInv, Adds
  <2> QED
    BY <1>1, <2>1 DEF MergeSound
<1> QED
  BY <1>2, <1>5, <1>6, <1>7, <1>8

LEMMA AddStill ==
  ASSUME Sound, NEW r \in RunIds, NEW s \in ChainStages, Adds(r, s), LeavesOnly(r)
  PROVE  FleetInv'
<1>1. PICK m : /\ JobIds' = JobIds \union {m} /\ m \notin JobIds
               /\ jobs'[m].run = r
               /\ \A j \in JobIds : /\ jobs'[j] = jobs[j] /\ Place(j)' = Place(j)
                                    /\ (Live(j)' <=> Live(j))
  BY AddedRow
<1>2. StillRuns
  BY DEF StillRuns, Known, Saved, Adds
<1>3. \A v \in Workers, q \in RunIds :
        /\ Minted(v, q)' => /\ Minted(v, q) /\ q # r /\ wk'[v] = wk[v]
                            /\ wk[v].job \in JobIds
        /\ GoingOn(v, q)' => /\ GoingOn(v, q) /\ q # r /\ wk'[v] = wk[v]
                             /\ wk[v].job \in JobIds
  BY WorkersHands DEF LeavesOnly
<1>4. MintSound'
  <2>1. MintSound
    BY DEF Sound, FleetInv
  <2> QED
    BY <1>1, <1>2, <1>3, <2>1 DEF MintSound, StillRuns
<1>5. HandOver'
  <2>1. HandOver
    BY DEF Sound, FleetInv
  <2> QED
    BY <1>1, <1>3, <2>1 DEF HandOver
<1>6. ASSUME NEW q \in RunIds, NEW i \in JobIds
      PROVE  (Over(q) => Over(q)') /\ (LastOf(q, i) => LastOf(q, i)')
  <2>1. Over(q) \/ LastOf(q, i) => q # r
    BY DEF LeavesOnly
  <2>2. Known(q) => Known(q)'
    BY <1>2 DEF StillRuns
  <2>3. Over(q) => Over(q)'
    BY <1>1, <1>3, <2>1, <2>2 DEF Over
  <2>4. LastOf(q, i) => LastOf(q, i)'
    BY <1>1, <1>3, <2>1, <2>2 DEF LastOf
  <2> QED
    BY <2>3, <2>4
<1>7. \A q \in RunIds : Over(q) => Over(q)'
  <2>1. ASSUME NEW q \in RunIds, Over(q) PROVE Over(q)'
    <3>1. q # r /\ Known(q)'
      BY <1>2, <2>1 DEF LeavesOnly, StillRuns, Over
    <3> QED
      BY <1>1, <1>3, <2>1, <3>1 DEF Over
  <2> QED
    BY <2>1
<1>8. CancelSound' /\ CancelledSound'
  <2>1. (cancel.todo # {} => cancel.run \in RunIds) /\ cancelled \subseteq RunIds
        /\ cancel.todo \subseteq JobIds
    BY DEF Sound, WorkerInv, CancelInv, WorkerTypeOK
  <2>2. cancel' = cancel /\ cancelled' = cancelled
    BY DEF Adds
  <2>3. CancelledSound'
    BY <1>7, <2>1, <2>2 DEF Sound, FleetInv, CancelledSound
  <2>4. ASSUME NEW q \in RunIds, q = cancel.run, NEW i \in cancel.todo, Live(i)'
        PROVE  LastOf(q, i)'
    BY <1>1, <1>6, <2>1, <2>4 DEF Sound, FleetInv, CancelSound
  <2>5. CancelSound'
    BY <2>1, <2>2, <2>4 DEF Sound, FleetInv, CancelSound, LastOf
  <2> QED
    BY <2>3, <2>5
<1>9. ASSUME NEW v \in Workers PROVE HandSound(v)'
  <2>1. CASE ~Busy(v)'
    BY <2>1 DEF HandSound
  <2>2. CASE wk'[v] = wk[v]
    BY <1>1, <2>2, WorkersHands DEF HandSound, Busy
  <2> QED
    BY <2>1, <2>2 DEF LeavesOnly
<1> QED
  BY <1>4, <1>5, <1>8, <1>9, AddKeepsTable DEF FleetInv

LEMMA StartRunStill ==
  ASSUME Sound, NEW t \in Tickets, StartRun(t)
  PROVE  FleetInv'
<1>1. /\ t \in RunIds /\ t \notin Runs /\ "plan" \in ChainStages
      /\ Position("plan") = 1 /\ ~Known(t) /\ Known(t)'
  BY RunIdsAssumption, NamedPositions
     DEF StartRun, ChainStages, STAGE_CHAIN, Known, Saved
<1>2. jobs' = Append(jobs, NewJob(t, "plan", 1)) /\ started \subseteq started'
      /\ UNCHANGED <<docs, wk, merges, cancel, cancelled>>
  BY DEF StartRun, Enqueue
<1>3. \A j \in JobIds : jobs[j].run # t
  BY <1>1 DEF Sound, FleetInv, RowSound
<1>4. ~Over(t) /\ \A i \in JobIds : ~LastOf(t, i)
  BY <1>1 DEF Over, LastOf
<1>5. \A v \in Workers : ~Minted(v, t) /\ ~GoingOn(v, t)
  BY <1>1, GoesOnWithRun DEF Sound, FleetInv, MintSound
<1>6. \A v \in Workers, q \in RunIds :
        /\ Minted(v, q)' => Minted(v, q) /\ q # t /\ wk'[v] = wk[v]
        /\ GoingOn(v, q)' => GoingOn(v, q) /\ q # t /\ wk'[v] = wk[v]
  BY <1>2, <1>5 DEF Minted, GoingOn
<1>7. Adds(t, "plan")
  BY <1>1, <1>2, <1>3 DEF Adds
<1>8. LeavesOnly(t)
  BY <1>2, <1>4, <1>6 DEF LeavesOnly
<1> QED
  BY <1>1, <1>7, <1>8, AddStill

LEMMA EnqueueNextStill ==
  ASSUME Sound, NEW w \in Workers, EnqueueNext(w)
  PROVE  FleetInv'
<1>1. PICK r \in RunIds, j \in JobIds, s \in Stages :
        r = wk[w].run /\ j = wk[w].job /\ s = wk[w].stage
  BY WorkersHands DEF EnqueueNext, Busy
<1>2. /\ GoingOn(w, r) /\ Busy(w) /\ HandSound(w)
      /\ s \in ChainStages /\ next_stage(s) # ""
  <2>1. InHand(wk[w], JobIds)
    BY DEF Sound, WorkerInv
  <2> QED
    BY <1>1, <2>1, WorkersHands, Positions
       DEF EnqueueNext, InHand, GoingOn, Busy
<1>3. PICK t \in ChainStages : t = next_stage(s)
  BY <1>2, NextPosition
<1>4. Position(t) = Position(s) + 1 /\ Position(s) \in 1..7
  BY <1>2, <1>3, NextPosition, Positions
<1>5. jobs' = Append(jobs, NewJob(r, t, 1))
      /\ UNCHANGED <<docs, merges, started, cancel, cancelled>>
  BY <1>1, <1>3 DEF EnqueueNext, Enqueue, api
<1>6. \A i \in JobIds : jobs[i].run = r => ~Live(i) /\ Place(i) < Position(t)
  <2>1. \A i \in JobIds : jobs[i].run = r => ~Live(i) /\ Place(i) <= Position(s)
    BY <1>1, <1>2 DEF Sound, FleetInv, HandOver
  <2> QED
    BY <1>4, <2>1, RowsOfRuns
<1>7. Position(t) > 2 =>
        \E i \in JobIds : /\ jobs[i].run = r /\ Place(i) + 1 = Position(t)
                          /\ jobs[i].stage \in ChainStages
                          /\ jobs[i].status = "done"
  <2> SUFFICES ASSUME Position(t) > 2
               PROVE  /\ jobs[j].run = r /\ Place(j) + 1 = Position(t)
                      /\ jobs[j].stage \in ChainStages
                      /\ jobs[j].status = "done"
    OBVIOUS
  <2>1. s # "plan"
    BY <1>4, NamedPositions
  <2> QED
    BY <1>1, <1>2, <1>4, <2>1 DEF HandSound, Place, Sound, FleetInv, HandOver
<1>8. r \in Runs /\ Known(r)' /\ r \notin Tickets
  BY <1>2, <1>5, GoesOnWithRun, RunIdsAssumption DEF Known, Saved
<1>9. ~Over(r) /\ \A i \in JobIds : ~LastOf(r, i)
  BY <1>2 DEF Over, LastOf
<1>10. wk'[w].pc = "idle" /\ \A v \in Workers \ {w} : wk'[v] = wk[v]
  BY DEF EnqueueNext, Sound, WorkerInv, WorkerTypeOK, At
<1>11. \A v \in Workers, q \in RunIds :
         /\ Minted(v, q)' => Minted(v, q) /\ q # r /\ wk'[v] = wk[v]
         /\ GoingOn(v, q)' => GoingOn(v, q) /\ q # r /\ wk'[v] = wk[v]
  <2>1. \A v \in Workers : Minted(v, r) => v = w
    BY <1>2, OneOwner
  <2>2. \A v \in Workers : GoingOn(v, r) => v = w
    BY <1>2 DEF Sound, FleetInv, HandOver
  <2> QED
    BY <1>10, <2>1, <2>2 DEF Minted, GoingOn
<1>12. \A v \in Workers : wk'[v] = wk[v] \/ ~Busy(v)'
  BY <1>10 DEF Busy
<1>13. Adds(r, t)
  BY <1>5, <1>6, <1>7, <1>8 DEF Adds
<1>14. LeavesOnly(r)
  BY <1>9, <1>11, <1>12 DEF LeavesOnly
<1> QED
  BY <1>13, <1>14, AddStill

-----------------------------------------------------------------------------
(* Leases, humans and the API. *)

LEMMA LeaseLapsesStill ==
  ASSUME Sound, NEW j \in JobIds, LeaseLapses(j)
  PROVE  FleetInv'
<1> DEFINE new == [jobs[j] EXCEPT !.lease = "expired"]
<1>1. new \in Job /\ Still(jobs[j], new) /\ RowBecomes(j, new)
  BY RowsOfRuns, ExpiredStill DEF LeaseLapses, LeaseExpires, RowBecomes
<1> HIDE DEF new
<1>2. StillTable
  BY <1>1, OneRowStill
<1>3. UNCHANGED <<docs, wk, merges, started, cancel, cancelled>>
  BY DEF LeaseLapses, api
<1>4. StillHands /\ StillRuns /\ \A v \in Workers : HandSound(v)'
  BY <1>2, <1>3, HandsUnmoved, DocsStayKnown
     DEF StillHands, Minted, GoingOn, StillDocs
<1> QED
  BY <1>2, <1>3, <1>4, StillStepKeeps

LEMMA DecideStill ==
  ASSUME Sound, NEW r \in RunIds, NEW g \in GATES, NEW op \in Operators,
         NEW j \in JobIds, NEW decision \in {"approved", "rejected"},
         Decide(r, g, decision, op, j)
  PROVE  FleetInv'
<1> DEFINE new == Released(jobs[j], g, decision, op)
<1>1. jobs[j].status = "paused" /\ jobs[j].awaiting_gate = g
  BY DEF Decide, Resume, Oldest, PausedAt
<1>2. new \in Job /\ Still(jobs[j], new) /\ RowBecomes(j, new)
  BY <1>1, RowsOfRuns, ReleasedStill DEF Decide, Resume, RowBecomes
<1> HIDE DEF new
<1>3. StillTable
  BY <1>2, OneRowStill
<1>4. UNCHANGED <<docs, wk, merges, started, cancel, cancelled>>
  BY DEF Decide, fleet, api
<1>5. StillHands /\ StillRuns /\ \A v \in Workers : HandSound(v)'
  BY <1>3, <1>4, HandsUnmoved, DocsStayKnown
     DEF StillHands, Minted, GoingOn, StillDocs
<1> QED
  BY <1>3, <1>4, <1>5, StillStepKeeps

\* The API finds one live row, and it is all that keeps the run going.
LEMMA CancelRunStill ==
  ASSUME Sound, NEW r \in Cancellable, CancelRun(r)
  PROVE  FleetInv'
<1> DEFINE live == {j \in JobIds : jobs[j].run = r /\ Live(j)}
<1>1. r \in RunIds /\ live # {} /\ cancel' = [run |-> r, todo |-> live]
      /\ UNCHANGED <<jobs, docs, wk, merges, started, cancelled>>
  BY RunIdsAssumption DEF CancelRun, fleet
<1>2. StillTable /\ StillRuns
  BY <1>1, NoRowMoves, DocsStayKnown DEF StillDocs
<1>3. StillHands /\ \A v \in Workers : HandSound(v)'
  BY <1>1, <1>2, HandsUnmoved DEF StillHands, Minted, GoingOn
<1>4. \A i, j \in live : i = j
  <2>1. ASSUME NEW i \in live, NEW j \in live PROVE i = j
    <3>1. Place(i) <= Place(j) /\ Place(j) <= Place(i)
      BY DEF Sound, FleetInv, Latest, SameRun
    <3>2. Place(i) = Place(j)
      BY <3>1, RowsOfRuns
    <3> QED
      BY <3>2 DEF Sound, FleetInv, Distinct, SameRun
  <2> QED
    BY <2>1
<1>5. ASSUME NEW j \in live
      PROVE  LastOf(r, j)
  <2>1. j \in JobIds /\ jobs[j].run = r /\ Live(j)
    OBVIOUS
  <2>2. Known(r)
    BY <2>1 DEF Sound, FleetInv, RowSound
  <2>3. \A w \in Workers : ~GoingOn(w, r)
    BY <1>1, <2>1 DEF Sound, FleetInv, HandOver
  <2>4. \A w \in Workers : Minted(w, r) => wk[w].job = j
    BY <1>1, <2>1 DEF Sound, FleetInv, MintSound
  <2> QED
    BY <1>4, <2>1, <2>2, <2>3, <2>4 DEF LastOf
<1>6. ASSUME NEW j \in live
      PROVE  LastOf(r, j)'
  BY <1>1, <1>2, <1>3, <1>5, <1>6, LastStays
<1>7. CancelSound'
  <2>1. cancel'.run = r /\ cancel'.todo = live
    BY <1>1
  <2> HIDE DEF live
  <2> QED
    BY <1>4, <1>6, <2>1 DEF CancelSound, LastOf
<1>8. CancelledSound'
  BY <1>1, <1>2, <1>3, CancelIsKept
<1> QED
  BY <1>1, <1>2, <1>3, <1>7, <1>8, TableIsKept, MintIsKept, HandOverIsKept
     DEF FleetInv, StillRuns

LEMMA CancelRowStill ==
  ASSUME Sound, NEW j \in JobIds, CancelRow(j)
  PROVE  FleetInv'
<1> DEFINE new == Ended(jobs[j], "rejected")
<1>1. j \in cancel.todo /\ jobs[j].status \notin TERMINAL_STATUSES
      /\ RowBecomes(j, new) /\ UNCHANGED <<docs, wk, merges, started>>
  BY DEF CancelRow, Oldest, Complete, RowBecomes, fleet
<1>2. new \in Job /\ Still(jobs[j], new) /\ new.status = "rejected"
  <2>1. jobs[j] \in Job /\ RowDecided(jobs[j]) /\ "rejected" \in TERMINAL_STATUSES
    BY RowsOfRuns DEF TERMINAL_STATUSES
  <2>2. new.status = "rejected"
    BY <2>1 DEF Ended, Job
  <2> QED
    BY <1>1, <2>1, <2>2, EndedStill
<1> HIDE DEF new
<1>3. StillTable /\ ~Live(j)'
  BY <1>1, <1>2, OneRowStill, RowsOfRuns, ReplaceRow DEF Live, TERMINAL_STATUSES
<1>4. StillHands /\ StillRuns /\ \A v \in Workers : HandSound(v)'
  BY <1>1, <1>3, HandsUnmoved, DocsStayKnown
     DEF StillHands, Minted, GoingOn, StillDocs
<1>5. PICK r \in RunIds : r = cancel.run
  BY <1>1 DEF Sound, WorkerInv, CancelInv
<1>6. cancel.todo \ {j} = {} /\ LastOf(r, j)
  BY <1>1, <1>5 DEF Sound, FleetInv, CancelSound, Live
<1>7. cancel' = NoCancel /\ cancelled' = cancelled \union {r}
  BY <1>5, <1>6 DEF CancelRow
<1>8. Over(r)'
  BY <1>3, <1>4, <1>6, LastStays
<1>9. CancelledSound'
  <2>1. cancelled \subseteq RunIds
    BY DEF Sound, WorkerInv, WorkerTypeOK
  <2>2. ASSUME NEW q \in cancelled PROVE Over(q)'
    BY <1>3, <1>4, <2>1, OverStays DEF Sound, FleetInv, CancelledSound
  <2> QED
    BY <1>7, <1>8, <2>2 DEF CancelledSound
<1>10. CancelSound'
  BY <1>3, <1>4, <1>7, CancelIsKept
<1> QED
  BY <1>1, <1>3, <1>4, <1>9, <1>10, TableIsKept, MintIsKept, HandOverIsKept
     DEF FleetInv, StillRuns

LEMMA CancelRefusedStill ==
  ASSUME Sound, NEW j \in JobIds, CancelRefused(j)
  PROVE  FleetInv'
<1>1. cancel' = NoCancel
      /\ UNCHANGED <<jobs, docs, wk, merges, started, cancelled>>
  BY DEF CancelRefused, fleet
<1>2. StillTable /\ StillRuns
  BY <1>1, NoRowMoves, DocsStayKnown DEF StillDocs
<1>3. StillHands /\ \A v \in Workers : HandSound(v)'
  BY <1>1, <1>2, HandsUnmoved DEF StillHands, Minted, GoingOn
<1> QED
  BY <1>1, <1>2, <1>3, StillStepKeeps

-----------------------------------------------------------------------------
LEMMA WorkerStepStill ==
  ASSUME Sound, NEW w \in Workers, WorkerStep(w) \/ Crash(w)
  PROVE  FleetInv'
<1>1. CASE CheckEvidence(w) \/ StageStep(w) \/ Adopt(w) \/ EnqueueNext(w)
  BY <1>1, CheckEvidenceStill, StageStepStill, AdoptStill, EnqueueNextStill
<1>2. ASSUME NEW st \in TERMINAL_STATUSES, Record(w, st)
      PROVE  FleetInv'
  BY <1>2, RecordsAndRests, RecordsAndGoesOn
<1>3. ASSUME NEW st \in TERMINAL_STATUSES, RecordRefused(w, st)
      PROVE  FleetInv'
  BY <1>3, OutOfWorkStill DEF RecordRefused
<1>4. CASE Restart(w)
  BY <1>4, OutOfWorkStill DEF Restart
<1>5. CASE Crash(w)
  BY <1>5, OutOfWorkStill DEF Crash
<1> QED
  BY <1>1, <1>2, <1>3, <1>4, <1>5, ClaimJobStill DEF WorkerStep

LEMMA FleetInvIsKept == Sound /\ [WorkerNext]_vars => Sound'
<1>1. ASSUME Sound, WorkerNext PROVE FleetInv'
  <2>1. CASE ApiStep
    BY <1>1, <2>1, CancelRunStill, CancelRowStill, CancelRefusedStill DEF ApiStep
  <2>2. CASE HumanStep
    BY <1>1, <2>2, DecideStill DEF HumanStep
  <2> QED
    BY <1>1, <2>1, <2>2, StartRunStill, WorkerStepStill, LeaseLapsesStill
       DEF WorkerNext
<1>2. ASSUME Sound, UNCHANGED vars PROVE FleetInv'
  <2>1. UNCHANGED <<jobs, docs, wk, merges, started, cancel, cancelled>>
    BY <1>2 DEF vars
  <2>2. StillTable /\ StillRuns
    BY <1>2, <2>1, NoRowMoves, DocsStayKnown DEF StillDocs
  <2>3. StillHands /\ \A v \in Workers : HandSound(v)'
    BY <1>2, <2>1, <2>2, HandsUnmoved DEF StillHands, Minted, GoingOn
  <2> QED
    BY <1>2, <2>1, <2>2, <2>3, StillStepKeeps
<1> QED
  BY <1>1, <1>2, WorkerInvIsKept, RowInvariantIsKept DEF Sound

LEMMA FleetInvHolds == WorkerSpec => []Sound
<1>1. WorkerInit => WorkerInv
  BY WorkerInvAtInit
<1>2. WorkerInit => RowInvariant
  BY MaxJobsAssumption, EmptySeq
     DEF WorkerInit, QueueInit, RowInvariant, TypeOK, HolderIffClaimed,
         NoGateRunsUndecided, JobIds
<1>3. ASSUME WorkerInit PROVE FleetInv
  <2>1. JobIds = {} /\ cancel = NoCancel /\ cancelled = {}
        /\ \A r \in RunIds : merges[r] = 0
    BY <1>3 DEF WorkerInit, QueueInit, JobIds
  <2>2. \A w \in Workers :
          /\ HandSound(w)
          /\ \A r \in RunIds : ~Minted(w, r) /\ ~GoingOn(w, r)
    <3>1. \A w \in Workers : wk[w].pc = "idle"
      BY <1>3 DEF WorkerInit, At
    <3> QED
      BY <3>1 DEF HandSound, Busy, Minted, GoingOn
  <2>3. Distinct /\ Latest /\ Below
    BY <2>1 DEF Distinct, Latest, Below
  <2>4. MergeSound /\ CancelledSound
    BY <2>1 DEF MergeSound, CancelledSound
  <2>5. CancelSound
    BY <2>1 DEF CancelSound, NoCancel
  <2> QED
    BY <2>1, <2>2, <2>3, <2>4, <2>5 DEF FleetInv, MintSound, HandOver
<1> QED
  BY <1>1, <1>2, <1>3, FleetInvIsKept, PTL DEF WorkerSpec, Sound

-----------------------------------------------------------------------------
(* What the invariant says of a run. *)

\* A run is in one place: never two rows of it that a worker or a human could
\* still move, with leases lost under living workers and deaths anywhere.
THEOREM OneRowAtATime == WorkerSpec => []OneLiveRowPerRun
<1>1. ASSUME Sound, NEW i \in JobIds, NEW j \in JobIds,
             jobs[i].run = jobs[j].run, Live(i), Live(j)
      PROVE  i = j
  <2>1. Place(i) <= Place(j) /\ Place(j) <= Place(i)
    BY <1>1 DEF Sound, FleetInv, Latest, SameRun
  <2>2. Place(i) = Place(j)
    BY <1>1, <2>1, RowsOfRuns
  <2> QED
    BY <1>1, <2>2 DEF Sound, FleetInv, Distinct, SameRun
<1>2. Sound => OneLiveRowPerRun
  BY <1>1 DEF OneLiveRowPerRun
<1> QED
  BY <1>2, FleetInvHolds, PTL

\* Once cancel_run has answered the client, the run never again has a row that
\* moves ("no further stage runs", api/service.py:443): the row it ended was
\* the only one, and nobody was about to enqueue another.
THEOREM CancelledStaysOver == WorkerSpec => []CancelHolds
<1>1. Sound => CancelHolds
  BY DEF Sound, FleetInv, CancelledSound, Over, WorkerInv, WorkerTypeOK, CancelHolds
<1> QED
  BY <1>1, FleetInvHolds, PTL

\* A stage that ended well at a place in the chain.
Passed(r, k) ==
  \E i \in JobIds : /\ jobs[i].run = r /\ Place(i) = k
                    /\ jobs[i].stage \in ChainStages /\ jobs[i].status = "done"

LEMMA PassedBelow ==
  ASSUME Sound, NEW j \in JobIds
  PROVE  \A k \in 2..6 : k < Place(j) => Passed(jobs[j].run, k)
<1> DEFINE r == jobs[j].run
<1>1. ASSUME NEW i \in JobIds, jobs[i].run = r, Place(i) > 2
      PROVE  Passed(r, Place(i) - 1)
  <2>1. PICK h \in JobIds : /\ SameRun(h, i) /\ Place(h) + 1 = Place(i)
                            /\ jobs[h].stage \in ChainStages
                            /\ jobs[h].status = "done"
    BY <1>1 DEF Sound, FleetInv, Below
  <2>2. Place(h) = Place(i) - 1 /\ jobs[h].run = r
    BY <1>1, <2>1, RowsOfRuns DEF SameRun
  <2> QED
    BY <2>1, <2>2 DEF Passed
<1>2. \A k \in 3..6 : Passed(r, k) => Passed(r, k - 1)
  <2>1. ASSUME NEW k \in 3..6, Passed(r, k) PROVE Passed(r, k - 1)
    <3>1. PICK i \in JobIds : jobs[i].run = r /\ Place(i) = k
      BY <2>1 DEF Passed
    <3> QED
      BY <1>1, <3>1
  <2> QED
    BY <2>1
<1>3. /\ Passed(r, 6) => Passed(r, 5)
      /\ Passed(r, 5) => Passed(r, 4)
      /\ Passed(r, 4) => Passed(r, 3)
      /\ Passed(r, 3) => Passed(r, 2)
  BY <1>2
<1>4. Place(j) \in 1..7 /\ (Place(j) > 2 => Passed(r, Place(j) - 1))
  BY <1>1, RowsOfRuns
<1> HIDE DEF r
<1>5. ASSUME NEW k \in 2..6, k < Place(j) PROVE Passed(r, k)
  BY <1>3, <1>4, <1>5
<1> QED
  BY <1>5 DEF r

LEMMA GatePositions ==
  /\ \A s \in GATES : s \in ChainStages /\ Position(s) \in {2, 4, 6}
                      /\ s \notin Recorders /\ s # "plan"
  /\ \A s \in Recorders : s \notin ChainStages /\ s # "plan"
  /\ \A s \in {"gate1", "develop", "gate2", "sre", "gate3"} :
       s \in ChainStages /\ Position(s) \in 2..6
  /\ \A s \in ChainStages : Position(s) = 2 => s = "gate1"
  /\ \A s \in ChainStages : Position(s) = 4 => s = "gate2"
  /\ \A s \in ChainStages : Position(s) = 6 => s = "gate3"
<1>1. ChainStages =
        {"plan", "gate1", "develop", "gate2", "sre", "gate3", "promote"}
  BY DEF ChainStages, STAGE_CHAIN
<1>2. Recorders = {"gate1-rejected", "gate2-rejected", "gate3-rejected"}
  BY DEF Recorders
<1>3. GATES = {"gate1", "gate2", "gate3"}
  BY DEF GATES
<1> QED
  BY <1>1, <1>2, <1>3, NamedPositions

\* At a place the run passed, its only row is the one of the chain, done; a
\* gate's was decided.
LEMMA RowsPassed ==
  ASSUME Sound, NEW j \in JobIds, NEW i \in JobIds, SameRun(i, j),
         Place(i) < Place(j), Place(i) > 1
  PROVE  /\ jobs[i].stage \in ChainStages /\ jobs[i].status = "done"
         /\ jobs[i].stage \in GATES => jobs[i].decided_by # Nobody
<1>1. Place(i) \in 2..6
  BY RowsOfRuns
<1>2. PICK h \in JobIds : /\ jobs[h].run = jobs[j].run /\ Place(h) = Place(i)
                          /\ jobs[h].stage \in ChainStages
                          /\ jobs[h].status = "done"
  BY <1>1, PassedBelow DEF Passed
<1>3. h = i
  BY <1>2 DEF Sound, FleetInv, Distinct, SameRun
<1> QED
  BY <1>2, <1>3, RowsOfRuns DEF GateSound

\* The stages the run passed.
LEMMA StagesPassed ==
  ASSUME Sound, NEW j \in JobIds, NEW s \in ChainStages,
         Position(s) \in 2..6, Position(s) < Place(j)
  PROVE  \E i \in JobIds : /\ jobs[i].run = jobs[j].run /\ jobs[i].stage = s
                           /\ jobs[i].status = "done"
<1>1. PICK i \in JobIds : /\ jobs[i].run = jobs[j].run /\ Place(i) = Position(s)
                          /\ jobs[i].stage \in ChainStages
                          /\ jobs[i].status = "done"
  BY PassedBelow DEF Passed
<1>2. jobs[i].stage = s
  BY <1>1, Positions DEF Place
<1> QED
  BY <1>1, <1>2

\* merge_pr is called only for a run whose gates, develop and sre stages all
\* ended well, the gates each with a human's name on the row: for any number of
\* workers that lose their lease or die, and any runs started beside it.
THEOREM MergesAreEarned == WorkerSpec => []MergeWasEarned
<1>1. ASSUME Sound, NEW r \in RunIds, merges[r] > 0
      PROVE  /\ \A s \in {"gate1", "develop", "gate2", "sre", "gate3"} :
                  RowFor(r, s, {"done"})
             /\ \A j \in JobIds : jobs[j].run = r /\ jobs[j].stage \in GATES =>
                  jobs[j].decided_by # Nobody
  <2>1. PICK m \in JobIds : jobs[m].run = r /\ Place(m) = 7
    BY <1>1 DEF Sound, FleetInv, MergeSound
  <2>2. ASSUME NEW s \in {"gate1", "develop", "gate2", "sre", "gate3"}
        PROVE  RowFor(r, s, {"done"})
    <3>1. s \in ChainStages /\ Position(s) \in 2..6 /\ Position(s) < Place(m)
      BY <2>1, GatePositions
    <3> QED
      BY <1>1, <2>1, <3>1, StagesPassed DEF RowFor
  <2>3. ASSUME NEW j \in JobIds, jobs[j].run = r, jobs[j].stage \in GATES
        PROVE  jobs[j].decided_by # Nobody
    <3>1. Place(j) \in {2, 4, 6}
      BY <2>3, GatePositions DEF Place
    <3>2. SameRun(j, m) /\ Place(j) < Place(m) /\ Place(j) > 1
      BY <2>1, <2>3, <3>1 DEF SameRun
    <3> QED
      BY <1>1, <2>3, <3>2, RowsPassed
  <2> QED
    BY <2>2, <2>3
<1>2. Sound => MergeWasEarned
  BY <1>1 DEF MergeWasEarned
<1> QED
  BY <1>2, FleetInvHolds, PTL

-----------------------------------------------------------------------------
(* The promise: what the rows say of humans' decisions. *)

approvals == [r \in RunIds |->
                {g \in GATES : \E j \in JobIds :
                   /\ jobs[j].run = r /\ jobs[j].stage = g
                   /\ jobs[j].decided_by # Nobody}]

refusals == {r \in RunIds : \E j \in JobIds :
               jobs[j].run = r /\ jobs[j].stage \in Recorders}

landed == {r \in RunIds : merges[r] > 0}

\* Nobody decided anything: rows keep their stage, name and run, save for the
\* row of plan, which is renamed, and new rows are of the chain and undecided.
Undecided ==
  /\ JobIds \subseteq JobIds'
  /\ \A j \in JobIds :
       /\ jobs'[j].stage = jobs[j].stage
       /\ jobs'[j].decided_by = jobs[j].decided_by
       /\ jobs[j].stage # "plan" => jobs'[j].run = jobs[j].run
  /\ \A j \in JobIds' \ JobIds :
       jobs'[j].stage \in ChainStages /\ jobs'[j].decided_by = Nobody

LEMMA UndecidedKeeps ==
  ASSUME Undecided
  PROVE  approvals' = approvals /\ refusals' = refusals
<1>1. \A r \in RunIds, g \in GATES :
        (\E j \in JobIds' : /\ jobs'[j].run = r /\ jobs'[j].stage = g
                            /\ jobs'[j].decided_by # Nobody)
          <=> (\E j \in JobIds : /\ jobs[j].run = r /\ jobs[j].stage = g
                                 /\ jobs[j].decided_by # Nobody)
  BY GatePositions DEF Undecided
<1>2. \A r \in RunIds :
        (\E j \in JobIds' : jobs'[j].run = r /\ jobs'[j].stage \in Recorders)
          <=> (\E j \in JobIds : jobs[j].run = r /\ jobs[j].stage \in Recorders)
  BY GatePositions DEF Undecided
<1> QED
  BY <1>1, <1>2 DEF approvals, refusals

LEMMA UndecidedRow ==
  ASSUME Sound, NEW j \in JobIds, NEW new \in Job, RowBecomes(j, new),
         new.stage = jobs[j].stage, new.run = jobs[j].run,
         new.decided_by = jobs[j].decided_by
  PROVE  Undecided
<1>1. JobIds' = JobIds /\ jobs'[j] = new
      /\ \A i \in JobIds \ {j} : jobs'[i] = jobs[i]
  BY RowsOfRuns, ReplaceRow
<1> QED
  BY <1>1 DEF Undecided

LEMMA UndecidedEnding ==
  ASSUME Sound, NEW j \in JobIds, NEW st \in TERMINAL_STATUSES, Complete(j, st)
  PROVE  Undecided
<1> DEFINE new == Ended(jobs[j], st)
<1>1. jobs[j] \in Job /\ RowBecomes(j, new)
  BY RowsOfRuns DEF Complete, RowBecomes
<1>2. new \in Job /\ new.stage = jobs[j].stage /\ new.run = jobs[j].run
      /\ new.decided_by = jobs[j].decided_by
  BY <1>1 DEF Ended, Job, JobStatus
<1> HIDE DEF new
<1> QED
  BY <1>1, <1>2, UndecidedRow

LEMMA UndecidedNewRow ==
  ASSUME Sound, NEW r \in RunIds, NEW s \in ChainStages, Enqueue(r, s, 1)
  PROVE  Undecided
<1> DEFINE n == Len(jobs) + 1
           new == NewJob(r, s, 1)
<1>1. new \in Job /\ new.stage = s /\ new.decided_by = Nobody
  BY NewJobIsAJob, RunIdsAssumption DEF NewJob
<1> HIDE DEF new
<1>2. /\ JobIds' = JobIds \union {n} /\ n \notin JobIds
      /\ jobs'[n] = new /\ \A j \in JobIds : jobs'[j] = jobs[j]
  BY <1>1, RowsOfRuns, AppendRow DEF Enqueue, new
<1> HIDE DEF n
<1> QED
  BY <1>1, <1>2 DEF Undecided

LEMMA UndecidedSteps ==
  ASSUME Sound
  PROVE  /\ UNCHANGED jobs => Undecided
         /\ \A t \in Tickets : StartRun(t) => Undecided
         /\ \A w \in Workers : WorkerStep(w) \/ Crash(w) => Undecided
         /\ \A j \in JobIds : LeaseLapses(j) \/ CancelRow(j) => Undecided
<1>1. UNCHANGED jobs => Undecided
  BY DEF Undecided, JobIds
<1>2. ASSUME NEW t \in Tickets, StartRun(t) PROVE Undecided
  <2>1. t \in RunIds /\ "plan" \in ChainStages
    BY RunIdsAssumption DEF ChainStages, STAGE_CHAIN
  <2> QED
    BY <1>2, <2>1, UndecidedNewRow DEF StartRun
<1>3. ASSUME NEW w \in Workers, NEW j \in JobIds, ClaimJob(w, j) PROVE Undecided
  <2> DEFINE new == Leased(jobs[j], w)
  <2>1. jobs[j] \in Job /\ RowBecomes(j, new)
    BY <1>3, RowsOfRuns DEF ClaimJob, Claim, RowBecomes
  <2>2. new \in Job /\ new.stage = jobs[j].stage /\ new.run = jobs[j].run
        /\ new.decided_by = jobs[j].decided_by
    BY <2>1 DEF Leased, Job, JobStatus
  <2> HIDE DEF new
  <2> QED
    BY <2>1, <2>2, UndecidedRow
<1>4. ASSUME NEW w \in Workers, Adopt(w) PROVE Undecided
  <2>1. PICK j \in JobIds, r \in RunIds : j = wk[w].job /\ r = wk[w].run
    BY <1>4, WorkersHands DEF Adopt, Busy
  <2>2. jobs[j].stage = "plan" /\ jobs[j] \in Job
    BY <1>4, <2>1, WorkersHands, RowsOfRuns DEF Adopt, HandSound, Busy
  <2>3. jobs'[j] = [jobs[j] EXCEPT !.run = r] /\ JobIds' = JobIds
        /\ \A i \in JobIds \ {j} : jobs'[i] = jobs[i]
    BY <1>4, <2>1, RowsOfRuns, AdoptedRow DEF Adopt
  <2>4. jobs'[j].stage = jobs[j].stage /\ jobs'[j].decided_by = jobs[j].decided_by
    BY <2>2, <2>3 DEF Job
  <2> QED
    BY <2>2, <2>3, <2>4 DEF Undecided
<1>5. ASSUME NEW w \in Workers, NEW st \in TERMINAL_STATUSES, Record(w, st)
      PROVE  Undecided
  BY <1>5, HandEnds, UndecidedEnding DEF Record
<1>6. ASSUME NEW w \in Workers, EnqueueNext(w) PROVE Undecided
  <2>1. InHand(wk[w], JobIds) /\ wk[w].pc = "enqueue"
    BY <1>6 DEF Sound, WorkerInv, EnqueueNext
  <2>2. wk[w].run \in RunIds /\ wk[w].stage \in ChainStages
        /\ next_stage(wk[w].stage) # ""
    BY <2>1, Positions DEF InHand
  <2> QED
    BY <1>6, <2>2, NextStageIsInChain, UndecidedNewRow DEF EnqueueNext
<1>7. ASSUME NEW w \in Workers,
             \/ CheckEvidence(w) \/ StageStep(w) \/ Restart(w) \/ Crash(w)
             \/ \E st \in TERMINAL_STATUSES : RecordRefused(w, st)
      PROVE  Undecided
  <2>1. UNCHANGED jobs
    BY <1>7, StageLeavesTheTable DEF CheckEvidence, Restart, Crash, RecordRefused
  <2> QED
    BY <1>1, <2>1
<1>8. ASSUME NEW j \in JobIds, LeaseLapses(j) PROVE Undecided
  <2> DEFINE new == [jobs[j] EXCEPT !.lease = "expired"]
  <2>1. jobs[j] \in Job /\ RowBecomes(j, new)
    BY <1>8, RowsOfRuns DEF LeaseLapses, LeaseExpires, RowBecomes
  <2>2. new \in Job /\ new.stage = jobs[j].stage /\ new.run = jobs[j].run
        /\ new.decided_by = jobs[j].decided_by
    BY <2>1 DEF Job
  <2> HIDE DEF new
  <2> QED
    BY <2>1, <2>2, UndecidedRow
<1>9. ASSUME NEW j \in JobIds, CancelRow(j) PROVE Undecided
  BY <1>9, UndecidedEnding DEF CancelRow, TERMINAL_STATUSES
<1> QED
  BY <1>1, <1>2, <1>3, <1>4, <1>5, <1>6, <1>7, <1>8, <1>9 DEF WorkerStep

LEMMA GateNumbers ==
  /\ Promotion!GatesBefore(4) = GATES
  /\ \A i \in 1..3 : /\ Promotion!GateOrder[i] \in GATES
                     /\ Position(Promotion!GateOrder[i]) = 2 * i
                     /\ Promotion!GatesBefore(i) = {g \in GATES : Position(g) < 2 * i}
  /\ \A g \in GATES : \E i \in 1..3 : Promotion!GateOrder[i] = g
<1>1. /\ 1..(1 - 1) = {} /\ 1..(2 - 1) = {1} /\ 1..(3 - 1) = {1, 2}
      /\ 1..(4 - 1) = {1, 2, 3} /\ 1..3 = {1, 2, 3}
  OBVIOUS
<1>2. /\ Promotion!GateOrder[1] = "gate1" /\ Promotion!GateOrder[2] = "gate2"
      /\ Promotion!GateOrder[3] = "gate3"
  BY DEF Promotion!GateOrder
<1>3. GATES = {"gate1", "gate2", "gate3"}
  BY DEF GATES
<1>4. /\ Promotion!GatesBefore(1) = {} /\ Promotion!GatesBefore(2) = {"gate1"}
      /\ Promotion!GatesBefore(3) = {"gate1", "gate2"}
      /\ Promotion!GatesBefore(4) = {"gate1", "gate2", "gate3"}
  BY <1>1, <1>2 DEF Promotion!GatesBefore
<1>5. /\ {g \in GATES : Position(g) < 2} = {}
      /\ {g \in GATES : Position(g) < 4} = {"gate1"}
      /\ {g \in GATES : Position(g) < 6} = {"gate1", "gate2"}
  BY <1>3, NamedPositions
<1>6. \A i \in 1..3 : Promotion!GatesBefore(i) = {g \in GATES : Position(g) < 2 * i}
  <2>1. 2 * 1 = 2 /\ 2 * 2 = 4 /\ 2 * 3 = 6
    OBVIOUS
  <2> QED
    BY <1>1, <1>4, <1>5, <2>1
<1>7. \A i \in 1..3 : /\ Promotion!GateOrder[i] \in GATES
                      /\ Position(Promotion!GateOrder[i]) = 2 * i
  BY <1>1, <1>2, <1>3, NamedPositions
<1>8. \A g \in GATES : \E i \in 1..3 : Promotion!GateOrder[i] = g
  BY <1>1, <1>2, <1>3
<1> QED
  BY <1>3, <1>4, <1>6, <1>7, <1>8

\* The gates below a live row, or one that is merged, are those the run passed,
\* and no row of the run below it records a refusal.
LEMMA GatesBelow ==
  ASSUME Sound, NEW j \in JobIds, NEW g \in GATES, Position(g) < Place(j)
  PROVE  \E i \in JobIds : /\ jobs[i].run = jobs[j].run /\ jobs[i].stage = g
                           /\ jobs[i].decided_by # Nobody
<1>1. g \in ChainStages /\ Position(g) \in 2..6
  BY GatePositions
<1>2. PICK i \in JobIds : /\ jobs[i].run = jobs[j].run /\ jobs[i].stage = g
                          /\ jobs[i].status = "done"
  BY <1>1, StagesPassed
<1> QED
  BY <1>2, RowsOfRuns DEF GateSound

LEMMA NoRefusalBelow ==
  ASSUME Sound, NEW j \in JobIds, NEW i \in JobIds, SameRun(i, j),
         Place(i) < Place(j)
  PROVE  jobs[i].stage \notin Recorders
<1> SUFFICES ASSUME jobs[i].stage \in Recorders PROVE FALSE
  OBVIOUS
<1>1. Place(i) > 1
  BY Positions DEF Stages, Place
<1>2. jobs[i].stage \in ChainStages
  BY <1>1, RowsPassed
<1> QED
  BY <1>2, GatePositions

LEMMA MergeKeepsThePromise ==
  ASSUME Sound, NEW w \in Workers, Merge(w)
  PROVE  [Promotion!PromotionNext]_(Promotion!promotion)
<1>1. PICK r \in RunIds, j \in JobIds : r = wk[w].run /\ j = wk[w].job
  BY WorkersHands DEF Merge, Running, Busy
<1>2. jobs[j].run = r /\ Place(j) = 7
  BY <1>1, WorkersHands, NamedPositions DEF Merge, Running, Busy, HandSound, Place
<1>3. approvals' = approvals /\ refusals' = refusals /\ cancelled' = cancelled
  BY UndecidedSteps, UndecidedKeeps DEF Merge, api
<1>4. landed' = landed \union {r}
  <2>1. merges \in [RunIds -> Nat] /\ merges' = [merges EXCEPT ![r] = @ + 1]
    BY <1>1 DEF Sound, WorkerInv, WorkerTypeOK, Merge
  <2> QED
    BY <2>1 DEF landed
<1>5. r \notin refusals
  <2>1. \A i \in JobIds : jobs[i].run = r /\ jobs[i].stage \in Recorders =>
          SameRun(i, j) /\ Place(i) < Place(j)
    BY <1>2, Positions DEF SameRun, Stages, Place
  <2> QED
    BY <2>1, NoRefusalBelow DEF refusals
<1>6. approvals[r] = Promotion!GatesBefore(4)
  <2>1. \A g \in GATES : Position(g) < Place(j)
    BY <1>2, GatePositions
  <2>2. \A g \in GATES : \E i \in JobIds : /\ jobs[i].run = r /\ jobs[i].stage = g
                                           /\ jobs[i].decided_by # Nobody
    BY <1>2, <2>1, GatesBelow
  <2> QED
    BY <2>2, GateNumbers DEF approvals
<1>7. Promotion!Merge(r)
  BY <1>3, <1>4, <1>5, <1>6
     DEF Promotion!Merge, approvals, refusals, landed
<1> QED
  BY <1>7 DEF Promotion!PromotionNext

\* A gate's row waiting for a decision is where its run has come to.
LEMMA WaitsAtItsGate ==
  ASSUME Sound, NEW j \in JobIds, jobs[j].status = "paused", NEW i \in 1..3,
         Promotion!GateOrder[i] = jobs[j].stage
  PROVE  /\ jobs[j].run \notin refusals \union cancelled
         /\ approvals[jobs[j].run] = Promotion!GatesBefore(i)
         /\ jobs[j].decided_by = Nobody
<1>1. PICK r \in RunIds, g \in GATES : jobs[j].run = r /\ jobs[j].stage = g
  BY RowsOfRuns DEF Job, GateSound
<1>2. /\ Place(j) = 2 * i /\ Live(j) /\ jobs[j].decided_by = Nobody
      /\ \A h \in JobIds : jobs[h].run = r /\ h # j => Place(h) < Place(j)
  <2>1. Place(j) = 2 * i /\ Live(j) /\ jobs[j].decided_by = Nobody
    BY <1>1, GateNumbers, RowsOfRuns
       DEF Place, Live, TERMINAL_STATUSES, GateSound
  <2>2. \A h \in JobIds : jobs[h].run = r =>
          Place(h) <= Place(j) /\ (Place(h) = Place(j) => h = j)
    BY <1>1, <2>1 DEF Sound, FleetInv, Latest, Distinct, SameRun
  <2> QED
    BY <2>1, <2>2, RowsOfRuns
<1>3. r \notin refusals
  <2>1. jobs[j].stage \notin Recorders
    BY <1>1, GatePositions
  <2> QED
    BY <1>1, <1>2, <2>1, NoRefusalBelow DEF refusals, SameRun
<1>4. r \notin cancelled
  BY <1>1, <1>2 DEF Sound, FleetInv, CancelledSound, Over
<1>5. ASSUME NEW h \in GATES
      PROVE  Position(h) < 2 * i <=>
               \E k \in JobIds : /\ jobs[k].run = r /\ jobs[k].stage = h
                                 /\ jobs[k].decided_by # Nobody
  <2>1. Position(h) < 2 * i =>
          \E k \in JobIds : /\ jobs[k].run = r /\ jobs[k].stage = h
                            /\ jobs[k].decided_by # Nobody
    BY <1>1, <1>2, GatesBelow
  <2>2. \A k \in JobIds :
          jobs[k].run = r /\ jobs[k].stage = h /\ jobs[k].decided_by # Nobody
            => Place(k) < 2 * i
    BY <1>2
  <2> QED
    BY <2>1, <2>2 DEF Place
<1>6. approvals[r] = Promotion!GatesBefore(i)
  <2>1. approvals[r] = {h \in GATES : Position(h) < 2 * i}
    BY <1>5 DEF approvals
  <2> QED
    BY <2>1, GateNumbers
<1> QED
  BY <1>1, <1>2, <1>3, <1>4, <1>6

LEMMA DecideKeepsThePromise ==
  ASSUME Sound, NEW r \in RunIds, NEW g \in GATES, NEW op \in Operators,
         NEW j \in JobIds, NEW decision \in {"approved", "rejected"},
         Decide(r, g, decision, op, j)
  PROVE  Promotion!PromotionNext
<1> DEFINE new == Released(jobs[j], g, decision, op)
<1>1. /\ jobs[j].status = "paused" /\ jobs[j].run = r
      /\ jobs[j].stage = g /\ jobs[j].awaiting_gate = g /\ jobs[j] \in Job
  BY RowsOfRuns DEF Decide, Resume, Oldest, PausedAt, GateSound
<1>2. new \in Job /\ RowBecomes(j, new)
  BY <1>1, RowsOfRuns, ReleasedStill DEF Decide, Resume, RowBecomes
<1>3. /\ new.run = r /\ new.decided_by # Nobody
      /\ decision = "approved" => new.stage = g
      /\ decision = "rejected" => new.stage \in Recorders
  BY <1>1, NobodyAssumption, RecorderOfGate
     DEF Released, Job, APPROVING_DECISIONS
<1> HIDE DEF new
<1>4. /\ JobIds' = JobIds /\ jobs'[j] = new
      /\ \A i \in JobIds \ {j} : jobs'[i] = jobs[i]
  BY <1>2, RowsOfRuns, ReplaceRow
<1>5. landed' = landed /\ cancelled' = cancelled
  BY DEF Decide, fleet, api, landed
<1>6. PICK i \in 1..3 : Promotion!GateOrder[i] = g
  BY GateNumbers
<1>7. /\ r \notin refusals \union cancelled
      /\ approvals[r] = Promotion!GatesBefore(i) /\ jobs[j].decided_by = Nobody
  BY <1>1, <1>6, WaitsAtItsGate
<1>8. \A q \in RunIds, h \in GATES :
        (\E k \in JobIds' : /\ jobs'[k].run = q /\ jobs'[k].stage = h
                            /\ jobs'[k].decided_by # Nobody)
          <=> \/ \E k \in JobIds : /\ jobs[k].run = q /\ jobs[k].stage = h
                                   /\ jobs[k].decided_by # Nobody
              \/ decision = "approved" /\ q = r /\ h = g
  BY <1>1, <1>3, <1>4, <1>7, GatePositions
<1>9. \A q \in RunIds :
        (\E k \in JobIds' : jobs'[k].run = q /\ jobs'[k].stage \in Recorders)
          <=> \/ \E k \in JobIds : jobs[k].run = q /\ jobs[k].stage \in Recorders
              \/ decision = "rejected" /\ q = r
  BY <1>1, <1>3, <1>4, GatePositions
<1>10. CASE decision = "approved"
  <2>1. refusals' = refusals
    BY <1>9, <1>10 DEF refusals
  <2>2. approvals' = [approvals EXCEPT ![r] = @ \union {g}]
    <3>1. \A q \in RunIds :
            approvals'[q] = IF q = r THEN approvals[q] \union {g} ELSE approvals[q]
      BY <1>8, <1>10 DEF approvals
    <3>2. approvals = [q \in RunIds |-> approvals[q]]
          /\ approvals' = [q \in RunIds |-> approvals'[q]]
      BY DEF approvals
    <3> QED
      BY <3>1, <3>2
  <2>3. Promotion!Approve(r, i)
    BY <1>5, <1>6, <1>7, <2>1, <2>2
       DEF Promotion!Approve, Promotion!AtGate, approvals, refusals, landed
  <2> QED
    BY <2>3 DEF Promotion!PromotionNext
<1>11. CASE decision = "rejected"
  <2>1. refusals' = refusals \union {r}
    BY <1>9, <1>11 DEF refusals
  <2>2. approvals' = approvals
    BY <1>8, <1>11 DEF approvals
  <2>3. Promotion!Refuse(r, i)
    BY <1>5, <1>7, <2>1, <2>2
       DEF Promotion!Refuse, Promotion!AtGate, approvals, refusals, landed
  <2> QED
    BY <2>3 DEF Promotion!PromotionNext
<1> QED
  BY <1>10, <1>11

LEMMA CancelKeepsThePromise ==
  ASSUME Sound, NEW j \in JobIds, CancelRow(j)
  PROVE  [Promotion!PromotionNext]_(Promotion!promotion)
<1>1. approvals' = approvals /\ refusals' = refusals /\ landed' = landed
  BY UndecidedSteps, UndecidedKeeps DEF CancelRow, fleet, landed
<1>2. PICK r \in RunIds : r = cancel.run
  <2>1. cancel.todo # {}
    BY DEF CancelRow, Oldest
  <2> QED
    BY <2>1 DEF Sound, WorkerInv, CancelInv
<1>3. CASE cancelled' = cancelled \union {r}
  <2>1. Promotion!Cancel(r)
    BY <1>1, <1>3 DEF Promotion!Cancel, approvals, refusals, landed
  <2> QED
    BY <2>1 DEF Promotion!PromotionNext
<1>4. CASE cancelled' = cancelled
  BY <1>1, <1>4 DEF Promotion!promotion, approvals, refusals, landed
<1> QED
  BY <1>2, <1>3, <1>4 DEF CancelRow

LEMMA StepKeepsThePromise ==
  Sound /\ [WorkerNext]_vars => [Promotion!PromotionNext]_(Promotion!promotion)
<1>1. ASSUME Sound, Undecided, UNCHANGED <<merges, cancelled>>
      PROVE  UNCHANGED Promotion!promotion
  BY <1>1, UndecidedKeeps DEF Promotion!promotion, approvals, refusals, landed
<1>2. ASSUME Sound, NEW w \in Workers, WorkerStep(w) \/ Crash(w), ~Merge(w)
      PROVE  UNCHANGED Promotion!promotion
  <2>1. UNCHANGED <<merges, cancelled>>
    BY <1>2 DEF WorkerStep, ClaimJob, CheckEvidence, StageStep, LoadRun, Plan,
       RecordApproval, RecordRefusal, RecordDecision, EmitDecision,
       DeclineEnded, Develop, Sre, RefusePromotion, EmitPromoted, StageCrashes,
       Adopt, Record, RecordRefused, EnqueueNext, Restart, Crash, api
  <2> QED
    BY <1>1, <1>2, <2>1, UndecidedSteps
<1>3. ASSUME Sound, NEW t \in Tickets, StartRun(t)
      PROVE  UNCHANGED Promotion!promotion
  BY <1>1, <1>3, UndecidedSteps DEF StartRun
<1>4. ASSUME Sound, NEW j \in JobIds, LeaseLapses(j)
      PROVE  UNCHANGED Promotion!promotion
  BY <1>1, <1>4, UndecidedSteps DEF LeaseLapses, api
<1>5. ASSUME Sound, \/ \E r \in Cancellable : CancelRun(r)
                    \/ \E j \in JobIds : CancelRefused(j)
                    \/ UNCHANGED vars
      PROVE  UNCHANGED Promotion!promotion
  BY <1>1, <1>5, UndecidedSteps DEF CancelRun, CancelRefused, vars, fleet
<1> QED
  BY <1>2, <1>3, <1>4, <1>5, MergeKeepsThePromise, DecideKeepsThePromise,
     CancelKeepsThePromise DEF WorkerNext, HumanStep, ApiStep

\* The fleet keeps the promise of GatedPromotion: whatever worker runs a stage
\* twice, whoever dies, and wherever a cancellation falls, humans pass the
\* gates of a run in order, nobody decides on one that was refused or
\* cancelled, and merge_pr is called only after three approvals and no refusal.
THEOREM FleetKeepsThePromise == WorkerSpec => KeepsThePromise
<1>1. ASSUME WorkerInit PROVE Promotion!PromotionInit
  <2>1. JobIds = {} /\ cancelled = {} /\ \A r \in RunIds : merges[r] = 0
    BY <1>1 DEF WorkerInit, QueueInit, JobIds
  <2>2. approvals = [r \in RunIds |-> {}] /\ refusals = {} /\ landed = {}
    BY <2>1 DEF approvals, refusals, landed
  <2> QED
    BY <2>1, <2>2 DEF Promotion!PromotionInit, approvals, refusals, landed
<1> QED
  BY <1>1, StepKeepsThePromise, FleetInvHolds, PTL
     DEF WorkerSpec, KeepsThePromise, Promotion!PromotionSpec

-----------------------------------------------------------------------------
(* While no lease passes under a living worker. *)

\* A worker holds its row, or the row has ended; it is done once the worker is
\* about to enqueue the next stage, and carries its run from adoption on.
Alone(w) ==
  Busy(w) =>
    /\ Live(wk[w].job) => /\ jobs[wk[w].job].claimed_by = w
                          /\ jobs[wk[w].job].lease = "live"
    /\ jobs[wk[w].job].status = "done" <=> wk[w].pc = "enqueue"
    /\ wk[w].pc \in {"adopted", "enqueue"} => jobs[wk[w].job].run = wk[w].run

Apart ==
  \A v, w \in Workers : Busy(v) /\ Busy(w) /\ wk[v].job = wk[w].job => v = w

\* A run at its first gate was planned.
FirstBelow ==
  \A j \in JobIds : Place(j) = 2 =>
    \E i \in JobIds : /\ SameRun(i, j) /\ jobs[i].stage = "plan"
                      /\ jobs[i].status = "done"

ChainInv == (\A w \in Workers : Alone(w)) /\ Apart /\ FirstBelow

\* w is the only one to move, and takes no row it did not have.
OnlyMoves(w) ==
  /\ \A v \in Workers \ {w} : wk'[v] = wk[v]
  /\ Busy(w)' => Busy(w) /\ wk'[w].job = wk[w].job

LEMMA ApartIsKept ==
  ASSUME ChainInv, NEW w \in Workers, OnlyMoves(w)
  PROVE  Apart'
<1>1. \A v \in Workers : Busy(v)' => Busy(v) /\ wk'[v].job = wk[v].job
  BY DEF OnlyMoves, Busy
<1> QED
  BY <1>1 DEF ChainInv, Apart

LEMMA OthersAlone ==
  ASSUME ChainInv, NEW v \in Workers, wk'[v] = wk[v],
         Busy(v) => jobs'[wk[v].job] = jobs[wk[v].job]
  PROVE  Alone(v)'
BY DEF ChainInv, Alone, Busy, Live

LEMMA FirstBelowIsKept ==
  ASSUME Sound, ChainInv, StillTable
  PROVE  FirstBelow'
<1>1. JobIds' = JobIds
  BY DEF StillTable
<1>2. \A j \in JobIds :
        /\ jobs'[j].run = jobs[j].run /\ Place(j)' = Place(j)
        /\ jobs[j].stage = "plan" => jobs'[j].stage = "plan"
        /\ jobs[j].status = "done" => jobs'[j].status = "done"
  BY LiveRows DEF StillTable, Still, GATES
<1> QED
  BY <1>1, <1>2 DEF ChainInv, FirstBelow, SameRun

\* The table and everybody but w are left alone, and w is not yet to enqueue.
WorksOn(w) ==
  /\ UNCHANGED jobs
  /\ OnlyMoves(w)
  /\ Busy(w)' => wk[w].pc # "enqueue" /\ wk'[w].pc \notin {"adopted", "enqueue"}

LEMMA WorksOnChain ==
  ASSUME Sound, ChainInv, NEW w \in Workers, WorksOn(w)
  PROVE  ChainInv'
<1>1. StillTable
  BY NoRowMoves DEF WorksOn
<1>2. Alone(w)'
  BY DEF WorksOn, OnlyMoves, ChainInv, Alone, Busy, Live
<1>3. \A v \in Workers \ {w} : Alone(v)'
  BY OthersAlone DEF WorksOn, OnlyMoves
<1> QED
  BY <1>1, <1>2, <1>3, ApartIsKept, FirstBelowIsKept DEF WorksOn, ChainInv

LEMMA Moved ==
  ASSUME Sound, NEW w \in Workers, NEW new, wk' = [wk EXCEPT ![w] = new],
         new.pc \in {"idle", "dead"} \/ (Busy(w) /\ new.job = wk[w].job)
  PROVE  wk'[w] = new /\ OnlyMoves(w)
BY DEF Sound, WorkerInv, WorkerTypeOK, OnlyMoves, Busy

LEMMA HandMoves ==
  ASSUME Sound, NEW w \in Workers, Busy(w), wk[w].pc # "enqueue", NEW new,
         wk' = [wk EXCEPT ![w] = new], new.job = wk[w].job,
         new.pc \notin {"adopted", "enqueue"}, UNCHANGED jobs
  PROVE  WorksOn(w)
BY Moved DEF WorksOn

LEMMA StageWorksOn ==
  ASSUME Sound, NEW w \in Workers, StageStep(w) \/ CheckEvidence(w)
  PROVE  WorksOn(w)
<1>1. UNCHANGED jobs
  BY StageLeavesTheTable DEF CheckEvidence
<1>2. wk[w] \in Steps
  BY DEF Sound, WorkerInv, WorkerTypeOK
<1>3. ASSUME Busy(w), wk[w].pc # "enqueue", NEW code, Exits(w, code)
      PROVE  WorksOn(w)
  <2> DEFINE new == [wk[w] EXCEPT !.pc = "exited", !.exit = code]
  <2>1. wk' = [wk EXCEPT ![w] = new] /\ new.job = wk[w].job /\ new.pc = "exited"
    BY <1>2, <1>3 DEF Exits, Steps
  <2> HIDE DEF new
  <2> QED
    BY <1>1, <1>3, <2>1, HandMoves
<1>4. ASSUME Busy(w), wk[w].pc # "enqueue", NEW pc,
             pc \notin {"adopted", "enqueue"}, NEW doc, \/ wk' = [wk EXCEPT ![w].pc = pc]
                      \/ wk' = [wk EXCEPT ![w].pc = pc, ![w].doc = doc]
      PROVE  WorksOn(w)
  <2> DEFINE one == [wk[w] EXCEPT !.pc = pc]
             two == [wk[w] EXCEPT !.pc = pc, !.doc = doc]
  <2>1. /\ one.job = wk[w].job /\ one.pc = pc
        /\ two.job = wk[w].job /\ two.pc = pc
    BY <1>2 DEF Steps
  <2>2. wk' = [wk EXCEPT ![w] = one] \/ wk' = [wk EXCEPT ![w] = two]
    BY <1>4
  <2> HIDE DEF one, two
  <2> QED
    BY <1>1, <1>4, <2>1, <2>2, HandMoves
<1>5. CASE LoadRun(w)
  BY <1>3, <1>4, <1>5 DEF LoadRun, Busy
<1>6. ASSUME NEW r \in Runs, Plan(w, r) PROVE WorksOn(w)
  <2> DEFINE new == [wk[w] EXCEPT !.pc = "exited", !.run = r]
  <2>1. wk' = [wk EXCEPT ![w] = new] /\ new.job = wk[w].job /\ new.pc = "exited"
    BY <1>2, <1>6 DEF Plan, Steps
  <2>2. Busy(w) /\ wk[w].pc # "enqueue"
    BY <1>6 DEF Plan, Running, Busy
  <2> HIDE DEF new
  <2> QED
    BY <1>1, <2>1, <2>2, HandMoves
<1>7. CASE RecordApproval(w) \/ RecordRefusal(w)
  BY <1>4, <1>7 DEF RecordApproval, RecordRefusal, RecordDecision, Running, Busy
<1>8. CASE Merge(w) \/ CheckEvidence(w)
  <2>1. Busy(w) /\ wk[w].pc # "enqueue"
    BY <1>8 DEF Merge, Running, CheckEvidence, Busy
  <2>2. \E pc \in {"merged", "skip", "start"} : wk' = [wk EXCEPT ![w].pc = pc]
    BY <1>8 DEF Merge, CheckEvidence
  <2> QED
    BY <1>4, <2>1, <2>2
<1>9. CASE \/ EmitDecision(w) \/ DeclineEnded(w) \/ RefusePromotion(w)
           \/ EmitPromoted(w) \/ StageCrashes(w)
           \/ \E outcome \in DevelopOutcomes : Develop(w, outcome)
           \/ \E verdict \in {"go", "no_go"} : Sre(w, verdict)
  <2>1. Busy(w) /\ wk[w].pc # "enqueue"
    BY <1>9 DEF EmitDecision, DeclineEnded, RefusePromotion, EmitPromoted,
                StageCrashes, Develop, Sre, Running, Busy
  <2>2. \E code : Exits(w, code)
    BY <1>9 DEF EmitDecision, DeclineEnded, RefusePromotion, EmitPromoted,
                StageCrashes, Develop, Sre
  <2> QED
    BY <1>3, <2>1, <2>2
<1> QED
  BY <1>5, <1>6, <1>7, <1>8, <1>9 DEF StageStep

\* A claim takes a row nobody living has in hand.
LEMMA ClaimJobChain ==
  ASSUME Sound, ChainInv, NEW w \in Workers, NEW j \in JobIds, ClaimJob(w, j)
  PROVE  ChainInv'
<1>1. /\ jobs[j] \in Job /\ RowBecomes(j, Leased(jobs[j], w))
      /\ jobs[j].status = "ready"
           \/ (jobs[j].status = "claimed" /\ jobs[j].lease = "expired")
  BY RowsOfRuns DEF ClaimJob, Claim, Oldest, Claimable, RowBecomes
<1>2. Leased(jobs[j], w) \in Job /\ StillTable
  BY <1>1, LeasedStill, OneRowStill
<1>3. jobs'[j] = Leased(jobs[j], w)
      /\ \A i \in JobIds \ {j} : jobs'[i] = jobs[i]
  BY <1>1, <1>2, RowsOfRuns, ReplaceRow
<1>4. jobs'[j].status = "claimed" /\ jobs'[j].claimed_by = w
      /\ jobs'[j].lease = "live"
  BY <1>1, <1>3 DEF Leased, Job
<1>5. \A v \in Workers : Busy(v) => wk[v].job \in JobIds \ {j}
  <2>1. Live(j) /\ jobs[j].lease # "live"
    BY <1>1, RowsOfRuns DEF Live, TERMINAL_STATUSES, RowHolder
  <2>2. \A v \in Workers : Busy(v) => wk[v].job # j
    BY <2>1 DEF ChainInv, Alone
  <2> QED
    BY <2>2, WorkersHands
<1>6. /\ wk'[w].pc = "claimed" /\ wk'[w].job = j
      /\ \A v \in Workers \ {w} : wk'[v] = wk[v]
  BY DEF ClaimJob, Sound, WorkerInv, WorkerTypeOK
<1>7. Alone(w)'
  BY <1>4, <1>6 DEF Alone
<1>8. \A v \in Workers \ {w} : Alone(v)'
  BY <1>3, <1>5, <1>6, OthersAlone
<1>9. Apart'
  <2>1. \A v \in Workers \ {w} : Busy(v)' => Busy(v) /\ wk'[v].job = wk[v].job
                                             /\ wk'[v].job # j
    BY <1>5, <1>6 DEF Busy
  <2> QED
    BY <1>6, <2>1 DEF ChainInv, Apart
<1> QED
  BY <1>2, <1>7, <1>8, <1>9, FirstBelowIsKept DEF ChainInv

\* One row changes, and it is no busy worker's, or only w's.
LEMMA RowChangesChain ==
  ASSUME Sound, ChainInv, StillTable, NEW j \in JobIds,
         \A i \in JobIds \ {j} : jobs'[i] = jobs[i], NEW w \in Workers,
         OnlyMoves(w), Alone(w)',
         \A v \in Workers \ {w} : Busy(v) => wk[v].job # j
  PROVE  ChainInv'
<1>1. \A v \in Workers \ {w} : Alone(v)'
  BY OthersAlone, WorkersHands DEF OnlyMoves
<1> QED
  BY <1>1, ApartIsKept, FirstBelowIsKept DEF ChainInv

LEMMA RecordChain ==
  ASSUME Sound, ChainInv, NEW w \in Workers, NEW st \in TERMINAL_STATUSES,
         Record(w, st)
  PROVE  ChainInv'
<1>1. PICK j \in JobIds : j = wk[w].job
  BY HandEnds
<1>2. /\ Busy(w) /\ StillTable /\ jobs'[j].status = st
      /\ \A i \in JobIds \ {j} : jobs'[i] = jobs[i]
      /\ jobs'[j].run = jobs[j].run
  <2>1. /\ jobs[j] \in Job /\ RowBecomes(j, Ended(jobs[j], st))
    BY <1>1, RowsOfRuns DEF Record, Complete, RowBecomes
  <2>2. Ended(jobs[j], st) \in Job
    BY <2>1 DEF Ended, Job, JobStatus
  <2> QED
    BY <1>1, <2>1, <2>2, HandEnds, RowsOfRuns, ReplaceRow, LiveRows
<1>3. \A v \in Workers \ {w} : Busy(v) => wk[v].job # j
  BY <1>1, <1>2 DEF ChainInv, Apart
<1>4. CASE ~Advances(w, st)
  <2>1. wk' = [wk EXCEPT ![w] = At("idle")] /\ At("idle").pc = "idle"
    BY <1>4 DEF Record, At
  <2>2. wk'[w].pc = "idle" /\ OnlyMoves(w)
    BY <2>1, Moved
  <2>3. Alone(w)'
    BY <2>2 DEF Alone, Busy
  <2> QED
    BY <1>2, <1>3, <2>2, <2>3, RowChangesChain
<1>5. CASE Advances(w, st)
  <2> DEFINE new == [wk[w] EXCEPT !.pc = "enqueue", !.doc = Absent]
  <2>1. wk' = [wk EXCEPT ![w] = new] /\ new.pc = "enqueue"
        /\ new.job = wk[w].job /\ new.run = wk[w].run
    BY <1>5 DEF Record, Sound, WorkerInv, WorkerTypeOK, Steps
  <2> HIDE DEF new
  <2>2. wk'[w] = new /\ OnlyMoves(w)
    BY <1>2, <2>1, Moved
  <2>3. jobs[j].run = wk[w].run
    <3>1. wk[w].pc = "adopted" \/ wk[w].stage # "plan"
      BY <1>5 DEF Record, Recording, Advances, status_for
    <3> QED
      BY <1>1, <1>2, <3>1, WorkersHands DEF HandSound, ChainInv, Alone
  <2>4. Alone(w)'
    BY <1>1, <1>2, <1>5, <2>1, <2>2, <2>3
       DEF Alone, Advances, Live, TERMINAL_STATUSES
  <2> QED
    BY <1>2, <1>3, <2>2, <2>4, RowChangesChain
<1> QED
  BY <1>4, <1>5

\* The row of plan is renamed while it is not done, so it is below no gate yet.
LEMMA AdoptChain ==
  ASSUME Sound, ChainInv, NEW w \in Workers, Adopt(w)
  PROVE  ChainInv'
<1>1. PICK r \in RunIds, j \in JobIds : r = wk[w].run /\ j = wk[w].job
  BY WorkersHands DEF Adopt, Busy
<1> DEFINE new == [wk[w] EXCEPT !.pc = "adopted"]
<1>2. /\ Busy(w) /\ wk[w].pc = "exited" /\ wk' = [wk EXCEPT ![w] = new]
      /\ new.pc = "adopted" /\ new.job = j /\ new.run = r
  BY <1>1 DEF Adopt, Busy, Sound, WorkerInv, WorkerTypeOK, Steps
<1> HIDE DEF new
<1>3. wk'[w] = new /\ OnlyMoves(w)
  BY <1>1, <1>2, Moved
<1>4. /\ jobs[j].stage = "plan" /\ jobs[j] \in Job
  BY <1>1, <1>2, WorkersHands, RowsOfRuns DEF Adopt, HandSound
<1>5. jobs'[j] = [jobs[j] EXCEPT !.run = r] /\ JobIds' = JobIds
      /\ \A i \in JobIds \ {j} : jobs'[i] = jobs[i]
  BY <1>1, RowsOfRuns, AdoptedRow DEF Adopt
<1>6. /\ jobs'[j].run = r /\ jobs'[j].status = jobs[j].status
      /\ jobs'[j].claimed_by = jobs[j].claimed_by
      /\ jobs'[j].lease = jobs[j].lease /\ jobs'[j].stage = "plan"
  BY <1>4, <1>5 DEF Job
<1>7. jobs[j].status # "done"
  BY <1>1, <1>2 DEF ChainInv, Alone
<1>8. Alone(w)'
  BY <1>1, <1>2, <1>3, <1>6, <1>7 DEF ChainInv, Alone, Live
<1>9. \A v \in Workers \ {w} : Alone(v)'
  <2>1. \A v \in Workers \ {w} : Busy(v) => wk[v].job \in JobIds \ {j}
    BY <1>1, <1>2, WorkersHands DEF ChainInv, Apart
  <2> QED
    BY <1>3, <1>5, <2>1, OthersAlone DEF OnlyMoves
<1>10. FirstBelow'
  <2>1. Place(j) = 1 /\ Place(j)' = 1
    BY <1>4, <1>6, NamedPositions DEF Place
  <2>2. \A i \in JobIds \ {j} : Place(i)' = Place(i) /\ jobs'[i] = jobs[i]
    BY <1>5 DEF Place
  <2> QED
    BY <1>5, <1>7, <2>1, <2>2 DEF ChainInv, FirstBelow, SameRun
<1> QED
  BY <1>3, <1>8, <1>9, <1>10, ApartIsKept DEF ChainInv

\* A row is added; at the first gate, above a done row of plan.
Follows(r, s) ==
  /\ jobs' = Append(jobs, NewJob(r, s, 1))
  /\ Position(s) = 2 =>
       \E i \in JobIds : /\ jobs[i].run = r /\ jobs[i].stage = "plan"
                         /\ jobs[i].status = "done"

LEMMA AddChain ==
  ASSUME Sound, ChainInv, NEW r \in RunIds, NEW s \in ChainStages, Follows(r, s),
         \A v \in Workers : wk'[v] = wk[v] \/ ~Busy(v)'
  PROVE  ChainInv'
<1> DEFINE new == NewJob(r, s, 1)
<1>1. new \in Job /\ new.run = r /\ new.stage = s
  BY NewRow
<1> HIDE DEF new
<1>2. /\ JobIds' = JobIds \union {Len(jobs) + 1} /\ jobs'[Len(jobs) + 1] = new
      /\ \A j \in JobIds : jobs'[j] = jobs[j]
  BY <1>1, RowsOfRuns, AppendRow DEF new, Follows
<1>3. PICK n : /\ JobIds' = JobIds \union {n} /\ jobs'[n] = new
               /\ \A j \in JobIds : jobs'[j] = jobs[j]
  BY <1>2
<1>4. jobs'[n].run = r /\ jobs'[n].stage = s
  BY <1>1, <1>3
<1>5. \A v \in Workers : wk'[v] = wk[v] => Alone(v)'
  BY <1>3, OthersAlone, WorkersHands
<1>6. \A v \in Workers : ~Busy(v)' => Alone(v)'
  BY DEF Alone
<1>7. Apart'
  <2>1. \A v \in Workers : Busy(v)' => Busy(v) /\ wk'[v] = wk[v]
    BY DEF Busy
  <2> QED
    BY <2>1 DEF ChainInv, Apart
<1>8. FirstBelow'
  <2>1. \A j \in JobIds : Place(j)' = Place(j)
    BY <1>3 DEF Place
  <2>2. Place(n)' = Position(s)
    BY <1>4 DEF Place
  <2>3. ASSUME NEW k \in JobIds', Place(k)' = 2
        PROVE  \E i \in JobIds : /\ jobs[i].run = jobs'[k].run
                                 /\ jobs[i].stage = "plan"
                                 /\ jobs[i].status = "done"
    <3>1. CASE k = n
      BY <1>4, <2>2, <2>3, <3>1 DEF Follows
    <3>2. CASE k \in JobIds
      BY <1>3, <2>1, <2>3, <3>2 DEF ChainInv, FirstBelow, SameRun
    <3> QED
      BY <1>3, <3>1, <3>2
  <2>4. \A k \in JobIds' : Place(k)' = 2 =>
          \E i \in JobIds' : /\ jobs'[i].run = jobs'[k].run
                             /\ jobs'[i].stage = "plan"
                             /\ jobs'[i].status = "done"
    BY <1>3, <2>3
  <2> QED
    BY <2>4 DEF FirstBelow, SameRun
<1> QED
  BY <1>5, <1>6, <1>7, <1>8 DEF ChainInv

LEMMA EnqueueNextChain ==
  ASSUME Sound, ChainInv, NEW w \in Workers, EnqueueNext(w)
  PROVE  ChainInv'
<1>1. PICK r \in RunIds, j \in JobIds, s \in Stages :
        r = wk[w].run /\ j = wk[w].job /\ s = wk[w].stage
  BY WorkersHands DEF EnqueueNext, Busy
<1>2. InHand(wk[w], JobIds) /\ Busy(w) /\ wk[w].pc = "enqueue"
  BY DEF Sound, WorkerInv, EnqueueNext, Busy
<1>3. s \in ChainStages /\ next_stage(s) # ""
  BY <1>1, <1>2, Positions DEF InHand, Busy
<1>4. PICK t \in ChainStages : t = next_stage(s) /\ Position(t) = Position(s) + 1
  BY <1>3, NextPosition
<1>5. jobs' = Append(jobs, NewJob(r, t, 1))
  BY <1>1, <1>4 DEF EnqueueNext, Enqueue
<1>6. \A v \in Workers : wk'[v] = wk[v] \/ ~Busy(v)'
  <2>1. wk' = [wk EXCEPT ![w] = At("idle")] /\ At("idle").pc = "idle"
    BY DEF EnqueueNext, At
  <2>2. wk'[w].pc = "idle" /\ OnlyMoves(w)
    BY <2>1, Moved
  <2> QED
    BY <2>2 DEF Busy, OnlyMoves
<1>7. Position(t) = 2 => /\ jobs[j].run = r /\ jobs[j].stage = "plan"
                         /\ jobs[j].status = "done"
  <2>1. Position(s) \in 1..7 /\ (Position(s) = 1 => s = "plan")
    BY Positions
  <2>2. Position(t) = 2 => s = "plan"
    BY <1>4, <2>1
  <2> QED
    BY <1>1, <1>2, <2>2, WorkersHands DEF HandSound, ChainInv, Alone
<1> QED
  BY <1>5, <1>6, <1>7, AddChain DEF Follows

\* Nobody's row, or one that ends, or one no living worker has.
LEMMA RowOfNobody ==
  ASSUME Sound, ChainInv, StillTable, NEW j \in JobIds,
         \A i \in JobIds \ {j} : jobs'[i] = jobs[i], UNCHANGED wk,
         \A w \in Workers : Busy(w) /\ wk[w].job = j => Alone(w)'
  PROVE  ChainInv'
<1>1. \A w \in Workers : Alone(w)'
  <2>1. ASSUME NEW w \in Workers, ~(Busy(w) /\ wk[w].job = j) PROVE Alone(w)'
    BY <2>1, OthersAlone, WorkersHands
  <2> QED
    BY <2>1
<1>2. Apart'
  BY DEF ChainInv, Apart, Busy
<1> QED
  BY <1>1, <1>2, FirstBelowIsKept DEF ChainInv

LEMMA LeaseLapsesChain ==
  ASSUME MaxOverruns = 0, Sound, ChainInv, NEW j \in JobIds, LeaseLapses(j)
  PROVE  ChainInv'
<1> DEFINE new == [jobs[j] EXCEPT !.lease = "expired"]
<1>1. new \in Job /\ Still(jobs[j], new) /\ RowBecomes(j, new)
  BY RowsOfRuns, ExpiredStill DEF LeaseLapses, LeaseExpires, RowBecomes
<1> HIDE DEF new
<1>2. StillTable /\ \A i \in JobIds \ {j} : jobs'[i] = jobs[i]
  BY <1>1, OneRowStill, RowsOfRuns, ReplaceRow
<1>3. UNCHANGED wk /\ ~AtWork(jobs[j].claimed_by, j)
  BY DEF LeaseLapses, Sound, WorkerInv, WorkerTypeOK
<1>4. jobs[j].status = "claimed"
  BY RowsOfRuns DEF LeaseLapses, LeaseExpires, RowHolder, Job
<1>5. \A w \in Workers : ~(Busy(w) /\ wk[w].job = j)
  BY <1>3, <1>4 DEF ChainInv, Alone, AtWork, Busy, Live, TERMINAL_STATUSES
<1> QED
  BY <1>2, <1>3, <1>5, RowOfNobody

LEMMA DecideChain ==
  ASSUME Sound, ChainInv, NEW r \in RunIds, NEW g \in GATES, NEW op \in Operators,
         NEW j \in JobIds, NEW decision \in {"approved", "rejected"},
         Decide(r, g, decision, op, j)
  PROVE  ChainInv'
<1> DEFINE new == Released(jobs[j], g, decision, op)
<1>1. jobs[j].status = "paused" /\ jobs[j].awaiting_gate = g
  BY DEF Decide, Resume, Oldest, PausedAt
<1>2. new \in Job /\ Still(jobs[j], new) /\ RowBecomes(j, new)
  BY <1>1, RowsOfRuns, ReleasedStill DEF Decide, Resume, RowBecomes
<1> HIDE DEF new
<1>3. StillTable /\ \A i \in JobIds \ {j} : jobs'[i] = jobs[i]
  BY <1>2, OneRowStill, RowsOfRuns, ReplaceRow
<1>4. UNCHANGED wk
  BY DEF Decide, fleet
<1>5. \A w \in Workers : ~(Busy(w) /\ wk[w].job = j)
  BY <1>1, WorkersHands DEF HandSound
<1> QED
  BY <1>3, <1>4, <1>5, RowOfNobody

LEMMA CancelRowChain ==
  ASSUME Sound, ChainInv, NEW j \in JobIds, CancelRow(j)
  PROVE  ChainInv'
<1> DEFINE new == Ended(jobs[j], "rejected")
<1>1. /\ jobs[j].status \notin TERMINAL_STATUSES /\ RowBecomes(j, new)
      /\ UNCHANGED wk
  BY DEF CancelRow, Complete, RowBecomes, fleet
<1>2. jobs[j] \in Job /\ RowDecided(jobs[j]) /\ "rejected" \in TERMINAL_STATUSES
  BY RowsOfRuns DEF TERMINAL_STATUSES
<1>3. new \in Job /\ Still(jobs[j], new) /\ new.status = "rejected"
      /\ new.run = jobs[j].run
  <2>1. new.status = "rejected" /\ new.run = jobs[j].run
    BY <1>2 DEF Ended, Job
  <2> QED
    BY <1>1, <1>2, <2>1, EndedStill
<1> HIDE DEF new
<1>4. /\ StillTable /\ jobs'[j] = new
      /\ \A i \in JobIds \ {j} : jobs'[i] = jobs[i]
  BY <1>1, <1>3, OneRowStill, RowsOfRuns, ReplaceRow
<1>5. ASSUME NEW w \in Workers, Busy(w), wk[w].job = j PROVE Alone(w)'
  <2>1. jobs[j].status # "done" /\ wk[w].pc # "enqueue"
    BY <1>1, <1>5 DEF ChainInv, Alone, TERMINAL_STATUSES
  <2> QED
    BY <1>1, <1>2, <1>3, <1>4, <1>5, <2>1 DEF ChainInv, Alone, Live
<1> QED
  BY <1>1, <1>4, <1>5, RowOfNobody

LEMMA WorkerStepChain ==
  ASSUME Sound, ChainInv, NEW w \in Workers, WorkerStep(w) \/ Crash(w)
  PROVE  ChainInv'
<1>1. ASSUME NEW pc \in {"idle", "dead"}, wk' = [wk EXCEPT ![w] = At(pc)],
             UNCHANGED jobs
      PROVE  ChainInv'
  <2>1. At(pc).pc = pc
    BY DEF At
  <2>2. wk'[w].pc = pc /\ OnlyMoves(w)
    BY <1>1, <2>1, Moved
  <2>3. WorksOn(w)
    BY <1>1, <2>2 DEF WorksOn, Busy
  <2> QED
    BY <2>3, WorksOnChain
<1>2. CASE \/ Restart(w) \/ Crash(w)
           \/ \E st \in TERMINAL_STATUSES : RecordRefused(w, st)
  BY <1>1, <1>2 DEF Restart, Crash, RecordRefused
<1>3. CASE StageStep(w) \/ CheckEvidence(w)
  BY <1>3, StageWorksOn, WorksOnChain
<1> QED
  BY <1>2, <1>3, ClaimJobChain, AdoptChain, RecordChain, EnqueueNextChain
     DEF WorkerStep

LEMMA StartRunChain ==
  ASSUME Sound, ChainInv, NEW t \in Tickets, StartRun(t)
  PROVE  ChainInv'
<1>1. t \in RunIds /\ "plan" \in ChainStages /\ Position("plan") # 2
  BY RunIdsAssumption, NamedPositions DEF ChainStages, STAGE_CHAIN
<1>2. Follows(t, "plan") /\ UNCHANGED wk
  BY <1>1 DEF Follows, StartRun, Enqueue
<1> QED
  BY <1>1, <1>2, AddChain

LEMMA NobodyMovesChain ==
  ASSUME Sound, ChainInv, UNCHANGED <<jobs, wk>>
  PROVE  ChainInv'
<1>1. \A w \in Workers : Alone(w)'
  BY OthersAlone
<1>2. FirstBelow'
  BY NoRowMoves, FirstBelowIsKept
<1> QED
  BY <1>1, <1>2 DEF ChainInv, Apart, Busy

LEMMA ChainIsKept ==
  ASSUME MaxOverruns = 0
  PROVE  Sound /\ ChainInv /\ [WorkerNext]_vars => ChainInv'
<1>1. ASSUME Sound, ChainInv, ApiStep PROVE ChainInv'
  BY <1>1, CancelRowChain, NobodyMovesChain
     DEF ApiStep, CancelRun, CancelRefused, fleet
<1>2. ASSUME Sound, ChainInv, HumanStep PROVE ChainInv'
  BY <1>2, DecideChain DEF HumanStep
<1>3. ASSUME Sound, ChainInv, UNCHANGED vars PROVE ChainInv'
  BY <1>3, NobodyMovesChain DEF vars
<1> QED
  BY <1>1, <1>2, <1>3, WorkerStepChain, StartRunChain, LeaseLapsesChain
     DEF WorkerNext

LEMMA ChainAtInit == WorkerInit => ChainInv
<1> SUFFICES ASSUME WorkerInit PROVE ChainInv
  OBVIOUS
<1>1. JobIds = {}
  BY DEF WorkerInit, QueueInit, JobIds
<1>2. \A w \in Workers : wk[w].pc = "idle"
  BY DEF WorkerInit, At
<1> QED
  BY <1>1, <1>2 DEF ChainInv, Alone, Apart, FirstBelow, Busy

LEMMA StagesBefore ==
  \A s \in Stages : s # "plan" =>
    /\ PreviousStage(s) \in ChainStages
    /\ Position(PreviousStage(s)) + 1 = Position(s)
    /\ Position(s) = 2 => PreviousStage(s) = "plan"
<1>1. ChainStages =
        {"plan", "gate1", "develop", "gate2", "sre", "gate3", "promote"}
  BY DEF ChainStages, STAGE_CHAIN
<1>2. Stages = {"plan", "gate1", "develop", "gate2", "sre", "gate3", "promote",
                "gate1-rejected", "gate2-rejected", "gate3-rejected"}
  BY <1>1 DEF Stages, Recorders
<1>3. /\ PreviousStage("gate1") = "plan" /\ PreviousStage("gate1-rejected") = "plan"
      /\ PreviousStage("develop") = "gate1" /\ PreviousStage("gate2") = "develop"
      /\ PreviousStage("gate2-rejected") = "develop" /\ PreviousStage("sre") = "gate2"
      /\ PreviousStage("gate3") = "sre" /\ PreviousStage("gate3-rejected") = "sre"
      /\ PreviousStage("promote") = "gate3"
  BY DEF PreviousStage
<1> QED
  BY <1>1, <1>2, <1>3, NamedPositions

\* While no stage outlives its worker's lease, every row of a run, the
\* recorders of refusals included, was put there by the success of the stage
\* before it: deaths, restarts, cancellations and reclaimed rows between any
\* two steps make no stage run after one that was blocked, refused, crashed or
\* skipped.  (With a lease lost under a living worker a plan that was done
\* twice may be renamed behind its first gate; Below, which every behaviour
\* keeps, is what is left of this then.)
THEOREM ChainNeverBreaks ==
  ASSUME MaxOverruns = 0
  PROVE  WorkerSpec => []ChainIsUnbroken
<1>1. ASSUME Sound, ChainInv, NEW j \in JobIds, jobs[j].stage # "plan"
      PROVE  RowFor(jobs[j].run, PreviousStage(jobs[j].stage), {"done"})
  <2>1. jobs[j].stage \in Stages
    BY <1>1, RowsOfRuns
  <2>2. PICK p \in ChainStages : p = PreviousStage(jobs[j].stage)
    BY <1>1, <2>1, StagesBefore
  <2>3. Position(p) + 1 = Place(j) /\ (Place(j) = 2 => p = "plan")
    BY <1>1, <2>1, <2>2, StagesBefore DEF Place
  <2>4. Place(j) \in 2..7
    BY <1>1, <2>1, Positions DEF Place
  <2>5. CASE Place(j) = 2
    <3>1. PICK i \in JobIds : /\ SameRun(i, j) /\ jobs[i].stage = "plan"
                              /\ jobs[i].status = "done"
      BY <1>1, <2>5 DEF ChainInv, FirstBelow
    <3> QED
      BY <2>2, <2>3, <2>5, <3>1 DEF SameRun, RowFor
  <2>6. CASE Place(j) > 2
    <3>1. PICK i \in JobIds : /\ SameRun(i, j) /\ Place(i) + 1 = Place(j)
                              /\ jobs[i].stage \in ChainStages
                              /\ jobs[i].status = "done"
      BY <1>1, <2>6 DEF Sound, FleetInv, Below
    <3>2. Position(p) \in 1..7 /\ Place(i) \in 1..7
      BY <1>1, RowsOfRuns, Positions DEF Stages
    <3>3. Position(jobs[i].stage) = Position(p)
      BY <2>3, <3>1, <3>2 DEF Place
    <3>4. jobs[i].stage = p
      BY <3>1, <3>3, Positions
    <3> QED
      BY <2>2, <3>1, <3>4 DEF SameRun, RowFor
  <2> QED
    BY <2>4, <2>5, <2>6
<1>2. Sound /\ ChainInv => ChainIsUnbroken
  BY <1>1 DEF ChainIsUnbroken
<1>3. Sound /\ ChainInv /\ [WorkerNext]_vars => ChainInv'
  BY ChainIsKept
<1> QED
  BY <1>2, <1>3, ChainAtInit, FleetInvHolds, PTL DEF WorkerSpec

-----------------------------------------------------------------------------
(* The documents, while no lease passes under a living worker. *)

Running1(r) == docs[r].status = "running"

\* The copy a stage works on is the document, and the document of a run is
\* still running wherever a stage may yet change how the run ends.
CopySound(w) ==
  Busy(w) /\ wk[w].stage # "plan" =>
    /\ wk[w].pc \in {"running", "recorded", "merged"} =>
         wk[w].doc = docs[wk[w].run]
    /\ wk[w].pc = "recorded" => wk[w].stage \in GATES \union Recorders
    /\ wk[w].pc = "merged" => wk[w].stage = "promote"
    /\ wk[w].stage \in GATES \/ wk[w].pc \in {"enqueue", "merged"} =>
         Running1(wk[w].run)
    /\ wk[w].stage \in {"develop", "sre"} =>
         /\ wk[w].pc \in {"start", "running"} => Running1(wk[w].run)
         /\ wk[w].pc = "exited" /\ wk[w].exit = 0 => Running1(wk[w].run)
         /\ wk[w].pc = "claimed" => Running1(wk[w].run) \/ already_ran(w)

MintedRuns ==
  \A w \in Workers, r \in RunIds : Minted(w, r) => Running1(r)

\* A live row is of a run that goes on, or its stage saved its work already.
RowGoesOn(j) ==
  Live(j) =>
    /\ jobs[j].stage \in GATES => Running1(jobs[j].run)
    /\ jobs[j].stage \in {"develop", "sre"} =>
         \/ Running1(jobs[j].run)
         \/ /\ jobs[j].status = "claimed"
            /\ HasEvidence(docs[jobs[j].run], jobs[j].stage)

DocInv ==
  /\ \A w \in Workers : CopySound(w)
  /\ MintedRuns
  /\ \A j \in JobIds : RowGoesOn(j)

\* A worker past plan that writes a document is the only one to have the run.
LEMMA OneWriter ==
  ASSUME Sound, ChainInv, NEW v \in Workers, Busy(v), wk[v].stage # "plan",
         wk[v].pc # "enqueue"
  PROVE  /\ wk[v].job \in JobIds /\ wk[v].run \in RunIds
         /\ jobs[wk[v].job].run = wk[v].run
         /\ jobs[wk[v].job].stage = wk[v].stage
         /\ \A j \in JobIds : jobs[j].run = wk[v].run /\ Live(j) => j = wk[v].job
         /\ \A w \in Workers :
              Busy(w) /\ wk[w].stage # "plan" /\ wk[w].run = wk[v].run => w = v
         /\ \A w \in Workers : ~Minted(w, wk[v].run)
<1>1. PICK i \in JobIds, r \in RunIds : i = wk[v].job /\ r = wk[v].run
  BY WorkersHands
<1>2. jobs[i].run = r /\ jobs[i].stage = wk[v].stage /\ jobs[i].stage \in Stages
  BY <1>1, WorkersHands, RowsOfRuns DEF HandSound
<1>3. Place(i) > 1 /\ jobs[i].status # "done"
  BY <1>1, <1>2, Positions DEF Place, ChainInv, Alone
<1>4. \A j \in JobIds : jobs[j].run = r => Place(j) <= Place(i)
  <2>1. \A j \in JobIds : jobs[j].run = r => ~(Place(i) < Place(j))
    BY <1>2, <1>3, RowsPassed DEF SameRun
  <2> QED
    BY <2>1, RowsOfRuns
<1>5. \A j \in JobIds : jobs[j].run = r /\ Place(j) = Place(i) => j = i
  BY <1>2 DEF Sound, FleetInv, Distinct, SameRun
<1>6. ASSUME NEW j \in JobIds, jobs[j].run = r, Live(j) PROVE j = i
  <2>1. Place(i) <= Place(j)
    BY <1>2, <1>6 DEF Sound, FleetInv, Latest, SameRun
  <2> QED
    BY <1>4, <1>5, <1>6, <2>1, RowsOfRuns
<1>7. ASSUME NEW w \in Workers, Busy(w), wk[w].stage # "plan", wk[w].run = r
      PROVE  w = v
  <2>1. PICK k \in JobIds : k = wk[w].job
    BY <1>7, WorkersHands
  <2>2. jobs[k].run = r /\ jobs[k].stage = wk[w].stage /\ jobs[k].stage \in Stages
    BY <1>7, <2>1, WorkersHands, RowsOfRuns DEF HandSound
  <2>3. CASE wk[w].pc = "enqueue"
    <3>1. Place(i) <= Place(k) /\ jobs[k].status = "done"
      BY <1>2, <1>7, <2>1, <2>2, <2>3
         DEF Sound, FleetInv, HandOver, GoingOn, Place
    <3>2. Place(k) = Place(i)
      BY <1>4, <2>2, <3>1, RowsOfRuns
    <3> QED
      BY <1>3, <1>5, <2>2, <3>1, <3>2
  <2>4. CASE wk[w].pc # "enqueue"
    <3>1. Place(k) > 1 /\ jobs[k].status # "done"
      BY <1>7, <2>1, <2>2, <2>4, Positions DEF Place, ChainInv, Alone
    <3>2. ~(Place(k) < Place(i))
      BY <1>2, <2>2, <3>1, RowsPassed DEF SameRun
    <3>3. k = i
      BY <1>4, <1>5, <2>2, <3>2, RowsOfRuns
    <3> QED
      BY <1>1, <1>7, <2>1, <3>3 DEF ChainInv, Apart
  <2> QED
    BY <2>3, <2>4
<1>8. ASSUME NEW w \in Workers, Minted(w, r) PROVE FALSE
  <2>1. wk[w].job = i
    BY <1>2, <1>8 DEF Sound, FleetInv, MintSound
  <2> QED
    BY <1>1, <1>2, <1>8, <2>1, WorkersHands DEF HandSound, Minted
<1> QED
  BY <1>1, <1>2, <1>6, <1>7, <1>8

\* The documents are left alone.
LEMMA CopyUnmoved ==
  ASSUME DocInv, NEW w \in Workers, wk'[w] = wk[w], docs' = docs
  PROVE  CopySound(w)'
BY DEF DocInv, CopySound, Busy, Running1, already_ran

LEMMA QuietMove ==
  ASSUME DocInv, UNCHANGED <<jobs, docs>>, NEW w \in Workers,
         \A v \in Workers \ {w} : wk'[v] = wk[v], CopySound(w)',
         \A r \in RunIds : Minted(w, r)' => Minted(w, r)
  PROVE  DocInv'
<1>1. \A v \in Workers : CopySound(v)'
  BY CopyUnmoved
<1>2. MintedRuns'
  <2>1. \A v \in Workers, r \in RunIds : Minted(v, r)' => Minted(v, r)
    BY DEF Minted
  <2> QED
    BY <2>1 DEF DocInv, MintedRuns, Running1
<1>3. \A j \in JobIds' : RowGoesOn(j)'
  BY DEF DocInv, JobIds, RowGoesOn, Live, Running1
<1> QED
  BY <1>1, <1>2, <1>3 DEF DocInv

LEMMA RestsDoc ==
  ASSUME Sound, DocInv, NEW w \in Workers, NEW pc \in {"idle", "dead"},
         wk' = [wk EXCEPT ![w] = At(pc)], UNCHANGED <<jobs, docs>>
  PROVE  DocInv'
<1>1. At(pc).pc = pc
  BY DEF At
<1>2. wk'[w].pc = pc /\ \A v \in Workers \ {w} : wk'[v] = wk[v]
  BY <1>1, Moved DEF OnlyMoves
<1>3. CopySound(w)'
  BY <1>2 DEF CopySound, Busy
<1>4. \A r \in RunIds : ~Minted(w, r)'
  BY <1>2 DEF Minted
<1> QED
  BY <1>2, <1>3, <1>4, QuietMove

\* A document is saved by the worker that has its run.
Saves(v, d) ==
  /\ docs' = [docs EXCEPT ![wk[v].run] = d]
  /\ UNCHANGED jobs
  /\ \A w \in Workers \ {v} : wk'[w] = wk[w]
  /\ wk[v].stage \in GATES => d.status = "running"
  /\ wk[v].stage \in {"develop", "sre"} =>
       d.status = "running" \/ HasEvidence(d, wk[v].stage)

LEMMA SavesKeep ==
  ASSUME Sound, ChainInv, DocInv, NEW v \in Workers, Busy(v), wk[v].stage # "plan",
         wk[v].pc # "enqueue", NEW d, Saves(v, d), CopySound(v)',
         wk'[v].stage = wk[v].stage
  PROVE  DocInv'
<1>1. PICK i \in JobIds, r \in RunIds : i = wk[v].job /\ r = wk[v].run
  BY OneWriter
<1>2. /\ jobs[i].run = r /\ jobs[i].stage = wk[v].stage
      /\ \A j \in JobIds : jobs[j].run = r /\ Live(j) => j = i
      /\ \A w \in Workers : Busy(w) /\ wk[w].stage # "plan" /\ wk[w].run = r => w = v
      /\ \A w \in Workers : ~Minted(w, r)
  BY <1>1, OneWriter
<1>3. docs'[r] = d /\ \A q \in RunIds \ {r} : docs'[q] = docs[q]
  BY <1>1 DEF Saves, Sound, WorkerInv, WorkerTypeOK
<1>4. ASSUME NEW w \in Workers \ {v} PROVE CopySound(w)'
  <2>1. wk'[w] = wk[w]
    BY DEF Saves
  <2>2. Busy(w) /\ wk[w].stage # "plan" => docs'[wk[w].run] = docs[wk[w].run]
    BY <1>2, <1>3, WorkersHands
  <2> QED
    BY <2>1, <2>2 DEF DocInv, CopySound, Busy, Running1, already_ran
<1>5. MintedRuns'
  <2>1. \A w \in Workers, q \in RunIds : Minted(w, q)' => Minted(w, q) /\ q # r
    BY <1>2 DEF Minted, Saves
  <2> QED
    BY <1>3, <2>1 DEF DocInv, MintedRuns, Running1
<1>6. ASSUME NEW j \in JobIds PROVE RowGoesOn(j)'
  <2>1. jobs' = jobs /\ jobs[j].run \in RunIds /\ RowGoesOn(j)
    BY RowsOfRuns DEF Saves, Job, DocInv
  <2>2. CASE jobs[j].run # r
    BY <1>3, <2>1, <2>2 DEF RowGoesOn, Live, Running1
  <2>3. CASE jobs[j].run = r /\ Live(j)
    <3>1. j = i
      BY <1>2, <2>3
    <3>2. jobs[j].status = "claimed"
      <4>1. jobs[i].claimed_by = v /\ RowHolder(jobs[i])
        BY <1>1, <2>3, <3>1, RowsOfRuns DEF ChainInv, Alone
      <4> QED
        BY <3>1, <4>1, NobodyAssumption DEF RowHolder
    <3> QED
      BY <1>2, <1>3, <2>1, <2>3, <3>1, <3>2 DEF RowGoesOn, Live, Running1, Saves
  <2>4. CASE ~Live(j)
    BY <2>1, <2>4 DEF RowGoesOn, Live
  <2> QED
    BY <2>2, <2>3, <2>4
<1>7. JobIds' = JobIds
  BY DEF Saves, JobIds
<1> QED
  BY <1>4, <1>5, <1>6, <1>7 DEF DocInv

LEMMA CopyAtWork ==
  ASSUME Sound, DocInv, NEW w \in Workers, wk[w].stage # "plan",
         wk[w].pc \in {"running", "recorded", "merged"}
  PROVE  /\ Busy(w) /\ wk[w].run \in RunIds /\ wk[w].doc \in Doc
         /\ wk[w].doc = docs[wk[w].run] /\ wk[w].doc.status # "absent"
         /\ wk[w].stage \in GATES \union {"develop", "sre"} \/ wk[w].pc = "merged" =>
              wk[w].doc.status = "running" \/ (wk[w].pc = "recorded" /\ wk[w].stage \notin GATES)
<1>1. Busy(w)
  BY DEF Busy
<1> QED
  BY <1>1, DocOfHand DEF DocInv, CopySound, Running1

\* The stage saves the document and exits: with 0 only where the run goes on.
LEMMA SavesThenExits ==
  ASSUME Sound, ChainInv, DocInv, NEW w \in Workers, wk[w].stage # "plan",
         wk[w].pc \in {"running", "recorded", "merged"}, NEW d, Emit(w, d),
         NEW code, Exits(w, code), UNCHANGED jobs,
         wk[w].stage \in GATES => d.status = "running",
         wk[w].stage \in {"develop", "sre"} =>
           d.status = "running" \/ (code # 0 /\ HasEvidence(d, wk[w].stage))
  PROVE  DocInv'
<1>1. Busy(w) /\ wk[w].run \in RunIds
  BY CopyAtWork
<1>2. /\ wk'[w].pc = "exited" /\ wk'[w].exit = code
      /\ wk'[w].stage = wk[w].stage /\ wk'[w].run = wk[w].run
      /\ \A v \in Workers \ {w} : wk'[v] = wk[v]
  BY DEF Exits, Sound, WorkerInv, WorkerTypeOK, Steps
<1>3. docs' = [docs EXCEPT ![wk[w].run] = d] /\ docs'[wk[w].run] = d
  BY <1>1 DEF Emit, Sound, WorkerInv, WorkerTypeOK
<1>4. CopySound(w)'
  <2>1. "exited" \notin {"running", "recorded", "merged", "enqueue", "start", "claimed"}
    OBVIOUS
  <2> QED
    BY <1>2, <1>3, <2>1 DEF CopySound, Running1
<1>5. Saves(w, d)
  BY <1>2, <1>3 DEF Saves
<1>6. wk[w].pc # "enqueue"
  OBVIOUS
<1> QED
  BY <1>1, <1>2, <1>4, <1>5, <1>6, SavesKeep

LEMMA EndingsDoc ==
  ASSUME Sound, ChainInv, DocInv, NEW w \in Workers,
         \/ EmitDecision(w) \/ DeclineEnded(w) \/ RefusePromotion(w)
         \/ EmitPromoted(w)
  PROVE  DocInv'
<1>1. /\ UNCHANGED jobs /\ wk[w].pc \in {"running", "recorded", "merged"}
      /\ wk[w].stage \in GATES \union Recorders \union {"promote"}
  <2>1. wk[w].pc \in {"recorded", "merged"} => Busy(w) /\ wk[w].stage # "plan"
    BY WorkersHands DEF HandSound, Busy
  <2> QED
    BY <2>1 DEF EmitDecision, DeclineEnded, RefusePromotion, EmitPromoted, Running,
                DocInv, CopySound
<1>2. wk[w].stage \notin {"plan", "develop", "sre"}
  BY <1>1, GatePositions DEF GATES, Recorders
<1>3. PICK d, code : Emit(w, d) /\ Exits(w, code)
                     /\ (wk[w].stage \in GATES => d = wk[w].doc)
  <2>1. CASE EmitDecision(w)
    BY <2>1 DEF EmitDecision
  <2>2. CASE DeclineEnded(w)
    BY <2>2 DEF DeclineEnded
  <2>3. CASE RefusePromotion(w) \/ EmitPromoted(w)
    <3>1. wk[w].stage = "promote"
      <4>1. wk[w].pc = "merged" => Busy(w) /\ wk[w].stage # "plan"
        BY WorkersHands DEF HandSound, Busy
      <4> QED
        BY <2>3, <4>1 DEF RefusePromotion, EmitPromoted, Running, DocInv, CopySound
    <3>2. wk[w].stage \notin GATES
      BY <3>1 DEF GATES
    <3> QED
      BY <2>3, <3>2 DEF RefusePromotion, EmitPromoted
  <2> QED
    BY <2>1, <2>2, <2>3
<1>4. wk[w].stage \in GATES => d.status = "running"
  BY <1>1, <1>2, <1>3, CopyAtWork
<1> QED
  BY <1>1, <1>2, <1>3, <1>4, SavesThenExits

LEMMA WorkDoc ==
  ASSUME Sound, ChainInv, DocInv, NEW w \in Workers,
         \/ \E outcome \in DevelopOutcomes : Develop(w, outcome)
         \/ \E verdict \in {"go", "no_go"} : Sre(w, verdict)
  PROVE  DocInv'
<1>1. /\ UNCHANGED jobs /\ wk[w].pc = "running"
      /\ wk[w].stage \in {"develop", "sre"}
  BY DEF Develop, Sre, Running
<1>2. wk[w].doc \in Doc /\ wk[w].doc.status = "running"
  BY <1>1, CopyAtWork
<1>3. PICK d, code :
        /\ Emit(w, d) /\ Exits(w, code)
        /\ d.status = "running" \/ (code # 0 /\ HasEvidence(d, wk[w].stage))
  <2>1. ASSUME NEW outcome \in DevelopOutcomes, Develop(w, outcome)
        PROVE  \E d, code :
                 /\ Emit(w, d) /\ Exits(w, code)
                 /\ d.status = "running" \/ (code # 0 /\ HasEvidence(d, wk[w].stage))
    <3> DEFINE d == Developed(wk[w].doc, outcome)
               code == CASE outcome = "blocked" -> 3
                         [] outcome = "unapproved" -> 4
                         [] outcome = "cleared" -> 0
    <3>1. Emit(w, d) /\ Exits(w, code) /\ wk[w].stage = "develop"
      BY <2>1 DEF Develop, Running
    <3>2. d.security \in {"block", "pass"}
      BY <1>2 DEF Developed, Doc
    <3>3. outcome = "cleared" => d.status = "running"
      BY <1>2 DEF Developed, Doc
    <3>4. outcome # "cleared" => code # 0
      BY DEF DevelopOutcomes
    <3> HIDE DEF d, code
    <3>5. HasEvidence(d, wk[w].stage)
      BY <3>1, <3>2 DEF HasEvidence
    <3> QED
      BY <3>1, <3>3, <3>4, <3>5
  <2>2. ASSUME NEW verdict \in {"go", "no_go"}, Sre(w, verdict)
        PROVE  \E d, code :
                 /\ Emit(w, d) /\ Exits(w, code)
                 /\ d.status = "running" \/ (code # 0 /\ HasEvidence(d, wk[w].stage))
    <3> DEFINE d == Checked(wk[w].doc, verdict)
               code == IF verdict = "no_go" THEN 4 ELSE 0
    <3>1. Emit(w, d) /\ Exits(w, code) /\ wk[w].stage = "sre"
      BY <2>2 DEF Sre, Running
    <3>2. d.sre # "none"
      BY <1>2 DEF Checked, Doc
    <3>3. verdict = "go" => d.status = "running"
      BY <1>2 DEF Checked, Doc
    <3>4. verdict # "go" => code # 0
      OBVIOUS
    <3> HIDE DEF d, code
    <3>5. HasEvidence(d, wk[w].stage)
      BY <3>1, <3>2 DEF HasEvidence
    <3> QED
      BY <3>1, <3>3, <3>4, <3>5
  <2> QED
    BY <2>1, <2>2
<1>4. wk[w].stage # "plan" /\ wk[w].stage \notin GATES
  BY <1>1 DEF GATES
<1> QED
  BY <1>1, <1>3, <1>4, SavesThenExits

LEMMA RecordDecisionDoc ==
  ASSUME Sound, ChainInv, DocInv, NEW w \in Workers,
         RecordApproval(w) \/ RecordRefusal(w)
  PROVE  DocInv'
<1>1. /\ UNCHANGED jobs /\ wk[w].pc = "running"
      /\ wk[w].stage \in GATES \union Recorders
  BY DEF RecordApproval, RecordRefusal, RecordDecision, Running
<1>2. wk[w].stage \notin {"plan", "develop", "sre"}
  BY <1>1, GatePositions DEF GATES, Recorders
<1>3. /\ Busy(w) /\ wk[w].run \in RunIds /\ docs[wk[w].run] \in Doc
      /\ wk[w].stage \in GATES => docs[wk[w].run].status = "running"
  BY <1>1, <1>2, CopyAtWork
<1>4. PICK d : /\ Emit(w, d)
               /\ wk' = [wk EXCEPT ![w].pc = "recorded", ![w].doc = d]
               /\ wk[w].stage \in GATES => d.status = "running"
  <2>1. CASE RecordApproval(w)
    <3> DEFINE d == Resumed(docs[wk[w].run], GateOf(wk[w].stage), "approved")
    <3>1. Emit(w, d) /\ wk' = [wk EXCEPT ![w].pc = "recorded", ![w].doc = d]
      BY <2>1 DEF RecordApproval, RecordDecision
    <3>2. d.status = docs[wk[w].run].status
      BY <1>3 DEF Resumed, Doc
    <3> HIDE DEF d
    <3> QED
      BY <1>3, <3>1, <3>2
  <2>2. CASE RecordRefusal(w)
    <3>1. wk[w].stage \notin GATES
      BY <2>2, GatePositions DEF RecordRefusal, RecordDecision, Running
    <3> QED
      BY <2>2, <3>1 DEF RecordRefusal, RecordDecision
  <2> QED
    BY <2>1, <2>2
<1>5. /\ wk'[w].pc = "recorded" /\ wk'[w].doc = d
      /\ wk'[w].stage = wk[w].stage /\ wk'[w].run = wk[w].run
      /\ \A v \in Workers \ {w} : wk'[v] = wk[v]
  BY <1>4 DEF Sound, WorkerInv, WorkerTypeOK, Steps
<1>6. docs' = [docs EXCEPT ![wk[w].run] = d] /\ docs'[wk[w].run] = d
  BY <1>3, <1>4 DEF Emit, Sound, WorkerInv, WorkerTypeOK
<1>7. CopySound(w)'
  <2>1. "recorded" \notin {"merged", "enqueue", "start", "exited", "claimed"}
    OBVIOUS
  <2> QED
    BY <1>1, <1>2, <1>4, <1>5, <1>6, <2>1 DEF CopySound, Running1
<1>8. Saves(w, d)
  BY <1>1, <1>2, <1>4, <1>5, <1>6 DEF Saves
<1>9. wk[w].pc # "enqueue"
  BY <1>1
<1> QED
  BY <1>2, <1>3, <1>5, <1>7, <1>8, <1>9, SavesKeep

\* The steps that only read the documents.
LEMMA ReadsDoc ==
  ASSUME Sound, ChainInv, DocInv, NEW w \in Workers,
         LoadRun(w) \/ CheckEvidence(w) \/ Merge(w) \/ StageCrashes(w)
  PROVE  DocInv'
<1>1. /\ UNCHANGED <<jobs, docs>> /\ Busy(w) /\ wk[w].pc # "exited"
      /\ wk[w] \in Steps /\ wk \in [Workers -> Steps] /\ CopySound(w)
  BY DEF LoadRun, CheckEvidence, Merge, StageCrashes, Running, Busy,
         Sound, WorkerInv, WorkerTypeOK, DocInv
<1>2. /\ wk'[w].stage = wk[w].stage /\ wk'[w].run = wk[w].run
      /\ \A v \in Workers \ {w} : wk'[v] = wk[v]
      /\ LoadRun(w) => \/ wk'[w].pc = "exited" /\ wk'[w].exit = 1
                       \/ wk'[w].pc = "running" /\ wk'[w].doc = docs[wk[w].run]
  <2>1. CASE Exits(w, 1)
    BY <1>1, <2>1 DEF Exits, Steps
  <2>2. CASE wk' = [wk EXCEPT ![w].pc = "running", ![w].doc = docs[wk[w].run]]
    BY <1>1, <2>2 DEF Steps
  <2>3. CASE CheckEvidence(w)
    <3>1. ~LoadRun(w)
      BY <2>3 DEF CheckEvidence, LoadRun
    <3> QED
      BY <1>1, <2>3, <3>1 DEF CheckEvidence, Steps
  <2>4. CASE Merge(w)
    <3>1. ~LoadRun(w)
      BY <2>4 DEF Merge, Running, LoadRun
    <3> QED
      BY <1>1, <2>4, <3>1 DEF Merge, Steps
  <2> QED
    BY <2>1, <2>2, <2>3, <2>4 DEF LoadRun, StageCrashes
<1>3. CASE LoadRun(w)
  <2>1. \/ wk'[w].pc = "exited" /\ wk'[w].exit = 1
        \/ wk'[w].pc = "running" /\ wk'[w].doc = docs[wk[w].run]
    BY <1>2, <1>3
  <2>2. CopySound(w)'
    <3>1. wk[w].pc = "start"
      BY <1>3 DEF LoadRun
    <3> QED
      BY <1>1, <1>2, <2>1, <3>1 DEF CopySound, Busy, Running1
  <2>3. \A r \in RunIds : ~Minted(w, r)'
    BY <2>1 DEF Minted
  <2> QED
    BY <1>1, <1>2, <2>2, <2>3, QuietMove
<1>4. CASE CheckEvidence(w)
  <2>1. wk'[w].pc = (IF already_ran(w) THEN "skip" ELSE "start")
        /\ wk[w].pc = "claimed"
    BY <1>1, <1>4 DEF CheckEvidence, Steps
  <2>2. CopySound(w)'
    BY <1>1, <1>2, <2>1 DEF CopySound, Busy, Running1
  <2>3. \A r \in RunIds : ~Minted(w, r)'
    BY <2>1 DEF Minted
  <2> QED
    BY <1>1, <1>2, <2>2, <2>3, QuietMove
<1>5. CASE Merge(w)
  <2>1. wk'[w].pc = "merged" /\ wk'[w].doc = wk[w].doc /\ wk[w].stage = "promote"
        /\ wk[w].pc = "running"
    BY <1>1, <1>5 DEF Merge, Running, Steps
  <2>2. docs[wk[w].run].status = "running" /\ wk[w].doc = docs[wk[w].run]
    <3>1. wk[w].doc.status \notin ENDINGS
      BY <1>5 DEF Merge, not_promotable
    <3> QED
      BY <2>1, <3>1, CopyAtWork DEF Doc, ENDINGS
  <2>3. CopySound(w)'
    <3>1. "promote" \notin GATES /\ "promote" \notin {"develop", "sre"}
      BY DEF GATES
    <3> QED
      BY <1>1, <1>2, <2>1, <2>2, <3>1 DEF CopySound, Running1
  <2>4. \A r \in RunIds : ~Minted(w, r)'
    BY <2>1 DEF Minted
  <2> QED
    BY <1>1, <1>2, <2>3, <2>4, QuietMove
<1>6. CASE StageCrashes(w)
  <2>1. wk'[w].pc = "exited" /\ wk'[w].exit = 1
    BY <1>1, <1>6 DEF StageCrashes, Exits, Steps
  <2>2. CopySound(w)'
    BY <1>1, <1>2, <2>1 DEF CopySound, Busy, Running1
  <2>3. \A r \in RunIds : ~Minted(w, r)'
    BY <2>1 DEF Minted
  <2> QED
    BY <1>1, <1>2, <2>2, <2>3, QuietMove
<1> QED
  BY <1>3, <1>4, <1>5, <1>6

\* plan saves a document where there was none.
LEMMA PlanDoc ==
  ASSUME Sound, ChainInv, DocInv, NEW w \in Workers, NEW r \in Runs, Plan(w, r)
  PROVE  DocInv'
<1>1. /\ r \in RunIds /\ docs[r].status = "absent" /\ UNCHANGED jobs
      /\ wk \in [Workers -> Steps] /\ docs \in [RunIds -> Doc]
      /\ wk[w].stage = "plan"
  BY RunIdsAssumption DEF Plan, Running, Sound, WorkerInv, WorkerTypeOK
<1>2. /\ wk'[w].stage = "plan" /\ wk'[w].run = r
      /\ \A v \in Workers \ {w} : wk'[v] = wk[v]
  BY <1>1 DEF Plan, Steps
<1>3. docs'[r] = Planned /\ \A q \in RunIds \ {r} : docs'[q] = docs[q]
  BY <1>1 DEF Plan
<1>4. Planned.status = "running"
  BY DEF Planned, Absent
<1>5. ASSUME NEW v \in Workers PROVE CopySound(v)'
  <2>1. CASE v = w
    BY <1>2, <2>1 DEF CopySound
  <2>2. CASE v # w
    <3>1. Busy(v) /\ wk[v].stage # "plan" => wk[v].run \in RunIds \ {r}
      BY <1>1, DocOfHand
    <3> QED
      BY <1>2, <1>3, <2>2, <3>1 DEF DocInv, CopySound, Busy, Running1, already_ran
  <2> QED
    BY <2>1, <2>2
<1>6. MintedRuns'
  <2>1. ASSUME NEW v \in Workers, NEW q \in RunIds, Minted(v, q)' PROVE Running1(q)'
    <3>1. CASE q = r
      BY <1>3, <1>4, <3>1 DEF Running1
    <3>2. CASE q # r
      <4>1. v # w
        BY <1>2, <2>1, <3>2 DEF Minted
      <4>2. Minted(v, q)
        BY <1>2, <2>1, <4>1 DEF Minted
      <4> QED
        BY <1>3, <3>2, <4>2 DEF DocInv, MintedRuns, Running1
    <3> QED
      BY <3>1, <3>2
  <2> QED
    BY <2>1 DEF MintedRuns
<1>7. ASSUME NEW j \in JobIds PROVE RowGoesOn(j)'
  <2>1. jobs' = jobs /\ jobs[j].run \in RunIds /\ RowGoesOn(j)
    BY <1>1, RowsOfRuns DEF Job, DocInv
  <2>2. CASE jobs[j].run = r
    BY <1>3, <1>4, <2>1, <2>2 DEF RowGoesOn, Running1
  <2>3. CASE jobs[j].run # r
    BY <1>3, <2>1, <2>3 DEF RowGoesOn, Live, Running1
  <2> QED
    BY <2>2, <2>3
<1>8. JobIds' = JobIds
  BY <1>1 DEF JobIds
<1> QED
  BY <1>5, <1>6, <1>7, <1>8 DEF DocInv

\* One row changes and no document.
LEMMA RowChangesDoc ==
  ASSUME DocInv, UNCHANGED docs, JobIds' = JobIds, NEW j \in JobIds,
         \A i \in JobIds \ {j} : jobs'[i] = jobs[i], RowGoesOn(j)',
         NEW w \in Workers, \A v \in Workers \ {w} : wk'[v] = wk[v],
         CopySound(w)', \A r \in RunIds : Minted(w, r)' => Minted(w, r)
  PROVE  DocInv'
<1>1. \A v \in Workers : CopySound(v)'
  BY CopyUnmoved
<1>2. MintedRuns'
  <2>1. \A v \in Workers, r \in RunIds : Minted(v, r)' => Minted(v, r)
    BY DEF Minted
  <2> QED
    BY <2>1 DEF DocInv, MintedRuns, Running1
<1>3. \A i \in JobIds \ {j} : RowGoesOn(i)'
  BY DEF DocInv, RowGoesOn, Live, Running1
<1> QED
  BY <1>1, <1>2, <1>3 DEF DocInv

\* One row changes, and no worker moves.
LEMMA NobodyMovesDoc ==
  ASSUME DocInv, UNCHANGED <<docs, wk>>, JobIds' = JobIds, NEW j \in JobIds,
         \A i \in JobIds \ {j} : jobs'[i] = jobs[i], RowGoesOn(j)'
  PROVE  DocInv'
<1>1. \A v \in Workers : CopySound(v)'
  BY CopyUnmoved
<1>2. MintedRuns'
  BY DEF DocInv, MintedRuns, Minted, Running1
<1>3. \A i \in JobIds \ {j} : RowGoesOn(i)'
  BY DEF DocInv, RowGoesOn, Live, Running1
<1> QED
  BY <1>1, <1>2, <1>3 DEF DocInv

LEMMA ClaimJobDoc ==
  ASSUME Sound, ChainInv, DocInv, NEW w \in Workers, NEW j \in JobIds, ClaimJob(w, j)
  PROVE  DocInv'
<1>1. /\ jobs[j] \in Job /\ RowHolder(jobs[j])
      /\ RowBecomes(j, Leased(jobs[j], w)) /\ UNCHANGED docs
      /\ jobs[j].status = "ready"
           \/ (jobs[j].status = "claimed" /\ jobs[j].lease = "expired")
  BY RowsOfRuns DEF ClaimJob, Claim, Oldest, Claimable, RowBecomes
<1>2. Leased(jobs[j], w) \in Job /\ StillTable
  BY <1>1, LeasedStill, OneRowStill
<1>3. jobs'[j] = Leased(jobs[j], w)
      /\ \A i \in JobIds \ {j} : jobs'[i] = jobs[i]
  BY <1>1, <1>2, RowsOfRuns, ReplaceRow
<1>4. /\ jobs'[j].status = "claimed" /\ jobs'[j].stage = jobs[j].stage
      /\ jobs'[j].run = jobs[j].run
      /\ jobs[j].status = "claimed" => jobs'[j].reclaimed_from # Nobody
  BY <1>1, <1>3 DEF Leased, Job, RowHolder
<1>5. Live(j) /\ RowGoesOn(j)
  BY <1>1 DEF Live, TERMINAL_STATUSES, DocInv
<1>6. RowGoesOn(j)'
  BY <1>1, <1>4, <1>5 DEF RowGoesOn, Running1
<1>7. /\ wk'[w].pc = "claimed" /\ wk'[w].run = jobs[j].run
      /\ wk'[w].stage = jobs[j].stage
      /\ wk'[w].reclaimed = (jobs'[j].reclaimed_from # Nobody)
      /\ \A v \in Workers \ {w} : wk'[v] = wk[v]
  BY DEF ClaimJob, Sound, WorkerInv, WorkerTypeOK
<1>8. CopySound(w)'
  <2>1. "claimed" \notin {"running", "recorded", "merged", "enqueue", "start", "exited"}
    OBVIOUS
  <2>2. \/ Running1(jobs[j].run)'
        \/ jobs[j].stage \notin GATES \union {"develop", "sre"}
        \/ jobs[j].stage \notin GATES /\ already_ran(w)'
    BY <1>1, <1>4, <1>5, <1>7 DEF RowGoesOn, Running1, already_ran
  <2> QED
    BY <1>4, <1>7, <2>1, <2>2 DEF CopySound, Running1
<1>9. \A r \in RunIds : ~Minted(w, r)'
  BY <1>7 DEF Minted
<1>10. JobIds' = JobIds
  BY <1>2 DEF StillTable
<1> QED
  BY <1>1, <1>3, <1>6, <1>7, <1>8, <1>9, <1>10, RowChangesDoc

\* A stage whose success is recorded left its run running.
LEMMA RecordDoc ==
  ASSUME Sound, ChainInv, DocInv, NEW w \in Workers, NEW st \in TERMINAL_STATUSES,
         Record(w, st)
  PROVE  DocInv'
<1>1. PICK j \in JobIds : j = wk[w].job
  BY HandEnds
<1>2. /\ Busy(w) /\ StillTable /\ jobs'[j].status = st
      /\ \A i \in JobIds \ {j} : jobs'[i] = jobs[i]
  <2>1. /\ jobs[j] \in Job /\ RowBecomes(j, Ended(jobs[j], st))
    BY <1>1, RowsOfRuns DEF Record, Complete, RowBecomes
  <2>2. Ended(jobs[j], st) \in Job
    BY <2>1 DEF Ended, Job, JobStatus
  <2> QED
    BY <1>1, <2>1, <2>2, HandEnds, RowsOfRuns, ReplaceRow
<1>3. RowGoesOn(j)' /\ JobIds' = JobIds /\ UNCHANGED docs
  BY <1>2 DEF RowGoesOn, Live, StillTable, Record
<1>4. CASE ~Advances(w, st)
  <2>1. wk' = [wk EXCEPT ![w] = At("idle")] /\ At("idle").pc = "idle"
    BY <1>4 DEF Record, At
  <2>2. wk'[w].pc = "idle" /\ OnlyMoves(w)
    BY <2>1, Moved
  <2>3. CopySound(w)' /\ \A r \in RunIds : ~Minted(w, r)'
    BY <2>2 DEF CopySound, Busy, Minted
  <2> QED
    BY <1>2, <1>3, <2>2, <2>3, RowChangesDoc DEF OnlyMoves
<1>5. CASE Advances(w, st)
  <2>1. /\ wk'[w].pc = "enqueue" /\ wk'[w].stage = wk[w].stage
        /\ wk'[w].run = wk[w].run /\ \A v \in Workers \ {w} : wk'[v] = wk[v]
    <3>1. wk[w] \in Steps /\ wk \in [Workers -> Steps]
      BY DEF Sound, WorkerInv, WorkerTypeOK
    <3>2. wk' = [wk EXCEPT ![w] = [wk[w] EXCEPT !.pc = "enqueue", !.doc = Absent]]
      BY <1>5 DEF Record
    <3> QED
      BY <3>1, <3>2 DEF Steps
  <2>2. \/ wk[w].pc = "adopted" /\ wk[w].stage = "plan"
        \/ wk[w].pc = "exited" /\ wk[w].exit = 0 /\ wk[w].stage # "plan"
    <3>1. wk[w].pc = "adopted" => wk[w].stage = "plan"
      BY <1>2, WorkersHands DEF HandSound
    <3> QED
      BY <1>5, <3>1 DEF Record, Recording, Advances, status_for
  <2>3. wk[w].stage \in Stages \ (Recorders \union {"promote"})
    <3>1. next_stage("promote") = ""
      <4>1. "promote" \in ChainStages
        BY DEF ChainStages, STAGE_CHAIN
      <4>2. \A t \in ChainStages : Position(t) # Position("promote") + 1
        BY NamedPositions, Positions DEF Stages
      <4> QED
        BY <4>1, <4>2, NextPosition
    <3> QED
      BY <1>2, <1>5, <3>1, WorkersHands DEF Advances, HasSuccessor
  <2>4. wk[w].stage # "plan" => wk[w].stage \in GATES \union {"develop", "sre"}
    BY <2>3 DEF Stages, ChainStages, STAGE_CHAIN, GATES
  <2>5. wk[w].stage # "plan" => Running1(wk[w].run)
    BY <1>2, <2>2, <2>4 DEF DocInv, CopySound
  <2>6. CopySound(w)'
    <3>1. "enqueue" \notin {"running", "recorded", "merged", "exited", "start", "claimed"}
      OBVIOUS
    <3> QED
      BY <1>3, <2>1, <2>5, <3>1 DEF CopySound, Running1
  <2>7. \A r \in RunIds : Minted(w, r)' => Minted(w, r)
    BY <2>1, <2>2 DEF Minted
  <2> QED
    BY <1>2, <1>3, <2>1, <2>6, <2>7, RowChangesDoc
<1> QED
  BY <1>4, <1>5

LEMMA AdoptDoc ==
  ASSUME Sound, ChainInv, DocInv, NEW w \in Workers, Adopt(w)
  PROVE  DocInv'
<1>1. PICK r \in RunIds, j \in JobIds : r = wk[w].run /\ j = wk[w].job
  BY WorkersHands DEF Adopt, Busy
<1>2. /\ wk'[w].stage = "plan" /\ wk'[w].run = wk[w].run
      /\ wk[w].stage = "plan" /\ wk[w].pc = "exited" /\ wk[w].exit = 0
      /\ UNCHANGED docs /\ \A v \in Workers \ {w} : wk'[v] = wk[v]
  BY DEF Adopt, Sound, WorkerInv, WorkerTypeOK, Steps
<1>3. /\ JobIds' = JobIds /\ jobs'[j].stage = "plan"
      /\ \A i \in JobIds \ {j} : jobs'[i] = jobs[i]
  <2>1. Busy(w) /\ jobs[j].stage = "plan"
    BY <1>1, <1>2, WorkersHands DEF Busy, HandSound
  <2>2. jobs' = [jobs EXCEPT ![j].run = r] /\ jobs \in Seq(Job) /\ jobs[j] \in Job
    BY <1>1, RowsOfRuns DEF Adopt, adopt_run_id
  <2> QED
    BY <2>1, <2>2 DEF JobIds, Job
<1>4. RowGoesOn(j)'
  <2>1. "plan" \notin GATES
    BY DEF GATES
  <2> QED
    BY <1>3, <2>1 DEF RowGoesOn
<1>5. CopySound(w)'
  BY <1>2 DEF CopySound
<1>6. \A q \in RunIds : Minted(w, q)' => Minted(w, q)
  BY <1>2 DEF Minted
<1> QED
  BY <1>2, <1>3, <1>4, <1>5, <1>6, RowChangesDoc

\* A row is added: the run it is of goes on, if its stage asks it to.
LEMMA AddDoc ==
  ASSUME Sound, DocInv, NEW r \in RunIds, NEW s \in ChainStages,
         jobs' = Append(jobs, NewJob(r, s, 1)), UNCHANGED docs,
         s # "plan" => Running1(r),
         \A v \in Workers : wk'[v] = wk[v] \/ wk'[v].pc = "idle"
  PROVE  DocInv'
<1> DEFINE new == NewJob(r, s, 1)
<1>1. new \in Job /\ new.run = r /\ new.stage = s
  BY NewRow
<1> HIDE DEF new
<1>2. /\ JobIds' = JobIds \union {Len(jobs) + 1} /\ jobs'[Len(jobs) + 1] = new
      /\ \A j \in JobIds : jobs'[j] = jobs[j]
  BY <1>1, RowsOfRuns, AppendRow DEF new
<1>3. PICK n : /\ JobIds' = JobIds \union {n} /\ jobs'[n] = new
               /\ \A j \in JobIds : jobs'[j] = jobs[j]
  BY <1>2
<1>4. RowGoesOn(n)'
  <2>1. "plan" \notin GATES
    BY DEF GATES
  <2> QED
    BY <1>1, <1>3, <2>1 DEF RowGoesOn, Running1
<1>5. \A j \in JobIds : RowGoesOn(j)'
  BY <1>3 DEF DocInv, RowGoesOn, Live, Running1
<1>6. \A v \in Workers : CopySound(v)'
  <2>1. ASSUME NEW v \in Workers, wk'[v] = wk[v] PROVE CopySound(v)'
    BY <2>1, CopyUnmoved
  <2>2. ASSUME NEW v \in Workers, wk'[v].pc = "idle" PROVE CopySound(v)'
    BY <2>2 DEF CopySound, Busy
  <2> QED
    BY <2>1, <2>2
<1>7. MintedRuns'
  <2>1. \A v \in Workers, q \in RunIds : Minted(v, q)' => Minted(v, q)
    BY DEF Minted
  <2> QED
    BY <2>1 DEF DocInv, MintedRuns, Running1
<1> QED
  BY <1>3, <1>4, <1>5, <1>6, <1>7 DEF DocInv

LEMMA EnqueueNextDoc ==
  ASSUME Sound, ChainInv, DocInv, NEW w \in Workers, EnqueueNext(w)
  PROVE  DocInv'
<1>1. PICK r \in RunIds, s \in Stages : r = wk[w].run /\ s = wk[w].stage
  BY WorkersHands DEF EnqueueNext, Busy
<1>2. InHand(wk[w], JobIds) /\ Busy(w) /\ wk[w].pc = "enqueue"
  BY DEF Sound, WorkerInv, EnqueueNext, Busy
<1>3. s \in ChainStages /\ next_stage(s) # ""
  BY <1>1, <1>2, Positions DEF InHand, Busy
<1>4. PICK t \in ChainStages : t = next_stage(s)
  BY <1>3, NextPosition
<1>5. jobs' = Append(jobs, NewJob(r, t, 1)) /\ UNCHANGED docs
  BY <1>1, <1>4 DEF EnqueueNext, Enqueue
<1>6. Running1(r)
  <2>1. s = "plan" => Minted(w, r)
    BY <1>1, <1>2 DEF Minted
  <2> QED
    BY <1>1, <1>2, <2>1 DEF DocInv, CopySound, MintedRuns
<1>7. \A v \in Workers : wk'[v] = wk[v] \/ wk'[v].pc = "idle"
  <2>1. wk' = [wk EXCEPT ![w] = At("idle")] /\ At("idle").pc = "idle"
    BY DEF EnqueueNext, At
  <2> QED
    BY <2>1, Moved DEF OnlyMoves
<1> QED
  BY <1>5, <1>6, <1>7, AddDoc

LEMMA StartRunDoc ==
  ASSUME Sound, DocInv, NEW t \in Tickets, StartRun(t)
  PROVE  DocInv'
<1>1. t \in RunIds /\ "plan" \in ChainStages
  BY RunIdsAssumption DEF ChainStages, STAGE_CHAIN
<1>2. jobs' = Append(jobs, NewJob(t, "plan", 1)) /\ UNCHANGED <<docs, wk>>
  BY DEF StartRun, Enqueue
<1> QED
  BY <1>1, <1>2, AddDoc

LEMMA LeaseLapsesDoc ==
  ASSUME Sound, DocInv, NEW j \in JobIds, LeaseLapses(j)
  PROVE  DocInv'
<1> DEFINE new == [jobs[j] EXCEPT !.lease = "expired"]
<1>1. new \in Job /\ Still(jobs[j], new) /\ RowBecomes(j, new)
  BY RowsOfRuns, ExpiredStill DEF LeaseLapses, LeaseExpires, RowBecomes
<1>2. /\ new.run = jobs[j].run /\ new.stage = jobs[j].stage
      /\ new.status = jobs[j].status
  BY RowsOfRuns DEF Job
<1> HIDE DEF new
<1>3. /\ StillTable /\ jobs'[j] = new
      /\ \A i \in JobIds \ {j} : jobs'[i] = jobs[i]
  BY <1>1, OneRowStill, RowsOfRuns, ReplaceRow
<1>4. UNCHANGED <<docs, wk>> /\ JobIds' = JobIds
  BY <1>3 DEF LeaseLapses, StillTable
<1>5. RowGoesOn(j)'
  BY <1>2, <1>3, <1>4 DEF DocInv, RowGoesOn, Live, Running1
<1> QED
  BY <1>3, <1>4, <1>5, NobodyMovesDoc

LEMMA DecideDoc ==
  ASSUME Sound, DocInv, NEW r \in RunIds, NEW g \in GATES, NEW op \in Operators,
         NEW j \in JobIds, NEW decision \in {"approved", "rejected"},
         Decide(r, g, decision, op, j)
  PROVE  DocInv'
<1> DEFINE new == Released(jobs[j], g, decision, op)
<1>1. /\ jobs[j].status = "paused" /\ jobs[j].awaiting_gate = g
      /\ jobs[j].stage \in GATES
  BY RowsOfRuns DEF Decide, Resume, Oldest, PausedAt, GateSound
<1>2. new \in Job /\ Still(jobs[j], new) /\ RowBecomes(j, new)
  BY <1>1, RowsOfRuns, ReleasedStill DEF Decide, Resume, RowBecomes
<1>3. new.run = jobs[j].run
      /\ (new.stage = jobs[j].stage \/ new.stage \in Recorders)
  BY RowsOfRuns, Positions DEF Released, Job
<1> HIDE DEF new
<1>4. /\ StillTable /\ jobs'[j] = new
      /\ \A i \in JobIds \ {j} : jobs'[i] = jobs[i]
  BY <1>2, OneRowStill, RowsOfRuns, ReplaceRow
<1>5. UNCHANGED <<docs, wk>> /\ JobIds' = JobIds
  BY <1>4 DEF Decide, fleet, StillTable
<1>6. RowGoesOn(j)'
  <2>1. Live(j)
    BY <1>1 DEF Live, TERMINAL_STATUSES
  <2>2. docs'[jobs'[j].run].status = "running"
    BY <1>1, <1>3, <1>4, <1>5, <2>1 DEF DocInv, RowGoesOn, Running1
  <2>3. new.stage \notin {"develop", "sre"}
    BY <1>1, <1>3 DEF GATES, Recorders
  <2> QED
    BY <1>4, <2>2, <2>3 DEF RowGoesOn, Running1
<1> QED
  BY <1>4, <1>5, <1>6, NobodyMovesDoc

LEMMA CancelRowDoc ==
  ASSUME Sound, DocInv, NEW j \in JobIds, CancelRow(j)
  PROVE  DocInv'
<1> DEFINE new == Ended(jobs[j], "rejected")
<1>1. RowBecomes(j, new) /\ UNCHANGED <<docs, wk>>
  BY DEF CancelRow, Complete, RowBecomes, fleet
<1>2. new \in Job /\ new.status = "rejected"
  BY RowsOfRuns DEF Ended, Job, JobStatus, TERMINAL_STATUSES
<1> HIDE DEF new
<1>3. /\ JobIds' = JobIds /\ jobs'[j] = new
      /\ \A i \in JobIds \ {j} : jobs'[i] = jobs[i]
  BY <1>1, <1>2, RowsOfRuns, ReplaceRow
<1>4. RowGoesOn(j)'
  BY <1>2, <1>3 DEF RowGoesOn, Live, TERMINAL_STATUSES
<1> QED
  BY <1>1, <1>3, <1>4, NobodyMovesDoc

LEMMA WorkerStepDoc ==
  ASSUME Sound, ChainInv, DocInv, NEW w \in Workers, WorkerStep(w) \/ Crash(w)
  PROVE  DocInv'
<1>1. CASE \/ Restart(w) \/ Crash(w)
           \/ \E st \in TERMINAL_STATUSES : RecordRefused(w, st)
  BY <1>1, RestsDoc DEF Restart, Crash, RecordRefused
<1>2. CASE StageStep(w) \/ CheckEvidence(w)
  BY <1>2, ReadsDoc, PlanDoc, RecordDecisionDoc, EndingsDoc, WorkDoc DEF StageStep
<1> QED
  BY <1>1, <1>2, ClaimJobDoc, AdoptDoc, RecordDoc, EnqueueNextDoc DEF WorkerStep

LEMMA NothingMovesDoc ==
  ASSUME DocInv, UNCHANGED <<jobs, docs, wk>>
  PROVE  DocInv'
<1>1. \A w \in Workers : CopySound(w)'
  BY CopyUnmoved
<1> QED
  BY <1>1 DEF DocInv, MintedRuns, Minted, RowGoesOn, Live, Running1, JobIds

LEMMA DocIsKept ==
  Sound /\ ChainInv /\ DocInv /\ [WorkerNext]_vars => DocInv'
<1>1. ASSUME Sound, DocInv, ApiStep PROVE DocInv'
  BY <1>1, CancelRowDoc, NothingMovesDoc
     DEF ApiStep, CancelRun, CancelRefused, fleet
<1>2. ASSUME Sound, DocInv, HumanStep PROVE DocInv'
  BY <1>2, DecideDoc DEF HumanStep
<1>3. ASSUME DocInv, UNCHANGED vars PROVE DocInv'
  BY <1>3, NothingMovesDoc DEF vars
<1> QED
  BY <1>1, <1>2, <1>3, WorkerStepDoc, StartRunDoc, LeaseLapsesDoc DEF WorkerNext

LEMMA DocAtInit == WorkerInit => DocInv
<1> SUFFICES ASSUME WorkerInit PROVE DocInv
  OBVIOUS
<1>1. JobIds = {}
  BY DEF WorkerInit, QueueInit, JobIds
<1>2. \A w \in Workers : wk[w].pc = "idle"
  BY DEF WorkerInit, At
<1> QED
  BY <1>1, <1>2 DEF DocInv, CopySound, Busy, MintedRuns, Minted

EndingsKept ==
  \A r \in RunIds : docs[r].status \in ENDINGS => docs'[r].status = docs[r].status

\* A stage saves over a document that is still running, or leaves its status.
LEMMA SaveKeepsEndings ==
  ASSUME Sound, NEW w \in Workers, Busy(w), NEW d, Emit(w, d),
         \/ d.status = docs[wk[w].run].status
         \/ docs[wk[w].run].status \notin ENDINGS
  PROVE  EndingsKept
<1>1. wk[w].run \in RunIds /\ docs \in [RunIds -> Doc]
  BY DocOfHand DEF Sound, WorkerInv, WorkerTypeOK
<1>2. /\ docs'[wk[w].run] = d
      /\ \A r \in RunIds \ {wk[w].run} : docs'[r] = docs[r]
  BY <1>1 DEF Emit
<1> QED
  BY <1>2 DEF EndingsKept

LEMMA StageKeepsEndings ==
  ASSUME Sound, DocInv, NEW w \in Workers, StageStep(w)
  PROVE  EndingsKept
<1>1. CASE LoadRun(w) \/ Merge(w) \/ StageCrashes(w)
  BY <1>1 DEF LoadRun, Merge, StageCrashes, EndingsKept
<1>2. ASSUME NEW r \in Runs, Plan(w, r) PROVE EndingsKept
  <2>1. r \in RunIds /\ docs[r].status \notin ENDINGS
    BY <1>2, RunIdsAssumption DEF Plan, ENDINGS
  <2>2. \A q \in RunIds \ {r} : docs'[q] = docs[q]
    BY <1>2, <2>1 DEF Plan, Sound, WorkerInv, WorkerTypeOK
  <2> QED
    BY <2>1, <2>2 DEF EndingsKept
<1>3. ASSUME NEW d, Emit(w, d), wk[w].pc \in {"running", "recorded", "merged"},
             wk[w].stage # "plan",
             d.status = wk[w].doc.status \/ wk[w].doc.status \notin ENDINGS
      PROVE  EndingsKept
  <2>1. Busy(w) /\ wk[w].doc = docs[wk[w].run]
    BY <1>3 DEF Busy, DocInv, CopySound
  <2> QED
    BY <1>3, <2>1, SaveKeepsEndings
<1>4. CASE EmitDecision(w) \/ DeclineEnded(w)
  <2>1. wk[w].pc = "recorded" => wk[w].stage # "plan"
    BY WorkersHands DEF HandSound, Busy
  <2>2. wk[w].stage # "plan"
    BY <1>4, <2>1, GatePositions DEF EmitDecision, DeclineEnded, Running
  <2> QED
    BY <1>3, <1>4, <2>2 DEF EmitDecision, DeclineEnded, Running
<1>5. CASE \/ \E outcome \in DevelopOutcomes : Develop(w, outcome)
           \/ \E verdict \in {"go", "no_go"} : Sre(w, verdict)
  <2>1. wk[w].pc = "running" /\ wk[w].stage \in {"develop", "sre"}
        /\ \E d : Emit(w, d)
    BY <1>5 DEF Develop, Sre, Running
  <2>2. wk[w].doc.status \notin ENDINGS
    <3>1. Running1(wk[w].run) /\ wk[w].doc = docs[wk[w].run]
      BY <2>1 DEF DocInv, CopySound, Busy
    <3> QED
      BY <3>1 DEF Running1, ENDINGS
  <2> QED
    BY <1>3, <2>1, <2>2
<1>6. CASE RefusePromotion(w)
  BY <1>3, <1>6 DEF RefusePromotion, Running
<1>7. CASE EmitPromoted(w)
  <2>1. wk[w].pc = "merged" /\ wk[w].stage # "plan" /\ \E d : Emit(w, d)
    BY <1>7, WorkersHands DEF EmitPromoted, HandSound, Busy
  <2>2. Busy(w) /\ Running1(wk[w].run)
    BY <2>1 DEF DocInv, CopySound, Busy
  <2>3. docs[wk[w].run].status \notin ENDINGS
    BY <2>2 DEF Running1, ENDINGS
  <2> QED
    BY <2>1, <2>2, <2>3, SaveKeepsEndings
<1>8. CASE RecordApproval(w) \/ RecordRefusal(w)
  <2>1. /\ wk[w].pc = "running" /\ wk[w].stage \in GATES \union Recorders
        /\ \E d : Emit(w, d)
        /\ wk[w].stage \in GATES \/ wk[w].doc.status \notin ENDINGS
    BY <1>8 DEF RecordApproval, RecordRefusal, RecordDecision, Running
  <2>2. wk[w].stage # "plan"
    BY <2>1, GatePositions
  <2>3. /\ Busy(w) /\ wk[w].doc = docs[wk[w].run]
        /\ wk[w].stage \in GATES => Running1(wk[w].run)
    BY <2>1, <2>2 DEF DocInv, CopySound, Busy
  <2>4. docs[wk[w].run].status \notin ENDINGS
    BY <2>1, <2>3 DEF Running1, ENDINGS
  <2> QED
    BY <2>1, <2>3, <2>4, SaveKeepsEndings
<1> QED
  BY <1>1, <1>2, <1>4, <1>5, <1>6, <1>7, <1>8 DEF StageStep

LEMMA StepKeepsEndings ==
  Sound /\ DocInv /\ [WorkerNext]_vars => EndingsKept
<1>1. UNCHANGED docs => EndingsKept
  BY DEF EndingsKept
<1>2. ASSUME NEW w \in Workers, WorkerStep(w) \/ Crash(w), ~StageStep(w)
      PROVE  UNCHANGED docs
  BY <1>2 DEF WorkerStep, Crash, ClaimJob, CheckEvidence, Adopt, Record,
              RecordRefused, EnqueueNext, Restart
<1>3. ASSUME HumanStep \/ ApiStep PROVE UNCHANGED docs
  BY <1>3 DEF HumanStep, Decide, ApiStep, CancelRun, CancelRow, CancelRefused, fleet
<1>4. \A t \in Tickets : StartRun(t) => UNCHANGED docs
  BY DEF StartRun
<1>5. \A j \in JobIds : LeaseLapses(j) => UNCHANGED docs
  BY DEF LeaseLapses
<1>6. UNCHANGED vars => UNCHANGED docs
  BY DEF vars
<1>7. ASSUME Sound, DocInv, NEW w \in Workers, WorkerStep(w) \/ Crash(w)
      PROVE  EndingsKept
  BY <1>1, <1>2, <1>7, StageKeepsEndings
<1> QED
  BY <1>1, <1>3, <1>4, <1>5, <1>6, <1>7 DEF WorkerNext

\* While no stage outlives its worker's lease, how a run ended is never
\* rewritten, whoever dies, is restarted, cancels or reclaims in between: no
\* stage process saves a copy of the document older than the document.  (A
\* worker that lost its row while at work does: EndingIsFinal is violated then.)
THEOREM RunEndingsAreFinal ==
  ASSUME MaxOverruns = 0
  PROVE  WorkerSpec => EndingIsFinal
<1>1. Sound /\ ChainInv /\ [WorkerNext]_vars => ChainInv'
  BY ChainIsKept
<1>2. Sound /\ DocInv /\ [WorkerNext]_vars =>
        [\A r \in RunIds :
           docs[r].status \in ENDINGS => docs'[r].status = docs[r].status]_vars
  BY StepKeepsEndings DEF EndingsKept
<1>3. WorkerSpec => [](Sound /\ ChainInv /\ DocInv)
  BY <1>1, ChainAtInit, DocAtInit, DocIsKept, FleetInvHolds, PTL DEF WorkerSpec
<1> QED
  BY <1>2, <1>3, PTL DEF WorkerSpec, EndingIsFinal
=============================================================================
