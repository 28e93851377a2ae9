--------------------------- MODULE JobQueueProofs ---------------------------
(***************************************************************************)
(* Proofs about JobQueue, for any number of runs, workers, operators and   *)
(* rows.  A step of the queue appends one row or moves one row; Moves      *)
(* collects what can happen to a single row, so most of the argument is    *)
(* about one record, and the table only comes back to lift it.             *)
(***************************************************************************)
EXTENDS JobQueue, SequenceTheorems, TLAPS

\* What one step of the queue may do to one row.
Moves(old, new) ==
  \/ \E w \in Workers :
       old.status \in {"ready", "claimed"} /\ new = Leased(old, w)
  \/ old.status = "claimed" /\ new = [old EXCEPT !.lease = "live"]
  \/ \E st \in TERMINAL_STATUSES :
       old.status \notin TERMINAL_STATUSES /\ new = Ended(old, st)
  \/ \E g \in GATES :
       old.status \notin TERMINAL_STATUSES /\ new = PausedRow(old, g)
  \/ \E g \in GATES, op \in Operators,
        decision \in APPROVING_DECISIONS \union REFUSING_DECISIONS :
       old.status = "paused" /\ new = Released(old, g, decision, op)
  \/ old.lease = "live" /\ new = [old EXCEPT !.lease = "expired"]

\* Row j, and no other, becomes new.
RowBecomes(j, new) == jobs' = [jobs EXCEPT ![j] = new]

\* The part of HolderIffClaimed and of NoGateRunsUndecided about one row.
RowHolder(job) ==
  /\ (job.claimed_by # Nobody) <=> (job.status = "claimed")
  /\ (job.lease # "none") <=> (job.status = "claimed")

RowDecided(job) ==
  /\ job.stage \in GATES \union Recorders
  /\ job.status \in {"ready", "claimed"}
  => job.decided_by # Nobody

-----------------------------------------------------------------------------
(* The table: appending to it and replacing one row of it. *)

LEMMA RowsAreJobs ==
  ASSUME jobs \in Seq(Job)
  PROVE  JobIds = 1..Len(jobs) /\ \A j \in JobIds : jobs[j] \in Job
BY DEF JobIds

LEMMA AppendRow ==
  ASSUME jobs \in Seq(Job), NEW row \in Job, jobs' = Append(jobs, row)
  PROVE  /\ jobs' \in Seq(Job)
         /\ Len(jobs') = Len(jobs) + 1
         /\ JobIds' = JobIds \union {Len(jobs) + 1}
         /\ Len(jobs) + 1 \notin JobIds
         /\ jobs'[Len(jobs) + 1] = row
         /\ \A j \in JobIds : jobs'[j] = jobs[j]
BY DEF JobIds

LEMMA ReplaceRow ==
  ASSUME jobs \in Seq(Job), NEW j \in JobIds, NEW new \in Job, RowBecomes(j, new)
  PROVE  /\ jobs' \in Seq(Job)
         /\ Len(jobs') = Len(jobs)
         /\ JobIds' = JobIds
         /\ jobs'[j] = new
         /\ \A i \in JobIds \ {j} : jobs'[i] = jobs[i]
BY RowsAreJobs, ExceptSeq DEF RowBecomes, JobIds

LEMMA NewJobIsAJob ==
  ASSUME NEW r \in RunIds, NEW s \in ChainStages, NEW a \in Attempts
  PROVE  NewJob(r, s, a) \in Job
BY DEF NewJob, Job, JobStatus, Stages, GATES

-----------------------------------------------------------------------------
(* One row. *)

LEMMA RecorderOfGate ==
  ASSUME NEW g \in GATES
  PROVE  REJECTION_STAGES[g] \in Recorders
BY DEF REJECTION_STAGES, Recorders, GATES

LEMMA MovedRowIsAJob ==
  ASSUME NEW old \in Job, NEW new, Moves(old, new)
  PROVE  new \in Job /\ new.run = old.run /\ new.attempt = old.attempt
<1>1. ASSUME NEW w \in Workers, new = Leased(old, w)
      PROVE  new \in Job /\ new.run = old.run /\ new.attempt = old.attempt
  BY <1>1 DEF Leased, Job, JobStatus
<1>2. ASSUME NEW l \in {"live", "expired"}, new = [old EXCEPT !.lease = l]
      PROVE  new \in Job /\ new.run = old.run /\ new.attempt = old.attempt
  BY <1>2 DEF Job
<1>3. ASSUME NEW st \in TERMINAL_STATUSES, new = Ended(old, st)
      PROVE  new \in Job /\ new.run = old.run /\ new.attempt = old.attempt
  BY <1>3 DEF Ended, Job, JobStatus
<1>4. ASSUME NEW g \in GATES, new = PausedRow(old, g)
      PROVE  new \in Job /\ new.run = old.run /\ new.attempt = old.attempt
  BY <1>4 DEF PausedRow, Job, JobStatus
<1>5. ASSUME NEW g \in GATES, NEW op \in Operators, NEW decision,
             new = Released(old, g, decision, op)
      PROVE  new \in Job /\ new.run = old.run /\ new.attempt = old.attempt
  <2>1. REJECTION_STAGES[g] \in Stages
    BY RecorderOfGate DEF Stages
  <2> QED
    BY <1>5, <2>1 DEF Released, Job, JobStatus
<1> QED
  BY <1>1, <1>2, <1>3, <1>4, <1>5 DEF Moves

\* A row changes stage only when it is refused, and then to a recorder.
LEMMA StageMovesToRecorder ==
  ASSUME NEW old \in Job, NEW new, Moves(old, new)
  PROVE  new.stage = old.stage \/ new.stage \in Recorders
<1>1. ASSUME NEW g \in GATES, NEW op \in Operators, NEW decision,
             new = Released(old, g, decision, op)
      PROVE  new.stage = old.stage \/ new.stage \in Recorders
  BY <1>1, RecorderOfGate DEF Released, Job
<1> QED
  BY <1>1 DEF Moves, Leased, Ended, PausedRow, Job

LEMMA EndedRowStays ==
  ASSUME NEW old \in Job, NEW new, Moves(old, new), RowHolder(old)
  PROVE  old.status \notin TERMINAL_STATUSES
BY DEF Moves, RowHolder, TERMINAL_STATUSES

LEMMA HolderIsKept ==
  ASSUME NEW old \in Job, NEW new, Moves(old, new), RowHolder(old)
  PROVE  RowHolder(new)
<1>1. ASSUME NEW w \in Workers, new = Leased(old, w)
      PROVE  RowHolder(new)
  BY <1>1, NobodyAssumption DEF RowHolder, Leased, Job
<1>2. ASSUME old.status = "claimed", NEW l \in {"live", "expired"},
             new = [old EXCEPT !.lease = l]
      PROVE  RowHolder(new)
  BY <1>2 DEF RowHolder, Job
<1>3. ASSUME NEW st \in TERMINAL_STATUSES, new = Ended(old, st)
      PROVE  RowHolder(new)
  BY <1>3 DEF RowHolder, Ended, Job, TERMINAL_STATUSES
<1>4. ASSUME NEW g \in GATES, new = PausedRow(old, g)
      PROVE  RowHolder(new)
  BY <1>4 DEF RowHolder, PausedRow, Job
<1>5. ASSUME old.status = "paused", NEW g \in GATES, NEW op \in Operators,
             NEW decision, new = Released(old, g, decision, op)
      PROVE  RowHolder(new)
  BY <1>5 DEF RowHolder, Released, Job
<1>6. old.lease = "live" => old.status = "claimed"
  BY DEF RowHolder
<1> QED
  BY <1>1, <1>2, <1>3, <1>4, <1>5, <1>6 DEF Moves

LEMMA DecisionIsKept ==
  ASSUME NEW old \in Job, NEW new, Moves(old, new), RowHolder(old),
         RowDecided(old)
  PROVE  RowDecided(new)
BY NobodyAssumption
   DEF Moves, RowHolder, RowDecided, Leased, Ended, PausedRow, Released, Job,
       TERMINAL_STATUSES

LEMMA TraceIsKept ==
  ASSUME NEW old \in Job, NEW new, Moves(old, new), RowHolder(old),
         old.reclaimed_from # Nobody
  PROVE  new.reclaimed_from # Nobody
BY DEF Moves, RowHolder, Leased, Ended, PausedRow, Released, Job

-----------------------------------------------------------------------------
(* A step of the queue, lifted from rows to the table. *)

Appends ==
  \E r \in RunIds, s \in ChainStages, a \in Attempts :
    ~Held(r, s, a) /\ Len(jobs) < MaxJobs /\ jobs' = Append(jobs, NewJob(r, s, a))

MovesOne ==
  \E j \in JobIds, new \in Job : Moves(jobs[j], new) /\ RowBecomes(j, new)

Adopts == \E j \in JobIds, r \in RunIds : adopt_run_id(j, r)

LEMMA OneMove ==
  ASSUME TypeOK, NEW j \in JobIds, NEW new, Moves(jobs[j], new),
         RowBecomes(j, new)
  PROVE  MovesOne
BY RowsAreJobs, MovedRowIsAJob DEF TypeOK, MovesOne

LEMMA StepShape ==
  ASSUME TypeOK, QueueNext
  PROVE  Appends \/ MovesOne \/ Adopts
<1>1. ASSUME NEW r \in RunIds, NEW s \in StagesInPlay, NEW a \in Attempts,
             Enqueue(r, s, a)
      PROVE  Appends
  BY <1>1, StagesAssumption DEF Enqueue, Appends
<1>2. ASSUME NEW j \in JobIds, NEW w \in Workers, Claim(w, j)
      PROVE  MovesOne
  <2>1. jobs[j].status \in {"ready", "claimed"}
    BY <1>2 DEF Claim, Oldest, Claimable
  <2>2. RowBecomes(j, Leased(jobs[j], w))
    BY <1>2 DEF Claim, RowBecomes
  <2> QED
    BY <2>1, <2>2, OneMove DEF Moves
<1>3. ASSUME NEW j \in JobIds, Heartbeat(j)
      PROVE  MovesOne
  <2>1. RowBecomes(j, [jobs[j] EXCEPT !.lease = "live"])
    BY <1>3 DEF Heartbeat, RowBecomes
  <2>2. Moves(jobs[j], [jobs[j] EXCEPT !.lease = "live"])
    BY <1>3 DEF Heartbeat, Moves
  <2> QED
    BY <2>1, <2>2, OneMove
<1>4. ASSUME NEW j \in JobIds, NEW st \in EndingsInPlay, Complete(j, st)
      PROVE  MovesOne
  <2>1. RowBecomes(j, Ended(jobs[j], st))
    BY <1>4 DEF Complete, RowBecomes
  <2>2. Moves(jobs[j], Ended(jobs[j], st))
    BY <1>4, EndingsAssumption DEF Complete, Moves
  <2> QED
    BY <2>1, <2>2, OneMove
<1>5. ASSUME NEW j \in JobIds, NEW g \in GATES, Pause(j, g)
      PROVE  MovesOne
  <2>1. RowBecomes(j, PausedRow(jobs[j], g))
    BY <1>5 DEF Pause, RowBecomes
  <2>2. Moves(jobs[j], PausedRow(jobs[j], g))
    BY <1>5 DEF Pause, Moves
  <2> QED
    BY <2>1, <2>2, OneMove
<1>6. ASSUME NEW j \in JobIds, NEW r \in RunIds, NEW g \in GATES,
             NEW op \in Operators,
             NEW decision \in APPROVING_DECISIONS \union REFUSING_DECISIONS,
             Resume(r, g, decision, op, j)
      PROVE  MovesOne
  <2>1. RowBecomes(j, Released(jobs[j], g, decision, op))
    BY <1>6 DEF Resume, RowBecomes
  <2>2. jobs[j].status = "paused"
    BY <1>6 DEF Resume, Oldest, PausedAt
  <2>3. Moves(jobs[j], Released(jobs[j], g, decision, op))
    BY <2>2 DEF Moves
  <2> QED
    BY <2>1, <2>3, OneMove
<1>7. ASSUME NEW j \in JobIds, LeaseExpires(j)
      PROVE  MovesOne
  <2>1. RowBecomes(j, [jobs[j] EXCEPT !.lease = "expired"])
    BY <1>7 DEF LeaseExpires, RowBecomes
  <2>2. Moves(jobs[j], [jobs[j] EXCEPT !.lease = "expired"])
    BY <1>7 DEF LeaseExpires, Moves
  <2> QED
    BY <2>1, <2>2, OneMove
<1> QED
  BY <1>1, <1>2, <1>3, <1>4, <1>5, <1>6, <1>7 DEF QueueNext, Adopts

\* A renamed row is the same row under another run.
LEMMA AdoptedRow ==
  ASSUME TypeOK, NEW j \in JobIds, NEW r \in RunIds, adopt_run_id(j, r)
  PROVE  /\ jobs' \in Seq(Job) /\ Len(jobs') = Len(jobs) /\ JobIds' = JobIds
         /\ jobs'[j] = [jobs[j] EXCEPT !.run = r]
         /\ \A i \in JobIds \ {j} : jobs'[i] = jobs[i]
<1>1. jobs \in Seq(Job) /\ jobs[j] \in Job
  BY RowsAreJobs DEF TypeOK
<1>2. [jobs[j] EXCEPT !.run = r] \in Job
  BY <1>1 DEF Job
<1>3. RowBecomes(j, [jobs[j] EXCEPT !.run = r])
  BY DEF adopt_run_id, RowBecomes
<1> QED
  BY <1>1, <1>2, <1>3, ReplaceRow

-----------------------------------------------------------------------------
LEMMA QueueTypeOKStep == TypeOK /\ [QueueNext]_jobs => TypeOK'
<1> SUFFICES ASSUME TypeOK, QueueNext PROVE TypeOK'
  BY DEF TypeOK
<1>1. jobs \in Seq(Job) /\ Len(jobs) \in Nat /\ Len(jobs) <= MaxJobs
  BY LenProperties DEF TypeOK
<1>2. CASE Appends
  <2>1. PICK r \in RunIds, s \in ChainStages, a \in Attempts :
          Len(jobs) < MaxJobs /\ jobs' = Append(jobs, NewJob(r, s, a))
    BY <1>2 DEF Appends
  <2> QED
    BY <1>1, <2>1, AppendRow, NewJobIsAJob, MaxJobsAssumption DEF TypeOK
<1>3. CASE MovesOne
  <2>1. PICK j \in JobIds, new \in Job :
            Moves(jobs[j], new) /\ RowBecomes(j, new)
    BY <1>3 DEF MovesOne
  <2>2. new \in Job
    BY <1>1, <2>1, RowsAreJobs, MovedRowIsAJob
  <2> QED
    BY <1>1, <2>1, <2>2, ReplaceRow DEF TypeOK
<1>4. CASE Adopts
  <2>1. PICK j \in JobIds, r \in RunIds : adopt_run_id(j, r)
    BY <1>4 DEF Adopts
  <2> QED
    BY <1>1, <2>1, AdoptedRow DEF TypeOK
<1> QED
  BY <1>2, <1>3, <1>4, StepShape

\* Every reachable table is well formed: whatever callers do in whatever
\* order, a row stays a Job (queue/__init__.py, class Job).
THEOREM QueueTypeOK == QueueSpec => []TypeOK
<1>1. QueueInit => TypeOK
  BY MaxJobsAssumption, EmptySeq DEF QueueInit, TypeOK
<1> QED
  BY <1>1, QueueTypeOKStep, PTL DEF QueueSpec

-----------------------------------------------------------------------------
LEMMA RowsOfInvariants ==
  /\ HolderIffClaimed <=> \A j \in JobIds : RowHolder(jobs[j])
  /\ NoGateRunsUndecided <=> \A j \in JobIds : RowDecided(jobs[j])
BY DEF HolderIffClaimed, RowHolder, NoGateRunsUndecided, RowDecided

LEMMA NewRowIsSound ==
  ASSUME NEW r \in RunIds, NEW s \in ChainStages, NEW a \in Attempts
  PROVE  RowHolder(NewJob(r, s, a)) /\ RowDecided(NewJob(r, s, a))
<1>1. s \notin Recorders
  BY DEF ChainStages, STAGE_CHAIN, Recorders
<1> QED
  BY <1>1 DEF RowHolder, RowDecided, NewJob

\* HolderIffClaimed is what keeps the other row invariants inductive: a lease
\* renewed or run out belongs to a claimed row, and only to one.
RowInvariant == TypeOK /\ HolderIffClaimed /\ NoGateRunsUndecided

LEMMA RowInvariantIsKept ==
  RowInvariant /\ [QueueNext]_jobs => RowInvariant'
<1> SUFFICES ASSUME RowInvariant, TypeOK', QueueNext
             PROVE  \A j \in JobIds' : RowHolder(jobs'[j]) /\ RowDecided(jobs'[j])
  <2>1. TypeOK /\ [QueueNext]_jobs => TypeOK'
    BY QueueTypeOKStep
  <2>2. (\A j \in JobIds' : RowHolder(jobs'[j]) /\ RowDecided(jobs'[j]))
        => HolderIffClaimed' /\ NoGateRunsUndecided'
    BY DEF HolderIffClaimed, RowHolder, NoGateRunsUndecided, RowDecided
  <2>3. UNCHANGED jobs /\ RowInvariant => RowInvariant'
    BY DEF RowInvariant, TypeOK, HolderIffClaimed, NoGateRunsUndecided, JobIds
  <2> QED
    BY <2>1, <2>2, <2>3 DEF RowInvariant
<1>1. /\ TypeOK /\ jobs \in Seq(Job)
      /\ \A j \in JobIds : /\ jobs[j] \in Job
                           /\ RowHolder(jobs[j])
                           /\ RowDecided(jobs[j])
  BY RowsAreJobs, RowsOfInvariants DEF RowInvariant, TypeOK
<1>2. CASE Appends
  <2>1. PICK r \in RunIds, s \in ChainStages, a \in Attempts :
          jobs' = Append(jobs, NewJob(r, s, a))
    BY <1>2 DEF Appends
  <2> QED
    BY <1>1, <2>1, AppendRow, NewJobIsAJob, NewRowIsSound
<1>3. CASE MovesOne
  <2>1. PICK j \in JobIds, new \in Job :
            Moves(jobs[j], new) /\ RowBecomes(j, new)
    BY <1>3 DEF MovesOne
  <2>2. new \in Job /\ RowHolder(new) /\ RowDecided(new)
    BY <1>1, <2>1, MovedRowIsAJob, HolderIsKept, DecisionIsKept
  <2> QED
    BY <1>1, <2>1, <2>2, ReplaceRow
<1>4. CASE Adopts
  <2>1. PICK j \in JobIds, r \in RunIds : adopt_run_id(j, r)
    BY <1>4 DEF Adopts
  <2>2. jobs[j] \in Job /\ RowHolder(jobs[j]) /\ RowDecided(jobs[j])
    BY <1>1
  <2>3. LET new == [jobs[j] EXCEPT !.run = r]
        IN  RowHolder(new) /\ RowDecided(new)
    BY <2>2 DEF RowHolder, RowDecided, Job
  <2> QED
    BY <1>1, <2>1, <2>3, AdoptedRow
<1> QED
  BY <1>1, <1>2, <1>3, <1>4, StepShape

LEMMA RowInvariantHolds == QueueSpec => []RowInvariant
<1>1. QueueInit => RowInvariant
  BY MaxJobsAssumption, EmptySeq
     DEF QueueInit, RowInvariant, TypeOK, HolderIffClaimed,
         NoGateRunsUndecided, JobIds
<1> QED
  BY <1>1, RowInvariantIsKept, PTL DEF QueueSpec

\* No gate stage, and no recorder of a refusal, is ever claimable or running
\* before a named human released the row (queue/__init__.py:28, resume is the
\* only exit from paused): for any number of gates asked, workers and leases
\* lost.
THEOREM GatesHold == QueueSpec => []NoGateRunsUndecided
BY RowInvariantHolds, PTL DEF RowInvariant

\* A paused, ready or ended row never carries a holder or a lease, so nothing
\* but an expired claim can be reclaimed.
THEOREM HoldersAreClaimants == QueueSpec => []HolderIffClaimed
BY RowInvariantHolds, PTL DEF RowInvariant

-----------------------------------------------------------------------------
\* At most one row per (run, stage, attempt), through every rename and every
\* refusal: the queue's half of A6.
THEOREM StagesAreUnique == QueueSpec => []OneRowPerStage
<1>1. QueueInit => OneRowPerStage
  BY DEF QueueInit, OneRowPerStage, JobIds
<1>2. TypeOK /\ OneRowPerStage /\ [QueueNext]_jobs => OneRowPerStage'
  <2> SUFFICES ASSUME TypeOK, OneRowPerStage, QueueNext
               PROVE  OneRowPerStage'
    BY DEF OneRowPerStage, JobIds
  <2>1. jobs \in Seq(Job) /\ \A j \in JobIds : jobs[j] \in Job
    BY RowsAreJobs DEF TypeOK
  <2>2. CASE Appends
    <3>1. PICK r \in RunIds, s \in ChainStages, a \in Attempts :
            ~Held(r, s, a) /\ jobs' = Append(jobs, NewJob(r, s, a))
      BY <2>2 DEF Appends
    <3>2. LET new == NewJob(r, s, a)
          IN  new.run = r /\ new.stage = s /\ new.attempt = a
      BY DEF NewJob
    <3>3. LET new == NewJob(r, s, a)
          IN \A i \in JobIds : ~ /\ jobs[i].run = new.run
                                 /\ jobs[i].stage = new.stage
                                 /\ jobs[i].attempt = new.attempt
      BY <3>1, <3>2 DEF Held
    <3>4. /\ NewJob(r, s, a) \in Job /\ Len(jobs) + 1 \notin JobIds
          /\ JobIds' = JobIds \union {Len(jobs) + 1}
          /\ jobs'[Len(jobs) + 1] = NewJob(r, s, a)
          /\ \A j \in JobIds : jobs'[j] = jobs[j]
      BY <2>1, <3>1, AppendRow, NewJobIsAJob
    <3> QED
      BY <3>3, <3>4 DEF OneRowPerStage
  <2>3. CASE MovesOne
    <3>1. PICK j \in JobIds, new \in Job :
            Moves(jobs[j], new) /\ RowBecomes(j, new)
      BY <2>3 DEF MovesOne
    <3>2. /\ new \in Job /\ new.run = jobs[j].run
          /\ new.attempt = jobs[j].attempt
          /\ new.stage = jobs[j].stage \/ new.stage \notin ChainStages
      <4>1. Recorders \intersect ChainStages = {}
        BY DEF Recorders, ChainStages, STAGE_CHAIN
      <4> QED
        BY <2>1, <3>1, <4>1, MovedRowIsAJob, StageMovesToRecorder
    <3> QED
      BY <2>1, <3>1, <3>2, ReplaceRow DEF OneRowPerStage
  <2>4. CASE Adopts
    <3>1. PICK j \in JobIds, r \in RunIds : adopt_run_id(j, r)
      BY <2>4 DEF Adopts
    <3>2. /\ JobIds' = JobIds
          /\ \A i \in JobIds \ {j} : jobs'[i] = jobs[i]
          /\ jobs'[j] = [jobs[j] EXCEPT !.run = r]
      BY <3>1, AdoptedRow
    <3>3. /\ jobs'[j].run = r /\ jobs'[j].stage = jobs[j].stage
          /\ jobs'[j].attempt = jobs[j].attempt
      BY <2>1, <3>2 DEF Job
    <3>4. \A i \in JobIds \ {j} :
            ~ /\ jobs[i].run = r
              /\ jobs[i].stage = jobs[j].stage
              /\ jobs[i].attempt = jobs[j].attempt
      BY <3>1 DEF adopt_run_id
    <3>5. SUFFICES ASSUME NEW i \in JobIds, NEW k \in JobIds,
                          jobs'[i].run = jobs'[k].run,
                          jobs'[i].stage = jobs'[k].stage,
                          jobs'[i].attempt = jobs'[k].attempt,
                          jobs'[i].stage \in ChainStages
                   PROVE  i = k
      BY <3>2 DEF OneRowPerStage
    <3>6. CASE i # j /\ k # j
      BY <3>2, <3>5, <3>6 DEF OneRowPerStage
    <3>7. \A m \in JobIds \ {j} :
            ~ /\ jobs'[m].run = jobs'[j].run
              /\ jobs'[m].stage = jobs'[j].stage
              /\ jobs'[m].attempt = jobs'[j].attempt
      BY <3>2, <3>3, <3>4
    <3>8. (i = j \/ k = j) => i = k
      BY <3>5, <3>7
    <3> QED
      BY <3>6, <3>8
  <2> QED
    BY <2>2, <2>3, <2>4, StepShape
<1> QED
  BY <1>1, <1>2, QueueTypeOK, PTL DEF QueueSpec

-----------------------------------------------------------------------------
(* What a step may never do to a row that is there already. *)

LEMMA RowsAfterStep ==
  ASSUME TypeOK, QueueNext, NEW i \in JobIds
  PROVE  \/ jobs'[i] = jobs[i]
         \/ Moves(jobs[i], jobs'[i])
         \/ \E r \in RunIds : jobs'[i] = [jobs[i] EXCEPT !.run = r]
<1>1. jobs \in Seq(Job) /\ \A j \in JobIds : jobs[j] \in Job
  BY RowsAreJobs DEF TypeOK
<1>2. CASE Appends
  BY <1>1, <1>2, AppendRow, NewJobIsAJob DEF Appends
<1>3. CASE MovesOne
  BY <1>1, <1>3, ReplaceRow, MovedRowIsAJob DEF MovesOne
<1>4. CASE Adopts
  BY <1>4, AdoptedRow DEF Adopts
<1> QED
  BY <1>2, <1>3, <1>4, StepShape

\* An ended row keeps its ending and its stage (queue/__init__.py:98).
THEOREM EndingsAreFinal == QueueSpec => TerminalIsFinal
<1>1. ASSUME RowInvariant, [QueueNext]_jobs, NEW j \in JobIds,
             jobs[j].status \in TERMINAL_STATUSES
      PROVE  jobs'[j].status = jobs[j].status /\ jobs'[j].stage = jobs[j].stage
  <2>1. jobs[j] \in Job /\ RowHolder(jobs[j])
    BY <1>1, RowsAreJobs, RowsOfInvariants DEF RowInvariant, TypeOK
  <2>2. CASE QueueNext
    <3>1. ~Moves(jobs[j], jobs'[j])
      BY <1>1, <2>1, EndedRowStays
    <3> QED
      BY <1>1, <2>1, <2>2, <3>1, RowsAfterStep DEF RowInvariant, Job
  <2> QED
    BY <1>1, <2>2
<1>2. RowInvariant /\ [QueueNext]_jobs =>
        [\A j \in JobIds :
           jobs[j].status \in TERMINAL_STATUSES =>
             jobs'[j].status = jobs[j].status /\ jobs'[j].stage = jobs[j].stage]_jobs
  BY <1>1
<1> QED
  BY <1>2, RowInvariantHolds, PTL DEF QueueSpec, TerminalIsFinal

\* A refused row never again stands for a stage that advances the run.
THEOREM RefusalsStand == QueueSpec => RefusalStands
<1>1. ASSUME TypeOK, [QueueNext]_jobs, NEW j \in JobIds,
             jobs[j].stage \in Recorders
      PROVE  jobs'[j].stage \in Recorders
  <2>1. jobs[j] \in Job
    BY <1>1, RowsAreJobs DEF TypeOK
  <2>2. CASE QueueNext
    BY <1>1, <2>1, <2>2, RowsAfterStep, StageMovesToRecorder DEF Job
  <2> QED
    BY <1>1, <2>2
<1>2. TypeOK /\ [QueueNext]_jobs =>
        [\A j \in JobIds :
           jobs[j].stage \in Recorders => jobs'[j].stage \in Recorders]_jobs
  BY <1>1
<1> QED
  BY <1>2, QueueTypeOK, PTL DEF QueueSpec, RefusalStands

\* Once a row was taken over from a worker whose lease ran out, the row says
\* so for good: the only record that a stage may have run twice.
THEOREM ReclaimsAreRemembered == QueueSpec => ReclaimIsRemembered
<1>1. ASSUME RowInvariant, [QueueNext]_jobs, NEW j \in JobIds,
             jobs[j].reclaimed_from # Nobody
      PROVE  jobs'[j].reclaimed_from # Nobody
  <2>1. jobs[j] \in Job /\ RowHolder(jobs[j])
    BY <1>1, RowsAreJobs, RowsOfInvariants DEF RowInvariant, TypeOK
  <2>2. CASE QueueNext
    BY <1>1, <2>1, <2>2, RowsAfterStep, TraceIsKept DEF RowInvariant, Job
  <2> QED
    BY <1>1, <2>2
<1>2. RowInvariant /\ [QueueNext]_jobs =>
        [\A j \in JobIds :
           jobs[j].reclaimed_from # Nobody =>
             jobs'[j].reclaimed_from # Nobody]_jobs
  BY <1>1
<1> QED
  BY <1>2, RowInvariantHolds, PTL DEF QueueSpec, ReclaimIsRemembered
=============================================================================
