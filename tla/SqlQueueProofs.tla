--------------------------- MODULE SqlQueueProofs ---------------------------
(***************************************************************************)
(* Proofs about SqlQueue: what the durable backend guarantees whatever     *)
(* races, crashes and lost leases there are.  Endings are not among it     *)
(* (a late UPDATE revives an ended row), but identities and gates are: the *)
(* index is checked by the statement that writes, and every statement that *)
(* makes a gate's row ready also writes who decided.  Under the discipline *)
(* of Disciplined nothing races, and the backend is the atomic queue.      *)
(***************************************************************************)
EXTENDS SqlQueue, JobQueueProofs

\* A caller in the middle of something has a row of the table in mind.
CallsKnown == \A c \in Callers : call[c].op # "idle" => call[c].job \in JobIds

SqlInv == SqlTypeOK /\ CallsKnown /\ OneRowPerIdentity /\ NoGateRunsUndecided

-----------------------------------------------------------------------------
(* One row. *)

\* What a statement other than resume's and adopt's may make of a row.
Rewrites(old, new) ==
  \/ \E w \in Workers :
       old.status \in {"ready", "claimed"} /\ new = Leased(old, w)
  \/ \E st \in TERMINAL_STATUSES : new = Ended(old, st)
  \/ \E g \in GATES : new = PausedRow(old, g)
  \/ \E lease \in {"live", "expired"} : new = [old EXCEPT !.lease = lease]

LEMMA RewrittenRow ==
  ASSUME NEW old \in Job, NEW new, Rewrites(old, new)
  PROVE  /\ new \in Job
         /\ new.run = old.run /\ new.stage = old.stage
         /\ new.attempt = old.attempt
         /\ RowDecided(old) => RowDecided(new)
<1>1. ASSUME NEW w \in Workers, old.status \in {"ready", "claimed"},
             new = Leased(old, w)
      PROVE  /\ new \in Job /\ new.run = old.run /\ new.stage = old.stage
             /\ new.attempt = old.attempt
             /\ RowDecided(old) => RowDecided(new)
  BY <1>1 DEF Leased, Job, JobStatus, RowDecided
<1>2. ASSUME NEW st \in TERMINAL_STATUSES, new = Ended(old, st)
      PROVE  /\ new \in Job /\ new.run = old.run /\ new.stage = old.stage
             /\ new.attempt = old.attempt
             /\ RowDecided(old) => RowDecided(new)
  BY <1>2 DEF Ended, Job, JobStatus, RowDecided, TERMINAL_STATUSES
<1>3. ASSUME NEW g \in GATES, new = PausedRow(old, g)
      PROVE  /\ new \in Job /\ new.run = old.run /\ new.stage = old.stage
             /\ new.attempt = old.attempt
             /\ RowDecided(old) => RowDecided(new)
  BY <1>3 DEF PausedRow, Job, JobStatus, RowDecided
<1>4. ASSUME NEW lease \in {"live", "expired"},
             new = [old EXCEPT !.lease = lease]
      PROVE  /\ new \in Job /\ new.run = old.run /\ new.stage = old.stage
             /\ new.attempt = old.attempt
             /\ RowDecided(old) => RowDecided(new)
  BY <1>4 DEF Job, RowDecided
<1> QED
  BY <1>1, <1>2, <1>3, <1>4 DEF Rewrites

-----------------------------------------------------------------------------
(* The table. *)

TableInv ==
  /\ jobs \in Seq(Job) /\ Len(jobs) <= MaxJobs
  /\ OneRowPerIdentity
  /\ \A j \in JobIds : RowDecided(jobs[j])

\* Row j becomes new, whose identity no other row has.
LEMMA RowReplaced ==
  ASSUME TableInv, NEW j \in JobIds, NEW new \in Job, RowDecided(new),
         RowBecomes(j, new),
         \A i \in JobIds \ {j} :
           ~ /\ jobs[i].run = new.run
             /\ jobs[i].stage = new.stage
             /\ jobs[i].attempt = new.attempt
  PROVE  TableInv' /\ JobIds' = JobIds
<1>1. /\ jobs' \in Seq(Job) /\ Len(jobs') = Len(jobs) /\ JobIds' = JobIds
      /\ jobs'[j] = new /\ \A i \in JobIds \ {j} : jobs'[i] = jobs[i]
  BY ReplaceRow DEF TableInv
<1>2. OneRowPerIdentity'
  BY <1>1 DEF TableInv, OneRowPerIdentity
<1> QED
  BY <1>1, <1>2 DEF TableInv

LEMMA RowRewritten ==
  ASSUME TableInv, NEW j \in JobIds, NEW new, Rewrites(jobs[j], new),
         RowBecomes(j, new)
  PROVE  TableInv' /\ JobIds' = JobIds
<1>1. jobs[j] \in Job /\ RowDecided(jobs[j])
  BY RowsAreJobs DEF TableInv
<1>2. /\ new \in Job /\ RowDecided(new) /\ new.run = jobs[j].run
      /\ new.stage = jobs[j].stage /\ new.attempt = jobs[j].attempt
  BY <1>1, RewrittenRow
<1>3. \A i \in JobIds \ {j} :
        ~ /\ jobs[i].run = new.run
          /\ jobs[i].stage = new.stage
          /\ jobs[i].attempt = new.attempt
  BY <1>2 DEF TableInv, OneRowPerIdentity
<1> QED
  BY <1>2, <1>3, RowReplaced

LEMMA RowInserted ==
  ASSUME TableInv, NEW r \in RunIds, NEW s \in ChainStages, NEW a \in Attempts,
         Enqueue(r, s, a)
  PROVE  TableInv' /\ JobIds \subseteq JobIds'
<1> DEFINE row == NewJob(r, s, a)
<1>1. row \in Job /\ RowDecided(row) /\ row.run = r /\ row.stage = s
      /\ row.attempt = a
  BY NewJobIsAJob, NewRowIsSound DEF NewJob
<1>2. jobs' = Append(jobs, row) /\ Len(jobs) < MaxJobs /\ ~Held(r, s, a)
  BY DEF Enqueue
<1> HIDE DEF row
<1>3. /\ jobs' \in Seq(Job) /\ Len(jobs') = Len(jobs) + 1
      /\ JobIds' = JobIds \union {Len(jobs) + 1} /\ Len(jobs) + 1 \notin JobIds
      /\ jobs'[Len(jobs) + 1] = row /\ \A j \in JobIds : jobs'[j] = jobs[j]
  BY <1>1, <1>2, AppendRow DEF TableInv
<1>4. Len(jobs') <= MaxJobs
  BY <1>2, <1>3, MaxJobsAssumption, LenProperties DEF TableInv
<1>5. \A i \in JobIds :
        ~ /\ jobs'[i].run = row.run
          /\ jobs'[i].stage = row.stage
          /\ jobs'[i].attempt = row.attempt
  BY <1>1, <1>2, <1>3 DEF Held
<1>6. OneRowPerIdentity'
  <2> SUFFICES ASSUME NEW i \in JobIds', NEW k \in JobIds',
                      jobs'[i].run = jobs'[k].run,
                      jobs'[i].stage = jobs'[k].stage,
                      jobs'[i].attempt = jobs'[k].attempt
               PROVE  i = k
    BY Zenon DEF OneRowPerIdentity
  <2>1. CASE i \in JobIds /\ k \in JobIds
    <3>1. jobs'[i] = jobs[i] /\ jobs'[k] = jobs[k]
      BY <1>3, <2>1
    <3> QED
      BY <2>1, <3>1 DEF TableInv, OneRowPerIdentity
  <2>2. CASE i = Len(jobs) + 1
    BY <1>3, <1>5, <2>2
  <2>3. CASE k = Len(jobs) + 1
    BY <1>3, <1>5, <2>3
  <2> QED
    BY <1>3, <2>1, <2>2, <2>3
<1> QED
  BY <1>1, <1>3, <1>4, <1>6 DEF TableInv

-----------------------------------------------------------------------------
(* The callers. *)

CallInv ==
  /\ call \in [Callers -> Calls]
  /\ CallsKnown
  /\ cancelled \subseteq JobIds

LEMMA SqlInvIsBoth == SqlInv <=> TableInv /\ CallInv
BY DEF SqlInv, SqlTypeOK, TypeOK, TableInv, CallInv, NoGateRunsUndecided,
       RowDecided

LEMMA JobIdsAreBounded ==
  ASSUME TableInv
  PROVE  JobIds \subseteq 1..MaxJobs
BY LenProperties, RowsAreJobs, MaxJobsAssumption DEF TableInv

\* What a caller remembers depends on what it is doing.
LEMMA WhatACallHolds ==
  ASSUME NEW v \in Calls
  PROVE  /\ v.op = "complete" => v.status \in TERMINAL_STATUSES
         /\ v.op = "pause" => v.gate \in GATES
         /\ v.op = "resume" => v.stage \in Stages
BY DEF Calls, Idle

\* Caller c moves on to v; whatever row v is about is in the table.
LEMMA CallerMoves ==
  ASSUME CallInv, JobIds \subseteq JobIds', NEW c \in Callers, NEW v \in Calls,
         v.op # "idle" => v.job \in JobIds, call' = [call EXCEPT ![c] = v],
         cancelled' \subseteq JobIds'
  PROVE  CallInv'
<1>1. /\ call' \in [Callers -> Calls] /\ call'[c] = v
      /\ \A d \in Callers \ {c} : call'[d] = call[d]
  BY DEF CallInv
<1>2. CallsKnown'
  BY <1>1 DEF CallInv, CallsKnown
<1> QED
  BY <1>1, <1>2 DEF CallInv

LEMMA CallersStay ==
  ASSUME CallInv, JobIds \subseteq JobIds', UNCHANGED <<call, cancelled>>
  PROVE  CallInv'
BY DEF CallInv, CallsKnown

LEMMA IdleIsACall == Idle \in Calls /\ Idle.op = "idle"
BY DEF Calls, Idle

LEMMA HoldsIsACall ==
  ASSUME TableInv, NEW j \in JobIds
  PROVE  Holds(j) \in Calls /\ Holds(j).job = j /\ Holds(j).op = "holds"
BY JobIdsAreBounded DEF Calls, Holds

LEMMA BusyCallersKnowTheirRow ==
  ASSUME CallInv, NEW c \in Callers, NEW op, op # "idle", Doing(c, op)
  PROVE  call[c] \in Calls /\ call[c].job \in JobIds
BY DEF CallInv, CallsKnown, Doing

-----------------------------------------------------------------------------
(* The steps. *)

Keeps == TableInv' /\ CallInv'

\* A call that only reads: the table is left alone.
LEMMA ReadsKeep ==
  ASSUME TableInv, CallInv, NEW c \in Callers, NEW v \in Calls,
         v.op # "idle" => v.job \in JobIds, call' = [call EXCEPT ![c] = v],
         UNCHANGED <<jobs, cancelled>>
  PROVE  Keeps
<1>1. TableInv' /\ JobIds' = JobIds
  BY DEF TableInv, OneRowPerIdentity, JobIds
<1> QED
  BY <1>1, CallerMoves DEF Keeps, CallInv

\* A call whose write rewrites row j and forgets it.
LEMMA WritesKeep ==
  ASSUME TableInv, CallInv, NEW c \in Callers, NEW v \in Calls,
         NEW j \in JobIds, NEW new, Rewrites(jobs[j], new),
         RowBecomes(j, new), v.op # "idle" => v.job \in JobIds,
         call' = [call EXCEPT ![c] = v],
         cancelled' \subseteq cancelled \union {j}
  PROVE  Keeps
<1>1. TableInv' /\ JobIds' = JobIds
  BY RowRewritten
<1> QED
  BY <1>1, CallerMoves DEF Keeps, CallInv

LEMMA ClaimKeeps ==
  ASSUME TableInv, CallInv, NEW w \in Workers, NEW j \in JobIds,
         SqlClaim(w, j)
  PROVE  Keeps
<1>1. jobs[j].status \in {"ready", "claimed"}
  BY DEF SqlClaim, Claim, Oldest, Claimable
<1>2. RowBecomes(j, Leased(jobs[j], w)) /\ Rewrites(jobs[j], Leased(jobs[j], w))
  BY <1>1 DEF SqlClaim, Claim, RowBecomes, Rewrites
<1>3. call' = [call EXCEPT ![w] = Holds(j)] /\ cancelled' = cancelled
  BY DEF SqlClaim
<1> QED
  BY <1>2, <1>3, HoldsIsACall, WritesKeep DEF Callers

LEMMA AdoptKeeps ==
  ASSUME TableInv, CallInv, NEW w \in Workers, NEW r \in RunIds, SqlAdopt(w, r)
  PROVE  Keeps
<1> DEFINE j == call[w].job
           new == [jobs[j] EXCEPT !.run = r]
<1>1. j \in JobIds
  BY BusyCallersKnowTheirRow DEF SqlAdopt, Callers
<1>2. jobs[j] \in Job /\ RowDecided(jobs[j])
  BY <1>1, RowsAreJobs DEF TableInv
<1>3. /\ new \in Job /\ new.run = r /\ new.stage = jobs[j].stage
      /\ new.attempt = jobs[j].attempt /\ RowDecided(new)
  BY <1>2 DEF Job, RowDecided
<1>4. RowBecomes(j, new)
  BY DEF SqlAdopt, adopt_run_id, RowBecomes
<1>5. \A i \in JobIds \ {j} :
        ~ /\ jobs[i].run = new.run
          /\ jobs[i].stage = new.stage
          /\ jobs[i].attempt = new.attempt
  BY <1>3 DEF SqlAdopt, adopt_run_id
<1>6. TableInv' /\ JobIds' = JobIds
  <2> HIDE DEF new, j
  <2> QED
    BY <1>1, <1>3, <1>4, <1>5, RowReplaced
<1> QED
  BY <1>6, CallersStay DEF Keeps, SqlAdopt

LEMMA CompleteReadKeeps ==
  ASSUME TableInv, CallInv, NEW c \in Callers, NEW j \in JobIds,
         NEW st \in TERMINAL_STATUSES, CompleteRead(c, j, st)
  PROVE  Keeps
<1> DEFINE v == [op |-> "complete", job |-> j, status |-> st]
<1>1. v \in Calls /\ v.job = j
  BY JobIdsAreBounded DEF Calls
<1>2. call' = [call EXCEPT ![c] = v] /\ UNCHANGED <<jobs, cancelled>>
  BY DEF CompleteRead
<1> QED
  BY <1>1, <1>2, ReadsKeep

LEMMA CompleteWriteKeeps ==
  ASSUME TableInv, CallInv, NEW c \in Callers, CompleteWrite(c)
  PROVE  Keeps
<1> DEFINE j == call[c].job
<1>1. j \in JobIds /\ call[c].status \in TERMINAL_STATUSES
  BY BusyCallersKnowTheirRow, WhatACallHolds DEF CompleteWrite, Doing
<1>2. /\ RowBecomes(j, Ended(jobs[j], call[c].status))
      /\ Rewrites(jobs[j], Ended(jobs[j], call[c].status))
  BY <1>1 DEF CompleteWrite, RowBecomes, Rewrites
<1>3. call' = [call EXCEPT ![c] = Idle] /\ cancelled' \subseteq cancelled \union {j}
  BY DEF CompleteWrite
<1> QED
  BY <1>1, <1>2, <1>3, IdleIsACall, WritesKeep

LEMMA PauseReadKeeps ==
  ASSUME TableInv, CallInv, NEW w \in Callers, PauseRead(w)
  PROVE  Keeps
<1> DEFINE v == [op |-> "pause", job |-> call[w].job,
                 gate |-> jobs[call[w].job].stage]
<1>1. call[w].job \in JobIds /\ jobs[call[w].job].stage \in GATES
  BY BusyCallersKnowTheirRow DEF PauseRead
<1>2. v \in Calls /\ v.job \in JobIds
  BY <1>1, JobIdsAreBounded DEF Calls
<1>3. call' = [call EXCEPT ![w] = v] /\ UNCHANGED <<jobs, cancelled>>
  BY DEF PauseRead
<1> QED
  BY <1>2, <1>3, ReadsKeep

LEMMA PauseWriteKeeps ==
  ASSUME TableInv, CallInv, NEW w \in Callers, PauseWrite(w)
  PROVE  Keeps
<1> DEFINE j == call[w].job
<1>1. j \in JobIds /\ call[w].gate \in GATES
  BY BusyCallersKnowTheirRow, WhatACallHolds DEF PauseWrite, Doing
<1>2. /\ RowBecomes(j, PausedRow(jobs[j], call[w].gate))
      /\ Rewrites(jobs[j], PausedRow(jobs[j], call[w].gate))
  BY <1>1 DEF PauseWrite, RowBecomes, Rewrites
<1>3. call' = [call EXCEPT ![w] = Idle] /\ cancelled' = cancelled
  BY DEF PauseWrite
<1> QED
  BY <1>1, <1>2, <1>3, IdleIsACall, WritesKeep

LEMMA HeartbeatReadKeeps ==
  ASSUME TableInv, CallInv, NEW w \in Callers, HeartbeatRead(w)
  PROVE  Keeps
<1> DEFINE v == [op |-> "heartbeat", job |-> call[w].job]
<1>1. call[w].job \in JobIds
  BY BusyCallersKnowTheirRow DEF HeartbeatRead
<1>2. v \in Calls /\ v.job \in JobIds
  BY <1>1, JobIdsAreBounded DEF Calls
<1>3. call' = [call EXCEPT ![w] = v] /\ UNCHANGED <<jobs, cancelled>>
  BY DEF HeartbeatRead
<1> QED
  BY <1>2, <1>3, ReadsKeep

LEMMA HeartbeatWriteKeeps ==
  ASSUME TableInv, CallInv, NEW w \in Callers, HeartbeatWrite(w)
  PROVE  Keeps
<1> DEFINE j == call[w].job
<1>1. j \in JobIds
  BY BusyCallersKnowTheirRow DEF HeartbeatWrite
<1>2. /\ RowBecomes(j, [jobs[j] EXCEPT !.lease = "live"])
      /\ Rewrites(jobs[j], [jobs[j] EXCEPT !.lease = "live"])
  BY DEF HeartbeatWrite, RowBecomes, Rewrites
<1>3. call' = [call EXCEPT ![w] = Holds(j)] /\ cancelled' = cancelled
  BY DEF HeartbeatWrite
<1> QED
  BY <1>1, <1>2, <1>3, HoldsIsACall, WritesKeep

LEMMA ResumeReadKeeps ==
  ASSUME TableInv, CallInv, NEW o \in Operators, NEW r \in RunIds,
         NEW g \in GATES, NEW decision, NEW j \in JobIds,
         ResumeRead(o, r, g, decision, j)
  PROVE  Keeps
<1> DEFINE s == Released(jobs[j], g, decision, o).stage
           v == [op |-> "resume", job |-> j, gate |-> g, stage |-> s]
<1>1. jobs[j] \in Job /\ REJECTION_STAGES[g] \in Recorders
  BY RowsAreJobs, RecorderOfGate DEF TableInv
<1>2. s \in Stages
  BY <1>1 DEF Released, Job, Stages
<1>3. v \in Calls /\ v.job = j
  <2> HIDE DEF s
  <2> QED
    BY <1>2, JobIdsAreBounded DEF Calls
<1>4. call' = [call EXCEPT ![o] = v] /\ UNCHANGED <<jobs, cancelled>>
  BY DEF ResumeRead
<1> HIDE DEF v
<1> QED
  BY <1>3, <1>4, ReadsKeep DEF Callers

\* The one statement that makes a gate's row ready: it checks the index and
\* writes who decided, whatever the row has become since the SELECT.
LEMMA ResumeWriteKeeps ==
  ASSUME TableInv, CallInv, NEW o \in Operators, ResumeWrite(o)
  PROVE  Keeps
<1> DEFINE j == call[o].job
           new == [jobs[j] EXCEPT !.status = "ready", !.stage = call[o].stage,
                                  !.decided_by = o]
<1>1. o \in Callers /\ o # Nobody
  BY NobodyAssumption DEF Callers
<1>2. j \in JobIds /\ call[o].stage \in Stages
  BY <1>1, BusyCallersKnowTheirRow, WhatACallHolds DEF ResumeWrite, Doing
<1>3. jobs[j] \in Job
  BY <1>2, RowsAreJobs DEF TableInv
<1>4. new \in Job
  BY <1>2, <1>3 DEF Job, JobStatus
<1>5. /\ new.run = jobs[j].run /\ new.stage = call[o].stage
      /\ new.attempt = jobs[j].attempt /\ new.decided_by = o
  BY <1>3 DEF Job
<1>6. RowBecomes(j, new)
  BY <1>2, <1>3 DEF ResumeWrite, RowBecomes, Job, TableInv
<1>7. \A i \in JobIds \ {j} :
        ~ /\ jobs[i].run = new.run
          /\ jobs[i].stage = new.stage
          /\ jobs[i].attempt = new.attempt
  BY <1>5 DEF ResumeWrite
<1>8. call' = [call EXCEPT ![o] = Idle] /\ cancelled' = cancelled
  BY DEF ResumeWrite
<1> HIDE DEF j, new
<1>9. RowDecided(new)
  BY <1>1, <1>5 DEF RowDecided
<1>10. TableInv' /\ JobIds' = JobIds
  BY <1>2, <1>4, <1>6, <1>7, <1>9, RowReplaced
<1> QED
  BY <1>1, <1>8, <1>10, IdleIsACall, CallerMoves DEF Keeps, CallInv

LEMMA ForgetsKeep ==
  ASSUME TableInv, CallInv, NEW c \in Callers, CompleteRefused(c) \/ Crash(c)
  PROVE  Keeps
<1>1. call' = [call EXCEPT ![c] = Idle] /\ UNCHANGED <<jobs, cancelled>>
  BY DEF CompleteRefused, Crash
<1> QED
  BY <1>1, IdleIsACall, ReadsKeep

LEMMA EnqueueKeeps ==
  ASSUME TableInv, CallInv, NEW r \in RunIds, NEW s \in StagesInPlay,
         NEW a \in Attempts, SqlEnqueue(r, s, a)
  PROVE  Keeps
<1>1. TableInv' /\ JobIds \subseteq JobIds'
  BY StagesAssumption, RowInserted DEF SqlEnqueue
<1> QED
  BY <1>1, CallersStay DEF Keeps, SqlEnqueue

LEMMA LeaseExpiresKeeps ==
  ASSUME TableInv, CallInv, NEW j \in JobIds, SqlLeaseExpires(j)
  PROVE  Keeps
<1>1. /\ RowBecomes(j, [jobs[j] EXCEPT !.lease = "expired"])
      /\ Rewrites(jobs[j], [jobs[j] EXCEPT !.lease = "expired"])
  BY DEF SqlLeaseExpires, LeaseExpires, RowBecomes, Rewrites
<1>2. TableInv' /\ JobIds' = JobIds
  BY <1>1, RowRewritten
<1> QED
  BY <1>2, CallersStay DEF Keeps, SqlLeaseExpires

-----------------------------------------------------------------------------
LEMMA SqlInvIsKept == SqlInv /\ [SqlNext]_vars => SqlInv'
<1> SUFFICES ASSUME TableInv, CallInv, SqlNext PROVE Keeps
  <2>1. ASSUME TableInv, CallInv, UNCHANGED vars PROVE Keeps
    BY <2>1 DEF Keeps, vars, TableInv, OneRowPerIdentity, JobIds, CallInv,
                CallsKnown
  <2>2. SqlInv' <=> TableInv' /\ CallInv'
    BY DEF SqlInv, SqlTypeOK, TypeOK, TableInv, CallInv, NoGateRunsUndecided,
           RowDecided
  <2> QED
    BY <2>1, <2>2, SqlInvIsBoth DEF Keeps
<1>1. ASSUME NEW w \in Workers, WorkerStep(w) PROVE Keeps
  <2>1. w \in Callers
    BY DEF Callers
  <2> QED
    BY <1>1, <2>1, EndingsAssumption, ClaimKeeps, AdoptKeeps,
       CompleteReadKeeps, ForgetsKeep, CompleteWriteKeeps, PauseReadKeeps,
       PauseWriteKeeps, HeartbeatReadKeeps, HeartbeatWriteKeeps DEF WorkerStep
<1>2. ASSUME NEW o \in Operators, OperatorStep(o) PROVE Keeps
  BY <1>2, ResumeReadKeeps, ResumeWriteKeeps DEF OperatorStep
<1>3. ASSUME NEW c \in Cancellers, CancellerStep(c) PROVE Keeps
  <2>1. c \in Callers /\ "rejected" \in TERMINAL_STATUSES
    BY DEF Callers, TERMINAL_STATUSES
  <2> QED
    BY <1>3, <2>1, CompleteReadKeeps, CompleteWriteKeeps DEF CancellerStep
<1> QED
  BY <1>1, <1>2, <1>3, EnqueueKeeps, ForgetsKeep, LeaseExpiresKeeps DEF SqlNext

LEMMA SqlInvHolds == SqlSpec => []SqlInv
<1>1. SqlInit => SqlInv
  <2> SUFFICES ASSUME SqlInit PROVE TableInv /\ CallInv
    BY SqlInvIsBoth
  <2>1. TableInv
    BY MaxJobsAssumption, EmptySeq
       DEF SqlInit, QueueInit, TableInv, OneRowPerIdentity, JobIds
  <2>2. CallInv
    BY IdleIsACall DEF SqlInit, CallInv, CallsKnown
  <2> QED
    BY <2>1, <2>2
<1> QED
  BY <1>1, SqlInvIsKept, PTL DEF SqlSpec

\* Rows stay Jobs and callers keep to what the operations let them remember,
\* whatever crashes and late UPDATEs there are (queue/_sql.py).
THEOREM SqlTyped == SqlSpec => []SqlTypeOK
BY SqlInvHolds, PTL DEF SqlInv

\* No two rows share run, stage and attempt, recorders included, however many
\* humans, workers and API servers race (the UNIQUE index of queue/_sql.py).
THEOREM IdentitiesAreUnique == SqlSpec => []OneRowPerIdentity
BY SqlInvHolds, PTL DEF SqlInv

\* The gates hold on the durable backend although it is not atomic: no race
\* of UPDATEs makes a gate's stage claimable without a human's name on it.
THEOREM SqlGatesHold == SqlSpec => []NoGateRunsUndecided
BY SqlInvHolds, PTL DEF SqlInv

-----------------------------------------------------------------------------
(* The atomic queue behind the two statements. *)

\* One human decides, nobody cancels, no lease is lost by a living worker, and
\* no stage is put on the queue as a further attempt: no caller of enqueue
\* passes one.
Disciplined ==
  /\ \A p, q \in Operators : p = q
  /\ Cancellers = {}
  /\ ~LivingLapse
  /\ \A a, b \in Attempts : a = b

\* What the SELECT of caller c found is still so: job is the row it read.
CallFits(c, v, job) ==
  v.op # "idle" =>
    \/ /\ c \in Workers
       /\ job.status = "claimed" /\ job.claimed_by = c /\ job.lease = "live"
       /\ v.op = "complete" => v.status \in EndingsInPlay
       /\ v.op = "pause" => v.gate \in GATES /\ v.gate = job.stage
    \/ /\ c \in Operators
       /\ v.op = "resume" /\ v.gate \in GATES
       /\ job.status = "paused" /\ job.stage = v.gate
       /\ v.stage \in {v.gate, REJECTION_STAGES[v.gate]}

\* A row waits at the gate it stands for.
WaitsAtItself(job) ==
  job.status = "paused" => job.stage \in GATES /\ job.awaiting_gate = job.stage

AtomicInv ==
  /\ \A c \in Callers : CallFits(c, call[c], jobs[call[c].job])
  /\ \A j \in JobIds : WaitsAtItself(jobs[j])

AllSound == TableInv /\ CallInv /\ AtomicInv

\* Row j becomes new and caller c moves on to v.
LEMMA RowStepKeeps ==
  ASSUME AllSound, NEW c \in Callers, NEW j \in JobIds, NEW new \in Job, NEW v,
         RowBecomes(j, new), call' = [call EXCEPT ![c] = v],
         WaitsAtItself(new),
         v.op # "idle" => v.job = j /\ CallFits(c, v, new),
         \A d \in Callers \ {c} :
           call[d].op # "idle" /\ call[d].job = j => CallFits(d, call[d], new)
  PROVE  AtomicInv'
<1>1. /\ JobIds' = JobIds
      /\ jobs'[j] = new /\ \A i \in JobIds \ {j} : jobs'[i] = jobs[i]
  BY ReplaceRow DEF AllSound, TableInv
<1>2. /\ call'[c] = v
      /\ \A d \in Callers \ {c} : call'[d] = call[d]
  BY DEF AllSound, CallInv
<1>3. \A i \in JobIds' : WaitsAtItself(jobs'[i])
  BY <1>1 DEF AllSound, AtomicInv
<1>4. ASSUME NEW d \in Callers PROVE CallFits(d, call'[d], jobs'[call'[d].job])
  <2>1. CASE d = c /\ v.op # "idle"
    BY <1>1, <1>2, <2>1
  <2>2. CASE d = c /\ v.op = "idle"
    BY <1>2, <2>2 DEF CallFits
  <2>3. CASE d # c /\ call[d].op = "idle"
    BY <1>2, <2>3 DEF CallFits
  <2>4. CASE d # c /\ call[d].op # "idle"
    <3>1. call'[d] = call[d] /\ call[d].job \in JobIds
      BY <1>2, <2>4 DEF AllSound, CallInv, CallsKnown
    <3>2. CASE call[d].job = j
      BY <1>1, <2>4, <3>1, <3>2
    <3>3. CASE call[d].job # j
      BY <1>1, <3>1, <3>3 DEF AllSound, AtomicInv
    <3> QED
      BY <3>2, <3>3
  <2> QED
    BY <2>1, <2>2, <2>3, <2>4
<1> QED
  BY <1>3, <1>4 DEF AtomicInv

\* Caller c reads, gives up or dies: the table is left alone.
LEMMA ReadStepKeeps ==
  ASSUME AllSound, NEW c \in Callers, NEW v, UNCHANGED jobs,
         call' = [call EXCEPT ![c] = v],
         v.op # "idle" => CallFits(c, v, jobs[v.job])
  PROVE  AtomicInv'
<1>1. /\ call'[c] = v
      /\ \A d \in Callers \ {c} : call'[d] = call[d]
  BY DEF AllSound, CallInv
<1>2. JobIds' = JobIds
  BY DEF JobIds
<1>3. ASSUME NEW d \in Callers PROVE CallFits(d, call'[d], jobs'[call'[d].job])
  <2>1. CASE d = c
    BY <1>1, <2>1 DEF CallFits
  <2>2. CASE d # c
    BY <1>1, <2>2 DEF AllSound, AtomicInv
  <2> QED
    BY <2>1, <2>2
<1> QED
  BY <1>2, <1>3 DEF AllSound, AtomicInv

\* Two callers are never busy with the same row.
LEMMA RowsAreNotShared ==
  ASSUME Disciplined, AllSound, NEW c \in Callers, NEW d \in Callers \ {c},
         call[c].op # "idle", call[d].op # "idle"
  PROVE  call[c].job # call[d].job
<1>1. /\ CallFits(c, call[c], jobs[call[c].job])
      /\ CallFits(d, call[d], jobs[call[d].job])
  BY DEF AllSound, AtomicInv
<1> QED
  BY <1>1 DEF CallFits, Disciplined

\* What a worker in the middle of something relies on.
LEMMA WorkersHold ==
  ASSUME AllSound, NEW w \in Workers, call[w].op # "idle"
  PROVE  /\ w \in Callers /\ call[w].job \in JobIds
         /\ jobs[call[w].job] \in Job
         /\ jobs[call[w].job].status = "claimed"
         /\ jobs[call[w].job].claimed_by = w
         /\ jobs[call[w].job].lease = "live"
         /\ call[w].op = "complete" => call[w].status \in EndingsInPlay
         /\ call[w].op = "pause" => /\ call[w].gate \in GATES
                                    /\ call[w].gate = jobs[call[w].job].stage
<1>1. w \in Callers /\ w \notin Operators
  BY CallersAreDistinct DEF Callers
<1>2. CallFits(w, call[w], jobs[call[w].job]) /\ call[w].job \in JobIds
  BY <1>1 DEF AllSound, AtomicInv, CallInv, CallsKnown
<1>3. jobs[call[w].job] \in Job
  BY <1>2, RowsAreJobs DEF AllSound, TableInv
<1> QED
  BY <1>1, <1>2, <1>3 DEF CallFits

-----------------------------------------------------------------------------
(* Each step keeps the invariant and is a step of the queue, or none. *)

Atomic == AtomicInv' /\ [QueueNext]_jobs

LEMMA ClaimIsAtomic ==
  ASSUME Disciplined, AllSound, NEW w \in Workers, NEW j \in JobIds, SqlClaim(w, j)
  PROVE  Atomic
<1> DEFINE new == Leased(jobs[j], w)
<1>1. w \in Callers /\ jobs[j] \in Job
  BY RowsAreJobs DEF Callers, AllSound, TableInv
<1>2. new \in Job /\ new.status = "claimed" /\ new.claimed_by = w /\ new.lease = "live"
  BY <1>1 DEF Leased, Job, JobStatus
<1>3. /\ RowBecomes(j, new) /\ call' = [call EXCEPT ![w] = Holds(j)]
      /\ \/ jobs[j].status = "ready"
         \/ jobs[j].status = "claimed" /\ jobs[j].lease = "expired"
  BY DEF SqlClaim, Claim, RowBecomes, Oldest, Claimable
<1>4. Holds(j).op = "holds" /\ Holds(j).job = j
  BY DEF Holds
<1>5. CallFits(w, Holds(j), new)
  BY <1>2, <1>4 DEF CallFits
<1>6. ASSUME NEW d \in Callers \ {w}, call[d].op # "idle" PROVE call[d].job # j
  BY <1>3, <1>6 DEF AllSound, AtomicInv, CallFits
<1>7. QueueNext
  BY DEF SqlClaim, QueueNext
<1>8. WaitsAtItself(new)
  BY <1>2 DEF WaitsAtItself
<1> HIDE DEF new
<1> QED
  BY <1>1, <1>2, <1>3, <1>4, <1>5, <1>6, <1>7, <1>8, RowStepKeeps DEF Atomic

LEMMA AdoptIsAtomic ==
  ASSUME Disciplined, AllSound, NEW w \in Workers, NEW r \in RunIds, SqlAdopt(w, r)
  PROVE  Atomic
<1> DEFINE j == call[w].job
           new == [jobs[j] EXCEPT !.run = r]
<1>1. call[w].op = "holds"
  BY DEF SqlAdopt, Doing
<1>2. /\ w \in Callers /\ j \in JobIds /\ jobs[j] \in Job
      /\ jobs[j].status = "claimed" /\ jobs[j].claimed_by = w
      /\ jobs[j].lease = "live"
  BY <1>1, WorkersHold
<1>3. new \in Job /\ new.status = "claimed" /\ new.claimed_by = w /\ new.lease = "live"
  BY <1>2 DEF Job
<1>4. RowBecomes(j, new) /\ UNCHANGED call
  BY DEF SqlAdopt, adopt_run_id, RowBecomes
<1>5. call' = [call EXCEPT ![w] = call[w]]
  BY <1>2, <1>4 DEF AllSound, CallInv
<1>6. CallFits(w, call[w], new) /\ WaitsAtItself(new)
  BY <1>1, <1>3 DEF CallFits, WaitsAtItself
<1>7. \A d \in Callers \ {w} : call[d].op # "idle" => call[d].job # j
  BY <1>1, <1>2, RowsAreNotShared
<1>8. QueueNext
  BY <1>2 DEF SqlAdopt, QueueNext
<1> HIDE DEF new
<1> QED
  BY <1>2, <1>3, <1>4, <1>5, <1>6, <1>7, <1>8, RowStepKeeps DEF Atomic

\* A worker's UPDATE: its row is as its SELECT found it, and it lets go of it
\* or holds on to it.
LEMMA WorkerWriteKeeps ==
  ASSUME Disciplined, AllSound, NEW w \in Workers, call[w].op # "idle",
         NEW new \in Job, NEW v, RowBecomes(call[w].job, new),
         call' = [call EXCEPT ![w] = v], WaitsAtItself(new),
         v.op # "idle" => v.job = call[w].job /\ CallFits(w, v, new)
  PROVE  AtomicInv'
<1>1. w \in Callers /\ call[w].job \in JobIds
  BY WorkersHold
<1>2. \A d \in Callers \ {w} : call[d].op # "idle" => call[d].job # call[w].job
  BY <1>1, RowsAreNotShared
<1> QED
  BY <1>1, <1>2, RowStepKeeps

LEMMA CompleteWriteIsAtomic ==
  ASSUME Disciplined, AllSound, NEW w \in Workers, CompleteWrite(w)
  PROVE  Atomic
<1> DEFINE j == call[w].job
           st == call[w].status
           new == Ended(jobs[j], st)
<1>1. call[w].op = "complete"
  BY DEF CompleteWrite, Doing
<1>2. /\ j \in JobIds /\ jobs[j] \in Job /\ jobs[j].status = "claimed"
      /\ st \in EndingsInPlay
  BY <1>1, WorkersHold
<1>3. new \in Job /\ new.status = st
  BY <1>2, EndingsAssumption DEF Ended, Job, JobStatus
<1>4. WaitsAtItself(new)
  BY <1>2, <1>3, EndingsAssumption DEF WaitsAtItself, TERMINAL_STATUSES
<1>5. RowBecomes(j, new) /\ call' = [call EXCEPT ![w] = Idle]
  BY DEF CompleteWrite, RowBecomes
<1>6. AtomicInv'
  <2> HIDE DEF new
  <2> QED
    BY <1>1, <1>3, <1>4, <1>5, IdleIsACall, WorkerWriteKeeps
<1>7. Complete(j, st)
  BY <1>2 DEF CompleteWrite, Complete, TERMINAL_STATUSES
<1>8. QueueNext
  BY <1>2, <1>7 DEF QueueNext
<1> QED
  BY <1>6, <1>8 DEF Atomic

LEMMA PauseWriteIsAtomic ==
  ASSUME Disciplined, AllSound, NEW w \in Workers, PauseWrite(w)
  PROVE  Atomic
<1> DEFINE j == call[w].job
           g == call[w].gate
           new == PausedRow(jobs[j], g)
<1>1. call[w].op = "pause"
  BY DEF PauseWrite, Doing
<1>2. /\ j \in JobIds /\ jobs[j] \in Job /\ jobs[j].status = "claimed"
      /\ g \in GATES /\ g = jobs[j].stage
  BY <1>1, WorkersHold
<1>3. new \in Job /\ new.awaiting_gate = g /\ new.stage = g
  BY <1>2 DEF PausedRow, Job, JobStatus
<1>4. WaitsAtItself(new)
  BY <1>2, <1>3 DEF WaitsAtItself
<1>5. RowBecomes(j, new) /\ call' = [call EXCEPT ![w] = Idle]
  BY DEF PauseWrite, RowBecomes
<1>6. AtomicInv'
  <2> HIDE DEF new
  <2> QED
    BY <1>1, <1>3, <1>4, <1>5, IdleIsACall, WorkerWriteKeeps
<1>7. Pause(j, g)
  BY <1>2 DEF PauseWrite, Pause, TERMINAL_STATUSES
<1>8. QueueNext
  BY <1>2, <1>7 DEF QueueNext
<1> QED
  BY <1>6, <1>8 DEF Atomic

LEMMA HeartbeatWriteIsAtomic ==
  ASSUME Disciplined, AllSound, NEW w \in Workers, HeartbeatWrite(w)
  PROVE  Atomic
<1> DEFINE j == call[w].job
           new == [jobs[j] EXCEPT !.lease = "live"]
<1>1. call[w].op = "heartbeat"
  BY DEF HeartbeatWrite, Doing
<1>2. /\ j \in JobIds /\ jobs[j] \in Job /\ jobs[j].status = "claimed"
      /\ jobs[j].claimed_by = w
  BY <1>1, WorkersHold
<1>3. new \in Job /\ new.status = "claimed" /\ new.claimed_by = w /\ new.lease = "live"
  BY <1>2 DEF Job
<1>4. WaitsAtItself(new)
  BY <1>3 DEF WaitsAtItself
<1>5. RowBecomes(j, new) /\ call' = [call EXCEPT ![w] = Holds(j)]
  BY DEF HeartbeatWrite, RowBecomes
<1>6. Holds(j).job = j /\ CallFits(w, Holds(j), new)
  BY <1>3 DEF Holds, CallFits
<1>7. AtomicInv'
  <2> HIDE DEF new
  <2> QED
    BY <1>1, <1>3, <1>4, <1>5, <1>6, WorkerWriteKeeps
<1>8. Heartbeat(j)
  BY <1>2 DEF HeartbeatWrite, Heartbeat
<1>9. QueueNext
  BY <1>2, <1>8 DEF QueueNext
<1> QED
  BY <1>7, <1>9 DEF Atomic

LEMMA CompleteReadIsAtomic ==
  ASSUME AllSound, NEW w \in Workers, NEW j \in JobIds, NEW st \in EndingsInPlay,
         CompleteRead(w, j, st), w \notin Cancellers
  PROVE  Atomic
<1> DEFINE v == [op |-> "complete", job |-> j, status |-> st]
<1>1. call[w] = Holds(j) /\ call' = [call EXCEPT ![w] = v] /\ UNCHANGED jobs
  BY DEF CompleteRead
<1>2. call[w].op # "idle" /\ call[w].job = j
  BY <1>1 DEF Holds
<1>3. CallFits(w, v, jobs[j])
  BY <1>2, WorkersHold DEF CallFits
<1>4. v.job = j /\ w \in Callers
  BY DEF Callers
<1> HIDE DEF v
<1> QED
  BY <1>1, <1>3, <1>4, ReadStepKeeps DEF Atomic

LEMMA PauseReadIsAtomic ==
  ASSUME AllSound, NEW w \in Workers, PauseRead(w)
  PROVE  Atomic
<1> DEFINE v == [op |-> "pause", job |-> call[w].job,
                 gate |-> jobs[call[w].job].stage]
<1>1. /\ call[w].op # "idle" /\ jobs[call[w].job].stage \in GATES
      /\ call' = [call EXCEPT ![w] = v] /\ UNCHANGED jobs
  BY DEF PauseRead, Doing
<1>2. CallFits(w, v, jobs[call[w].job])
  BY <1>1, WorkersHold DEF CallFits
<1>3. v.job = call[w].job /\ w \in Callers
  BY DEF Callers
<1> HIDE DEF v
<1> QED
  BY <1>1, <1>2, <1>3, ReadStepKeeps DEF Atomic

LEMMA HeartbeatReadIsAtomic ==
  ASSUME AllSound, NEW w \in Workers, HeartbeatRead(w)
  PROVE  Atomic
<1> DEFINE v == [op |-> "heartbeat", job |-> call[w].job]
<1>1. /\ call[w].op # "idle" /\ call' = [call EXCEPT ![w] = v] /\ UNCHANGED jobs
  BY DEF HeartbeatRead, Doing
<1>2. CallFits(w, v, jobs[call[w].job])
  BY <1>1, WorkersHold DEF CallFits
<1>3. v.job = call[w].job /\ w \in Callers
  BY DEF Callers
<1> HIDE DEF v
<1> QED
  BY <1>1, <1>2, <1>3, ReadStepKeeps DEF Atomic

LEMMA ForgettingIsAtomic ==
  ASSUME AllSound, NEW c \in Callers, CompleteRefused(c) \/ Crash(c)
  PROVE  Atomic
<1>1. call' = [call EXCEPT ![c] = Idle] /\ UNCHANGED jobs
  BY DEF CompleteRefused, Crash
<1> QED
  BY <1>1, IdleIsACall, ReadStepKeeps DEF Atomic

\* A row that waits does so at the gate of its own stage, so what the SELECT of
\* resume works out is that gate, or its recorder.
LEMMA ResumeReadIsAtomic ==
  ASSUME AllSound, NEW o \in Operators, NEW r \in RunIds, NEW g \in GATES,
         NEW decision, NEW j \in JobIds, ResumeRead(o, r, g, decision, j)
  PROVE  Atomic
<1> DEFINE s == Released(jobs[j], g, decision, o).stage
           v == [op |-> "resume", job |-> j, gate |-> g, stage |-> s]
<1>1. o \in Callers /\ jobs[j] \in Job
  BY RowsAreJobs DEF Callers, AllSound, TableInv
<1>2. jobs[j].status = "paused" /\ jobs[j].awaiting_gate = g
  BY DEF ResumeRead, Oldest, PausedAt
<1>3. jobs[j].stage = g
  BY <1>2 DEF AllSound, AtomicInv, WaitsAtItself
<1>4. s \in {g, REJECTION_STAGES[g]}
  BY <1>1, <1>3 DEF Released, Job
<1>5. call' = [call EXCEPT ![o] = v] /\ UNCHANGED jobs
  BY DEF ResumeRead
<1> HIDE DEF s
<1>6. CallFits(o, v, jobs[j]) /\ v.job = j
  BY <1>2, <1>3, <1>4 DEF CallFits
<1> HIDE DEF v
<1> QED
  BY <1>1, <1>5, <1>6, ReadStepKeeps DEF Atomic

\* The row is still the only one waiting there: one row stands for a stage of a
\* run, and nobody else decides.
LEMMA ResumeWriteIsAtomic ==
  ASSUME Disciplined, AllSound, NEW o \in Operators, ResumeWrite(o)
  PROVE  Atomic
<1> DEFINE j == call[o].job
           g == call[o].gate
           s == call[o].stage
           new == [jobs[j] EXCEPT !.status = "ready", !.stage = s,
                                  !.decided_by = o]
<1>1. /\ o \in Callers /\ o \notin Workers /\ call[o].op # "idle"
  BY CallersAreDistinct DEF Callers, ResumeWrite, Doing
<1>2. j \in JobIds /\ CallFits(o, call[o], jobs[j])
  BY <1>1 DEF AllSound, AtomicInv, CallInv, CallsKnown
<1>3. /\ g \in GATES /\ jobs[j].status = "paused" /\ jobs[j].stage = g
      /\ s \in {g, REJECTION_STAGES[g]}
  BY <1>1, <1>2 DEF CallFits
<1>4. jobs \in Seq(Job) /\ jobs[j] \in Job /\ j \in Nat
  BY <1>2, RowsAreJobs DEF AllSound, TableInv
<1>5. jobs[j].awaiting_gate = g
  BY <1>2, <1>3 DEF AllSound, AtomicInv, WaitsAtItself
<1>6. s \in Stages
  BY <1>3, <1>4, RecorderOfGate DEF Job, Stages
<1>7. new \in Job /\ new.status = "ready"
  BY <1>4, <1>6 DEF Job, JobStatus
<1>8. RowBecomes(j, new) /\ call' = [call EXCEPT ![o] = Idle]
  BY <1>2, <1>4 DEF ResumeWrite, RowBecomes, Job
<1>9. AtomicInv'
  <2>1. WaitsAtItself(new)
    BY <1>7 DEF WaitsAtItself
  <2>2. \A d \in Callers \ {o} : call[d].op # "idle" => call[d].job # j
    BY <1>1, RowsAreNotShared
  <2> HIDE DEF new
  <2> QED
    BY <1>1, <1>2, <1>7, <1>8, <2>1, <2>2, IdleIsACall, RowStepKeeps
<1>10. ASSUME NEW i \in PausedAt(jobs[j].run, g) PROVE i = j
  <2>1. /\ i \in JobIds /\ jobs[i].run = jobs[j].run /\ jobs[i].status = "paused"
        /\ jobs[i].awaiting_gate = g
    BY DEF PausedAt
  <2>2. jobs[i].stage = g
    BY <2>1 DEF AllSound, AtomicInv, WaitsAtItself
  <2>3. jobs[i] \in Job
    BY <2>1, <1>4, RowsAreJobs
  <2>4. jobs[i].attempt = jobs[j].attempt
    BY <2>3, <1>4 DEF Disciplined, Job
  <2> QED
    BY <1>2, <1>3, <2>1, <2>2, <2>4 DEF AllSound, TableInv, OneRowPerIdentity
<1>11. j \in Oldest(PausedAt(jobs[j].run, g))
  <2>1. j \in PausedAt(jobs[j].run, g)
    BY <1>2, <1>3, <1>5 DEF PausedAt
  <2> HIDE DEF j, g
  <2> QED
    BY <1>4, <1>10, <2>1 DEF Oldest
<1>12. PICK decision \in APPROVING_DECISIONS \union REFUSING_DECISIONS :
         new = Released(jobs[j], g, decision, o)
  <2>1. CASE s = g
    <3>1. new = Released(jobs[j], g, "approved", o)
      BY <1>3, <1>4, <2>1 DEF Released, Job, APPROVING_DECISIONS
    <3> QED
      BY <3>1 DEF APPROVING_DECISIONS
  <2>2. CASE s = REJECTION_STAGES[g]
    <3>1. new = Released(jobs[j], g, "rejected", o)
      BY <1>3, <1>4, <2>2 DEF Released, Job, APPROVING_DECISIONS
    <3> QED
      BY <3>1 DEF REFUSING_DECISIONS
  <2> QED
    BY <1>3, <2>1, <2>2
<1>13. Resume(jobs[j].run, g, decision, o, j)
  BY <1>8, <1>11, <1>12 DEF Resume, RowBecomes
<1>14. jobs[j].run \in RunIds
  BY <1>4 DEF Job
<1>15. QueueNext
  <2> HIDE DEF j, g, new
  <2> QED
    BY <1>2, <1>3, <1>12, <1>13, <1>14 DEF QueueNext
<1> QED
  BY <1>9, <1>15 DEF Atomic

LEMMA EnqueueIsAtomic ==
  ASSUME AllSound, NEW r \in RunIds, NEW s \in StagesInPlay, NEW a \in Attempts,
         SqlEnqueue(r, s, a)
  PROVE  Atomic
<1> DEFINE row == NewJob(r, s, a)
<1>1. row \in Job /\ WaitsAtItself(row)
  BY StagesAssumption, NewJobIsAJob DEF NewJob, WaitsAtItself
<1>2. jobs' = Append(jobs, row) /\ UNCHANGED call
  BY DEF SqlEnqueue, Enqueue
<1> HIDE DEF row
<1>3. /\ JobIds' = JobIds \union {Len(jobs) + 1}
      /\ jobs'[Len(jobs) + 1] = row /\ \A j \in JobIds : jobs'[j] = jobs[j]
  BY <1>1, <1>2, AppendRow DEF AllSound, TableInv
<1>4. ASSUME NEW d \in Callers PROVE CallFits(d, call'[d], jobs'[call'[d].job])
  <2>1. CASE call[d].op = "idle"
    BY <1>2, <2>1 DEF CallFits
  <2>2. CASE call[d].op # "idle"
    <3>1. call[d].job \in JobIds
      BY <2>2 DEF AllSound, CallInv, CallsKnown
    <3> QED
      BY <1>2, <1>3, <3>1 DEF AllSound, AtomicInv
  <2> QED
    BY <2>1, <2>2
<1>5. AtomicInv'
  BY <1>1, <1>3, <1>4 DEF AllSound, AtomicInv
<1>6. QueueNext
  BY DEF SqlEnqueue, QueueNext
<1> QED
  BY <1>5, <1>6 DEF Atomic

\* Only the lease of a row nobody is busy with passes.
LEMMA LeaseExpiresIsAtomic ==
  ASSUME Disciplined, AllSound, NEW j \in JobIds, SqlLeaseExpires(j)
  PROVE  Atomic
<1> DEFINE new == [jobs[j] EXCEPT !.lease = "expired"]
<1>1. jobs[j] \in Job
  BY RowsAreJobs DEF AllSound, TableInv
<1>2. /\ new \in Job /\ new.status = jobs[j].status /\ new.stage = jobs[j].stage
      /\ new.awaiting_gate = jobs[j].awaiting_gate
  BY <1>1 DEF Job
<1>3. RowBecomes(j, new) /\ UNCHANGED call /\ BusyWith(j) = {}
  BY DEF SqlLeaseExpires, LeaseExpires, RowBecomes, Disciplined
<1> HIDE DEF new
<1>4. /\ JobIds' = JobIds
      /\ jobs'[j] = new /\ \A i \in JobIds \ {j} : jobs'[i] = jobs[i]
  BY <1>2, <1>3, ReplaceRow DEF AllSound, TableInv
<1>5. \A i \in JobIds' : WaitsAtItself(jobs'[i])
  BY <1>2, <1>4 DEF AllSound, AtomicInv, WaitsAtItself
<1>6. ASSUME NEW d \in Callers PROVE CallFits(d, call'[d], jobs'[call'[d].job])
  <2>1. CASE call[d].op = "idle"
    BY <1>3, <2>1 DEF CallFits
  <2>2. CASE call[d].op # "idle" /\ call[d].job # j
    <3>1. call[d].job \in JobIds
      BY <2>2 DEF AllSound, CallInv, CallsKnown
    <3> QED
      BY <1>3, <1>4, <2>2, <3>1 DEF AllSound, AtomicInv
  <2>3. CASE call[d].op # "idle" /\ call[d].job = j
    <3>1. d \notin Workers
      BY <1>3, <2>3 DEF BusyWith, Doing
    <3>2. CallFits(d, call[d], jobs[j])
      BY <2>3 DEF AllSound, AtomicInv
    <3>3. CallFits(d, call[d], new)
      BY <1>2, <2>3, <3>1, <3>2 DEF CallFits
    <3> QED
      BY <1>3, <1>4, <2>3, <3>3
  <2> QED
    BY <2>1, <2>2, <2>3
<1>7. AtomicInv'
  BY <1>5, <1>6 DEF AtomicInv
<1>8. QueueNext
  BY DEF SqlLeaseExpires, QueueNext
<1> QED
  BY <1>7, <1>8 DEF Atomic

LEMMA EveryStepIsAtomic ==
  ASSUME Disciplined, AllSound, [SqlNext]_vars
  PROVE  Atomic
<1>1. CASE UNCHANGED vars
  BY <1>1 DEF vars, Atomic, AllSound, AtomicInv, CallFits, WaitsAtItself, JobIds
<1>2. ASSUME NEW w \in Workers, WorkerStep(w) PROVE Atomic
  <2>1. w \in Callers /\ w \notin Cancellers
    BY DEF Callers, Disciplined
  <2> QED
    BY <1>2, <2>1, ClaimIsAtomic, AdoptIsAtomic, CompleteReadIsAtomic,
       ForgettingIsAtomic, CompleteWriteIsAtomic, PauseReadIsAtomic,
       PauseWriteIsAtomic, HeartbeatReadIsAtomic, HeartbeatWriteIsAtomic
       DEF WorkerStep
<1>3. ASSUME NEW o \in Operators, OperatorStep(o) PROVE Atomic
  BY <1>3, ResumeReadIsAtomic, ResumeWriteIsAtomic DEF OperatorStep
<1>4. ~ \E c \in Cancellers : CancellerStep(c)
  BY DEF Disciplined
<1> QED
  BY <1>1, <1>2, <1>3, <1>4, EnqueueIsAtomic, ForgettingIsAtomic,
     LeaseExpiresIsAtomic DEF SqlNext

\* Where one human decides, nobody cancels and no living worker loses its lease,
\* the two statements of complete, pause, heartbeat and resume are as good as
\* one, however many workers there are and wherever they die: the durable
\* backend implements the queue, whose theorems hold of it then.
THEOREM SqlImplementsTheQueue ==
  ASSUME Disciplined
  PROVE  SqlSpec => ActsAtomically
<1>1. SqlInit => AtomicInv
  BY IdleIsACall DEF SqlInit, QueueInit, AtomicInv, CallFits, JobIds
<1>2. SqlInv /\ AtomicInv /\ [SqlNext]_vars => AtomicInv' /\ [QueueNext]_jobs
  BY SqlInvIsBoth, EveryStepIsAtomic DEF AllSound, Atomic
<1>3. SqlInit => QueueInit
  BY DEF SqlInit
<1> QED
  BY <1>1, <1>2, <1>3, SqlInvHolds, PTL DEF SqlSpec, ActsAtomically, QueueSpec

\* So what sql_resume_race shows of two operators needs them: without such a
\* race no statement on the durable backend moves a row that has ended
\* (queue/__init__.py:98).
THEOREM SqlEndingsAreFinal ==
  ASSUME Disciplined
  PROVE  SqlSpec => TerminalIsFinal
BY SqlImplementsTheQueue, EndingsAreFinal DEF ActsAtomically
=============================================================================
