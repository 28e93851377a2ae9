------------------------------ MODULE JobQueue ------------------------------
(***************************************************************************)
(* The work queue of agentorg/queue: the rows workers claim, complete and  *)
(* human operators release.  Every operation here is one atomic step, as   *)
(* in the in-memory backend (queue/_memory.py), which holds one RLock      *)
(* around each of them; the operations' argument checks are those of       *)
(* queue/__init__.py.  SqlQueue is the durable backend, where some of      *)
(* these steps are a read and a later write.                               *)
(*                                                                         *)
(* `jobs` is the table in insertion order, which is the order of           *)
(* enqueued_at, so a position in it stands for a job_id.  The clock is     *)
(* abstracted to whether a row's lease_expires_at has passed.              *)
(***************************************************************************)
EXTENDS Naturals, Sequences, FiniteSets

CONSTANTS
  RunIds,          \* run ids a row may carry, the pending-<ticket> ones included
  Attempts,        \* values of Job.attempt
  Workers,         \* identities handed to claim
  Operators,       \* humans who approve or refuse at a gate
  Nobody,          \* the empty string of claimed_by, decided_by, reclaimed_from
  StagesInPlay,    \* the stages callers enqueue
  EndingsInPlay,   \* the endings callers record
  MaxJobs          \* bound on the rows ever enqueued

VARIABLE jobs

-----------------------------------------------------------------------------
STAGE_CHAIN ==
  <<"plan", "gate1", "develop", "gate2", "sre", "gate3", "promote">>

ChainStages == {STAGE_CHAIN[i] : i \in 1..7}

GATES == {"gate1", "gate2", "gate3"}

\* Deliberate bug: the recorder's name is the decision's.
NamedAfterDecision == [g \in GATES |-> "rejected"]

REJECTION_STAGES ==
  [g \in GATES |-> CASE g = "gate1" -> "gate1-rejected"
                     [] g = "gate2" -> "gate2-rejected"
                     [] g = "gate3" -> "gate3-rejected"]

Recorders == {"gate1-rejected", "gate2-rejected", "gate3-rejected"}

Stages == ChainStages \union Recorders

TERMINAL_STATUSES == {"done", "blocked", "rejected", "failed", "already_final"}

JobStatus == {"ready", "claimed", "paused"} \union TERMINAL_STATUSES

APPROVING_DECISIONS == {"approved", "overridden"}

REFUSING_DECISIONS == {"rejected"}

NoGate == "no gate"

ASSUME StagesAssumption == StagesInPlay \subseteq ChainStages
ASSUME EndingsAssumption == EndingsInPlay \subseteq TERMINAL_STATUSES
ASSUME NobodyAssumption == Nobody \notin Workers \union Operators
ASSUME MaxJobsAssumption == MaxJobs \in Nat

Job ==
  [run : RunIds, stage : Stages, attempt : Attempts, status : JobStatus,
   claimed_by : Workers \union {Nobody}, lease : {"none", "live", "expired"},
   awaiting_gate : GATES \union {NoGate},
   decided_by : Operators \union {Nobody},
   reclaimed_from : Workers \union {Nobody}]

\* The stage after s in the chain, "" after the last one.
next_stage(s) ==
  LET i == CHOOSE k \in 1..7 : STAGE_CHAIN[k] = s
  IN  IF i = 7 THEN "" ELSE STAGE_CHAIN[i + 1]

-----------------------------------------------------------------------------
JobIds == DOMAIN jobs

\* Some row already stands for attempt a of stage s of run r.
Held(r, s, a) ==
  \E j \in JobIds : jobs[j].run = r /\ jobs[j].stage = s /\ jobs[j].attempt = a

\* Deliberate bug: a lease that has passed is nobody's to take.
ReadyOnly == {j \in JobIds : jobs[j].status = "ready"}

\* Deliberate bug: what has not ended and nobody holds is taken, paused rows too.
AnythingUnheld ==
  {j \in JobIds : /\ jobs[j].status \notin TERMINAL_STATUSES
                  /\ jobs[j].lease # "live"}

\* ready, or claimed under a lease that has passed: never paused, never ended.
Claimable ==
  {j \in JobIds : \/ jobs[j].status = "ready"
                  \/ jobs[j].status = "claimed" /\ jobs[j].lease = "expired"}

PausedAt(r, g) ==
  {j \in JobIds : /\ jobs[j].run = r
                  /\ jobs[j].status = "paused"
                  /\ jobs[j].awaiting_gate = g}

Oldest(ids) == {j \in ids : \A i \in ids : j <= i}

\* Deliberate bug: every row is born ready, to be paused by a later call.
BornReady(r, s, a) ==
  [run |-> r, stage |-> s, attempt |-> a, status |-> "ready",
   claimed_by |-> Nobody, lease |-> "none", awaiting_gate |-> NoGate,
   decided_by |-> Nobody, reclaimed_from |-> Nobody]

\* A gate's row is born paused at its own gate, any other is born ready.
NewJob(r, s, a) ==
  [run |-> r, stage |-> s, attempt |-> a,
   status |-> IF s \in GATES THEN "paused" ELSE "ready",
   claimed_by |-> Nobody, lease |-> "none",
   awaiting_gate |-> IF s \in GATES THEN s ELSE NoGate,
   decided_by |-> Nobody, reclaimed_from |-> Nobody]

\* Deliberate bug: every claim writes reclaimed_from, a plain one the blank.
LeasedAfresh(job, w) ==
  [job EXCEPT !.status = "claimed", !.claimed_by = w, !.lease = "live",
              !.reclaimed_from = job.claimed_by]

\* The row once w holds it.  reclaimed_from keeps the last holder whose lease
\* ran out, across a later release and a later claim.
Leased(job, w) ==
  [job EXCEPT !.status = "claimed", !.claimed_by = w, !.lease = "live",
              !.reclaimed_from = IF job.status = "claimed"
                                 THEN job.claimed_by ELSE @]

Ended(job, st) ==
  [job EXCEPT !.status = st, !.claimed_by = Nobody, !.lease = "none"]

\* Deliberate bug: the holder's lease stays on the paused row.
PausedLeased(job, g) ==
  [job EXCEPT !.status = "paused", !.awaiting_gate = g]

\* Deliberate bug: the row waits at its own stage, not at the gate named.
PausedAtOwnStage(job, g) ==
  [job EXCEPT !.status = "paused", !.awaiting_gate = job.stage,
              !.claimed_by = Nobody, !.lease = "none"]

PausedRow(job, g) ==
  [job EXCEPT !.status = "paused", !.awaiting_gate = g,
              !.claimed_by = Nobody, !.lease = "none"]

\* Deliberate bug: an approval points the row at the gate it was given for.
ReleasedToGate(job, g, decision, op) ==
  [job EXCEPT !.status = "ready", !.decided_by = op,
              !.stage = IF decision \in APPROVING_DECISIONS
                        THEN g ELSE REJECTION_STAGES[g]]

\* An approval keeps the stage; a refusal repoints the row at the recorder.
Released(job, g, decision, op) ==
  [job EXCEPT !.status = "ready", !.decided_by = op,
              !.stage = IF decision \in APPROVING_DECISIONS
                        THEN @ ELSE REJECTION_STAGES[g]]

-----------------------------------------------------------------------------
Enqueue(r, s, a) ==
  /\ Len(jobs) < MaxJobs
  /\ ~Held(r, s, a)
  /\ jobs' = Append(jobs, NewJob(r, s, a))

Claim(w, j) ==
  /\ j \in Oldest(Claimable)
  /\ jobs' = [jobs EXCEPT ![j] = Leased(@, w)]

Heartbeat(j) ==
  /\ jobs[j].status = "claimed"
  /\ jobs' = [jobs EXCEPT ![j].lease = "live"]

\* complete and fail: nobody checks that the caller still holds the row.
Complete(j, st) ==
  /\ jobs[j].status \notin TERMINAL_STATUSES
  /\ jobs' = [jobs EXCEPT ![j] = Ended(@, st)]

\* Deliberate bug: the refusal to touch an ended row is dropped.
PauseAnything(j, g) == jobs' = [jobs EXCEPT ![j] = PausedRow(@, g)]

Pause(j, g) ==
  /\ jobs[j].status \notin TERMINAL_STATUSES
  /\ jobs' = [jobs EXCEPT ![j] = PausedRow(@, g)]

Resume(r, g, decision, op, j) ==
  /\ j \in Oldest(PausedAt(r, g))
  /\ jobs' = [jobs EXCEPT ![j] = Released(@, g, decision, op)]

\* Deliberate bug: the row is renamed without looking for a collision.
AdoptBlindly(j, r) == jobs' = [jobs EXCEPT ![j].run = r]

adopt_run_id(j, r) ==
  /\ \A i \in JobIds \ {j} :
       ~ /\ jobs[i].run = r
         /\ jobs[i].stage = jobs[j].stage
         /\ jobs[i].attempt = jobs[j].attempt
  /\ jobs' = [jobs EXCEPT ![j].run = r]

\* Time passes the row's lease_expires_at.
LeaseExpires(j) ==
  /\ jobs[j].lease = "live"
  /\ jobs' = [jobs EXCEPT ![j].lease = "expired"]

-----------------------------------------------------------------------------
QueueInit == jobs = <<>>

QueueNext ==
  \/ \E r \in RunIds, s \in StagesInPlay, a \in Attempts : Enqueue(r, s, a)
  \/ \E j \in JobIds :
       \/ \E w \in Workers : Claim(w, j)
       \/ Heartbeat(j)
       \/ \E st \in EndingsInPlay : Complete(j, st)
       \/ \E g \in GATES : Pause(j, g)
       \/ \E r \in RunIds, g \in GATES, op \in Operators,
             decision \in APPROVING_DECISIONS \union REFUSING_DECISIONS :
               Resume(r, g, decision, op, j)
       \/ \E r \in RunIds : adopt_run_id(j, r)
       \/ LeaseExpires(j)

QueueSpec == QueueInit /\ [][QueueNext]_jobs

-----------------------------------------------------------------------------
\* Every row is a well-formed Job and the table never outgrows its bound.
TypeOK == jobs \in Seq(Job) /\ Len(jobs) <= MaxJobs

\* At most one row ever stands for one attempt of one stage of one run, the
\* rule queue/__init__.py calls A6: two rows would be two workers each running
\* the agent once.  Recorder stages are excluded: resume repoints a row at one
\* without looking for another row already there.
OneRowPerStage ==
  \A i, j \in JobIds :
    /\ jobs[i].run = jobs[j].run
    /\ jobs[i].stage = jobs[j].stage
    /\ jobs[i].attempt = jobs[j].attempt
    /\ jobs[i].stage \in ChainStages
    => i = j

\* A gate's own stage, or the recorder of a refusal, is claimable or running
\* only after a named human released the row: the gate held.
NoGateRunsUndecided ==
  \A j \in JobIds :
    /\ jobs[j].stage \in GATES \union Recorders
    /\ jobs[j].status \in {"ready", "claimed"}
    => jobs[j].decided_by # Nobody

\* A row has a holder and a lease exactly while it is claimed, so no paused or
\* ended row can look reclaimable.
HolderIffClaimed ==
  \A j \in JobIds :
    /\ (jobs[j].claimed_by # Nobody) <=> (jobs[j].status = "claimed")
    /\ (jobs[j].lease # "none") <=> (jobs[j].status = "claimed")

\* An ended row keeps its ending, whatever is called on it later
\* (queue/__init__.py:98, "the statuses a job cannot leave").
TerminalIsFinal ==
  [][\A j \in JobIds :
       jobs[j].status \in TERMINAL_STATUSES =>
         jobs'[j].status = jobs[j].status /\ jobs'[j].stage = jobs[j].stage]_jobs

\* Once a human refused, the row records refusals for good: it can never run
\* the gate it was refused at, nor any stage that advances the run.
RefusalStands ==
  [][\A j \in JobIds :
       jobs[j].stage \in Recorders => jobs'[j].stage \in Recorders]_jobs

\* The trace that a stage may have run twice is never erased, through any
\* release, pause and re-claim of the row.
ReclaimIsRemembered ==
  [][\A j \in JobIds :
       jobs[j].reclaimed_from # Nobody => jobs'[j].reclaimed_from # Nobody]_jobs
=============================================================================
