------------------------------ MODULE SqlQueue ------------------------------
(***************************************************************************)
(* The durable backend of the queue, queue/_sql.py, shared by processes    *)
(* that have only the database in common: workers, human operators (an     *)
(* approval command each) and API servers that cancel runs.                *)
(*                                                                         *)
(* enqueue, claim and adopt_run_id are one statement or one transaction,   *)
(* and are JobQueue's.  complete, pause, heartbeat and resume SELECT the   *)
(* row, decide, and later UPDATE it WHERE job_id = ? and nothing else, on  *)
(* connections that hold no lock in between (_sql.py:303 opens sqlite with *)
(* autocommit, a Postgres connection is READ COMMITTED).  Each of them is  *)
(* two steps here, of a caller that remembers what it read.                *)
(***************************************************************************)
EXTENDS JobQueue

CONSTANTS
  Cancellers,    \* API servers calling service.cancel_run
  LivingLapse    \* may the lease of a worker that is alive pass?

ASSUME CallersAreDistinct ==
  /\ Workers \intersect Operators = {}
  /\ Workers \intersect Cancellers = {}
  /\ Operators \intersect Cancellers = {}

ASSUME LivingLapseAssumption == LivingLapse \in BOOLEAN

VARIABLES
  call,          \* what each caller is in the middle of
  cancelled      \* rows whose cancellation was confirmed to the API's client

Callers == Workers \union Operators \union Cancellers

vars == <<jobs, call, cancelled>>

Idle == [op |-> "idle"]
Holds(j) == [op |-> "holds", job |-> j]

Calls ==
  LET ids == 1..MaxJobs
  IN  {Idle}
      \union [op : {"holds", "heartbeat"}, job : ids]
      \union [op : {"complete"}, job : ids, status : TERMINAL_STATUSES]
      \union [op : {"pause"}, job : ids, gate : GATES]
      \union [op : {"resume"}, job : ids, gate : GATES, stage : Stages]

SqlTypeOK ==
  /\ TypeOK
  /\ call \in [Callers -> Calls]
  /\ cancelled \subseteq JobIds

Doing(c, op) == call[c].op = op

BusyWith(j) == {w \in Workers : ~Doing(w, "idle") /\ call[w].job = j}

-----------------------------------------------------------------------------
\* One statement or one transaction: atomic.
SqlEnqueue(r, s, a) == Enqueue(r, s, a) /\ UNCHANGED <<call, cancelled>>

SqlClaim(w, j) ==
  /\ Doing(w, "idle")
  /\ Claim(w, j)
  /\ call' = [call EXCEPT ![w] = Holds(j)]
  /\ UNCHANGED cancelled

SqlAdopt(w, r) ==
  /\ Doing(w, "holds")
  /\ adopt_run_id(call[w].job, r)
  /\ UNCHANGED <<call, cancelled>>

-----------------------------------------------------------------------------
\* The SELECT of complete: by the worker that claimed the row, or by an API
\* server for any row it found live.
CompleteRead(c, j, st) ==
  /\ \/ c \in Workers /\ call[c] = Holds(j)
     \/ c \in Cancellers /\ Doing(c, "idle") /\ st = "rejected"
  /\ jobs[j].status \notin TERMINAL_STATUSES
  /\ call' = [call EXCEPT ![c] = [op |-> "complete", job |-> j, status |-> st]]
  /\ UNCHANGED <<jobs, cancelled>>

\* The SELECT found an ending: ValueError, and the caller gives up the row.
CompleteRefused(w) ==
  /\ Doing(w, "holds")
  /\ jobs[call[w].job].status \in TERMINAL_STATUSES
  /\ call' = [call EXCEPT ![w] = Idle]
  /\ UNCHANGED <<jobs, cancelled>>

\* Deliberate bug: the UPDATE leaves claimed_by and the lease as they were.
WriteStatusOnly(c) ==
  LET j == call[c].job IN
  /\ Doing(c, "complete")
  /\ jobs' = [jobs EXCEPT ![j].status = call[c].status]
  /\ call' = [call EXCEPT ![c] = Idle]
  /\ cancelled' = IF c \in Cancellers THEN cancelled \union {j} ELSE cancelled

CompleteWrite(c) ==
  LET j == call[c].job IN
  /\ Doing(c, "complete")
  /\ jobs' = [jobs EXCEPT ![j] = Ended(@, call[c].status)]
  /\ call' = [call EXCEPT ![c] = Idle]
  /\ cancelled' = IF c \in Cancellers THEN cancelled \union {j} ELSE cancelled

-----------------------------------------------------------------------------
\* A worker hands the gate's row it holds back to the humans.
PauseRead(w) ==
  LET j == call[w].job IN
  /\ Doing(w, "holds")
  /\ jobs[j].stage \in GATES
  /\ jobs[j].status \notin TERMINAL_STATUSES
  /\ call' = [call EXCEPT ![w] = [op |-> "pause", job |-> j,
                                  gate |-> jobs[j].stage]]
  /\ UNCHANGED <<jobs, cancelled>>

PauseWrite(w) ==
  /\ Doing(w, "pause")
  /\ jobs' = [jobs EXCEPT ![call[w].job] = PausedRow(@, call[w].gate)]
  /\ call' = [call EXCEPT ![w] = Idle]
  /\ UNCHANGED cancelled

HeartbeatRead(w) ==
  LET j == call[w].job IN
  /\ Doing(w, "holds")
  /\ jobs[j].status = "claimed"
  /\ call' = [call EXCEPT ![w] = [op |-> "heartbeat", job |-> j]]
  /\ UNCHANGED <<jobs, cancelled>>

HeartbeatWrite(w) ==
  LET j == call[w].job IN
  /\ Doing(w, "heartbeat")
  /\ jobs' = [jobs EXCEPT ![j].lease = "live"]
  /\ call' = [call EXCEPT ![w] = Holds(j)]
  /\ UNCHANGED cancelled

-----------------------------------------------------------------------------
\* The SELECT of resume picks the row and works out the stage to write.
ResumeRead(o, r, g, decision, j) ==
  /\ Doing(o, "idle")
  /\ j \in Oldest(PausedAt(r, g))
  /\ call' = [call EXCEPT ![o] =
                [op |-> "resume", job |-> j, gate |-> g,
                 stage |-> Released(jobs[j], g, decision, o).stage]]
  /\ UNCHANGED <<jobs, cancelled>>

\* Deliberate bug: no UNIQUE index on (run_id, stage, attempt).
ResumeUnindexed(o) ==
  LET j == call[o].job IN
  /\ Doing(o, "resume")
  /\ jobs' = [jobs EXCEPT ![j].status = "ready", ![j].stage = call[o].stage,
                          ![j].decided_by = o]
  /\ call' = [call EXCEPT ![o] = Idle]
  /\ UNCHANGED cancelled

\* Deliberate bug: the UPDATE does not write who decided.
ResumeUnattributed(o) ==
  LET j == call[o].job IN
  /\ Doing(o, "resume")
  /\ jobs' = [jobs EXCEPT ![j].status = "ready", ![j].stage = call[o].stage]
  /\ call' = [call EXCEPT ![o] = Idle]
  /\ UNCHANGED cancelled

\* The UPDATE: status, stage and decided_by, whatever the row has become.
ResumeWrite(o) ==
  LET j == call[o].job IN
  /\ Doing(o, "resume")
  /\ ~ \E i \in JobIds \ {j} :                 \* the UNIQUE index
         /\ jobs[i].run = jobs[j].run
         /\ jobs[i].stage = call[o].stage
         /\ jobs[i].attempt = jobs[j].attempt
  /\ jobs' = [jobs EXCEPT ![j].status = "ready", ![j].stage = call[o].stage,
                          ![j].decided_by = o]
  /\ call' = [call EXCEPT ![o] = Idle]
  /\ UNCHANGED cancelled

-----------------------------------------------------------------------------
\* A process dies between its statements (the index refusing an UPDATE ends
\* an operator's command the same way).
Crash(c) ==
  /\ ~Doing(c, "idle")
  /\ call' = [call EXCEPT ![c] = Idle]
  /\ UNCHANGED <<jobs, cancelled>>

\* A lease passes.  While its holder lives, only if LivingLapse.
SqlLeaseExpires(j) ==
  /\ LivingLapse \/ BusyWith(j) = {}
  /\ LeaseExpires(j)
  /\ UNCHANGED <<call, cancelled>>

-----------------------------------------------------------------------------
SqlInit ==
  /\ QueueInit
  /\ call = [c \in Callers |-> Idle]
  /\ cancelled = {}

WorkerStep(w) ==
  \/ \E j \in JobIds : SqlClaim(w, j)
  \/ \E r \in RunIds : SqlAdopt(w, r)
  \/ \E j \in JobIds, st \in EndingsInPlay : CompleteRead(w, j, st)
  \/ CompleteRefused(w)
  \/ CompleteWrite(w)
  \/ PauseRead(w)
  \/ PauseWrite(w)
  \/ HeartbeatRead(w)
  \/ HeartbeatWrite(w)

OperatorStep(o) ==
  \/ \E r \in RunIds, g \in GATES, j \in JobIds,
        decision \in APPROVING_DECISIONS \union REFUSING_DECISIONS :
          ResumeRead(o, r, g, decision, j)
  \/ ResumeWrite(o)

CancellerStep(c) ==
  \/ \E j \in JobIds : CompleteRead(c, j, "rejected")
  \/ CompleteWrite(c)

SqlNext ==
  \/ \E r \in RunIds, s \in StagesInPlay, a \in Attempts : SqlEnqueue(r, s, a)
  \/ \E w \in Workers : WorkerStep(w)
  \/ \E o \in Operators : OperatorStep(o)
  \/ \E c \in Cancellers : CancellerStep(c)
  \/ \E c \in Callers : Crash(c)
  \/ \E j \in JobIds : SqlLeaseExpires(j)

SqlSpec == SqlInit /\ [][SqlNext]_vars

-----------------------------------------------------------------------------
\* With one human deciding, no cancellation, and no lease lost by a living
\* worker, the two-step operations are as good as the in-memory backend's
\* atomic ones: every step of the table is a step of JobQueue.
ActsAtomically == QueueSpec

\* Whatever races with whatever, no two rows ever share run, stage and
\* attempt, the recorder stages included: the database refuses an INSERT, a
\* rename or a resume that would make a second one.
OneRowPerIdentity ==
  \A i, j \in JobIds :
    /\ jobs[i].run = jobs[j].run
    /\ jobs[i].stage = jobs[j].stage
    /\ jobs[i].attempt = jobs[j].attempt
    => i = j

\* Once the API has answered that a row's run is cancelled, the row stays
\* ended as it said: the guarantee of cancel_run's docstring
\* (api/service.py:436-440), that a worker's later `complete` is refused.
CancelStands ==
  [][\A j \in cancelled : jobs'[j].status = "rejected"]_vars
=============================================================================
