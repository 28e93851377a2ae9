---------------------------- MODULE ControlPlane ----------------------------
(***************************************************************************)
(* The public API in front of the queue (agentorg/api): keys, submissions  *)
(* with their idempotency keys, and what a tenant is told of a run.        *)
(*                                                                         *)
(* The server is threaded and a submission is several steps: the key is    *)
(* resolved, the idempotency record looked up, the plan stage enqueued,    *)
(* the record kept. Keys and records live in the process and are gone when *)
(* it restarts; the queue stays.                                           *)
(***************************************************************************)
EXTENDS JobQueue

CONSTANTS
  Tenants,       \* who keys are issued to
  KeyIds,        \* the keys
  Grants,        \* the sets of scopes keys are issued with
  IdemKeys,      \* values of the Idempotency-Key header
  NoKey,         \* no such header
  ApiThreads,    \* the server's threads
  Pending        \* the placeholder run ids; plan replaces them by others

ASSUME ControlPlaneAssumption ==
  /\ Pending \subseteq RunIds /\ 1 \in Attempts
  /\ NoKey \notin IdemKeys
  /\ "plan" \in StagesInPlay

VARIABLES
  keys,      \* the key store
  records,   \* the idempotency store: the job each tenant's key is kept for
  origin,    \* of each row, whose it is and the placeholder it was enqueued under
  thread,    \* the request each thread serves
  started,   \* history: the rows this process enqueued under a tenant's key
  answers    \* history: the 200s of this process, with the ids they gave

apiVars == <<jobs, keys, records, origin, thread, started, answers>>

-----------------------------------------------------------------------------
SCOPES == {"runs:write", "runs:read", "config:write", "config:read"}

\* retry (history): one with its key was answered before this one came.
Serving(tenant, idem) ==
  [step |-> "look up", tenant |-> tenant, idem |-> idem, job |-> 0,
   retry |-> idem # NoKey /\ \E a \in answers : a.tenant = tenant /\ a.idem = idem]

NoRequest == [step |-> "idle"]

\* Nothing records under job 0.
NoRecords == [x \in Tenants \X IdemKeys |-> 0]

Answered(tenant, idem, job, run) ==
  answers' = answers \union
               {[tenant |-> tenant, idem |-> idem, job |-> job, run |-> run]}

\* Every way to fail to be one of these is the same 401.
resolve(k, scope) == keys[k].issued /\ ~keys[k].revoked /\ scope \in keys[k].scopes

-----------------------------------------------------------------------------
(* Keys. *)

issue_key(k, tenant, scopes) ==
  /\ ~keys[k].issued
  /\ scopes \subseteq SCOPES
  /\ keys' = [keys EXCEPT ![k] = [issued |-> TRUE, tenant |-> tenant,
                                  scopes |-> scopes, revoked |-> FALSE]]
  /\ UNCHANGED <<jobs, records, origin, thread, started, answers>>

revoke(k) ==
  /\ keys[k].issued
  /\ keys' = [keys EXCEPT ![k].revoked = TRUE]
  /\ UNCHANGED <<jobs, records, origin, thread, started, answers>>

-----------------------------------------------------------------------------
(* POST /v1/runs. *)

BeginSubmit(th, k, idem) ==
  /\ thread[th] = NoRequest
  /\ resolve(k, "runs:write")
  /\ thread' = [thread EXCEPT ![th] = Serving(keys[k].tenant, idem)]
  /\ UNCHANGED <<jobs, keys, records, origin, started, answers>>

\* Deliberate bug: the run is looked for under the placeholder it was given.
LookUpPlaceholder(th) ==
  LET q == thread[th]
      kept == IF q.idem = NoKey THEN 0 ELSE records[<<q.tenant, q.idem>>]
      found == IF kept # 0 /\ jobs[kept].run \in Pending THEN kept ELSE 0
  IN  /\ q.step = "look up"
      /\ IF found # 0
         THEN /\ Answered(q.tenant, q.idem, found, jobs[found].run)
              /\ thread' = [thread EXCEPT ![th] = NoRequest]
         ELSE /\ thread' = [thread EXCEPT ![th].step = "enqueue"]
              /\ UNCHANGED answers
      /\ UNCHANGED <<jobs, keys, records, origin, started>>

\* A record answers with its own job, whatever has become of it, and with the
\* run id that job's row has by now.
LookUp(th) ==
  LET q == thread[th]
      found == IF q.idem = NoKey THEN 0 ELSE records[<<q.tenant, q.idem>>]
  IN  /\ q.step = "look up"
      /\ IF found # 0
         THEN /\ Answered(q.tenant, q.idem, found, jobs[found].run)
              /\ thread' = [thread EXCEPT ![th] = NoRequest]
         ELSE /\ thread' = [thread EXCEPT ![th].step = "enqueue"]
              /\ UNCHANGED answers
      /\ UNCHANGED <<jobs, keys, records, origin, started>>

\* The placeholder is random: no row ever had it.
EnqueuePlan(th) ==
  /\ thread[th].step = "enqueue"
  /\ \E p \in Pending \ {origin[j].placeholder : j \in DOMAIN origin} :
       /\ Enqueue(p, "plan", 1)
       /\ origin' = Append(origin, [tenant |-> thread[th].tenant, placeholder |-> p])
  /\ started' = IF thread[th].idem = NoKey THEN started
                ELSE started \union {[tenant |-> thread[th].tenant,
                                      idem |-> thread[th].idem, job |-> Len(jobs')]}
  /\ thread' = [thread EXCEPT ![th].step = "remember", ![th].job = Len(jobs')]
  /\ UNCHANGED <<keys, records, answers>>

\* A record kept by another thread meanwhile is not overwritten: this request
\* ends as a 500, with its job in the queue. The answer gives the ids of the row
\* as enqueue returned it.
Remember(th) ==
  LET q == thread[th]
      taken == q.idem # NoKey /\ records[<<q.tenant, q.idem>>] # 0
  IN  /\ q.step = "remember"
      /\ IF taken THEN UNCHANGED <<records, answers>>
         ELSE /\ records' = IF q.idem = NoKey THEN records
                            ELSE [records EXCEPT ![<<q.tenant, q.idem>>] = q.job]
              /\ Answered(q.tenant, q.idem, q.job, origin[q.job].placeholder)
      /\ thread' = [thread EXCEPT ![th] = NoRequest]
      /\ UNCHANGED <<jobs, keys, origin, started>>

-----------------------------------------------------------------------------
(* GET /v1/runs/<id>. *)

RowsOf(run) == {j \in JobIds : jobs[j].run = run}

\* A run with a row of anybody else's is refused; one without rows is unknown,
\* as the placeholder is once plan has replaced it.
jobs_for_tenant(run, tenant) ==
  IF {origin[j].tenant : j \in RowsOf(run)} = {tenant} THEN RowsOf(run) ELSE {}

run_status(k, run) ==
  /\ resolve(k, "runs:read")
  /\ \E j \in jobs_for_tenant(run, keys[k].tenant) :
       /\ \A i \in jobs_for_tenant(run, keys[k].tenant) : i <= j
       /\ Answered(keys[k].tenant, NoKey, j, run)
  /\ UNCHANGED <<jobs, keys, records, origin, thread, started>>

-----------------------------------------------------------------------------
(* The rest of the world. *)

\* The worker's planner names the run.
WorkerAdopts(j) ==
  /\ \E r \in RunIds \ Pending : RowsOf(r) = {} /\ adopt_run_id(j, r)
  /\ UNCHANGED <<keys, records, origin, thread, started, answers>>

Unissued == [issued |-> FALSE]

Restart ==
  /\ keys' = [k \in KeyIds |-> Unissued]
  /\ records' = NoRecords
  /\ thread' = [th \in ApiThreads |-> NoRequest]
  /\ started' = {}
  /\ answers' = {}
  /\ UNCHANGED <<jobs, origin>>

ApiInit ==
  /\ QueueInit
  /\ keys = [k \in KeyIds |-> Unissued]
  /\ records = NoRecords
  /\ origin = <<>>
  /\ thread = [th \in ApiThreads |-> NoRequest]
  /\ started = {}
  /\ answers = {}

ApiNext ==
  \/ \E k \in KeyIds :
       \/ \E t \in Tenants, s \in Grants : issue_key(k, t, s)
       \/ revoke(k)
       \/ \E th \in ApiThreads, i \in IdemKeys \union {NoKey} : BeginSubmit(th, k, i)
       \/ \E r \in RunIds : run_status(k, r)
  \/ \E th \in ApiThreads : LookUp(th) \/ EnqueuePlan(th) \/ Remember(th)
  \/ \E j \in JobIds : WorkerAdopts(j)
  \/ Restart

ApiSpec == ApiInit /\ [][ApiNext]_apiVars

-----------------------------------------------------------------------------
ApiTypeOK ==
  /\ TypeOK
  /\ records \in [Tenants \X IdemKeys -> Nat]
  /\ Len(origin) = Len(jobs)

\* While the server runs, a submission that comes after one with its key was
\* answered starts nothing, whatever has become of that run meanwhile and however
\* the threads interleave; all the 200s for a tenant's key name one job; and no
\* answer names another tenant's row (service.submit_run, _jobs_for_tenant).
RetriesStartNothing ==
  /\ \A th \in ApiThreads :
       thread[th].step \in {"enqueue", "remember"} => ~thread[th].retry
  /\ \A a \in answers :
       /\ a.job \in JobIds /\ origin[a.job].tenant = a.tenant
       /\ \A b \in answers :
            a.idem # NoKey /\ b.idem = a.idem /\ b.tenant = a.tenant => b.job = a.job

\* "Two submissions carrying the same `Idempotency-Key` for the same tenant
\* produce ONE queued run, and the second gets the first one's ids back"
\* (idempotency.py). It does not hold of two submissions that overlap, nor of the
\* ids once the planner has named the run.
OneRunPerKey ==
  /\ \A r, s \in started : r.tenant = s.tenant /\ r.idem = s.idem => r = s
  /\ \A a, b \in answers :
       a.idem # NoKey /\ a.idem = b.idem /\ a.tenant = b.tenant =>
         a.job = b.job /\ a.run = b.run
=============================================================================
