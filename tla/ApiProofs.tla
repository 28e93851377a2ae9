------------------------------ MODULE ApiProofs ------------------------------
(***************************************************************************)
(* Proofs about ControlPlane: that the API only enqueues and that its      *)
(* queue is JobQueue's, and that a submission sent again starts nothing.   *)
(***************************************************************************)
EXTENDS ControlPlane, JobQueueProofs

Origins == [tenant : Tenants, placeholder : Pending]

KeyRows ==
  {Unissued} \union
  [issued : {TRUE}, tenant : Tenants, scopes : SUBSET SCOPES, revoked : BOOLEAN]

IdemOrNone == IdemKeys \union {NoKey}

Requests ==
  {NoRequest} \union
  [step : {"look up", "enqueue", "remember"}, tenant : Tenants, idem : IdemOrNone,
   job : Nat, retry : BOOLEAN]

Replies == [tenant : Tenants, idem : IdemOrNone, job : Nat, run : RunIds]

ApiTyped ==
  /\ TypeOK
  /\ origin \in Seq(Origins) /\ Len(origin) = Len(jobs)
  /\ keys \in [KeyIds -> KeyRows]
  /\ records \in [Tenants \X IdemKeys -> Nat]
  /\ thread \in [ApiThreads -> Requests]
  /\ answers \subseteq Replies

\* Job j is a row of this tenant's.
Owns(t, j) == j \in JobIds /\ origin[j].tenant = t

\* The same, once the step is done.
OwnsNext(t, j) == j \in JobIds' /\ origin'[j].tenant = t

\* A request whose key was answered finds the key's record, and so starts nothing.
Honest(q, kept) ==
  /\ q.step = "look up" /\ q.retry => q.idem \in IdemKeys /\ kept[<<q.tenant, q.idem>>] # 0
  /\ q.step \in {"enqueue", "remember"} => ~q.retry

\* Every job named anywhere is the tenant's own, and a 200 for a key names the
\* job the key is kept for.
ApiInv ==
  /\ ApiTyped
  /\ \A t \in Tenants, i \in IdemKeys :
       records[<<t, i>>] # 0 => Owns(t, records[<<t, i>>])
  /\ \A th \in ApiThreads :
       /\ thread[th].step = "remember" => Owns(thread[th].tenant, thread[th].job)
       /\ Honest(thread[th], records)
  /\ \A a \in answers :
       /\ Owns(a.tenant, a.job)
       /\ a.idem # NoKey => records[<<a.tenant, a.idem>>] = a.job

LEMMA RequestFields ==
  /\ NoRequest \in Requests /\ NoRequest.step = "idle"
  /\ \A q \in Requests : q.step # "idle" =>
       /\ q.tenant \in Tenants /\ q.idem \in IdemOrNone /\ q.job \in Nat
       /\ q.retry \in BOOLEAN
       /\ q \in [step : {"look up", "enqueue", "remember"}, tenant : Tenants,
                 idem : IdemOrNone, job : Nat,
                 retry : BOOLEAN]
<1>1. NoRequest.step = "idle" /\ NoRequest \in Requests
  BY DEF NoRequest, Requests
<1>2. ASSUME NEW q \in Requests, q.step # "idle"
      PROVE  q \in [step : {"look up", "enqueue", "remember"}, tenant : Tenants,
                    idem : IdemOrNone, job : Nat,
                 retry : BOOLEAN]
  BY <1>1, <1>2 DEF Requests
<1> QED
  BY <1>1, <1>2

\* A resolved key names a tenant.
LEMMA ResolvedKey ==
  ASSUME ApiTyped, NEW k \in KeyIds, NEW scope, resolve(k, scope)
  PROVE  keys[k].tenant \in Tenants
<1>1. keys[k] \in KeyRows /\ keys[k].issued
  BY DEF ApiTyped, resolve
<1>2. Unissued.issued = FALSE
  BY DEF Unissued
<1> QED
  BY <1>1, <1>2 DEF KeyRows

\* While the queue rests, nothing that was owned is lost.
LEMMA OwnersStay ==
  ASSUME UNCHANGED <<jobs, origin>>, NEW t, NEW j
  PROVE  Owns(t, j)' <=> Owns(t, j)
BY DEF Owns, JobIds

\* A request at rest has nothing to hide.
LEMMA RestIsHonest == \A kept : Honest(NoRequest, kept)
BY DEF Honest, NoRequest

\* The record a key has stays its record.
LEMMA HonestyStays ==
  ASSUME NEW q \in Requests, NEW kept, NEW later, Honest(q, kept),
         \A t \in Tenants, i \in IdemKeys :
           kept[<<t, i>>] # 0 => later[<<t, i>>] = kept[<<t, i>>]
  PROVE  Honest(q, later)
BY RequestFields DEF Honest

LEMMA KeysStep ==
  ASSUME ApiInv, UNCHANGED <<jobs, records, origin, thread, answers>>,
         keys' \in [KeyIds -> KeyRows]
  PROVE  ApiInv'
BY OwnersStay DEF ApiInv, ApiTyped, TypeOK, Honest

LEMMA IssueStep ==
  ASSUME ApiInv, NEW k \in KeyIds, NEW t \in Tenants, NEW s, issue_key(k, t, s)
  PROVE  ApiInv'
<1> DEFINE new == [issued |-> TRUE, tenant |-> t, scopes |-> s, revoked |-> FALSE]
<1>1. keys \in [KeyIds -> KeyRows]
  BY DEF ApiInv, ApiTyped
<1>2. new \in KeyRows /\ keys' = [keys EXCEPT ![k] = new]
      /\ UNCHANGED <<jobs, records, origin, thread, answers>>
  BY DEF issue_key, KeyRows
<1> HIDE DEF new
<1> QED
  BY <1>1, <1>2, KeysStep

LEMMA RevokeStep ==
  ASSUME ApiInv, NEW k \in KeyIds, revoke(k)
  PROVE  ApiInv'
<1> DEFINE row == keys[k]
           new == [row EXCEPT !.revoked = TRUE]
<1>1. keys \in [KeyIds -> KeyRows] /\ row \in KeyRows /\ row.issued
  BY DEF ApiInv, ApiTyped, revoke
<1>2. Unissued.issued = FALSE
  BY DEF Unissued
<1>3. keys' = [keys EXCEPT ![k] = new]
      /\ UNCHANGED <<jobs, records, origin, thread, answers>>
  BY DEF revoke
<1> HIDE DEF row
<1>4. row \in [issued : {TRUE}, tenant : Tenants, scopes : SUBSET SCOPES,
                revoked : BOOLEAN]
  BY <1>1, <1>2 DEF KeyRows
<1>5. new \in KeyRows
  BY <1>4 DEF KeyRows
<1> HIDE DEF new
<1> QED
  BY <1>1, <1>3, <1>5, KeysStep

\* One thread moves on, and perhaps an answer is given.
LEMMA ThreadStep ==
  ASSUME ApiInv, NEW th \in ApiThreads, NEW q \in Requests,
         UNCHANGED <<jobs, keys, origin>>,
         thread' = [thread EXCEPT ![th] = q], q.step # "remember", Honest(q, records'),
         records' \in [Tenants \X IdemKeys -> Nat],
         \A t \in Tenants, i \in IdemKeys :
           \/ records'[<<t, i>>] = records[<<t, i>>]
           \/ records[<<t, i>>] = 0 /\ Owns(t, records'[<<t, i>>]),
         answers' \subseteq Replies,
         \A a \in answers' \ answers :
           /\ Owns(a.tenant, a.job)
           /\ a.idem # NoKey => records'[<<a.tenant, a.idem>>] = a.job
  PROVE  ApiInv'
<1>1. ApiTyped'
  BY DEF ApiInv, ApiTyped, TypeOK
<1>2. \A t \in Tenants, i \in IdemKeys :
        records'[<<t, i>>] # 0 => Owns(t, records'[<<t, i>>])
  BY DEF ApiInv
<1>3. \A u \in ApiThreads :
        thread'[u].step = "remember" => Owns(thread'[u].tenant, thread'[u].job)
  BY DEF ApiInv, ApiTyped
<1>4. \A a \in answers' :
        /\ Owns(a.tenant, a.job)
        /\ a.idem # NoKey => records'[<<a.tenant, a.idem>>] = a.job
  <2> SUFFICES ASSUME NEW a \in answers, a.idem # NoKey
               PROVE  records'[<<a.tenant, a.idem>>] = a.job
    BY DEF ApiInv
  <2>1. a.tenant \in Tenants /\ a.idem \in IdemKeys /\ Owns(a.tenant, a.job)
        /\ records[<<a.tenant, a.idem>>] = a.job
    BY DEF ApiInv, ApiTyped, IdemOrNone, Replies
  <2>2. a.job # 0
    BY <2>1 DEF Owns, JobIds, ApiInv, ApiTyped, TypeOK
  <2> QED
    BY <2>1, <2>2
<1>5. \A u \in ApiThreads : Honest(thread'[u], records')
  <2>1. \A t \in Tenants, i \in IdemKeys :
          records[<<t, i>>] # 0 => records'[<<t, i>>] = records[<<t, i>>]
    OBVIOUS
  <2>2. \A u \in ApiThreads : thread[u] \in Requests /\ Honest(thread[u], records)
    BY DEF ApiInv, ApiTyped
  <2>3. \A u \in ApiThreads : Honest(thread[u], records')
    BY <2>1, <2>2, HonestyStays
  <2> QED
    BY <2>3 DEF ApiInv, ApiTyped
<1>6. \A u \in ApiThreads : Honest(thread[u], records)'
  BY <1>5 DEF Honest
<1> QED
  BY <1>1, <1>2, <1>3, <1>4, <1>6, OwnersStay DEF ApiInv

LEMMA BeginStep ==
  ASSUME ApiInv, NEW th \in ApiThreads, NEW k \in KeyIds, NEW i \in IdemOrNone,
         BeginSubmit(th, k, i)
  PROVE  ApiInv'
<1> DEFINE t == keys[k].tenant
           again == i # NoKey /\ \E a \in answers : a.tenant = t /\ a.idem = i
           q == [step |-> "look up", tenant |-> t, idem |-> i, job |-> 0, retry |-> again]
<1>1. /\ thread' = [thread EXCEPT ![th] = q]
      /\ UNCHANGED <<jobs, keys, records, origin, answers>>
  BY DEF BeginSubmit, Serving
<1>2. t \in Tenants
  BY ResolvedKey DEF BeginSubmit, ApiInv
<1>3. again \in BOOLEAN
  OBVIOUS
<1>4. again => i \in IdemKeys /\ records[<<t, i>>] # 0
  <2> SUFFICES ASSUME again PROVE i \in IdemKeys /\ records[<<t, i>>] # 0
    OBVIOUS
  <2>1. PICK a \in answers : a.tenant = t /\ a.idem = i
    OBVIOUS
  <2>2. i # NoKey /\ i \in IdemKeys
    BY DEF IdemOrNone
  <2>3. records[<<t, i>>] = a.job /\ Owns(a.tenant, a.job)
    BY <2>1, <2>2 DEF ApiInv
  <2>4. a.job # 0
    BY <2>3 DEF Owns, JobIds, ApiInv, ApiTyped, TypeOK
  <2> QED
    BY <2>2, <2>3, <2>4
<1> HIDE DEF t, again
<1>5. q \in Requests /\ q.step = "look up" /\ Honest(q, records)
  BY <1>2, <1>3, <1>4 DEF Requests, Honest
<1> HIDE DEF q
<1> QED
  BY <1>1, <1>5, ThreadStep DEF ApiInv, ApiTyped

LEMMA LookUpStep ==
  ASSUME ApiInv, NEW th \in ApiThreads, LookUp(th)
  PROVE  ApiInv'
<1> DEFINE q == thread[th]
           found == IF q.idem = NoKey THEN 0 ELSE records[<<q.tenant, q.idem>>]
<1>1. /\ q \in Requests /\ q.step = "look up"
      /\ q.tenant \in Tenants /\ q.idem \in IdemOrNone /\ q.job \in Nat
      /\ UNCHANGED <<jobs, keys, records, origin>>
      /\ records \in [Tenants \X IdemKeys -> Nat]
      /\ answers \subseteq Replies /\ Honest(q, records) /\ q.retry \in BOOLEAN
  BY RequestFields DEF LookUp, ApiInv, ApiTyped
<1>2. CASE found # 0
  <2> DEFINE a == [tenant |-> q.tenant, idem |-> q.idem, job |-> found,
                   run |-> jobs[found].run]
  <2>1. thread' = [thread EXCEPT ![th] = NoRequest] /\ answers' = answers \union {a}
    BY <1>2 DEF LookUp, Answered
  <2>2. /\ q.idem # NoKey /\ q.idem \in IdemKeys /\ found = records[<<q.tenant, q.idem>>]
        /\ found \in Nat /\ Owns(q.tenant, found)
    BY <1>1, <1>2 DEF IdemOrNone, ApiInv
  <2>4. jobs[found].run \in RunIds
    <3>1. found \in DOMAIN jobs /\ jobs \in Seq(Job)
      BY <2>2 DEF Owns, JobIds, ApiInv, ApiTyped, TypeOK
    <3> HIDE DEF found
    <3>2. jobs[found] \in Job
      BY <3>1
    <3> QED
      BY <3>2 DEF Job
  <2>3. /\ a.tenant = q.tenant /\ a.idem = q.idem /\ a.job = found
        /\ a \in Replies
    BY <1>1, <2>2, <2>4 DEF Replies
  <2> HIDE DEF a, found, q
  <2> QED
    BY <1>1, <2>1, <2>2, <2>3, ThreadStep, RequestFields, RestIsHonest
<1>3. CASE found = 0
  <2> DEFINE new == [q EXCEPT !.step = "enqueue"]
  <2>1. thread' = [thread EXCEPT ![th] = new] /\ answers' = answers
    BY <1>3 DEF LookUp, ApiInv, ApiTyped
  <2>2. new \in Requests /\ new.step = "enqueue" /\ new.retry = q.retry
    BY <1>1, RequestFields DEF Requests
  <2>3. ~q.retry
    BY <1>1, <1>3, ControlPlaneAssumption DEF Honest
  <2> HIDE DEF new
  <2>4. Honest(new, records)
    BY <2>2, <2>3 DEF Honest
  <2> QED
    BY <1>1, <2>1, <2>2, <2>4, ThreadStep
<1> QED
  BY <1>2, <1>3

LEMMA RememberStep ==
  ASSUME ApiInv, NEW th \in ApiThreads, Remember(th)
  PROVE  ApiInv'
<1> DEFINE q == thread[th]
           taken == q.idem # NoKey /\ records[<<q.tenant, q.idem>>] # 0
           a == [tenant |-> q.tenant, idem |-> q.idem, job |-> q.job,
                 run |-> origin[q.job].placeholder]
<1>1. /\ q \in Requests /\ q.step = "remember"
      /\ q.tenant \in Tenants /\ q.idem \in IdemOrNone /\ q.job \in Nat
      /\ Owns(q.tenant, q.job)
      /\ thread' = [thread EXCEPT ![th] = NoRequest]
      /\ UNCHANGED <<jobs, keys, origin>>
      /\ records \in [Tenants \X IdemKeys -> Nat]
      /\ answers \subseteq Replies
  BY RequestFields DEF Remember, ApiInv, ApiTyped
<1>4. origin[q.job].placeholder \in RunIds
  <2>1. q.job \in DOMAIN origin /\ origin \in Seq(Origins)
    BY <1>1 DEF Owns, JobIds, ApiInv, ApiTyped, TypeOK
  <2> HIDE DEF q
  <2>2. origin[q.job] \in Origins
    BY <2>1
  <2> QED
    BY <2>2, ControlPlaneAssumption DEF Origins
<1>2. CASE taken
  <2>1. records' = records /\ answers' = answers
    BY <1>2 DEF Remember
  <2> QED
    BY <1>1, <2>1, ThreadStep, RequestFields, RestIsHonest
<1>3. CASE ~taken
  <2>1. /\ records' = IF q.idem = NoKey THEN records
                     ELSE [records EXCEPT ![<<q.tenant, q.idem>>] = q.job]
        /\ answers' = answers \union {a}
    BY <1>3 DEF Remember, Answered
  <2>2. /\ a.tenant = q.tenant /\ a.idem = q.idem /\ a.job = q.job
        /\ a \in Replies
    BY <1>1, <1>4 DEF Replies
  <2>3. CASE q.idem = NoKey
    <3> HIDE DEF q, a, taken
    <3> QED
      BY <1>1, <2>1, <2>2, <2>3, ThreadStep, RequestFields, RestIsHonest
  <2>4. CASE q.idem # NoKey
    <3>1. /\ q.idem \in IdemKeys /\ <<q.tenant, q.idem>> \in Tenants \X IdemKeys
          /\ records[<<q.tenant, q.idem>>] = 0
      BY <1>1, <1>3, <2>4 DEF IdemOrNone
    <3> HIDE DEF q, a, taken
    <3>2. /\ records' = [records EXCEPT ![<<q.tenant, q.idem>>] = q.job]
          /\ records' \in [Tenants \X IdemKeys -> Nat]
          /\ records'[<<q.tenant, q.idem>>] = q.job
      BY <1>1, <2>1, <2>4, <3>1
    <3>3. ASSUME NEW t \in Tenants, NEW i \in IdemKeys
          PROVE  \/ records'[<<t, i>>] = records[<<t, i>>]
                 \/ records[<<t, i>>] = 0 /\ Owns(t, records'[<<t, i>>])
      <4>1. CASE t = q.tenant /\ i = q.idem
        BY <1>1, <3>1, <3>2, <4>1
      <4>2. CASE ~(t = q.tenant /\ i = q.idem)
        <5>1. <<t, i>> # <<q.tenant, q.idem>> /\ <<t, i>> \in Tenants \X IdemKeys
          BY <4>2
        <5> QED
          BY <1>1, <3>2, <5>1
      <4> QED
        BY <4>1, <4>2
    <3>4. \A b \in answers' \ answers :
            Owns(b.tenant, b.job) /\ records'[<<b.tenant, b.idem>>] = b.job
      BY <1>1, <2>1, <2>2, <3>2
    <3> QED
      BY <1>1, <2>1, <2>2, <3>2, <3>3, <3>4, ThreadStep, RequestFields, RestIsHonest
  <2> QED
    BY <2>3, <2>4
<1> QED
  BY <1>2, <1>3

LEMMA StatusStep ==
  ASSUME ApiInv, NEW k \in KeyIds, NEW r \in RunIds, run_status(k, r)
  PROVE  ApiInv'
<1> DEFINE t == keys[k].tenant
<1>1. UNCHANGED <<jobs, keys, records, origin, thread>> /\ t \in Tenants
  BY ResolvedKey DEF run_status, ApiInv
<1>2. PICK j \in jobs_for_tenant(r, t) :
        answers' = answers \union {[tenant |-> t, idem |-> NoKey, job |-> j, run |-> r]}
  BY DEF run_status, Answered
<1>3. Owns(t, j)
  BY <1>2 DEF jobs_for_tenant, RowsOf, Owns
<1>4. j \in Nat
  <2>1. jobs \in Seq(Job) /\ j \in DOMAIN jobs
    BY <1>3 DEF Owns, JobIds, ApiInv, ApiTyped, TypeOK
  <2> QED
    BY <2>1
<1> DEFINE new == [tenant |-> t, idem |-> NoKey, job |-> j, run |-> r]
<1>7. new.tenant = t /\ new.idem = NoKey /\ new.job = j /\ answers' = answers \union {new}
  BY <1>2
<1> HIDE DEF t
<1>8. new \in Replies
  BY <1>1, <1>4 DEF IdemOrNone, Replies
<1> HIDE DEF new
<1>5. answers' \subseteq Replies
  BY <1>7, <1>8 DEF ApiInv, ApiTyped
<1>6. \A a \in answers' :
        Owns(a.tenant, a.job) /\ (a.idem # NoKey => records[<<a.tenant, a.idem>>] = a.job)
  BY <1>3, <1>7 DEF ApiInv
<1> QED
  BY <1>1, <1>5, <1>6, OwnersStay DEF ApiInv, ApiTyped, TypeOK, Honest

-----------------------------------------------------------------------------
(* The queue. *)

\* What the queue's steps leave to the rest.
LEMMA QueueMoves ==
  ASSUME ApiInv, TypeOK', UNCHANGED <<keys, records, answers>>,
         JobIds \subseteq JobIds',
         origin' \in Seq(Origins), Len(origin') = Len(jobs'),
         \A j \in JobIds : origin'[j] = origin[j],
         thread' \in [ApiThreads -> Requests],
         \A th \in ApiThreads :
           \/ thread'[th] = thread[th]
           \/ /\ thread'[th].step = "remember" /\ ~thread'[th].retry
              /\ OwnsNext(thread'[th].tenant, thread'[th].job)
  PROVE  ApiInv'
<1>1. \A t, j : Owns(t, j) => OwnsNext(t, j)
  BY DEF Owns, OwnsNext
<1>2. \A t, j : OwnsNext(t, j) <=> Owns(t, j)'
  BY DEF Owns, OwnsNext
<1>3. ApiTyped'
  BY DEF ApiInv, ApiTyped
<1>4. \A t \in Tenants, i \in IdemKeys :
        records'[<<t, i>>] # 0 => OwnsNext(t, records'[<<t, i>>])
  BY <1>1 DEF ApiInv
<1>5. \A th \in ApiThreads : thread'[th].step = "remember" =>
        OwnsNext(thread'[th].tenant, thread'[th].job)
  BY <1>1 DEF ApiInv
<1>6. \A a \in answers' :
        /\ OwnsNext(a.tenant, a.job)
        /\ a.idem # NoKey => records'[<<a.tenant, a.idem>>] = a.job
  BY <1>1 DEF ApiInv
<1>7. \A th \in ApiThreads : Honest(thread'[th], records')
  BY DEF ApiInv, Honest
<1>8. \A th \in ApiThreads : Honest(thread[th], records)'
  BY <1>7 DEF Honest
<1> QED
  BY <1>3, <1>4, <1>5, <1>6, <1>8 DEF ApiInv, Owns, OwnsNext

LEMMA EnqueueStep ==
  ASSUME ApiInv, NEW th \in ApiThreads, EnqueuePlan(th)
  PROVE  ApiInv' /\ [QueueNext]_jobs
<1>1. PICK p \in Pending \ {origin[j].placeholder : j \in DOMAIN origin} :
        /\ Enqueue(p, "plan", 1)
        /\ origin' = Append(origin, [tenant |-> thread[th].tenant, placeholder |-> p])
  BY DEF EnqueuePlan
<1> DEFINE q == thread[th]
           own == [tenant |-> q.tenant, placeholder |-> p]
           new == [q EXCEPT !.step = "remember", !.job = Len(jobs')]
<1>2. p \in RunIds /\ "plan" \in ChainStages /\ 1 \in Attempts
  BY ControlPlaneAssumption, StagesAssumption
<1>3. QueueNext
  BY <1>1, <1>2, ControlPlaneAssumption DEF QueueNext
<1>4. TypeOK'
  BY <1>3, QueueTypeOKStep DEF ApiInv, ApiTyped
<1>5. jobs' = Append(jobs, NewJob(p, "plan", 1)) /\ NewJob(p, "plan", 1) \in Job
  BY <1>1, <1>2, NewJobIsAJob DEF Enqueue
<1>6. /\ Len(jobs') = Len(jobs) + 1 /\ JobIds' = JobIds \union {Len(jobs) + 1}
  BY <1>5, AppendRow DEF ApiInv, ApiTyped, TypeOK
<1>7. /\ q.step = "enqueue" /\ thread \in [ApiThreads -> Requests] /\ q \in Requests
      /\ Honest(q, records)
      /\ origin \in Seq(Origins) /\ Len(origin) = Len(jobs) /\ jobs \in Seq(Job)
  BY DEF EnqueuePlan, ApiInv, ApiTyped, TypeOK
<1>8. thread' = [thread EXCEPT ![th] = new] /\ UNCHANGED <<keys, records, answers>>
  BY <1>7 DEF EnqueuePlan
<1>9. origin' = Append(origin, own) /\ own.tenant = q.tenant /\ own.placeholder = p
  BY <1>1
<1> HIDE DEF q
<1>10. q.tenant \in Tenants
       /\ q \in [step : {"look up", "enqueue", "remember"}, tenant : Tenants,
                idem : IdemOrNone, job : Nat,
                 retry : BOOLEAN]
  BY <1>7, RequestFields
<1>11. own \in Origins
  BY <1>1, <1>10 DEF Origins
<1>12. /\ new \in Requests /\ new.tenant = q.tenant /\ new.job = Len(jobs) + 1
       /\ new.step = "remember" /\ ~new.retry
  <2>1. Len(jobs') \in Nat
    BY <1>6, <1>7
  <2>2. ~q.retry
    BY <1>7 DEF Honest
  <2> QED
    BY <1>6, <1>10, <2>1, <2>2 DEF Requests
<1> HIDE DEF own, new
<1>13. /\ origin' \in Seq(Origins) /\ Len(origin') = Len(jobs) + 1
       /\ origin'[Len(jobs) + 1] = own /\ \A j \in JobIds : origin'[j] = origin[j]
  <2>1. JobIds = 1..Len(origin) /\ Len(origin) \in Nat
    BY <1>7 DEF JobIds
  <2> QED
    BY <1>7, <1>9, <1>11, <2>1
<1>14. OwnsNext(new.tenant, new.job)
  BY <1>6, <1>9, <1>12, <1>13 DEF OwnsNext
<1>16. thread' \in [ApiThreads -> Requests] /\ thread'[th] = new
       /\ \A u \in ApiThreads \ {th} : thread'[u] = thread[u]
  BY <1>7, <1>8, <1>12
<1>17. \A u \in ApiThreads :
         \/ thread'[u] = thread[u]
         \/ /\ thread'[u].step = "remember" /\ ~thread'[u].retry
            /\ OwnsNext(thread'[u].tenant, thread'[u].job)
  BY <1>12, <1>14, <1>16
<1>15. ApiInv'
  BY <1>4, <1>6, <1>8, <1>13, <1>16, <1>17, QueueMoves
<1> QED
  BY <1>3, <1>15

LEMMA AdoptStep ==
  ASSUME ApiInv, NEW j \in JobIds, WorkerAdopts(j)
  PROVE  ApiInv' /\ [QueueNext]_jobs
<1>1. PICK r \in RunIds : adopt_run_id(j, r)
  BY DEF WorkerAdopts
<1>2. QueueNext
  BY <1>1 DEF QueueNext
<1>3. TypeOK' /\ TypeOK
  BY <1>2, QueueTypeOKStep DEF ApiInv, ApiTyped
<1>4. Len(jobs') = Len(jobs) /\ JobIds' = JobIds
  BY <1>1, <1>3 DEF adopt_run_id, TypeOK, JobIds
<1>5. UNCHANGED <<keys, records, origin, thread, answers>>
  BY DEF WorkerAdopts
<1>6. ApiInv'
  BY <1>3, <1>4, <1>5, QueueMoves DEF ApiInv, ApiTyped
<1> QED
  BY <1>2, <1>6

-----------------------------------------------------------------------------
LEMMA ApiFirst == ApiInit => ApiInv
<1> SUFFICES ASSUME ApiInit PROVE ApiInv
  OBVIOUS
<1>1. TypeOK /\ Len(jobs) = 0 /\ Len(origin) = 0 /\ origin \in Seq(Origins)
  BY MaxJobsAssumption DEF ApiInit, QueueInit, TypeOK
<1>2. ApiTyped
  BY <1>1, RequestFields DEF ApiInit, ApiTyped, KeyRows, NoRecords
<1>3. \A t \in Tenants, i \in IdemKeys : records[<<t, i>>] = 0
  BY DEF ApiInit, NoRecords
<1> QED
  BY <1>2, <1>3, RequestFields, RestIsHonest DEF ApiInit, ApiInv

\* A restart forgets every key, record and answer and leaves the queue.
LEMMA RestartStep ==
  ASSUME ApiInv, Restart
  PROVE  ApiInv'
<1>1. \A t \in Tenants, i \in IdemKeys : records'[<<t, i>>] = 0
  BY DEF Restart, NoRecords
<1>2. ApiTyped'
  BY RequestFields DEF Restart, NoRecords, KeyRows, ApiInv, ApiTyped, TypeOK
<1>3. \A th \in ApiThreads : Honest(thread[th], records)'
  BY RequestFields DEF Restart, Honest
<1> QED
  BY <1>1, <1>2, <1>3, RequestFields DEF Restart, ApiInv

LEMMA ApiStep ==
  ASSUME ApiInv, [ApiNext]_apiVars
  PROVE  ApiInv' /\ [QueueNext]_jobs
<1>1. CASE UNCHANGED apiVars
  BY <1>1, OwnersStay DEF apiVars, ApiInv, ApiTyped, TypeOK, Honest
<1>2. CASE Restart
  BY <1>2, RestartStep DEF Restart
<1>3. ASSUME NEW k \in KeyIds, NEW t \in Tenants, NEW s \in Grants, issue_key(k, t, s)
      PROVE  ApiInv' /\ [QueueNext]_jobs
  BY <1>3, IssueStep DEF issue_key
<1>4. ASSUME NEW k \in KeyIds, revoke(k)
      PROVE  ApiInv' /\ [QueueNext]_jobs
  BY <1>4, RevokeStep DEF revoke
<1>5. ASSUME NEW k \in KeyIds, NEW th \in ApiThreads, NEW i \in IdemKeys \union {NoKey},
             BeginSubmit(th, k, i)
      PROVE  ApiInv' /\ [QueueNext]_jobs
  BY <1>5, BeginStep DEF BeginSubmit, IdemOrNone
<1>6. ASSUME NEW k \in KeyIds, NEW r \in RunIds, run_status(k, r)
      PROVE  ApiInv' /\ [QueueNext]_jobs
  BY <1>6, StatusStep DEF run_status
<1>7. ASSUME NEW th \in ApiThreads, LookUp(th)
      PROVE  ApiInv' /\ [QueueNext]_jobs
  BY <1>7, LookUpStep DEF LookUp
<1>8. ASSUME NEW th \in ApiThreads, Remember(th)
      PROVE  ApiInv' /\ [QueueNext]_jobs
  BY <1>8, RememberStep DEF Remember
<1> QED
  BY <1>1, <1>2, <1>3, <1>4, <1>5, <1>6, <1>7, <1>8, EnqueueStep, AdoptStep DEF ApiNext

\* However threads interleave, keys come and go and runs are renamed: while the
\* server runs, a submission sent again once its key was answered starts nothing,
\* the answers for a key name one job, and no answer names another tenant's row
\* (agentorg/api).
THEOREM RetriesNeverStartAnything == ApiSpec => []RetriesStartNothing
<1>1. ApiInv => RetriesStartNothing
  <2> SUFFICES ASSUME ApiInv PROVE RetriesStartNothing
    OBVIOUS
  <2>1. \A th \in ApiThreads :
          thread[th].step \in {"enqueue", "remember"} => ~thread[th].retry
    BY DEF ApiInv, Honest
  <2>2. \A a \in answers :
          /\ a.job \in JobIds /\ origin[a.job].tenant = a.tenant
          /\ a.idem # NoKey => records[<<a.tenant, a.idem>>] = a.job
    BY DEF ApiInv, Owns
  <2> QED
    BY <2>1, <2>2 DEF RetriesStartNothing
<1> QED
  BY ApiFirst, ApiStep, <1>1, PTL DEF ApiSpec

\* Every step of the API and of the planner's renaming is one of the queue's, so
\* what JobQueue promises holds behind the API too.
THEOREM ApiUsesTheQueue == ApiSpec => QueueSpec
<1>1. ApiInit => QueueInit
  BY DEF ApiInit
<1> QED
  BY ApiFirst, ApiStep, <1>1, PTL DEF ApiSpec, QueueSpec
=============================================================================
