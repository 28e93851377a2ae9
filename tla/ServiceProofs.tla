---------------------------- MODULE ServiceProofs ----------------------------
(***************************************************************************)
(* Proofs about the services around the pipeline: the DynamoDB queue, the  *)
(* webhook function, the repository scope, the remembered scans, the       *)
(* tenants' rows and budgets. Each is an induction of its own *)
(* over a strengthening of the property; they share no state.              *)
(***************************************************************************)
EXTENDS DynamoQueue, Ingress, RepoScope, ScanCache, Tenancy, TLAPS

-----------------------------------------------------------------------------
(* The DynamoDB queue. Once a job was handed out its item is never ready     *)
(* again: the backend has no resume, and a pause leaves it paused.           *)

HandedInv ==
  /\ DynamoTypeOK
  /\ HandedOutOnce
  /\ \A t \in takings : items[t.job].status \in {"running", "paused"}

LEMMA HandedInit == DynamoInit => HandedInv
BY DEF DynamoInit, HandedInv, DynamoTypeOK, HandedOutOnce, NoItem

LEMMA ClaimIsFirst ==
  ASSUME HandedInv, NEW w \in DynamoWorkers, NEW j \in DynamoJobs, DynamoClaim(w, j)
  PROVE  HandedInv'
<1> DEFINE taking == [job |-> j, by |-> w]
<1>1. /\ takings' = takings \union {taking} /\ taking.job = j /\ taking.by = w
      /\ gsi2' = gsi2 /\ listed' = listed
      /\ \A t \in takings : t.job # j
  BY DEF DynamoClaim, Taken, HandedInv
<1>2. /\ items[j] \in [status : {"ready", "running", "paused"},
                       by : SUBSET DynamoWorkers, indexed : BOOLEAN]
      /\ items \in [DynamoJobs -> {NoItem} \union
                     [status : {"ready", "running", "paused"},
                      by : SUBSET DynamoWorkers, indexed : BOOLEAN]]
  BY DEF DynamoClaim, HandedInv, DynamoTypeOK, NoItem
<1>3. /\ items'[j] = [status |-> "running", by |-> {w}, indexed |-> items[j].indexed]
      /\ \A k \in DynamoJobs \ {j} : items'[k] = items[k]
      /\ items' \in [DynamoJobs -> {NoItem} \union
                     [status : {"ready", "running", "paused"},
                      by : SUBSET DynamoWorkers, indexed : BOOLEAN]]
  BY <1>2 DEF DynamoClaim, Taken
<1>4. DynamoTypeOK'
  BY <1>1, <1>3 DEF HandedInv, DynamoTypeOK
<1>5. \A t, u \in takings' : t.job = u.job => t = u
  BY <1>1 DEF HandedInv, HandedOutOnce
<1>6. \A k \in DynamoJobs :
        /\ items'[k].status = "running" =>
             \E t \in takings' : t.job = k /\ items'[k].by = {t.by}
        /\ gsi2'[k] # "none" => items'[k] # NoItem /\ items'[k].indexed
  <2> SUFFICES ASSUME NEW k \in DynamoJobs
               PROVE  /\ items'[k].status = "running" =>
                           \E t \in takings' : t.job = k /\ items'[k].by = {t.by}
                      /\ gsi2'[k] # "none" => items'[k] # NoItem /\ items'[k].indexed
    OBVIOUS
  <2>1. CASE k = j
    <3>1. items'[k].status = "running" /\ items'[k].by = {w} /\ items'[k] # NoItem
      BY <2>1, <1>3 DEF NoItem
    <3>2. gsi2'[k] # "none" => items'[k].indexed
      BY <2>1, <1>1, <1>3 DEF HandedInv, HandedOutOnce
    <3> QED
      BY <3>1, <3>2, <2>1, <1>1
  <2>2. CASE k # j
    BY <2>2, <1>1, <1>3 DEF HandedInv, HandedOutOnce
  <2> QED
    BY <2>1, <2>2
<1>7. \A t \in takings' : items'[t.job].status \in {"running", "paused"}
  BY <1>1, <1>3, <1>4 DEF HandedInv, DynamoTypeOK
<1> QED
  BY <1>4, <1>5, <1>6, <1>7 DEF HandedInv, HandedOutOnce

LEMMA HandedStep ==
  ASSUME HandedInv, [DynamoNext]_dynamoVars
  PROVE  HandedInv'
<1>1. CASE UNCHANGED dynamoVars
  BY <1>1 DEF dynamoVars, HandedInv, DynamoTypeOK, HandedOutOnce
<1>2. ASSUME NEW j \in DynamoJobs, DynamoEnqueue(j)
      PROVE  HandedInv'
  BY <1>2 DEF DynamoEnqueue, job_item, NoItem, HandedInv, DynamoTypeOK, HandedOutOnce
<1>3. ASSUME NEW j \in DynamoJobs, DynamoPause(j)
      PROVE  HandedInv'
  <2> DEFINE item == [status |-> "paused", by |-> {},
                      indexed |-> IF items[j] = NoItem THEN FALSE ELSE items[j].indexed]
  <2>1. /\ items' = [items EXCEPT ![j] = item]
        /\ gsi2' = gsi2 /\ listed' = listed /\ takings' = takings
    BY <1>3 DEF DynamoPause
  <2>2. /\ item.status = "paused" /\ item # NoItem
        /\ item \in [status : {"ready", "running", "paused"},
                     by : SUBSET DynamoWorkers, indexed : BOOLEAN]
        /\ gsi2[j] # "none" => item.indexed
    BY DEF HandedInv, DynamoTypeOK, HandedOutOnce, NoItem
  <2> HIDE DEF item
  <2>3. /\ items'[j] = item /\ \A k \in DynamoJobs \ {j} : items'[k] = items[k]
        /\ DynamoTypeOK'
    BY <2>1, <2>2 DEF HandedInv, DynamoTypeOK
  <2>4. HandedOutOnce'
    BY <2>1, <2>2, <2>3 DEF HandedInv, HandedOutOnce
  <2>5. \A t \in takings' : items'[t.job].status \in {"running", "paused"}
    BY <2>1, <2>2, <2>3 DEF HandedInv, DynamoTypeOK
  <2> QED
    BY <2>3, <2>4, <2>5 DEF HandedInv
<1>4. ASSUME NEW j \in DynamoJobs, Propagate(j)
      PROVE  HandedInv'
  BY <1>4 DEF Propagate, NoItem, HandedInv, DynamoTypeOK, HandedOutOnce
<1>5. ASSUME NEW w \in DynamoWorkers, ListReady(w)
      PROVE  HandedInv'
  BY <1>5 DEF ListReady, query_status, HandedInv, DynamoTypeOK, HandedOutOnce
<1> QED
  BY <1>1, <1>2, <1>3, <1>4, <1>5, ClaimIsFirst DEF DynamoNext

\* For any number of jobs and workers, and however far the index lags, a job of
\* the DynamoDB queue is handed to one worker at most (queue/_dynamo.py claim).
THEOREM JobsAreHandedOutOnce == DynamoSpec => []HandedOutOnce
<1>1. HandedInv => HandedOutOnce
  BY DEF HandedInv
<1> QED
  BY HandedInit, HandedStep, <1>1, PTL DEF DynamoSpec

-----------------------------------------------------------------------------
(* The webhook function. A warm instance works with a value the secret had.  *)

PublishedInv ==
  /\ IngressTypeOK
  /\ vault \in history \union {"blank"}
  /\ \A i \in Instances : warm[i] \in (history \ {"blank"}) \union {""}
  /\ accepted \subseteq bus
  /\ \A d \in bus : d.by \in history \ {"blank"} /\ d.body \in {"object", "array"}

\* What the API's door takes for GitHub, the function would take too.
LEMMA DoorsAgree ==
  ASSUME NEW d \in Deliveries, NEW s \in HookSecrets,
         d.provider = "github", d.post, verify_delivery(d, s) = 202
  PROVE  Admits(d, s) = 202
<1>1. s # "blank" /\ s # "" /\ d.provider \in Providers
  BY IngressAssumption DEF Providers
<1>2. verify_delivery(d, s) =
        IF d.by # s THEN 401 ELSE IF d.body = "object" THEN 202 ELSE 400
  BY <1>1 DEF verify_delivery
<1>3. d.by = s /\ d.body = "object"
  BY <1>2
<1>4. Reads(d)
  BY <1>1, <1>3 DEF Reads
<1> QED
  BY <1>1, <1>3, <1>4 DEF Admits

LEMMA AdmittedIsSigned ==
  ASSUME NEW d \in Deliveries, NEW s, Admits(d, s) = 202
  PROVE  s # "blank" /\ d.by = s /\ d.body \in {"object", "array"}
<1>1. Reads(d)
  <2>1. CASE ~d.post
    BY <2>1 DEF Admits
  <2>2. CASE d.post /\ ~Reads(d)
    <3>1. Admits(d, s) = 401
      BY <2>2 DEF Admits, Reads
    <3> QED
      BY <3>1
  <2> QED
    BY <2>1, <2>2
<1>2. Admits(d, s) = IF s = "blank" THEN 500
                     ELSE IF d.by # s THEN 401 ELSE IF d.body = "text" THEN 400 ELSE 202
  BY <1>1 DEF Admits, Reads
<1>3. s # "blank" /\ d.by = s /\ d.body # "text"
  BY <1>1, <1>2
<1>4. d.body \in {"object", "array"}
  BY <1>1, <1>3 DEF Deliveries, Reads
<1> QED
  BY <1>3, <1>4

LEMMA HandlerStep ==
  ASSUME PublishedInv, NEW i \in Instances, NEW d \in Deliveries, handler(i, d)
  PROVE  PublishedInv'
<1> DEFINE s == webhook_secret(i)
<1>1. s \in history \union {"blank"} /\ s # ""
  <2>1. CASE warm[i] # ""
    BY <2>1 DEF webhook_secret, PublishedInv
  <2>2. CASE warm[i] = ""
    BY <2>2, IngressAssumption DEF webhook_secret, PublishedInv, IngressTypeOK
  <2> QED
    BY <2>1, <2>2
<1>2. /\ warm' \in [Instances -> HookSecrets \union {""}]
      /\ \A k \in Instances : warm'[k] \in (history \ {"blank"}) \union {""}
  <2>1. s = "blank" \/ s \in HookSecrets
    BY DEF webhook_secret, PublishedInv, IngressTypeOK
  <2> QED
    BY <1>1, <2>1 DEF handler, Caches, PublishedInv, IngressTypeOK
<1>3. vault' = vault /\ history' = history
  BY DEF handler
<1>4. CASE Admits(d, s) = 202
  <2>1. d.by \in history \ {"blank"} /\ d.body \in {"object", "array"}
    <3>1. s # "blank" /\ d.by = s /\ d.body \in {"object", "array"}
      <4> HIDE DEF s
      <4> QED
        BY <1>4, AdmittedIsSigned
    <3> QED
      BY <1>1, <3>1
  <2>2. /\ bus' \in {bus, bus \union {d}} /\ accepted' \in {accepted, accepted \union {d}}
        /\ accepted' = accepted \/ bus' = bus \union {d}
    BY <1>4 DEF handler, Publish, Took, Acknowledged
  <2> QED
    BY <1>2, <1>3, <2>1, <2>2 DEF PublishedInv, IngressTypeOK
<1>5. CASE Admits(d, s) # 202
  BY <1>2, <1>3, <1>5 DEF handler, PublishedInv, IngressTypeOK
<1> QED
  BY <1>4, <1>5

LEMMA PublishedStep ==
  ASSUME PublishedInv, [IngressNext]_ingressVars
  PROVE  PublishedInv'
<1>1. CASE UNCHANGED ingressVars
  BY <1>1 DEF ingressVars, PublishedInv, IngressTypeOK
<1>2. ASSUME NEW s \in HookSecrets \union {"blank"}, Rotate(s)
      PROVE  PublishedInv'
  BY <1>2 DEF Rotate, PublishedInv, IngressTypeOK
<1>3. ASSUME NEW i \in Instances, Recycle(i)
      PROVE  PublishedInv'
  BY <1>3 DEF Recycle, PublishedInv, IngressTypeOK
<1> QED
  BY <1>1, <1>2, <1>3, HandlerStep DEF IngressNext

\* For any secrets, rotations and instances: a 202 of the webhook function is a
\* delivery on the bus, and all that is there was signed (infra/ingress).
THEOREM AcceptedIsAlwaysPublished == IngressSpec => []AcceptedIsPublished
<1>1. IngressInit => PublishedInv
  BY DEF IngressInit, PublishedInv, IngressTypeOK
<1>2. PublishedInv => AcceptedIsPublished
  <2> SUFFICES ASSUME PublishedInv PROVE AcceptedIsPublished
    OBVIOUS
  <2>1. \A d \in Deliveries, s \in HookSecrets :
          d.provider = "github" /\ d.post /\ verify_delivery(d, s) = 202
            => Admits(d, s) = 202
    BY DoorsAgree
  <2> QED
    BY <2>1 DEF PublishedInv, AcceptedIsPublished
<1> QED
  BY <1>1, <1>2, PublishedStep, PTL DEF IngressSpec

-----------------------------------------------------------------------------
(* The repository scope. A save that stays alone works on what is really     *)
(* there: nothing else moves the rows, and its first read was current.       *)

\* How far a save that is alone has brought the rows to what was asked for.
OnCourse(e) ==
  /\ \A f \in Editors \ {e} : ~Saving(f)
  /\ save[e].at = "reading" => replica = repos
  /\ save[e].at = "removing" => {r \in repos : r[2] \notin save[e].wanted} \subseteq save[e].doomed
  /\ save[e].at = "adding" => NamesOf(repos) \subseteq save[e].wanted

SaveType ==
  [at : {"idle", "reading", "removing", "adding"},
   wanted : SUBSET RepoNames, existing : SUBSET RepoNames,
   doomed : SUBSET (RepoRows \X RepoNames), alone : BOOLEAN]

ScopeInv ==
  /\ ScopeTypeOK
  /\ NamesOf(repos) \subseteq may
  /\ \A e \in Editors : Saving(e) => save[e].wanted \subseteq may
  /\ \A e \in Editors : save[e].alone => Saving(e) /\ OnCourse(e)

LEMMA ScopeTypes ==
  ScopeTypeOK <=> /\ repos \subseteq RepoRows \X RepoNames
                  /\ replica \subseteq RepoRows \X RepoNames
                  /\ save \in [Editors -> SaveType]
                  /\ may \subseteq RepoNames
BY DEF ScopeTypeOK, SaveType

LEMMA ScopeBegins ==
  ASSUME ScopeInv, NEW e \in Editors, NEW wanted \in SUBSET RepoNames,
         BeginSave(e, wanted)
  PROVE  ScopeInv'
<1> DEFINE quiet == replica = repos /\ \A f \in Editors : ~Saving(f)
           begun == [at |-> "reading", wanted |-> wanted, existing |-> NamesOf(replica),
                     doomed |-> {}, alone |-> quiet]
           shared(f) == [save[f] EXCEPT !.alone = FALSE]
<1>1. /\ ~Saving(e) /\ repos' = repos /\ replica' = replica /\ may' = may \union wanted
      /\ save' = [f \in Editors |-> IF f = e THEN begun ELSE shared(f)]
  BY DEF BeginSave
<1>2. /\ begun \in SaveType
      /\ begun.at = "reading" /\ begun.wanted = wanted /\ begun.alone = quiet
  BY ScopeTypes DEF ScopeInv, SaveType, NamesOf
<1>3. ASSUME NEW f \in Editors
      PROVE  /\ shared(f) \in SaveType /\ shared(f).at = save[f].at
             /\ shared(f).wanted = save[f].wanted /\ ~shared(f).alone
  <2>1. save[f] \in SaveType
    BY ScopeTypes DEF ScopeInv
  <2> QED
    BY <2>1 DEF SaveType
<1> HIDE DEF begun, shared
<1>4. save'[e] = begun /\ \A f \in Editors \ {e} : save'[f] = shared(f)
  BY <1>1
<1>5. ScopeTypeOK'
  <2>1. save' \in [Editors -> SaveType]
    BY <1>1, <1>2, <1>3
  <2>2. may' \subseteq RepoNames
    BY <1>1, ScopeTypes DEF ScopeInv
  <2> QED
    BY <1>1, <2>1, <2>2, ScopeTypes DEF ScopeInv, ScopeTypeOK, SaveType
<1>6. \A f \in Editors : Saving(f)' => save'[f].wanted \subseteq may'
  BY <1>1, <1>2, <1>3, <1>4 DEF ScopeInv, Saving
<1>7. \A f \in Editors : save'[f].alone => f = e /\ quiet
  BY <1>2, <1>3, <1>4
<1>8. quiet => Saving(e)' /\ OnCourse(e)'
  BY <1>1, <1>2, <1>3, <1>4 DEF Saving, OnCourse
<1>9. (NamesOf(repos) \subseteq may)'
  BY <1>1 DEF ScopeInv, NamesOf
<1> QED
  BY <1>5, <1>6, <1>7, <1>8, <1>9 DEF ScopeInv

\* What every step of a save under way does to it and leaves to the others.
SavesOn(e, new) ==
  /\ save' = [save EXCEPT ![e] = new]
  /\ new \in SaveType /\ new.at \in {"removing", "adding"}
  /\ new.wanted = save[e].wanted /\ new.alone = save[e].alone
  /\ replica' = replica /\ may' = may

\* A step that keeps the rows to what was asked for and the save on its course.
LEMMA SaveGoesOn ==
  ASSUME ScopeInv, NEW e \in Editors, Saving(e), NEW new, SavesOn(e, new),
         repos' \subseteq RepoRows \X RepoNames,
         NamesOf(repos') \subseteq NamesOf(repos) \union save[e].wanted,
         new.at = "removing" /\ OnCourse(e) /\ save[e].alone =>
           {r \in repos' : r[2] \notin new.wanted} \subseteq new.doomed,
         new.at = "adding" /\ OnCourse(e) /\ save[e].alone =>
           NamesOf(repos') \subseteq new.wanted
  PROVE  ScopeInv'
<1>1. /\ save'[e] = new /\ \A f \in Editors \ {e} : save'[f] = save[f]
      /\ save' \in [Editors -> SaveType]
  BY ScopeTypes DEF ScopeInv, SavesOn
<1>2. ScopeTypeOK'
  BY <1>1, ScopeTypes DEF ScopeInv, SavesOn, ScopeTypeOK, SaveType
<1>3. (NamesOf(repos) \subseteq may)'
  <2>1. NamesOf(repos) \union save[e].wanted \subseteq may /\ may' = may
    BY DEF ScopeInv, SavesOn
  <2> QED
    BY <2>1 DEF NamesOf
<1>4. \A f \in Editors : Saving(f)' => save'[f].wanted \subseteq may'
  BY <1>1 DEF ScopeInv, SavesOn, Saving
<1>5. \A f \in Editors \ {e} : ~save[f].alone
  BY DEF ScopeInv, OnCourse
<1>6. save[e].alone => OnCourse(e)'
  <2> SUFFICES ASSUME save[e].alone PROVE OnCourse(e)'
    OBVIOUS
  <2>1. OnCourse(e) /\ \A f \in Editors \ {e} : ~Saving(f)'
    BY <1>1 DEF ScopeInv, OnCourse, Saving
  <2>2. new.at # "reading"
    BY DEF SavesOn
  <2> QED
    BY <1>1, <2>1, <2>2 DEF OnCourse, NamesOf
<1>7. Saving(e)'
  BY <1>1 DEF SavesOn, Saving
<1> QED
  BY <1>1, <1>2, <1>3, <1>4, <1>5, <1>6, <1>7 DEF ScopeInv, SavesOn

LEMMA ScopeSaves ==
  ASSUME ScopeInv, NEW e \in Editors, Saving(e),
         ReadAgain(e) \/ RemoveOne(e) \/ RemovedAll(e) \/ AddOne(e)
  PROVE  ScopeInv'
<1>1. /\ save \in [Editors -> SaveType] /\ save[e] \in SaveType
      /\ repos \subseteq RepoRows \X RepoNames /\ replica \subseteq RepoRows \X RepoNames
  BY ScopeTypes DEF ScopeInv
<1>2. CASE ReadAgain(e)
  <2> DEFINE out == {r \in replica : r[2] \notin save[e].wanted}
             new == [save[e] EXCEPT !.at = "removing", !.doomed = out]
  <2>1. /\ save[e].at = "reading" /\ repos' = repos /\ replica' = replica /\ may' = may
        /\ save' = [save EXCEPT ![e] = new]
    BY <1>1, <1>2 DEF ReadAgain
  <2>2. /\ new \in SaveType /\ new.at = "removing" /\ new.doomed = out
        /\ new.wanted = save[e].wanted /\ new.alone = save[e].alone
    BY <1>1 DEF SaveType
  <2>3. OnCourse(e) => {r \in repos : r[2] \notin new.wanted} \subseteq out
    BY <2>1, <2>2 DEF OnCourse
  <2> HIDE DEF new, out
  <2> QED
    BY <1>1, <2>1, <2>2, <2>3, SaveGoesOn DEF SavesOn
<1>3. CASE RemoveOne(e)
  <2>1. PICK r \in save[e].doomed :
          /\ repos' = repos \ {r} /\ replica' = replica /\ may' = may
          /\ save' = [save EXCEPT ![e].doomed = @ \ {r}, ![e].existing = @ \ {r[2]}]
    BY <1>3 DEF RemoveOne
  <2> DEFINE new == [save[e] EXCEPT !.doomed = @ \ {r}, !.existing = @ \ {r[2]}]
  <2>2. save' = [save EXCEPT ![e] = new] /\ save[e].at = "removing"
    BY <1>1, <1>3, <2>1 DEF RemoveOne
  <2>3. /\ new \in SaveType /\ new.at = "removing" /\ new.doomed = save[e].doomed \ {r}
        /\ new.wanted = save[e].wanted /\ new.alone = save[e].alone
    BY <1>1, <2>2 DEF SaveType
  <2>4. /\ repos' \subseteq RepoRows \X RepoNames /\ NamesOf(repos') \subseteq NamesOf(repos)
        /\ OnCourse(e) => {q \in repos' : q[2] \notin new.wanted} \subseteq new.doomed
    BY <1>1, <2>1, <2>2, <2>3 DEF OnCourse, NamesOf
  <2> HIDE DEF new
  <2> QED
    BY <1>1, <2>1, <2>2, <2>3, <2>4, SaveGoesOn DEF SavesOn
<1>4. CASE RemovedAll(e)
  <2> DEFINE new == [save[e] EXCEPT !.at = "adding"]
  <2>1. /\ save[e].at = "removing" /\ save[e].doomed = {} /\ repos' = repos
        /\ replica' = replica /\ may' = may /\ save' = [save EXCEPT ![e] = new]
    BY <1>1, <1>4 DEF RemovedAll
  <2>2. /\ new \in SaveType /\ new.at = "adding"
        /\ new.wanted = save[e].wanted /\ new.alone = save[e].alone
    BY <1>1 DEF SaveType
  <2>3. OnCourse(e) => NamesOf(repos) \subseteq new.wanted
    BY <2>1, <2>2 DEF OnCourse, NamesOf
  <2> HIDE DEF new
  <2> QED
    BY <1>1, <2>1, <2>2, <2>3, SaveGoesOn DEF SavesOn
<1>5. CASE AddOne(e)
  <2>1. PICK name \in Missing(e), id \in RepoRows :
          /\ repos' = repos \union {<<id, name>>} /\ replica' = replica /\ may' = may
          /\ save' = [save EXCEPT ![e].existing = @ \union {name}]
    BY <1>5 DEF AddOne
  <2> DEFINE new == [save[e] EXCEPT !.existing = @ \union {name}]
  <2>2. /\ save' = [save EXCEPT ![e] = new] /\ save[e].at = "adding"
        /\ name \in save[e].wanted /\ name \in RepoNames
    BY <1>1, <1>5, <2>1 DEF AddOne, Missing, SaveType
  <2>3. /\ new \in SaveType /\ new.at = "adding"
        /\ new.wanted = save[e].wanted /\ new.alone = save[e].alone
    BY <1>1, <2>2 DEF SaveType
  <2>4. /\ repos' \subseteq RepoRows \X RepoNames
        /\ NamesOf(repos') = NamesOf(repos) \union {name}
    <3>1. <<id, name>>[2] = name /\ <<id, name>> \in RepoRows \X RepoNames
      BY <2>2
    <3>2. repos' \subseteq RepoRows \X RepoNames
      BY <1>1, <2>1, <3>1
    <3> DEFINE row == <<id, name>>
    <3> HIDE DEF row
    <3>3. repos' = repos \union {row} /\ row[2] = name
      BY <2>1, <3>1 DEF row
    <3>4. NamesOf(repos') = NamesOf(repos) \union {name}
      BY <3>3 DEF NamesOf
    <3> QED
      BY <3>2, <3>4
  <2>5. OnCourse(e) => NamesOf(repos') \subseteq new.wanted
    <3>1. OnCourse(e) => NamesOf(repos) \subseteq save[e].wanted
      BY <2>2 DEF OnCourse
    <3> DEFINE old == NamesOf(repos)
               now == NamesOf(repos')
               want == save[e].wanted
    <3>2. now = old \union {name} /\ name \in want /\ new.wanted = want
      BY <2>2, <2>3, <2>4
    <3> HIDE DEF new, old, now, want
    <3>3. old \subseteq want => now \subseteq new.wanted
      BY <3>2
    <3> QED
      BY <3>1, <3>3 DEF old, now, want
  <2> HIDE DEF new
  <2>6. SavesOn(e, new)
    BY <1>1, <2>1, <2>2, <2>3 DEF SavesOn
  <2>7. NamesOf(repos') \subseteq NamesOf(repos) \union save[e].wanted
    BY <2>2, <2>4
  <2>8. new.at # "removing"
    BY <2>3
  <2> QED
    BY <2>4, <2>5, <2>6, <2>7, <2>8, SaveGoesOn
<1> QED
  BY <1>2, <1>3, <1>4, <1>5

LEMMA ScopeSaveEnds ==
  ASSUME ScopeInv, NEW e \in Editors, Saving(e), FinishSave(e) \/ AbandonSave(e)
  PROVE  ScopeInv'
<1>1. /\ repos' = repos /\ replica' = replica /\ save' = [save EXCEPT ![e] = NotSaving]
      /\ save \in [Editors -> SaveType] /\ may \subseteq RepoNames
  BY ScopeTypes DEF FinishSave, AbandonSave, ScopeInv
<1>2. NotSaving \in SaveType /\ NotSaving.at = "idle" /\ ~NotSaving.alone
  BY DEF NotSaving, SaveType
<1>3. /\ save'[e] = NotSaving /\ \A f \in Editors \ {e} : save'[f] = save[f]
      /\ save' \in [Editors -> SaveType]
  BY <1>1, <1>2
<1>4. CASE may' = may
  BY <1>1, <1>2, <1>3, <1>4 DEF ScopeInv, ScopeTypeOK, SaveType, Saving, OnCourse
<1>5. CASE save[e].alone /\ may' = save[e].wanted /\ save[e].at = "adding"
  <2>1. /\ \A f \in Editors \ {e} : ~Saving(f)
        /\ NamesOf(repos) \subseteq save[e].wanted /\ save[e].wanted \subseteq RepoNames
    BY <1>1, <1>5 DEF ScopeInv, OnCourse
  <2> QED
    BY <1>1, <1>2, <1>3, <1>5, <2>1 DEF ScopeInv, ScopeTypeOK, SaveType, Saving, OnCourse
<1> QED
  BY <1>4, <1>5 DEF FinishSave, AbandonSave

LEMMA ScopeStep ==
  ASSUME ScopeInv, [ScopeNext]_scopeVars
  PROVE  ScopeInv'
<1>1. CASE UNCHANGED scopeVars
  BY <1>1 DEF scopeVars, ScopeInv, ScopeTypeOK, Saving, OnCourse, NamesOf
<1>2. CASE Replicate
  BY <1>2 DEF Replicate, ScopeInv, ScopeTypeOK, Saving, OnCourse, NamesOf
<1>3. ASSUME NEW e \in Editors,
             \/ ReadAgain(e) \/ RemoveOne(e) \/ RemovedAll(e) \/ AddOne(e)
             \/ FinishSave(e) \/ AbandonSave(e)
      PROVE  ScopeInv'
  <2>1. Saving(e)
    BY <1>3 DEF Saving, ReadAgain, RemoveOne, RemovedAll, AddOne, FinishSave, AbandonSave
  <2> QED
    BY <1>3, <2>1, ScopeSaves, ScopeSaveEnds
<1> QED
  BY <1>1, <1>2, <1>3, ScopeBegins DEF ScopeNext

\* For any repositories and editors: overlapping saves over a lagging replica
\* bring nothing into scope that nobody asked for, and a save alone on a current
\* read leaves nothing in it but what it asked for (web/lib/dynamo setScope).
THEOREM ScopeIsAlwaysAsAsked == ScopeSpec => []ScopeIsAsAsked
<1>1. ScopeInit => ScopeInv
  BY DEF ScopeInit, ScopeInv, ScopeTypeOK, Saving, NotSaving, NamesOf
<1>2. ScopeInv => ScopeIsAsAsked
  BY DEF ScopeInv, ScopeIsAsAsked
<1> QED
  BY <1>1, <1>2, ScopeStep, PTL DEF ScopeSpec

-----------------------------------------------------------------------------
(* The remembered scans. *)

\* What a stored scan says of each scanner: it answered, and gitleaks, if it
\* worked, found the key of a keyed change.
LEMMA StoredIsWhole ==
  ASSUME NEW c \in Changes, NEW m \in Machines, Storable(fan_out(c, m))
  PROVE  /\ \A t \in Tools : m.health[t] \in {"ok", "null"}
         /\ c = "keyed" /\ m.health["gitleaks"] = "ok" =>
              \E f \in fan_out(c, m).findings : f.severity = "critical"
<1> DEFINE scans == Scanned(c, m)
           found == UNION {scans[t].findings : t \in Tools}
<1>1. /\ fan_out(c, m).findings = found
      /\ \A t \in Tools : ~scans[t].raised
      /\ \A f \in found : f.rule # "fault"
  BY DEF Storable, fan_out, is_fault_free, Scanned
<1>2. \A t \in Tools : scans[t].findings \subseteq found
  OBVIOUS
<1> HIDE DEF found
<1>3. \A t \in Tools : error_finding(t) \notin scans[t].findings
  BY <1>1, <1>2 DEF error_finding
<1>4. /\ scans["semgrep"] = semgrep(c, m.health["semgrep"], m.words, m.required)
      /\ scans["gitleaks"] = gitleaks(c, m.health["gitleaks"], m.words, m.required)
      /\ scans["trivy"] = trivy(c, m.health["trivy"], m.words, m.required)
      /\ "semgrep" \in Tools /\ "gitleaks" \in Tools /\ "trivy" \in Tools
  BY DEF Scanned, Tools
<1>5. /\ m.health["semgrep"] \in {"norules", "absent", "stopped", "unusable", "null", "ok"}
      /\ m.health["gitleaks"] \in {"absent", "stopped", "unusable", "null", "ok"}
      /\ m.health["trivy"] \in {"absent", "stopped", "unusable", "null", "ok"}
  BY DEF Machines, Health, Tools
<1> HIDE DEF scans
<1>6. m.health["semgrep"] = "ok"
  BY <1>1, <1>3, <1>4, <1>5
     DEF semgrep, Ran, safe_run, unrunnable_findings, Raised, Fault, Answer
<1>7. m.health["trivy"] = "ok"
  BY <1>1, <1>3, <1>4, <1>5
     DEF trivy, Ran, safe_run, unrunnable_findings, Raised, Fault, Answer
<1>8. m.health["gitleaks"] \in {"ok", "null"}
  BY <1>1, <1>3, <1>4, <1>5
     DEF gitleaks, Ran, safe_run, unrunnable_findings, Raised, Fault, Answer
<1>9. c = "keyed" /\ m.health["gitleaks"] = "ok" => \E f \in found : f.severity = "critical"
  <2> SUFFICES ASSUME c = "keyed", m.health["gitleaks"] = "ok"
               PROVE  \E f \in found : f.severity = "critical"
    OBVIOUS
  <2>1. scans["gitleaks"] = Hits("gitleaks", {"odd"})
    BY <1>4 DEF gitleaks, Ran, safe_run
  <2> DEFINE leak == [tool |-> "gitleaks", severity |-> "critical", rule |-> "hit"]
  <2>2. leak \in scans["gitleaks"].findings
    BY <2>1 DEF Hits, Answer, map_severity, policy_severity
  <2> QED
    BY <1>2, <1>4, <2>2
<1>10. \A t \in Tools : t \in {"semgrep", "gitleaks", "trivy"}
  BY DEF Tools
<1> QED
  BY <1>1, <1>6, <1>7, <1>8, <1>9, <1>10

\* A critical finding blocks at every threshold the floor admits.
LEMMA CriticalBlocks ==
  ASSUME NEW findings, NEW t \in Severities,
         \E f \in findings : f.severity = "critical"
  PROVE  compute_security_verdict(findings, t) = "block"
BY DEF compute_security_verdict, Blocking, SEVERITY_ORDER, Severities

ScanInv ==
  /\ memo = [c \in Changes |-> memo[c]]
  /\ RememberedScansAreWhole

LEMMA ScanStep ==
  ASSUME ScanInv, [ScanNext]_scanVars
  PROVE  ScanInv'
<1>1. CASE UNCHANGED scanVars
  BY <1>1 DEF scanVars, ScanInv, RememberedScansAreWhole
<1>2. CASE reset_scanner_cache
  BY <1>2 DEF reset_scanner_cache, Forgotten, ScanInv, RememberedScansAreWhole
<1>3. ASSUME NEW c \in Changes, NEW m \in ScanMachines, NEW t \in Severities,
             Assess(c, m, t)
      PROVE  ScanInv'
  <2>1. CASE memo' = memo
    BY <2>1 DEF ScanInv, RememberedScansAreWhole
  <2>2. CASE memo' # memo
    <3> DEFINE result == fan_out(c, m)
               kept == Remembered(result.findings, m.health)
    <3>1. Storable(result) /\ memo' = [memo EXCEPT ![c] = kept]
      BY <1>3, <2>2 DEF Assess
    <3>2. m \in Machines
      BY DEF ScanMachines
    <3>3. /\ \A u \in Tools : m.health[u] \in {"ok", "null"}
          /\ c = "keyed" /\ m.health["gitleaks"] = "ok" =>
               \E f \in result.findings : f.severity = "critical"
      BY <3>1, <3>2, StoredIsWhole
    <3>4. kept.health = m.health /\ kept.findings = result.findings
      BY DEF Remembered
    <3> HIDE DEF kept, result
    <3>5. /\ memo'[c] = kept /\ \A d \in Changes \ {c} : memo'[d] = memo[d]
          /\ memo' = [d \in Changes |-> memo'[d]]
      BY <3>1 DEF ScanInv
    <3>6. c = "keyed" /\ kept.health["gitleaks"] = "ok" =>
            \A u \in {v \in Severities : resolve_threshold(v)} :
              compute_security_verdict(kept.findings, u) = "block"
      BY <3>3, <3>4, CriticalBlocks
    <3> QED
      BY <3>3, <3>4, <3>5, <3>6 DEF ScanInv, RememberedScansAreWhole
  <2> QED
    BY <2>1, <2>2
<1> QED
  BY <1>1, <1>2, <1>3 DEF ScanNext

\* Whatever words the scanners report and however they come and go, a scan that
\* is remembered is one they all took part in (security/__init__.py _CACHE).
THEOREM RememberedScansAreAlwaysWhole == ScanSpec => []RememberedScansAreWhole
<1>1. ScanInit => ScanInv
  BY DEF ScanInit, Forgotten, ScanInv, RememberedScansAreWhole
<1>2. ScanInv => RememberedScansAreWhole
  BY DEF ScanInv
<1> QED
  BY <1>1, <1>2, ScanStep, PTL DEF ScanSpec

-----------------------------------------------------------------------------
(* The tenants' rows and budgets.                                            *)

Budgets == [ceiling : Nat, unlimited : BOOLEAN, spent : Nat]

Tasks ==
  {Resting} \union
  [step : {"set"}, tenant : TenantIds, ceiling : Cents, unlimited : BOOLEAN,
   existed : BOOLEAN] \union
  [step : {"spend"}, tenant : TenantIds, cents : Cents, saw : Nat]

TenantsTyped ==
  /\ stored \in [RowKeys -> {NoRow} \union [owner : TenantIds, by : TenantIds]]
  /\ budget \in [TenantIds -> {NoBudget} \union Budgets]
  /\ charged \in [TenantIds -> Nat]
  /\ doing \in [Processes -> Tasks]

\* No budget is ever taken away, so a charge under way still finds its own.
TenantsInv ==
  /\ TenantsTyped
  /\ \A p \in Processes : doing[p].step = "spend" => budget[doing[p].tenant] # NoBudget
  /\ TenantsStayApart

\* A step that keeps to the rows, and one that keeps to the budgets.
BudgetsRest == UNCHANGED <<budget, charged, doing>>
RowsRest == UNCHANGED stored /\ (reply' = reply \/ reply'.what # "found")

LEMMA RowsStep ==
  ASSUME TenantsInv, BudgetsRest,
         stored' \in [RowKeys -> {NoRow} \union [owner : TenantIds, by : TenantIds]],
         \A k \in RowKeys : stored'[k] # NoRow => stored'[k].by = stored'[k].owner,
         reply' = reply \/ (reply'.what = "found" => reply'.owner = reply'.asker)
  PROVE  TenantsInv'
BY DEF TenantsInv, TenantsTyped, TenantsStayApart, BudgetsRest

LEMMA RequireFinds ==
  ASSUME NEW t, NEW owner, NEW kind, Discreet(kind, require(t, owner)) = "found"
  PROVE  owner = t
BY DEF Discreet, require

LEMMA RowActions ==
  ASSUME TenantsInv, NEW p \in Processes, NEW t \in TenantIds, NEW k \in RowKeys,
         GetRow(p, t, k) \/ AddRow(p, t, k) \/ ChangeRow(p, t, k)
  PROVE  TenantsInv'
<1>0. stored \in [RowKeys -> {NoRow} \union [owner : TenantIds, by : TenantIds]]
  BY DEF TenantsInv, TenantsTyped
<1>00. /\ NoRow.owner = "" /\ \A x \in [owner : TenantIds, by : TenantIds] : x # NoRow
       /\ Row(t, t) \in [owner : TenantIds, by : TenantIds]
       /\ Row(t, t).by = t /\ Row(t, t).owner = t
  <2>1. NoRow.owner = "" /\ \A x \in [owner : TenantIds, by : TenantIds] : x.owner # ""
    BY TenancyAssumption DEF NoRow
  <2>2. \A x \in [owner : TenantIds, by : TenantIds] : x # NoRow
    BY <2>1
  <2> QED
    BY <2>1, <2>2 DEF Row
<1>1. CASE GetRow(p, t, k)
  <2> DEFINE answer == Discreet(k[1], require(t, stored[k].owner))
  <2>1. /\ UNCHANGED <<stored, budget, charged, doing>>
        /\ reply' = [asker |-> t, what |-> answer,
                     owner |-> IF answer = "found" THEN stored[k].owner ELSE ""]
    BY <1>1 DEF GetRow, Says
  <2>2. answer = "found" => stored[k].owner = t
    BY RequireFinds
  <2> HIDE DEF answer
  <2> QED
    BY <1>0, <2>1, <2>2, RowsStep DEF BudgetsRest, TenantsInv, TenantsStayApart
<1>2. CASE AddRow(p, t, k)
  <2>1. UNCHANGED <<budget, charged, doing, reply>>
    BY <1>2 DEF AddRow
  <2>2. stored' = stored \/ stored' = [stored EXCEPT ![k] = Row(t, t)]
    BY <1>2 DEF AddRow
  <2> QED
    BY <1>0, <1>00, <2>1, <2>2, RowsStep DEF BudgetsRest, TenantsInv, TenantsStayApart
<1>3. CASE ChangeRow(p, t, k)
  <2> DEFINE answer == require(t, stored[k].owner)
  <2>1. /\ UNCHANGED <<budget, charged, doing>>
        /\ reply' = [asker |-> t, what |-> answer,
                     owner |-> IF answer = "found" THEN stored[k].owner ELSE ""]
    BY <1>3 DEF ChangeRow, Says
  <2>2. answer = "found" => stored[k].owner = t
    BY DEF require
  <2>3. stored' = IF answer # "found" THEN stored
                 ELSE IF k[1] = "membership" THEN [stored EXCEPT ![k] = NoRow]
                 ELSE [stored EXCEPT ![k].by = t]
    BY <1>3 DEF ChangeRow
  <2> HIDE DEF answer
  <2>4. CASE stored' = stored
    BY <1>0, <2>1, <2>2, <2>4, RowsStep DEF BudgetsRest, TenantsInv, TenantsStayApart
  <2>5. CASE stored' = [stored EXCEPT ![k] = NoRow]
    BY <1>0, <2>1, <2>2, <2>5, RowsStep DEF BudgetsRest, TenantsInv, TenantsStayApart
  <2>6. CASE answer = "found" /\ stored' = [stored EXCEPT ![k].by = t]
    <3> DEFINE new == [stored[k] EXCEPT !.by = t]
    <3>1. stored[k] \in [owner : TenantIds, by : TenantIds] /\ stored[k].owner = t
      BY <1>0, <1>00, <2>2, <2>6, TenancyAssumption
    <3>2. /\ new \in [owner : TenantIds, by : TenantIds] /\ new.owner = t /\ new.by = t
          /\ stored' = [stored EXCEPT ![k] = new]
      BY <3>1, <2>6
    <3> HIDE DEF new
    <3> QED
      BY <1>0, <2>1, <2>2, <3>2, RowsStep DEF BudgetsRest, TenantsInv, TenantsStayApart
  <2> QED
    BY <2>3, <2>4, <2>5, <2>6
<1> QED
  BY <1>1, <1>2, <1>3

(* What a charge, or a budget newly set, leaves.                             *)

LEMMA TaskFields ==
  /\ \A d \in Tasks : d.step = "set" =>
       d.tenant \in TenantIds /\ d.ceiling \in Nat /\ d.unlimited \in BOOLEAN
         /\ d.existed \in BOOLEAN
  /\ \A d \in Tasks : d.step = "spend" => d.tenant \in TenantIds /\ d.cents \in Nat
  /\ Resting \in Tasks /\ Resting.step = "none"
  /\ NoBudget \notin Budgets
<1>1. Resting \in Tasks /\ Resting.step = "none"
  BY DEF Tasks, Resting
<1>2. NoBudget \notin Budgets
  <2>1. NoBudget.ceiling = -1 /\ \A b \in Budgets : b.ceiling \in Nat
    BY DEF NoBudget, Budgets
  <2>2. ~(-1 \in Nat)
    OBVIOUS
  <2> QED
    BY <2>1, <2>2
<1>3. ASSUME NEW d \in Tasks
      PROVE  /\ d.step = "set" => d.tenant \in TenantIds /\ d.ceiling \in Nat
                                   /\ d.unlimited \in BOOLEAN /\ d.existed \in BOOLEAN
             /\ d.step = "spend" => d.tenant \in TenantIds /\ d.cents \in Nat
  BY <1>1, TenancyAssumption DEF Tasks
<1> QED
  BY <1>1, <1>2, <1>3

\* A step that replaces one tenant's budget and what it was charged.
LEMMA BudgetBecomes ==
  ASSUME TenantsInv, RowsRest, NEW t \in TenantIds, NEW b \in Budgets, NEW c \in Nat,
         budget' = [budget EXCEPT ![t] = b],
         charged' = [charged EXCEPT ![t] = c], c = b.spent,
         doing' \in [Processes -> Tasks],
         \A p \in Processes : doing'[p].step = "spend" => doing'[p] = doing[p]
  PROVE  TenantsInv'
<1>1. /\ budget' \in [TenantIds -> {NoBudget} \union Budgets] /\ budget'[t] = b
      /\ charged' \in [TenantIds -> Nat] /\ charged'[t] = c
      /\ \A u \in TenantIds \ {t} : budget'[u] = budget[u] /\ charged'[u] = charged[u]
      /\ b # NoBudget
  BY TaskFields DEF TenantsInv, TenantsTyped
<1>2. TenantsTyped'
  BY <1>1 DEF TenantsInv, TenantsTyped, RowsRest
<1>3. \A p \in Processes : doing'[p].step = "spend" => budget'[doing'[p].tenant] # NoBudget
  BY <1>1, TaskFields DEF TenantsInv, TenantsTyped
<1>4. TenantsStayApart'
  BY <1>1 DEF TenantsInv, TenantsStayApart, RowsRest
<1> QED
  BY <1>2, <1>3, <1>4 DEF TenantsInv

\* A step of the budgets that only begins or ends something.
LEMMA BudgetsStay ==
  ASSUME TenantsInv, RowsRest, UNCHANGED <<budget, charged>>,
         doing' \in [Processes -> Tasks],
         \A p \in Processes : doing'[p].step = "spend" =>
           doing'[p] = doing[p] \/ budget[doing'[p].tenant] # NoBudget
  PROVE  TenantsInv'
BY DEF TenantsInv, TenantsTyped, TenantsStayApart, RowsRest

LEMMA TaskEnds ==
  ASSUME TenantsInv, NEW p \in Processes, doing' = [doing EXCEPT ![p] = Resting]
  PROVE  /\ doing' \in [Processes -> Tasks]
         /\ \A q \in Processes : doing'[q].step = "spend" => doing'[q] = doing[q]
BY TaskFields DEF TenantsInv, TenantsTyped

LEMMA TasksBegin ==
  ASSUME TenantsInv, NEW p \in Processes, NEW t \in TenantIds, NEW cents \in Cents,
         NEW u \in BOOLEAN,
         BeginSet(p, t, cents, u) \/ BeginSpend(p, t, cents)
  PROVE  TenantsInv'
<1>0. /\ budget \in [TenantIds -> {NoBudget} \union Budgets]
      /\ doing \in [Processes -> Tasks] /\ doing[p] \in Tasks
      /\ cents \in Nat
  BY TenancyAssumption DEF TenantsInv, TenantsTyped
<1>1. CASE BeginSet(p, t, cents, u)
  <2> DEFINE existed == budget[t] # NoBudget /\ Visible(conn[p].bound, t)
             task == [step |-> "set", tenant |-> t, ceiling |-> cents, unlimited |-> u,
                      existed |-> existed]
  <2>1. UNCHANGED <<stored, reply, budget, charged>> /\ doing' = [doing EXCEPT ![p] = task]
    BY <1>1 DEF BeginSet
  <2>2. task \in Tasks /\ task.step = "set"
    BY DEF Tasks
  <2> HIDE DEF task
  <2> QED
    BY <1>0, <2>1, <2>2, BudgetsStay DEF RowsRest
<1>2. CASE BeginSpend(p, t, cents)
  <2> DEFINE task == [step |-> "spend", tenant |-> t, cents |-> cents, saw |-> budget[t].spent]
  <2>1. /\ UNCHANGED <<stored, reply, budget, charged>> /\ doing' = [doing EXCEPT ![p] = task]
        /\ budget[t] # NoBudget
    BY <1>2 DEF BeginSpend
  <2>2. task \in Tasks /\ task.tenant = t
    BY <1>0, <2>1 DEF Tasks, Budgets
  <2> HIDE DEF task
  <2> QED
    BY <1>0, <2>1, <2>2, BudgetsStay DEF RowsRest
<1> QED
  BY <1>1, <1>2

LEMMA TasksEnd ==
  ASSUME TenantsInv, NEW p \in Processes, FinishSet(p) \/ FinishSpend(p)
  PROVE  TenantsInv'
<1>0. /\ budget \in [TenantIds -> {NoBudget} \union Budgets]
      /\ charged \in [TenantIds -> Nat]
      /\ doing \in [Processes -> Tasks] /\ doing[p] \in Tasks
      /\ \A s \in TenantIds :
           charged[s] = IF budget[s] = NoBudget THEN 0 ELSE budget[s].spent
  BY DEF TenantsInv, TenantsTyped, TenantsStayApart
<1>1. CASE FinishSet(p)
  <2> DEFINE d == doing[p]
             new == [ceiling |-> d.ceiling, unlimited |-> d.unlimited,
                     spent |-> IF d.existed THEN budget[d.tenant].spent ELSE 0]
  <2>1. /\ UNCHANGED <<stored, reply, charged>> /\ doing' = [doing EXCEPT ![p] = Resting]
        /\ d.step = "set" /\ d.tenant \in TenantIds
    BY <1>0, <1>1, TaskFields DEF FinishSet
  <2>2. CASE budget' = budget
    BY <1>0, <2>1, <2>2, TaskEnds, BudgetsStay DEF RowsRest
  <2>3. CASE budget' # budget
    <3>1. /\ d.existed = (budget[d.tenant] # NoBudget)
          /\ budget' = [budget EXCEPT ![d.tenant] = new]
      BY <1>1, <2>3 DEF FinishSet
    <3>2. new \in Budgets /\ new.spent = charged[d.tenant]
      BY <1>0, <2>1, <3>1, TaskFields DEF Budgets
    <3>3. charged' = [charged EXCEPT ![d.tenant] = charged[d.tenant]] /\ charged[d.tenant] \in Nat
      BY <1>0, <2>1
    <3> HIDE DEF new, d
    <3> QED
      BY <2>1, <3>1, <3>2, <3>3, TaskEnds, BudgetBecomes DEF RowsRest
  <2> QED
    BY <2>2, <2>3
<1>2. CASE FinishSpend(p)
  <2> DEFINE d == doing[p]
             new == [budget[d.tenant] EXCEPT !.spent = @ + d.cents]
  <2>1. /\ UNCHANGED <<stored, reply>> /\ doing' = [doing EXCEPT ![p] = Resting]
        /\ d.step = "spend" /\ d.tenant \in TenantIds /\ d.cents \in Nat
        /\ budget[d.tenant] \in Budgets
    BY <1>0, <1>2, TaskFields DEF FinishSpend, TenantsInv
  <2>2. /\ budget' = [budget EXCEPT ![d.tenant] = new]
        /\ charged' = [charged EXCEPT ![d.tenant] = charged[d.tenant] + d.cents]
    BY <1>0, <1>2, <2>1 DEF FinishSpend, Charged
  <2>3. new \in Budgets /\ new.spent = charged[d.tenant] + d.cents
    BY <1>0, <2>1, TaskFields DEF Budgets
  <2>4. charged[d.tenant] + d.cents \in Nat
    BY <1>0, <2>1
  <2> HIDE DEF new, d
  <2> QED
    BY <2>1, <2>2, <2>3, <2>4, TaskEnds, BudgetBecomes DEF RowsRest
<1> QED
  BY <1>1, <1>2

LEMMA Adoption ==
  ASSUME TenantsInv, NEW p \in Processes, adopt(p)
  PROVE  TenantsInv'
<1> DEFINE org == <<"organisation", TenantZero>>
           own == Row(TenantZero, TenantZero)
           new == [ceiling |-> 0, spent |-> 0, unlimited |-> TRUE]
<1>1. /\ TenantZero \in TenantIds /\ budget[TenantZero] = NoBudget
      /\ stored' = [stored EXCEPT ![org] = own]
      /\ budget' = [budget EXCEPT ![TenantZero] = new]
      /\ UNCHANGED <<charged, doing, reply>>
  BY TenancyAssumption DEF adopt
<1>2. /\ own \in [owner : TenantIds, by : TenantIds] /\ own.owner = own.by
      /\ new \in Budgets /\ new.spent = 0
  BY <1>1 DEF Row, Budgets
<1> HIDE DEF org, own, new
<1>3. /\ stored' \in [RowKeys -> {NoRow} \union [owner : TenantIds, by : TenantIds]]
      /\ \A k \in RowKeys : stored'[k] \in {own, stored[k]}
  BY <1>1, <1>2 DEF TenantsInv, TenantsTyped
<1>4. /\ budget' \in [TenantIds -> {NoBudget} \union Budgets] /\ budget'[TenantZero] = new
      /\ \A t \in TenantIds \ {TenantZero} : budget'[t] = budget[t]
      /\ new # NoBudget
  BY <1>1, <1>2, TaskFields DEF TenantsInv, TenantsTyped
<1>5. TenantsTyped'
  BY <1>1, <1>3, <1>4 DEF TenantsInv, TenantsTyped
<1>6. \A q \in Processes : doing'[q].step = "spend" => budget'[doing'[q].tenant] # NoBudget
  BY <1>1, <1>4, TaskFields DEF TenantsInv, TenantsTyped
<1>7. TenantsStayApart'
  BY <1>1, <1>2, <1>3, <1>4 DEF TenantsInv, TenantsStayApart
<1> QED
  BY <1>5, <1>6, <1>7 DEF TenantsInv

\* Secrets, and what only looks, touch neither rows nor budgets; a secret is
\* only ever answered to its own tenant.
LEMMA OtherActions ==
  ASSUME TenantsInv, NEW p \in Processes, NEW t \in TenantIds, NEW n, NEW cents,
         \/ put_secret(p, t, n) \/ get_secret(p, t, n) \/ delete_secret(p, t, n)
         \/ check(p, t, cents)
  PROVE  TenantsInv'
<1>1. UNCHANGED <<stored, budget, charged, doing>>
  BY DEF put_secret, get_secret, delete_secret, check
<1>2. reply' = reply \/ (reply'.what = "found" => reply'.owner = reply'.asker)
  <2>1. CASE reply' = reply
    BY <2>1
  <2>2. CASE check(p, t, cents)
    <3> DEFINE b == budget[t]
               what == IF b = NoBudget \/ ~Visible(conn[p].bound, t) THEN "no budget"
                       ELSE IF b.unlimited \/ b.spent + cents <= b.ceiling THEN "allowed"
                       ELSE "over ceiling"
    <3>1. reply' = [asker |-> t, what |-> what, owner |-> t]
      BY <2>2, Zenon DEF check, Says
    <3> HIDE DEF what
    <3> QED
      BY <3>1
  <2>3. CASE get_secret(p, t, n)
    <3>1. CASE reply' = [asker |-> t, what |-> "not found", owner |-> ""]
      BY <3>1
    <3>2. CASE \E s \in vaulted : Says(t, decrypt(s), t)
      <4>1. PICK s \in vaulted : reply' = [asker |-> t, what |-> decrypt(s), owner |-> t]
        BY <3>2 DEF Says
      <4> QED
        BY <4>1
    <3> QED
      BY <2>3, <3>1, <3>2 DEF get_secret, Says
  <2>4. put_secret(p, t, n) \/ delete_secret(p, t, n) => reply' = reply
    BY DEF put_secret, delete_secret
  <2> QED
    BY <2>1, <2>2, <2>3, <2>4
<1> QED
  BY <1>1, <1>2 DEF TenantsInv, TenantsTyped, TenantsStayApart

LEMMA TenantsStep ==
  ASSUME TenantsInv, [TenancyNext]_tenancyVars
  PROVE  TenantsInv'
<1>1. CASE UNCHANGED tenancyVars
  BY <1>1 DEF tenancyVars, TenantsInv, TenantsTyped, TenantsStayApart
<1>2. ASSUME NEW p \in Processes, Reconnect(p)
      PROVE  TenantsInv'
  <2>1. RowsRest /\ UNCHANGED <<budget, charged>> /\ doing' = [doing EXCEPT ![p] = Resting]
    BY <1>2 DEF Reconnect, RowsRest
  <2> QED
    BY <2>1, TaskEnds, BudgetsStay
<1>3. ASSUME NEW key, RotateMaster(key)
      PROVE  TenantsInv'
  BY <1>3 DEF RotateMaster, TenantsInv, TenantsTyped, TenantsStayApart
<1> QED
  BY <1>1, <1>2, <1>3, RowActions, TasksBegin, TasksEnd, Adoption, OtherActions
     DEF TenancyNext, RowsNext, SecretsNext, BudgetsNext

\* For any tenants, ids and connections, on either database: rows, secrets and
\* budgets stay their tenant's, and no charge is lost (tenancy/accessors.py).
THEOREM TenantsAlwaysStayApart == TenancySpec => []TenantsStayApart
<1>1. TenancyInit => TenantsInv
  <2> SUFFICES ASSUME TenancyInit PROVE TenantsInv
    OBVIOUS
  <2>1. TenantsTyped
    BY TaskFields DEF TenancyInit, TenantsTyped
  <2>2. \A p \in Processes : doing[p].step # "spend"
    BY TaskFields DEF TenancyInit
  <2>3. TenantsStayApart
    BY DEF TenancyInit, TenantsStayApart
  <2> QED
    BY <2>1, <2>2, <2>3 DEF TenantsInv
<1>2. TenantsInv => TenantsStayApart
  BY DEF TenantsInv
<1> QED
  BY <1>1, <1>2, TenantsStep, PTL DEF TenancySpec
=============================================================================
