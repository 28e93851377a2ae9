----------------------------- MODULE DynamoQueue -----------------------------
(***************************************************************************)
(* The work queue on DynamoDB (queue/_dynamo.py): one item per job, every  *)
(* operation one request, and the listings read an index that lags behind  *)
(* the items. The backend has no resume, no completion and no lease clock: *)
(* an item goes from ready to running to paused and stays.                 *)
(***************************************************************************)
EXTENDS Naturals, FiniteSets

CONSTANTS
  DynamoJobs,     \* job ids, of one tenant
  DynamoWorkers   \* identities handed to claim

VARIABLES
  items,    \* the table
  gsi2,     \* the index the listings read, as far as it has caught up
  listed,   \* what each worker's last listing of ready jobs held
  takings   \* history: the claims that were answered with the item

dynamoVars == <<items, gsi2, listed, takings>>

-----------------------------------------------------------------------------
NoItem == [status |-> "none"]

\* Both index keys are written when the item is.
job_item == [status |-> "ready", by |-> {}, indexed |-> TRUE]

\* Put if absent; whatever is there under the key refuses it.
DynamoEnqueue(j) ==
  /\ items[j] = NoItem
  /\ items' = [items EXCEPT ![j] = job_item]
  /\ UNCHANGED <<gsi2, listed, takings>>

\* awaiting and ready are one query on the index, pages and all.
query_status(status) == {j \in DynamoJobs : gsi2[j] = status}

ListReady(w) ==
  /\ listed' = [listed EXCEPT ![w] = query_status("ready")]
  /\ UNCHANGED <<items, gsi2, takings>>

Taken(j, w) ==
  /\ items' = [items EXCEPT ![j].status = "running", ![j].by = {w}]
  /\ takings' = takings \union {[job |-> j, by |-> w]}
  /\ UNCHANGED <<gsi2, listed>>

\* Deliberate bug: the listing is taken at its word.
ClaimListed(w, j) == j \in listed[w] /\ items[j] # NoItem /\ Taken(j, w)

\* The condition of the update decides; a listing that has gone stale meanwhile
\* only makes it answer None.
DynamoClaim(w, j) ==
  /\ j \in listed[w]
  /\ items[j].status = "ready" /\ items[j].by = {}
  /\ Taken(j, w)

\* An update without a condition: under a key nobody enqueued it leaves an item
\* with half an index key, which no index holds, and which enqueue trips over.
DynamoPause(j) ==
  /\ items' = [items EXCEPT ![j] =
       [status |-> "paused", by |-> {},
        indexed |-> IF @ = NoItem THEN FALSE ELSE @.indexed]]
  /\ UNCHANGED <<gsi2, listed, takings>>

\* The index catches up with one item.
Propagate(j) ==
  /\ items[j] # NoItem /\ items[j].indexed
  /\ gsi2' = [gsi2 EXCEPT ![j] = items[j].status]
  /\ UNCHANGED <<items, listed, takings>>

DynamoInit ==
  /\ items = [j \in DynamoJobs |-> NoItem]
  /\ gsi2 = [j \in DynamoJobs |-> "none"]
  /\ listed = [w \in DynamoWorkers |-> {}]
  /\ takings = {}

DynamoNext ==
  \/ \E j \in DynamoJobs : DynamoEnqueue(j) \/ DynamoPause(j) \/ Propagate(j)
  \/ \E w \in DynamoWorkers :
       ListReady(w) \/ \E j \in DynamoJobs : DynamoClaim(w, j)

DynamoSpec == DynamoInit /\ [][DynamoNext]_dynamoVars

-----------------------------------------------------------------------------
DynamoTypeOK ==
  /\ items \in [DynamoJobs -> {NoItem} \union
                  [status : {"ready", "running", "paused"},
                   by : SUBSET DynamoWorkers, indexed : BOOLEAN]]
  /\ gsi2 \in [DynamoJobs -> {"none", "ready", "running", "paused"}]
  /\ listed \in [DynamoWorkers -> SUBSET DynamoJobs]
  /\ takings \subseteq [job : DynamoJobs, by : DynamoWorkers]

\* However stale the listings they claim from, at most one worker is ever handed
\* a job, a running item names exactly that worker, and nothing is listed that
\* was not enqueued (claim's ConditionExpression; the index keys of job_item).
HandedOutOnce ==
  /\ \A t, u \in takings : t.job = u.job => t = u
  /\ \A j \in DynamoJobs :
       /\ items[j].status = "running" =>
            \E t \in takings : t.job = j /\ items[j].by = {t.by}
       /\ gsi2[j] # "none" => items[j] # NoItem /\ items[j].indexed
=============================================================================
