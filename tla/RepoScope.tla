------------------------------ MODULE RepoScope ------------------------------
(***************************************************************************)
(* The repositories a tenant has in scope (web/lib/dynamo/reader.ts): the  *)
(* list an approval is checked against.  A save replaces the list, but as  *)
(* separate reads, deletes and puts against a table whose queries may be   *)
(* answered by a replica that lags.                                        *)
(***************************************************************************)
EXTENDS Naturals, FiniteSets

CONSTANTS
  RepoNames,  \* the repositories: owner/name
  RepoRows,   \* the random identifiers of rows
  Editors     \* the people saving a scope

VARIABLES
  repos,   \* the rows in the table: <<identifier, name>>
  replica, \* the rows as an eventually consistent query sees them
  save,    \* each editor's save under way
  may      \* what people asked for: the names that may be in scope

scopeVars == <<repos, replica, save, may>>

NamesOf(rows) == {r[2] : r \in rows}

NotSaving == [at |-> "idle", wanted |-> {}, existing |-> {}, doomed |-> {}, alone |-> FALSE]

Saving(e) == save[e].at # "idle"

\* A save is alone while no other one overlaps it.
ScopeTypeOK ==
  /\ repos \subseteq RepoRows \X RepoNames
  /\ replica \subseteq RepoRows \X RepoNames
  /\ save \in [Editors -> [at : {"idle", "reading", "removing", "adding"},
                           wanted : SUBSET RepoNames, existing : SUBSET RepoNames,
                           doomed : SUBSET (RepoRows \X RepoNames), alone : BOOLEAN]]
  /\ may \subseteq RepoNames

ScopeInit ==
  /\ repos = {} /\ replica = {} /\ may = {}
  /\ save = [e \in Editors |-> NotSaving]

-----------------------------------------------------------------------------
\* The replica a query is answered from catches up.
Replicate ==
  /\ replica # repos /\ replica' = repos
  /\ UNCHANGED <<repos, save, may>>

\* The request arrives, and the names that exist are read.
BeginSave(e, wanted) ==
  /\ ~Saving(e)
  /\ LET quiet == replica = repos /\ \A f \in Editors : ~Saving(f)
     IN save' = [f \in Editors |->
                   IF f = e
                   THEN [at |-> "reading", wanted |-> wanted, existing |-> NamesOf(replica),
                         doomed |-> {}, alone |-> quiet]
                   ELSE [save[f] EXCEPT !.alone = FALSE]]
  /\ may' = may \union wanted
  /\ UNCHANGED <<repos, replica>>

\* Deliberate bug: the writer as it was before a save removed anything.
ReadNothing(e) ==
  /\ save[e].at = "reading"
  /\ save' = [save EXCEPT ![e].at = "removing"]
  /\ UNCHANGED <<repos, replica, may>>

\* The rows are read a second time, for the keys to delete by.
ReadAgain(e) ==
  /\ save[e].at = "reading"
  /\ save' = [save EXCEPT ![e].at = "removing",
                          ![e].doomed = {r \in replica : r[2] \notin save[e].wanted}]
  /\ UNCHANGED <<repos, replica, may>>

\* The rows that are not wanted go first, one request each.
RemoveOne(e) ==
  /\ save[e].at = "removing"
  /\ \E r \in save[e].doomed :
       /\ repos' = repos \ {r}
       /\ save' = [save EXCEPT ![e].doomed = @ \ {r}, ![e].existing = @ \ {r[2]}]
  /\ UNCHANGED <<replica, may>>

RemovedAll(e) ==
  /\ save[e].at = "removing" /\ save[e].doomed = {}
  /\ save' = [save EXCEPT ![e].at = "adding"]
  /\ UNCHANGED <<repos, replica, may>>

Missing(e) == save[e].wanted \ save[e].existing

Unused(id) ==
  /\ id \notin {r[1] : r \in repos \union replica}
  /\ \A e \in Editors : id \notin {r[1] : r \in save[e].doomed}

\* A wanted name without a row gets one under a random identifier.
AddOne(e) ==
  /\ save[e].at = "adding"
  /\ \E name \in Missing(e), id \in RepoRows :
       /\ Unused(id)
       /\ repos' = repos \union {<<id, name>>}
       /\ save' = [save EXCEPT ![e].existing = @ \union {name}]
  /\ UNCHANGED <<replica, may>>

\* The save answers. When nobody else was saving, what it asked for is all
\* that may remain.
FinishSave(e) ==
  /\ save[e].at = "adding" /\ Missing(e) = {}
  /\ may' = IF save[e].alone THEN save[e].wanted ELSE may
  /\ save' = [save EXCEPT ![e] = NotSaving]
  /\ UNCHANGED <<repos, replica>>

\* A request fails, or the function's time runs out, at any step.
AbandonSave(e) ==
  /\ Saving(e)
  /\ save' = [save EXCEPT ![e] = NotSaving]
  /\ UNCHANGED <<repos, replica, may>>

-----------------------------------------------------------------------------
ScopeNext ==
  \/ Replicate
  \/ \E e \in Editors, wanted \in SUBSET RepoNames : BeginSave(e, wanted)
  \/ \E e \in Editors :
       \/ ReadAgain(e)
       \/ RemoveOne(e)
       \/ RemovedAll(e)
       \/ AddOne(e)
       \/ FinishSave(e)
       \/ AbandonSave(e)

ScopeSpec == ScopeInit /\ [][ScopeNext]_scopeVars

\* The code behaviour is setScope's removal before its adds.  However saves
\* overlap, stop half way, or read a replica that lags, no repository comes
\* into scope that nobody asked for, and one that a completed save dropped,
\* with nobody else saving and its first read current, stays out of scope until
\* somebody asks for it again.
ScopeIsAsAsked == NamesOf(repos) \subseteq may
=============================================================================
