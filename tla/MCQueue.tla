------------------------------- MODULE MCQueue -------------------------------
(***************************************************************************)
(* The table of rows, for TLC, under each of the programs that work on it: *)
(* the operations of the in-memory backend in any order, the statements of *)
(* the durable one, or the threads of the API.                             *)
(***************************************************************************)
EXTENDS SqlQueue, ControlPlane, TLC

VARIABLE program  \* the one that runs

\* The backends' rows are of two runs (the API has a second placeholder), and
\* wait at two of the three gates.
MCRuns == {"p1", "r1"}
MCGates == {"gate1", "gate2"}

queueVars == <<program, vars, apiVars>>

MCQueueInit ==
  /\ program \in {"memory", "sql", "api"}
  /\ SqlInit /\ ApiInit

MCQueueNext ==
  /\ \/ program = "memory" /\ QueueNext /\ UNCHANGED <<call, cancelled>>
     \/ program = "sql" /\ SqlNext
     \/ program = "api" /\ ApiNext /\ UNCHANGED <<call, cancelled>>
  /\ program # "api" => /\ \A j \in DOMAIN jobs' :
                             /\ jobs'[j].run \in MCRuns
                             /\ jobs'[j].awaiting_gate \notin GATES \ MCGates
                        /\ UNCHANGED <<keys, records, origin, thread, started, answers>>
  /\ UNCHANGED program

MCQueueSpec == MCQueueInit /\ [][MCQueueNext]_queueVars

\* Callers of one kind, keys and threads are interchangeable in every property.
Interchangeable ==
  Permutations(Workers) \union Permutations(KeyIds) \union Permutations(ApiThreads)
=============================================================================
