------------------------------ MODULE Transport ------------------------------
(***************************************************************************)
(* An agent called in its own container (common/agent_client.py and        *)
(* agents/server.py), and the two process-wide records the answer has to   *)
(* cross with: which path answered, and what the model calls used          *)
(* (common/llm.py), down to the cost in a run's document (cost/record.py). *)
(*                                                                         *)
(* A container outlives an invocation and serves the runs of every caller, *)
(* on a thread each, AtOnce at a time; it may be replaced when it is idle. *)
(* Calls go unanswered.                                                    *)
(***************************************************************************)
EXTENDS Integers, Sequences, FiniteSets

CONSTANTS
  RemoteRuns,   \* runs, each with its own process, whose agents run remotely
  Staged,    \* those of them whose processes are single stages
  AtOnce,    \* invocations the platform lets into a container at a time
  MaxCalls,  \* bound on a run's calls
  MaxStages  \* bound on the processes a staged run is carried by

ASSUME TransportAssumption ==
  /\ Staged \subseteq RemoteRuns
  /\ AtOnce \in Nat \ {0} /\ MaxCalls \in Nat /\ MaxStages \in Nat \ {0}

VARIABLES
  box,       \* the container: its globals and the calls it is serving
  proc,      \* each run's process: its globals
  flight,    \* each run's call under way, as the container sees it
  charge,    \* what each run's document says it cost, and who answered
  tally      \* history: the calls made, what they took, what was answered,
             \* and what the answers behind each stage's cost had taken

transportVars == <<box, proc, flight, charge, tally>>

-----------------------------------------------------------------------------
(* llm.py: one process's globals. Rows of a model call carry tokens; rows of *)
(* a fixture fallback carry none, and no model.                              *)

NoGlobals == [source |-> "none", rows |-> 0, blanks |-> 0]

\* Never downgraded from a fixture.
_record(g, source) == [g EXCEPT !.source = IF @ = "fixture" THEN @ ELSE source]

_record_usage(g) == [g EXCEPT !.rows = @ + 1]

record_fixture_fallback(g) == [_record(g, "fixture") EXCEPT !.blanks = @ + 1]

reset_source(g) == [g EXCEPT !.source = "none"]

\* How the model may be reached: switched off; a gateway with a key, on the
\* loopback, or with neither; AWS credentials or none.
Routes == {"disabled", "keyed", "loopback", "unkeyed", "aws", "no_aws"}

available(route) == route \in {"keyed", "loopback", "aws"}

\* text(): no call; a call that raised, or said nothing, or answered.
text(g, route) ==
  IF ~available(route) THEN {[g |-> _record(g, "fixture"), reply |-> FALSE]}
  ELSE {[g |-> _record(g, "fixture"), reply |-> FALSE],
        [g |-> _record(_record_usage(g), "fixture"), reply |-> FALSE],
        [g |-> _record(_record_usage(g), "model"), reply |-> TRUE]}

\* structured(): a reply that does not parse is a fixture after all.
structured(g, route) ==
  text(g, route) \union
    {[g |-> _record(t.g, "fixture"), reply |-> FALSE] : t \in text(g, route)}

\* What an agent's run leaves: four load a fixture when there was no reply; the
\* security agent, whose verdict is not the model's, only goes without words.
AgentRuns(g, route) ==
  {[s EXCEPT !.g = IF s.reply THEN @ ELSE record_fixture_fallback(@)] :
     s \in structured(g, route)} \union text(g, route)

-----------------------------------------------------------------------------
(* cost/record.py *)

StageCost(g) == [rows |-> g.rows, model |-> g.rows > 0]

\* A stage whose every row fell back names no model and has no price.
price_stage(stage) == IF stage.model THEN stage.rows ELSE -1

\* The sum of the stages that could be priced, or nothing at all.
total_usd(stages) ==
  LET priced == {i \in DOMAIN stages : price_stage(stages[i]) # -1}
      sum[S \in SUBSET priced] ==
        IF S = {} THEN 0
        ELSE LET i == CHOOSE i \in S : TRUE
             IN  price_stage(stages[i]) + sum[S \ {i}]
  IN  IF priced = {} THEN -1 ELSE sum[priced]

build_cost_record(g) ==
  IF g.rows + g.blanks = 0 THEN <<>> ELSE <<StageCost(g)>>

merge_cost_records(before, after) == before \o after

-----------------------------------------------------------------------------
(* A call. *)

NoCall == [step |-> "idle"]

\* The request the process sends: a document the container can read, one over
\* MAX_BODY_BYTES, or one its own copy of the contract refuses.
Requests == {"state", "oversized", "unreadable"}

AnswerCode(request) ==
  CASE request = "oversized" -> 413 [] request = "unreadable" -> 422
    [] OTHER -> 200

\* Names one runtime by its role; a name the control plane does not list, or
\* answers without an ARN, raises before anything is sent.
Invoke(r) ==
  /\ flight[r] = NoCall
  /\ tally[r].calls < MaxCalls
  /\ tally' = [tally EXCEPT ![r].calls = @ + 1]
  /\ \E request \in Requests :
       flight' = [flight EXCEPT ![r] = [step |-> "sent", request |-> request]]
  /\ UNCHANGED <<box, proc, charge>>

\* do_POST, once the request is found good: the source is this invocation's.
Receive(r) ==
  /\ flight[r].step = "sent" /\ AnswerCode(flight[r].request) = 200
  /\ Cardinality(box.serving) < AtOnce
  /\ box' = [box EXCEPT !.globals = reset_source(@),
                        !.serving = @ \union {r}]
  /\ flight' = [flight EXCEPT ![r] = [step |-> "received"]]
  /\ UNCHANGED <<proc, charge, tally>>

\* The agent runs to its end, or raises once the model was asked.
RunAgent(r) ==
  /\ flight[r].step = "received"
  /\ \E a \in AgentRuns(box.globals, box.route), raised \in BOOLEAN :
       LET took == a.g.rows - box.globals.rows IN
       /\ box' = [box EXCEPT !.globals = a.g]
       /\ tally' = [tally EXCEPT ![r].used = @ + took]
       /\ flight' = [flight EXCEPT ![r] = [step |-> IF raised THEN "raised" ELSE "ran",
                                       took |-> took, fell |-> ~a.reply]]
  /\ UNCHANGED <<proc, charge>>

Failed == [step |-> "failed"]

\* The envelope: the container's globals as they are when it is written; a 500
\* when the agent raised.
Respond(r) ==
  /\ flight[r].step \in {"ran", "raised"}
  /\ box' = [box EXCEPT !.serving = @ \ {r}]
  /\ flight' = [flight EXCEPT ![r] =
                IF @.step = "raised" THEN Failed
                ELSE [step |-> "answered", took |-> @.took, fell |-> @.fell,
                      source |-> box.globals.source, rows |-> box.globals.rows,
                      blanks |-> box.globals.blanks]]
  /\ UNCHANGED <<proc, charge, tally>>

\* _invoke raises: the request was refused before anything ran, or the answer is
\* a failure's, no envelope, or lost.
Unanswered(r) ==
  /\ \/ flight[r].step = "sent" /\ AnswerCode(flight[r].request) # 200
     \/ flight[r].step = "answered"
  /\ flight' = [flight EXCEPT ![r] = Failed]
  /\ UNCHANGED <<box, proc, charge, tally>>

\* The read timeout, while the container is at it, and then runs on unheard.
TimeOut(r) ==
  /\ flight[r].step = "received"
  /\ \E a \in AgentRuns(box.globals, box.route) :
       /\ box' = [box EXCEPT !.globals = a.g, !.serving = @ \ {r}]
       /\ tally' = [tally EXCEPT ![r].used = @ + a.g.rows - box.globals.rows]
  /\ flight' = [flight EXCEPT ![r] = Failed]
  /\ UNCHANGED <<proc, charge>>

absorb_usage_payload(g, answer) ==
  [g EXCEPT !.rows = @ + answer.rows, !.blanks = @ + answer.blanks]

\* What call_agent keeps of an answer.
Absorbed(g, answer) == absorb_usage_payload(_record(g, answer.source), answer)

\* Deliberate bug: only an answer that validates is counted.
AcceptValidated(r) ==
  /\ flight[r].step = "answered"
  /\ \E valid \in BOOLEAN :
       /\ proc' = IF valid THEN [proc EXCEPT ![r] = Absorbed(@, flight[r])] ELSE proc
       /\ flight' = [flight EXCEPT ![r] = IF valid THEN NoCall ELSE Failed]
  /\ tally' = [tally EXCEPT ![r].owed = @ + flight[r].took,
                            ![r].fixture = @ \/ flight[r].fell,
                            ![r].answered = TRUE]
  /\ UNCHANGED <<box, charge>>

\* Source and usage are taken before the answer is validated: the wrong agent,
\* an empty result or one of the wrong shape raises only then.
Accept(r) ==
  /\ flight[r].step = "answered"
  /\ proc' = [proc EXCEPT ![r] = Absorbed(@, flight[r])]
  /\ \E valid \in BOOLEAN :
       flight' = [flight EXCEPT ![r] = IF valid THEN NoCall ELSE Failed]
  /\ tally' = [tally EXCEPT ![r].owed = @ + flight[r].took,
                            ![r].fixture = @ \/ flight[r].fell,
                            ![r].answered = TRUE]
  /\ UNCHANGED <<box, charge>>

-----------------------------------------------------------------------------
(* The end of a process. *)

NewProcess(r, bill) ==
  /\ proc' = [proc EXCEPT ![r] = NoGlobals]
  /\ tally' = [tally EXCEPT ![r].fixture = FALSE, ![r].answered = FALSE,
                            ![r].owed = 0, ![r].stages = @ + 1,
                            ![r].billed = @ \o bill]
  /\ flight' = [flight EXCEPT ![r] = NoCall]

\* _emit, once the stage is through, and run_pipeline's finally clause, whatever
\* became of the run.
Report(r) ==
  /\ flight[r] = NoCall \/ (flight[r].step = "failed" /\ r \notin Staged)
  /\ tally[r].stages < IF r \in Staged THEN MaxStages ELSE 1
  /\ LET cost == merge_cost_records(charge[r].cost, build_cost_record(proc[r]))
     IN  charge' = [charge EXCEPT ![r] =
           [cost |-> cost, usd |-> total_usd(cost),
            source |-> IF proc[r].source = "none" /\ r \in Staged
                       THEN @.source ELSE proc[r].source]]
  /\ NewProcess(r, [i \in DOMAIN build_cost_record(proc[r]) |-> tally[r].owed])
  /\ UNCHANGED box

\* A stage process that raised ends there, and reports nothing.
Abort(r) ==
  /\ flight[r].step = "failed" /\ r \in Staged
  /\ tally[r].stages < MaxStages
  /\ NewProcess(r, <<>>)
  /\ UNCHANGED <<box, charge>>

\* The platform replaces an idle container.
Replace ==
  /\ box.serving = {}
  /\ box' = [box EXCEPT !.globals = NoGlobals]
  /\ UNCHANGED <<proc, flight, charge, tally>>

TransportInit ==
  /\ box \in [globals : {NoGlobals}, serving : {{}}, route : Routes]
  /\ proc = [r \in RemoteRuns |-> NoGlobals]
  /\ flight = [r \in RemoteRuns |-> NoCall]
  /\ charge = [r \in RemoteRuns |-> [cost |-> <<>>, usd |-> -1, source |-> "none"]]
  /\ tally = [r \in RemoteRuns |->
                [calls |-> 0, used |-> 0, owed |-> 0, fixture |-> FALSE,
                 answered |-> FALSE, stages |-> 0, billed |-> <<>>]]

TransportNext ==
  \/ \E r \in RemoteRuns :
       \/ Invoke(r) \/ Receive(r) \/ RunAgent(r) \/ Respond(r) \/ Unanswered(r)
       \/ TimeOut(r) \/ Accept(r) \/ Report(r) \/ Abort(r)
  \/ Replace

TransportSpec == TransportInit /\ [][TransportNext]_transportVars

-----------------------------------------------------------------------------
GlobalsType == [source : {"none", "model", "fixture"}, rows : Nat, blanks : Nat]

TransportTypeOK ==
  /\ box.globals \in GlobalsType /\ box.route \in Routes
  /\ \A r \in RemoteRuns :
       /\ proc[r] \in GlobalsType
       /\ flight[r].step \in {"idle", "sent", "received", "ran", "raised",
                            "answered", "failed"}
       /\ charge[r].usd \in Nat \union {-1}

\* No model call an answer paid for is lost on its way to the run's document,
\* whatever else the container was serving, whether or not the answer was one
\* the process could use, and over all the processes that carry the run: the
\* process holds at least what its answers took, and so does each stage on the
\* document's cost (agent_client.call_agent, cost/record.py). It may hold more.
NoUsageIsLost ==
  \A r \in RemoteRuns :
    /\ tally[r].owed <= proc[r].rows
    /\ Len(tally[r].billed) = Len(charge[r].cost)
    /\ \A i \in DOMAIN tally[r].billed : tally[r].billed[i] <= charge[r].cost[i].rows

\* "`source` below describes THIS invocation rather than whatever the previous
\* one on this warm container did" (agents/server.py), and no run inherits "the
\* previous run's token counts" (llm.reset_usage): a process says of the answers
\* it received which path they came by and what they took, and no more. It does
\* not hold: the container's invocations share both records, and the second is
\* never reset.
AnswersAreTheirOwn ==
  \A r \in RemoteRuns :
    tally[r].answered =>
      /\ proc[r].source = IF tally[r].fixture THEN "fixture" ELSE "model"
      /\ proc[r].rows = tally[r].owed
=============================================================================
