------------------------------ MODULE Pipeline ------------------------------
(***************************************************************************)
(* One run of graph.run_pipeline in one process: the walk through the      *)
(* agents and the gates, with the run's document on disk, its append-only  *)
(* log, the code host, and the people who write to the same document from  *)
(* elsewhere: the approve screen and the shell command.                    *)
(*                                                                         *)
(* The process works on its copy and saves it whole at every gate and at   *)
(* the end; the screen and the shell load the saved document, append to    *)
(* the log, and save it whole.  Nothing is locked.  The process may be     *)
(* killed between any two steps, and then saves nothing.                   *)
(***************************************************************************)
EXTENDS CodeHost, SecurityRule, Sequences

CONSTANTS
  MaxRevisions,   \* config.MAX_REVISION_LOOPS
  Operators,      \* the screen's threads and the shells that may decide
  Shells,         \* those of them that go through gates_cli
  OutsideGates,   \* the gates and
  OutsideAnswers, \* the decisions they try
  MaxOutside      \* bound on how many they begin

ASSUME PipelineAssumption ==
  /\ MaxRevisions \in Nat /\ MaxOutside \in Nat
  /\ Shells \subseteq Operators
  /\ [gate : OutsideGates, decision : OutsideAnswers] \subseteq Decisions

VARIABLES
  setup,     \* how the run was started and what the machine has installed
  at,        \* where the process is
  mem,       \* its copy of the document
  disk,      \* the document as saved
  rows,      \* the run's log
  host,      \* the code host
  op,        \* what each screen thread or shell is doing
  outside    \* decisions begun from outside the process

pipeline == <<setup, at, mem, disk, rows, host, op, outside>>

-----------------------------------------------------------------------------
Setups == [poisoned : BOOLEAN, auto : BOOLEAN, gitleaks : BOOLEAN]

\* The document with what the walk itself reads: the review, how often it was
\* revised, and what the developer's diff holds.
Fresh ==
  [status |-> "running", plan |-> FALSE, security |-> "none", sre |-> "none",
   decisions |-> {}, review |-> "none", revisions |-> 0, dev |-> "none"]

Unsaved == [Fresh EXCEPT !.status = "absent"]

RunDoc ==
  [status : {"absent", "running"} \union ENDINGS, plan : BOOLEAN,
   security : {"none", "pass", "block"}, sre : {"none", "go", "no_go"},
   decisions : SUBSET Decisions,
   review : {"none", "approve", "changes_requested"},
   revisions : 0..MaxRevisions, dev : {"none"} \union Changes]

Steps == {"start", "plan", "pause", "asked", "develop", "review", "open_pr",
          "tests", "security", "ruling", "sre", "promote", "merged", "save",
          "report", "done", "killed"}

Step(step, gate) == [step |-> step, gate |-> gate]
Go(step) == Step(step, "")

Row(actor, stage, action, ref) ==
  [actor |-> actor, stage |-> stage, action |-> action, ref |-> ref]

\* The pause marker is what the screen looks for; other "opened" rows have none.
PauseRow(g) == Row("system", g, "opened", "paused")

Log(r) == rows' = rows \o r

Idle == [step |-> "idle", gate |-> "", decision |-> "", doc |-> Unsaved]

\* The security agent's answers on some machine, with gitleaks healthy or not.
\* SECURITY_BLOCK_THRESHOLD may be any severity the floor admits.
SecurityAnswers ==
  [c \in Changes |-> [g \in BOOLEAN |->
     {Verdict(c, fan_out(c, m), t) :
        m \in {n \in Machines : g => n.health["gitleaks"] = "ok"},
        t \in {s \in Severities : resolve_threshold(s)}}]]

-----------------------------------------------------------------------------
(* The walk. A stage's comment whose delivery nothing reads is left out: the *)
(* security stage's ref is kept on a row, and the outcome closes the issue.  *)

Start ==
  /\ at = Go("start")
  /\ Log(<<Row("system", "plan", "opened", "")>>)
  /\ at' = Go("plan")
  /\ UNCHANGED <<setup, mem, disk, host, op, outside>>

Plan ==
  /\ at = Go("plan")
  /\ mem' = [mem EXCEPT !.plan = TRUE]
  /\ Log(<<Row("planner", "plan", "proposed", "")>>)
  /\ at' = Step("pause", "gate1")
  /\ UNCHANGED <<setup, disk, host, op, outside>>

\* gates.pause: save the whole document, then log the marker.
Pause(g) ==
  /\ at = Step("pause", g)
  /\ disk' = mem
  /\ Log(<<PauseRow(g)>>)
  /\ at' = Step("asked", g)
  /\ UNCHANGED <<setup, mem, host, op, outside>>

AfterGate(g) ==
  CASE g = "gate1" -> "develop" [] g = "gate2" -> "sre" [] g = "gate3" -> "promote"

\* Deliberate bug: the walk goes on whatever was answered.
DecideUnheard(g, decision) ==
  /\ at = Step("asked", g)
  /\ setup.auto => decision = "approved"
  /\ mem' = Resumed(mem, g, decision)
  /\ Log(<<Row("human", g, decision, "")>>)
  /\ at' = Go(AfterGate(g))
  /\ UNCHANGED <<setup, disk, host, op, outside>>

\* _decide, once the auto-approval or the terminal has answered. The answer is
\* the process's own: what the screen wrote meanwhile is not read.
Decide(g, decision) ==
  /\ at = Step("asked", g)
  /\ setup.auto => decision = "approved"
  /\ mem' = Resumed(mem, g, decision)
  /\ Log(<<Row("human", g, decision, "")>>)
  /\ at' = Go(IF decision = "rejected" THEN "save" ELSE AfterGate(g))
  /\ UNCHANGED <<setup, disk, host, op, outside>>

\* Deliberate bug: the model is trusted to have written the poisoned change.
DeveloperTrusted(poisoned) == Changes

\* A poisoned run's change always ends up holding the key.
Developer(poisoned) == IF poisoned THEN {"keyed"} ELSE Changes

Develop ==
  /\ at = Go("develop")
  /\ \E c \in Developer(setup.poisoned) : mem' = [mem EXCEPT !.dev = c]
  /\ Log(<<Row("developer", "develop", "proposed", "")>>)
  /\ at' = Go("review")
  /\ UNCHANGED <<setup, disk, host, op, outside>>

\* Deliberate bug: the cap is off by one.
ReviewPastCap(verdict) ==
  LET again == verdict # "approve" /\ mem.revisions <= MaxRevisions
  IN  /\ at = Go("review")
      /\ mem' = [mem EXCEPT !.review = verdict,
                            !.revisions = IF again THEN @ + 1 ELSE @]
      /\ Log(<<Row("reviewer", "review", "reviewed", "")>>)
      /\ at' = Go(IF again THEN "develop" ELSE "open_pr")
      /\ UNCHANGED <<setup, disk, host, op, outside>>

\* An approval, or the cap, ends the loop; the cap is looked at before it counts.
Review(verdict) ==
  LET again == verdict # "approve" /\ mem.revisions < MaxRevisions
  IN  /\ at = Go("review")
      /\ mem' = [mem EXCEPT !.review = verdict,
                            !.revisions = IF again THEN @ + 1 ELSE @]
      /\ Log(<<Row("reviewer", "review", "reviewed", "")>>)
      /\ at' = Go(IF again THEN "develop" ELSE "open_pr")
      /\ UNCHANGED <<setup, disk, host, op, outside>>

OpenPr ==
  /\ at = Go("open_pr")
  /\ \E a \in open_pr(host) :
       /\ host' = a.host
       /\ \/ a.ok /\ Log(<<Row("system", "develop", "opened", "")>>)
             /\ at' = Go("tests")
          \/ ~a.ok /\ at' = Go("save") /\ UNCHANGED rows
  /\ UNCHANGED <<setup, mem, disk, op, outside>>

GenerateTests ==
  /\ at = Go("tests")
  /\ Log(<<Row("system", "develop", "passed", "")>>)
  /\ at' = Go("security")
  /\ UNCHANGED <<setup, mem, disk, host, op, outside>>

Scan ==
  /\ at = Go("security")
  /\ \E r \in SecurityAnswers[mem.dev][setup.gitleaks] :
       /\ mem' = [mem EXCEPT !.security = r.verdict]
       /\ Log(<<Row("security", "security",
                    IF r.verdict = "block" THEN "blocked" ELSE "passed", "")>>)
  /\ at' = Go("ruling")
  /\ UNCHANGED <<setup, disk, host, op, outside>>

\* What the three deliberate bugs below share with Rule.
RuleWith(ends, refs) ==
  /\ at = Go("ruling")
  /\ \E p \in post_comment(host, "security", TRUE) :
       /\ p.ref \in refs
       /\ host' = p.host
       /\ mem' = [mem EXCEPT !.status = IF ends = "" THEN @ ELSE ends]
       /\ Log(IF ends = "" THEN <<>> ELSE <<Row("system", "security", ends, p.ref)>>)
       /\ at' = IF ends = "" THEN Step("pause", "gate2") ELSE Go("save")
  /\ UNCHANGED <<setup, disk, op, outside>>

Delivered == {"https", "local"}
AnyRef == Delivered \union {"comment"}

Blocks == mem.security = "block"
Unapproved == mem.review # "approve"

\* Deliberate bug: the review is looked at before the block rule.
RuleReviewFirst ==
  RuleWith(IF Unapproved THEN "failed" ELSE IF Blocks THEN "blocked" ELSE "",
           AnyRef)

\* Deliberate bug: a spent revision cap goes on to gate2.
RuleCapAsApproval == RuleWith(IF Blocks THEN "blocked" ELSE "", AnyRef)

\* Deliberate bug: the walk waits until the comment is delivered.
RuleOnceDelivered ==
  RuleWith(IF Blocks THEN "blocked" ELSE IF Unapproved THEN "failed" ELSE "",
           Delivered)

\* The block rule first, with the ref its reason was delivered under on the
\* halting row; then the revision cap spent without an approval; then gate2.
Rule ==
  /\ at = Go("ruling")
  /\ \E p \in post_comment(host, "security", TRUE) :
       /\ host' = p.host
       /\ \/ /\ mem.security = "block"
             /\ mem' = [mem EXCEPT !.status = "blocked"]
             /\ Log(<<Row("system", "security", "blocked", p.ref)>>)
             /\ at' = Go("save")
          \/ /\ mem.security = "pass" /\ mem.review # "approve"
             /\ mem' = [mem EXCEPT !.status = "failed"]
             /\ Log(<<Row("system", "review", "failed", "")>>)
             /\ at' = Go("save")
          \/ /\ mem.security = "pass" /\ mem.review = "approve"
             /\ at' = Step("pause", "gate2")
             /\ UNCHANGED <<mem, rows>>
  /\ UNCHANGED <<setup, disk, op, outside>>

\* Deliberate bug: a no-go writes no row of its own.
SreUnlogged ==
  /\ at = Go("sre")
  /\ \E ci \in ci_status(host, TRUE) :
       LET verdict == IF ci = "failing" THEN "no_go" ELSE "go"
       IN  /\ mem' = Checked(mem, verdict)
           /\ at' = IF verdict = "no_go" THEN Go("save") ELSE Step("pause", "gate3")
  /\ Log(<<Row("sre", "sre", "reviewed", "")>>)
  /\ UNCHANGED <<setup, disk, host, op, outside>>

\* The SRE agent's verdict is CI's: only a suite seen failing stops the run.
Sre ==
  /\ at = Go("sre")
  /\ \E ci \in ci_status(host, TRUE) :
       LET verdict == IF ci = "failing" THEN "no_go" ELSE "go"
           reviewed == Row("sre", "sre", "reviewed", "")
       IN  /\ mem' = Checked(mem, verdict)
           /\ IF verdict = "no_go"
              THEN /\ Log(<<reviewed, Row("sre", "sre", "failed", "")>>)
                   /\ at' = Go("save")
              ELSE Log(<<reviewed>>) /\ at' = Step("pause", "gate3")
  /\ UNCHANGED <<setup, disk, host, op, outside>>

\* The refusal is the walk's second look at what it has just passed. Whatever
\* ref merge_pr hands back is logged as the merge.
Promote ==
  /\ at = Go("promote")
  /\ IF not_promotable(mem)
     THEN /\ mem' = [mem EXCEPT !.status = "failed"]
          /\ Log(<<Row("system", "promote", "failed", "")>>)
          /\ at' = Go("save")
          /\ UNCHANGED host
     ELSE /\ \E p \in merge_pr(host, mem, TRUE) :
               host' = p.host /\ Log(<<Row("system", "promote", "merged", p.ref)>>)
          /\ at' = Go("merged")
          /\ UNCHANGED mem
  /\ UNCHANGED <<setup, disk, op, outside>>

RecordPromotion ==
  /\ at = Go("merged")
  /\ mem' = [mem EXCEPT !.status = "promoted"]
  /\ Log(<<Row("system", "promote", "promoted", "")>>)
  /\ at' = Go("save")
  /\ UNCHANGED <<setup, disk, host, op, outside>>

\* An agent, its transport, the terminal or a test run raised. The status keeps
\* what it said, and the finally clause runs.
Raise ==
  /\ \/ at.step \in {"plan", "develop", "review", "tests", "security", "sre"}
     \/ at.step = "asked" /\ ~setup.auto
  /\ at' = Go("save")
  /\ UNCHANGED <<setup, mem, disk, rows, host, op, outside>>

Save ==
  /\ at = Go("save")
  /\ disk' = mem
  /\ at' = Go("report")
  /\ UNCHANGED <<setup, mem, rows, host, op, outside>>

Report ==
  /\ at = Go("report")
  /\ \E p \in report_outcome(host, mem.status) : host' = p.host
  /\ at' = Go("done")
  /\ UNCHANGED <<setup, mem, disk, rows, op, outside>>

Kill ==
  /\ at.step \notin {"done", "killed"}
  /\ at' = Go("killed")
  /\ UNCHANGED <<setup, mem, disk, rows, host, op, outside>>

Walk ==
  \/ Start \/ Plan \/ Develop \/ OpenPr \/ GenerateTests \/ Scan \/ Rule \/ Sre
  \/ Promote \/ RecordPromotion \/ Raise \/ Save \/ Report
  \/ \E v \in {"approve", "changes_requested"} : Review(v)
  \/ \E g \in REQUIRED_GATES :
       Pause(g) \/ \E d \in {"approved", "rejected"} : Decide(g, d)

-----------------------------------------------------------------------------
(* The others. *)

Paused == {r.stage : r \in {q \in {rows[i] : i \in DOMAIN rows} :
                              q.action = "opened" /\ q.ref = "paused"}}

\* _awaiting: the gates a screen offers for this run.
Awaiting ==
  IF disk.status \in {"absent"} \union ENDINGS THEN {}
  ELSE Paused \ {d.gate : d \in disk.decisions}

Doing(o, step, g, decision, doc) ==
  op' = [op EXCEPT ![o] =
           [step |-> step, gate |-> g, decision |-> decision, doc |-> doc]]

Begins(o) ==
  /\ op[o] = Idle
  /\ outside < MaxOutside
  /\ outside' = outside + 1
  /\ UNCHANGED <<setup, at, mem, disk, rows, host>>

\* POST /decide: admitted against the document as it is now.
AskScreen(o, g, decision) ==
  /\ o \notin Shells /\ decision # "overridden"
  /\ g \in Awaiting
  /\ Begins(o)
  /\ Doing(o, "admitted", g, decision, Unsaved)

\* gates.resume comes in three parts: load, log, save. The screen loads the
\* document again, after its check.
LoadRun(o) ==
  /\ op[o].step = "admitted"
  /\ Doing(o, "loaded", op[o].gate, op[o].decision,
           Resumed(disk, op[o].gate, op[o].decision))
  /\ UNCHANGED <<setup, at, mem, disk, rows, host, outside>>

\* gates_cli resume: nothing is checked, "overridden" is offered, and only a
\* run with no document is refused, by the load.
AskShell(o, g, decision) ==
  /\ o \in Shells
  /\ disk.status # "absent"
  /\ Begins(o)
  /\ Doing(o, "loaded", g, decision, Resumed(disk, g, decision))

LogDecision(o) ==
  /\ op[o].step = "loaded"
  /\ Log(<<Row("human", op[o].gate, op[o].decision, "")>>)
  /\ op' = [op EXCEPT ![o].step = "logged"]
  /\ UNCHANGED <<setup, at, mem, disk, host, outside>>

\* Deliberate bug: saved before it is logged.
SaveUnlogged(o) ==
  /\ op[o].step = "loaded"
  /\ disk' = op[o].doc
  /\ op' = [op EXCEPT ![o] = Idle]
  /\ UNCHANGED <<setup, at, mem, rows, host, outside>>

SaveDecision(o) ==
  /\ op[o].step = "logged"
  /\ disk' = op[o].doc
  /\ op' = [op EXCEPT ![o] = Idle]
  /\ UNCHANGED <<setup, at, mem, rows, host, outside>>

\* A person closes the pull request on the host.
ClosePull ==
  /\ host.pr = "open" /\ ~host.local
  /\ host' = [host EXCEPT !.pr = "closed"]
  /\ UNCHANGED <<setup, at, mem, disk, rows, op, outside>>

Others ==
  \/ \E o \in Operators :
       \/ LoadRun(o) \/ LogDecision(o) \/ SaveDecision(o)
       \/ \E g \in OutsideGates, d \in OutsideAnswers :
            AskScreen(o, g, d) \/ AskShell(o, g, d)
  \/ ClosePull

-----------------------------------------------------------------------------
\* A run against the host started from one of its issues; without one, and
\* offline, the outcome has no issue to close. A pull request an earlier run of this
\* ticket and diff left open makes no difference: open_pr finds it and uses it.
PipelineInit ==
  /\ setup \in Setups
  /\ at = Go("start")
  /\ mem = Fresh
  /\ disk = Unsaved
  /\ rows = <<>>
  /\ host \in {h \in [local : BOOLEAN, onIssue : BOOLEAN,
                      pr : {"none"}, merges : {0}, issue : {"open"},
                      told : {{}}] :
                 h.local # h.onIssue}
  /\ op = [o \in Operators |-> Idle]
  /\ outside = 0

PipelineNext == Walk \/ Kill \/ Others

\* The process runs on unless it is killed; nobody at a terminal has to answer.
Process == (at.step = "asked" => setup.auto) /\ Walk

PipelineSpec == PipelineInit /\ [][PipelineNext]_pipeline /\ WF_pipeline(Process)

-----------------------------------------------------------------------------
(* The timeline, read off the log (timeline.py). *)

\* The banner: how the last row says the run ended.
Outcome ==
  LET last == rows[Len(rows)].action IN IF last \in ENDINGS THEN last ELSE "running"

\* The block reason's delivery as the halting row's ref tells it.
Delivery ==
  {IF r.ref \in {"https", "local"} THEN "reported" ELSE "not reported" :
     r \in {q \in {rows[i] : i \in DOMAIN rows} :
              <<q.actor, q.stage, q.action>> = <<"system", "security", "blocked">>}}

-----------------------------------------------------------------------------
PipelineTypeOK ==
  /\ setup \in Setups
  /\ at \in [step : Steps, gate : {""} \union REQUIRED_GATES]
  /\ mem \in RunDoc
  /\ disk \in RunDoc
  /\ host \in Hosts
  /\ \A o \in Operators : op[o].doc \in RunDoc
  /\ outside \in 0..MaxOutside

\* The run keeps GatedPromotion whatever the screen and the shell write to its
\* document meanwhile: only the process's own answers open its gates, and what
\* reaches the host's main branch passed all three (graph.py _walk).
Promise ==
  INSTANCE GatedPromotion WITH
    RunIds <- {"run"},
    approved <- [r \in {"run"} |-> ApprovedGates(mem)],
    refused <- IF \E d \in mem.decisions : d.decision = "rejected"
               THEN {"run"} ELSE {},
    merged <- IF host.merges > 0 THEN {"run"} ELSE {},
    cancelled <- {}

KeepsThePromise == Promise!PromotionSpec

\* Once a run is over, and unless somebody wrote to it from outside, its saved
\* document is the process's last word and the timeline's banner says the same
\* (run_pipeline's finally clause; timeline._outcome).
EndingIsRecorded ==
  at.step = "done" /\ outside = 0 => disk = mem /\ Outcome = mem.status

\* A blocking verdict ends the run as blocked, also when the reviewer never
\* approved, and nothing is merged (graph.py:629 before :677).
BlockWins ==
  mem.security = "block" /\ at.step \in {"save", "report", "done"} =>
    mem.status = "blocked" /\ host.merges = 0

\* Nobody is asked at gate2 about a change the reviewer did not approve or the
\* scanners did not pass, and no change is drafted more often than the cap
\* allows (graph.py:565-576).
Gate2IsEarned ==
  /\ Cardinality({i \in DOMAIN rows : rows[i].actor = "developer"})
       <= MaxRevisions + 1
  /\ "gate2" \in Paused => mem.security = "pass" /\ mem.review = "approve"

\* What the timeline reports as delivered can be read by somebody: on the pull
\* request, or in the notes file of an offline run (post_comment's ref).
DeliveryIsHonest ==
  "reported" \in Delivery => \E n \in host.told : n.body = "security"

\* A poisoned run is never promoted where gitleaks works, whatever the other
\* scanners report, the model writes and people decide (developer.run's
\* reference diff; the fan-out; the fallback fixture).
PoisonedNeverPromotes ==
  setup.poisoned /\ setup.gitleaks =>
    mem.status # "promoted" /\ host.merges = 0

\* No decision is in the saved document that the log has no row for, whoever
\* wrote it last (gates.resume and _decide log before they save).
EveryDecisionIsLogged ==
  \A d \in disk.decisions :
    \E i \in DOMAIN rows :
      rows[i].actor = "human" /\ rows[i].stage = d.gate
        /\ rows[i].action = d.decision

\* A run nobody has to answer for ends, however its calls fail, with its
\* document saved; only killing the process prevents it.
EveryRunEnds ==
  setup.auto ~> \/ at.step = "done" /\ disk.status # "absent"
                \/ at.step = "killed"

\* A run recorded as promoted against a real host was merged there: "THE MERGE
\* IS WHAT MAKES THE PROMOTION TRUE" (graph.py:739).
PromotedMeansMerged ==
  mem.status = "promoted" /\ ~host.local => host.merges > 0
=============================================================================
