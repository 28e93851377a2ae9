--------------------------- MODULE PipelineProofs ---------------------------
(***************************************************************************)
(* Proofs about Pipeline.  The inductive invariant has one part for what   *)
(* each promise rests on: the types, where the walk is against what its    *)
(* document says, what the log says against both, and what the screen and  *)
(* the shell are holding.  Each part is shown kept action by action.       *)
(***************************************************************************)
EXTENDS Pipeline, SequenceTheorems, FiniteSetTheorems, TLAPS

Refs == {"https", "local", "comment", "failed", "refused"}

Actors == {"system", "planner", "developer", "reviewer", "security", "sre", "human"}
LogStages ==
  {"plan", "develop", "review", "security", "sre", "promote"} \union REQUIRED_GATES
Actions == {"opened", "proposed", "reviewed", "passed", "merged", "overridden",
            "approved", "rejected", "blocked", "failed", "promoted"}

LogRow == [actor : Actors, stage : LogStages, action : Actions,
           ref : {"", "paused"} \union Refs]

Doings ==
  [step : {"idle", "admitted", "loaded", "logged"},
   gate : {""} \union REQUIRED_GATES,
   decision : {"", "approved", "rejected", "overridden"}, doc : RunDoc]

\* Who is deciding has a gate and an answer to it.
Deciding(o) ==
  op[o].step # "idle" =>
    [gate |-> op[o].gate, decision |-> op[o].decision] \in Decisions

TypeInv ==
  /\ PipelineTypeOK
  /\ rows \in Seq(LogRow)
  /\ op \in [Operators -> Doings]
  /\ \A o \in Operators : Deciding(o)
  /\ mem.status # "absent"
  /\ at.step \in {"pause", "asked"} => at.gate \in REQUIRED_GATES
  /\ at.step \in {"review", "open_pr", "tests", "security"} => mem.dev # "none"

-----------------------------------------------------------------------------
(* The code host's answers. *)

\* What a call that merges nothing may do: tell more, open or close things.
Quiet(h, after) ==
  /\ after \in Hosts
  /\ after.merges = h.merges
  /\ h.told \subseteq after.told

LEMMA NotesAreTold ==
  ASSUME NEW h \in Hosts, NEW body \in Bodies,
         NEW status \in {"", "running"} \union ENDINGS, NEW where \in Surfaces
  PROVE  /\ Quiet(h, Told(h, Note(body, status, where)))
         /\ Note(body, status, where) \in Told(h, Note(body, status, where)).told
         /\ Quiet(h, h)
<1> DEFINE note == Note(body, status, where)
<1>1. note \in Notes
  BY DEF Note, Notes
<1>2. h.told \union {note} \in SUBSET Notes
  BY <1>1 DEF Hosts
<1> HIDE DEF note
<1>3. Told(h, note) \in Hosts
  BY <1>2 DEF Told, Hosts
<1>4. Told(h, note).told = h.told \union {note} /\ Told(h, note).merges = h.merges
  BY DEF Told, Hosts
<1> QED
  BY <1>3, <1>4 DEF Quiet, note

\* A comment is told to somebody when its ref says so, and merges nothing.
LEMMA CommentsAreQuiet ==
  ASSUME NEW h \in Hosts, NEW p \in post_comment(h, "security", TRUE)
  PROVE  /\ Quiet(h, p.host)
         /\ p.ref \in Refs
         /\ p.ref \in {"https", "local"} =>
              \E n \in p.host.told : n.body = "security"
<1> DEFINE told(where) == Told(h, Note("security", "", where))
<1>1. \A where \in Surfaces :
        /\ Quiet(h, told(where))
        /\ \E n \in told(where).told : n.body = "security"
  <2> SUFFICES ASSUME NEW where \in Surfaces
               PROVE  /\ Quiet(h, told(where))
                      /\ \E n \in told(where).told : n.body = "security"
    OBVIOUS
  <2>1. Note("security", "", where).body = "security"
    BY DEF Note
  <2> QED
    BY <2>1, NotesAreTold DEF Bodies
<1>2. Quiet(h, h)
  BY NotesAreTold DEF Bodies, Surfaces
<1>3. \/ \E where \in Surfaces, ref \in {"https", "local", "comment"} :
            p = Ref(told(where), ref)
      \/ p = Ref(h, "comment")
  BY DEF post_comment, note_locally, comment_on_pr, CreateComment, Surfaces
<1> HIDE DEF told
<1>4. \A host1, ref : Ref(host1, ref).host = host1 /\ Ref(host1, ref).ref = ref
  BY DEF Ref
<1>5. CASE p = Ref(h, "comment")
  BY <1>2, <1>4, <1>5 DEF Refs
<1>6. ASSUME NEW where \in Surfaces, NEW ref \in {"https", "local", "comment"},
             p = Ref(told(where), ref)
      PROVE  /\ Quiet(h, p.host)
             /\ p.ref \in Refs
             /\ p.ref \in {"https", "local"} =>
                  \E n \in p.host.told : n.body = "security"
  <2>1. p.host = told(where) /\ p.ref = ref
    BY <1>4, <1>6
  <2> QED
    BY <1>1, <2>1 DEF Refs
<1> QED
  BY <1>3, <1>5, <1>6

LEMMA OpenPrIsQuiet ==
  ASSUME NEW h \in Hosts, NEW a \in open_pr(h)
  PROVE  Quiet(h, a.host)
<1>1. a.host = h \/ a.host = Opened(h)
  BY DEF open_pr
<1> QED
  BY <1>1 DEF Opened, Quiet, Hosts

LEMMA OutcomeIsQuiet ==
  ASSUME NEW h \in Hosts, NEW status \in {"running"} \union ENDINGS,
         NEW p \in report_outcome(h, status)
  PROVE  Quiet(h, p.host)
<1> DEFINE told(where) == Told(h, Note("outcome", status, where))
<1>1. Quiet(h, h) /\ \A where \in Surfaces : Quiet(h, told(where))
  BY NotesAreTold DEF Bodies, Surfaces
<1>2. \A after : Quiet(h, after) => Quiet(h, Close(after, status))
  BY DEF Quiet, Close, Hosts
<1>3. \E q : /\ \/ q.host = h
                \/ \E where \in Surfaces : q.host = told(where)
             /\ p.host = q.host \/ p.host = Close(q.host, status)
  BY DEF report_outcome, note_locally, comment_on_issue, CreateComment, Ref,
         Surfaces
<1> HIDE DEF told
<1> QED
  BY <1>1, <1>2, <1>3

\* A merge lands or it does not, and does not where the document refuses it.
LEMMA MergesOnceOrNot ==
  ASSUME NEW h \in Hosts, NEW doc, NEW p \in merge_pr(h, doc, TRUE)
  PROVE  /\ p.host \in Hosts /\ p.ref \in Refs /\ h.told \subseteq p.host.told
         /\ p.host.merges = h.merges \/ ~merge_refusal(doc)
         /\ p.host.merges >= h.merges
<1>1. \/ p.host = h
      \/ p.host = Landed(h) /\ ~merge_refusal(doc)
  BY DEF merge_pr, MergeOpenPull, Ref
<1>2. p.ref \in Refs
  BY DEF merge_pr, MergeOpenPull, Ref, Refs
<1> DEFINE more == h.merges + 1
<1>3. h.merges \in Nat /\ more \in Nat
  BY DEF Hosts
<1>4. Landed(h) = [h EXCEPT !.pr = "merged", !.merges = more]
  BY DEF Landed
<1> HIDE DEF more
<1>5. Landed(h) \in Hosts /\ Landed(h).merges = more /\ Landed(h).told = h.told
  BY <1>3, <1>4 DEF Hosts
<1> QED
  BY <1>1, <1>2, <1>3, <1>5 DEF more

-----------------------------------------------------------------------------
(* The document. *)

Statuses == {"absent", "running"} \union ENDINGS

LEMMA Answered ==
  ASSUME NEW doc \in RunDoc, NEW g, NEW decision,
         [gate |-> g, decision |-> decision] \in Decisions
  PROVE  LET new == Resumed(doc, g, decision)
         IN  /\ new \in RunDoc
             /\ new.decisions
                  = doc.decisions \union {[gate |-> g, decision |-> decision]}
             /\ new.status = IF decision = "rejected" THEN "rejected" ELSE doc.status
             /\ new.security = doc.security /\ new.review = doc.review
             /\ new.revisions = doc.revisions /\ new.dev = doc.dev
             /\ new.sre = doc.sre
<1> DEFINE decisions == doc.decisions \union {[gate |-> g, decision |-> decision]}
           status == IF decision = "rejected" THEN "rejected" ELSE doc.status
<1>1. decisions \in SUBSET Decisions
  BY DEF RunDoc
<1>2. status \in Statuses
  BY DEF RunDoc, Statuses, ENDINGS
<1>3. Resumed(doc, g, decision)
        = [doc EXCEPT !.decisions = decisions, !.status = status]
  BY DEF Resumed
<1> HIDE DEF decisions, status
<1>4. [doc EXCEPT !.decisions = decisions, !.status = status] \in RunDoc
  BY <1>1, <1>2 DEF RunDoc, Statuses
<1>5. LET new == [doc EXCEPT !.decisions = decisions, !.status = status]
      IN  /\ new.decisions = decisions /\ new.status = status
          /\ new.security = doc.security /\ new.review = doc.review
          /\ new.revisions = doc.revisions /\ new.dev = doc.dev
          /\ new.sre = doc.sre
  BY DEF RunDoc
<1> QED
  BY <1>3, <1>4, <1>5 DEF decisions, status

\* What the walk itself writes.
LEMMA Written ==
  ASSUME NEW doc \in RunDoc
  PROVE  /\ [doc EXCEPT !.plan = TRUE] \in RunDoc
         /\ \A c \in Changes : [doc EXCEPT !.dev = c] \in RunDoc
         /\ \A review \in {"approve", "changes_requested"}, n \in 0..MaxRevisions :
              [doc EXCEPT !.review = review, !.revisions = n] \in RunDoc
         /\ \A security \in {"pass", "block"} :
              [doc EXCEPT !.security = security] \in RunDoc
         /\ \A status \in ENDINGS : [doc EXCEPT !.status = status] \in RunDoc
         /\ \A verdict \in {"go", "no_go"} : Checked(doc, verdict) \in RunDoc
<1>1. \A verdict \in {"go", "no_go"} : Checked(doc, verdict) \in RunDoc
  <2> TAKE verdict \in {"go", "no_go"}
  <2> DEFINE status == IF verdict = "no_go" THEN "failed" ELSE doc.status
  <2>1. Checked(doc, verdict) = [doc EXCEPT !.sre = verdict, !.status = status]
    BY DEF Checked
  <2>2. status \in {"absent", "running"} \union ENDINGS
    BY DEF RunDoc, ENDINGS
  <2> HIDE DEF status
  <2> QED
    BY <2>1, <2>2 DEF RunDoc
<1>2. /\ [doc EXCEPT !.plan = TRUE] \in RunDoc
      /\ \A c \in Changes : [doc EXCEPT !.dev = c] \in RunDoc
      /\ \A security \in {"pass", "block"} :
              [doc EXCEPT !.security = security] \in RunDoc
      /\ \A status \in ENDINGS : [doc EXCEPT !.status = status] \in RunDoc
  BY DEF RunDoc
<1>3. \A review \in {"approve", "changes_requested"}, n \in 0..MaxRevisions :
              [doc EXCEPT !.review = review, !.revisions = n] \in RunDoc
  BY DEF RunDoc
<1> QED
  BY <1>1, <1>2, <1>3

LEMMA FirstDocs ==
  /\ Fresh \in RunDoc /\ Fresh.status = "running"
  /\ Unsaved \in RunDoc /\ Idle \in Doings /\ Idle.step = "idle"
<1>1. 0 \in 0..MaxRevisions
  BY PipelineAssumption
<1>2. Fresh \in RunDoc /\ Fresh.status = "running"
  BY <1>1 DEF Fresh, RunDoc
<1>3. Unsaved \in RunDoc
  BY <1>2 DEF Unsaved, RunDoc
<1>4. Idle \in Doings /\ Idle.step = "idle"
  BY <1>3 DEF Idle, Doings
<1> QED
  BY <1>2, <1>3, <1>4

LEMMA VerdictIsBinary ==
  ASSUME NEW c \in Changes, NEW g \in BOOLEAN, NEW r \in SecurityAnswers[c][g]
  PROVE  r.verdict \in {"pass", "block"}
<1>1. SecurityAnswers[c][g] =
        {Verdict(c, fan_out(c, m), t) :
           m \in {n \in Machines : g => n.health["gitleaks"] = "ok"},
           t \in {s \in Severities : resolve_threshold(s)}}
  BY DEF SecurityAnswers
<1>2. \E m \in {n \in Machines : g => n.health["gitleaks"] = "ok"},
         t \in {s \in Severities : resolve_threshold(s)} :
           r = Verdict(c, fan_out(c, m), t)
  BY <1>1
<1> QED
  BY <1>2 DEF Verdict, compute_security_verdict

-----------------------------------------------------------------------------
(* The log. *)

\* What the log holds after r was appended to it.
LEMMA LogGrows ==
  ASSUME rows \in Seq(LogRow), NEW r \in Seq(LogRow), Log(r)
  PROVE  /\ rows' \in Seq(LogRow)
         /\ Len(rows) \in Nat /\ Len(rows') = Len(rows) + Len(r)
         /\ DOMAIN rows = 1..Len(rows) /\ DOMAIN rows' = 1..(Len(rows) + Len(r))
         /\ \A i \in DOMAIN rows : i \in DOMAIN rows' /\ rows'[i] = rows[i]
         /\ \A i \in DOMAIN rows' \ DOMAIN rows :
              i - Len(rows) \in 1..Len(r) /\ rows'[i] = r[i - Len(rows)]
         /\ \A k \in 1..Len(r) :
              Len(rows) + k \in DOMAIN rows' /\ rows'[Len(rows) + k] = r[k]
<1>1. rows' = rows \o r
  BY DEF Log
<1>2. /\ rows' \in Seq(LogRow) /\ Len(rows') = Len(rows) + Len(r)
      /\ \A i \in 1..(Len(rows) + Len(r)) :
           rows'[i] = IF i <= Len(rows) THEN rows[i] ELSE r[i - Len(rows)]
  BY <1>1, ConcatProperties
<1>3. Len(rows) \in Nat /\ Len(r) \in Nat /\ DOMAIN rows = 1..Len(rows)
      /\ DOMAIN rows' = 1..Len(rows')
  BY <1>2, LenProperties
<1>4. \A i \in DOMAIN rows : i \in DOMAIN rows' /\ rows'[i] = rows[i]
  BY <1>2, <1>3
<1>5. \A i \in DOMAIN rows' \ DOMAIN rows :
        i - Len(rows) \in 1..Len(r) /\ rows'[i] = r[i - Len(rows)]
  BY <1>2, <1>3
<1>6. ASSUME NEW k \in 1..Len(r)
      PROVE  /\ Len(rows) + k \in DOMAIN rows'
             /\ rows'[Len(rows) + k] = r[k]
  <2>1. /\ Len(rows) + k \in 1..(Len(rows) + Len(r))
        /\ ~(Len(rows) + k <= Len(rows)) /\ (Len(rows) + k) - Len(rows) = k
    BY <1>3
  <2> QED
    BY <1>2, <1>3, <2>1
<1> QED
  BY <1>2, <1>3, <1>4, <1>5, <1>6

LEMMA RowsAreRows ==
  /\ <<>> \in Seq(LogRow) /\ Len(<<>>) = 0
  /\ \A row \in LogRow :
       <<row>> \in Seq(LogRow) /\ Len(<<row>>) = 1 /\ <<row>>[1] = row
  /\ \A a, b \in LogRow :
       /\ <<a, b>> \in Seq(LogRow) /\ Len(<<a, b>>) = 2
       /\ <<a, b>>[1] = a /\ <<a, b>>[2] = b
<1>1. <<>> \in Seq(LogRow) /\ Len(<<>>) = 0
  BY EmptySeq
<1>2. ASSUME NEW a \in LogRow
      PROVE  <<a>> \in Seq(LogRow) /\ Len(<<a>>) = 1 /\ <<a>>[1] = a
  OBVIOUS
<1>3. ASSUME NEW a \in LogRow, NEW b \in LogRow
      PROVE  /\ <<a, b>> \in Seq(LogRow) /\ Len(<<a, b>>) = 2
             /\ <<a, b>>[1] = a /\ <<a, b>>[2] = b
  OBVIOUS
<1> QED
  BY <1>1, <1>2, <1>3

LEMMA RowsAreTyped ==
  ASSUME NEW actor \in Actors, NEW stage \in LogStages, NEW action \in Actions,
         NEW ref \in {"", "paused"} \union Refs
  PROVE  Row(actor, stage, action, ref) \in LogRow
BY DEF Row, LogRow

\* The rows the walk writes.
LEMMA RowsOfTheWalk ==
  /\ Row("system", "plan", "opened", "") \in LogRow
  /\ Row("planner", "plan", "proposed", "") \in LogRow
  /\ \A g \in REQUIRED_GATES : PauseRow(g) \in LogRow
  /\ \A g \in REQUIRED_GATES, decision \in {"approved", "rejected", "overridden"} :
       Row("human", g, decision, "") \in LogRow
  /\ Row("developer", "develop", "proposed", "") \in LogRow
  /\ Row("reviewer", "review", "reviewed", "") \in LogRow
  /\ Row("system", "develop", "opened", "") \in LogRow
  /\ Row("system", "develop", "passed", "") \in LogRow
  /\ Row("security", "security", "blocked", "") \in LogRow
  /\ Row("security", "security", "passed", "") \in LogRow
  /\ \A ref \in Refs : Row("system", "security", "blocked", ref) \in LogRow
  /\ Row("system", "review", "failed", "") \in LogRow
  /\ Row("sre", "sre", "reviewed", "") \in LogRow
  /\ Row("sre", "sre", "failed", "") \in LogRow
  /\ Row("system", "promote", "failed", "") \in LogRow
  /\ \A ref \in Refs : Row("system", "promote", "merged", ref) \in LogRow
  /\ Row("system", "promote", "promoted", "") \in LogRow
BY RowsAreTyped DEF PauseRow, Actors, LogStages, Actions

\* What the log's type needs of a step.
LEMMA LogKeepsType ==
  ASSUME rows \in Seq(LogRow)
  PROVE  /\ Log(<<>>) => rows' \in Seq(LogRow)
         /\ \A row \in LogRow : Log(<<row>>) => rows' \in Seq(LogRow)
         /\ \A a, b \in LogRow : Log(<<a, b>>) => rows' \in Seq(LogRow)
BY LogGrows, RowsAreRows

-----------------------------------------------------------------------------
(* Types. *)

Place == [step : Steps, gate : {""} \union REQUIRED_GATES]

\* Where the walk may go next, and what it must have with it there.
Arrives ==
  /\ at' \in Place
  /\ at'.step \in {"pause", "asked"} => at'.gate \in REQUIRED_GATES
  /\ at'.step \in {"review", "open_pr", "tests", "security"} => mem'.dev # "none"

LEMMA Places ==
  /\ \A step \in Steps : Go(step) \in Place /\ Go(step).step = step
  /\ \A step \in Steps, g \in REQUIRED_GATES :
       /\ Step(step, g) \in Place
       /\ Step(step, g).step = step /\ Step(step, g).gate = g
BY DEF Go, Step, Place

LEMMA GoesOn ==
  ASSUME NEW step \in Steps \ {"pause", "asked"}, at' = Go(step),
         step \in {"review", "open_pr", "tests", "security"} => mem'.dev # "none"
  PROVE  Arrives
BY Places DEF Arrives

LEMMA GoesToGate ==
  ASSUME NEW step \in {"pause", "asked"}, NEW g \in REQUIRED_GATES,
         at' = Step(step, g)
  PROVE  Arrives
<1>1. step \in Steps
  BY DEF Steps
<1> QED
  BY <1>1, Places DEF Arrives

Saved == mem' \in RunDoc /\ mem'.status # "absent"

\* A step of the walk writes its place, its document, the log and the host.
LEMMA WalkKeepsType ==
  ASSUME TypeInv, Arrives, Saved, disk' \in {disk, mem}, rows' \in Seq(LogRow),
         host' \in Hosts, UNCHANGED <<setup, op, outside>>
  PROVE  TypeInv'
<1>1. PipelineTypeOK'
  BY DEF TypeInv, PipelineTypeOK, Arrives, Saved, Place
<1>2. (\A o \in Operators : Deciding(o))'
  BY DEF TypeInv, Deciding
<1> QED
  BY <1>1, <1>2 DEF TypeInv, Arrives, Saved

LEMMA WalkTypeStep ==
  ASSUME TypeInv, Walk
  PROVE  TypeInv'
<1>0. /\ mem \in RunDoc /\ mem.status # "absent" /\ rows \in Seq(LogRow)
      /\ host \in Hosts
  BY DEF TypeInv, PipelineTypeOK
<1>00. UNCHANGED mem => Saved
  BY <1>0 DEF Saved
<1>1. CASE Start
  <2>1. rows' \in Seq(LogRow)
    BY <1>0, <1>1, LogKeepsType, RowsOfTheWalk DEF Start
  <2>2. Arrives
    BY <1>1, GoesOn DEF Start, Steps
  <2>3. UNCHANGED <<setup, mem, disk, host, op, outside>>
    BY <1>1 DEF Start
  <2> QED
    BY <1>0, <1>00, <2>1, <2>2, <2>3, WalkKeepsType
<1>2. CASE Plan
  <2>1. rows' \in Seq(LogRow)
    BY <1>0, <1>2, LogKeepsType, RowsOfTheWalk DEF Plan
  <2>2. Arrives
    BY <1>2, GoesToGate DEF Plan, REQUIRED_GATES
  <2>3. Saved
    BY <1>0, <1>2 DEF Plan, Saved, RunDoc
  <2>4. UNCHANGED <<setup, disk, host, op, outside>>
    BY <1>2 DEF Plan
  <2> QED
    BY <1>0, <2>1, <2>2, <2>3, <2>4, WalkKeepsType
<1>3. CASE Develop
  <2>1. rows' \in Seq(LogRow)
    BY <1>0, <1>3, LogKeepsType, RowsOfTheWalk DEF Develop
  <2>2. PICK c \in Developer(setup.poisoned) : mem' = [mem EXCEPT !.dev = c]
    BY <1>3 DEF Develop
  <2>3. c \in Changes /\ c # "none"
    BY DEF Developer, Changes
  <2>4. Saved /\ mem'.dev # "none"
    BY <1>0, <2>2, <2>3 DEF Saved, RunDoc
  <2>5. Arrives
    BY <1>3, <2>4, GoesOn DEF Develop, Steps
  <2>6. UNCHANGED <<setup, disk, host, op, outside>>
    BY <1>3 DEF Develop
  <2> QED
    BY <1>0, <2>1, <2>4, <2>5, <2>6, WalkKeepsType
<1>4. CASE \E v \in {"approve", "changes_requested"} : Review(v)
  <2>1. PICK v \in {"approve", "changes_requested"} : Review(v)
    BY <1>4
  <2> DEFINE again == v # "approve" /\ mem.revisions < MaxRevisions
             n == IF again THEN mem.revisions + 1 ELSE mem.revisions
  <2>2. n \in 0..MaxRevisions
    BY <1>0, PipelineAssumption DEF RunDoc
  <2>3. /\ at = Go("review") /\ UNCHANGED <<setup, disk, host, op, outside>>
        /\ mem' = [mem EXCEPT !.review = v, !.revisions = n]
        /\ Log(<<Row("reviewer", "review", "reviewed", "")>>)
        /\ at' = Go("develop") \/ at' = Go("open_pr")
    BY <2>1 DEF Review
  <2> HIDE DEF n
  <2>4. Saved /\ mem'.dev = mem.dev
    BY <1>0, <2>2, <2>3 DEF Saved, RunDoc
  <2>5. mem.dev # "none"
    BY <2>3, Places DEF TypeInv, Steps
  <2>6. Arrives
    <3>1. at' = Go("develop") \/ at' = Go("open_pr")
      BY <2>3
    <3>2. mem'.dev # "none"
      BY <2>4, <2>5
    <3> QED
      BY <3>1, <3>2, GoesOn DEF Steps
  <2>7. rows' \in Seq(LogRow)
    BY <1>0, <2>3, LogKeepsType, RowsOfTheWalk
  <2> QED
    BY <1>0, <2>3, <2>4, <2>6, <2>7, WalkKeepsType
<1>5. CASE OpenPr
  <2>1. host' \in Hosts /\ UNCHANGED <<setup, mem, disk, op, outside>>
    BY <1>0, <1>5, OpenPrIsQuiet DEF OpenPr, Quiet
  <2>2. rows' \in Seq(LogRow)
    BY <1>0, <1>5, LogKeepsType, RowsOfTheWalk DEF OpenPr
  <2>3. at = Go("open_pr") /\ (at' = Go("tests") \/ at' = Go("save"))
    BY <1>5 DEF OpenPr
  <2>4. Arrives
    BY <2>1, <2>3, GoesOn, Places DEF TypeInv, Steps
  <2> QED
    BY <1>00, <2>1, <2>2, <2>4, WalkKeepsType
<1>6. CASE GenerateTests
  <2>1. rows' \in Seq(LogRow)
    BY <1>0, <1>6, LogKeepsType, RowsOfTheWalk DEF GenerateTests
  <2>2. UNCHANGED <<setup, mem, disk, host, op, outside>>
    BY <1>6 DEF GenerateTests
  <2>3. at = Go("tests") /\ at' = Go("security")
    BY <1>6 DEF GenerateTests
  <2>4. mem'.dev # "none"
    BY <2>2, <2>3, Places DEF TypeInv, Steps
  <2>5. Arrives
    BY <2>3, <2>4, GoesOn DEF Steps
  <2> QED
    BY <1>0, <1>00, <2>1, <2>2, <2>5, WalkKeepsType
<1>7. CASE Scan
  <2>1. mem.dev \in Changes /\ setup.gitleaks \in BOOLEAN
    <3>1. mem.dev # "none"
      BY <1>7, Places DEF TypeInv, Scan, Steps
    <3>2. mem.dev \in {"none"} \union Changes
      BY <1>0 DEF RunDoc
    <3> QED
      BY <3>1, <3>2 DEF TypeInv, PipelineTypeOK, Setups
  <2>2. PICK r \in SecurityAnswers[mem.dev][setup.gitleaks] :
          /\ mem' = [mem EXCEPT !.security = r.verdict]
          /\ Log(<<Row("security", "security",
                       IF r.verdict = "block" THEN "blocked" ELSE "passed", "")>>)
    BY <1>7 DEF Scan
  <2>3. r.verdict \in {"pass", "block"}
    BY <2>1, VerdictIsBinary
  <2>4. Saved
    BY <1>0, <2>2, <2>3 DEF Saved, RunDoc
  <2>5. rows' \in Seq(LogRow)
    BY <1>0, <2>2, <2>3, LogKeepsType, RowsOfTheWalk
  <2>6. Arrives /\ UNCHANGED <<setup, disk, host, op, outside>>
    BY <1>7, GoesOn DEF Scan, Steps
  <2> QED
    BY <1>0, <2>4, <2>5, <2>6, WalkKeepsType
<1>8. CASE Rule
  <2>1. PICK p \in post_comment(host, "security", TRUE) :
          /\ host' = p.host
          /\ \/ /\ mem' = [mem EXCEPT !.status = "blocked"]
                /\ Log(<<Row("system", "security", "blocked", p.ref)>>)
                /\ at' = Go("save")
             \/ /\ mem' = [mem EXCEPT !.status = "failed"]
                /\ Log(<<Row("system", "review", "failed", "")>>)
                /\ at' = Go("save")
             \/ at' = Step("pause", "gate2") /\ UNCHANGED <<mem, rows>>
    BY <1>8 DEF Rule
  <2>2. host' \in Hosts /\ p.ref \in Refs
    BY <1>0, <2>1, CommentsAreQuiet DEF Quiet
  <2>3. Saved
    BY <1>0, <2>1 DEF Saved, RunDoc, ENDINGS
  <2>4. rows' \in Seq(LogRow)
    BY <1>0, <2>1, <2>2, LogKeepsType, RowsOfTheWalk
  <2>5. Arrives
    BY <2>1, GoesOn, GoesToGate DEF Steps, REQUIRED_GATES
  <2>6. UNCHANGED <<setup, disk, op, outside>>
    BY <1>8 DEF Rule
  <2> QED
    BY <2>2, <2>3, <2>4, <2>5, <2>6, WalkKeepsType
<1>9. CASE Sre
  <2>1. \E verdict \in {"go", "no_go"} : mem' = Checked(mem, verdict)
    BY <1>9 DEF Sre
  <2>2. Saved
    BY <1>0, <2>1 DEF Saved, Checked, RunDoc, ENDINGS
  <2>3. rows' \in Seq(LogRow)
    BY <1>0, <1>9, LogKeepsType, RowsOfTheWalk DEF Sre
  <2>4. at' = Go("save") \/ at' = Step("pause", "gate3")
    BY <1>9 DEF Sre
  <2>5. Arrives
    BY <2>4, GoesOn, GoesToGate DEF Steps, REQUIRED_GATES
  <2>6. UNCHANGED <<setup, disk, host, op, outside>>
    BY <1>9 DEF Sre
  <2> QED
    BY <1>0, <2>2, <2>3, <2>5, <2>6, WalkKeepsType
<1>10. CASE Promote
  <2>1. UNCHANGED <<setup, disk, op, outside>>
    BY <1>10 DEF Promote
  <2>2. Arrives
    <3>1. at' = Go("save") \/ at' = Go("merged")
      BY <1>10 DEF Promote
    <3> QED
      BY <3>1, GoesOn DEF Steps
  <2>3. CASE not_promotable(mem)
    <3>1. /\ mem' = [mem EXCEPT !.status = "failed"] /\ UNCHANGED host
          /\ Log(<<Row("system", "promote", "failed", "")>>)
      BY <1>10, <2>3 DEF Promote
    <3>2. Saved
      BY <1>0, <3>1 DEF Saved, RunDoc, ENDINGS
    <3>3. rows' \in Seq(LogRow)
      BY <1>0, <3>1, LogKeepsType, RowsOfTheWalk
    <3> QED
      BY <1>0, <2>1, <2>2, <3>1, <3>2, <3>3, WalkKeepsType
  <2>4. CASE ~not_promotable(mem)
    <3>1. PICK p \in merge_pr(host, mem, TRUE) :
            host' = p.host /\ Log(<<Row("system", "promote", "merged", p.ref)>>)
      BY <1>10, <2>4 DEF Promote
    <3>2. host' \in Hosts /\ p.ref \in Refs
      BY <1>0, <3>1, MergesOnceOrNot
    <3>3. rows' \in Seq(LogRow)
      BY <1>0, <3>1, <3>2, LogKeepsType, RowsOfTheWalk
    <3>4. Saved
      BY <1>00, <1>10, <2>4 DEF Promote
    <3> QED
      BY <2>1, <2>2, <3>2, <3>3, <3>4, WalkKeepsType
  <2> QED
    BY <2>3, <2>4
<1>11. CASE RecordPromotion
  <2>1. Saved
    BY <1>0, <1>11 DEF Saved, RecordPromotion, RunDoc, ENDINGS
  <2>2. rows' \in Seq(LogRow)
    BY <1>0, <1>11, LogKeepsType, RowsOfTheWalk DEF RecordPromotion
  <2>3. Arrives /\ UNCHANGED <<setup, disk, host, op, outside>>
    BY <1>11, GoesOn DEF RecordPromotion, Steps
  <2> QED
    BY <1>0, <2>1, <2>2, <2>3, WalkKeepsType
<1>12. CASE Raise
  <2>1. Arrives /\ UNCHANGED <<setup, mem, disk, rows, host, op, outside>>
    BY <1>12, GoesOn DEF Raise, Steps
  <2> QED
    BY <1>0, <1>00, <2>1, WalkKeepsType
<1>13. CASE Save
  <2>1. Arrives /\ disk' = mem /\ UNCHANGED <<setup, mem, rows, host, op, outside>>
    BY <1>13, GoesOn DEF Save, Steps
  <2> QED
    BY <1>0, <1>00, <2>1, WalkKeepsType
<1>14. CASE Report
  <2>1. mem.status \in {"running"} \union ENDINGS
    BY <1>0 DEF RunDoc
  <2>2. host' \in Hosts
    BY <1>0, <1>14, <2>1, OutcomeIsQuiet DEF Report, Quiet
  <2>3. Arrives /\ UNCHANGED <<setup, mem, disk, rows, op, outside>>
    BY <1>14, GoesOn DEF Report, Steps
  <2> QED
    BY <1>0, <1>00, <2>2, <2>3, WalkKeepsType
<1>15. ASSUME NEW g \in REQUIRED_GATES, Pause(g)
       PROVE  TypeInv'
  <2>1. rows' \in Seq(LogRow)
    BY <1>0, <1>15, LogKeepsType, RowsOfTheWalk DEF Pause
  <2>2. Arrives /\ disk' = mem /\ UNCHANGED <<setup, mem, host, op, outside>>
    BY <1>15, GoesToGate DEF Pause
  <2> QED
    BY <1>0, <1>00, <2>1, <2>2, WalkKeepsType
<1>16. ASSUME NEW g \in REQUIRED_GATES, NEW d \in {"approved", "rejected"},
              Decide(g, d)
       PROVE  TypeInv'
  <2>1. [gate |-> g, decision |-> d] \in Decisions
    BY DEF Decisions
  <2>2. Saved
    <3>1. mem' = Resumed(mem, g, d)
      BY <1>16 DEF Decide
    <3> QED
      BY <1>0, <2>1, <3>1, Answered DEF Saved
  <2>3. rows' \in Seq(LogRow)
    BY <1>0, <1>16, LogKeepsType, RowsOfTheWalk DEF Decide
  <2>4. AfterGate(g) \in {"develop", "sre", "promote"}
    BY DEF AfterGate, REQUIRED_GATES
  <2>5. Arrives
    <3>1. at' = Go("save") \/ at' = Go(AfterGate(g))
      BY <1>16 DEF Decide
    <3> QED
      BY <2>4, <3>1, GoesOn DEF Steps
  <2>6. UNCHANGED <<setup, disk, host, op, outside>>
    BY <1>16 DEF Decide
  <2> QED
    BY <1>0, <2>2, <2>3, <2>5, <2>6, WalkKeepsType
<1> QED
  BY <1>1, <1>2, <1>3, <1>4, <1>5, <1>6, <1>7, <1>8, <1>9, <1>10, <1>11, <1>12,
     <1>13, <1>14, <1>15, <1>16 DEF Walk

LEMMA OthersTypeStep ==
  ASSUME TypeInv, Others
  PROVE  TypeInv'
<1>0. /\ op \in [Operators -> Doings] /\ disk \in RunDoc /\ rows \in Seq(LogRow)
      /\ host \in Hosts /\ outside \in 0..MaxOutside
      /\ \A o \in Operators : Deciding(o)
  BY DEF TypeInv, PipelineTypeOK
\* One of them goes on to d, with a decision it may record.
<1>1. ASSUME NEW o \in Operators, NEW d \in Doings, op' = [op EXCEPT ![o] = d],
             d.step # "idle" =>
               [gate |-> d.gate, decision |-> d.decision] \in Decisions,
             disk' \in RunDoc, rows' \in Seq(LogRow), outside' \in 0..MaxOutside,
             UNCHANGED <<setup, at, mem, host>>
      PROVE  TypeInv'
  <2>1. op' \in [Operators -> Doings]
    BY <1>0, <1>1
  <2>2. ASSUME NEW q \in Operators
        PROVE  Deciding(q)'
    <3>1. CASE q = o
      BY <1>0, <1>1, <3>1 DEF Deciding
    <3>2. CASE q # o
      <4>1. op'[q] = op[q]
        BY <1>0, <1>1, <3>2
      <4> QED
        BY <1>0, <4>1 DEF Deciding
    <3> QED
      BY <3>1, <3>2
  <2>3. PipelineTypeOK'
    BY <1>1, <2>1 DEF TypeInv, PipelineTypeOK, Doings
  <2> QED
    BY <1>1, <2>1, <2>2, <2>3 DEF TypeInv
<1>2. ASSUME NEW o \in Operators, NEW g \in OutsideGates, NEW d \in OutsideAnswers
      PROVE  /\ [gate |-> g, decision |-> d] \in Decisions
             /\ g \in REQUIRED_GATES /\ d \in {"approved", "rejected", "overridden"}
             /\ outside < MaxOutside => outside + 1 \in 0..MaxOutside
  <2>1. [gate |-> g, decision |-> d] \in Decisions
    BY PipelineAssumption
  <2> QED
    BY <1>0, <2>1, PipelineAssumption DEF Decisions
<1>3. ASSUME NEW o \in Operators, NEW g \in OutsideGates, NEW d \in OutsideAnswers,
             AskScreen(o, g, d)
      PROVE  TypeInv'
  <2> DEFINE new == [step |-> "admitted", gate |-> g, decision |-> d,
                     doc |-> Unsaved]
  <2>1. Unsaved \in RunDoc
    BY FirstDocs
  <2>2. new \in Doings
    BY <1>2, <2>1 DEF Doings
  <2>3. /\ op' = [op EXCEPT ![o] = new] /\ outside' \in 0..MaxOutside
        /\ UNCHANGED <<setup, at, mem, host, disk, rows>>
    BY <1>2, <1>3 DEF AskScreen, Begins, Doing
  <2>4. new.gate = g /\ new.decision = d
    OBVIOUS
  <2> HIDE DEF new
  <2> QED
    BY <1>0, <1>1, <1>2, <2>2, <2>3, <2>4
<1>4. ASSUME NEW o \in Operators, LoadRun(o)
      PROVE  TypeInv'
  <2> DEFINE g == op[o].gate
             d == op[o].decision
             new == [step |-> "loaded", gate |-> g, decision |-> d,
                     doc |-> Resumed(disk, g, d)]
  <2>1. [gate |-> g, decision |-> d] \in Decisions
    BY <1>0, <1>4 DEF LoadRun, Deciding
  <2>2. Resumed(disk, g, d) \in RunDoc
    BY <1>0, <2>1, Answered
  <2>3. g \in {""} \union REQUIRED_GATES
        /\ d \in {"", "approved", "rejected", "overridden"}
    BY <1>0 DEF Doings
  <2>4. op' = [op EXCEPT ![o] = new]
        /\ UNCHANGED <<setup, at, mem, disk, rows, host, outside>>
    BY <1>4 DEF LoadRun, Doing
  <2> HIDE DEF g, d
  <2>5. new \in Doings /\ new.gate = g /\ new.decision = d
    BY <2>2, <2>3 DEF Doings
  <2> HIDE DEF new
  <2> QED
    BY <1>0, <1>1, <2>1, <2>4, <2>5
<1>5. ASSUME NEW o \in Operators, NEW g \in OutsideGates, NEW d \in OutsideAnswers,
             AskShell(o, g, d)
      PROVE  TypeInv'
  <2> DEFINE new == [step |-> "loaded", gate |-> g, decision |-> d,
                     doc |-> Resumed(disk, g, d)]
  <2>1. Resumed(disk, g, d) \in RunDoc
    BY <1>0, <1>2, Answered
  <2>2. new \in Doings /\ new.gate = g /\ new.decision = d
    BY <1>2, <2>1 DEF Doings
  <2>3. /\ op' = [op EXCEPT ![o] = new] /\ outside' \in 0..MaxOutside
        /\ UNCHANGED <<setup, at, mem, host, disk, rows>>
    BY <1>2, <1>5 DEF AskShell, Begins, Doing
  <2> HIDE DEF new
  <2> QED
    BY <1>0, <1>1, <1>2, <2>2, <2>3
<1>6. ASSUME NEW o \in Operators, LogDecision(o)
      PROVE  TypeInv'
  <2> DEFINE new == [op[o] EXCEPT !.step = "logged"]
  <2>1. [gate |-> op[o].gate, decision |-> op[o].decision] \in Decisions
    BY <1>0, <1>6 DEF LogDecision, Deciding
  <2>2. new \in Doings /\ new.gate = op[o].gate /\ new.decision = op[o].decision
    BY <1>0 DEF Doings
  <2>3. op[o].gate \in REQUIRED_GATES
        /\ op[o].decision \in {"approved", "rejected", "overridden"}
    BY <2>1 DEF Decisions
  <2>4. Row("human", op[o].gate, op[o].decision, "") \in LogRow
    BY <2>3, RowsOfTheWalk
  <2>5. rows' \in Seq(LogRow)
    BY <1>0, <1>6, <2>4, LogKeepsType DEF LogDecision
  <2>6. op' = [op EXCEPT ![o] = new]
        /\ UNCHANGED <<setup, at, mem, disk, host, outside>>
    BY <1>6 DEF LogDecision
  <2> HIDE DEF new
  <2> QED
    BY <1>0, <1>1, <2>1, <2>2, <2>5, <2>6
<1>7. ASSUME NEW o \in Operators, SaveDecision(o)
      PROVE  TypeInv'
  <2>1. Idle \in Doings /\ Idle.step = "idle"
    BY FirstDocs
  <2>2. op[o].doc \in RunDoc
    BY <1>0 DEF Doings
  <2> QED
    BY <1>0, <1>1, <1>7, <2>1, <2>2 DEF SaveDecision
<1>8. CASE ClosePull
  <2>1. host' \in Hosts
    BY <1>0, <1>8 DEF ClosePull, Hosts
  <2> QED
    BY <1>8, <2>1 DEF TypeInv, PipelineTypeOK, ClosePull, Deciding
<1> QED
  BY <1>3, <1>4, <1>5, <1>6, <1>7, <1>8 DEF Others

LEMMA TypeStep ==
  ASSUME TypeInv, [PipelineNext]_pipeline
  PROVE  TypeInv'
<1>1. CASE Kill
  <2>1. Arrives /\ UNCHANGED <<setup, mem, disk, rows, host, op, outside>>
    BY <1>1, GoesOn DEF Kill, Steps
  <2> QED
    BY <2>1, WalkKeepsType DEF TypeInv, PipelineTypeOK, Saved
<1>2. CASE UNCHANGED pipeline
  BY <1>2 DEF TypeInv, PipelineTypeOK, Deciding, pipeline
<1> QED
  BY <1>1, <1>2, WalkTypeStep, OthersTypeStep DEF PipelineNext

LEMMA TypeInit ==
  PipelineInit => TypeInv
<1> SUFFICES ASSUME PipelineInit PROVE TypeInv
  OBVIOUS
<1>1. mem \in RunDoc /\ disk \in RunDoc /\ mem.status # "absent"
  BY FirstDocs DEF PipelineInit
<1>2. at \in Place /\ at.step = "start"
  BY Places DEF PipelineInit, Steps
<1>3. Idle \in Doings /\ Idle.step = "idle"
  BY FirstDocs
<1>4. /\ op \in [Operators -> Doings]
      /\ \A o \in Operators : op[o].step = "idle" /\ op[o].doc \in RunDoc
  BY <1>3 DEF PipelineInit, Doings
<1>5. host \in Hosts
  BY DEF PipelineInit, Hosts
<1>6. rows \in Seq(LogRow) /\ setup \in Setups /\ outside \in 0..MaxOutside
  BY PipelineAssumption, RowsAreRows DEF PipelineInit
<1> QED
  BY <1>1, <1>2, <1>4, <1>5, <1>6 DEF TypeInv, PipelineTypeOK, Deciding, Place

-----------------------------------------------------------------------------
(* Where the walk is, against what its document says. *)

AtGate(g) == at.step \in {"pause", "asked"} /\ at.gate = g

OnTheWay == at.step \notin {"save", "report", "done", "killed"}

Drafting == {"develop", "review", "open_pr", "tests", "security", "ruling"}

\* The gates already passed, by place; nothing lands before the promote stage.
GatesInv ==
  /\ at.step \in {"start", "plan"} \/ AtGate("gate1") => ApprovedGates(mem) = {}
  /\ at.step \in Drafting \/ AtGate("gate2") => ApprovedGates(mem) = {"gate1"}
  /\ at.step = "sre" \/ AtGate("gate3") => ApprovedGates(mem) = {"gate1", "gate2"}
  /\ at.step \in {"promote", "merged"} => ApprovedGates(mem) = REQUIRED_GATES
  /\ OnTheWay => \A d \in mem.decisions : d.decision # "rejected"
  /\ OnTheWay /\ at.step # "merged" => host.merges = 0

\* The verdict, by place, and what it has led to.
VerdictInv ==
  /\ at.step \in {"start", "plan"} \/ at.step \in Drafting \ {"ruling"} \/ AtGate("gate1")
       => mem.security = "none"
  /\ AtGate("gate2") \/ AtGate("gate3") \/ at.step \in {"sre", "promote", "merged"}
       => mem.security = "pass" /\ mem.review = "approve"
  /\ at.step \in {"save", "report", "done"} /\ mem.security = "block"
       => mem.status = "blocked"
  /\ OnTheWay => mem.status = "running"
  /\ host.merges > 0 \/ mem.status = "promoted" => mem.security = "pass"

\* An approval adds its gate to the approved ones, a rejection adds none.
LEMMA ApprovalAddsItsGate ==
  ASSUME NEW g,
         mem'.decisions = mem.decisions \union {[gate |-> g, decision |-> "approved"]}
  PROVE  ApprovedGates(mem') = ApprovedGates(mem) \union {g}
<1> DEFINE d == [gate |-> g, decision |-> "approved"]
<1>1. {e \in mem'.decisions : e.decision \in APPROVING}
        = {e \in mem.decisions : e.decision \in APPROVING} \union {d}
  BY DEF APPROVING
<1>2. d.gate = g
  OBVIOUS
<1> HIDE DEF d
<1> QED
  BY <1>1, <1>2 DEF ApprovedGates

LEMMA RejectionAddsNoGate ==
  ASSUME NEW doc, NEW new, NEW g,
         new.decisions = doc.decisions \union {[gate |-> g, decision |-> "rejected"]}
  PROVE  ApprovedGates(new) = ApprovedGates(doc)
BY DEF ApprovedGates, APPROVING

LEMMA FieldsOfPlaces ==
  /\ \A step : Go(step).step = step /\ Go(step).gate = ""
  /\ \A step, g : Step(step, g).step = step /\ Step(step, g).gate = g
BY DEF Go, Step

LEMMA PlacesStep ==
  ASSUME TypeInv, GatesInv, VerdictInv, [PipelineNext]_pipeline
  PROVE  GatesInv' /\ VerdictInv'
<1> USE DEF AtGate, OnTheWay, Drafting, REQUIRED_GATES
<1>0. /\ mem \in RunDoc /\ host \in Hosts
      /\ at.step \in {"pause", "asked"} => at.gate \in REQUIRED_GATES
  BY DEF TypeInv, PipelineTypeOK
<1>00. mem'.decisions = mem.decisions => ApprovedGates(mem') = ApprovedGates(mem)
  BY DEF ApprovedGates
<1>1. CASE Start
  BY <1>1 DEF Start, GatesInv, VerdictInv, Go, Step
<1>2. CASE Plan
  BY <1>0, <1>00, <1>2 DEF Plan, GatesInv, VerdictInv, Go, Step, RunDoc
<1>3. CASE Develop
  BY <1>0, <1>00, <1>3 DEF Develop, GatesInv, VerdictInv, Go, Step, RunDoc
<1>4. CASE \E v \in {"approve", "changes_requested"} : Review(v)
  <2>1. /\ at = Go("review") /\ (at' = Go("develop") \/ at' = Go("open_pr"))
        /\ UNCHANGED <<disk, host>>
    BY <1>4 DEF Review
  <2>2. /\ mem'.decisions = mem.decisions /\ mem'.status = mem.status
        /\ mem'.security = mem.security
    <3>1. PICK v \in {"approve", "changes_requested"} : Review(v)
      BY <1>4
    <3> DEFINE n == IF v # "approve" /\ mem.revisions < MaxRevisions
                    THEN mem.revisions + 1 ELSE mem.revisions
    <3>2. mem' = [mem EXCEPT !.review = v, !.revisions = n]
      BY <3>1 DEF Review
    <3> HIDE DEF n
    <3> QED
      BY <1>0, <3>2 DEF RunDoc
  <2>3. CASE at' = Go("develop")
    BY <1>00, <2>1, <2>2, <2>3 DEF GatesInv, VerdictInv, Go, Step
  <2>4. CASE at' = Go("open_pr")
    BY <1>00, <2>1, <2>2, <2>4 DEF GatesInv, VerdictInv, Go, Step
  <2> QED
    BY <2>1, <2>3, <2>4
<1>5. CASE OpenPr
  <2>1. host'.merges = host.merges
    BY <1>0, <1>5, OpenPrIsQuiet DEF OpenPr, Quiet
  <2>2. at = Go("open_pr") /\ (at' = Go("tests") \/ at' = Go("save")) /\ mem' = mem
    BY <1>5 DEF OpenPr
  <2>3. CASE at' = Go("tests")
    BY <2>1, <2>2, <2>3 DEF GatesInv, VerdictInv, Go, Step
  <2>4. CASE at' = Go("save")
    BY <2>1, <2>2, <2>4 DEF GatesInv, VerdictInv, Go, Step
  <2> QED
    BY <2>2, <2>3, <2>4
<1>6. CASE GenerateTests
  BY <1>6 DEF GenerateTests, GatesInv, VerdictInv, Go, Step
<1>7. CASE Scan
  <2>1. \E verdict : mem' = [mem EXCEPT !.security = verdict]
    BY <1>7 DEF Scan
  <2>2. mem'.decisions = mem.decisions /\ mem'.status = mem.status
    BY <1>0, <2>1 DEF RunDoc
  <2>3. at = Go("security") /\ at' = Go("ruling") /\ host' = host
    BY <1>7 DEF Scan
  <2> QED
    BY <1>0, <1>00, <2>2, <2>3 DEF GatesInv, VerdictInv, Go, Step, Hosts
<1>8. CASE Rule
  <2>1. host'.merges = host.merges
    BY <1>0, <1>8, CommentsAreQuiet DEF Rule, Quiet
  <2>2. /\ at = Go("ruling")
        /\ \/ /\ mem.security = "block" /\ at' = Go("save")
              /\ mem' = [mem EXCEPT !.status = "blocked"]
           \/ /\ mem.security = "pass" /\ at' = Go("save")
              /\ mem' = [mem EXCEPT !.status = "failed"]
           \/ /\ mem.security = "pass" /\ mem.review = "approve"
              /\ at' = Step("pause", "gate2") /\ mem' = mem
    BY <1>8 DEF Rule
  <2>3. /\ mem'.decisions = mem.decisions /\ mem'.security = mem.security
        /\ mem'.review = mem.review
    BY <1>0, <2>2 DEF RunDoc
  <2>4. CASE at' = Step("pause", "gate2") /\ mem' = mem
             /\ mem.security = "pass" /\ mem.review = "approve"
    BY <2>1, <2>2, <2>4 DEF GatesInv, VerdictInv, Go, Step
  <2>5. CASE at' = Go("save")
             /\ \/ mem.security = "block" /\ mem' = [mem EXCEPT !.status = "blocked"]
                \/ mem.security = "pass" /\ mem' = [mem EXCEPT !.status = "failed"]
    <3>1. mem'.status = IF mem.security = "block" THEN "blocked" ELSE "failed"
      BY <1>0, <2>5 DEF RunDoc
    <3> QED
      BY <1>00, <2>1, <2>2, <2>3, <2>5, <3>1 DEF GatesInv, VerdictInv, Go, Step
  <2> QED
    BY <2>2, <2>4, <2>5
<1>9. CASE Sre
  <2>1. /\ at = Go("sre") /\ host' = host
    BY <1>9 DEF Sre
  <2>2. PICK verdict \in {"go", "no_go"} :
          /\ mem' = Checked(mem, verdict)
          /\ at' = IF verdict = "no_go" THEN Go("save") ELSE Step("pause", "gate3")
    BY <1>9 DEF Sre
  <2>3. /\ mem'.decisions = mem.decisions /\ mem'.security = mem.security
        /\ mem'.review = mem.review
        /\ mem'.status = IF verdict = "no_go" THEN "failed" ELSE mem.status
    BY <1>0, <2>2 DEF RunDoc, Checked
  <2> QED
    BY <1>00, <2>1, <2>2, <2>3 DEF GatesInv, VerdictInv, Go, Step
<1>10. CASE Promote
  <2>1. /\ at = Go("promote")
        /\ \/ /\ mem' = [mem EXCEPT !.status = "failed"] /\ host' = host
              /\ at' = Go("save")
           \/ mem' = mem /\ at' = Go("merged")
    BY <1>10 DEF Promote
  <2>2. CASE mem' = mem /\ at' = Go("merged")
    BY <2>1, <2>2 DEF GatesInv, VerdictInv, Go, Step
  <2>3. CASE /\ mem' = [mem EXCEPT !.status = "failed"] /\ host' = host
             /\ at' = Go("save")
    <3>1. /\ mem'.decisions = mem.decisions /\ mem'.security = mem.security
          /\ mem'.status = "failed"
      BY <1>0, <2>3 DEF RunDoc
    <3> QED
      BY <1>00, <2>1, <2>3, <3>1 DEF GatesInv, VerdictInv, Go, Step
  <2> QED
    BY <2>1, <2>2, <2>3
<1>11. CASE RecordPromotion
  BY <1>0, <1>00, <1>11 DEF RecordPromotion, GatesInv, VerdictInv, Go, Step, RunDoc
<1>12. CASE Raise
  BY <1>0, <1>12 DEF Raise, GatesInv, VerdictInv, Go, Step
<1>13. CASE Save
  BY <1>13 DEF Save, GatesInv, VerdictInv, Go, Step
<1>14. CASE Report
  <2>1. host'.merges = host.merges
    <3>1. mem.status \in {"running"} \union ENDINGS
      BY <1>0 DEF TypeInv, RunDoc
    <3> QED
      BY <1>0, <1>14, <3>1, OutcomeIsQuiet DEF Report, Quiet
  <2> QED
    BY <1>14, <2>1 DEF Report, GatesInv, VerdictInv, Go, Step
<1>15. CASE \E g \in REQUIRED_GATES : Pause(g)
  BY <1>15 DEF Pause, GatesInv, VerdictInv, Go, Step
<1>16. ASSUME NEW g \in REQUIRED_GATES, NEW d \in {"approved", "rejected"},
              Decide(g, d)
       PROVE  GatesInv' /\ VerdictInv'
  <2>1. /\ at = Step("asked", g) /\ host' = host /\ mem' = Resumed(mem, g, d)
        /\ at' = Go(IF d = "rejected" THEN "save" ELSE AfterGate(g))
    BY <1>16 DEF Decide
  <2>2. [gate |-> g, decision |-> d] \in Decisions
    BY DEF Decisions
  <2>3. /\ mem'.decisions
             = mem.decisions \union {[gate |-> g, decision |-> d]}
        /\ mem'.status = IF d = "rejected" THEN "rejected" ELSE mem.status
        /\ mem'.security = mem.security /\ mem'.review = mem.review
    BY <1>0, <2>1, <2>2, Answered
  <2>4. CASE d = "rejected"
    <3>1. at' = Go("save") /\ mem.security # "block"
      BY <2>1, <2>4 DEF VerdictInv, Step
    <3>2. /\ mem'.status = "rejected" /\ mem'.security = mem.security
          /\ host' = host
      BY <2>1, <2>3, <2>4
    <3>3. at.step # "merged"
      BY <2>1 DEF Step
    <3> QED
      BY <3>1, <3>2, <3>3 DEF GatesInv, VerdictInv, Go, Step
  <2>5. CASE d = "approved"
    <3>1. ApprovedGates(mem') = ApprovedGates(mem) \union {g}
      <4>1. mem'.decisions
              = mem.decisions \union {[gate |-> g, decision |-> "approved"]}
        BY <2>3, <2>5
      <4> QED
        BY <4>1, ApprovalAddsItsGate
    <3>2. \A e \in mem'.decisions : e.decision # "rejected"
      <4>1. \A e \in mem.decisions : e.decision # "rejected"
        BY <2>1 DEF GatesInv, Step
      <4> QED
        BY <2>3, <2>5, <4>1
    <3>3. CASE g = "gate1"
      BY <2>1, <2>3, <2>5, <3>1, <3>2, <3>3
         DEF GatesInv, VerdictInv, Go, Step, AfterGate
    <3>4. CASE g = "gate2"
      BY <2>1, <2>3, <2>5, <3>1, <3>2, <3>4
         DEF GatesInv, VerdictInv, Go, Step, AfterGate
    <3>5. CASE g = "gate3"
      BY <2>1, <2>3, <2>5, <3>1, <3>2, <3>5
         DEF GatesInv, VerdictInv, Go, Step, AfterGate
    <3> QED
      BY <3>3, <3>4, <3>5
  <2> QED
    BY <2>4, <2>5
<1>17. CASE Kill
  BY <1>17 DEF Kill, GatesInv, VerdictInv, Go, Step
<1>18. CASE Others
  <2>1. UNCHANGED <<at, mem>>
    BY <1>18 DEF Others, LoadRun, LogDecision, SaveDecision, AskScreen, AskShell,
                 Begins, ClosePull
  <2>2. host'.merges = host.merges
    BY <1>0, <1>18 DEF Others, LoadRun, LogDecision, SaveDecision, AskScreen,
                       AskShell, Begins, ClosePull, Hosts
  <2> QED
    BY <2>1, <2>2 DEF GatesInv, VerdictInv
<1>19. CASE UNCHANGED pipeline
  BY <1>19 DEF pipeline, GatesInv, VerdictInv
<1> QED
  BY <1>1, <1>2, <1>3, <1>4, <1>5, <1>6, <1>7, <1>8, <1>9, <1>10, <1>11, <1>12,
     <1>13, <1>14, <1>15, <1>16, <1>17, <1>18, <1>19 DEF PipelineNext, Walk

-----------------------------------------------------------------------------
(* The walk keeps the organisation's promise. *)

LEMMA OnlyGatesDecideOnlyPromoteMerges ==
  ASSUME TypeInv, [PipelineNext]_pipeline,
         ~ Promote,
         \A g \in REQUIRED_GATES, d \in {"approved", "rejected"} : ~ Decide(g, d)
  PROVE  mem'.decisions = mem.decisions /\ host'.merges = host.merges
<1>0. mem \in RunDoc /\ host \in Hosts
  BY DEF TypeInv, PipelineTypeOK
<1>1. CASE Start \/ GenerateTests \/ Raise \/ Save \/ Kill \/ UNCHANGED pipeline
           \/ \E g \in REQUIRED_GATES : Pause(g)
  BY <1>1 DEF Start, GenerateTests, Raise, Save, Kill, pipeline, Pause
<1>2. CASE Plan \/ Develop \/ RecordPromotion
  BY <1>0, <1>2 DEF Plan, Develop, RecordPromotion, RunDoc
<1>3. ASSUME NEW v \in {"approve", "changes_requested"}, Review(v)
      PROVE  mem'.decisions = mem.decisions /\ host' = host
  <2> DEFINE n == IF v # "approve" /\ mem.revisions < MaxRevisions
                  THEN mem.revisions + 1 ELSE mem.revisions
  <2>1. mem' = [mem EXCEPT !.review = v, !.revisions = n] /\ host' = host
    BY <1>3 DEF Review
  <2> HIDE DEF n
  <2> QED
    BY <1>0, <2>1 DEF RunDoc
<1>4. CASE OpenPr
  BY <1>0, <1>4, OpenPrIsQuiet DEF OpenPr, Quiet
<1>5. CASE Scan
  BY <1>0, <1>5 DEF Scan, RunDoc
<1>6. CASE Rule
  <2>1. host'.merges = host.merges
    BY <1>0, <1>6, CommentsAreQuiet DEF Rule, Quiet
  <2> QED
    BY <1>0, <1>6, <2>1 DEF Rule, RunDoc
<1>7. CASE Sre
  <2>1. (\E verdict \in {"go", "no_go"} : mem' = Checked(mem, verdict)) /\ host' = host
    BY <1>7 DEF Sre
  <2> QED
    BY <1>0, <2>1 DEF Checked, RunDoc
<1>8. CASE Report
  <2>1. mem.status \in {"running"} \union ENDINGS
    BY <1>0 DEF TypeInv, RunDoc
  <2>2. PICK p \in report_outcome(host, mem.status) : host' = p.host /\ mem' = mem
    BY <1>8 DEF Report
  <2> QED
    BY <1>0, <2>1, <2>2, OutcomeIsQuiet DEF Quiet
<1>9. CASE Others
  BY <1>0, <1>9 DEF Others, LoadRun, LogDecision, SaveDecision, AskScreen,
                    AskShell, Begins, ClosePull, Hosts
<1> QED
  BY <1>1, <1>2, <1>3, <1>4, <1>5, <1>6, <1>7, <1>8, <1>9 DEF PipelineNext, Walk

LEMMA GatesInOrder ==
  /\ Promise!GatesBefore(1) = {}
  /\ Promise!GatesBefore(2) = {"gate1"}
  /\ Promise!GatesBefore(3) = {"gate1", "gate2"}
  /\ Promise!GatesBefore(4) = {"gate1", "gate2", "gate3"}
  /\ Promise!GateOrder[1] = "gate1" /\ Promise!GateOrder[2] = "gate2"
  /\ Promise!GateOrder[3] = "gate3"
<1>1. 1..(1 - 1) = {} /\ 1..(2 - 1) = {1} /\ 1..(3 - 1) = {1, 2} /\ 1..(4 - 1) = {1, 2, 3}
  OBVIOUS
<1>2. /\ Promise!GateOrder[1] = "gate1" /\ Promise!GateOrder[2] = "gate2"
      /\ Promise!GateOrder[3] = "gate3"
  BY DEF Promise!GateOrder
<1> QED
  BY <1>1, <1>2 DEF Promise!GatesBefore

LEMMA PromiseStep ==
  ASSUME TypeInv, GatesInv, VerdictInv, [PipelineNext]_pipeline
  PROVE  [Promise!PromotionNext]_(Promise!promotion)
<1>0. mem \in RunDoc /\ host \in Hosts /\ host.merges \in Nat
  BY DEF TypeInv, PipelineTypeOK, Hosts
<1> DEFINE approvals == [r \in {"run"} |-> ApprovedGates(mem)]
           refusals == IF \E d \in mem.decisions : d.decision = "rejected"
                       THEN {"run"} ELSE {}
           landed == IF host.merges > 0 THEN {"run"} ELSE {}
<1>1. CASE mem'.decisions = mem.decisions /\ host'.merges = host.merges
  <2>1. approvals' = approvals /\ refusals' = refusals /\ landed' = landed
    BY <1>1 DEF ApprovedGates
  <2> QED
    BY <2>1 DEF Promise!promotion
<1>2. CASE Promote
  <2>1. /\ at = Go("promote") /\ (host' # host => mem' = mem)
        /\ mem'.decisions = mem.decisions
    BY <1>0, <1>2 DEF Promote, RunDoc
  <2>2. /\ ApprovedGates(mem) = REQUIRED_GATES
        /\ \A d \in mem.decisions : d.decision # "rejected"
        /\ host.merges = 0
    BY <2>1 DEF GatesInv, OnTheWay, Go, Step
  <2>3. approvals' = approvals /\ refusals' = refusals /\ refusals = {}
    BY <2>1, <2>2 DEF ApprovedGates
  <2>4. landed = {}
    BY <2>2
  <2>5. landed' = landed \/ landed' = landed \union {"run"}
    BY <2>4
  <2>6. approvals["run"] = Promise!GatesBefore(4)
    BY <2>2, GatesInOrder DEF REQUIRED_GATES
  <2> HIDE DEF approvals, refusals, landed
  <2>7. CASE landed' = landed
    BY <2>3, <2>7 DEF Promise!promotion, approvals, refusals, landed
  <2>8. CASE landed' = landed \union {"run"}
    <3>1. Promise!Merge("run")
      BY <2>3, <2>6, <2>8 DEF Promise!Merge, approvals, refusals, landed
    <3> QED
      BY <3>1 DEF Promise!PromotionNext
  <2> QED
    BY <2>5, <2>7, <2>8
<1>3. ASSUME NEW g \in REQUIRED_GATES, NEW d \in {"approved", "rejected"},
             Decide(g, d)
      PROVE  Promise!PromotionNext
  <2>1. at = Step("asked", g) /\ host' = host /\ mem' = Resumed(mem, g, d)
    BY <1>3 DEF Decide
  <2>2. [gate |-> g, decision |-> d] \in Decisions
    BY DEF Decisions
  <2>3. mem'.decisions = mem.decisions \union {[gate |-> g, decision |-> d]}
    BY <1>0, <2>1, <2>2, Answered
  <2>4. \E i \in 1..3 : /\ Promise!GateOrder[i] = g
                        /\ ApprovedGates(mem) = Promise!GatesBefore(i)
    BY <2>1, GatesInOrder DEF GatesInv, AtGate, REQUIRED_GATES, Step
  <2>5. PICK i \in 1..3 : /\ Promise!GateOrder[i] = g
                          /\ ApprovedGates(mem) = Promise!GatesBefore(i)
    BY <2>4
  <2>6. refusals = {} /\ landed' = landed
    BY <2>1 DEF GatesInv, OnTheWay, Step
  <2>7. approvals["run"] = Promise!GatesBefore(i)
    BY <2>5
  <2> HIDE DEF approvals, refusals, landed
  <2>8. CASE d = "approved"
    <3>1. mem'.decisions
            = mem.decisions \union {[gate |-> g, decision |-> "approved"]}
      BY <2>3, <2>8
    <3>2. ApprovedGates(mem') = ApprovedGates(mem) \union {g}
      BY <3>1, ApprovalAddsItsGate
    <3>3. approvals' = [approvals EXCEPT !["run"] = @ \union {g}]
      BY <3>2 DEF approvals
    <3>4. refusals' = refusals
      <4>1. \A e \in mem'.decisions : e.decision # "rejected"
        BY <2>6, <3>1 DEF refusals
      <4> QED
        BY <2>6, <4>1 DEF refusals
    <3>5. Promise!Approve("run", i)
      BY <2>5, <2>6, <2>7, <3>3, <3>4
         DEF Promise!Approve, Promise!AtGate, approvals, refusals, landed
    <3> QED
      BY <3>5 DEF Promise!PromotionNext
  <2>9. CASE d = "rejected"
    <3>1. mem'.decisions
            = mem.decisions \union {[gate |-> g, decision |-> "rejected"]}
      BY <2>3, <2>9
    <3>2. ApprovedGates(mem') = ApprovedGates(mem)
      BY <3>1, RejectionAddsNoGate
    <3>3. approvals' = approvals
      BY <3>2 DEF approvals
    <3>4. refusals' = {"run"}
      <4>1. [gate |-> g, decision |-> "rejected"] \in mem'.decisions
        BY <3>1
      <4>2. [gate |-> g, decision |-> "rejected"].decision = "rejected"
        OBVIOUS
      <4>3. \E e \in mem'.decisions : e.decision = "rejected"
        BY <4>1, <4>2
      <4> QED
        BY <4>3 DEF refusals
    <3>5. Promise!Refuse("run", i)
      BY <2>6, <2>7, <3>3, <3>4
         DEF Promise!Refuse, Promise!AtGate, approvals, refusals, landed
    <3> QED
      BY <3>5 DEF Promise!PromotionNext
  <2> QED
    BY <2>8, <2>9
<1> QED
  BY <1>1, <1>2, <1>3, OnlyGatesDecideOnlyPromoteMerges

-----------------------------------------------------------------------------
(* What the log says. *)

Logged == {rows[i] : i \in DOMAIN rows}

LEMMA LoggedGrowsBy ==
  ASSUME rows \in Seq(LogRow)
  PROVE  /\ rows' = rows \/ Log(<<>>) => Logged' = Logged
         /\ \A row \in LogRow : Log(<<row>>) => Logged' = Logged \union {row}
         /\ \A a, b \in LogRow : Log(<<a, b>>) => Logged' = Logged \union {a, b}
<1> DEFINE Of(r) == {r[k] : k \in 1..Len(r)}
<1>1. ASSUME NEW r \in Seq(LogRow), Log(r)
      PROVE  Logged' = Logged \union Of(r)
  <2>1. /\ \A i \in DOMAIN rows : i \in DOMAIN rows' /\ rows'[i] = rows[i]
        /\ \A i \in DOMAIN rows' \ DOMAIN rows :
              i - Len(rows) \in 1..Len(r) /\ rows'[i] = r[i - Len(rows)]
        /\ \A k \in 1..Len(r) :
              Len(rows) + k \in DOMAIN rows' /\ rows'[Len(rows) + k] = r[k]
    BY <1>1, LogGrows
  <2>2. ASSUME NEW q \in Logged'
        PROVE  q \in Logged \union Of(r)
    <3>1. PICK i \in DOMAIN rows' : q = rows'[i]
      BY DEF Logged
    <3>2. CASE i \in DOMAIN rows
      BY <2>1, <3>1, <3>2 DEF Logged
    <3>3. CASE i \notin DOMAIN rows
      BY <2>1, <3>1, <3>3
    <3> QED
      BY <3>2, <3>3
  <2>3. ASSUME NEW q \in Logged
        PROVE  q \in Logged'
    BY <2>1 DEF Logged
  <2>4. ASSUME NEW k \in 1..Len(r)
        PROVE  r[k] \in Logged'
    BY <2>1 DEF Logged
  <2> QED
    BY <2>2, <2>3, <2>4
<1>2. rows' = rows \/ Log(<<>>) => Logged' = Logged
  <2>1. Of(<<>>) = {}
    BY RowsAreRows
  <2>2. rows' = rows => Logged' = Logged
    BY DEF Logged
  <2> HIDE DEF Of
  <2> QED
    BY <1>1, <2>1, <2>2, RowsAreRows
<1>3. ASSUME NEW row \in LogRow, Log(<<row>>)
      PROVE  Logged' = Logged \union {row}
  <2>1. 1..Len(<<row>>) = {1} /\ <<row>>[1] = row
    BY RowsAreRows
  <2>2. Of(<<row>>) = {row}
    BY <2>1
  <2> HIDE DEF Of
  <2> QED
    BY <1>1, <1>3, <2>2, RowsAreRows
<1>4. ASSUME NEW a \in LogRow, NEW b \in LogRow, Log(<<a, b>>)
      PROVE  Logged' = Logged \union {a, b}
  <2>1. 1..Len(<<a, b>>) = {1, 2} /\ <<a, b>>[1] = a /\ <<a, b>>[2] = b
    BY RowsAreRows
  <2>2. Of(<<a, b>>) = {a, b}
    BY <2>1
  <2> HIDE DEF Of
  <2> QED
    BY <1>1, <1>4, <2>2, RowsAreRows
<1> QED
  BY <1>2, <1>3, <1>4

\* The row by which a person asked at g is told of, and the one by which a
\* block is.
MarksPause(q) == q.action = "opened" /\ q.ref = "paused"
MarksBlock(q) == q.actor = "system" /\ q.stage = "security" /\ q.action = "blocked"

\* What a step may add to the log: a pause marker when the walk comes to a
\* gate, the block when the rule has it, and nothing else of either kind.
LEMMA NewRows ==
  ASSUME TypeInv, [PipelineNext]_pipeline
  PROVE  /\ Logged \subseteq Logged'
         /\ \A q \in Logged' \ Logged :
              /\ MarksPause(q) => q.stage \in REQUIRED_GATES /\ Pause(q.stage)
              /\ MarksBlock(q) /\ q.ref \in {"https", "local"} =>
                   \E n \in host'.told : n.body = "security"
<1> USE DEF MarksPause, MarksBlock
<1>0. rows \in Seq(LogRow) /\ host \in Hosts
  BY DEF TypeInv, PipelineTypeOK
<1>1. CASE rows' = rows
  BY <1>0, <1>1, LoggedGrowsBy
<1>2. ASSUME NEW actor, NEW stage, NEW action,
             Row(actor, stage, action, "") \in LogRow,
             Log(<<Row(actor, stage, action, "")>>)
      PROVE  /\ Logged \subseteq Logged'
             /\ \A q \in Logged' \ Logged : ~MarksPause(q) /\ q.ref = ""
  <2> DEFINE row == Row(actor, stage, action, "")
  <2>1. row.ref = ""
    BY DEF Row
  <2>2. row \in LogRow /\ Log(<<row>>)
    BY <1>2
  <2> HIDE DEF row
  <2>3. Logged' = Logged \union {row}
    BY <1>0, <2>2, LoggedGrowsBy
  <2> QED
    BY <2>1, <2>3
<1>3. CASE Start \/ Plan \/ Develop \/ GenerateTests \/ RecordPromotion
           \/ (\E v \in {"approve", "changes_requested"} : Review(v))
  BY <1>2, <1>3, RowsOfTheWalk
     DEF Start, Plan, Develop, GenerateTests, RecordPromotion, Review
<1>4. CASE OpenPr
  BY <1>1, <1>2, <1>4, RowsOfTheWalk DEF OpenPr
<1>5. CASE Scan
  <2>1. \/ Log(<<Row("security", "security", "blocked", "")>>)
        \/ Log(<<Row("security", "security", "passed", "")>>)
    BY <1>5 DEF Scan
  <2> QED
    BY <1>2, <2>1, RowsOfTheWalk
<1>6. CASE Rule
  <2>1. PICK p \in post_comment(host, "security", TRUE) :
          /\ host' = p.host
          /\ \/ Log(<<Row("system", "security", "blocked", p.ref)>>)
             \/ Log(<<Row("system", "review", "failed", "")>>)
             \/ rows' = rows
    BY <1>6 DEF Rule
  <2>2. p.ref \in Refs /\ (p.ref \in {"https", "local"} =>
                             \E n \in host'.told : n.body = "security")
    BY <1>0, <2>1, CommentsAreQuiet
  <2> DEFINE row == Row("system", "security", "blocked", p.ref)
  <2>3. CASE Log(<<row>>)
    <3>1. row \in LogRow
      BY <2>2, RowsOfTheWalk
    <3>2. row.ref = p.ref /\ row.action # "opened"
      BY DEF Row
    <3> HIDE DEF row
    <3>3. Logged' = Logged \union {row}
      BY <1>0, <2>3, <3>1, LoggedGrowsBy
    <3> QED
      BY <2>2, <3>2, <3>3
  <2>4. CASE Log(<<Row("system", "review", "failed", "")>>)
    BY <1>2, <2>4, RowsOfTheWalk
  <2> QED
    BY <1>1, <2>1, <2>3, <2>4
<1>7. CASE Sre
  <2>1. \/ Log(<<Row("sre", "sre", "reviewed", "")>>)
        \/ Log(<<Row("sre", "sre", "reviewed", ""), Row("sre", "sre", "failed", "")>>)
    BY <1>7 DEF Sre
  <2>2. CASE Log(<<Row("sre", "sre", "reviewed", ""), Row("sre", "sre", "failed", "")>>)
    <3> DEFINE a == Row("sre", "sre", "reviewed", "")
               b == Row("sre", "sre", "failed", "")
    <3>1. a \in LogRow /\ b \in LogRow /\ Log(<<a, b>>)
      BY <2>2, RowsOfTheWalk
    <3>2. a.ref = "" /\ b.ref = ""
      BY DEF Row
    <3> HIDE DEF a, b
    <3>3. Logged' = Logged \union {a, b}
      BY <1>0, <3>1, LoggedGrowsBy
    <3> QED
      BY <3>2, <3>3
  <2> QED
    BY <1>2, <2>1, <2>2, RowsOfTheWalk
<1>8. CASE Promote
  <2>1. \/ Log(<<Row("system", "promote", "failed", "")>>)
        \/ \E p \in merge_pr(host, mem, TRUE) :
              Log(<<Row("system", "promote", "merged", p.ref)>>)
    BY <1>8 DEF Promote
  <2>2. ASSUME NEW p \in merge_pr(host, mem, TRUE),
               Log(<<Row("system", "promote", "merged", p.ref)>>)
        PROVE  /\ Logged \subseteq Logged'
               /\ \A q \in Logged' \ Logged : q.action = "merged"
    <3> DEFINE row == Row("system", "promote", "merged", p.ref)
    <3>1. row \in LogRow
      BY <1>0, MergesOnceOrNot, RowsOfTheWalk
    <3>2. row.action = "merged"
      BY DEF Row
    <3> HIDE DEF row
    <3>3. Logged' = Logged \union {row}
      BY <1>0, <2>2, <3>1, LoggedGrowsBy DEF row
    <3> QED
      BY <3>2, <3>3
  <2> QED
    BY <1>2, <2>1, <2>2, RowsOfTheWalk
<1>9. CASE Raise \/ Save \/ Report \/ Kill \/ UNCHANGED pipeline
  BY <1>1, <1>9 DEF Raise, Save, Report, Kill, pipeline
<1>10. ASSUME NEW g \in REQUIRED_GATES, Pause(g)
       PROVE  /\ Logged \subseteq Logged'
              /\ \A q \in Logged' \ Logged : q.stage = g /\ q.action = "opened"
  <2>1. PauseRow(g) \in LogRow /\ Log(<<PauseRow(g)>>)
    BY <1>10, RowsOfTheWalk DEF Pause
  <2>2. PauseRow(g).stage = g /\ PauseRow(g).action = "opened"
    BY DEF PauseRow, Row
  <2> QED
    BY <1>0, <2>1, <2>2, LoggedGrowsBy
<1>11. CASE \E g \in REQUIRED_GATES, d \in {"approved", "rejected"} : Decide(g, d)
  BY <1>2, <1>11, RowsOfTheWalk DEF Decide
<1>12. CASE Others
  <2>1. ASSUME NEW o \in Operators, LogDecision(o)
        PROVE  /\ Logged \subseteq Logged'
               /\ \A q \in Logged' \ Logged : ~MarksPause(q) /\ q.ref = ""
    <3>1. [gate |-> op[o].gate, decision |-> op[o].decision] \in Decisions
      BY <2>1 DEF TypeInv, LogDecision, Deciding
    <3>2. op[o].gate \in REQUIRED_GATES
          /\ op[o].decision \in {"approved", "rejected", "overridden"}
      BY <3>1 DEF Decisions
    <3> QED
      BY <1>2, <2>1, <3>2, RowsOfTheWalk DEF LogDecision
  <2> QED
    BY <1>1, <1>12, <2>1 DEF Others, LoadRun, SaveDecision, AskScreen, AskShell,
                             Begins, ClosePull
<1> QED
  BY <1>3, <1>4, <1>5, <1>6, <1>7, <1>8, <1>9, <1>10, <1>11, <1>12
     DEF PipelineNext, Walk

\* Once somebody was asked at gate2, the walk is past drafting and what gate2
\* was asked about stays as it was.
Gate2Inv ==
  (\E q \in Logged : MarksPause(q) /\ q.stage = "gate2") =>
    /\ mem.security = "pass" /\ mem.review = "approve"
    /\ at.step \notin {"start", "plan"} \union Drafting
    /\ at.step = "pause" => at.gate = "gate3"
    /\ at.step = "asked" => at.gate \in {"gate2", "gate3"}

LEMMA Gate2Step ==
  ASSUME TypeInv, GatesInv, VerdictInv, Gate2Inv, [PipelineNext]_pipeline
  PROVE  Gate2Inv'
<1> DEFINE Past == /\ mem.security = "pass" /\ mem.review = "approve"
                   /\ at.step \notin {"start", "plan"} \union Drafting
                   /\ at.step = "pause" => at.gate = "gate3"
                   /\ at.step = "asked" => at.gate \in {"gate2", "gate3"}
<1>0. /\ mem \in RunDoc
      /\ at.step \in {"pause", "asked"} => at.gate \in REQUIRED_GATES
  BY DEF TypeInv, PipelineTypeOK
<1>1. ASSUME Past
      PROVE  Past'
  <2> USE DEF AtGate, Drafting, REQUIRED_GATES
  <2>1. CASE Start \/ Plan \/ Develop \/ OpenPr \/ GenerateTests \/ Scan \/ Rule
             \/ (\E v \in {"approve", "changes_requested"} : Review(v))
    <3>1. at.step \in {"start", "plan"} \union Drafting
      <4>1. at \in {Go("start"), Go("plan"), Go("develop"), Go("review"),
                    Go("open_pr"), Go("tests"), Go("security"), Go("ruling")}
        BY <2>1 DEF Start, Plan, Develop, OpenPr, GenerateTests, Scan, Rule, Review
      <4> QED
        BY <4>1, FieldsOfPlaces
    <3> QED
      BY <1>1, <3>1
  <2>2. CASE Sre
    <3>1. PICK verdict \in {"go", "no_go"} :
            /\ mem' = Checked(mem, verdict)
            /\ at' = IF verdict = "no_go" THEN Go("save") ELSE Step("pause", "gate3")
      BY <2>2 DEF Sre
    <3>2. mem'.security = mem.security /\ mem'.review = mem.review
      BY <1>0, <3>1 DEF RunDoc, Checked
    <3> QED
      BY <1>1, <3>1, <3>2 DEF Go, Step
  <2>3. CASE Promote
    <3>1. /\ mem' = mem \/ mem' = [mem EXCEPT !.status = "failed"]
          /\ at' = Go("save") \/ at' = Go("merged")
      BY <2>3 DEF Promote
    <3>2. mem'.security = mem.security /\ mem'.review = mem.review
      BY <1>0, <3>1 DEF RunDoc
    <3>3. at'.step \in {"save", "merged"}
      BY <3>1, FieldsOfPlaces
    <3> QED
      BY <1>1, <3>2, <3>3
  <2>4. CASE RecordPromotion
    BY <1>0, <1>1, <2>4 DEF RecordPromotion, RunDoc, Go, Step
  <2>5. CASE Raise \/ Save \/ Report \/ Kill \/ UNCHANGED pipeline
    <3>1. at' = at \/ at'.step \in {"save", "report", "done", "killed"}
      BY <2>5, FieldsOfPlaces DEF Raise, Save, Report, Kill, pipeline
    <3>2. mem' = mem
      BY <2>5 DEF Raise, Save, Report, Kill, pipeline
    <3> QED
      BY <1>1, <3>1, <3>2
  <2>6. CASE \E g \in REQUIRED_GATES : Pause(g)
    BY <1>1, <2>6 DEF Pause, Step
  <2>7. ASSUME NEW g \in REQUIRED_GATES, NEW d \in {"approved", "rejected"},
               Decide(g, d)
        PROVE  Past'
    <3>1. /\ at = Step("asked", g) /\ mem' = Resumed(mem, g, d)
          /\ at' = Go(IF d = "rejected" THEN "save" ELSE AfterGate(g))
      BY <2>7 DEF Decide
    <3>2. [gate |-> g, decision |-> d] \in Decisions
      BY DEF Decisions
    <3>3. mem'.security = mem.security /\ mem'.review = mem.review
      BY <1>0, <3>1, <3>2, Answered
    <3>4. g # "gate1"
      BY <1>1, <3>1 DEF Step
    <3>5. AfterGate(g) \in {"sre", "promote"}
      BY <3>4 DEF AfterGate
    <3>6. at'.step \in {"save", "sre", "promote"}
      BY <3>1, <3>5 DEF Go, Step
    <3> QED
      BY <1>1, <3>3, <3>6
  <2>8. CASE Others
    BY <1>1, <2>8 DEF Others, LoadRun, LogDecision, SaveDecision, AskScreen,
                      AskShell, Begins, ClosePull
  <2> QED
    BY <2>1, <2>2, <2>3, <2>4, <2>5, <2>6, <2>7, <2>8 DEF PipelineNext, Walk
<1>2. ASSUME Pause("gate2")
      PROVE  Past'
  BY <1>2 DEF Pause, VerdictInv, AtGate, Step, Drafting
<1>3. CASE \E q \in Logged : MarksPause(q) /\ q.stage = "gate2"
  BY <1>1, <1>3 DEF Gate2Inv
<1>4. CASE ~ \E q \in Logged : MarksPause(q) /\ q.stage = "gate2"
  <2> SUFFICES ASSUME NEW q \in Logged', MarksPause(q), q.stage = "gate2"
               PROVE  Past'
    BY DEF Gate2Inv, MarksPause
  <2>1. Pause("gate2")
    BY <1>4, NewRows
  <2> QED
    BY <1>2, <2>1
<1> QED
  BY <1>3, <1>4

\* A block somebody is told of on the log, was told on the host.
DeliveryInv ==
  \A q \in Logged : MarksBlock(q) /\ q.ref \in {"https", "local"} =>
    \E n \in host.told : n.body = "security"

LEMMA NothingIsUntold ==
  ASSUME TypeInv, [PipelineNext]_pipeline
  PROVE  host.told \subseteq host'.told
<1>0. mem \in RunDoc /\ mem.status # "absent" /\ host \in Hosts
  BY DEF TypeInv, PipelineTypeOK
<1>1. CASE host' = host
  BY <1>1
<1>2. CASE OpenPr
  <2>1. PICK a \in open_pr(host) : host' = a.host
    BY <1>2 DEF OpenPr
  <2> QED
    BY <1>0, <2>1, OpenPrIsQuiet DEF Quiet
<1>6. CASE Rule
  <2>1. PICK p \in post_comment(host, "security", TRUE) : host' = p.host
    BY <1>6 DEF Rule
  <2> QED
    BY <1>0, <2>1, CommentsAreQuiet DEF Quiet
<1>3. CASE Promote
  BY <1>0, <1>1, <1>3, MergesOnceOrNot DEF Promote
<1>4. CASE Report
  <2>1. mem.status \in {"running"} \union ENDINGS
    BY <1>0 DEF RunDoc
  <2>2. PICK p \in report_outcome(host, mem.status) : host' = p.host
    BY <1>4 DEF Report
  <2>3. Quiet(host, p.host)
    BY <1>0, <2>1, OutcomeIsQuiet
  <2> QED
    BY <2>2, <2>3 DEF Quiet
<1>5. CASE ClosePull
  BY <1>0, <1>5 DEF ClosePull, Hosts
<1> QED
  BY <1>1, <1>2, <1>3, <1>4, <1>5, <1>6
     DEF PipelineNext, Walk, Kill, Others, pipeline, Start, Plan, Develop, Review,
         GenerateTests, Scan, Sre, RecordPromotion, Raise, Save, Pause, Decide,
         LoadRun, LogDecision, SaveDecision, AskScreen, AskShell, Begins

LEMMA DeliveryStep ==
  ASSUME TypeInv, DeliveryInv, [PipelineNext]_pipeline
  PROVE  DeliveryInv'
<1> SUFFICES ASSUME NEW q \in Logged', MarksBlock(q), q.ref \in {"https", "local"}
             PROVE  \E n \in host'.told : n.body = "security"
  BY DEF DeliveryInv, MarksBlock
<1>1. CASE q \in Logged
  BY <1>1, NothingIsUntold DEF DeliveryInv
<1>2. CASE q \notin Logged
  BY <1>2, NewRows
<1> QED
  BY <1>1, <1>2

\* Every decision in a document somebody may save has its row, except the one
\* its bearer is about to log.
HasRow(d) ==
  \E q \in Logged : q.actor = "human" /\ q.stage = d.gate /\ q.action = d.decision

DecisionInv ==
  /\ \A d \in mem.decisions : HasRow(d)
  /\ \A d \in disk.decisions : HasRow(d)
  /\ \A o \in Operators :
       /\ op[o].step = "logged" => \A d \in op[o].doc.decisions : HasRow(d)
       /\ op[o].step = "loaded" =>
            \A d \in op[o].doc.decisions :
              HasRow(d) \/ d = [gate |-> op[o].gate, decision |-> op[o].decision]

LEMMA RowsStay ==
  ASSUME Logged \subseteq Logged', NEW d, HasRow(d)
  PROVE  HasRow(d)'
BY DEF HasRow

\* What writes a row for a decision has it on the log.
LEMMA DecisionRow ==
  ASSUME TypeInv, NEW d \in Decisions, Log(<<Row("human", d.gate, d.decision, "")>>)
  PROVE  Logged \subseteq Logged' /\ HasRow(d)'
<1> DEFINE row == Row("human", d.gate, d.decision, "")
<1>1. d.gate \in REQUIRED_GATES /\ d.decision \in {"approved", "rejected", "overridden"}
  BY DEF Decisions
<1>2. row \in LogRow
  BY <1>1, RowsOfTheWalk
<1>3. row.actor = "human" /\ row.stage = d.gate /\ row.action = d.decision
  BY DEF Row
<1> HIDE DEF row
<1>4. Logged' = Logged \union {row}
  BY <1>2, LoggedGrowsBy DEF TypeInv, row
<1> QED
  BY <1>3, <1>4 DEF HasRow

LEMMA DecisionStep ==
  ASSUME TypeInv, DecisionInv, [PipelineNext]_pipeline
  PROVE  DecisionInv'
<1>0. /\ mem \in RunDoc /\ disk \in RunDoc /\ op \in [Operators -> Doings]
      /\ Logged \subseteq Logged'
  BY NewRows DEF TypeInv, PipelineTypeOK
<1>1. \A d : HasRow(d) => HasRow(d)'
  BY <1>0, RowsStay
\* The walk's steps leave the others alone.
<1>2. ASSUME op' = op, disk' = disk \/ disk' = mem, mem'.decisions = mem.decisions
      PROVE  DecisionInv'
  BY <1>1, <1>2 DEF DecisionInv
<1>3. ASSUME NEW g \in REQUIRED_GATES, NEW a \in {"approved", "rejected"}, Decide(g, a)
      PROVE  DecisionInv'
  <2> DEFINE d == [gate |-> g, decision |-> a]
  <2>1. d \in Decisions /\ d.gate = g /\ d.decision = a
    BY DEF Decisions
  <2>2. /\ mem' = Resumed(mem, g, a) /\ op' = op /\ disk' = disk
        /\ Log(<<Row("human", g, a, "")>>)
    BY <1>3 DEF Decide
  <2>3. mem'.decisions = mem.decisions \union {d}
    <3>1. [gate |-> g, decision |-> a] \in Decisions
      BY <2>1
    <3>2. Resumed(mem, g, a).decisions
            = mem.decisions \union {[gate |-> g, decision |-> a]}
      BY <1>0, <3>1, Answered
    <3> QED
      BY <2>2, <3>2
  <2> HIDE DEF d
  <2>4. HasRow(d)'
    <3>1. Log(<<Row("human", d.gate, d.decision, "")>>)
      BY <2>1, <2>2
    <3> QED
      BY <2>1, <3>1, DecisionRow
  <2> QED
    BY <1>1, <2>2, <2>3, <2>4 DEF DecisionInv
<1>4. ASSUME NEW o \in Operators, LoadRun(o)
      PROVE  DecisionInv'
  <2> DEFINE g == op[o].gate
             a == op[o].decision
             new == Resumed(disk, g, a)
  <2>1. [gate |-> g, decision |-> a] \in Decisions
    BY <1>4 DEF TypeInv, LoadRun, Deciding
  <2>2. new.decisions = disk.decisions \union {[gate |-> g, decision |-> a]}
    BY <1>0, <2>1, Answered
  <2>3. /\ op' = [op EXCEPT ![o] = [step |-> "loaded", gate |-> g, decision |-> a,
                                    doc |-> new]]
        /\ UNCHANGED <<mem, disk>>
    BY <1>4 DEF LoadRun, Doing
  <2> HIDE DEF g, a, new
  <2>4. /\ op'[o].step = "loaded" /\ op'[o].doc = new
        /\ op'[o].gate = g /\ op'[o].decision = a
        /\ \A q \in Operators \ {o} : op'[q] = op[q]
    BY <1>0, <2>3
  <2> QED
    BY <1>1, <2>2, <2>3, <2>4 DEF DecisionInv
<1>5. ASSUME NEW o \in Operators, NEW g \in OutsideGates, NEW a \in OutsideAnswers,
             AskShell(o, g, a)
      PROVE  DecisionInv'
  <2> DEFINE new == Resumed(disk, g, a)
  <2>1. [gate |-> g, decision |-> a] \in Decisions
    BY PipelineAssumption
  <2>2. new.decisions = disk.decisions \union {[gate |-> g, decision |-> a]}
    BY <1>0, <2>1, Answered
  <2>3. /\ op' = [op EXCEPT ![o] = [step |-> "loaded", gate |-> g, decision |-> a,
                                    doc |-> new]]
        /\ UNCHANGED <<mem, disk>>
    BY <1>5 DEF AskShell, Begins, Doing
  <2> HIDE DEF new
  <2>4. /\ op'[o].step = "loaded" /\ op'[o].doc = new
        /\ op'[o].gate = g /\ op'[o].decision = a
        /\ \A q \in Operators \ {o} : op'[q] = op[q]
    BY <1>0, <2>3
  <2> QED
    BY <1>1, <2>2, <2>3, <2>4 DEF DecisionInv
<1>6. ASSUME NEW o \in Operators, NEW g \in OutsideGates, NEW a \in OutsideAnswers,
             AskScreen(o, g, a)
      PROVE  DecisionInv'
  <2>1. op'[o].step = "admitted" /\ \A q \in Operators \ {o} : op'[q] = op[q]
    BY <1>0, <1>6 DEF AskScreen, Doing
  <2>2. UNCHANGED <<mem, disk>>
    BY <1>6 DEF AskScreen, Begins
  <2> QED
    BY <1>1, <2>1, <2>2 DEF DecisionInv
<1>7. ASSUME NEW o \in Operators, LogDecision(o)
      PROVE  DecisionInv'
  <2>0. PICK d \in Decisions :
          d = [gate |-> op[o].gate, decision |-> op[o].decision]
    BY <1>7 DEF TypeInv, LogDecision, Deciding
  <2>1. d.gate = op[o].gate /\ d.decision = op[o].decision
    BY <2>0
  <2>2. HasRow(d)'
    <3>1. Log(<<Row("human", d.gate, d.decision, "")>>)
      BY <1>7, <2>1 DEF LogDecision
    <3> QED
      BY <3>1, DecisionRow
  <2>3. /\ op[o].step = "loaded" /\ UNCHANGED <<mem, disk>>
        /\ op'[o].step = "logged" /\ op'[o].doc = op[o].doc
        /\ \A q \in Operators \ {o} : op'[q] = op[q]
    BY <1>0, <1>7 DEF LogDecision, Doings
  <2>4. \A e \in op[o].doc.decisions : HasRow(e) \/ e = d
    BY <2>0, <2>3 DEF DecisionInv
  <2>5. ASSUME NEW e \in op'[o].doc.decisions
        PROVE  HasRow(e)'
    <3>1. HasRow(e) \/ e = d
      BY <2>3, <2>4
    <3> QED
      BY <1>1, <2>2, <3>1
  <2> QED
    BY <1>1, <2>3, <2>5 DEF DecisionInv
<1>8. ASSUME NEW o \in Operators, SaveDecision(o)
      PROVE  DecisionInv'
  <2>1. /\ op[o].step = "logged" /\ disk' = op[o].doc /\ mem' = mem
        /\ op'[o].step = "idle" /\ \A q \in Operators \ {o} : op'[q] = op[q]
    BY <1>0, <1>8, FirstDocs DEF SaveDecision
  <2> QED
    BY <1>1, <2>1 DEF DecisionInv
<1>9. CASE ClosePull \/ Kill \/ UNCHANGED pipeline
  BY <1>2, <1>9 DEF ClosePull, Kill, pipeline
<1>10. CASE Promote
  BY <1>0, <1>2, <1>10 DEF Promote, RunDoc
<1>11. CASE Walk /\ ~Promote
            /\ \A g \in REQUIRED_GATES, d \in {"approved", "rejected"} : ~ Decide(g, d)
  <2>1. mem'.decisions = mem.decisions
    BY <1>11, OnlyGatesDecideOnlyPromoteMerges DEF PipelineNext
  <2>2. op' = op /\ (disk' = disk \/ disk' = mem)
    BY <1>11 DEF Walk, Start, Plan, Develop, Review, OpenPr, GenerateTests, Scan,
       Rule, Sre, RecordPromotion, Raise, Save, Report, Pause
  <2> QED
    BY <1>2, <2>1, <2>2
<1> QED
  BY <1>3, <1>4, <1>5, <1>6, <1>7, <1>8, <1>9, <1>10, <1>11
     DEF PipelineNext, Others

-----------------------------------------------------------------------------
(* The last row, and the rows of the developer. *)

Last == rows[Len(rows)].action

DevRows == {i \in DOMAIN rows : rows[i].actor = "developer"}
Drafts == Cardinality(DevRows)

\* Unless somebody writes from outside, the last row and the document agree.
EndingInv ==
  outside = 0 =>
    /\ \A o \in Operators : op[o].step = "idle"
    /\ at.step \notin {"start", "killed"} => Len(rows) > 0
    /\ OnTheWay /\ at.step # "start"
         /\ ~(at.step = "ruling" /\ mem.security # "pass") => Last \notin ENDINGS
    /\ at.step \in {"save", "report", "done"} =>
         mem.status = IF Last \in ENDINGS THEN Last ELSE "running"
    /\ at.step \in {"report", "done"} => disk = mem

\* A draft is only made when the last revision allows it.
DraftsInv ==
  /\ IsFiniteSet(DevRows) /\ Drafts \in Nat
  /\ Drafts <= mem.revisions + 1
  /\ at.step \in {"start", "plan", "develop"} \/ AtGate("gate1") =>
       Drafts <= mem.revisions

LEMMA OneRowMore ==
  ASSUME rows \in Seq(LogRow), IsFiniteSet(DevRows), Drafts \in Nat,
         NEW row \in LogRow, Log(<<row>>)
  PROVE  /\ Len(rows') > 0 /\ Last' = row.action
         /\ IsFiniteSet(DevRows') /\ Drafts' \in Nat
         /\ Drafts' = IF row.actor = "developer" THEN Drafts + 1 ELSE Drafts
<1> DEFINE n == Len(rows) + 1
<1>3. Len(<<row>>) = 1 /\ <<row>>[1] = row /\ <<row>> \in Seq(LogRow)
  BY RowsAreRows
<1>4. /\ Len(rows) \in Nat /\ Len(rows') = n
      /\ DOMAIN rows = 1..Len(rows) /\ DOMAIN rows' = 1..n
      /\ \A i \in DOMAIN rows : rows'[i] = rows[i]
  BY <1>3, LogGrows
<1>5. rows'[n] = row
  <2>1. \A k \in 1..Len(<<row>>) : rows'[Len(rows) + k] = <<row>>[k]
    BY <1>3, LogGrows
  <2> QED
    BY <1>3, <2>1
<1>6. n \notin DOMAIN rows /\ DOMAIN rows' = DOMAIN rows \union {n} /\ n > 0
  BY <1>4
<1> HIDE DEF n
<1>7. DevRows' = IF row.actor = "developer" THEN DevRows \union {n} ELSE DevRows
  <2>1. DevRows' = {i \in DOMAIN rows \union {n} : rows'[i].actor = "developer"}
    BY <1>6 DEF DevRows
  <2>2. DevRows = {i \in DOMAIN rows : rows'[i].actor = "developer"}
    BY <1>4 DEF DevRows
  <2> QED
    BY <1>5, <1>6, <2>1, <2>2
<1>8. n \notin DevRows
  BY <1>6 DEF DevRows
<1>9. /\ IsFiniteSet(DevRows \union {n})
      /\ Cardinality(DevRows \union {n}) = Cardinality(DevRows) + 1
  BY <1>8, FS_AddElement
<1>10. Len(rows') > 0 /\ Last' = row.action
  BY <1>4, <1>5, <1>6 DEF Last
<1>11. CASE row.actor = "developer"
  BY <1>7, <1>9, <1>10, <1>11 DEF Drafts
<1>12. CASE row.actor # "developer"
  BY <1>7, <1>10, <1>12 DEF Drafts
<1> QED
  BY <1>11, <1>12

LEMMA TwoRowsMore ==
  ASSUME rows \in Seq(LogRow), IsFiniteSet(DevRows), Drafts \in Nat,
         NEW a \in LogRow, NEW b \in LogRow, Log(<<a, b>>),
         a.actor # "developer", b.actor # "developer"
  PROVE  /\ Len(rows') > 0 /\ Last' = b.action
         /\ DevRows' = DevRows /\ Drafts' = Drafts
<1>1. /\ Len(<<a, b>>) = 2 /\ <<a, b>>[1] = a /\ <<a, b>>[2] = b
      /\ <<a, b>> \in Seq(LogRow)
  BY RowsAreRows
<1>2. /\ Len(rows) \in Nat /\ Len(rows') = Len(rows) + 2
      /\ DOMAIN rows = 1..Len(rows) /\ DOMAIN rows' = 1..(Len(rows) + 2)
      /\ \A i \in DOMAIN rows : rows'[i] = rows[i]
  BY <1>1, LogGrows
<1>3. rows'[Len(rows) + 2] = b /\ rows'[Len(rows) + 1] = a
  <2>1. \A k \in 1..Len(<<a, b>>) : rows'[Len(rows) + k] = <<a, b>>[k]
    BY <1>1, LogGrows
  <2>2. 1 \in 1..Len(<<a, b>>) /\ 2 \in 1..Len(<<a, b>>)
    BY <1>1
  <2> QED
    BY <1>1, <2>1, <2>2
<1>4. \A i \in DOMAIN rows' : i \in DOMAIN rows \/ i = Len(rows) + 1 \/ i = Len(rows) + 2
  BY <1>2
<1>5. DOMAIN rows \subseteq DOMAIN rows'
  BY <1>2
<1>6. DevRows' = DevRows
  <2>1. DevRows' \subseteq DevRows
    BY <1>2, <1>3, <1>4 DEF DevRows
  <2>2. DevRows \subseteq DevRows'
    BY <1>2, <1>5 DEF DevRows
  <2> QED
    BY <2>1, <2>2
<1>7. Len(rows') > 0 /\ Last' = b.action
  BY <1>2, <1>3 DEF Last
<1> QED
  BY <1>6, <1>7 DEF Drafts

LEMMA LogStep ==
  ASSUME TypeInv, VerdictInv, EndingInv, DraftsInv, [PipelineNext]_pipeline
  PROVE  EndingInv' /\ DraftsInv'
<1> USE DEF AtGate, OnTheWay, REQUIRED_GATES
<1>0. /\ mem \in RunDoc /\ rows \in Seq(LogRow) /\ host \in Hosts
      /\ outside \in Nat /\ mem.revisions \in Nat
      /\ IsFiniteSet(DevRows) /\ Drafts \in Nat
      /\ (at.step \in {"pause", "asked"} => at.gate \in REQUIRED_GATES)
      /\ op \in [Operators -> Doings]
  <2>1. mem \in RunDoc /\ rows \in Seq(LogRow) /\ host \in Hosts /\ outside \in 0..MaxOutside
    BY DEF TypeInv, PipelineTypeOK
  <2>2. mem.revisions \in 0..MaxRevisions
    BY <2>1 DEF RunDoc
  <2>3. outside \in Nat /\ mem.revisions \in Nat
    BY <2>1, <2>2, PipelineAssumption
  <2>4. op \in [Operators -> Doings]
    BY DEF TypeInv
  <2>5. at.step \in {"pause", "asked"} => at.gate \in REQUIRED_GATES
    BY DEF TypeInv
  <2> QED
    BY <2>1, <2>3, <2>4, <2>5 DEF DraftsInv
\* A step that leaves the log alone.
<1>1. rows' = rows => /\ Last' = Last /\ DevRows' = DevRows /\ Drafts' = Drafts
                      /\ Len(rows') = Len(rows)
  BY DEF Last, DevRows, Drafts
\* A step of the walk that logs one row.
<1>2. ASSUME NEW row \in LogRow, Log(<<row>>)
      PROVE  /\ Len(rows') > 0 /\ Last' = row.action
             /\ IsFiniteSet(DevRows') /\ Drafts' \in Nat
             /\ Drafts' = IF row.actor = "developer" THEN Drafts + 1 ELSE Drafts
  BY <1>0, <1>2, OneRowMore
<1>3. CASE Start
  <2>1. Len(rows') > 0 /\ Last' = "opened" /\ IsFiniteSet(DevRows') /\ Drafts' = Drafts
    <3>1. PICK row \in LogRow : row = Row("system", "plan", "opened", "")
      BY RowsOfTheWalk
    <3>2. row.actor = "system" /\ row.action = "opened"
      BY <3>1 DEF Row
    <3>3. Log(<<row>>)
      BY <1>3, <3>1 DEF Start
    <3> QED
      BY <1>2, <3>2, <3>3
  <2>2. at.step = "start" /\ at'.step = "plan" /\ UNCHANGED <<mem, op, outside>>
    BY <1>3, FieldsOfPlaces DEF Start
  <2> QED
    BY <1>0, <2>1, <2>2 DEF EndingInv, DraftsInv, ENDINGS
<1>4. CASE Plan
  <2>1. Len(rows') > 0 /\ Last' = "proposed" /\ IsFiniteSet(DevRows') /\ Drafts' = Drafts
    <3>1. PICK row \in LogRow : row = Row("planner", "plan", "proposed", "")
      BY RowsOfTheWalk
    <3>2. row.actor = "planner" /\ row.action = "proposed"
      BY <3>1 DEF Row
    <3>3. Log(<<row>>)
      BY <1>4, <3>1 DEF Plan
    <3> QED
      BY <1>2, <3>2, <3>3
  <2>2. /\ at.step = "plan" /\ at'.step = "pause" /\ UNCHANGED <<op, outside>>
        /\ mem'.revisions = mem.revisions
    <3>1. /\ at = Go("plan") /\ at' = Step("pause", "gate1") /\ UNCHANGED <<op, outside>>
          /\ mem' = [mem EXCEPT !.plan = TRUE]
      BY <1>4 DEF Plan
    <3>2. mem'.revisions = mem.revisions
      BY <1>0, <3>1 DEF RunDoc
    <3> QED
      BY <3>1, <3>2, FieldsOfPlaces
  <2> QED
    BY <1>0, <2>1, <2>2 DEF EndingInv, DraftsInv, ENDINGS
<1>5. CASE Develop
  <2>1. /\ Len(rows') > 0 /\ Last' = "proposed" /\ IsFiniteSet(DevRows')
        /\ Drafts' = Drafts + 1
    <3>1. PICK row \in LogRow : row = Row("developer", "develop", "proposed", "")
      BY RowsOfTheWalk
    <3>2. row.actor = "developer" /\ row.action = "proposed"
      BY <3>1 DEF Row
    <3>3. Log(<<row>>)
      BY <1>5, <3>1 DEF Develop
    <3> QED
      BY <1>2, <3>2, <3>3
  <2>2. /\ at.step = "develop" /\ at'.step = "review" /\ UNCHANGED <<op, outside>>
        /\ mem'.revisions = mem.revisions
    BY <1>0, <1>5, FieldsOfPlaces DEF Develop, RunDoc
  <2> QED
    BY <1>0, <2>1, <2>2 DEF EndingInv, DraftsInv, ENDINGS
<1>6. ASSUME NEW v \in {"approve", "changes_requested"}, Review(v)
      PROVE  EndingInv' /\ DraftsInv'
  <2> DEFINE again == v # "approve" /\ mem.revisions < MaxRevisions
             n == IF again THEN mem.revisions + 1 ELSE mem.revisions
  <2>1. Len(rows') > 0 /\ Last' = "reviewed" /\ IsFiniteSet(DevRows') /\ Drafts' = Drafts
    <3>1. PICK row \in LogRow : row = Row("reviewer", "review", "reviewed", "")
      BY RowsOfTheWalk
    <3>2. row.actor = "reviewer" /\ row.action = "reviewed"
      BY <3>1 DEF Row
    <3>3. Log(<<row>>)
      BY <1>6, <3>1 DEF Review
    <3> QED
      BY <1>2, <3>2, <3>3
  <2>2. /\ mem' = [mem EXCEPT !.review = v, !.revisions = n]
        /\ at = Go("review") /\ UNCHANGED <<op, outside>>
        /\ at' = Go(IF again THEN "develop" ELSE "open_pr")
    BY <1>6 DEF Review
  <2>3. at.step = "review" /\ at'.step = IF again THEN "develop" ELSE "open_pr"
    BY <2>2, FieldsOfPlaces
  <2>4. /\ n = IF again THEN mem.revisions + 1 ELSE mem.revisions
    OBVIOUS
  <2> HIDE DEF n
  <2>5. mem'.revisions = n
    BY <1>0, <2>2 DEF RunDoc
  <2> HIDE DEF again
  <2>6. CASE again
    BY <1>0, <2>1, <2>2, <2>3, <2>4, <2>5, <2>6 DEF EndingInv, DraftsInv, ENDINGS
  <2>7. CASE ~again
    BY <1>0, <2>1, <2>2, <2>3, <2>4, <2>5, <2>7 DEF EndingInv, DraftsInv, ENDINGS
  <2> QED
    BY <2>6, <2>7
<1>7. CASE OpenPr
  <2>1. at = Go("open_pr") /\ UNCHANGED <<mem, op, outside>>
    BY <1>7 DEF OpenPr
  <2>2. at.step = "open_pr"
    BY <2>1, FieldsOfPlaces
  <2>3. CASE Log(<<Row("system", "develop", "opened", "")>>) /\ at' = Go("tests")
    <3>1. Len(rows') > 0 /\ Last' = "opened" /\ IsFiniteSet(DevRows') /\ Drafts' = Drafts
        <4>1. PICK row \in LogRow : row = Row("system", "develop", "opened", "")
          BY RowsOfTheWalk
        <4>2. row.actor = "system" /\ row.action = "opened"
          BY <4>1 DEF Row
        <4>3. Log(<<row>>)
          BY <2>3, <4>1
        <4> QED
          BY <1>2, <4>2, <4>3
    <3>2. at'.step = "tests"
      BY <2>3, FieldsOfPlaces
    <3> QED
      BY <1>0, <2>1, <2>2, <3>1, <3>2 DEF EndingInv, DraftsInv, ENDINGS
  <2>4. CASE at' = Go("save") /\ rows' = rows
    <3>1. at'.step = "save"
      BY <2>4, FieldsOfPlaces
    <3>2. mem.status = "running"
      BY <2>2 DEF VerdictInv
    <3> QED
      BY <1>0, <1>1, <2>1, <2>2, <2>4, <3>1, <3>2 DEF EndingInv, DraftsInv
  <2> QED
    BY <1>7, <2>3, <2>4 DEF OpenPr
<1>8. CASE GenerateTests
  <2>1. Len(rows') > 0 /\ Last' = "passed" /\ IsFiniteSet(DevRows') /\ Drafts' = Drafts
    <3>1. PICK row \in LogRow : row = Row("system", "develop", "passed", "")
      BY RowsOfTheWalk
    <3>2. row.actor = "system" /\ row.action = "passed"
      BY <3>1 DEF Row
    <3>3. Log(<<row>>)
      BY <1>8, <3>1 DEF GenerateTests
    <3> QED
      BY <1>2, <3>2, <3>3
  <2>2. at.step = "tests" /\ at'.step = "security" /\ UNCHANGED <<mem, op, outside>>
    BY <1>8, FieldsOfPlaces DEF GenerateTests
  <2> QED
    BY <1>0, <2>1, <2>2 DEF EndingInv, DraftsInv, ENDINGS
<1>9. CASE Scan
  <2>1. PICK r : /\ mem' = [mem EXCEPT !.security = r.verdict]
                 /\ Log(<<Row("security", "security",
                              IF r.verdict = "block" THEN "blocked" ELSE "passed", "")>>)
                 /\ r \in SecurityAnswers[mem.dev][setup.gitleaks]
    BY <1>9 DEF Scan
  <2>2. at = Go("security") /\ at' = Go("ruling") /\ UNCHANGED <<op, outside>>
    BY <1>9 DEF Scan
  <2>3. at.step = "security" /\ at'.step = "ruling"
    BY <2>2, FieldsOfPlaces
  <2>4. mem.dev \in Changes /\ setup.gitleaks \in BOOLEAN
    <3>1. mem.dev # "none" /\ mem.dev \in {"none"} \union Changes
      BY <1>0, <2>3 DEF TypeInv, RunDoc
    <3> QED
      BY <3>1 DEF TypeInv, PipelineTypeOK, Setups
  <2>5. r.verdict \in {"pass", "block"}
    BY <2>1, <2>4, VerdictIsBinary
  <2>6. mem'.security = r.verdict /\ mem'.revisions = mem.revisions
    BY <1>0, <2>1 DEF RunDoc
  <2> DEFINE action == IF r.verdict = "block" THEN "blocked" ELSE "passed"
  <2>7. Row("security", "security", action, "") \in LogRow
    BY RowsOfTheWalk
  <2>8. Len(rows') > 0 /\ Last' = action /\ IsFiniteSet(DevRows') /\ Drafts' = Drafts
      <3>1. PICK row \in LogRow : row = Row("security", "security", action, "")
        BY <2>7
      <3>2. row.actor = "security" /\ row.action = action
        BY <3>1 DEF Row
      <3>3. Log(<<row>>)
        BY <2>1, <3>1
      <3> QED
        BY <1>2, <3>2, <3>3
  <2> QED
    BY <1>0, <2>2, <2>3, <2>5, <2>6, <2>8 DEF EndingInv, DraftsInv, ENDINGS
<1>10. CASE Rule
  <2>1. PICK p \in post_comment(host, "security", TRUE) :
          \/ /\ mem' = [mem EXCEPT !.status = "blocked"] /\ at' = Go("save")
             /\ Log(<<Row("system", "security", "blocked", p.ref)>>)
          \/ /\ mem' = [mem EXCEPT !.status = "failed"] /\ at' = Go("save")
             /\ Log(<<Row("system", "review", "failed", "")>>)
          \/ /\ mem.security = "pass" /\ at' = Step("pause", "gate2")
             /\ UNCHANGED <<mem, rows>>
    BY <1>10 DEF Rule
  <2>2. at = Go("ruling") /\ UNCHANGED <<op, outside>>
    BY <1>10 DEF Rule
  <2>3. at.step = "ruling"
    BY <2>2, FieldsOfPlaces
  <2>4. p.ref \in Refs
    BY <1>0, <2>1, CommentsAreQuiet
  <2>5. CASE /\ mem' = [mem EXCEPT !.status = "blocked"] /\ at' = Go("save")
             /\ Log(<<Row("system", "security", "blocked", p.ref)>>)
    <3>1. Len(rows') > 0 /\ Last' = "blocked" /\ IsFiniteSet(DevRows') /\ Drafts' = Drafts
        <4>1. PICK row \in LogRow : row = Row("system", "security", "blocked", p.ref)
          BY <2>4, RowsOfTheWalk
        <4>2. row.actor = "system" /\ row.action = "blocked"
          BY <4>1 DEF Row
        <4>3. Log(<<row>>)
          BY <2>5, <4>1
        <4> QED
          BY <1>2, <4>2, <4>3
    <3>2. at'.step = "save"
      BY <2>5, FieldsOfPlaces
    <3>3. mem'.status = "blocked" /\ mem'.revisions = mem.revisions
      BY <1>0, <2>5 DEF RunDoc
    <3> QED
      BY <1>0, <2>2, <2>3, <3>1, <3>2, <3>3 DEF EndingInv, DraftsInv, ENDINGS
  <2>6. CASE /\ mem' = [mem EXCEPT !.status = "failed"] /\ at' = Go("save")
             /\ Log(<<Row("system", "review", "failed", "")>>)
    <3>1. Len(rows') > 0 /\ Last' = "failed" /\ IsFiniteSet(DevRows') /\ Drafts' = Drafts
        <4>1. PICK row \in LogRow : row = Row("system", "review", "failed", "")
          BY RowsOfTheWalk
        <4>2. row.actor = "system" /\ row.action = "failed"
          BY <4>1 DEF Row
        <4>3. Log(<<row>>)
          BY <2>6, <4>1
        <4> QED
          BY <1>2, <4>2, <4>3
    <3>2. at'.step = "save"
      BY <2>6, FieldsOfPlaces
    <3>3. mem'.status = "failed" /\ mem'.revisions = mem.revisions
      BY <1>0, <2>6 DEF RunDoc
    <3> QED
      BY <1>0, <2>2, <2>3, <3>1, <3>2, <3>3 DEF EndingInv, DraftsInv, ENDINGS
  <2>7. CASE /\ mem.security = "pass" /\ at' = Step("pause", "gate2")
             /\ UNCHANGED <<mem, rows>>
    <3>1. at'.step = "pause" /\ at'.gate = "gate2"
      BY <2>7, FieldsOfPlaces
    <3> QED
      BY <1>0, <1>1, <2>2, <2>3, <2>7, <3>1 DEF EndingInv, DraftsInv
  <2> QED
    BY <2>1, <2>5, <2>6, <2>7
<1>11. CASE Sre
  <2>1. PICK verdict \in {"go", "no_go"} :
          /\ mem' = Checked(mem, verdict)
          /\ \/ /\ verdict = "no_go" /\ at' = Go("save")
                /\ Log(<<Row("sre", "sre", "reviewed", ""),
                         Row("sre", "sre", "failed", "")>>)
             \/ /\ verdict = "go" /\ at' = Step("pause", "gate3")
                /\ Log(<<Row("sre", "sre", "reviewed", "")>>)
    BY <1>11 DEF Sre
  <2>2. at = Go("sre") /\ UNCHANGED <<op, outside>>
    BY <1>11 DEF Sre
  <2>3. at.step = "sre"
    BY <2>2, FieldsOfPlaces
  <2>4. /\ mem'.status = IF verdict = "no_go" THEN "failed" ELSE mem.status
        /\ mem'.revisions = mem.revisions
    BY <1>0, <2>1 DEF RunDoc, Checked
  <2>5. CASE /\ verdict = "no_go" /\ at' = Go("save")
             /\ Log(<<Row("sre", "sre", "reviewed", ""), Row("sre", "sre", "failed", "")>>)
    <3> DEFINE a == Row("sre", "sre", "reviewed", "")
               b == Row("sre", "sre", "failed", "")
    <3>1. a \in LogRow /\ b \in LogRow /\ Log(<<a, b>>)
      BY <2>5, RowsOfTheWalk
    <3>2. a.actor # "developer" /\ b.actor # "developer" /\ b.action = "failed"
      BY DEF Row
    <3> HIDE DEF a, b
    <3>3. Len(rows') > 0 /\ Last' = "failed" /\ DevRows' = DevRows /\ Drafts' = Drafts
      BY <1>0, <3>1, <3>2, TwoRowsMore
    <3>4. at'.step = "save"
      BY <2>5, FieldsOfPlaces
    <3> QED
      BY <1>0, <2>2, <2>3, <2>4, <2>5, <3>3, <3>4 DEF EndingInv, DraftsInv, ENDINGS
  <2>6. CASE /\ verdict = "go" /\ at' = Step("pause", "gate3")
             /\ Log(<<Row("sre", "sre", "reviewed", "")>>)
    <3>1. Len(rows') > 0 /\ Last' = "reviewed" /\ IsFiniteSet(DevRows') /\ Drafts' = Drafts
        <4>1. PICK row \in LogRow : row = Row("sre", "sre", "reviewed", "")
          BY RowsOfTheWalk
        <4>2. row.actor = "sre" /\ row.action = "reviewed"
          BY <4>1 DEF Row
        <4>3. Log(<<row>>)
          BY <2>6, <4>1
        <4> QED
          BY <1>2, <4>2, <4>3
    <3>2. at'.step = "pause" /\ at'.gate = "gate3"
      BY <2>6, FieldsOfPlaces
    <3> QED
      BY <1>0, <2>2, <2>3, <2>4, <3>1, <3>2 DEF EndingInv, DraftsInv, ENDINGS
  <2> QED
    BY <2>1, <2>5, <2>6
<1>12. CASE Promote
  <2>1. at = Go("promote") /\ UNCHANGED <<op, outside>>
    BY <1>12 DEF Promote
  <2>2. at.step = "promote"
    BY <2>1, FieldsOfPlaces
  <2>3. CASE not_promotable(mem)
    <3>1. /\ mem' = [mem EXCEPT !.status = "failed"] /\ at' = Go("save")
          /\ Log(<<Row("system", "promote", "failed", "")>>)
      BY <1>12, <2>3 DEF Promote
    <3>2. Len(rows') > 0 /\ Last' = "failed" /\ IsFiniteSet(DevRows') /\ Drafts' = Drafts
        <4>1. PICK row \in LogRow : row = Row("system", "promote", "failed", "")
          BY RowsOfTheWalk
        <4>2. row.actor = "system" /\ row.action = "failed"
          BY <4>1 DEF Row
        <4>3. Log(<<row>>)
          BY <3>1, <4>1
        <4> QED
          BY <1>2, <4>2, <4>3
    <3>3. at'.step = "save"
      BY <3>1, FieldsOfPlaces
    <3>4. mem'.status = "failed" /\ mem'.revisions = mem.revisions
      BY <1>0, <3>1 DEF RunDoc
    <3> QED
      BY <1>0, <2>1, <2>2, <3>2, <3>3, <3>4 DEF EndingInv, DraftsInv, ENDINGS
  <2>4. CASE ~not_promotable(mem)
    <3>1. PICK p \in merge_pr(host, mem, TRUE) :
            Log(<<Row("system", "promote", "merged", p.ref)>>)
      BY <1>12, <2>4 DEF Promote
    <3>2. p.ref \in Refs
      BY <1>0, MergesOnceOrNot
    <3>3. Len(rows') > 0 /\ Last' = "merged" /\ IsFiniteSet(DevRows') /\ Drafts' = Drafts
        <4>1. PICK row \in LogRow : row = Row("system", "promote", "merged", p.ref)
          BY <3>2, RowsOfTheWalk
        <4>2. row.actor = "system" /\ row.action = "merged"
          BY <4>1 DEF Row
        <4>3. Log(<<row>>)
          BY <3>1, <4>1
        <4> QED
          BY <1>2, <4>2, <4>3
    <3>4. at'.step = "merged" /\ mem' = mem
      BY <1>12, <2>4, FieldsOfPlaces DEF Promote
    <3> QED
      BY <1>0, <2>1, <2>2, <3>3, <3>4 DEF EndingInv, DraftsInv, ENDINGS
  <2> QED
    BY <2>3, <2>4
<1>13. CASE RecordPromotion
  <2>1. Len(rows') > 0 /\ Last' = "promoted" /\ IsFiniteSet(DevRows') /\ Drafts' = Drafts
    <3>1. PICK row \in LogRow : row = Row("system", "promote", "promoted", "")
      BY RowsOfTheWalk
    <3>2. row.actor = "system" /\ row.action = "promoted"
      BY <3>1 DEF Row
    <3>3. Log(<<row>>)
      BY <1>13, <3>1 DEF RecordPromotion
    <3> QED
      BY <1>2, <3>2, <3>3
  <2>2. at.step = "merged" /\ at'.step = "save" /\ UNCHANGED <<op, outside>>
    BY <1>13, FieldsOfPlaces DEF RecordPromotion
  <2>3. mem'.status = "promoted" /\ mem'.revisions = mem.revisions
    BY <1>0, <1>13 DEF RecordPromotion, RunDoc
  <2> QED
    BY <1>0, <2>1, <2>2, <2>3 DEF EndingInv, DraftsInv, ENDINGS
<1>14. CASE Raise
  <2>1. /\ at.step \in {"plan", "develop", "review", "tests", "security", "sre", "asked"}
        /\ at' = Go("save") /\ UNCHANGED <<mem, rows, op, outside>>
    BY <1>14 DEF Raise
  <2>2. at'.step = "save"
    BY <2>1, FieldsOfPlaces
  <2>3. mem.status = "running"
    BY <2>1 DEF VerdictInv
  <2> QED
    BY <1>0, <1>1, <2>1, <2>2, <2>3 DEF EndingInv, DraftsInv
<1>15. CASE Save
  <2>1. /\ at.step = "save" /\ at'.step = "report" /\ disk' = mem
        /\ UNCHANGED <<mem, rows, op, outside>>
    BY <1>15, FieldsOfPlaces DEF Save
  <2> QED
    BY <1>0, <1>1, <2>1 DEF EndingInv, DraftsInv
<1>16. CASE Report
  <2>1. /\ at.step = "report" /\ at'.step = "done"
        /\ UNCHANGED <<mem, disk, rows, op, outside>>
    BY <1>16, FieldsOfPlaces DEF Report
  <2> QED
    BY <1>0, <1>1, <2>1 DEF EndingInv, DraftsInv
<1>17. CASE Kill
  <2>1. at'.step = "killed" /\ UNCHANGED <<mem, rows, op, outside>>
    BY <1>17, FieldsOfPlaces DEF Kill
  <2> QED
    BY <1>0, <1>1, <2>1 DEF EndingInv, DraftsInv
<1>18. ASSUME NEW g \in REQUIRED_GATES, Pause(g)
       PROVE  EndingInv' /\ DraftsInv'
  <2>1. Len(rows') > 0 /\ Last' = "opened" /\ IsFiniteSet(DevRows') /\ Drafts' = Drafts
    <3>1. PICK row \in LogRow : row = PauseRow(g)
      BY RowsOfTheWalk
    <3>2. row.actor = "system" /\ row.action = "opened"
      BY <3>1 DEF PauseRow, Row
    <3>3. Log(<<row>>)
      BY <1>18, <3>1 DEF Pause
    <3> QED
      BY <1>2, <3>2, <3>3
  <2>2. /\ at.step = "pause" /\ at.gate = g /\ at'.step = "asked" /\ at'.gate = g
        /\ UNCHANGED <<mem, op, outside>>
    BY <1>18, FieldsOfPlaces DEF Pause
  <2> QED
    BY <1>0, <2>1, <2>2 DEF EndingInv, DraftsInv, ENDINGS
<1>19. ASSUME NEW g \in REQUIRED_GATES, NEW d \in {"approved", "rejected"},
              Decide(g, d)
       PROVE  EndingInv' /\ DraftsInv'
  <2>1. Len(rows') > 0 /\ Last' = d /\ IsFiniteSet(DevRows') /\ Drafts' = Drafts
    <3>1. PICK row \in LogRow : row = Row("human", g, d, "")
      BY RowsOfTheWalk
    <3>2. row.actor = "human" /\ row.action = d
      BY <3>1 DEF Row
    <3>3. Log(<<row>>)
      BY <1>19, <3>1 DEF Decide
    <3> QED
      BY <1>2, <3>2, <3>3
  <2>2. /\ at = Step("asked", g) /\ mem' = Resumed(mem, g, d)
        /\ at' = Go(IF d = "rejected" THEN "save" ELSE AfterGate(g))
        /\ UNCHANGED <<op, outside>>
    BY <1>19 DEF Decide
  <2>3. [gate |-> g, decision |-> d] \in Decisions
    BY DEF Decisions
  <2>4. /\ mem'.status = IF d = "rejected" THEN "rejected" ELSE mem.status
        /\ mem'.revisions = mem.revisions
    BY <1>0, <2>2, <2>3, Answered
  <2>5. /\ at.step = "asked" /\ at.gate = g
        /\ at'.step = IF d = "rejected" THEN "save" ELSE AfterGate(g)
    BY <2>2, FieldsOfPlaces
  <2>6. AfterGate(g) = CASE g = "gate1" -> "develop" [] g = "gate2" -> "sre"
                         [] g = "gate3" -> "promote"
    BY DEF AfterGate
  <2> QED
    BY <1>0, <2>1, <2>2, <2>4, <2>5, <2>6 DEF EndingInv, DraftsInv, ENDINGS
<1>20. CASE Others
  <2>1. UNCHANGED <<at, mem>>
    BY <1>20 DEF Others, LoadRun, LogDecision, SaveDecision, AskScreen, AskShell,
                 Begins, ClosePull
  <2>2. outside' # 0 \/ UNCHANGED <<disk, rows, op, outside>>
    <3>1. outside = 0 => \A o \in Operators : op[o].step = "idle"
      BY DEF EndingInv
    <3>2. CASE ClosePull
      BY <3>2 DEF ClosePull
    <3>3. ASSUME NEW o \in Operators, LoadRun(o) \/ LogDecision(o) \/ SaveDecision(o)
          PROVE  outside' # 0
      <4>1. op[o].step # "idle" /\ outside' = outside
        BY <3>3 DEF LoadRun, LogDecision, SaveDecision
      <4> QED
        BY <3>1, <4>1
    <3>4. ASSUME NEW o \in Operators, Begins(o)
          PROVE  outside' # 0
      BY <1>0, <3>4 DEF Begins
    <3> QED
      BY <1>20, <3>2, <3>3, <3>4 DEF Others, AskScreen, AskShell
  <2>3. IsFiniteSet(DevRows') /\ Drafts' = Drafts
    <3>1. CASE rows' = rows
      BY <1>0, <1>1, <3>1
    <3>2. ASSUME NEW o \in Operators, LogDecision(o)
          PROVE  IsFiniteSet(DevRows') /\ Drafts' = Drafts
      <4>1. [gate |-> op[o].gate, decision |-> op[o].decision] \in Decisions
        BY <3>2 DEF TypeInv, LogDecision, Deciding
      <4>2. op[o].gate \in REQUIRED_GATES
            /\ op[o].decision \in {"approved", "rejected", "overridden"}
        BY <4>1 DEF Decisions
      <4>3. PICK row \in LogRow : row = Row("human", op[o].gate, op[o].decision, "")
        BY <4>2, RowsOfTheWalk
      <4>4. row.actor = "human"
        BY <4>3 DEF Row
      <4>5. Log(<<row>>)
        BY <3>2, <4>3 DEF LogDecision
      <4>6. /\ Drafts' = Drafts
            /\ IsFiniteSet(DevRows')
        BY <1>2, <4>4, <4>5
      <4> QED
        BY <4>6
    <3> QED
      BY <1>20, <3>1, <3>2 DEF Others, LoadRun, SaveDecision, AskScreen, AskShell,
         Begins, ClosePull
  <2> QED
    BY <1>0, <1>1, <2>1, <2>2, <2>3 DEF EndingInv, DraftsInv
<1>21. CASE UNCHANGED pipeline
  BY <1>0, <1>1, <1>21 DEF pipeline, EndingInv, DraftsInv
<1> QED
  BY <1>3, <1>4, <1>5, <1>6, <1>7, <1>8, <1>9, <1>10, <1>11, <1>12, <1>13, <1>14,
     <1>15, <1>16, <1>17, <1>18, <1>19, <1>20, <1>21 DEF PipelineNext, Walk

-----------------------------------------------------------------------------
(* A poisoned change. *)

\* gitleaks' finding is critical, and no threshold that may be set is above it.
LEMMA KeyedIsBlocked ==
  ASSUME NEW r \in SecurityAnswers["keyed"][TRUE]
  PROVE  r.verdict = "block"
<1>1. PICK m \in Machines, t \in Severities :
        m.health["gitleaks"] = "ok" /\ r = Verdict("keyed", fan_out("keyed", m), t)
  BY DEF SecurityAnswers, Changes
<1> DEFINE leak == [tool |-> "gitleaks", severity |-> "critical", rule |-> "hit"]
           scans == Scanned("keyed", m)
           findings == UNION {scans[s].findings : s \in Tools}
           result == fan_out("keyed", m)
<1>2. scans["gitleaks"].findings = {leak}
  <2>1. scans["gitleaks"] = gitleaks("keyed", "ok", m.words, m.required)
    BY <1>1 DEF Scanned
  <2>2. gitleaks("keyed", "ok", m.words, m.required) = Hits("gitleaks", {"odd"})
    BY DEF gitleaks, Ran, safe_run
  <2>3. Hits("gitleaks", {"odd"}) = Answer({leak})
    BY DEF Hits, map_severity, policy_severity
  <2> QED
    BY <2>1, <2>2, <2>3 DEF Answer
<1>3. leak \in findings
  BY <1>2 DEF Tools
<1>4. result.raised = FALSE /\ result.findings = findings
  BY <1>3 DEF fan_out
<1>5. leak.severity = "critical"
  OBVIOUS
<1> HIDE DEF leak, findings, result
<1>6. Blocking(findings, t) # {}
  BY <1>3, <1>5 DEF Blocking, SEVERITY_ORDER, Severities
<1> QED
  BY <1>1, <1>4, <1>6 DEF Verdict, compute_security_verdict, result

PoisonedInv ==
  setup.poisoned /\ setup.gitleaks =>
    mem.dev \in {"none", "keyed"} /\ mem.security # "pass"

LEMMA PoisonedStep ==
  ASSUME TypeInv, PoisonedInv, [PipelineNext]_pipeline
  PROVE  PoisonedInv'
<1>0. mem \in RunDoc /\ setup' = setup
  <2>1. mem \in RunDoc
    BY DEF TypeInv, PipelineTypeOK
  <2>2. setup' = setup
    BY DEF PipelineNext, Walk, Start, Plan, Develop, Review, OpenPr, GenerateTests,
       Scan, Rule, Sre, Promote, RecordPromotion, Raise, Save, Report, Pause, Decide,
       Kill, Others, LoadRun, LogDecision, SaveDecision, AskScreen, AskShell, Begins,
       ClosePull, pipeline
  <2> QED
    BY <2>1, <2>2
<1> SUFFICES ASSUME setup.poisoned, setup.gitleaks
             PROVE  mem'.dev \in {"none", "keyed"} /\ mem'.security # "pass"
  BY <1>0 DEF PoisonedInv
<1>1. mem.dev \in {"none", "keyed"} /\ mem.security # "pass"
  BY DEF PoisonedInv
<1>2. CASE mem'.dev = mem.dev /\ mem'.security = mem.security
  BY <1>1, <1>2
<1>3. CASE Develop
  <2>1. mem' = [mem EXCEPT !.dev = "keyed"]
    BY <1>3 DEF Develop, Developer
  <2> QED
    BY <1>0, <1>1, <2>1 DEF RunDoc
<1>4. CASE Scan
  <2>1. PICK r \in SecurityAnswers[mem.dev][setup.gitleaks] :
          mem' = [mem EXCEPT !.security = r.verdict]
    BY <1>4 DEF Scan
  <2>2. at = Go("security")
    BY <1>4 DEF Scan
  <2>3. at.step = "security"
    BY <2>2, FieldsOfPlaces
  <2>4. mem.dev = "keyed" /\ setup.gitleaks = TRUE
    BY <1>1, <2>3 DEF TypeInv, PipelineTypeOK, Setups
  <2>5. r.verdict = "block"
    BY <2>1, <2>4, KeyedIsBlocked
  <2>6. mem'.dev = mem.dev /\ mem'.security = r.verdict
    BY <1>0, <2>1 DEF RunDoc
  <2> QED
    BY <1>1, <2>5, <2>6
<1>5. CASE Plan \/ RecordPromotion \/ Rule \/ Sre \/ Promote
  BY <1>0, <1>2, <1>5 DEF Plan, RecordPromotion, Rule, Sre, Promote, Checked, RunDoc
<1>6. ASSUME NEW v \in {"approve", "changes_requested"}, Review(v)
      PROVE  mem'.dev \in {"none", "keyed"} /\ mem'.security # "pass"
  BY <1>0, <1>2, <1>6 DEF Review, RunDoc
<1>7. ASSUME NEW g \in REQUIRED_GATES, NEW d \in {"approved", "rejected"}, Decide(g, d)
      PROVE  mem'.dev \in {"none", "keyed"} /\ mem'.security # "pass"
  <2>1. [gate |-> g, decision |-> d] \in Decisions
    BY DEF Decisions, REQUIRED_GATES
  <2>2. mem' = Resumed(mem, g, d)
    BY <1>7 DEF Decide
  <2>3. mem'.dev = mem.dev /\ mem'.security = mem.security
    BY <1>0, <2>1, <2>2, Answered
  <2> QED
    BY <1>2, <2>3
<1>8. CASE Start \/ OpenPr \/ GenerateTests \/ Raise \/ Save \/ Report \/ Kill \/ Others
           \/ UNCHANGED pipeline
  BY <1>2, <1>8 DEF Start, OpenPr, GenerateTests, Raise, Save, Report, Kill, Others,
     LoadRun, LogDecision, SaveDecision, AskScreen, AskShell, Begins, ClosePull, pipeline
<1>9. ASSUME NEW g \in REQUIRED_GATES, Pause(g)
      PROVE  mem'.dev \in {"none", "keyed"} /\ mem'.security # "pass"
  BY <1>2, <1>9 DEF Pause
<1> QED
  BY <1>3, <1>4, <1>5, <1>6, <1>7, <1>8, <1>9 DEF PipelineNext, Walk

-----------------------------------------------------------------------------
(* The invariant, and what follows from it. *)

PipelineInv ==
  TypeInv /\ GatesInv /\ VerdictInv /\ Gate2Inv /\ DeliveryInv /\ DecisionInv
    /\ EndingInv /\ DraftsInv /\ PoisonedInv

LEMMA InvAtFirst ==
  PipelineInit => PipelineInv
<1> SUFFICES ASSUME PipelineInit PROVE PipelineInv
  OBVIOUS
<1>0. at.step = "start"
  BY FieldsOfPlaces DEF PipelineInit
<1>1. TypeInv
  BY TypeInit
<1>2. /\ mem.decisions = {} /\ mem.security = "none" /\ mem.status = "running"
      /\ mem.revisions = 0
  BY DEF PipelineInit, Fresh
<1>3. disk.decisions = {} /\ \A o \in Operators : op[o].step = "idle"
  BY FirstDocs DEF PipelineInit, Unsaved, Fresh
<1>4. host.merges = 0
  BY DEF PipelineInit
<1>5. Logged = {} /\ DevRows = {}
  BY DEF PipelineInit, Logged, DevRows
<1>6. ApprovedGates(mem) = {}
  BY <1>2 DEF ApprovedGates
<1>7. GatesInv /\ VerdictInv
  BY <1>0, <1>2, <1>4, <1>6 DEF GatesInv, VerdictInv, AtGate, OnTheWay, Drafting
<1>8. Gate2Inv /\ DeliveryInv
  BY <1>5 DEF Gate2Inv, DeliveryInv
<1>9. DecisionInv
  BY <1>2, <1>3 DEF DecisionInv
<1>10. EndingInv
  BY <1>0, <1>3 DEF EndingInv, OnTheWay
<1>11. DraftsInv
  <2>1. IsFiniteSet(DevRows) /\ Drafts = 0
    BY <1>5, FS_EmptySet DEF Drafts
  <2> QED
    BY <1>2, <2>1 DEF DraftsInv
<1>12. PoisonedInv
  BY <1>2 DEF PipelineInit, Fresh, PoisonedInv
<1> QED
  BY <1>1, <1>7, <1>8, <1>9, <1>10, <1>11, <1>12 DEF PipelineInv

LEMMA InvIsKept ==
  PipelineInv /\ [PipelineNext]_pipeline
    => PipelineInv' /\ [Promise!PromotionNext]_(Promise!promotion)
BY TypeStep, PlacesStep, PromiseStep, Gate2Step, DeliveryStep, DecisionStep, LogStep,
   PoisonedStep DEF PipelineInv

LEMMA InvHolds ==
  PipelineSpec => []PipelineInv
BY InvAtFirst, InvIsKept, PTL DEF PipelineSpec

\* The process, the document, the code host and whoever decides from outside
\* keep to their types, for any cap, any operators and any gates they try.
THEOREM PipelineIsTyped == PipelineSpec => []PipelineTypeOK
<1>1. PipelineInv => PipelineTypeOK
  BY DEF PipelineInv, TypeInv
<1> QED
  BY <1>1, InvHolds, PTL

\* The run keeps GatedPromotion for any revision cap and any number of people
\* writing to its document from the screen and the shell: three approvals of
\* the process's own, in order and none refused, come before a merge.
THEOREM PipelineKeepsThePromise == PipelineSpec => KeepsThePromise
<1>1. PipelineInit => Promise!PromotionInit
  <2> SUFFICES ASSUME PipelineInit PROVE Promise!PromotionInit
    OBVIOUS
  <2>1. mem.decisions = {} /\ host.merges = 0
    BY DEF PipelineInit, Fresh
  <2>2. ApprovedGates(mem) = {}
    BY <2>1 DEF ApprovedGates
  <2> QED
    BY <2>1, <2>2 DEF Promise!PromotionInit
<1>2. PipelineInv /\ [PipelineNext]_pipeline
        => [Promise!PromotionNext]_(Promise!promotion)
  BY InvIsKept
<1> QED
  BY <1>1, <1>2, InvHolds, PTL
     DEF PipelineSpec, KeepsThePromise, Promise!PromotionSpec

\* A blocking verdict always ends the run as blocked with nothing merged,
\* however the review went.
THEOREM BlockAlwaysWins == PipelineSpec => []BlockWins
<1>1. PipelineInv => BlockWins
  <2> SUFFICES ASSUME PipelineInv, mem.security = "block",
                      at.step \in {"save", "report", "done"}
               PROVE  mem.status = "blocked" /\ host.merges = 0
    BY DEF BlockWins
  <2>1. host.merges \in Nat /\ (host.merges > 0 => mem.security = "pass")
    BY DEF PipelineInv, TypeInv, PipelineTypeOK, Hosts, VerdictInv
  <2>2. mem.status = "blocked"
    BY DEF PipelineInv, VerdictInv
  <2> QED
    BY <2>1, <2>2
<1> QED
  BY <1>1, InvHolds, PTL

\* Whatever the cap, no change is drafted more often than it allows, and gate2
\* is asked only about an approved change that passed the scanners.
THEOREM Gate2IsAlwaysEarned == PipelineSpec => []Gate2IsEarned
<1>1. PipelineInv => Gate2IsEarned
  <2> SUFFICES ASSUME PipelineInv PROVE Gate2IsEarned
    OBVIOUS
  <2>1. Drafts <= MaxRevisions + 1
    <3>1. mem.revisions \in 0..MaxRevisions
      BY DEF PipelineInv, TypeInv, PipelineTypeOK, RunDoc
    <3>2. Drafts \in Nat /\ Drafts <= mem.revisions + 1
      BY DEF PipelineInv, DraftsInv
    <3> QED
      BY <3>1, <3>2, PipelineAssumption
  <2>2. "gate2" \in Paused => \E q \in Logged : MarksPause(q) /\ q.stage = "gate2"
    BY DEF Paused, Logged, MarksPause
  <2>3. "gate2" \in Paused => mem.security = "pass" /\ mem.review = "approve"
    BY <2>2 DEF PipelineInv, Gate2Inv
  <2> QED
    BY <2>1, <2>3 DEF Gate2IsEarned, Drafts, DevRows
<1> QED
  BY <1>1, InvHolds, PTL

\* What the timeline says was reported was told somewhere on the host, however
\* its comments failed.
THEOREM DeliveryIsAlwaysHonest == PipelineSpec => []DeliveryIsHonest
<1>1. PipelineInv => DeliveryIsHonest
  <2> SUFFICES ASSUME PipelineInv, "reported" \in Delivery
               PROVE  \E n \in host.told : n.body = "security"
    BY DEF DeliveryIsHonest
  <2>1. PICK q \in Logged : MarksBlock(q) /\ q.ref \in {"https", "local"}
    BY DEF Delivery, Logged, MarksBlock
  <2> QED
    BY <2>1 DEF PipelineInv, DeliveryInv
<1> QED
  BY <1>1, InvHolds, PTL

\* However the screen, the shell and the process interleave their unlocked
\* loads, appends and saves, a saved decision is on the log.
THEOREM EveryDecisionIsAlwaysLogged == PipelineSpec => []EveryDecisionIsLogged
<1>1. PipelineInv => EveryDecisionIsLogged
  <2> SUFFICES ASSUME PipelineInv, NEW d \in disk.decisions
               PROVE  \E i \in DOMAIN rows :
                        rows[i].actor = "human" /\ rows[i].stage = d.gate
                          /\ rows[i].action = d.decision
    BY DEF EveryDecisionIsLogged
  <2>1. HasRow(d)
    BY DEF PipelineInv, DecisionInv
  <2> QED
    BY <2>1 DEF HasRow, Logged
<1> QED
  BY <1>1, InvHolds, PTL

\* An undisturbed run that is over has its last word on disk, and its timeline
\* says the same, on every path its walk can end by.
THEOREM EndingIsAlwaysRecorded == PipelineSpec => []EndingIsRecorded
<1>1. PipelineInv => EndingIsRecorded
  BY DEF PipelineInv, EndingInv, EndingIsRecorded, Outcome, Last
<1> QED
  BY <1>1, InvHolds, PTL

\* A poisoned run is never promoted where gitleaks works: whatever semgrep and
\* trivy do, whatever threshold the floor admits, and whoever approves.
THEOREM PoisonedNeverGetsThrough == PipelineSpec => []PoisonedNeverPromotes
<1>1. PipelineInv => PoisonedNeverPromotes
  <2> SUFFICES ASSUME PipelineInv, setup.poisoned /\ setup.gitleaks
               PROVE  mem.status # "promoted" /\ host.merges = 0
    BY DEF PoisonedNeverPromotes
  <2>1. mem.security # "pass"
    BY DEF PipelineInv, PoisonedInv
  <2>2. host.merges \in Nat
    BY DEF PipelineInv, TypeInv, PipelineTypeOK, Hosts
  <2>3. host.merges > 0 \/ mem.status = "promoted" => mem.security = "pass"
    BY DEF PipelineInv, VerdictInv
  <2> QED
    BY <2>1, <2>2, <2>3
<1> QED
  BY <1>1, InvHolds, PTL

=============================================================================
