---------------------------- MODULE SecurityRule ----------------------------
(***************************************************************************)
(* How a change gets its security verdict (agentorg/security, with the     *)
(* security agent on top): what each scanner wrapper makes of a scanner    *)
(* that is missing, broken or unreadable, how severities are mapped, the   *)
(* fan-out over the three scanners, and the rule that decides in code.     *)
(* Operators only; ScanCache and Pipeline are the modules with state.      *)
(***************************************************************************)
EXTENDS Naturals, FiniteSets

Tools == {"semgrep", "gitleaks", "trivy"}

Severities == {"low", "medium", "high", "critical"}

SEVERITY_ORDER == [low |-> 0, medium |-> 1, high |-> 2, critical |-> 3]

\* "fault" is a *-scanner-error rule, "hit" any rule of the scanner's own.
Findings == [tool : Tools, severity : Severities, rule : {"fault", "hit"}]

\* What a change holds, as far as this code can tell one from another: an AWS
\* key among its added lines, none, or a diff whose files cannot be read off it.
Changes == {"clean", "keyed", "unreadable"}

-----------------------------------------------------------------------------
(* Severities. *)

\* Words of the scanners' own; "odd" stands for any word no table lists.
Words == {"INFO", "WARNING", "ERROR", "CRITICAL", "UNKNOWN", "odd"}

FAIL_CLOSED_SEVERITY == "high"

POLICY ==
  [semgrep |-> [INFO |-> "low", WARNING |-> "medium", ERROR |-> "high",
                CRITICAL |-> "critical"],
   trivy |-> [UNKNOWN |-> "low", CRITICAL |-> "critical"]]

policy_severity == "critical"

THRESHOLD_FLOOR == policy_severity

\* gitleaks emits no severity: every leak gets the policy's constant.
map_severity(tool, word) ==
  IF tool = "gitleaks" THEN policy_severity
  ELSE IF word \in DOMAIN POLICY[tool] THEN POLICY[tool][word]
       ELSE FAIL_CLOSED_SEVERITY

resolve_threshold(threshold) ==
  SEVERITY_ORDER[threshold] <= SEVERITY_ORDER[THRESHOLD_FLOOR]

Blocking(findings, threshold) ==
  {f \in findings : SEVERITY_ORDER[f.severity] >= SEVERITY_ORDER[threshold]}

compute_security_verdict(findings, threshold) ==
  IF Blocking(findings, threshold) # {} THEN "block" ELSE "pass"

\* One audit row per finding: the rule applied to that finding alone.
score_findings(findings, threshold) ==
  {[mapped |-> f.severity, threshold |-> threshold,
    blocking |-> compute_security_verdict({f}, threshold) = "block"] :
     f \in findings}

-----------------------------------------------------------------------------
(* One scanner. *)

error_finding(tool) == [tool |-> tool, severity |-> "high", rule |-> "fault"]

\* What meets a wrapper: no binary; one that times out or cannot be executed; an
\* odd exit, or no report, or one of the wrong shape; the report `null`; a report
\* to read. semgrep also needs the rules file it is shipped with.
Health ==
  [semgrep |-> {"norules", "absent", "stopped", "unusable", "null", "ok"},
   gitleaks |-> {"absent", "stopped", "unusable", "null", "ok"},
   trivy |-> {"absent", "stopped", "unusable", "null", "ok"}]

\* Only a binary that is not there is an absence; whatever else kept it from
\* running is a fault.
safe_run(health) ==
  CASE health = "absent" -> "absent"
    [] health = "stopped" -> "fault"
    [] OTHER -> "ran"

Answer(findings) == [raised |-> FALSE, findings |-> findings]
Raised == [raised |-> TRUE, findings |-> {}]
Fault(tool) == Answer({error_finding(tool)})

Hits(tool, words) ==
  Answer({[tool |-> tool, severity |-> map_severity(tool, w), rule |-> "hit"] :
            w \in words})

unrunnable_findings(tool, kind, required) ==
  IF kind = "absent" /\ ~required THEN Raised ELSE Fault(tool)

\* run_scanner, and what becomes of a scanner that did not run.
Ran(tool, health, required, report) ==
  IF safe_run(health) = "ran" THEN report
  ELSE unrunnable_findings(tool, safe_run(health), required)

\* The missing rules file is noticed before anything is run.
semgrep(change, health, words, required) ==
  IF health = "norules" THEN Fault("semgrep")
  ELSE Ran("semgrep", health, required,
           IF health = "ok" THEN Hits("semgrep", words) ELSE Fault("semgrep"))

\* It finds the key of a keyed change; what else leaks is open. Alone of the
\* three it takes `null` for a report: there was no leak.
gitleaks(change, health, words, required) ==
  Ran("gitleaks", health, required,
      CASE health = "unusable" -> Fault("gitleaks")
        [] health = "null" -> Answer({})
        [] OTHER -> Hits("gitleaks",
                         IF change = "keyed" THEN {"odd"} ELSE words \cap {"odd"}))

trivy(change, health, words, required) ==
  Ran("trivy", health, required,
      IF health = "ok" THEN Hits("trivy", words) ELSE Fault("trivy"))

-----------------------------------------------------------------------------
(* The fan-out. *)

\* A machine the lane runs on: what meets each wrapper, what semgrep and trivy
\* would report, and whether SCANNERS_REQUIRED is set.
Machines ==
  [health : {h \in [Tools -> UNION {Health[t] : t \in Tools}] :
               \A t \in Tools : h[t] \in Health[t]},
   words : SUBSET Words, required : BOOLEAN]

Scanned(change, machine) ==
  LET health == machine.health
      words == machine.words
      required == machine.required
  IN  [semgrep |-> semgrep(change, health["semgrep"], words, required),
       gitleaks |-> gitleaks(change, health["gitleaks"], words, required),
       trivy |-> trivy(change, health["trivy"], words, required)]

\* A diff nothing can be read from raises in the first wrapper, before any
\* scanner runs. Otherwise an absence is isolated from the other wrappers, and
\* raised only when nothing that ran had anything to say.
fan_out(change, machine) ==
  LET scans == Scanned(change, machine)
      findings == UNION {scans[t].findings : t \in Tools}
      absences == {t \in Tools : scans[t].raised}
  IN  IF change = "unreadable" \/ (absences # {} /\ findings = {})
      THEN [raised |-> TRUE, findings |-> {}, absences |-> absences]
      ELSE [raised |-> FALSE, findings |-> findings, absences |-> absences]

is_fault_free(findings) == \A f \in findings : f.rule # "fault"

\* Deliberate bug: whatever was scanned without a fault is remembered.
StorableIfFaultFree(result) == ~result.raised /\ is_fault_free(result.findings)

\* What may be remembered: a scan every scanner took part in, with no fault.
Storable(result) ==
  ~result.raised /\ result.absences = {} /\ is_fault_free(result.findings)

-----------------------------------------------------------------------------
(* The security agent. *)

Results ==
  [verdict : {"pass", "block"}, provenance : {"scanners", "fixture-fallback"}]

\* Decides the fallback fixture by the change alone, failing closed on a diff
\* it cannot read.
looks_poisoned(change) == change \in {"keyed", "unreadable"}

Verdict(change, result, threshold) ==
  IF result.raised
  THEN [verdict |-> IF looks_poisoned(change) THEN "block" ELSE "pass",
        provenance |-> "fixture-fallback"]
  ELSE [verdict |-> compute_security_verdict(result.findings, threshold),
        provenance |-> "scanners"]
=============================================================================
