------------------------------ MODULE ScanCache ------------------------------
(***************************************************************************)
(* The scanner lane of one process (agentorg/security/__init__.py): its    *)
(* scans are remembered by the text of the diff, while the scanners of the *)
(* machine come, go and break between two calls.                           *)
(***************************************************************************)
EXTENDS SecurityRule

CONSTANT ScanWords   \* the severities semgrep and trivy report in these runs

ASSUME ScanWordsAssumption == ScanWords \subseteq Words

VARIABLES
  memo,      \* _CACHE, with the machine each scan was made on beside it
  assessed   \* the security agent's last answer

scanVars == <<memo, assessed>>

Forgotten == [known |-> FALSE]

Remembered(findings, health) ==
  [known |-> TRUE, findings |-> findings, health |-> health]

Assessed(change, answer) ==
  [change |-> change, verdict |-> answer.verdict, provenance |-> answer.provenance]

ScanMachines == {m \in Machines : m.words \subseteq ScanWords}

-----------------------------------------------------------------------------
\* run_all_scanners and the verdict on it: what was remembered answers for a
\* diff of the same text, whatever became of the scanners since.
Assess(change, machine, threshold) ==
  IF memo[change].known
  THEN /\ assessed' = Assessed(change, Verdict(change, Answer(memo[change].findings),
                                               threshold))
       /\ UNCHANGED memo
  ELSE LET result == fan_out(change, machine)
       IN  /\ assessed' = Assessed(change, Verdict(change, result, threshold))
           /\ memo' = IF Storable(result)
                      THEN [memo EXCEPT ![change] =
                              Remembered(result.findings, machine.health)]
                      ELSE memo

reset_scanner_cache ==
  /\ memo' = [c \in Changes |-> Forgotten]
  /\ UNCHANGED assessed

ScanInit ==
  /\ memo = [c \in Changes |-> Forgotten]
  /\ assessed = [change |-> "none"]

ScanNext ==
  \/ \E c \in Changes, m \in ScanMachines, t \in {s \in Severities : resolve_threshold(s)} :
       Assess(c, m, t)
  \/ reset_scanner_cache

ScanSpec == ScanInit /\ [][ScanNext]_scanVars

-----------------------------------------------------------------------------
ScanTypeOK ==
  \A c \in Changes :
    memo[c] = Forgotten \/ memo[c].findings \subseteq Findings

\* A scan is remembered only when every scanner took part in it and answered,
\* so what it says of a diff with a key in it is a block at every threshold the
\* floor admits, unless gitleaks itself reported there was nothing
\* (run_all_scanners, `_is_fault_free(findings) and not absences`).
RememberedScansAreWhole ==
  \A c \in Changes : memo[c].known =>
    /\ \A t \in Tools : memo[c].health[t] \in {"ok", "null"}
    /\ c = "keyed" /\ memo[c].health["gitleaks"] = "ok" =>
         \A t \in {s \in Severities : resolve_threshold(s)} :
           compute_security_verdict(memo[c].findings, t) = "block"
=============================================================================
