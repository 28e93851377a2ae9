------------------------------ MODULE CodeHost ------------------------------
(***************************************************************************)
(* The code host a run talks to: github_ops, with its offline path, which  *)
(* is the only adapter integrations.host() serves (it raises on a name it  *)
(* does not know and on an adapter that is not shipped).                   *)
(*                                                                         *)
(* A call is the set of its answers: the host as the call leaves it and    *)
(* the ref handed back.  A remote call may fail before it takes effect, or *)
(* take effect and lose its answer; only open_pr lets that reach the       *)
(* caller as an exception.                                                 *)
(***************************************************************************)
EXTENDS RunState

Surfaces == {"issue", "pr", "notes"}

\* What a comment is about: a stage's output, or the run's outcome.
\* The other stages' comments take the same way as "plan" or "security".
Bodies == {"plan", "security", "outcome"}

Notes ==
  [body : Bodies, status : {"", "running"} \union ENDINGS, where : Surfaces]

\* local is _use_local(): offline, or no token or repository configured.
\* onIssue: the ticket id is an issue's number.  merges counts what reached
\* main; told holds the comments somebody can read, with the status they tell.
Hosts ==
  [local : BOOLEAN, onIssue : BOOLEAN,
   pr : {"none", "open", "merged", "closed"}, merges : Nat,
   issue : {"open", "completed", "not_planned"},
   told : SUBSET Notes]

Note(body, status, where) ==
  [body |-> body, status |-> status, where |-> where]

Told(h, note) == [h EXCEPT !.told = @ \union {note}]

Ref(h, ref) == [host |-> h, ref |-> ref]

-----------------------------------------------------------------------------
(* Comments. "https" and "local" are delivered, "comment" reached nobody. *)

\* create_comment: lands, lands and loses its answer, or does not land.
CreateComment(h, note) ==
  {Ref(Told(h, note), "https"), Ref(Told(h, note), "comment"),
   Ref(h, "comment")}

note_locally(h, note) == {Ref(Told(h, note), "local"), Ref(h, "comment")}

comment_on_issue(h, body, status) ==
  IF h.onIssue THEN CreateComment(h, Note(body, status, "issue"))
  ELSE {Ref(h, "comment")}

\* Deliberate bug: a comment with no pull request to go to counts as posted.
comment_regardless(h, body) ==
  IF h.pr = "open" THEN CreateComment(h, Note(body, "", "pr"))
  ELSE {Ref(h, "https")}

comment_on_pr(h, body) ==
  IF h.pr = "open" THEN CreateComment(h, Note(body, "", "pr"))
  ELSE {Ref(h, "comment")}

\* Where a comment goes depends on whether a developer named a branch yet.
post_comment(h, body, branch) ==
  IF h.local THEN note_locally(h, Note(body, "", "notes"))
  ELSE IF branch THEN comment_on_pr(h, body)
  ELSE comment_on_issue(h, body, "")

-----------------------------------------------------------------------------
(* The pull request. *)

Opened(h) == [h EXCEPT !.pr = "open"]

\* The branch is named for the ticket and the diff, so a second call finds the
\* first one's branch and, if it is still open, its pull request.
open_pr(h) ==
  {[host |-> Opened(h), ok |-> TRUE], [host |-> h, ok |-> FALSE],
   [host |-> Opened(h), ok |-> FALSE]}

Landed(h) == [h EXCEPT !.pr = "merged", !.merges = @ + 1]

\* pull.merge: merged, merged with the answer lost, or not merged (conflict,
\* branch protection, any failure on the way).
MergeOpenPull(h) ==
  {Ref(Landed(h), "https"), Ref(Landed(h), "failed"), Ref(h, "failed")}

\* The offline path names the branch and merges nothing.
merge_pr(h, doc, branch) ==
  IF merge_refusal(doc) THEN {Ref(h, "refused")}
  ELSE IF h.local THEN {Ref(h, "local")}
  ELSE IF branch /\ h.pr = "open" THEN MergeOpenPull(h)
  ELSE {Ref(h, "failed")}

\* Only a check suite that was read, and finished, says anything.
ci_status(h, branch) ==
  IF ~h.local /\ branch
  THEN {"passing", "failing", "unknown"} ELSE {"unknown"}

-----------------------------------------------------------------------------
(* The run's ending. *)

Close(h, status) ==
  [h EXCEPT !.issue = IF status = "promoted" THEN "completed" ELSE "not_planned"]

\* The comment and the closing are two calls; the second is tried, and may
\* fail, whatever became of the first.
report_outcome(h, status) ==
  LET posted == IF h.local THEN note_locally(h, Note("outcome", status, "notes"))
                ELSE comment_on_issue(h, "outcome", status)
      closes == ~h.local /\ h.onIssue /\ status \in ENDINGS
  IN  posted \union
      IF closes THEN {Ref(Close(p.host, status), p.ref) : p \in posted} ELSE {}
=============================================================================
