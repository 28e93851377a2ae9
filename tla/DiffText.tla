------------------------------ MODULE DiffText ------------------------------
(***************************************************************************)
(* The one reader of a proposed change (common/diff.py): it rebuilds, line *)
(* by line, the files the scanners are then handed.  The text is written   *)
(* by a model, so any line may follow any other.  repo_snapshot.py reads   *)
(* the same text a second time, for the lines it removes.                  *)
(*                                                                         *)
(* A line is known by its position, and a file's body is the positions of  *)
(* its lines: which line goes to which file is all the properties tell     *)
(* apart.                                                                  *)
(***************************************************************************)
EXTENDS Naturals, Sequences

CONSTANTS
  Paths,        \* the paths a header may name, prefix stripped
  OutsidePaths, \* those of them that leave the directory being scanned
  MaxLines      \* bound: the lines of a diff

ASSUME PathsAssumption == OutsidePaths \subseteq Paths /\ MaxLines \in Nat

NoPath == "none"
ASSUME NoPathAssumption == NoPath \notin Paths

VARIABLES
  fed,        \* the lines read so far
  files,      \* path -> body, for the bodies that are complete
  current,    \* the path of the last header, NoPath when it names none
  body,       \* the lines gathered since
  in_run,     \* an unmarked line was seen in this hunk
  recognised, \* some header was understood
  removed,    \* <<path, line>>: what _removed_lines has gathered
  outcome     \* "reading", then "written" or why not

diffVars == <<fed, files, current, body, in_run, recognised, removed, outcome>>

Headers == [kind : {"header"}, path : Paths]
           \union [kind : {"absent", "unreadable"}, path : {NoPath}]

\* "meta": diff syntax, and "+++" without a space. "indented": a line that
\* starts with a space, which is how context starts.
Lines == Headers \union
         [kind : {"added", "removed", "hunk", "unmarked", "indented", "meta", "blank"},
          path : {NoPath}]

DiffInit ==
  /\ fed = << >> /\ files = << >> /\ current = NoPath /\ body = << >>
  /\ in_run = FALSE /\ recognised = FALSE /\ removed = {} /\ outcome = "reading"

-----------------------------------------------------------------------------
\* Deliberate bug: a path that comes back keeps its first body.
StoredOnce ==
  IF current = NoPath \/ current \in DOMAIN files THEN files
  ELSE [p \in DOMAIN files \union {current} |-> IF p = current THEN body ELSE files[p]]

\* files[current] = body, when a header named a file. A path that comes back
\* keeps the last body.
Stored ==
  IF current = NoPath THEN files
  ELSE [p \in DOMAIN files \union {current} |-> IF p = current THEN body ELSE files[p]]

Position == Len(fed) + 1

\* A line that carries no "+" and is part of the change all the same.
_unmarked(line) == line.kind = "unmarked" \/ (line.kind = "indented" /\ in_run)

ReadHeader(line) ==
  /\ line \in Headers
  /\ files' = Stored
  /\ recognised' = (recognised \/ line.kind # "unreadable")
  /\ current' = line.path /\ body' = << >> /\ in_run' = FALSE
  /\ UNCHANGED removed

ReadAdded(line) ==
  /\ line.kind = "added"
  /\ body' = Append(body, Position)
  /\ UNCHANGED <<files, current, in_run, recognised, removed>>

ReadHunk(line) ==
  /\ line.kind = "hunk"
  /\ in_run' = FALSE
  /\ UNCHANGED <<files, current, body, recognised, removed>>

ReadUnmarked(line) ==
  /\ line.kind \in {"unmarked", "indented"}
  /\ IF current # NoPath /\ _unmarked(line)
     THEN body' = Append(body, Position) /\ in_run' = TRUE
     ELSE UNCHANGED <<body, in_run>>
  /\ UNCHANGED <<files, current, recognised, removed>>

\* Not added_files' business: _removed_lines gathers it.
ReadRemoved(line) ==
  /\ line.kind = "removed"
  /\ removed' = IF current = NoPath THEN removed ELSE removed \union {<<current, Position>>}
  /\ UNCHANGED <<files, current, body, in_run, recognised>>

ReadOther(line) ==
  /\ line.kind \in {"meta", "blank"}
  /\ UNCHANGED <<files, current, body, in_run, recognised, removed>>

ReadLine(line) ==
  /\ outcome = "reading" /\ Len(fed) < MaxLines
  /\ \/ ReadHeader(line)
     \/ ReadAdded(line)
     \/ ReadHunk(line)
     \/ ReadUnmarked(line)
     \/ ReadRemoved(line)
     \/ ReadOther(line)
  /\ fed' = Append(fed, line)
  /\ UNCHANGED outcome

\* The text ends: a text without any header that was read is refused, and so
\* is one that would write outside the directory.
EndOfText ==
  /\ outcome = "reading"
  /\ files' = Stored
  /\ outcome' = IF ~recognised /\ \E i \in DOMAIN fed : fed[i].kind # "blank"
                THEN "unreadable"
                ELSE IF \E p \in DOMAIN files' : p \in OutsidePaths THEN "outside"
                ELSE "written"
  /\ UNCHANGED <<fed, current, body, in_run, recognised, removed>>

DiffNext == EndOfText \/ \E line \in Lines : ReadLine(line)

DiffSpec == DiffInit /\ [][DiffNext]_diffVars

-----------------------------------------------------------------------------
\* Types.
DiffTypeOK ==
  /\ fed \in Seq(Lines) /\ Len(fed) <= MaxLines
  /\ DOMAIN files \subseteq Paths
  /\ \A p \in DOMAIN files : files[p] \in Seq(1 .. MaxLines)
  /\ current \in Paths \union {NoPath}
  /\ body \in Seq(1 .. MaxLines)
  /\ in_run \in BOOLEAN /\ recognised \in BOOLEAN
  /\ removed \subseteq Paths \X (1 .. MaxLines)
  /\ outcome \in {"reading", "written", "outside", "unreadable"}

(* What the docstrings promise, said of the whole text at once. *)

HeaderAt(i) == fed[i] \in Headers

\* The header line i stands under; 0 when it stands under none.
HeaderOf(i) ==
  CHOOSE h \in 0 .. i - 1 :
    /\ h > 0 => HeaderAt(h)
    /\ \A k \in h + 1 .. i - 1 : ~HeaderAt(k)

\* An unmarked line, or an indented one after it in the same hunk.
InRun(i) ==
  \/ fed[i].kind = "unmarked"
  \/ /\ fed[i].kind = "indented"
     /\ \E k \in HeaderOf(i) + 1 .. i - 1 :
          fed[k].kind = "unmarked" /\ \A j \in k + 1 .. i - 1 : fed[j].kind # "hunk"

\* The last header that names the path.
LastHeader(h) == \A k \in h + 1 .. Len(fed) : HeaderAt(k) => fed[k].path # fed[h].path

AddedUnder(h) ==
  {i \in h + 1 .. Len(fed) :
     ~HeaderAt(i) /\ HeaderOf(i) = h /\ (fed[i].kind = "added" \/ InRun(i))}

\* The positions of a set, in order.
InOrder(set, seq) ==
  /\ \A n \in 1 .. Len(seq) : seq[n] \in set
  /\ \A i \in set : \E n \in 1 .. Len(seq) : seq[n] = i
  /\ \A m, n \in 1 .. Len(seq) : m < n => seq[m] < seq[n]

NamingHeaders == {h \in DOMAIN fed : fed[h].kind = "header"}

\* The code behaviour is added_files and write_added_files.  When a change is
\* written out for the scanners, it is exactly the files its headers name, each
\* with every added line that stands under the last header of its path and with
\* the unmarked ones, in the order of the text; none is outside the directory;
\* and a text that is not blank and names nothing is never passed as clean.
FilesHoldWhatWasAdded ==
  outcome = "written" =>
    /\ DOMAIN files = {fed[h].path : h \in NamingHeaders}
    /\ \A h \in NamingHeaders : LastHeader(h) => InOrder(AddedUnder(h), files[fed[h].path])
    /\ DOMAIN files \intersect OutsidePaths = {}
    /\ (\E i \in DOMAIN fed : fed[i].kind # "blank")
         => \E h \in DOMAIN fed : fed[h].kind \in {"header", "absent"}
    /\ removed = {<<fed[HeaderOf(i)].path, i>> :
                    i \in {k \in DOMAIN fed : fed[k].kind = "removed" /\ HeaderOf(k) # 0
                                              /\ fed[HeaderOf(k)].kind = "header"}}
=============================================================================
