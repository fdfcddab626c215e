--------------------------- MODULE ValidationOutput ---------------------------
(***************************************************************************)
(* How the output of a validation step becomes problems with a file, and   *)
(* these the directives of the prompt that asks the agent for a repair     *)
(* (domain/codegen/parse_validation_output.py).  A line is what the        *)
(* parsers' expressions tell apart; parse_* read one line at a time, and   *)
(* so does each action here; blank lines, which are skipped, are left out. *)
(***************************************************************************)
EXTENDS Naturals, Sequences, SequencesExt

CONSTANTS OutputFiles,   \* files named in an output
          NoFile,
          MaxLines       \* bound: lines of an output

ASSUME OutputAssumption == NoFile \notin OutputFiles /\ MaxLines \in Nat

VARIABLES
  step,         \* the step whose output this is
  output,       \* its lines
  exitCode,
  cursor,       \* lines read so far
  currentFile,  \* file of the last heading
  currentError, \* line of the last error message, 0 if it was used
  problems,     \* problems found: [file, at, said]: said is the line of the message
  outcome       \* what the step becomes

outputVars == <<step, output, exitCode, cursor, currentFile, currentError, problems, outcome>>

Line(kind) == [kind |-> kind, file |-> NoFile]
LinesOf(kind) == [kind : {kind}, file : OutputFiles]
\* lines each parser distinguishes; "missing": an import that is not found
Lines(s) == {Line("other")} \union
  CASE s = "typecheck" -> LinesOf("problem") \union LinesOf("missing")
    [] s = "lint" -> LinesOf("heading") \union {Line("problem")} \union LinesOf("compact")
    [] s = "tests" -> LinesOf("heading") \union {Line("message")} \union LinesOf("place")
    [] s = "build" -> LinesOf("place") \union LinesOf("heading") \union {Line("missing")}

OutputInit ==
  /\ step \in {"typecheck", "lint", "tests", "build"}
  /\ output \in BoundedSeq(Lines(step), MaxLines)
  /\ exitCode \in {0, 1}
  /\ cursor = 0 /\ currentFile = NoFile /\ currentError = 0
  /\ problems = <<>> /\ outcome = [done |-> FALSE, success |-> FALSE, directives |-> {}]
-----------------------------------------------------------------------------
Problem(file, at, said) == [file |-> file, at |-> at, said |-> said]
Reading(n) == cursor' = cursor + n /\ UNCHANGED <<step, output, exitCode, outcome>>
Found(p) == problems' = Append(problems, p)
NextLine == output[cursor + 1]
Reads(s, kind) == step = s /\ cursor < Len(output) /\ NextLine.kind = kind

\* a line no expression of the step's parser matches
ReadOther ==
  /\ cursor < Len(output) /\ NextLine.kind = "other"
  /\ Reading(1) /\ UNCHANGED <<currentFile, currentError, problems>>

\* tsc names the file in every line
ReadTypecheck ==
  /\ Reads("typecheck", "problem") \/ Reads("typecheck", "missing")
  /\ Found(Problem(NextLine.file, cursor + 1, cursor + 1))
  /\ Reading(1) /\ UNCHANGED <<currentFile, currentError>>

\* eslint, stylish: headings and the problems under them
ReadLintHeading ==
  /\ Reads("lint", "heading")
  /\ currentFile' = NextLine.file
  /\ Reading(1) /\ UNCHANGED <<currentError, problems>>

ReadLintProblem ==
  /\ Reads("lint", "problem")
  /\ IF currentFile # NoFile THEN Found(Problem(currentFile, cursor + 1, cursor + 1)) ELSE UNCHANGED problems
  /\ Reading(1) /\ UNCHANGED <<currentFile, currentError>>

ReadLintCompact ==
  /\ Reads("lint", "compact")
  /\ Found(Problem(NextLine.file, cursor + 1, cursor + 1))
  /\ Reading(1) /\ UNCHANGED <<currentFile, currentError>>

\* vitest: FAIL names a file, the message follows, and then the place
ReadFail ==
  /\ Reads("tests", "heading")
  /\ currentFile' = NextLine.file
  /\ Reading(1) /\ UNCHANGED <<currentError, problems>>

ReadMessage ==
  /\ Reads("tests", "message")
  /\ currentError' = cursor + 1
  /\ Reading(1) /\ UNCHANGED <<currentFile, problems>>

Mutant_KeepsMessage ==
  /\ Reads("tests", "place")
  /\ Found(Problem(NextLine.file, cursor + 1, currentError))
  /\ Reading(1) /\ UNCHANGED <<currentFile, currentError>>
\* the place has its own file; the message is used up
ReadPlace ==
  /\ Reads("tests", "place")
  /\ Found(Problem(NextLine.file, cursor + 1, currentError))
  /\ currentError' = 0
  /\ Reading(1) /\ UNCHANGED currentFile

\* next build: the line after a place is its message, whatever it is
ReadBuildPlace ==
  /\ Reads("build", "place")
  /\ LET more == IF cursor + 2 <= Len(output) THEN 1 ELSE 0
     IN Found(Problem(NextLine.file, cursor + 1, (cursor + 2) * more)) /\ Reading(1 + more)
  /\ UNCHANGED <<currentFile, currentError>>

\* a line with only a file counts if the next one says Module not found
ReadBuildFile ==
  /\ Reads("build", "heading") \/ Reads("build", "missing")
  /\ IF /\ NextLine.kind = "heading" /\ cursor + 2 <= Len(output)
        /\ output[cursor + 2].kind = "missing"
     THEN Found(Problem(NextLine.file, cursor + 1, cursor + 2)) /\ Reading(2)
     ELSE UNCHANGED problems /\ Reading(1)
  /\ UNCHANGED <<currentFile, currentError>>
-----------------------------------------------------------------------------
\* derive_fix_directives, for a run in which only this step failed: an import
\* error hides the directive about types
Imports == \E i \in DOMAIN problems : problems[i].said > 0 /\ output[problems[i].said].kind = "missing"
Directives(success) ==
  IF success THEN {}
  ELSE (IF Imports THEN {"imports"} ELSE {}) \union
       (IF step = "typecheck" /\ Imports THEN {} ELSE {step})

\* parse_step_output: a problem fails the step whatever the exit code, and an
\* exit code does without a problem
FinishStep ==
  /\ cursor = Len(output) /\ ~outcome.done
  /\ LET success == exitCode = 0 /\ problems = <<>>
     IN outcome' = [done |-> TRUE, success |-> success, directives |-> Directives(success)]
  /\ UNCHANGED <<step, output, exitCode, cursor, currentFile, currentError, problems>>

OutputNext ==
  \/ ReadOther \/ ReadTypecheck \/ ReadLintHeading \/ ReadLintProblem \/ ReadLintCompact
  \/ ReadFail \/ ReadMessage \/ ReadPlace \/ ReadBuildPlace \/ ReadBuildFile \/ FinishStep

OutputSpec == OutputInit /\ [][OutputNext]_outputVars
-----------------------------------------------------------------------------
\* the line of a kind that is the last one above line i, 0 if there is none
LastAbove(kinds, i) ==
  LET above == {j \in 1..i - 1 : output[j].kind \in kinds}
  IN IF above = {} THEN 0 ELSE CHOOSE j \in above : \A k \in above : k <= j

\* what a reader of the whole output would attribute to line i
Belongs(p) ==
  LET line == output[p.at] IN
  CASE step = "lint" /\ line.kind = "problem" ->
         LastAbove({"heading"}, p.at) > 0 /\ p.file = output[LastAbove({"heading"}, p.at)].file
    [] step = "tests" ->
         LET last == LastAbove({"message", "place"}, p.at)
         IN p.file = line.file /\ p.said = IF last > 0 /\ output[last].kind = "message" THEN last ELSE 0
    [] OTHER -> p.file = line.file

\* the lines that are a problem on their own
Complaint(i) ==
  \/ step = "lint" /\ output[i].kind = "compact"
  \/ step = "lint" /\ output[i].kind = "problem" /\ LastAbove({"heading"}, i) > 0
  \/ step \in {"tests", "typecheck"} /\ output[i].kind \in {"place", "problem", "missing"}
  \/ step = "build" /\ output[i].kind = "place" /\ (i > 1 => output[i - 1].kind # "place")

(***************************************************************************)
(* Each problem is told to the agent with the file it is in and with its   *)
(* own message, and none of the output's problems is lost: the state the   *)
(* parsers carry from line to line never leaks into the next problem.      *)
(***************************************************************************)
ProblemsUnderTheirFile ==
  /\ \A i \in DOMAIN problems : Belongs(problems[i])
  /\ \A i \in 1..cursor : Complaint(i) => \E j \in DOMAIN problems : problems[j].at = i
=============================================================================
