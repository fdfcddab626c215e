-------------------------- MODULE ConsistencyReview --------------------------
(***************************************************************************)
(* Suggestions of the consistency analysis: the outbox job that evaluates  *)
(* the phases after an edited one (run_consistency_evaluation), the rows   *)
(* it leaves (consistency_repo) and the requests that review, discard or   *)
(* apply them (manage_consistency, apply_consistency_impacts), while the   *)
(* documents go on being edited.                                           *)
(*                                                                         *)
(* One project with one feature, and one source phase.  A target phase has *)
(* one document; the artifacts in it that can get a suggestion are keys.   *)
(* The hash of a snapshot is the pair of contents it is computed from.  A  *)
(* row is written whole, by (source, target, artifact), from a copy read   *)
(* earlier: there is no compare-and-set.                                   *)
(***************************************************************************)
EXTENDS ChangeDiff

CONSTANTS Jobs,         \* consistency_evaluate jobs of the outbox
          Users,        \* requests of the review
          Phases,       \* the target phases, in the order they are evaluated
          Parent,       \* the phase whose artifact is the feature itself
          Keys,         \* artifacts of a target document
          Pair,         \* the key "_pair" of a failed evaluation
          Nobody,       \* no transaction has the row lock
          Sources,      \* contents of the source phase
          MaxTries,  \* attempts the outbox makes of a job
          MaxEdits,     \* bound: edits of documents that start no job
          MaxRequests,  \* bound: requests of the review
          Overlap       \* two jobs may be handled at the same time

Targets == {Phases[i] : i \in DOMAIN Phases}
Cells == Targets \X (Keys \cup {Pair})

ASSUME ReviewAssumption ==
  /\ Phases \in Seq(Targets)
  /\ Pair \notin Keys /\ Nobody \notin Users
  /\ MaxTries \in Nat \ {0} /\ MaxEdits \in Nat /\ MaxRequests \in Nat
  /\ Overlap \in BOOLEAN

VARIABLES
  source,     \* content of the source phase
  text,       \* text[t]: target document
  lock,       \* lock[t]: who has it FOR UPDATE
  row,        \* row[c]: row of consistency_evaluations, or NoRow
  job,        \* job[j]: the handler of j
  user,       \* user[u]: the request of u
  reproduced, \* history: reproduced[t]: keys of the last evaluation of t
  edits, requests

reviewVars == <<source, text, lock, row, job, user, reproduced, edits, requests>>

Texts == {Gone} \cup Seq(Statements)
Contents == Sources \X Texts
Nothing == <<>>
Unresolved == {"completed", "failed"}
Resolved == {"applied", "discarded"}

\* what a suggestion does: the action and the diff of the impact item
Diffs == [kind : {"update", "delete"},
          before : Statements \cup {Blank}, after : Statements \cup {Blank}]
NoDiff == [kind |-> "update", before |-> Blank, after |-> Blank]
Rows == [status : Unresolved \cup Resolved, diff : Diffs,
         snap : {Nothing} \cup Contents]
NoRow == [status |-> "none", diff |-> NoDiff, snap |-> Nothing]

Handlers == [stage : {"none", "queued", "next", "thinking", "saving", "listing",
                      "superseding", "done"},
             tries : 0 .. MaxTries,       \* attempts begun
             todo : Seq(Targets),            \* phases still to do
             read : Texts,                   \* the document the evaluation read
             items : SUBSET (Keys \X Diffs), \* suggestions still to save
             kept : SUBSET Keys,             \* keys the evaluation reproduces
             old : SUBSET (Keys \X Rows)]    \* copies of the rows to supersede
Requests == [stage : {"idle", "next", "checking", "locking", "committing", "saving"},
             action : {"apply", "discard", "review"},
             visits : SUBSET ((Targets \X Keys) \X Rows), \* rows still to visit
             cell : Targets \X Keys,           \* the row it is at
             copy : Rows \cup {NoRow},         \* as it read it
             result : Texts,                   \* text computed under the lock
             outcome : {"failed"} \cup Resolved]   \* status to save
Idle == [stage |-> "idle"]

ReviewTypeOK ==
  /\ source \in Sources
  /\ text \in [Targets -> Texts]
  /\ lock \in [Targets -> {Nobody} \cup Users]
  /\ row \in [Cells -> Rows \cup {NoRow}]
  /\ job \in [Jobs -> Handlers]
  /\ user \in [Users -> Requests \cup {Idle}]
  /\ reproduced \in [Targets -> SUBSET Keys]
  /\ edits \in 0 .. MaxEdits /\ requests \in 0 .. MaxRequests

ReviewInit ==
  /\ source \in Sources
  /\ text \in [Targets -> {<<s>> : s \in Statements} \cup {Gone}]
  /\ lock = [t \in Targets |-> Nobody]
  /\ row = [c \in Cells |-> NoRow]
  /\ job = [j \in Jobs |-> [stage |-> "none", tries |-> 0, todo |-> <<>>, read |-> Gone,
                            items |-> {}, kept |-> {}, old |-> {}]]
  /\ user = [u \in Users |-> Idle]
  /\ reproduced = [t \in Targets |-> {}]
  /\ edits = 0 /\ requests = 0
-----------------------------------------------------------------------------
(***************************************************************************)
(* Edits.  An edit of the source phase saves the document and then queues  *)
(* the job (trigger_downstream_evaluation); a request that dies between    *)
(* the two leaves no job.  An edit of a target document waits for the row  *)
(* lock of an application, whatever it writes.                             *)
(***************************************************************************)
EditSource(j) ==
  /\ job[j].stage = "none"
  /\ source' \in Sources \ {source}
  /\ job' = [job EXCEPT ![j].stage = "queued"]
  /\ UNCHANGED <<text, lock, row, user, reproduced, edits, requests>>

EditSourceOnly ==
  /\ edits < MaxEdits
  /\ source' \in Sources \ {source}
  /\ edits' = edits + 1
  /\ UNCHANGED <<text, lock, row, job, user, reproduced, requests>>

EditTarget(t) ==
  /\ edits < MaxEdits
  /\ lock[t] = Nobody
  /\ \E s \in Statements : text' = [text EXCEPT ![t] = <<s>>] /\ text'[t] # text[t]
  /\ edits' = edits + 1
  /\ UNCHANGED <<source, lock, row, job, user, reproduced, requests>>
-----------------------------------------------------------------------------
(***************************************************************************)
(* The handler of a job.  For each target phase: are there artifacts; ask  *)
(* the model (a long wait); save one row for each suggestion with the      *)
(* snapshot of the contents of that moment; discard the pending rows the   *)
(* evaluation did not reproduce.                                           *)
(***************************************************************************)
Stage(j, s) == job[j].stage = s
Target(j) == Head(job[j].todo)
Active(j) == job[j].stage \notin {"none", "queued", "done"}
Now(t) == <<source, text[t]>>

Handle(j) ==
  /\ Stage(j, "queued")
  /\ Overlap \/ \A i \in Jobs : ~Active(i)
  /\ job' = [job EXCEPT ![j].stage = "next", ![j].todo = Phases, ![j].tries = @ + 1]
  /\ UNCHANGED <<source, text, lock, row, user, reproduced, edits, requests>>

\* _has_target_artifacts, and then the documents the evaluation reads
BeginPhase(j) ==
  /\ Stage(j, "next") /\ job[j].todo # <<>>
  /\ LET t == Target(j)
     IN job' = [job EXCEPT ![j].stage = IF text[t] = Gone THEN "listing" ELSE "thinking",
                           ![j].read = text[t], ![j].kept = {}]
  /\ UNCHANGED <<source, text, lock, row, user, reproduced, edits, requests>>

EvaluationFails(j) ==
  /\ job[j].stage \in {"next", "thinking"} /\ job[j].todo # <<>>
  /\ row' = [row EXCEPT ![<<Target(j), Pair>>] = [NoRow EXCEPT !.status = "failed"]]
  /\ job' = [job EXCEPT ![j].stage = "next", ![j].todo = Tail(@)]
  /\ UNCHANGED <<source, text, lock, user, reproduced, edits, requests>>

\* Changes the model may propose: what it wants replaced is in the text it was
\* shown and differs from the replacement (_validate_action).
Proposals(txt) ==
  {d \in Diffs :
     \/ d.kind = "delete" /\ d.before = Blank /\ d.after = Blank
     \/ d.kind = "update" /\ d.after # d.before
                          /\ (d.before = Blank \/ HasStatement(txt, d.before))}

Answer(j) ==
  /\ Stage(j, "thinking")
  /\ \E K \in SUBSET Keys : \E f \in [K -> Proposals(job[j].read)] :
       job' = [job EXCEPT ![j].stage = "saving", ![j].items = {<<k, f[k]>> : k \in K}]
  /\ UNCHANGED <<source, text, lock, row, user, reproduced, edits, requests>>

SaveItem(j) ==
  /\ Stage(j, "saving")
  /\ \E i \in job[j].items :
       /\ row' = [row EXCEPT ![<<Target(j), i[1]>>] =
                    [status |-> "completed", diff |-> i[2], snap |-> Now(Target(j))]]
       /\ job' = [job EXCEPT ![j].items = @ \ {i}, ![j].kept = @ \cup {i[1]}]
       /\ reproduced' = [reproduced EXCEPT ![Target(j)] = @ \cup {i[1]}]
  /\ UNCHANGED <<source, text, lock, user, edits, requests>>

\* the snapshot cannot be read: no row, but the key counts as reproduced
SkipItem(j) ==
  /\ Stage(j, "saving")
  /\ \E i \in job[j].items :
       job' = [job EXCEPT ![j].items = @ \ {i}, ![j].kept = @ \cup {i[1]}]
  /\ UNCHANGED <<source, text, lock, row, user, reproduced, edits, requests>>

ItemsSaved(j) ==
  /\ Stage(j, "saving") /\ job[j].items = {}
  /\ job' = [job EXCEPT ![j].stage = "listing"]
  /\ UNCHANGED <<source, text, lock, row, user, reproduced, edits, requests>>

Mutant_SupersedesFailed(j) == {i \in {<<k, row[<<Target(j), k>>]>> : k \in Keys} :
                                 i[2].status = "failed" /\ i[1] \notin job[j].kept}
\* _supersede_pair: pending rows of this pair that the evaluation did not reproduce
NotReproduced(j) == {i \in {<<k, row[<<Target(j), k>>]>> : k \in Keys} :
                       i[2].status = "completed" /\ i[1] \notin job[j].kept}

ListOld(j) ==
  /\ Stage(j, "listing")
  /\ job' = [job EXCEPT ![j].stage = "superseding", ![j].old = NotReproduced(j)]
  /\ UNCHANGED <<source, text, lock, row, user, reproduced, edits, requests>>

Supersede(j) ==
  /\ Stage(j, "superseding")
  /\ \E i \in job[j].old :
       /\ row' = [row EXCEPT ![<<Target(j), i[1]>>] = [i[2] EXCEPT !.status = "discarded"]]
       /\ job' = [job EXCEPT ![j].old = @ \ {i}]
  /\ UNCHANGED <<source, text, lock, user, reproduced, edits, requests>>

EndPhase(j) ==
  /\ Stage(j, "superseding") /\ job[j].old = {}
  /\ reproduced' = [reproduced EXCEPT ![Target(j)] = job[j].kept]
  /\ job' = [job EXCEPT ![j].stage = "next", ![j].todo = Tail(@)]
  /\ UNCHANGED <<source, text, lock, row, user, edits, requests>>

EndJob(j) ==
  /\ Stage(j, "next") /\ job[j].todo = <<>>
  /\ job' = [job EXCEPT ![j].stage = "done"]
  /\ UNCHANGED <<source, text, lock, row, user, reproduced, edits, requests>>

Mutant_AlwaysRetries(j) ==
  /\ job[j].stage \in {"thinking", "saving", "listing", "superseding"}
  /\ job' = [job EXCEPT ![j].stage = "queued", ![j].items = {}, ![j].old = {}]
  /\ UNCHANGED <<source, text, lock, row, user, reproduced, edits, requests>>

\* An exception of the enrichment, of a save or of a listing leaves the handler:
\* the outbox tries the job again.  With its process the job is lost for good.
Raise(j) ==
  /\ job[j].stage \in {"thinking", "saving", "listing", "superseding"}
  /\ job' = [job EXCEPT ![j].stage = IF job[j].tries < MaxTries THEN "queued" ELSE "done",
                        ![j].items = {}, ![j].old = {}]
  /\ UNCHANGED <<source, text, lock, row, user, reproduced, edits, requests>>

Crash(j) ==
  /\ Active(j)
  /\ job' = [job EXCEPT ![j].stage = "done", ![j].items = {}, ![j].old = {}]
  /\ UNCHANGED <<source, text, lock, row, user, reproduced, edits, requests>>
-----------------------------------------------------------------------------
(***************************************************************************)
(* The requests.  A review and a bulk resolution go through the rows that  *)
(* were pending when they were listed; a single one has one row to visit.  *)
(* Applying and discarding read the row again, a review keeps its copy.    *)
(***************************************************************************)
At(u, s) == user[u].stage = s
Cell(u) == user[u].cell
Pending(t) == {<<c, row[c]>> : c \in {d \in {t} \X Keys : row[d].status = "completed"}}

\* the whole row is written, as it was read, with another status
SaveRow(u, status) ==
  row' = [row EXCEPT ![Cell(u)] = [user[u].copy EXCEPT !.status = status]]

Request(u, a, t) ==
  /\ At(u, "idle") /\ requests < MaxRequests
  /\ Pending(t) # {}
  /\ \E V \in {Pending(t)} \cup (IF a = "review" THEN {} ELSE {{v} : v \in Pending(t)}) :
     \E v \in V :
       user' = [user EXCEPT ![u] = [stage |-> "next", action |-> a, visits |-> V, cell |-> v[1],
                                    copy |-> v[2], result |-> <<>>, outcome |-> "failed"]]
  /\ requests' = requests + 1
  /\ UNCHANGED <<source, text, lock, row, job, reproduced, edits>>

\* by_id, and the status it must have
Visit(u) ==
  /\ At(u, "next")
  /\ \E v \in user[u].visits :
       LET r == IF user[u].action = "review" THEN v[2] ELSE row[v[1]]
           on == IF r.status # "completed" THEN "next"
                 ELSE IF user[u].action = "discard" THEN "saving" ELSE "checking"
       IN user' = [user EXCEPT ![u].visits = @ \ {v}, ![u].cell = v[1], ![u].copy = r,
                               ![u].stage = on, ![u].outcome = "discarded"]
  /\ UNCHANGED <<source, text, lock, row, job, reproduced, edits, requests>>

EndRequest(u) ==
  /\ At(u, "next") /\ user[u].visits = {}
  /\ user' = [user EXCEPT ![u] = Idle]
  /\ UNCHANGED <<source, text, lock, row, job, reproduced, edits, requests>>

\* the freshness guardrail: the hash of the contents of now against the row's
Check(u) ==
  /\ At(u, "checking")
  /\ user' = [user EXCEPT ![u].stage =
                IF user[u].copy.snap # Now(Cell(u)[1]) THEN "saving"
                ELSE IF user[u].action = "review" THEN "next" ELSE "locking"]
  /\ UNCHANGED <<source, text, lock, row, job, reproduced, edits, requests>>

\* What the change makes of a text.  Only deleting the feature deletes anything:
\* the other documents go with it (cascade).
Changed(t, d, txt) ==
  IF d.kind = "delete" THEN IF t # Parent THEN txt ELSE IF txt = Gone THEN NoMatch ELSE Gone
  ELSE IF txt = Gone \/ d.before = d.after THEN NoMatch
  ELSE ApplyDiff(txt, d.before, d.after)

Mutant_ReadsUnlocked(u) ==
  LET t == Cell(u)[1]
      new == Changed(t, user[u].copy.diff, text[t])
  IN /\ At(u, "locking") /\ new # NoMatch
     /\ lock[t] = Nobody
     /\ user' = [user EXCEPT ![u].stage = "committing", ![u].result = new]
     /\ UNCHANGED <<source, text, lock, row, job, reproduced, edits, requests>>

\* a transaction reads the document FOR UPDATE and computes the new text
Lock(u) ==
  LET t == Cell(u)[1]
      new == Changed(t, user[u].copy.diff, text[t])
  IN /\ At(u, "locking") /\ new # NoMatch
     /\ lock[t] = Nobody
     /\ lock' = [lock EXCEPT ![t] = u]
     /\ user' = [user EXCEPT ![u].stage = "committing", ![u].result = new]
     /\ UNCHANGED <<source, text, row, job, reproduced, edits, requests>>

\* and saves it; deleting the feature waits for the locks on its documents
Commit(u) ==
  LET t == Cell(u)[1]
  IN /\ At(u, "committing")
     /\ IF user[u].result = Gone
        THEN /\ \A s \in Targets \ {t} : lock[s] = Nobody
             /\ text' = [s \in Targets |-> Gone]
        ELSE text' = [text EXCEPT ![t] = user[u].result]
     /\ lock' = [lock EXCEPT ![t] = Nobody]
     /\ user' = [user EXCEPT ![u].stage = "saving", ![u].outcome = "applied"]
     /\ UNCHANGED <<source, row, job, reproduced, edits, requests>>

\* the change does not fit: apply_impact returns the reason
Refuse(u) ==
  /\ At(u, "locking")
  /\ lock[Cell(u)[1]] = Nobody
  /\ Changed(Cell(u)[1], user[u].copy.diff, text[Cell(u)[1]]) = NoMatch
  /\ user' = [user EXCEPT ![u].stage = "saving", ![u].outcome = "failed"]
  /\ UNCHANGED <<source, text, lock, row, job, reproduced, edits, requests>>

\* the diagram it makes is invalid, or the transaction raises and is rolled back
CannotApply(u) ==
  /\ user[u].stage \in {"locking", "committing"}
  /\ lock' = [t \in Targets |-> IF lock[t] = u THEN Nobody ELSE lock[t]]
  /\ user' = [user EXCEPT ![u].stage = "saving", ![u].outcome = "failed"]
  /\ UNCHANGED <<source, text, row, job, reproduced, edits, requests>>

SaveOutcome(u) ==
  /\ At(u, "saving")
  /\ SaveRow(u, user[u].outcome)
  /\ user' = [user EXCEPT ![u].stage = "next"]
  /\ UNCHANGED <<source, text, lock, job, reproduced, edits, requests>>

\* the request ends early: the client goes, the process dies, a read fails
Abort(u) ==
  /\ ~At(u, "idle")
  /\ lock' = [t \in Targets |-> IF lock[t] = u THEN Nobody ELSE lock[t]]
  /\ user' = [user EXCEPT ![u] = Idle]
  /\ UNCHANGED <<source, text, row, job, reproduced, edits, requests>>
-----------------------------------------------------------------------------
JobStep(j) == \/ Handle(j) \/ BeginPhase(j) \/ Answer(j) \/ SaveItem(j) \/ ItemsSaved(j)
              \/ ListOld(j) \/ Supersede(j) \/ EndPhase(j) \/ EndJob(j)
JobFault(j) == EvaluationFails(j) \/ SkipItem(j) \/ Raise(j) \/ Crash(j)
UserStep(u) == \/ Visit(u) \/ EndRequest(u) \/ Check(u) \/ Lock(u) \/ Refuse(u)
               \/ Commit(u) \/ SaveOutcome(u)
UserFault(u) == CannotApply(u) \/ Abort(u)

ReviewNext ==
  \/ EditSourceOnly
  \/ \E t \in Targets : EditTarget(t)
  \/ \E j \in Jobs : EditSource(j) \/ JobStep(j) \/ JobFault(j)
  \/ \E u \in Users : UserStep(u) \/ UserFault(u)
  \/ \E u \in Users, t \in Targets, a \in {"apply", "discard", "review"} : Request(u, a, t)

ReviewSpec == ReviewInit /\ [][ReviewNext]_reviewVars
-----------------------------------------------------------------------------
(***************************************************************************)
(* An application never undoes an edit: the text it is about to write was  *)
(* computed from the text that is there, because edits and other           *)
(* applications wait for its row lock.                                     *)
(***************************************************************************)
ApplyKeepsEdits ==
  \A u \in Users : At(u, "committing") =>
    user[u].result = Changed(Cell(u)[1], user[u].copy.diff, text[Cell(u)[1]])

(***************************************************************************)
(* A suggestion is pending only if the last evaluation of its pair that    *)
(* ended reproduced it, or a later one has just made it: no evaluation,    *)
(* retry, review, discard or application brings an older one back.         *)
(***************************************************************************)
PendingIsReproduced ==
  \A t \in Targets, k \in Keys :
    row[<<t, k>>].status = "completed" => k \in reproduced[t]
=============================================================================
