----------------------- MODULE ConsistencyReview_proofs -----------------------
(***************************************************************************)
(* Proofs about ConsistencyReview, for any number of jobs, requests,       *)
(* phases and edits and documents of any length: its types, that an        *)
(* application undoes no edit and, when no two jobs are handled together,  *)
(* that what is pending is what the last evaluation reproduced.            *)
(***************************************************************************)
EXTENDS ConsistencyReview, SequenceTheorems, WellFoundedInduction, TLAPS

\* a set of naturals has a least one
LEMMA LeastOne ==
  ASSUME NEW S \in SUBSET Nat, S # {}
  PROVE  \E i \in S : \A j \in S : i <= j
<1> DEFINE R == {ss \in Nat \X Nat : ss[1] < ss[2]}
<1>1. IsWellFoundedOn(R, Nat)
  BY NatLessThanWellFounded DEF OpToRel
<1>2. PICK i \in S : \A j \in S : ~ (<<j, i>> \in R)
  BY <1>1, WFMin, Zenon
<1>3. ASSUME NEW j \in S PROVE i <= j
  <2>1. <<j, i>> \in Nat \X Nat /\ i \in Nat /\ j \in Nat
    OBVIOUS
  <2>2. ~ (<<j, i>>[1] < <<j, i>>[2])
    BY <1>2, <2>1 DEF R
  <2> QED
    BY <2>1, <2>2
<1> QED
  BY <1>3

\* what FirstAt finds is in the text
LEMMA FirstIsThere ==
  ASSUME NEW txt \in Seq(Statements), NEW s, HasStatement(txt, s)
  PROVE  FirstAt(txt, s) \in 1 .. Len(txt) /\ txt[FirstAt(txt, s)] = s
<1> DEFINE S == {i \in DOMAIN txt : txt[i] = s}
<1>1. DOMAIN txt = 1 .. Len(txt) /\ S \in SUBSET Nat /\ S # {}
  BY DEF HasStatement
<1>2. PICK i \in S : \A j \in S : i <= j
  BY <1>1, LeastOne
<1>3. i \in DOMAIN txt /\ txt[i] = s /\ \A j \in DOMAIN txt : txt[j] = s => i <= j
  BY <1>2
<1> QED
  BY <1>1, <1>3, Zenon DEF FirstAt

\* a change makes a document of a document, or does not fit
LEMMA ApplyDiffType ==
  ASSUME NEW txt \in Seq(Statements),
         NEW before \in Statements \cup {Blank}, NEW after \in Statements \cup {Blank}
  PROVE  ApplyDiff(txt, before, after) \in Seq(Statements) \cup {NoMatch}
<1>1. ASSUME HasStatement(txt, before) PROVE ReplaceFirst(txt, before, after) \in Seq(Statements)
  <2> DEFINE i == FirstAt(txt, before)
  <2>1. i \in 1 .. Len(txt)
    BY <1>1, FirstIsThere
  <2>2. \A k \in 1 .. Len(txt) : txt[k] \in Statements
    OBVIOUS
  <2>3. SubSeq(txt, 1, i - 1) \in Seq(Statements) /\ SubSeq(txt, i + 1, Len(txt)) \in Seq(Statements)
    BY <2>1, <2>2, SubSeqProperties
  <2>4. Without(txt, i) \in Seq(Statements)
    BY <2>3, ConcatProperties DEF Without
  <2>5. after # Blank => [txt EXCEPT ![i] = after] \in Seq(Statements)
    BY <2>1
  <2> QED
    BY <2>4, <2>5 DEF ReplaceFirst
<1>2. after # Blank => Append(txt, after) \in Seq(Statements)
  OBVIOUS
<1> QED
  BY <1>1, <1>2 DEF ApplyDiff, TryReplace

\* a diff makes a text of a text, or does not match
LEMMA ChangedType ==
  ASSUME NEW t, NEW d \in Diffs, NEW txt \in Texts
  PROVE  Changed(t, d, txt) \in Texts \cup {NoMatch}
<1>1. d.before \in Statements \cup {Blank} /\ d.after \in Statements \cup {Blank}
  BY DEF Diffs
<1>2. txt # Gone => ApplyDiff(txt, d.before, d.after) \in Seq(Statements) \cup {NoMatch}
  BY <1>1, ApplyDiffType DEF Texts
<1> QED
  BY <1>2 DEF Changed, Texts
-----------------------------------------------------------------------------
\* a row with another status is a row
LEMMA RowUpdate ==
  ASSUME NEW r \in Rows \cup {NoRow}, NEW s \in Unresolved \cup Resolved
  PROVE  [r EXCEPT !.status = s] \in Rows /\ [r EXCEPT !.status = s].status = s
BY DEF Rows, NoRow, NoDiff, Diffs

\* the row an evaluation saves
LEMMA NewRow ==
  ASSUME NEW d \in Diffs, NEW s \in Sources, NEW x \in Texts
  PROVE  [status |-> "completed", diff |-> d, snap |-> <<s, x>>] \in Rows
BY DEF Rows, Unresolved, Contents

\* the fields of a handler, and of a request that is on its way
LEMMA HandlerFields ==
  ASSUME NEW h \in Handlers
  PROVE  /\ h.tries \in 0 .. MaxTries /\ h.todo \in Seq(Targets) /\ h.read \in Texts
         /\ h.items \in SUBSET (Keys \X Diffs) /\ h.kept \in SUBSET Keys
         /\ h.old \in SUBSET (Keys \X Rows)
BY DEF Handlers

\* the fields of a request
LEMMA RequestFields ==
  ASSUME ReviewTypeOK, NEW u \in Users, user[u].stage # "idle"
  PROVE  /\ user[u] \in Requests
         /\ user[u].visits \in SUBSET ((Targets \X Keys) \X Rows)
         /\ user[u].cell \in Targets \X Keys /\ user[u].copy \in Rows \cup {NoRow}
         /\ user[u].result \in Texts /\ user[u].outcome \in {"failed"} \cup Resolved
         /\ user[u].copy.diff \in Diffs
<1>1. user[u] \in Requests
  BY DEF ReviewTypeOK, Idle
<1>2. /\ user[u].visits \in SUBSET ((Targets \X Keys) \X Rows)
      /\ user[u].cell \in Targets \X Keys /\ user[u].copy \in Rows \cup {NoRow}
      /\ user[u].result \in Texts /\ user[u].outcome \in {"failed"} \cup Resolved
  BY <1>1 DEF Requests
<1> QED
  BY <1>1, <1>2 DEF Rows, NoRow, NoDiff, Diffs

\* the suggestions of a phase that are pending
LEMMA PendingRows ==
  ASSUME ReviewTypeOK, NEW t \in Targets
  PROVE  Pending(t) \in SUBSET ((Targets \X Keys) \X Rows)
<1>1. \A c \in {t} \X Keys : c \in Cells /\ c \in Targets \X Keys
  BY DEF Cells
<1>2. \A c \in Cells : row[c].status = "completed" => row[c] \in Rows
  BY DEF ReviewTypeOK, NoRow
<1> QED
  BY <1>1, <1>2 DEF Pending

\* what an evaluation supersedes are rows
LEMMA OldRows ==
  ASSUME ReviewTypeOK, NEW j \in Jobs, Target(j) \in Targets
  PROVE  NotReproduced(j) \in SUBSET (Keys \X Rows)
<1>1. \A k \in Keys : <<Target(j), k>> \in Cells
  BY DEF Cells
<1>2. \A c \in Cells : row[c].status = "completed" => row[c] \in Rows
  BY DEF ReviewTypeOK, NoRow
<1>3. ASSUME NEW i \in NotReproduced(j) PROVE i \in Keys \X Rows
  <2>1. PICK k \in Keys : i = <<k, row[<<Target(j), k>>]>>
    BY DEF NotReproduced
  <2>2. i[2].status = "completed"
    BY DEF NotReproduced
  <2> QED
    BY <1>1, <1>2, <2>1, <2>2
<1> QED
  BY <1>3
-----------------------------------------------------------------------------
\* a handler has an attempt left when it is queued, and a phase when it is at one
JobPart ==
  \A j \in Jobs :
    /\ Stage(j, "none") => job[j].tries = 0
    /\ Stage(j, "queued") => job[j].tries < MaxTries
    /\ job[j].stage \in {"thinking", "saving", "listing", "superseding"} => job[j].todo # <<>>

\* the steps that leave the jobs alone
Others == \/ EditSourceOnly \/ (\E t \in Targets : EditTarget(t)) \/ UNCHANGED reviewVars
          \/ \E u \in Users : UserStep(u) \/ UserFault(u)
          \/ \E u \in Users, t \in Targets, a \in {"apply", "discard", "review"} : Request(u, a, t)

\* the steps of users and edits leave the jobs alone
LEMMA OthersKeepJobs == ASSUME Others PROVE job' = job
BY DEF Others, EditSourceOnly, EditTarget, reviewVars, UserStep, UserFault, Request, Visit, EndRequest,
       Check, Lock, Refuse, Commit, SaveOutcome, CannotApply, Abort

\* the phase a handler is at is one of the targets
LEMMA AtTarget ==
  ASSUME ReviewTypeOK, NEW j \in Jobs, job[j].todo # <<>>
  PROVE  Target(j) \in Targets /\ Tail(job[j].todo) \in Seq(Targets) /\ text[Target(j)] \in Texts
<1>1. job[j].todo \in Seq(Targets)
  BY HandlerFields DEF ReviewTypeOK
<1>2. Target(j) \in Targets /\ Tail(job[j].todo) \in Seq(Targets)
  BY <1>1, HeadTailProperties DEF Target
<1> QED
  BY <1>2 DEF ReviewTypeOK

\* a job that goes from one handler to another keeps the types
LEMMA OneJob ==
  ASSUME ReviewTypeOK, JobPart, NEW j \in Jobs, NEW h \in Handlers, job' = [job EXCEPT ![j] = h],
         h.stage = "none" => h.tries = 0, h.stage = "queued" => h.tries < MaxTries,
         h.stage \in {"thinking", "saving", "listing", "superseding"} => h.todo # <<>>
  PROVE  job' \in [Jobs -> Handlers] /\ JobPart'
BY DEF ReviewTypeOK, JobPart, Stage

\* every step keeps the jobs' types and their place
LEMMA JobTypes ==
  ASSUME ReviewAssumption, ReviewTypeOK, JobPart, [ReviewNext]_reviewVars
  PROVE  job' \in [Jobs -> Handlers] /\ JobPart'
<1>1. ASSUME Others PROVE job' \in [Jobs -> Handlers] /\ JobPart'
  BY <1>1, OthersKeepJobs DEF ReviewTypeOK, JobPart, Stage
<1>2. ASSUME NEW j \in Jobs, EditSource(j) \/ JobStep(j) \/ JobFault(j)
      PROVE  job' \in [Jobs -> Handlers] /\ JobPart'
  <2> DEFINE Goal == job' \in [Jobs -> Handlers] /\ JobPart'
  <2>0. job[j] \in Handlers
    BY DEF ReviewTypeOK
  <2>1. ASSUME EditSource(j) PROVE Goal
    <3>1. [job[j] EXCEPT !.stage = "queued"] \in Handlers /\ job[j].tries < MaxTries
      BY <2>0, <2>1 DEF EditSource, Handlers, JobPart, Stage, ReviewAssumption
    <3>2. job' = [job EXCEPT ![j] = [job[j] EXCEPT !.stage = "queued"]]
      BY <2>1 DEF EditSource, ReviewTypeOK
    <3> QED
      BY <2>0, <3>1, <3>2, OneJob DEF Handlers
  <2>2. ASSUME Handle(j) PROVE Goal
    <3> DEFINE h == [job[j] EXCEPT !.stage = "next", !.todo = Phases, !.tries = @ + 1]
    <3>0. job[j].tries + 1 \in 0 .. MaxTries
      BY <2>0, <2>2, HandlerFields DEF Handle, JobPart, Stage, ReviewAssumption
    <3>1. h \in Handlers /\ h.stage = "next"
      BY <2>0, <3>0 DEF Handlers, ReviewAssumption
    <3>2. job' = [job EXCEPT ![j] = h]
      BY <2>2 DEF Handle, ReviewTypeOK
    <3> QED
      BY <3>1, <3>2, OneJob
  <2>3. ASSUME BeginPhase(j) PROVE Goal
    <3> DEFINE h == [job[j] EXCEPT !.stage = IF text[Target(j)] = Gone THEN "listing" ELSE "thinking",
                                   !.read = text[Target(j)], !.kept = {}]
    <3>1. h \in Handlers /\ h.stage \in {"listing", "thinking"} /\ h.todo # <<>>
      BY <2>0, <2>3, AtTarget DEF BeginPhase, Handlers
    <3>2. job' = [job EXCEPT ![j] = h]
      BY <2>3 DEF BeginPhase, ReviewTypeOK
    <3> QED
      BY <3>1, <3>2, OneJob
  <2>4. ASSUME EvaluationFails(j) \/ EndPhase(j) PROVE Goal
    <3> DEFINE h == [job[j] EXCEPT !.stage = "next", !.todo = Tail(@)]
    <3>1. job[j].todo # <<>>
      BY <2>4 DEF EvaluationFails, EndPhase, JobPart, Stage
    <3>2. h \in Handlers /\ h.stage = "next"
      BY <2>0, <3>1, AtTarget DEF Handlers
    <3>3. job' = [job EXCEPT ![j] = h]
      BY <2>4 DEF EvaluationFails, EndPhase, ReviewTypeOK
    <3> QED
      BY <3>2, <3>3, OneJob
  <2>5. ASSUME Answer(j) PROVE Goal
    <3>0. PICK K \in SUBSET Keys : \E f \in [K -> Proposals(job[j].read)] :
             job' = [job EXCEPT ![j].stage = "saving", ![j].items = {<<k, f[k]>> : k \in K}]
      BY <2>5 DEF Answer
    <3>1. PICK f \in [K -> Proposals(job[j].read)] :
             job' = [job EXCEPT ![j].stage = "saving", ![j].items = {<<k, f[k]>> : k \in K}]
      BY <3>0
    <3> DEFINE h == [job[j] EXCEPT !.stage = "saving", !.items = {<<k, f[k]>> : k \in K}]
    <3>2. {<<k, f[k]>> : k \in K} \in SUBSET (Keys \X Diffs)
      BY <3>1 DEF Proposals
    <3>3. h \in Handlers /\ h.stage = "saving" /\ h.todo # <<>>
      BY <2>0, <2>5, <3>2 DEF Answer, Handlers, JobPart, Stage
    <3>4. job' = [job EXCEPT ![j] = h]
      BY <3>1 DEF ReviewTypeOK
    <3> QED
      BY <3>3, <3>4, OneJob
  <2>6. ASSUME SaveItem(j) \/ SkipItem(j) PROVE Goal
    <3>1. PICK i \in job[j].items :
             job' = [job EXCEPT ![j].items = @ \ {i}, ![j].kept = @ \cup {i[1]}]
      BY <2>6 DEF SaveItem, SkipItem
    <3> DEFINE h == [job[j] EXCEPT !.items = @ \ {i}, !.kept = @ \cup {i[1]}]
    <3>2. i[1] \in Keys
      BY <2>0, HandlerFields
    <3>3. h \in Handlers /\ h.stage = "saving" /\ h.todo # <<>>
      BY <2>0, <2>6, <3>2 DEF SaveItem, SkipItem, Handlers, JobPart, Stage
    <3>4. job' = [job EXCEPT ![j] = h]
      BY <3>1 DEF ReviewTypeOK
    <3> QED
      BY <3>3, <3>4, OneJob
  <2>7. ASSUME ItemsSaved(j) PROVE Goal
    <3> DEFINE h == [job[j] EXCEPT !.stage = "listing"]
    <3>1. h \in Handlers /\ h.stage = "listing" /\ h.todo # <<>> /\ job' = [job EXCEPT ![j] = h]
      BY <2>0, <2>7 DEF ItemsSaved, Handlers, JobPart, Stage, ReviewTypeOK
    <3> QED
      BY <3>1, OneJob
  <2>8. ASSUME ListOld(j) PROVE Goal
    <3> DEFINE h == [job[j] EXCEPT !.stage = "superseding", !.old = NotReproduced(j)]
    <3>1. job[j].todo # <<>>
      BY <2>8 DEF ListOld, JobPart, Stage
    <3>2. NotReproduced(j) \in SUBSET (Keys \X Rows)
      BY <3>1, AtTarget, OldRows
    <3>3. h \in Handlers /\ h.stage = "superseding" /\ h.todo # <<>>
      BY <2>0, <3>1, <3>2 DEF Handlers
    <3>4. job' = [job EXCEPT ![j] = h]
      BY <2>8 DEF ListOld, ReviewTypeOK
    <3> QED
      BY <3>3, <3>4, OneJob
  <2>9. ASSUME Supersede(j) PROVE Goal
    <3>1. PICK i \in job[j].old : job' = [job EXCEPT ![j].old = @ \ {i}]
      BY <2>9 DEF Supersede
    <3> DEFINE h == [job[j] EXCEPT !.old = @ \ {i}]
    <3>2. h \in Handlers /\ h.stage = "superseding" /\ h.todo # <<>>
      BY <2>0, <2>9 DEF Supersede, Handlers, JobPart, Stage
    <3>3. job' = [job EXCEPT ![j] = h]
      BY <3>1 DEF ReviewTypeOK
    <3> QED
      BY <3>2, <3>3, OneJob
  <2>10. ASSUME EndJob(j) PROVE Goal
    <3> DEFINE h == [job[j] EXCEPT !.stage = "done"]
    <3>1. h \in Handlers /\ h.stage = "done" /\ job' = [job EXCEPT ![j] = h]
      BY <2>0, <2>10 DEF EndJob, Handlers, ReviewTypeOK
    <3> QED
      BY <3>1, OneJob
  <2>11. ASSUME Raise(j) \/ Crash(j) PROVE Goal
    <3>1. PICK s \in {"queued", "done"} :
            /\ job' = [job EXCEPT ![j].stage = s, ![j].items = {}, ![j].old = {}]
            /\ s = "queued" => job[j].tries < MaxTries
      BY <2>11 DEF Raise, Crash
    <3> DEFINE h == [job[j] EXCEPT !.stage = s, !.items = {}, !.old = {}]
    <3>2. h \in Handlers /\ h.stage = s /\ h.tries = job[j].tries
      BY <2>0 DEF Handlers
    <3>3. job' = [job EXCEPT ![j] = h]
      BY <3>1 DEF ReviewTypeOK
    <3> QED
      BY <3>1, <3>2, <3>3, OneJob
  <2> QED
    BY <1>2, <2>1, <2>2, <2>3, <2>4, <2>5, <2>6, <2>7, <2>8, <2>9, <2>10, <2>11 DEF JobStep, JobFault
<1> QED
  BY <1>1, <1>2 DEF ReviewNext, Others
-----------------------------------------------------------------------------
\* the steps of a request
Asked == \E u \in Users, t \in Targets, a \in {"apply", "discard", "review"} : Request(u, a, t)

\* the steps of jobs leave users, texts and locks alone
LEMMA JobsKeepUsers ==
  ASSUME NEW j \in Jobs, EditSource(j) \/ JobStep(j) \/ JobFault(j)
  PROVE  user' = user /\ text' = text /\ lock' = lock /\ requests' = requests /\ edits' = edits
BY DEF EditSource, JobStep, JobFault, Handle, BeginPhase, EvaluationFails, Answer, SaveItem, SkipItem,
       ItemsSaved, ListOld, Supersede, EndPhase, EndJob, Raise, Crash

JobStages == {"idle", "next", "checking", "locking", "committing", "saving"}
\* what the steps of a request change in it
LEMMA Outcome ==
  ASSUME NEW q \in Requests, NEW o \in {"failed"} \cup Resolved, NEW s \in JobStages
  PROVE  [q EXCEPT !.stage = s, !.outcome = o] \in Requests
BY DEF Requests, JobStages

\* a request that moves on with its result
LEMMA Result ==
  ASSUME NEW q \in Requests, NEW x \in Texts, NEW s \in JobStages
  PROVE  [q EXCEPT !.stage = s, !.result = x] \in Requests
BY DEF Requests, JobStages

\* a request that moves on with its next row
LEMMA Visited ==
  ASSUME NEW q \in Requests, NEW o \in {"failed"} \cup Resolved, NEW s \in JobStages,
         NEW V \in SUBSET ((Targets \X Keys) \X Rows), NEW c \in Targets \X Keys,
         NEW r \in Rows \cup {NoRow}
  PROVE  [q EXCEPT !.visits = V, !.cell = c, !.copy = r, !.stage = s, !.outcome = o] \in Requests
BY DEF Requests, JobStages

\* every step keeps the types of the requests
LEMMA UserTypes ==
  ASSUME ReviewAssumption, ReviewTypeOK, [ReviewNext]_reviewVars
  PROVE  user' \in [Users -> Requests \cup {Idle}]
<1> DEFINE Goal == user' \in [Users -> Requests \cup {Idle}]
<1>1. ASSUME UNCHANGED user PROVE Goal
  BY <1>1 DEF ReviewTypeOK
<1>2. ASSUME NEW u \in Users, NEW r \in Requests \cup {Idle}, user' = [user EXCEPT ![u] = r] PROVE Goal
  BY <1>2 DEF ReviewTypeOK
<1>3. ASSUME NEW u \in Users, NEW t \in Targets, NEW a \in {"apply", "discard", "review"}, Request(u, a, t)
      PROVE Goal
  <2>1. PICK V \in {Pending(t)} \cup (IF a = "review" THEN {} ELSE {{v} : v \in Pending(t)}) :
          \E v \in V : user' = [user EXCEPT ![u] = [stage |-> "next", action |-> a, visits |-> V,
                          cell |-> v[1], copy |-> v[2], result |-> <<>>, outcome |-> "failed"]]
    BY <1>3 DEF Request
  <2>2. PICK v \in V : user' = [user EXCEPT ![u] = [stage |-> "next", action |-> a, visits |-> V,
                          cell |-> v[1], copy |-> v[2], result |-> <<>>, outcome |-> "failed"]]
    BY <2>1
  <2>3. V \in SUBSET ((Targets \X Keys) \X Rows)
    BY <2>1, PendingRows
  <2>4. v[1] \in Targets \X Keys /\ v[2] \in Rows /\ <<>> \in Texts
    BY <2>3 DEF Texts
  <2>5. [stage |-> "next", action |-> a, visits |-> V, cell |-> v[1], copy |-> v[2],
         result |-> <<>>, outcome |-> "failed"] \in Requests
    BY <2>3, <2>4 DEF Requests
  <2> QED
    BY <1>2, <2>2, <2>5
<1>4. ASSUME NEW u \in Users, user[u].stage # "idle", Visit(u) PROVE Goal
  <2>1. PICK v \in user[u].visits :
          LET r == IF user[u].action = "review" THEN v[2] ELSE row[v[1]]
              on == IF r.status # "completed" THEN "next"
                    ELSE IF user[u].action = "discard" THEN "saving" ELSE "checking"
          IN user' = [user EXCEPT ![u].visits = @ \ {v}, ![u].cell = v[1], ![u].copy = r,
                                  ![u].stage = on, ![u].outcome = "discarded"]
    BY <1>4 DEF Visit
  <2> DEFINE r == IF user[u].action = "review" THEN v[2] ELSE row[v[1]]
             on == IF r.status # "completed" THEN "next"
                   ELSE IF user[u].action = "discard" THEN "saving" ELSE "checking"
             n == [user[u] EXCEPT !.visits = @ \ {v}, !.cell = v[1], !.copy = r,
                                  !.stage = on, !.outcome = "discarded"]
  <2>2. user' = [user EXCEPT ![u] = n]
    BY <2>1 DEF ReviewTypeOK
  <2>3. v[1] \in Targets \X Keys /\ v[2] \in Rows
    BY <1>4, RequestFields
  <2>4. r \in Rows \cup {NoRow}
    BY <2>3 DEF ReviewTypeOK, Cells
  <2>5. on \in {"next", "saving", "checking"}
    OBVIOUS
  <2> HIDE DEF r, on
  <2>6. n \in Requests
    <3>1. user[u] \in Requests /\ "discarded" \in {"failed"} \cup Resolved
      BY <1>4, RequestFields DEF Resolved
    <3>2. user[u].visits \ {v} \in SUBSET ((Targets \X Keys) \X Rows)
      BY <1>4, RequestFields
    <3> QED
      BY <2>3, <2>4, <2>5, <3>1, <3>2, Visited DEF JobStages
  <2> HIDE DEF n
  <2> QED
    BY <1>2, <2>2, <2>6
<1>5. ASSUME NEW u \in Users, EndRequest(u) \/ Abort(u) PROVE Goal
  BY <1>2, <1>5 DEF EndRequest, Abort
<1>6. ASSUME NEW u \in Users, user[u].stage # "idle", Check(u) \/ SaveOutcome(u) PROVE Goal
  <2>1. PICK s \in {"saving", "next", "locking"} : user' = [user EXCEPT ![u].stage = s]
    BY <1>6 DEF Check, SaveOutcome
  <2>2. [user[u] EXCEPT !.stage = s] \in Requests
    BY <1>6, RequestFields DEF Requests
  <2>3. user' = [user EXCEPT ![u] = [user[u] EXCEPT !.stage = s]]
    BY <2>1 DEF ReviewTypeOK
  <2> QED
    BY <1>2, <2>2, <2>3
<1>7. ASSUME NEW u \in Users, user[u].stage # "idle", Refuse(u) \/ CannotApply(u) \/ Commit(u) PROVE Goal
  <2>1. PICK o \in {"failed", "applied"} : user' = [user EXCEPT ![u].stage = "saving", ![u].outcome = o]
    BY <1>7 DEF Refuse, CannotApply, Commit
  <2>2. [user[u] EXCEPT !.stage = "saving", !.outcome = o] \in Requests
    <3>1. user[u] \in Requests /\ o \in {"failed"} \cup Resolved
      BY <1>7, RequestFields DEF Resolved
    <3> QED
      BY <3>1, Outcome DEF JobStages
  <2>3. user' = [user EXCEPT ![u] = [user[u] EXCEPT !.stage = "saving", !.outcome = o]]
    BY <2>1 DEF ReviewTypeOK
  <2> QED
    BY <1>2, <2>2, <2>3
<1>8. ASSUME NEW u \in Users, user[u].stage # "idle", Lock(u) PROVE Goal
  <2> DEFINE new == Changed(Cell(u)[1], user[u].copy.diff, text[Cell(u)[1]])
             n == [user[u] EXCEPT !.stage = "committing", !.result = new]
  <2>1. user' = [user EXCEPT ![u] = n] /\ new # NoMatch
    BY <1>8 DEF Lock, ReviewTypeOK
  <2>2. new \in Texts
    <3>1. Cell(u)[1] \in Targets /\ user[u].copy.diff \in Diffs
      BY <1>8, RequestFields DEF Cell
    <3> QED
      BY <2>1, <3>1, ChangedType DEF ReviewTypeOK
  <2> HIDE DEF new
  <2>3. n \in Requests
    BY <1>8, <2>2, RequestFields, Result DEF JobStages
  <2> HIDE DEF n
  <2> QED
    BY <1>2, <2>1, <2>3
<1>9. ASSUME NEW u \in Users, UserStep(u) \/ UserFault(u) PROVE Goal
  <2>1. user[u].stage # "idle"
    BY <1>9 DEF UserStep, UserFault, At, Visit, EndRequest, Check, Lock, Refuse, Commit, SaveOutcome,
                CannotApply, Abort
  <2> QED
    BY <1>4, <1>5, <1>6, <1>7, <1>8, <1>9, <2>1 DEF UserStep, UserFault
<1> QED
  BY <1>1, <1>3, <1>9, JobsKeepUsers DEF ReviewNext, EditSourceOnly, EditTarget, reviewVars
-----------------------------------------------------------------------------
\* who changes what
LEMMA Frames ==
  ASSUME [ReviewNext]_reviewVars
  PROVE  /\ \/ text' = text
            \/ \E t \in Targets : EditTarget(t)
            \/ \E u \in Users : Commit(u)
         /\ \/ lock' = lock
            \/ \E u \in Users : Lock(u) \/ Commit(u)
            \/ \E u \in Users : lock' = [t \in Targets |-> IF lock[t] = u THEN Nobody ELSE lock[t]]
         /\ \/ row' = row
            \/ \E j \in Jobs : EvaluationFails(j) \/ SaveItem(j) \/ Supersede(j)
            \/ \E u \in Users : SaveOutcome(u)
         /\ reproduced' = reproduced \/ \E j \in Jobs : SaveItem(j) \/ EndPhase(j)
<1>1. ASSUME NEW j \in Jobs, EditSource(j) \/ JobStep(j) \/ JobFault(j)
      PROVE  /\ text' = text /\ lock' = lock
             /\ row' = row \/ EvaluationFails(j) \/ SaveItem(j) \/ Supersede(j)
             /\ reproduced' = reproduced \/ SaveItem(j) \/ EndPhase(j)
  BY <1>1 DEF EditSource, JobStep, JobFault, Handle, BeginPhase, EvaluationFails, Answer, SaveItem,
              SkipItem, ItemsSaved, ListOld, Supersede, EndPhase, EndJob, Raise, Crash
<1>2. ASSUME NEW u \in Users, UserStep(u) \/ UserFault(u)
      PROVE  /\ text' = text \/ Commit(u)
             /\ \/ lock' = lock \/ Lock(u) \/ Commit(u)
                \/ lock' = [t \in Targets |-> IF lock[t] = u THEN Nobody ELSE lock[t]]
             /\ row' = row \/ SaveOutcome(u)
             /\ reproduced' = reproduced
  BY <1>2 DEF UserStep, UserFault, Visit, EndRequest, Check, Lock, Refuse, Commit, SaveOutcome,
              CannotApply, Abort
<1>3. ASSUME Asked PROVE text' = text /\ lock' = lock /\ row' = row /\ reproduced' = reproduced
  BY <1>3 DEF Asked, Request
<1>4. ASSUME EditSourceOnly \/ UNCHANGED reviewVars
      PROVE  text' = text /\ lock' = lock /\ row' = row /\ reproduced' = reproduced
  BY <1>4 DEF EditSourceOnly, reviewVars
<1>5. ASSUME NEW t \in Targets, EditTarget(t) PROVE lock' = lock /\ row' = row /\ reproduced' = reproduced
  BY <1>5 DEF EditTarget
<1> QED
  BY <1>1, <1>2, <1>3, <1>4, <1>5 DEF ReviewNext, Asked

\* a handler that saves is at a target
LEMMA AtWork ==
  ASSUME ReviewTypeOK, JobPart, NEW j \in Jobs, SaveItem(j) \/ Supersede(j) \/ EvaluationFails(j) \/ EndPhase(j)
  PROVE  job[j].todo # <<>> /\ Target(j) \in Targets /\ job[j] \in Handlers
<1>1. job[j].todo # <<>>
  BY DEF SaveItem, Supersede, EvaluationFails, EndPhase, JobPart, Stage
<1> QED
  BY <1>1, AtTarget DEF ReviewTypeOK

\* what a step of a request writes in a row
LEMMA SavedRow ==
  ASSUME ReviewTypeOK, NEW u \in Users, SaveOutcome(u)
  PROVE  \E r \in Rows : r.status # "completed" /\ row' = [row EXCEPT ![Cell(u)] = r]
<1>1. user[u].copy \in Rows \cup {NoRow} /\ user[u].outcome \in {"failed"} \cup Resolved
  BY RequestFields DEF SaveOutcome, At
<1>2. user[u].outcome \in Unresolved \cup Resolved /\ user[u].outcome # "completed"
  BY <1>1 DEF Unresolved, Resolved
<1> QED
  BY <1>1, <1>2, RowUpdate DEF SaveOutcome, SaveRow

\* and a step of a handler that saves no suggestion
LEMMA ClosedRow ==
  ASSUME ReviewTypeOK, JobPart, NEW j \in Jobs
  PROVE  /\ EvaluationFails(j) =>
              \E r \in Rows : r.status # "completed" /\ row' = [row EXCEPT ![<<Target(j), Pair>>] = r]
         /\ \A i \in job[j].old : row' = [row EXCEPT ![<<Target(j), i[1]>>] = [i[2] EXCEPT !.status = "discarded"]] =>
              \E r \in Rows : r.status # "completed" /\ row' = [row EXCEPT ![<<Target(j), i[1]>>] = r]
<1>1. {"failed", "discarded"} \subseteq Unresolved \cup Resolved
  BY DEF Unresolved, Resolved
<1>2. /\ [NoRow EXCEPT !.status = "failed"] \in Rows
      /\ [NoRow EXCEPT !.status = "failed"].status = "failed"
  BY <1>1, RowUpdate
<1>3. \A i \in job[j].old : /\ [i[2] EXCEPT !.status = "discarded"] \in Rows
                            /\ [i[2] EXCEPT !.status = "discarded"].status = "discarded"
  <2>1. \A i \in job[j].old : i[2] \in Rows
    BY HandlerFields DEF ReviewTypeOK
  <2> QED
    BY <1>1, <2>1, RowUpdate
<1> QED
  BY <1>2, <1>3 DEF EvaluationFails

\* every step keeps the types of the rest
LEMMA RestTypes ==
  ASSUME ReviewAssumption, ReviewTypeOK, JobPart, [ReviewNext]_reviewVars
  PROVE  /\ source' \in Sources /\ text' \in [Targets -> Texts]
         /\ lock' \in [Targets -> {Nobody} \cup Users] /\ row' \in [Cells -> Rows \cup {NoRow}]
         /\ reproduced' \in [Targets -> SUBSET Keys]
         /\ edits' \in 0 .. MaxEdits /\ requests' \in 0 .. MaxRequests
<1>1. source' \in Sources /\ edits' \in 0 .. MaxEdits /\ requests' \in 0 .. MaxRequests
  <2>1. /\ source' = source \/ source' \in Sources
        /\ edits' = edits \/ (edits < MaxEdits /\ edits' = edits + 1)
        /\ requests' = requests \/ (requests < MaxRequests /\ requests' = requests + 1)
    <3>1. ASSUME NEW j \in Jobs, EditSource(j) PROVE source' \in Sources /\ edits' = edits /\ requests' = requests
      BY <3>1 DEF EditSource
    <3>2. ASSUME NEW j \in Jobs, JobStep(j) \/ JobFault(j)
          PROVE  source' = source /\ edits' = edits /\ requests' = requests
      BY <3>2 DEF JobStep, JobFault, Handle, BeginPhase, EvaluationFails, Answer, SaveItem,
                  SkipItem, ItemsSaved, ListOld, Supersede, EndPhase, EndJob, Raise, Crash
    <3>3. ASSUME NEW u \in Users, UserStep(u) \/ UserFault(u)
          PROVE  source' = source /\ edits' = edits /\ requests' = requests
      BY <3>3 DEF UserStep, UserFault, Visit, EndRequest, Check, Lock, Refuse, Commit, SaveOutcome,
                  CannotApply, Abort
    <3> QED
      BY <3>1, <3>2, <3>3 DEF ReviewNext, EditSourceOnly, EditTarget, Request, reviewVars
  <2> QED
    BY <2>1 DEF ReviewTypeOK, ReviewAssumption
<1>2. text' \in [Targets -> Texts]
  <2>1. ASSUME NEW t \in Targets, EditTarget(t) PROVE text' \in [Targets -> Texts]
    <3>1. PICK s \in Statements : text' = [text EXCEPT ![t] = <<s>>]
      BY <2>1 DEF EditTarget
    <3>2. <<s>> \in Texts
      BY DEF Texts
    <3> QED
      BY <3>1, <3>2 DEF ReviewTypeOK
  <2>2. ASSUME NEW u \in Users, Commit(u) PROVE text' \in [Targets -> Texts]
    <3>1. user[u].result \in Texts /\ Gone \in Texts
      BY <2>2, RequestFields DEF Commit, At, Texts
    <3> QED
      BY <2>2, <3>1 DEF Commit, ReviewTypeOK
  <2>3. text' = text \/ (\E t \in Targets : EditTarget(t)) \/ (\E u \in Users : Commit(u))
    BY Frames
  <2>4. CASE text' = text
    BY <2>4 DEF ReviewTypeOK
  <2> QED
    BY <2>1, <2>2, <2>3, <2>4
<1>3. lock' \in [Targets -> {Nobody} \cup Users]
  <2>0. lock \in [Targets -> {Nobody} \cup Users]
    BY DEF ReviewTypeOK
  <2>1. ASSUME NEW u \in Users, Lock(u) PROVE lock' \in [Targets -> {Nobody} \cup Users]
    BY <2>0, <2>1 DEF Lock
  <2>2. ASSUME NEW u \in Users, Commit(u) PROVE lock' \in [Targets -> {Nobody} \cup Users]
    BY <2>0, <2>2 DEF Commit
  <2> QED
    BY <2>0, <2>1, <2>2, Frames
<1>4. row' \in [Cells -> Rows \cup {NoRow}]
  <2>1. ASSUME NEW j \in Jobs, SaveItem(j) PROVE row' \in [Cells -> Rows \cup {NoRow}]
    <3>1. PICK i \in job[j].items : row' = [row EXCEPT ![<<Target(j), i[1]>>] =
                    [status |-> "completed", diff |-> i[2], snap |-> Now(Target(j))]]
      BY <2>1 DEF SaveItem
    <3>2. i[2] \in Diffs /\ text[Target(j)] \in Texts /\ source \in Sources
      BY <2>1, AtWork, HandlerFields DEF ReviewTypeOK
    <3>3. [status |-> "completed", diff |-> i[2], snap |-> Now(Target(j))] \in Rows
      BY <3>2, NewRow DEF Now
    <3> QED
      BY <3>1, <3>3 DEF ReviewTypeOK
  <2>2. ASSUME NEW c, NEW r \in Rows, row' = [row EXCEPT ![c] = r] PROVE row' \in [Cells -> Rows \cup {NoRow}]
    BY <2>2 DEF ReviewTypeOK
  <2>3. ASSUME NEW j \in Jobs, Supersede(j) PROVE row' \in [Cells -> Rows \cup {NoRow}]
    <3>1. PICK i \in job[j].old : row' = [row EXCEPT ![<<Target(j), i[1]>>] = [i[2] EXCEPT !.status = "discarded"]]
      BY <2>3 DEF Supersede
    <3> QED
      BY <2>2, <3>1, ClosedRow
  <2> QED
    BY <2>1, <2>2, <2>3, Frames, ClosedRow, SavedRow DEF ReviewTypeOK
<1>5. reproduced' \in [Targets -> SUBSET Keys]
  <2>1. ASSUME NEW j \in Jobs, SaveItem(j) PROVE reproduced' \in [Targets -> SUBSET Keys]
    <3>1. PICK i \in job[j].items : reproduced' = [reproduced EXCEPT ![Target(j)] = @ \cup {i[1]}]
      BY <2>1 DEF SaveItem
    <3>2. i[1] \in Keys
      BY <2>1, AtWork, HandlerFields
    <3> QED
      BY <3>1, <3>2 DEF ReviewTypeOK
  <2>2. ASSUME NEW j \in Jobs, EndPhase(j) PROVE reproduced' \in [Targets -> SUBSET Keys]
    <3>1. job[j].kept \in SUBSET Keys
      BY <2>2, AtWork, HandlerFields
    <3> QED
      BY <2>2, <3>1 DEF EndPhase, ReviewTypeOK
  <2> QED
    BY <2>1, <2>2, Frames DEF ReviewTypeOK
<1> QED
  BY <1>1, <1>2, <1>3, <1>4, <1>5
-----------------------------------------------------------------------------
\* what a request is about to write is computed from what is there, and locked
Holds(u) == /\ lock[Cell(u)[1]] = u
            /\ user[u].result = Changed(Cell(u)[1], user[u].copy.diff, text[Cell(u)[1]])
WritePart == \A u \in Users : At(u, "committing") => Holds(u)

\* who commits keeps the lock
LEMMA WriteStep ==
  ASSUME ReviewAssumption, ReviewTypeOK, WritePart, [ReviewNext]_reviewVars
  PROVE  WritePart'
<1> SUFFICES ASSUME NEW w \in Users, user'[w].stage = "committing" PROVE Holds(w)'
  BY DEF WritePart, Holds, At
<1>0. \A u \in Users : At(u, "committing") => Holds(u) /\ Cell(u)[1] \in Targets
  BY RequestFields DEF WritePart, At, Cell
<1>1. ASSUME UNCHANGED <<text, lock, user>> PROVE Holds(w)'
  BY <1>0, <1>1 DEF Holds, At, Cell
<1>2. ASSUME NEW t \in Targets, EditTarget(t) PROVE Holds(w)'
  <2>1. user' = user /\ lock' = lock /\ lock[t] = Nobody /\ \A s \in Targets \ {t} : text'[s] = text[s]
    BY <1>2 DEF EditTarget, ReviewTypeOK
  <2>2. At(w, "committing")
    BY <2>1 DEF At
  <2>3. Cell(w)[1] # t
    BY <1>0, <2>1, <2>2 DEF Holds, ReviewAssumption
  <2> QED
    BY <1>0, <2>1, <2>2, <2>3 DEF Holds, Cell
<1>3. ASSUME Asked PROVE Holds(w)'
  <2>1. PICK u \in Users : \E t \in Targets, a \in {"apply", "discard", "review"} : Request(u, a, t)
    BY <1>3 DEF Asked
  <2>2. /\ text' = text /\ lock' = lock /\ user'[u].stage = "next"
        /\ \A v \in Users \ {u} : user'[v] = user[v]
    BY <2>1 DEF Request, ReviewTypeOK
  <2> QED
    BY <1>0, <2>2 DEF Holds, Cell, At
<1>4. ASSUME NEW u \in Users, UserStep(u) \/ UserFault(u) PROVE Holds(w)'
  <2>0. \A v \in Users \ {u} : user'[v] = user[v]
    BY <1>4 DEF UserStep, UserFault, Visit, EndRequest, Check, Lock, Refuse, Commit, SaveOutcome,
                CannotApply, Abort, ReviewTypeOK
  <2>1. ASSUME Lock(u), w = u PROVE Holds(w)'
    <3> DEFINE t == Cell(u)[1]
               new == Changed(t, user[u].copy.diff, text[t])
    <3>1. user[u].stage = "locking" /\ t \in Targets
      BY <2>1, RequestFields DEF Lock, At, Cell
    <3>2. /\ lock' = [lock EXCEPT ![t] = u] /\ text' = text
          /\ user' = [user EXCEPT ![u].stage = "committing", ![u].result = new]
      BY <2>1 DEF Lock
    <3>3. user[u] \in Requests
      BY <3>1, RequestFields
    <3> HIDE DEF new
    <3>4. user'[u].result = new /\ user'[u].cell = user[u].cell /\ user'[u].copy = user[u].copy
      BY <3>2, <3>3 DEF ReviewTypeOK, Requests
    <3> QED
      BY <2>1, <3>1, <3>2, <3>4 DEF Holds, Cell, ReviewTypeOK, new
  <2>2. ASSUME ~Lock(u), w = u PROVE FALSE
    <3>1. user[u].stage # "idle"
      BY <1>4 DEF UserStep, UserFault, Visit, EndRequest, Check, Lock, Refuse, Commit, SaveOutcome,
                CannotApply, Abort, At
    <3>2. user[u] \in Requests
      BY <3>1, RequestFields
    <3>3. ASSUME Visit(u) PROVE user'[u].stage # "committing"
      BY <3>2, <3>3 DEF Visit, ReviewTypeOK, Requests
    <3>4. ASSUME Check(u) \/ Refuse(u) \/ Commit(u) \/ SaveOutcome(u) PROVE user'[u].stage # "committing"
      BY <3>2, <3>4 DEF Check, Refuse, Commit, SaveOutcome, ReviewTypeOK, Requests
    <3>5. ASSUME EndRequest(u) \/ CannotApply(u) \/ Abort(u) PROVE user'[u].stage # "committing"
      BY <3>2, <3>5 DEF EndRequest, CannotApply, Abort, ReviewTypeOK, Requests, Idle
    <3> QED
      BY <1>4, <2>2, <3>3, <3>4, <3>5 DEF UserStep, UserFault
  <2>3. ASSUME w # u, text' = text, \A t \in Targets : lock[t] \notin {u, Nobody} => lock'[t] = lock[t]
        PROVE Holds(w)'
    BY <1>0, <2>0, <2>3 DEF Holds, Cell, At, ReviewAssumption
  <2>4. ASSUME Commit(u), w # u PROVE Holds(w)'
    <3> DEFINE t == Cell(u)[1]
    <3>1. At(w, "committing") /\ At(u, "committing")
      BY <2>0, <2>4 DEF At, Commit
    <3>2. lock[t] = u /\ lock[Cell(w)[1]] = w /\ Cell(w)[1] \in Targets /\ Cell(w)[1] # t
      BY <1>0, <2>4, <3>1 DEF Holds
    <3>3. user[u].result # Gone
      BY <2>4, <3>2 DEF Commit, ReviewAssumption
    <3>4. text'[Cell(w)[1]] = text[Cell(w)[1]] /\ lock'[Cell(w)[1]] = w
      BY <2>4, <3>2, <3>3 DEF Commit, ReviewTypeOK
    <3> QED
      BY <1>0, <2>0, <2>4, <3>1, <3>4 DEF Holds, Cell
  <2>5. ASSUME ~Commit(u) PROVE text' = text /\ \A t \in Targets : lock[t] \notin {u, Nobody} => lock'[t] = lock[t]
    BY <1>4, <2>5 DEF UserStep, UserFault, Visit, EndRequest, Check, Lock, Refuse, SaveOutcome,
                CannotApply, Abort, ReviewTypeOK
  <2> QED
    BY <2>1, <2>2, <2>3, <2>4, <2>5
<1> QED
  BY <1>1, <1>2, <1>3, <1>4, JobsKeepUsers DEF ReviewNext, EditSourceOnly, reviewVars, Asked
-----------------------------------------------------------------------------
\* one job is handled at a time
AlonePart == \A i, j \in Jobs : Active(i) /\ Active(j) => i = j

(***************************************************************************)
(* While a phase discards, what is pending of it was reproduced or is      *)
(* still to be discarded.                                                  *)
(***************************************************************************)
SupersedePart ==
  \A j \in Jobs : Stage(j, "superseding") =>
    \A k \in Keys : row[<<Target(j), k>>].status = "completed" =>
      k \in job[j].kept \/ \E i \in job[j].old : i[1] = k

\* only saving a suggestion makes a row pending
LEMMA Fewer ==
  ASSUME ReviewTypeOK, JobPart, [ReviewNext]_reviewVars, \A j \in Jobs : ~SaveItem(j),
         NEW c \in Cells, row'[c].status = "completed"
  PROVE  row[c].status = "completed"
<1>1. ASSUME NEW d, NEW r \in Rows, r.status # "completed", row' = [row EXCEPT ![d] = r]
      PROVE  row[c].status = "completed"
  BY <1>1 DEF ReviewTypeOK
<1>2. ASSUME NEW j \in Jobs, Supersede(j) PROVE row[c].status = "completed"
  <2>1. PICK i \in job[j].old : row' = [row EXCEPT ![<<Target(j), i[1]>>] = [i[2] EXCEPT !.status = "discarded"]]
    BY <1>2 DEF Supersede
  <2> QED
    BY <1>1, <2>1, ClosedRow
<1> QED
  BY <1>1, <1>2, Frames, ClosedRow, SavedRow

\* the steps of a job change no other
LEMMA OtherJobs ==
  ASSUME ReviewTypeOK, NEW j \in Jobs, EditSource(j) \/ JobStep(j) \/ JobFault(j), NEW i \in Jobs \ {j}
  PROVE  job'[i] = job[i]
BY DEF EditSource, JobStep, JobFault, Handle, BeginPhase, EvaluationFails, Answer, SaveItem, SkipItem,
       ItemsSaved, ListOld, Supersede, EndPhase, EndJob, Raise, Crash, ReviewTypeOK

\* evaluations that do not overlap stay apart
LEMMA AloneStep ==
  ASSUME ReviewTypeOK, AlonePart, ~Overlap, [ReviewNext]_reviewVars PROVE AlonePart'
<1>1. ASSUME Others PROVE AlonePart'
  BY <1>1, OthersKeepJobs DEF AlonePart, Active
<1>2. ASSUME NEW j \in Jobs, EditSource(j) \/ JobStep(j) \/ JobFault(j) PROVE AlonePart'
  <2>1. \A i \in Jobs \ {j} : Active(i)' <=> Active(i)
    BY <1>2, OtherJobs DEF Active
  <2>2. ASSUME ~Active(j), Active(j)' PROVE \A i \in Jobs : ~Active(i)
    <3>1. job[j].stage \in {"none", "queued", "done"}
      BY <2>2 DEF Active
    <3>2. ~EditSource(j)
      BY <2>2 DEF EditSource, Active, ReviewTypeOK, Handlers
    <3>3. Handle(j)
      BY <1>2, <3>1, <3>2 DEF JobStep, JobFault, Stage, Active, BeginPhase, EvaluationFails, Answer, SaveItem,
           SkipItem, ItemsSaved, ListOld, Supersede, EndPhase, EndJob, Raise, Crash
    <3> QED
      BY <3>3 DEF Handle
  <2> QED
    BY <2>1, <2>2 DEF AlonePart
<1> QED
  BY <1>1, <1>2 DEF ReviewNext, Others

\* what is pending was kept or is about to be superseded
LEMMA SupersedeStep ==
  ASSUME ReviewTypeOK, ReviewTypeOK', JobPart, AlonePart, SupersedePart, [ReviewNext]_reviewVars
  PROVE  SupersedePart'
<1> SUFFICES ASSUME NEW j \in Jobs, job'[j].stage = "superseding", NEW k \in Keys,
                    (row[<<Target(j), k>>].status = "completed")'
             PROVE  k \in job'[j].kept \/ \E i \in job'[j].old : i[1] = k
  BY DEF SupersedePart, Stage
<1>1. ASSUME job'[j] = job[j] PROVE k \in job'[j].kept \/ \E i \in job'[j].old : i[1] = k
  <2>1. Stage(j, "superseding") /\ Target(j)' = Target(j)
    BY <1>1 DEF Stage, Target
  <2>2. Target(j) \in Targets
    BY <2>1, AtTarget DEF JobPart, Stage
  <2>3. ASSUME NEW i \in Jobs, SaveItem(i) PROVE FALSE
    <3>1. i = j
      BY <2>1, <2>3 DEF SaveItem, AlonePart, Active, Stage
    <3> QED
      BY <2>1, <2>3, <3>1 DEF SaveItem, Stage
  <2>4. row[<<Target(j), k>>].status = "completed"
    BY <2>1, <2>2, <2>3, Fewer DEF Cells
  <2> QED
    BY <1>1, <2>1, <2>4 DEF SupersedePart
<1>2. ASSUME ListOld(j) PROVE k \in job'[j].kept \/ \E i \in job'[j].old : i[1] = k
  <2>1. /\ job'[j].kept = job[j].kept /\ job'[j].old = NotReproduced(j) /\ job'[j].todo = job[j].todo
        /\ row' = row
    BY <1>2 DEF ListOld, ReviewTypeOK, Handlers
  <2>2. row[<<Target(j), k>>].status = "completed"
    BY <2>1 DEF Target
  <2>3. k \notin job[j].kept => <<k, row[<<Target(j), k>>]>> \in NotReproduced(j)
    BY <2>2 DEF NotReproduced
  <2> QED
    BY <2>1, <2>3
<1>3. ASSUME Supersede(j) PROVE k \in job'[j].kept \/ \E i \in job'[j].old : i[1] = k
  <2>1. PICK i \in job[j].old :
          /\ row' = [row EXCEPT ![<<Target(j), i[1]>>] = [i[2] EXCEPT !.status = "discarded"]]
          /\ job' = [job EXCEPT ![j].old = @ \ {i}]
    BY <1>3 DEF Supersede
  <2>2. /\ job'[j].kept = job[j].kept /\ job'[j].old = job[j].old \ {i} /\ job'[j].todo = job[j].todo
    BY <2>1 DEF ReviewTypeOK, Handlers
  <2>3. Target(j) \in Targets /\ Target(j)' = Target(j)
    BY <1>3, <2>2, AtWork DEF Target
  <2>4. <<Target(j), k>> \in Cells
    BY <2>3 DEF Cells
  <2>5. k # i[1] /\ row[<<Target(j), k>>].status = "completed"
    <3>1. PICK r \in Rows : r.status # "completed" /\ row' = [row EXCEPT ![<<Target(j), i[1]>>] = r]
      BY <2>1, ClosedRow
    <3> QED
      BY <2>3, <2>4, <3>1 DEF ReviewTypeOK
  <2>6. k \in job[j].kept \/ \E e \in job[j].old : e[1] = k
    BY <1>3, <2>5 DEF Supersede, SupersedePart
  <2> QED
    BY <2>2, <2>5, <2>6
<1>4. ASSUME EditSource(j) \/ JobStep(j) \/ JobFault(j), ~ListOld(j), ~Supersede(j) PROVE FALSE
  <2>1. job[j] \in Handlers
    BY DEF ReviewTypeOK
  <2>2. ASSUME EditSource(j) \/ Handle(j) \/ BeginPhase(j) \/ EvaluationFails(j) PROVE FALSE
    BY <2>1, <2>2 DEF EditSource, Handle, BeginPhase, EvaluationFails, ReviewTypeOK, Handlers
  <2>3. ASSUME Answer(j) PROVE FALSE
    <3>1. job'[j].stage = "saving"
      BY <2>1, <2>3 DEF Answer, ReviewTypeOK, Handlers
    <3> QED
      BY <3>1
  <2>4. ASSUME SaveItem(j) \/ SkipItem(j) \/ ItemsSaved(j) PROVE FALSE
    <3>1. job'[j].stage \in {"saving", "listing"}
      <4>1. ASSUME SaveItem(j) \/ SkipItem(j) PROVE job'[j].stage = "saving"
        <5>1. PICK i \in job[j].items :
                 job' = [job EXCEPT ![j].items = @ \ {i}, ![j].kept = @ \cup {i[1]}]
          BY <4>1 DEF SaveItem, SkipItem
        <5> QED
          BY <2>1, <4>1, <5>1 DEF SaveItem, SkipItem, Stage, ReviewTypeOK, Handlers
      <4>2. ASSUME ItemsSaved(j) PROVE job'[j].stage = "listing"
        BY <2>1, <4>2 DEF ItemsSaved, ReviewTypeOK, Handlers
      <4> QED
        BY <2>4, <4>1, <4>2
    <3> QED
      BY <3>1
  <2>5. ASSUME EndPhase(j) \/ EndJob(j) \/ Raise(j) \/ Crash(j) PROVE FALSE
    BY <2>1, <2>5 DEF EndPhase, EndJob, Raise, Crash, ReviewTypeOK, Handlers
  <2> QED
    BY <1>4, <2>2, <2>4, <2>5, <2>3 DEF JobStep, JobFault
<1>5. ASSUME NEW i \in Jobs \ {j}, EditSource(i) \/ JobStep(i) \/ JobFault(i) PROVE job'[j] = job[j]
  BY <1>5, OtherJobs
<1>6. ASSUME Others PROVE job'[j] = job[j]
  BY <1>6, OthersKeepJobs
<1> QED
  BY <1>1, <1>2, <1>3, <1>4, <1>5, <1>6 DEF ReviewNext, Others

\* every step keeps pending suggestions reproduced
LEMMA PendingStep ==
  ASSUME ReviewTypeOK, JobPart, SupersedePart, PendingIsReproduced, [ReviewNext]_reviewVars
  PROVE  PendingIsReproduced'
<1> SUFFICES ASSUME NEW t \in Targets, NEW k \in Keys, row'[<<t, k>>].status = "completed"
             PROVE  k \in reproduced'[t]
  BY DEF PendingIsReproduced
<1>0. <<t, k>> \in Cells
  BY DEF Cells
<1>1. ASSUME NEW j \in Jobs, SaveItem(j) PROVE k \in reproduced'[t]
  <2>1. PICK i \in job[j].items :
          /\ row' = [row EXCEPT ![<<Target(j), i[1]>>] =
                       [status |-> "completed", diff |-> i[2], snap |-> Now(Target(j))]]
          /\ reproduced' = [reproduced EXCEPT ![Target(j)] = @ \cup {i[1]}]
    BY <1>1 DEF SaveItem
  <2>2. reproduced[t] \subseteq reproduced'[t] /\ (t = Target(j) => i[1] \in reproduced'[t])
    BY <2>1 DEF ReviewTypeOK
  <2>3. <<t, k>> = <<Target(j), i[1]>> \/ row'[<<t, k>>] = row[<<t, k>>]
    BY <1>0, <2>1 DEF ReviewTypeOK
  <2> QED
    BY <2>2, <2>3 DEF PendingIsReproduced
<1>2. ASSUME \A j \in Jobs : ~SaveItem(j) PROVE k \in reproduced'[t]
  <2>1. row[<<t, k>>].status = "completed"
    BY <1>0, <1>2, Fewer
  <2>2. ASSUME NEW j \in Jobs, EndPhase(j) PROVE k \in reproduced'[t]
    <3>1. CASE t = Target(j)
      <4>1. k \in job[j].kept
        BY <2>1, <2>2, <3>1 DEF EndPhase, SupersedePart
      <4> QED
        BY <2>2, <3>1, <4>1 DEF EndPhase, ReviewTypeOK
    <3>2. CASE t # Target(j)
      BY <2>1, <2>2, <3>2 DEF EndPhase, ReviewTypeOK, PendingIsReproduced
    <3> QED
      BY <3>1, <3>2
  <2> QED
    BY <1>2, <2>1, <2>2, Frames DEF PendingIsReproduced
<1> QED
  BY <1>1, <1>2
-----------------------------------------------------------------------------
ReviewInv == ReviewTypeOK /\ JobPart /\ WritePart
OneByOne == AlonePart /\ SupersedePart /\ PendingIsReproduced

\* the first state
LEMMA ReviewInit_Inv == ASSUME ReviewAssumption, ReviewInit PROVE ReviewInv /\ OneByOne
<1>1. [stage |-> "none", tries |-> 0, todo |-> <<>>, read |-> Gone,
       items |-> {}, kept |-> {}, old |-> {}] \in Handlers
  BY DEF Handlers, Texts, ReviewAssumption
<1>2. text \in [Targets -> Texts]
  <2>1. \A s \in Statements : <<s>> \in Texts
    BY DEF Texts
  <2>2. {<<s>> : s \in Statements} \cup {Gone} \subseteq Texts
    BY <2>1 DEF Texts
  <2> QED
    BY <2>2 DEF ReviewInit
<1>3. ReviewTypeOK
  BY <1>1, <1>2 DEF ReviewInit, ReviewTypeOK, ReviewAssumption
<1>4. JobPart /\ AlonePart /\ SupersedePart
  BY DEF ReviewInit, JobPart, AlonePart, SupersedePart, Active, Stage
<1>5. WritePart
  BY DEF ReviewInit, WritePart, At, Idle
<1>6. PendingIsReproduced
  BY DEF ReviewInit, PendingIsReproduced, NoRow, Cells
<1> QED
  BY <1>3, <1>4, <1>5, <1>6 DEF ReviewInv, OneByOne

\* every step keeps the invariant
LEMMA ReviewStep ==
  ASSUME ReviewAssumption, ReviewInv, [ReviewNext]_reviewVars PROVE ReviewInv'
<1>1. ReviewTypeOK'
  BY JobTypes, UserTypes, RestTypes DEF ReviewInv, ReviewTypeOK
<1> QED
  BY <1>1, JobTypes, WriteStep DEF ReviewInv

(***************************************************************************)
(* Every variable keeps its type: what a handler or a request carries with *)
(* it across the waits is a row, a document or a suggestion.               *)
(***************************************************************************)
THEOREM ReviewTypeCorrect == ASSUME ReviewAssumption PROVE ReviewSpec => []ReviewTypeOK
<1>1. ReviewInit => ReviewInv
  BY ReviewInit_Inv
<1>2. ReviewInv /\ [ReviewNext]_reviewVars => ReviewInv'
  BY ReviewStep
<1>3. ReviewInv => ReviewTypeOK
  BY DEF ReviewInv
<1> QED
  BY <1>1, <1>2, <1>3, PTL DEF ReviewSpec

(***************************************************************************)
(* An application never undoes an edit, whatever else applies, edits,      *)
(* evaluates or dies in between.                                           *)
(***************************************************************************)
THEOREM ApplyKeepsEditsHolds == ASSUME ReviewAssumption PROVE ReviewSpec => []ApplyKeepsEdits
<1>1. ReviewInit => ReviewInv
  BY ReviewInit_Inv
<1>2. ReviewInv /\ [ReviewNext]_reviewVars => ReviewInv'
  BY ReviewStep
<1>3. ReviewInv => ApplyKeepsEdits
  BY DEF ReviewInv, WritePart, Holds, ApplyKeepsEdits
<1> QED
  BY <1>1, <1>2, <1>3, PTL DEF ReviewSpec

(***************************************************************************)
(* When the jobs are handled one at a time, only what the last evaluation  *)
(* of a pair reproduced is pending.                                        *)
(***************************************************************************)
THEOREM PendingIsReproducedHolds ==
  ASSUME ReviewAssumption, ~Overlap PROVE ReviewSpec => []PendingIsReproduced
<1>1. ReviewInit => ReviewInv /\ OneByOne
  BY ReviewInit_Inv
<1>2. ReviewInv /\ OneByOne /\ [ReviewNext]_reviewVars => (ReviewInv /\ OneByOne)'
  <2> SUFFICES ASSUME ReviewInv, OneByOne, [ReviewNext]_reviewVars PROVE ReviewInv' /\ OneByOne'
    OBVIOUS
  <2>1. ReviewInv'
    BY ReviewStep
  <2>2. AlonePart' /\ SupersedePart' /\ PendingIsReproduced'
    BY <2>1, AloneStep, SupersedeStep, PendingStep DEF ReviewInv, OneByOne
  <2> QED
    BY <2>1, <2>2 DEF OneByOne
<1>3. OneByOne => PendingIsReproduced
  BY DEF OneByOne
<1> QED
  BY <1>1, <1>2, <1>3, PTL DEF ReviewSpec
=============================================================================
