------------------------- MODULE OutboxQueue_proofs -------------------------
(***************************************************************************)
(* Proofs about OutboxQueue, for any number of workers, jobs, attempts and *)
(* permits: its types, that no permit is lost or made up, that two tasks   *)
(* never work on one job, that retries end as they should, that only an    *)
(* error of the store makes a job succeed twice, and that it implements    *)
(* the abstract queue.                                                     *)
(***************************************************************************)
EXTENDS OutboxQueue, FiniteSetTheorems, TLAPS

(***************************************************************************)
(* What a task knows about its job.  Attempts number the tasks of a job,   *)
(* so a task at work is the job's last one.                                *)
(***************************************************************************)
TaskPart ==
  \A t \in Tasks :
    /\ t[2] > attempts[t[1]] => stage[t] = "none"
    /\ Alive(t) => owner[t] \in Workers
    /\ stage[t] \in Busy => t[2] = attempts[t[1]] /\ status[t[1]] \in {"processing", "done"}
    /\ stage[t] \in {"handling", "marking"} => status[t[1]] = "processing"
    /\ stage[t] = "handling" => successes[t[1]] < attempts[t[1]]
    /\ stage[t] = "marking" => successes[t[1]] > 0

JobPart ==
  \A j \in Jobs :
    /\ successes[j] <= attempts[j]
    /\ status[j] \in {"none", "pending"} => attempts[j] = 0
    /\ status[j] = "failed" => attempts[j] < MaxAttempts
    /\ status[j] = "dead" => attempts[j] = MaxAttempts
    /\ status[j] = "done" => successes[j] > 0

\* without an error, a job that succeeded is not tried again
OncePart ==
  errors = 0 =>
    \A j \in Jobs : successes[j] > 0 =>
      /\ successes[j] = 1
      /\ status[j] \in {"processing", "done"}
      /\ \A t \in Tasks : t[1] = j => stage[t] \notin {"handling", "failing"}

(***************************************************************************)
(* TypeOK but for the upper bound of permits, which follows from the       *)
(* accounts.                                                               *)
(***************************************************************************)
Types ==
  /\ status \in [Jobs -> {"none", "pending", "processing", "failed", "done", "dead"}]
  /\ attempts \in [Jobs -> 0 .. MaxAttempts]
  /\ stage \in [Tasks -> {"none", "backoff"} \cup Busy]
  /\ owner \in [Tasks -> Workers \cup {Nobody}]
  /\ loop \in [Workers -> {"acquiring", "dequeuing"}]
  /\ permits \in [Workers -> Nat]
  /\ successes \in [Jobs -> 0 .. MaxAttempts]
  /\ errors \in 0 .. MaxErrors
  /\ stops \in 0 .. MaxStops

OutboxInv == Types /\ TaskPart /\ JobPart /\ OncePart

\* an empty table with idle loops satisfies OutboxInv
LEMMA OutboxInvInit == Init => OutboxInv
BY OutboxAssumption DEF Init, OutboxInv, Types, TaskPart, JobPart, OncePart, Alive, Busy, Tasks, Jobs

\* every step of a loop, a task or the table keeps OutboxInv
LEMMA OutboxInvStep == OutboxInv /\ [Next]_vars => OutboxInv'
<1> SUFFICES ASSUME OutboxInv, [Next]_vars
             PROVE  OutboxInv'
  OBVIOUS
<1>a. Types /\ TaskPart /\ JobPart /\ OncePart
  BY DEF OutboxInv
<1>b. \A t \in Tasks : t[1] \in Jobs /\ t[2] \in 1 .. MaxAttempts
  BY DEF Tasks
<1>c. \A t, u \in Tasks : t[1] = u[1] /\ t[2] = u[2] => t = u
  BY DEF Tasks
<1> USE OutboxAssumption DEF Busy, Alive
<1>1. ASSUME NEW j \in Jobs, Enqueue(j)
      PROVE  OutboxInv'
  <2>1. Types' /\ JobPart'
    BY <1>a, <1>1 DEF Enqueue, bounds, Types, JobPart
  <2>2. TaskPart'
    BY <1>a, <1>b, <1>1 DEF Enqueue, bounds, Types, TaskPart
  <2>3. OncePart'
    BY <1>a, <1>b, <1>1 DEF Enqueue, bounds, Types, OncePart, JobPart
  <2> QED
    BY <2>1, <2>2, <2>3 DEF OutboxInv
<1>2. ASSUME NEW w \in Workers, TakePermit(w) \/ NothingToDo(w)
      PROVE  OutboxInv'
  <2>1. Types'
    BY <1>a, <1>2 DEF TakePermit, NothingToDo, jobVars, bounds, Types
  <2>2. TaskPart' /\ JobPart' /\ OncePart'
    BY <1>a, <1>2 DEF TakePermit, NothingToDo, jobVars, bounds, TaskPart, JobPart, OncePart
  <2> QED
    BY <2>1, <2>2 DEF OutboxInv
<1>3. ASSUME NEW j \in Jobs, Claim(j), successes' = successes
      PROVE  /\ \A i \in Jobs : attempts'[i] \in 0 .. MaxAttempts
             /\ attempts' \in [Jobs -> 0 .. MaxAttempts]
             /\ status' = [status EXCEPT ![j] = "processing"]
             /\ attempts' = [attempts EXCEPT ![j] = @ + 1]
             /\ JobPart'
             /\ attempts[j] + 1 \in 1 .. MaxAttempts
             /\ \A t \in Tasks : t[1] = j => stage[t] \notin Busy
             /\ errors = 0 => successes[j] = 0
  <2>1. attempts[j] + 1 \in 1 .. MaxAttempts
    BY <1>a, <1>3 DEF Claim, Eligible, Types, JobPart
  <2>2. \A t \in Tasks : t[1] = j => stage[t] \notin Busy
    BY <1>a, <1>3 DEF Claim, Eligible, TaskPart
  <2>3. errors = 0 => successes[j] = 0
    BY <1>a, <1>3 DEF Claim, Eligible, Types, OncePart
  <2> QED
    BY <1>a, <1>3, <2>1, <2>2, <2>3 DEF Claim, Types, JobPart
<1>4. ASSUME NEW w \in Workers, NEW j \in Jobs, Dequeue(w, j)
      PROVE  OutboxInv'
  <2> DEFINE n == attempts[j] + 1
             new == <<j, n>>
  <2>0. Claim(j) /\ UNCHANGED <<permits, successes, errors, stops>>
    BY <1>4 DEF Dequeue, bounds
  <2>1. new \in Tasks /\ new[1] = j /\ new[2] = n /\ n > attempts[j] /\ attempts[j] \in Nat
    BY <1>a, <1>3, <2>0 DEF Tasks, Types
  <2>2. stage' = [stage EXCEPT ![new] = "handling"] /\ owner' = [owner EXCEPT ![new] = w]
    BY <1>4 DEF Dequeue
  <2>3. Types'
    BY <1>a, <1>3, <1>4, <2>0, <2>1, <2>2 DEF Dequeue, Types
  <2>4. TaskPart'
    <3> SUFFICES ASSUME NEW t \in Tasks
                 PROVE  /\ t[2] > attempts'[t[1]] => stage'[t] = "none"
                        /\ stage'[t] # "none" => owner'[t] \in Workers
                        /\ stage'[t] \in Busy =>
                             t[2] = attempts'[t[1]] /\ status'[t[1]] \in {"processing", "done"}
                        /\ stage'[t] \in {"handling", "marking"} => status'[t[1]] = "processing"
                        /\ stage'[t] = "handling" => successes'[t[1]] < attempts'[t[1]]
                        /\ stage'[t] = "marking" => successes'[t[1]] > 0
      BY DEF TaskPart
    <3>1. ASSUME t = new
          PROVE  /\ attempts'[t[1]] = n /\ t[2] = n /\ stage'[t] = "handling"
                 /\ owner'[t] = w /\ status'[t[1]] = "processing" /\ successes'[t[1]] < n
      BY <1>a, <1>3, <2>0, <2>1, <2>2, <3>1 DEF Types, JobPart
    <3>2. ASSUME t # new
          PROVE  stage'[t] = stage[t] /\ owner'[t] = owner[t]
      BY <1>a, <2>2, <3>2 DEF Types
    <3>3. ASSUME t[1] # j
          PROVE  attempts'[t[1]] = attempts[t[1]] /\ status'[t[1]] = status[t[1]]
      BY <1>a, <1>b, <1>3, <2>0, <3>3 DEF Types
    <3>4. CASE t = new
      BY <2>1, <3>1, <3>4
    <3>5. CASE t # new /\ t[1] # j
      BY <1>a, <2>0, <3>2, <3>3, <3>5 DEF TaskPart
    <3>6. CASE t # new /\ t[1] = j
      <4>1. attempts'[j] = attempts[j] + 1
        BY <1>a, <1>3, <2>0 DEF Types
      <4>2. stage'[t] \notin Busy /\ stage'[t] = stage[t] /\ owner'[t] = owner[t]
        BY <1>3, <2>0, <3>2, <3>6
      <4>3. t[2] > attempts'[t[1]] => t[2] > attempts[t[1]]
        BY <1>b, <2>1, <3>6, <4>1
      <4> QED
        BY <1>a, <4>2, <4>3 DEF TaskPart
    <3> QED
      BY <3>4, <3>5, <3>6
  <2>5. OncePart'
    <3> SUFFICES ASSUME errors = 0, NEW i \in Jobs, successes[i] > 0
                 PROVE  /\ successes[i] = 1
                        /\ status'[i] \in {"processing", "done"}
                        /\ \A t \in Tasks : t[1] = i => stage'[t] \notin {"handling", "failing"}
      BY <2>0 DEF OncePart
    <3>1. i # j
      BY <1>3, <2>0
    <3>2. \A t \in Tasks : t[1] = i => stage'[t] = stage[t]
      BY <1>a, <2>1, <2>2, <3>1 DEF Types
    <3> QED
      BY <1>a, <1>3, <2>0, <3>1, <3>2 DEF OncePart, Types
  <2> QED
    BY <1>3, <2>0, <2>3, <2>4, <2>5 DEF OutboxInv
<1>5. ASSUME NEW w \in Workers, DequeueRaises(w)
      PROVE  OutboxInv'
  <2>0. /\ UNCHANGED <<stage, owner, successes, stops>>
        /\ errors' = errors + 1 /\ errors' \in 1 .. MaxErrors
    BY <1>a, <1>5 DEF DequeueRaises, Types
  <2>1. OncePart'
    BY <2>0 DEF OncePart
  <2>2. CASE UNCHANGED jobVars
    BY <1>a, <1>5, <2>0, <2>1, <2>2 DEF DequeueRaises, jobVars, OutboxInv, Types, TaskPart, JobPart
  <2>3. ASSUME NEW j \in Jobs, Claim(j)
        PROVE  OutboxInv'
    <3>1. Types'
      BY <1>a, <1>3, <1>5, <2>0, <2>3 DEF DequeueRaises, Types
    <3>2. TaskPart'
      <4> SUFFICES ASSUME NEW t \in Tasks
                   PROVE  /\ t[2] > attempts'[t[1]] => stage[t] = "none"
                          /\ stage[t] # "none" => owner[t] \in Workers
                          /\ stage[t] \in Busy => /\ t[2] = attempts'[t[1]]
                                                  /\ status'[t[1]] \in {"processing", "done"}
                          /\ stage[t] \in {"handling", "marking"} => status'[t[1]] = "processing"
                          /\ stage[t] = "handling" => successes[t[1]] < attempts'[t[1]]
                          /\ stage[t] = "marking" => successes[t[1]] > 0
        BY <2>0 DEF TaskPart
      <4>1. CASE t[1] # j
        <5>1. attempts'[t[1]] = attempts[t[1]] /\ status'[t[1]] = status[t[1]]
          BY <1>a, <1>b, <1>3, <2>0, <2>3, <4>1 DEF Types
        <5> QED
          BY <1>a, <5>1 DEF TaskPart
      <4>2. CASE t[1] = j
        <5>1. stage[t] \notin Busy
          BY <1>3, <2>0, <2>3, <4>2
        <5>2. attempts'[j] = attempts[j] + 1 /\ attempts[j] \in Nat
          BY <1>a, <1>3, <2>0, <2>3 DEF Types
        <5>3. t[2] > attempts'[t[1]] => t[2] > attempts[t[1]]
          BY <1>b, <4>2, <5>2
        <5> QED
          BY <1>a, <5>1, <5>3 DEF TaskPart
      <4> QED
        BY <4>1, <4>2
    <3>3. JobPart'
      BY <1>3, <2>0, <2>3
    <3> QED
      BY <2>1, <3>1, <3>2, <3>3 DEF OutboxInv
  <2> QED
    BY <1>5, <2>2, <2>3 DEF DequeueRaises
<1>6. ASSUME NEW t \in Tasks, stage[t] # "none"
      PROVE  owner[t] \in Workers /\ t[1] \in Jobs
  BY <1>a, <1>b, <1>6 DEF TaskPart
\* a task that only moves, or ends, leaves the accounts of the others alone
<1>7. ASSUME NEW t \in Tasks, stage[t] # "none", TaskEnds(t) \/ UNCHANGED permits
      PROVE  permits' \in [Workers -> Nat]
  BY <1>a, <1>6, <1>7 DEF TaskEnds, Types
<1>8. ASSUME NEW t \in Tasks, HandlerReturns(t)
      PROVE  OutboxInv'
  <2>0. /\ stage[t] = "handling" /\ stage' = [stage EXCEPT ![t] = "marking"]
        /\ successes' = [successes EXCEPT ![t[1]] = @ + 1]
        /\ UNCHANGED <<status, attempts, owner, loop, permits, errors, stops>>
    BY <1>8 DEF HandlerReturns, Goto, jobVars, bounds
  <2>1. successes[t[1]] < attempts[t[1]] /\ status[t[1]] = "processing" /\ t[2] = attempts[t[1]]
    BY <1>a, <2>0 DEF TaskPart
  <2>2. successes[t[1]] + 1 \in 1 .. MaxAttempts
    BY <1>a, <1>b, <2>1 DEF Types
  <2>3. Types'
    <3>1. stage' \in [Tasks -> {"none", "backoff"} \cup Busy]
      BY <1>a, <2>0 DEF Types
    <3>2. successes' \in [Jobs -> 0 .. MaxAttempts]
      BY <1>a, <1>b, <2>0, <2>2 DEF Types
    <3> QED
      BY <1>a, <2>0, <3>1, <3>2 DEF Types
  <2>4. TaskPart'
    <3> SUFFICES ASSUME NEW u \in Tasks
                 PROVE  /\ u[2] > attempts[u[1]] => stage'[u] = "none"
                        /\ stage'[u] # "none" => owner[u] \in Workers
                        /\ stage'[u] \in Busy =>
                             u[2] = attempts[u[1]] /\ status[u[1]] \in {"processing", "done"}
                        /\ stage'[u] \in {"handling", "marking"} => status[u[1]] = "processing"
                        /\ stage'[u] = "handling" => successes'[u[1]] < attempts[u[1]]
                        /\ stage'[u] = "marking" => successes'[u[1]] > 0
      BY <2>0 DEF TaskPart
    <3>1. CASE u = t
      <4>1. stage'[u] = "marking" /\ successes'[u[1]] > 0
        BY <1>a, <1>b, <2>0, <2>2, <3>1 DEF Types
      <4>2. t[2] <= attempts[t[1]] /\ owner[t] \in Workers
        BY <1>a, <1>b, <1>6, <2>0, <2>1
      <4> QED
        BY <1>a, <1>b, <2>0, <2>1, <3>1, <4>1, <4>2 DEF Types
    <3>2. CASE u # t
      <4>1. stage'[u] = stage[u]
        BY <1>a, <2>0, <3>2 DEF Types
      <4>2. stage[u] = "handling" => u[1] # t[1]
        BY <1>a, <1>c, <2>0, <2>1, <3>2 DEF TaskPart
      <4>3. successes'[u[1]] >= successes[u[1]] /\ (u[1] # t[1] => successes'[u[1]] = successes[u[1]])
        BY <1>a, <1>b, <2>0 DEF Types
      <4>4. successes[u[1]] \in Nat /\ successes'[u[1]] \in Nat
        BY <1>a, <1>b, <2>3 DEF Types
      <4> QED
        BY <1>a, <4>1, <4>2, <4>3, <4>4 DEF TaskPart
    <3> QED
      BY <3>1, <3>2
  <2>5. JobPart'
    BY <1>a, <1>b, <2>0, <2>1, <2>2 DEF Types, JobPart
  <2>6. OncePart'
    <3> SUFFICES ASSUME errors = 0, NEW j \in Jobs, successes'[j] > 0
                 PROVE  /\ successes'[j] = 1
                        /\ status[j] \in {"processing", "done"}
                        /\ \A u \in Tasks : u[1] = j => stage'[u] \notin {"handling", "failing"}
      BY <2>0 DEF OncePart
    <3>1. CASE j = t[1]
      <4>1. successes[j] = 0
        BY <1>a, <2>0, <3>1 DEF OncePart, Types
      <4>2. \A u \in Tasks : u[1] = j /\ u # t => stage[u] \notin Busy
        BY <1>a, <1>c, <2>1, <3>1 DEF TaskPart
      <4>3. \A u \in Tasks : u[1] = j => stage'[u] \notin {"handling", "failing"}
        BY <1>a, <2>0, <4>2 DEF Types
      <4> QED
        BY <1>a, <2>0, <2>1, <3>1, <4>1, <4>3 DEF Types
    <3>2. CASE j # t[1]
      BY <1>a, <2>0, <3>2 DEF OncePart, Types
    <3> QED
      BY <3>1, <3>2
  <2> QED
    BY <2>3, <2>4, <2>5, <2>6 DEF OutboxInv
\* the task at work of a job is the only one, so it may change the job's status
<1>9. ASSUME NEW t \in Tasks, stage[t] \in Busy, UNCHANGED <<attempts, owner, successes>>,
             NEW s \in {"none", "backoff", "failing"}, stage' = [stage EXCEPT ![t] = s],
             NEW v, status' = [status EXCEPT ![t[1]] = v],
             s = "failing" => v \in {"processing", "done"}
      PROVE  TaskPart'
  <2> SUFFICES ASSUME NEW u \in Tasks
               PROVE  /\ u[2] > attempts[u[1]] => stage'[u] = "none"
                      /\ stage'[u] # "none" => owner[u] \in Workers
                      /\ stage'[u] \in Busy =>
                           u[2] = attempts[u[1]] /\ status'[u[1]] \in {"processing", "done"}
                      /\ stage'[u] \in {"handling", "marking"} => status'[u[1]] = "processing"
                      /\ stage'[u] = "handling" => successes[u[1]] < attempts[u[1]]
                      /\ stage'[u] = "marking" => successes[u[1]] > 0
    BY <1>9 DEF TaskPart
  <2>1. t[2] = attempts[t[1]] /\ owner[t] \in Workers
    BY <1>a, <1>9 DEF TaskPart
  <2>2. CASE u = t
    <3>1. stage'[u] = s /\ status'[u[1]] = v
      BY <1>a, <1>b, <1>9, <2>2 DEF Types
    <3>2. ~(u[2] > attempts[u[1]])
      BY <1>b, <2>1, <2>2
    <3> QED
      BY <1>9, <2>1, <2>2, <3>1, <3>2
  <2>3. CASE u # t
    <3>1. stage'[u] = stage[u]
      BY <1>a, <1>9, <2>3 DEF Types
    <3>2. stage[u] \in Busy => u[1] # t[1]
      BY <1>a, <1>c, <2>1, <2>3 DEF TaskPart
    <3>3. u[1] # t[1] => status'[u[1]] = status[u[1]]
      BY <1>a, <1>b, <1>9 DEF Types
    <3> QED
      BY <1>a, <3>1, <3>2, <3>3 DEF TaskPart
  <2> QED
    BY <2>2, <2>3
<1>10. ASSUME NEW t \in Tasks
       PROVE  status = [status EXCEPT ![t[1]] = status[t[1]]]
  BY <1>a DEF Types
<1>11. ASSUME NEW t \in Tasks, HandlerRaises(t)
       PROVE  OutboxInv'
  <2>0. /\ stage[t] = "handling" /\ stage' = [stage EXCEPT ![t] = "failing"]
        /\ UNCHANGED <<status, attempts, owner, loop, permits, successes, errors, stops>>
    BY <1>11 DEF HandlerRaises, Goto, jobVars, bounds
  <2>1. Types' /\ JobPart'
    BY <1>a, <2>0 DEF Types, JobPart
  <2>2. status[t[1]] = "processing"
    BY <1>a, <2>0 DEF TaskPart
  <2>3. TaskPart'
    BY <1>9, <1>10, <2>0, <2>2
  <2>4. OncePart'
    BY <1>a, <1>b, <2>0 DEF OncePart, Types
  <2> QED
    BY <2>1, <2>3, <2>4 DEF OutboxInv
<1>12. ASSUME NEW t \in Tasks, MarkDone(t)
       PROVE  OutboxInv'
  <2>0. /\ stage[t] = "marking" /\ stage' = [stage EXCEPT ![t] = "none"]
        /\ status' = [status EXCEPT ![t[1]] = "done"]
        /\ UNCHANGED <<attempts, owner, loop, successes, errors, stops>>
    BY <1>12 DEF MarkDone, TaskEnds, Goto, bounds
  <2>1. permits' \in [Workers -> Nat]
    BY <1>7, <1>12, <2>0 DEF MarkDone
  <2>2. Types'
    BY <1>a, <1>b, <2>0, <2>1 DEF Types
  <2>3. TaskPart'
    BY <1>9, <2>0
  <2>4. successes[t[1]] > 0
    BY <1>a, <2>0 DEF TaskPart
  <2>5. JobPart'
    BY <1>a, <1>b, <2>0, <2>4 DEF JobPart, Types
  <2>6. OncePart'
    <3>1. \A u \in Tasks : stage'[u] \in {"handling", "failing"} => stage[u] = stage'[u]
      BY <1>a, <2>0 DEF Types
    <3>2. \A j \in Jobs : status'[j] = status[j] \/ status'[j] = "done"
      BY <1>a, <2>0 DEF Types
    <3> QED
      BY <1>a, <2>0, <3>1, <3>2 DEF OncePart
  <2> QED
    BY <2>2, <2>3, <2>5, <2>6 DEF OutboxInv
<1>13. ASSUME NEW t \in Tasks, MarkDoneRaises(t)
       PROVE  OutboxInv'
  <2>0. /\ stage[t] = "marking" /\ stage' = [stage EXCEPT ![t] = "failing"]
        /\ UNCHANGED <<attempts, owner, loop, permits, successes, stops>>
        /\ errors' = errors + 1 /\ errors' \in 1 .. MaxErrors
    BY <1>a, <1>13 DEF MarkDoneRaises, Goto, Types
  <2>1. PICK v \in {"processing", "done"} : status' = [status EXCEPT ![t[1]] = v]
    <3>1. status[t[1]] = "processing"
      BY <1>a, <2>0 DEF TaskPart
    <3> QED
      BY <1>10, <1>13, <3>1 DEF MarkDoneRaises
  <2>2. Types'
    BY <1>a, <1>b, <2>0, <2>1 DEF Types
  <2>3. TaskPart'
    BY <1>9, <2>0, <2>1
  <2>4. successes[t[1]] > 0
    BY <1>a, <2>0 DEF TaskPart
  <2>5. JobPart'
    BY <1>a, <1>b, <2>0, <2>1, <2>4 DEF JobPart, Types
  <2>6. OncePart'
    BY <2>0 DEF OncePart
  <2> QED
    BY <2>2, <2>3, <2>5, <2>6 DEF OutboxInv
<1>14. ASSUME NEW t \in Tasks, status' = [status EXCEPT ![t[1]] = Verdict(t[1])],
              UNCHANGED <<attempts, successes>>
       PROVE  JobPart' /\ status' \in [Jobs -> {"none", "pending", "processing", "failed", "done", "dead"}]
  <2>1. \/ Verdict(t[1]) = "dead" /\ attempts[t[1]] = MaxAttempts
        \/ Verdict(t[1]) = "failed" /\ attempts[t[1]] < MaxAttempts
    BY <1>a, <1>b DEF Verdict, Types
  <2> QED
    BY <1>a, <1>b, <1>14, <2>1 DEF JobPart, Types
<1>15. ASSUME NEW t \in Tasks, MarkFailed(t)
       PROVE  OutboxInv'
  <2>0. /\ stage[t] = "failing" /\ status' = [status EXCEPT ![t[1]] = Verdict(t[1])]
        /\ UNCHANGED <<attempts, owner, loop, successes, errors, stops>>
    BY <1>15 DEF MarkFailed, bounds
  <2>1. PICK s \in {"none", "backoff"} : stage' = [stage EXCEPT ![t] = s]
    BY <1>15 DEF MarkFailed, TaskEnds, Goto
  <2>2. permits' \in [Workers -> Nat]
    BY <1>7, <1>15, <2>0 DEF MarkFailed
  <2>3. Types' /\ JobPart'
    BY <1>a, <1>14, <2>0, <2>1, <2>2 DEF Types
  <2>4. TaskPart'
    BY <1>9, <2>0, <2>1
  <2>5. OncePart'
    <3>1. errors = 0 => successes[t[1]] = 0
      BY <1>a, <1>b, <2>0 DEF OncePart, Types
    <3>2. \A j \in Jobs : j # t[1] => status'[j] = status[j]
      BY <1>a, <2>0 DEF Types
    <3>3. \A u \in Tasks : stage'[u] \in {"handling", "failing"} => stage[u] = stage'[u]
      BY <1>a, <2>1 DEF Types
    <3> QED
      BY <1>a, <2>0, <3>1, <3>2, <3>3 DEF OncePart, Types
  <2> QED
    BY <2>3, <2>4, <2>5 DEF OutboxInv
<1>16. ASSUME NEW t \in Tasks, MarkFailedRaises(t)
       PROVE  OutboxInv'
  <2>0. /\ stage[t] = "failing" /\ stage' = [stage EXCEPT ![t] = "none"]
        /\ UNCHANGED <<attempts, owner, loop, successes, stops>>
        /\ errors' = errors + 1 /\ errors' \in 1 .. MaxErrors
    BY <1>a, <1>16 DEF MarkFailedRaises, TaskEnds, Goto, Types
  <2>1. PICK v : status' = [status EXCEPT ![t[1]] = v]
    BY <1>10, <1>16 DEF MarkFailedRaises
  <2>2. permits' \in [Workers -> Nat]
    BY <1>7, <1>16, <2>0 DEF MarkFailedRaises
  <2>3. JobPart' /\ status' \in [Jobs -> {"none", "pending", "processing", "failed", "done", "dead"}]
    <3>1. CASE status' = status
      BY <1>a, <2>0, <3>1 DEF Types, JobPart
    <3> QED
      BY <1>14, <1>16, <2>0, <3>1 DEF MarkFailedRaises
  <2>4. Types'
    BY <1>a, <2>0, <2>2, <2>3 DEF Types
  <2>5. TaskPart'
    BY <1>9, <2>0, <2>1
  <2>6. OncePart'
    BY <2>0 DEF OncePart
  <2> QED
    BY <2>3, <2>4, <2>5, <2>6 DEF OutboxInv
\* steps that only end tasks
<1>17. ASSUME \A u \in Tasks : stage'[u] = stage[u] \/ stage'[u] = "none",
              UNCHANGED <<status, attempts, owner, successes, errors>>
       PROVE  TaskPart' /\ JobPart' /\ OncePart'
  BY <1>a, <1>17 DEF TaskPart, JobPart, OncePart
<1>18. ASSUME NEW t \in Tasks, BackoffOver(t)
       PROVE  OutboxInv'
  <2>0. /\ stage[t] = "backoff" /\ stage' = [stage EXCEPT ![t] = "none"]
        /\ UNCHANGED <<status, attempts, owner, loop, successes, errors, stops>>
    BY <1>18 DEF BackoffOver, TaskEnds, Goto, jobVars, bounds
  <2>1. permits' \in [Workers -> Nat]
    BY <1>7, <1>18, <2>0 DEF BackoffOver
  <2>2. Types' /\ \A u \in Tasks : stage'[u] = stage[u] \/ stage'[u] = "none"
    BY <1>a, <2>0, <2>1 DEF Types
  <2> QED
    BY <1>17, <2>0, <2>2 DEF OutboxInv
<1>19. ASSUME NEW w \in Workers, Stop(w)
       PROVE  OutboxInv'
  <2>1. Types' /\ \A u \in Tasks : stage'[u] = stage[u] \/ stage'[u] = "none"
    BY <1>a, <1>19 DEF Stop, jobVars, Types
  <2> QED
    BY <1>17, <1>19, <2>1 DEF OutboxInv, Stop, jobVars
<1>20. CASE UNCHANGED vars
  BY <1>a, <1>20 DEF vars, jobVars, bounds, OutboxInv, Types, TaskPart, JobPart, OncePart
<1> QED
  BY <1>1, <1>2, <1>4, <1>5, <1>8, <1>11, <1>12, <1>13, <1>15, <1>16, <1>18, <1>19, <1>20
  DEF Next, Poll, Process

\* OutboxInv holds of every behaviour of the outbox: the row of a job and its
\* tasks agree at every moment (the basis of the theorems that follow).
THEOREM OutboxInvariant == Spec => []OutboxInv
BY OutboxInvInit, OutboxInvStep, PTL DEF Spec

-----------------------------------------------------------------------------
(***************************************************************************)
(* The permits: what each kind of step does to the tasks of a worker.      *)
(***************************************************************************)
TasksOf(w) == {t \in Tasks : Alive(t) /\ owner[t] = w}

\* a worker has finitely many tasks, so they can be counted
LEMMA TasksFinite == \A w \in Workers : IsFiniteSet(TasksOf(w)) /\ Cardinality(TasksOf(w)) \in Nat
<1>1. IsFiniteSet(Jobs) /\ IsFiniteSet(1 .. MaxAttempts)
  BY OutboxAssumption, FS_Interval DEF Jobs
<1>2. IsFiniteSet(Tasks)
  BY <1>1, FS_Product DEF Tasks
<1>3. \A w \in Workers : TasksOf(w) \in SUBSET Tasks
  BY DEF TasksOf
<1> QED
  BY <1>2, <1>3, FS_Subset, FS_CardinalityType

Slots(w) == IF loop[w] = "dequeuing" THEN 1 ELSE 0

\* at first all the permits are in the semaphores
LEMMA PermitsInit == Init => PermitsAccounted
<1> SUFFICES ASSUME Init, NEW w \in Workers
             PROVE  permits[w] + Cardinality(TasksOf(w)) + Slots(w) = Permits
  BY DEF PermitsAccounted, TasksOf, Slots
<1>1. TasksOf(w) = {}
  BY DEF Init, TasksOf, Alive
<1> QED
  BY <1>1, FS_EmptySet, OutboxAssumption DEF Init, Slots

\* a permit that leaves a semaphore goes to one dequeue or one task, and back
LEMMA PermitsStep == OutboxInv /\ PermitsAccounted /\ [Next]_vars => PermitsAccounted'
<1> SUFFICES ASSUME OutboxInv, PermitsAccounted, [Next]_vars
             PROVE  PermitsAccounted'
  OBVIOUS
<1>a. Types /\ TaskPart
  BY DEF OutboxInv
<1>b. \A w \in Workers : /\ permits[w] + Cardinality(TasksOf(w)) + Slots(w) = Permits
                         /\ permits[w] \in Nat /\ Slots(w) \in {0, 1}
                         /\ IsFiniteSet(TasksOf(w)) /\ Cardinality(TasksOf(w)) \in Nat
  BY <1>a, TasksFinite DEF PermitsAccounted, TasksOf, Slots, Types
<1>c. (\A w \in Workers : permits'[w] + Cardinality(TasksOf(w)') + Slots(w)' = Permits)
        => PermitsAccounted'
  BY DEF PermitsAccounted, TasksOf, Slots
<1>1. ASSUME NEW w \in Workers, TakePermit(w) \/ NothingToDo(w) \/ DequeueRaises(w)
      PROVE  PermitsAccounted'
  <2>1. \A v \in Workers : TasksOf(v)' = TasksOf(v)
    BY <1>1 DEF TakePermit, NothingToDo, DequeueRaises, TasksOf, Alive
  <2>2. \A v \in Workers : permits'[v] + Slots(v)' = permits[v] + Slots(v)
    BY <1>a, <1>1 DEF TakePermit, NothingToDo, DequeueRaises, Slots, Types
  <2>3. \A v \in Workers : permits'[v] \in Nat /\ Slots(v)' \in {0, 1}
    BY <1>a, <1>1 DEF TakePermit, NothingToDo, DequeueRaises, Slots, Types
  <2> QED
    BY <1>b, <1>c, <2>1, <2>2, <2>3
<1>2. ASSUME NEW w \in Workers, NEW j \in Jobs, Dequeue(w, j)
      PROVE  PermitsAccounted'
  <2> DEFINE new == <<j, attempts[j] + 1>>
  <2>1. /\ stage' = [stage EXCEPT ![new] = "handling"] /\ owner' = [owner EXCEPT ![new] = w]
        /\ loop[w] = "dequeuing" /\ loop' = [loop EXCEPT ![w] = "acquiring"] /\ permits' = permits
    BY <1>2 DEF Dequeue
  <2>2. new \in Tasks /\ ~Alive(new)
    <3>1. attempts[j] \in 0 .. MaxAttempts /\ (status[j] = "pending" => attempts[j] = 0)
      BY <1>a DEF OutboxInv, JobPart, Types
    <3>2. attempts[j] < MaxAttempts
      BY <1>2, <3>1, OutboxAssumption DEF Dequeue, Claim, Eligible
    <3>3. new \in Tasks /\ new[2] > attempts[new[1]]
      BY <3>1, <3>2, OutboxAssumption DEF Tasks
    <3> QED
      BY <1>a, <3>3 DEF TaskPart, Alive
  <2>3. TasksOf(w)' = TasksOf(w) \cup {new} /\ new \notin TasksOf(w)
    BY <1>a, <2>1, <2>2 DEF TasksOf, Alive, Types
  <2>4. \A v \in Workers \ {w} : TasksOf(v)' = TasksOf(v)
    BY <1>a, <2>1, <2>2 DEF TasksOf, Alive, Types
  <2>5. Cardinality(TasksOf(w)') = Cardinality(TasksOf(w)) + 1
    BY <1>b, <2>3, FS_AddElement
  <2>6. /\ Slots(w) = 1 /\ Slots(w)' = 0
        /\ \A v \in Workers \ {w} : Slots(v)' = Slots(v)
    BY <1>a, <2>1 DEF Slots, Types
  <2>7. permits'[w] + Cardinality(TasksOf(w)') + Slots(w)' = Permits
    BY <1>b, <2>1, <2>5, <2>6
  <2>8. \A v \in Workers \ {w} : permits'[v] + Cardinality(TasksOf(v)') + Slots(v)' = Permits
    BY <1>b, <2>1, <2>4, <2>6
  <2> QED
    BY <1>c, <2>7, <2>8
\* a task moves on
<1>3. ASSUME NEW t \in Tasks, Alive(t), NEW s \in Busy \cup {"backoff"}, Goto(t, s),
             UNCHANGED <<permits, owner, loop>>
      PROVE  PermitsAccounted'
  <2>1. \A v \in Workers : TasksOf(v)' = TasksOf(v)
    BY <1>a, <1>3 DEF Goto, TasksOf, Alive, Busy, Types
  <2> QED
    BY <1>b, <1>c, <1>3, <2>1 DEF Slots
\* a task ends
<1>4. ASSUME NEW t \in Tasks, Alive(t), TaskEnds(t), UNCHANGED <<owner, loop>>
      PROVE  PermitsAccounted'
  <2>0. PICK w \in Workers : owner[t] = w
    BY <1>a, <1>4 DEF TaskPart
  <2>1. stage' = [stage EXCEPT ![t] = "none"] /\ stage \in [Tasks -> {"none", "backoff"} \cup Busy]
        /\ owner' = owner
    BY <1>a, <1>4 DEF TaskEnds, Goto, Types
  <2>2. TasksOf(w)' = TasksOf(w) \ {t} /\ t \in TasksOf(w)
    BY <1>4, <2>1, <2>0 DEF TasksOf, Alive
  <2>3. \A v \in Workers \ {w} : TasksOf(v)' = TasksOf(v)
    BY <1>4, <2>1, <2>0 DEF TasksOf, Alive
  <2>4. Cardinality(TasksOf(w)') = Cardinality(TasksOf(w)) - 1
    BY <1>b, <2>0, <2>2, FS_RemoveElement
  <2>5. permits'[w] = permits[w] + 1 /\ \A v \in Workers \ {w} : permits'[v] = permits[v]
    BY <1>a, <1>4, <2>0 DEF TaskEnds, Types
  <2>6. \A v \in Workers : Slots(v)' = Slots(v)
    BY <1>4 DEF Slots
  <2>7. permits'[w] + Cardinality(TasksOf(w)') + Slots(w)' = Permits
    BY <1>b, <2>0, <2>4, <2>5, <2>6
  <2>8. \A v \in Workers \ {w} : permits'[v] + Cardinality(TasksOf(v)') + Slots(v)' = Permits
    BY <1>b, <2>3, <2>5, <2>6
  <2> QED
    BY <1>c, <2>7, <2>8
<1>5. ASSUME NEW t \in Tasks, Process(t) \/ MarkDoneRaises(t) \/ MarkFailedRaises(t)
      PROVE  PermitsAccounted'
  BY <1>3, <1>4, <1>5 DEF Process, HandlerReturns, HandlerRaises, MarkDone, MarkDoneRaises,
     MarkFailed, MarkFailedRaises, BackoffOver, Busy, Alive
<1>6. ASSUME NEW w \in Workers, Stop(w)
      PROVE  PermitsAccounted'
  <2>1. TasksOf(w)' = {} /\ \A v \in Workers \ {w} : TasksOf(v)' = TasksOf(v)
    BY <1>a, <1>6 DEF Stop, TasksOf, Alive, Types
  <2>2. permits'[w] = Permits /\ Slots(w)' = 0
    BY <1>a, <1>6 DEF Stop, Slots, Types
  <2>3. \A v \in Workers \ {w} : permits'[v] = permits[v] /\ Slots(v)' = Slots(v)
    BY <1>a, <1>6 DEF Stop, Slots, Types
  <2>4. permits'[w] + Cardinality(TasksOf(w)') + Slots(w)' = Permits
    BY <2>1, <2>2, FS_EmptySet, OutboxAssumption
  <2>5. \A v \in Workers \ {w} : permits'[v] + Cardinality(TasksOf(v)') + Slots(v)' = Permits
    BY <1>b, <2>1, <2>3
  <2> QED
    BY <1>c, <2>4, <2>5
<1>7. ASSUME NEW j \in Jobs, Enqueue(j)
      PROVE  PermitsAccounted'
  BY <1>7 DEF Enqueue, PermitsAccounted, Alive
<1>8. CASE UNCHANGED vars
  BY <1>8 DEF vars, PermitsAccounted, Alive
<1> QED
  BY <1>1, <1>2, <1>5, <1>6, <1>7, <1>8 DEF Next, Poll

(***************************************************************************)
(* No permit of a worker's semaphore is lost or made up.                   *)
(***************************************************************************)
THEOREM PermitsAccountedHolds == Spec => []PermitsAccounted
BY OutboxInvariant, PermitsInit, PermitsStep, PTL DEF Spec

(***************************************************************************)
(* The table, the tasks and the loops keep their types; the bound of the   *)
(* semaphore follows from the accounts.                                    *)
(***************************************************************************)
THEOREM OutboxTypeCorrect == Spec => []TypeOK
<1>1. OutboxInv /\ PermitsAccounted => TypeOK
  <2> SUFFICES ASSUME OutboxInv, PermitsAccounted
               PROVE  TypeOK
    OBVIOUS
  <2>1. Types
    BY DEF OutboxInv
  <2>2. \A w \in Workers : permits[w] \in 0 .. Permits
    <3> TAKE w \in Workers
    <3>1. permits[w] \in Nat /\ Cardinality(TasksOf(w)) \in Nat /\ Slots(w) \in {0, 1}
      BY <2>1, TasksFinite DEF Types, Slots
    <3>2. permits[w] + Cardinality(TasksOf(w)) + Slots(w) = Permits
      BY DEF PermitsAccounted, TasksOf, Slots
    <3> QED
      BY <3>1, <3>2, OutboxAssumption
  <2> QED
    BY <2>1, <2>2 DEF Types, TypeOK
<1> QED
  BY <1>1, OutboxInvariant, PermitsAccountedHolds, PTL

(***************************************************************************)
(* Two tasks, of any workers, never work on the same job at once.          *)
(***************************************************************************)
THEOREM NoConcurrentHandlingHolds == Spec => []NoConcurrentHandling
<1>1. OutboxInv => NoConcurrentHandling
  <2>1. \A t, u \in Tasks : t[1] = u[1] /\ t[2] = u[2] => t = u
    BY DEF Tasks
  <2> QED
    BY <2>1 DEF OutboxInv, TaskPart, NoConcurrentHandling
<1> QED
  BY <1>1, OutboxInvariant, PTL

(***************************************************************************)
(* A job is dead only with its attempts spent and failed only with some    *)
(* left, so a failed job is always found by a later dequeue.               *)
(***************************************************************************)
THEOREM RetryBudgetHolds == Spec => []RetryBudget
<1>1. OutboxInv => RetryBudget
  BY DEF OutboxInv, JobPart, RetryBudget, Eligible
<1> QED
  BY <1>1, OutboxInvariant, PTL

(***************************************************************************)
(* A job marked done succeeded; with no error of the store, only once.     *)
(***************************************************************************)
THEOREM DoneOnceHolds == Spec => []DoneOnce
<1>1. OutboxInv => DoneOnce
  BY DEF OutboxInv, Types, JobPart, OncePart, DoneOnce
<1> QED
  BY <1>1, OutboxInvariant, PTL
-----------------------------------------------------------------------------
(***************************************************************************)
(* The refinement.  Where a job is follows from its row and from its only  *)
(* task at work; a step of the outbox changes it for one job, or drops the *)
(* jobs of a process that stops.                                           *)
(***************************************************************************)
Places == [j \in Jobs |-> Place(j)]

Placed(j) ==
  /\ \A t \in Tasks : t[1] = j /\ stage[t] \in Busy =>
       Place(j) = IF stage[t] = "handling" THEN "out" ELSE "ended"
  /\ (\A t \in Tasks : t[1] = j => stage[t] \notin Busy) => Place(j) = AtRest[status[j]]

\* the place of a job with a task at work, and of one without
LEMMA PlaceOf == OutboxInv => \A j \in Jobs : Placed(j)
<1> SUFFICES ASSUME OutboxInv, NEW j \in Jobs PROVE Placed(j)
  OBVIOUS
<1>1. \A t, u \in Tasks : t[1] = u[1] /\ t[2] = u[2] => t = u
  BY DEF Tasks
<1>2. \A t, u \in Tasks : stage[t] \in Busy /\ stage[u] \in Busy /\ t[1] = u[1] => t = u
  BY <1>1 DEF OutboxInv, TaskPart
<1>3. ASSUME NEW t \in Tasks, t[1] = j, stage[t] \in Busy
      PROVE  Place(j) = IF stage[t] = "handling" THEN "out" ELSE "ended"
  <2>1. With(j, {"handling"}) <=> stage[t] = "handling"
    BY <1>2, <1>3 DEF With, Busy
  <2>2. With(j, {"marking", "failing"}) <=> stage[t] # "handling"
    BY <1>2, <1>3 DEF With, Busy
  <2> QED
    BY <2>1, <2>2 DEF Place
<1>4. ASSUME \A t \in Tasks : t[1] = j => stage[t] \notin Busy
      PROVE  Place(j) = AtRest[status[j]]
  <2>1. ~With(j, {"handling"}) /\ ~With(j, {"marking", "failing"})
    BY <1>4 DEF With, Busy
  <2> QED
    BY <2>1 DEF Place
<1> QED
  BY <1>3, <1>4 DEF Placed

\* and after a step
LEMMA PlaceOfNext == OutboxInv' => (\A j \in Jobs : Placed(j))'
  BY PlaceOf, PTL

\* a job whose row and tasks at work stay is where it was
LEMMA PlaceStays ==
  ASSUME NEW j \in Jobs, status'[j] = status[j],
         \A t \in Tasks : t[1] = j => stage'[t] = stage[t] \/ (stage[t] \notin Busy /\ stage'[t] \notin Busy)
  PROVE  Place(j)' = Place(j)
<1>1. ASSUME NEW s, s = {"handling"} \/ s = {"marking", "failing"} PROVE With(j, s)' <=> With(j, s)
  BY <1>1 DEF With, Busy
<1>2. With(j, {"handling"})' <=> With(j, {"handling"})
  BY <1>1
<1>3. With(j, {"marking", "failing"})' <=> With(j, {"marking", "failing"})
  BY <1>1
<1> QED
  BY <1>2, <1>3 DEF Place

\* one job changes its place
LEMMA PlaceMoves ==
  ASSUME NEW j \in Jobs, NEW from, NEW to, Place(j) = from, Place(j)' = to,
         \A i \in Jobs \ {j} : Place(i)' = Place(i)
  PROVE  Places[j] = from /\ Places' = [Places EXCEPT ![j] = to]
BY DEF Places

\* the job of a task that was at work, when the others' rows and tasks stay
LEMMA TaskMoves ==
  ASSUME OutboxInv, OutboxInv', NEW t \in Tasks, stage[t] \in Busy, NEW s,
         stage' = [stage EXCEPT ![t] = s], NEW v, status' = [status EXCEPT ![t[1]] = v]
  PROVE  LET from == IF stage[t] = "handling" THEN "out" ELSE "ended"
             to == IF s = "handling" THEN "out" ELSE IF s \in Busy THEN "ended" ELSE AtRest[v]
         IN  t[1] \in Jobs /\ Places[t[1]] = from /\ Places' = [Places EXCEPT ![t[1]] = to]
<1> DEFINE j == t[1]
           from == IF stage[t] = "handling" THEN "out" ELSE "ended"
           to == IF s = "handling" THEN "out" ELSE IF s \in Busy THEN "ended" ELSE AtRest[v]
<1>0. stage \in [Tasks -> {"none", "backoff"} \cup Busy] /\ status \in [Jobs -> {"none", "pending", "processing", "failed", "done", "dead"}]
  BY DEF OutboxInv, Types
<1>1. j \in Jobs /\ \A u \in Tasks : t[1] = u[1] /\ t[2] = u[2] => t = u
  BY DEF Tasks
<1>2. \A u \in Tasks \ {t} : u[1] = j => stage[u] \notin Busy
  BY <1>1 DEF OutboxInv, TaskPart
<1>3. stage'[t] = s /\ \A u \in Tasks \ {t} : stage'[u] = stage[u]
  BY <1>0
<1>4. status'[j] = v /\ \A i \in Jobs \ {j} : status'[i] = status[i]
  BY <1>0, <1>1
<1>5. Place(j) = from
  BY <1>1, PlaceOf DEF Placed
<1>6. Place(j)' = to
  <2>1. CASE s \in Busy
    <3>1. Place(j)' = IF stage'[t] = "handling" THEN "out" ELSE "ended"
      BY <1>1, <1>3, <2>1, PlaceOfNext DEF Placed
    <3> QED
      BY <1>3, <2>1, <3>1
  <2>2. CASE s \notin Busy
    <3>1. \A u \in Tasks : u[1] = j => stage'[u] \notin Busy
      BY <1>2, <1>3, <2>2
    <3>2. Place(j)' = AtRest[status'[j]]
      BY <1>1, <3>1, PlaceOfNext DEF Placed
    <3> QED
      BY <1>4, <2>2, <3>2 DEF Busy
  <2> QED
    BY <2>1, <2>2
<1>7. \A i \in Jobs \ {j} : Place(i)' = Place(i)
  BY <1>3, <1>4, PlaceStays
<1> QED
  BY <1>1, <1>5, <1>6, <1>7, PlaceMoves

\* a job that is claimed waits, and has an offer left
LEMMA ClaimedWaits ==
  ASSUME OutboxInv, NEW j \in Jobs, Claim(j)
  PROVE  /\ Place(j) = "waiting" /\ attempts[j] < MaxAttempts
         /\ \A t \in Tasks : t[1] = j => stage[t] \notin Busy
         /\ status' = [status EXCEPT ![j] = "processing"] /\ attempts' = [attempts EXCEPT ![j] = @ + 1]
<1>1. status[j] \in {"pending", "failed"} /\ (status[j] = "failed" => attempts[j] < MaxAttempts)
  BY DEF Claim, Eligible
<1>2. attempts[j] < MaxAttempts
  BY <1>1, OutboxAssumption DEF OutboxInv, JobPart, Types
<1>3. \A t \in Tasks : t[1] = j => stage[t] \notin Busy
  BY <1>1 DEF OutboxInv, TaskPart
<1>4. Place(j) = AtRest[status[j]]
  BY <1>3, PlaceOf DEF Placed
<1>5. Place(j) = "waiting"
  BY <1>1, <1>4 DEF AtRest
<1> QED
  BY <1>2, <1>3, <1>5 DEF Claim

\* every step of the outbox is one of the queue, or none
LEMMA QueueStep ==
  ASSUME OutboxInv, OutboxInv', [Next]_vars
  PROVE  [Queue!Next]_<<Places, attempts, successes>>
<1>0. /\ stage \in [Tasks -> {"none", "backoff"} \cup Busy]
      /\ status \in [Jobs -> {"none", "pending", "processing", "failed", "done", "dead"}]
      /\ \A t \in Tasks : t[1] \in Jobs
  BY DEF OutboxInv, Types, Tasks
<1> DEFINE Goal == [Queue!Next]_<<Places, attempts, successes>>
<1>1. ASSUME NEW j \in Jobs, Enqueue(j) PROVE Queue!Put(j)
  <2>1. status[j] = "none" /\ status' = [status EXCEPT ![j] = "pending"] /\ UNCHANGED <<stage, attempts, successes>>
    BY <1>1 DEF Enqueue
  <2>2. \A t \in Tasks : t[1] = j => stage[t] \notin Busy /\ stage'[t] \notin Busy
    BY <2>1 DEF OutboxInv, TaskPart
  <2>3. Place(j) = AtRest[status[j]] /\ Place(j)' = AtRest[status'[j]]
    BY <2>2, PlaceOf, PlaceOfNext DEF Placed
  <2>4. Place(j) = "absent" /\ Place(j)' = "waiting"
    BY <1>0, <2>1, <2>3 DEF AtRest
  <2>5. \A i \in Jobs \ {j} : Place(i)' = Place(i)
    BY <1>0, <2>1, PlaceStays
  <2>6. Places[j] = "absent" /\ Places' = [Places EXCEPT ![j] = "waiting"]
    BY <2>4, <2>5, PlaceMoves
  <2> QED
    BY <2>1, <2>6 DEF Queue!Put, Queue!Move, Places
<1>2. ASSUME NEW w \in Workers, NEW j \in Jobs, Dequeue(w, j) PROVE Queue!Offer(j)
  <2> DEFINE new == <<j, attempts[j] + 1>>
  <2>1. Claim(j) /\ successes' = successes /\ stage' = [stage EXCEPT ![new] = "handling"]
    BY <1>2 DEF Dequeue
  <2>2. /\ Place(j) = "waiting" /\ attempts[j] < MaxAttempts
        /\ status' = [status EXCEPT ![j] = "processing"] /\ attempts' = [attempts EXCEPT ![j] = @ + 1]
    BY <2>1, ClaimedWaits
  <2>3. new \in Tasks /\ new[1] = j
    BY <2>2, OutboxAssumption DEF OutboxInv, Types, Tasks
  <2>4. stage'[new] = "handling"
    BY <1>0, <2>1, <2>3
  <2>5. Place(j)' = "out"
    BY <2>3, <2>4, PlaceOfNext DEF Placed, Busy
  <2>6. \A i \in Jobs \ {j} : Place(i)' = Place(i)
    <3> SUFFICES ASSUME NEW i \in Jobs \ {j} PROVE Place(i)' = Place(i)
      OBVIOUS
    <3>1. status'[i] = status[i] /\ \A t \in Tasks : t[1] = i => stage'[t] = stage[t]
      BY <1>0, <2>1, <2>2, <2>3
    <3> QED
      BY <3>1, PlaceStays
  <2>7. Places[j] = "waiting" /\ Places' = [Places EXCEPT ![j] = "out"]
    BY <2>2, <2>5, <2>6, PlaceMoves
  <2> QED
    BY <2>1, <2>2, <2>7 DEF Queue!Offer, Queue!Move, Places
<1>3. ASSUME NEW w \in Workers, DequeueRaises(w) PROVE Goal
  <2>1. CASE UNCHANGED jobVars
    <3>1. UNCHANGED <<stage, status, attempts, successes>>
      BY <1>3, <2>1 DEF DequeueRaises, jobVars
    <3>2. Places' = Places
      BY <3>1, PlaceStays DEF Places
    <3> QED
      BY <3>1, <3>2
  <2>2. ASSUME NEW j \in Jobs, Claim(j) PROVE Queue!Offer(j)
    <3>1. stage' = stage /\ successes' = successes
      BY <1>3 DEF DequeueRaises
    <3>2. /\ Place(j) = "waiting" /\ attempts[j] < MaxAttempts
          /\ \A t \in Tasks : t[1] = j => stage'[t] \notin Busy
          /\ status' = [status EXCEPT ![j] = "processing"] /\ attempts' = [attempts EXCEPT ![j] = @ + 1]
      BY <2>2, <3>1, ClaimedWaits
    <3>3. Place(j)' = AtRest[status'[j]]
      BY <3>2, PlaceOfNext DEF Placed
    <3>4. Place(j)' = "lost"
      BY <1>0, <3>2, <3>3 DEF AtRest
    <3>5. \A i \in Jobs \ {j} : Place(i)' = Place(i)
      BY <1>0, <3>1, <3>2, PlaceStays
    <3>6. Places[j] = "waiting" /\ Places' = [Places EXCEPT ![j] = "lost"]
      BY <3>2, <3>4, <3>5, PlaceMoves
    <3> QED
      BY <3>1, <3>2, <3>6 DEF Queue!Offer, Queue!Move, Places
  <2> QED
    BY <1>3, <2>1, <2>2 DEF DequeueRaises, Queue!Next
<1>4. ASSUME NEW t \in Tasks PROVE status = [status EXCEPT ![t[1]] = status[t[1]]]
  BY <1>0
<1>5. ASSUME NEW t \in Tasks, HandlerReturns(t) PROVE Queue!Return(t[1])
  <2>1. /\ stage[t] = "handling" /\ stage' = [stage EXCEPT ![t] = "marking"]
        /\ status' = [status EXCEPT ![t[1]] = status[t[1]]]
        /\ successes' = [successes EXCEPT ![t[1]] = @ + 1] /\ attempts' = attempts
    BY <1>4, <1>5 DEF HandlerReturns, Goto, jobVars
  <2>2. Places[t[1]] = "out" /\ Places' = [Places EXCEPT ![t[1]] = "ended"]
    BY <2>1, TaskMoves DEF Busy
  <2> QED
    BY <2>1, <2>2 DEF Queue!Return, Queue!Move, Places
<1>6. ASSUME NEW t \in Tasks, HandlerRaises(t) PROVE Queue!Raise(t[1])
  <2>1. /\ stage[t] = "handling" /\ stage' = [stage EXCEPT ![t] = "failing"]
        /\ status' = [status EXCEPT ![t[1]] = status[t[1]]] /\ UNCHANGED <<successes, attempts>>
    BY <1>4, <1>6 DEF HandlerRaises, Goto, jobVars
  <2>2. Places[t[1]] = "out" /\ Places' = [Places EXCEPT ![t[1]] = "ended"]
    BY <2>1, TaskMoves DEF Busy
  <2> QED
    BY <2>1, <2>2 DEF Queue!Raise, Queue!Move, Places
\* the task gives up the job with v in its row
<1>7. ASSUME NEW t \in Tasks, stage[t] \in {"marking", "failing"}, NEW s \in {"none", "backoff"},
             stage' = [stage EXCEPT ![t] = s], NEW v, status' = [status EXCEPT ![t[1]] = v]
      PROVE  Places[t[1]] = "ended" /\ Places' = [Places EXCEPT ![t[1]] = AtRest[v]]
  BY <1>7, TaskMoves DEF Busy
<1>8. ASSUME NEW t \in Tasks, MarkDone(t) PROVE Queue!Conclude(t[1])
  <2>1. /\ stage[t] = "marking" /\ stage' = [stage EXCEPT ![t] = "none"]
        /\ status' = [status EXCEPT ![t[1]] = "done"] /\ UNCHANGED <<successes, attempts>>
    BY <1>8 DEF MarkDone, TaskEnds, Goto
  <2>2. Places[t[1]] = "ended" /\ Places' = [Places EXCEPT ![t[1]] = AtRest["done"]]
    BY <1>7, <2>1
  <2>3. AtRest["done"] = "done" /\ successes[t[1]] > 0
    BY <2>1 DEF AtRest, OutboxInv, TaskPart
  <2> QED
    BY <2>1, <2>2, <2>3 DEF Queue!Conclude, Queue!Move, Places
<1>9. ASSUME NEW t \in Tasks, MarkDoneRaises(t) PROVE UNCHANGED <<Places, attempts, successes>>
  <2>1. /\ stage[t] = "marking" /\ stage' = [stage EXCEPT ![t] = "failing"] /\ UNCHANGED <<successes, attempts>>
    BY <1>9 DEF MarkDoneRaises, Goto
  <2>2. PICK v : status' = [status EXCEPT ![t[1]] = v]
    BY <1>4, <1>9 DEF MarkDoneRaises
  <2>3. Places[t[1]] = "ended" /\ Places' = [Places EXCEPT ![t[1]] = "ended"]
    BY <2>1, <2>2, TaskMoves DEF Busy
  <2> QED
    BY <1>0, <2>1, <2>3 DEF Places
\* the row that mark_failed leaves
<1>10. ASSUME NEW t \in Tasks, stage[t] = "failing", NEW s \in {"none", "backoff"}, stage' = [stage EXCEPT ![t] = s],
              status' = [status EXCEPT ![t[1]] = Verdict(t[1])], UNCHANGED <<successes, attempts>>
       PROVE  Queue!Conclude(t[1])
  <2>1. Places[t[1]] = "ended" /\ Places' = [Places EXCEPT ![t[1]] = AtRest[Verdict(t[1])]]
    BY <1>7, <1>10
  <2>2. \/ AtRest[Verdict(t[1])] = "dead" /\ attempts[t[1]] = MaxAttempts
        \/ AtRest[Verdict(t[1])] = "waiting" /\ attempts[t[1]] < MaxAttempts
    <3>1. attempts[t[1]] \in 0 .. MaxAttempts /\ MaxAttempts \in Nat
      BY <1>0, OutboxAssumption DEF OutboxInv, Types
    <3>2. \/ Verdict(t[1]) = "dead" /\ attempts[t[1]] = MaxAttempts
          \/ Verdict(t[1]) = "failed" /\ attempts[t[1]] < MaxAttempts
      BY <3>1 DEF Verdict
    <3> QED
      BY <3>2 DEF AtRest
  <2> QED
    BY <1>10, <2>1, <2>2 DEF Queue!Conclude, Queue!Move, Places
<1>11. ASSUME NEW t \in Tasks, MarkFailed(t) PROVE Queue!Conclude(t[1])
  <2>1. /\ stage[t] = "failing" /\ status' = [status EXCEPT ![t[1]] = Verdict(t[1])]
        /\ UNCHANGED <<successes, attempts>>
        /\ \E s \in {"none", "backoff"} : stage' = [stage EXCEPT ![t] = s]
    BY <1>11 DEF MarkFailed, TaskEnds, Goto
  <2> QED
    BY <1>10, <2>1
<1>12. ASSUME NEW t \in Tasks, MarkFailedRaises(t) PROVE Goal
  <2>1. /\ stage[t] = "failing" /\ stage' = [stage EXCEPT ![t] = "none"] /\ UNCHANGED <<successes, attempts>>
    BY <1>12 DEF MarkFailedRaises, TaskEnds, Goto
  <2>2. CASE status' = [status EXCEPT ![t[1]] = Verdict(t[1])]
    <3>1. Queue!Conclude(t[1])
      BY <1>10, <2>1, <2>2
    <3> QED
      BY <1>0, <3>1 DEF Queue!Next
  <2>3. CASE status' = status
    <3>1. Places[t[1]] = "ended" /\ Places' = [Places EXCEPT ![t[1]] = AtRest[status[t[1]]]]
      BY <1>4, <1>7, <2>1, <2>3
    <3>2. status[t[1]] \in {"processing", "done"} /\ (status[t[1]] = "done" => successes[t[1]] > 0)
      BY <1>0, <2>1 DEF OutboxInv, TaskPart, JobPart, Busy
    <3>3. CASE status[t[1]] = "done"
      <4>1. Queue!Conclude(t[1])
        BY <2>1, <3>1, <3>2, <3>3 DEF AtRest, Queue!Conclude, Queue!Move, Places
      <4> QED
        BY <1>0, <4>1 DEF Queue!Next
    <3>4. CASE status[t[1]] = "processing"
      <4>1. Places' = [j \in Jobs |-> IF j \in {} THEN "done" ELSE IF j \in {t[1]} THEN "lost" ELSE Places[j]]
        BY <3>1, <3>4 DEF AtRest, Places
      <4>2. Queue!Drop({t[1]}, {})
        BY <1>0, <2>1, <3>1, <4>1 DEF Queue!Drop, Places
      <4> QED
        BY <1>0, <4>2 DEF Queue!Next
    <3> QED
      BY <3>2, <3>3, <3>4
  <2> QED
    BY <1>12, <2>2, <2>3 DEF MarkFailedRaises
<1>13. ASSUME NEW t \in Tasks, BackoffOver(t) PROVE UNCHANGED <<Places, attempts, successes>>
  <2>1. /\ stage[t] = "backoff" /\ stage' = [stage EXCEPT ![t] = "none"] /\ UNCHANGED <<status, successes, attempts>>
    BY <1>13 DEF BackoffOver, TaskEnds, Goto, jobVars
  <2>2. \A u \in Tasks : stage'[u] = stage[u] \/ (stage[u] \notin Busy /\ stage'[u] \notin Busy)
    BY <1>0, <2>1 DEF Busy
  <2> QED
    BY <2>1, <2>2, PlaceStays DEF Places
<1>14. ASSUME NEW w \in Workers, Stop(w) PROVE Goal
  <2> DEFINE Mine(j) == \E t \in Tasks : t[1] = j /\ stage[t] \in Busy /\ owner[t] = w
             dropped == {j \in Jobs : Mine(j)}
             done == {j \in dropped : status[j] = "done"}
  <2>1. /\ stage' = [t \in Tasks |-> IF owner[t] = w THEN "none" ELSE stage[t]]
        /\ UNCHANGED <<status, attempts, successes>>
    BY <1>14 DEF Stop, jobVars
  <2>2. ASSUME NEW j \in dropped
        PROVE  /\ Place(j) \in {"out", "ended"} /\ status[j] \in {"processing", "done"}
               /\ status[j] = "done" => Place(j) = "ended" /\ successes[j] > 0
               /\ Place(j)' = AtRest[status[j]]
    <3>1. PICK t \in Tasks : t[1] = j /\ stage[t] \in Busy /\ owner[t] = w
      BY <2>2
    <3>2. Place(j) = IF stage[t] = "handling" THEN "out" ELSE "ended"
      BY <3>1, PlaceOf DEF Placed
    <3>3. /\ status[j] \in {"processing", "done"} /\ (status[j] = "done" => successes[j] > 0)
          /\ stage[t] = "handling" => status[j] = "processing"
      BY <3>1 DEF OutboxInv, TaskPart, JobPart
    <3>4. \A u \in Tasks : u[1] = j => stage'[u] \notin Busy
      <4>1. \A u \in Tasks : u[1] = j /\ stage[u] \in Busy => u = t
        BY <3>1 DEF OutboxInv, TaskPart, Tasks
      <4> QED
        BY <2>1, <3>1, <4>1 DEF Busy
    <3>5. Place(j)' = AtRest[status'[j]]
      BY <3>4, PlaceOfNext DEF Placed
    <3> QED
      BY <2>1, <3>2, <3>3, <3>5
  <2>3. ASSUME NEW j \in Jobs \ dropped PROVE Place(j)' = Place(j)
    <3>1. \A t \in Tasks : t[1] = j => stage'[t] = stage[t] \/ (stage[t] \notin Busy /\ stage'[t] \notin Busy)
      BY <2>1, <2>3 DEF Busy
    <3> QED
      BY <2>1, <3>1, PlaceStays
  <2> HIDE DEF dropped
  <2>4. dropped \subseteq Jobs
    BY DEF dropped
  <2>5. Places' = [j \in Jobs |-> IF j \in done THEN "done" ELSE IF j \in dropped THEN "lost" ELSE Places[j]]
    <3> SUFFICES ASSUME NEW j \in Jobs
                 PROVE  Place(j)' = IF j \in done THEN "done" ELSE IF j \in dropped THEN "lost" ELSE Place(j)
      BY DEF Places
    <3> QED
      BY <2>2, <2>3 DEF AtRest
  <2>6. Queue!Drop(dropped, done)
    BY <2>1, <2>2, <2>4, <2>5 DEF Queue!Drop, Places
  <2> QED
    BY <2>4, <2>6 DEF Queue!Next
<1>15. ASSUME (\E w \in Workers : TakePermit(w) \/ NothingToDo(w)) \/ UNCHANGED vars
       PROVE  UNCHANGED <<Places, attempts, successes>>
  <2>1. UNCHANGED <<stage, status, attempts, successes>>
    BY <1>15 DEF TakePermit, NothingToDo, vars, jobVars
  <2> QED
    BY <2>1, PlaceStays DEF Places
<1>16. (\E t \in Tasks : Queue!Return(t[1]) \/ Queue!Raise(t[1]) \/ Queue!Conclude(t[1])) => Queue!Next
  BY <1>0 DEF Queue!Next
<1>17. (\E j \in Jobs : Queue!Put(j) \/ Queue!Offer(j)) => Queue!Next
  BY DEF Queue!Next
<1> QED
  BY <1>1, <1>2, <1>3, <1>5, <1>6, <1>8, <1>9, <1>11, <1>12, <1>13, <1>14, <1>15, <1>16, <1>17
     DEF Next, Poll, Process

(***************************************************************************)
(* The outbox implements the abstract queue: whatever the loops, permits,  *)
(* errors of the store and stops, a job is offered to one handler at a     *)
(* time and at most MaxAttempts times, done only after a handler returned, *)
(* given up only when its attempts are spent, and lost only from a handler *)
(* or on the way to one.                                                   *)
(***************************************************************************)
THEOREM OutboxImplementsQueue == Spec => ImplementsQueue
<1>1. Init => Queue!Init
  <2> SUFFICES ASSUME Init PROVE Queue!Init
    OBVIOUS
  <2>1. \A j \in Jobs : Place(j) = "absent"
    BY DEF Init, Place, With, AtRest
  <2> QED
    BY <2>1 DEF Init, Queue!Init
<1>2. OutboxInv /\ OutboxInv' /\ [Next]_vars => [Queue!Next]_(Queue!queueVars)
  BY QueueStep DEF Places, Queue!queueVars
<1> QED
  BY <1>1, <1>2, OutboxInvariant, PTL DEF Spec, ImplementsQueue, Queue!Spec
=============================================================================
