---------------------------- MODULE OutboxQueue -----------------------------
(***************************************************************************)
(* The outbox: the table of deferred jobs (OutboxStore) and the polling    *)
(* loop with its tasks that every worker process runs (run_outbox_worker), *)
(* in infrastructure/persistence/postgres/outbox.py.                       *)
(*                                                                         *)
(* Jobs are numbered in the order of created_at.  A task is named by its   *)
(* job and the attempt it makes: dequeue counts attempts, so no two tasks  *)
(* ever have the same name.  Handlers end; how long they take, and when    *)
(* three failures are recent enough for the backoff, is left open.         *)
(***************************************************************************)
EXTENDS Naturals, FiniteSets

CONSTANTS Workers,         \* processes that run the loop
          Nobody,          \* the owner of a task that was never made
          MaxJobs,         \* bound: jobs ever enqueued
          MaxAttempts,     \* _MAX_ATTEMPTS
          Permits,         \* max_concurrency of a loop
          MaxErrors,       \* bound: statements of the store that fail
          MaxStops         \* bound: crashes and shutdowns of workers

ASSUME OutboxAssumption ==
  /\ Nobody \notin Workers
  /\ MaxJobs \in Nat /\ MaxAttempts \in Nat \ {0} /\ Permits \in Nat \ {0}
  /\ MaxErrors \in Nat /\ MaxStops \in Nat

Jobs == 1 .. MaxJobs
Tasks == Jobs \X (1 .. MaxAttempts)

VARIABLES
  status,     \* status[j]: column status ("none": no such row yet)
  attempts,   \* attempts[j]: column attempts
  stage,      \* stage[t]: where the task t is, "none" before and after
  owner,      \* owner[t]: the worker whose task it is
  loop,       \* loop[w]: the polling loop waits for a permit or dequeues
  permits,    \* permits[w]: value of the semaphore
  successes,  \* history: successes[j]: handlers of j that returned
  errors, stops

jobVars == <<status, attempts>>
bounds == <<errors, stops>>
vars == <<jobVars, stage, owner, loop, permits, successes, bounds>>

Busy == {"handling", "marking", "failing"}
Alive(t) == stage[t] # "none"

TypeOK ==
  /\ status \in [Jobs -> {"none", "pending", "processing", "failed", "done", "dead"}]
  /\ attempts \in [Jobs -> 0 .. MaxAttempts]
  /\ stage \in [Tasks -> {"none", "backoff"} \cup Busy]
  /\ owner \in [Tasks -> Workers \cup {Nobody}]
  /\ loop \in [Workers -> {"acquiring", "dequeuing"}]
  /\ permits \in [Workers -> 0 .. Permits]
  /\ successes \in [Jobs -> 0 .. MaxAttempts]
  /\ errors \in 0 .. MaxErrors
  /\ stops \in 0 .. MaxStops

Init ==
  /\ status = [j \in Jobs |-> "none"]
  /\ attempts = [j \in Jobs |-> 0]
  /\ stage = [t \in Tasks |-> "none"]
  /\ owner = [t \in Tasks |-> Nobody]
  /\ loop = [w \in Workers |-> "acquiring"]
  /\ permits = [w \in Workers |-> Permits]
  /\ successes = [j \in Jobs |-> 0]
  /\ errors = 0 /\ stops = 0
-----------------------------------------------------------------------------
Enqueue(j) ==
  /\ status[j] = "none"
  /\ status' = [status EXCEPT ![j] = "pending"]
  /\ UNCHANGED <<attempts, stage, owner, loop, permits, successes, bounds>>

(***************************************************************************)
(* The loop: a permit first, then the oldest job that is pending, or that  *)
(* failed and has attempts left.  FOR UPDATE SKIP LOCKED makes the choice  *)
(* and the change to processing one step for the other workers.            *)
(***************************************************************************)
TakePermit(w) ==
  /\ loop[w] = "acquiring" /\ permits[w] > 0
  /\ permits' = [permits EXCEPT ![w] = @ - 1]
  /\ loop' = [loop EXCEPT ![w] = "dequeuing"]
  /\ UNCHANGED <<jobVars, stage, owner, successes, bounds>>

Mutant_RetriesForEver(j) == status[j] \in {"pending", "processing", "failed"} /\ attempts[j] < MaxAttempts
Mutant_NoRetry(j) == status[j] = "pending"
Eligible(j) == \/ status[j] = "pending"
               \/ status[j] = "failed" /\ attempts[j] < MaxAttempts

Claim(j) ==
  /\ Eligible(j) /\ \A i \in Jobs : Eligible(i) => j <= i
  /\ status' = [status EXCEPT ![j] = "processing"]
  /\ attempts' = [attempts EXCEPT ![j] = @ + 1]

Dequeue(w, j) ==
  /\ loop[w] = "dequeuing"
  /\ Claim(j)
  /\ LET t == <<j, attempts[j] + 1>>
     IN stage' = [stage EXCEPT ![t] = "handling"] /\ owner' = [owner EXCEPT ![t] = w]
  /\ loop' = [loop EXCEPT ![w] = "acquiring"]
  /\ UNCHANGED <<permits, successes, bounds>>

NothingToDo(w) ==
  /\ loop[w] = "dequeuing" /\ \A j \in Jobs : ~Eligible(j)
  /\ permits' = [permits EXCEPT ![w] = @ + 1]
  /\ loop' = [loop EXCEPT ![w] = "acquiring"]
  /\ UNCHANGED <<jobVars, stage, owner, successes, bounds>>

\* dequeue raises before its commit, or after it: then nobody has the job
DequeueRaises(w) ==
  /\ loop[w] = "dequeuing" /\ errors < MaxErrors
  /\ \/ UNCHANGED jobVars
     \/ \E j \in Jobs : Claim(j)
  /\ permits' = [permits EXCEPT ![w] = @ + 1]
  /\ loop' = [loop EXCEPT ![w] = "acquiring"]
  /\ errors' = errors + 1
  /\ UNCHANGED <<stage, owner, successes, stops>>

(***************************************************************************)
(* _process_job.                                                           *)
(***************************************************************************)
Goto(t, s) == stage' = [stage EXCEPT ![t] = s]

TaskEnds(t) ==          \* its `finally`: semaphore.release()
  /\ Goto(t, "none")
  /\ permits' = [permits EXCEPT ![owner[t]] = @ + 1]

HandlerReturns(t) ==
  /\ stage[t] = "handling"
  /\ Goto(t, "marking")
  /\ successes' = [successes EXCEPT ![t[1]] = @ + 1]
  /\ UNCHANGED <<jobVars, owner, loop, permits, bounds>>

HandlerRaises(t) ==
  /\ stage[t] = "handling"
  /\ Goto(t, "failing")
  /\ UNCHANGED <<jobVars, owner, loop, permits, successes, bounds>>

Mutant_MarksPending(t) ==
  /\ stage[t] = "marking"
  /\ status' = [status EXCEPT ![t[1]] = "pending"]
  /\ TaskEnds(t)
  /\ UNCHANGED <<attempts, owner, loop, successes, bounds>>

MarkDone(t) ==
  /\ stage[t] = "marking"
  /\ status' = [status EXCEPT ![t[1]] = "done"]
  /\ TaskEnds(t)
  /\ UNCHANGED <<attempts, owner, loop, successes, bounds>>

(***************************************************************************)
(* mark_done raises, before or after its commit, inside the same `try` as  *)
(* the handler: the job is treated as failed.                              *)
(***************************************************************************)
MarkDoneRaises(t) ==
  /\ stage[t] = "marking" /\ errors < MaxErrors
  /\ status' \in {status, [status EXCEPT ![t[1]] = "done"]}
  /\ Goto(t, "failing")
  /\ errors' = errors + 1
  /\ UNCHANGED <<attempts, owner, loop, permits, successes, stops>>

(***************************************************************************)
(* mark_failed counts with the row's attempts; a task whose job may be     *)
(* tried again may sleep first, and keeps its permit while it does.        *)
(***************************************************************************)
Verdict(j) == IF attempts[j] >= MaxAttempts THEN "dead" ELSE "failed"

MarkFailed(t) ==
  /\ stage[t] = "failing"
  /\ status' = [status EXCEPT ![t[1]] = Verdict(t[1])]
  /\ \/ TaskEnds(t)
     \/ t[2] < MaxAttempts /\ Goto(t, "backoff") /\ UNCHANGED permits
  /\ UNCHANGED <<attempts, owner, loop, successes, bounds>>

MarkFailedRaises(t) ==
  /\ stage[t] = "failing" /\ errors < MaxErrors
  /\ status' \in {status, [status EXCEPT ![t[1]] = Verdict(t[1])]}
  /\ TaskEnds(t)
  /\ errors' = errors + 1
  /\ UNCHANGED <<attempts, owner, loop, successes, stops>>

BackoffOver(t) ==
  /\ stage[t] = "backoff"
  /\ TaskEnds(t)
  /\ UNCHANGED <<jobVars, owner, loop, successes, bounds>>

(***************************************************************************)
(* A worker dies, or shuts down: CancelledError passes the `except`s, so   *)
(* the rows of its jobs stay as they are.  It is started again.            *)
(***************************************************************************)
Stop(w) ==
  /\ stops < MaxStops
  /\ stops' = stops + 1
  /\ stage' = [t \in Tasks |-> IF owner[t] = w THEN "none" ELSE stage[t]]
  /\ loop' = [loop EXCEPT ![w] = "acquiring"]
  /\ permits' = [permits EXCEPT ![w] = Permits]
  /\ UNCHANGED <<jobVars, owner, successes, errors>>
-----------------------------------------------------------------------------
Poll(w) == \/ TakePermit(w) \/ NothingToDo(w)
           \/ \E j \in Jobs : Dequeue(w, j)

Process(t) == \/ HandlerReturns(t) \/ HandlerRaises(t)
              \/ MarkDone(t) \/ MarkFailed(t) \/ BackoffOver(t)

Next == \/ \E j \in Jobs : Enqueue(j)
        \/ \E w \in Workers : Poll(w) \/ DequeueRaises(w) \/ Stop(w)
        \/ \E t \in Tasks : Process(t) \/ MarkDoneRaises(t) \/ MarkFailedRaises(t)

Spec == Init /\ [][Next]_vars

(***************************************************************************)
(* The event loop runs every loop and task that is ready, and handlers     *)
(* return or raise.  Requests, errors and stops are not fair.              *)
(***************************************************************************)
Fairness == /\ \A w \in Workers : WF_vars(Poll(w))
            /\ \A t \in Tasks : WF_vars(Process(t))

FairSpec == Spec /\ Fairness
-----------------------------------------------------------------------------
(***************************************************************************)
(* Two tasks never work on the same job at the same time, whatever the     *)
(* number of loops, permits and retries, and though a failed job is        *)
(* eligible again while the task that failed it still sleeps.              *)
(***************************************************************************)
NoConcurrentHandling ==
  \A t, u \in Tasks : stage[t] \in Busy /\ stage[u] \in Busy /\ t[1] = u[1] => t = u

(***************************************************************************)
(* A job marked done was handled; without an error of the store, once: no  *)
(* retry, crash or shutdown handles it a second time.                      *)
(***************************************************************************)
DoneOnce ==
  \A j \in Jobs : /\ status[j] = "done" => successes[j] > 0
                  /\ errors = 0 => successes[j] <= 1

(***************************************************************************)
(* A job is given up (dead) only when its attempts are spent, and is never *)
(* left as failed with no attempt to go: no job lies in the table that no  *)
(* dequeue will take and no operator will see as dead.                     *)
(***************************************************************************)
RetryBudget ==
  \A j \in Jobs : /\ status[j] = "dead" => attempts[j] = MaxAttempts
                  /\ status[j] = "failed" => Eligible(j)

(***************************************************************************)
(* No permit of the semaphore is lost or made up: the loop cannot stall    *)
(* for ever nor run more than max_concurrency jobs.                        *)
(***************************************************************************)
PermitsAccounted ==
  \A w \in Workers :
    permits[w] + Cardinality({t \in Tasks : Alive(t) /\ owner[t] = w})
      + (IF loop[w] = "dequeuing" THEN 1 ELSE 0) = Permits

(***************************************************************************)
(* Every job is settled, unless its row was left in processing with nobody *)
(* working on it (a crash, a shutdown, or an error in mark_failed): that   *)
(* is the only way a job can be lost.                                      *)
(***************************************************************************)
Orphaned(j) == status[j] = "processing" /\ \A t \in Tasks : t[1] = j => ~Alive(t)

EventuallySettled ==
  \A j \in Jobs : status[j] = "pending" ~> status[j] \in {"done", "dead"} \/ Orphaned(j)
-----------------------------------------------------------------------------
(***************************************************************************)
(* The outbox implements the abstract queue of module JobQueue.  A job is  *)
(* with a handler while a task of it works; otherwise its row says where   *)
(* it is, and a row in processing on which nobody works is lost.           *)
(***************************************************************************)
AtRest == [none |-> "absent", pending |-> "waiting", failed |-> "waiting",
           processing |-> "lost", done |-> "done", dead |-> "dead"]

With(j, s) == \E t \in Tasks : t[1] = j /\ stage[t] \in s

Place(j) == IF With(j, {"handling"}) THEN "out"
            ELSE IF With(j, {"marking", "failing"}) THEN "ended"
            ELSE AtRest[status[j]]

Queue == INSTANCE JobQueue WITH MaxOffers <- MaxAttempts,
                                place <- [j \in Jobs |-> Place(j)],
                                offers <- attempts, returns <- successes
ImplementsQueue == Queue!Spec
=============================================================================
