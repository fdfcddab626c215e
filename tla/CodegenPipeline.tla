-------------------------- MODULE CodegenPipeline ---------------------------
(***************************************************************************)
(* The generation of the code of a project's features: the pipeline of     *)
(* GenerateFeatureImplementationUseCase and its services, the task that    *)
(* ImplementationEventBroker runs it in, and the recovery of zombies, on   *)
(* the workers that share one database, one Redis and one volume.          *)
(*                                                                         *)
(* It takes the lock as module WorkspaceLock has it, in the part of its    *)
(* state space where the row is registered and no lock is ever stale.      *)
(***************************************************************************)
EXTENDS WorkspaceRow, FiniteSets

CONSTANTS Workers, Features,
          Recoverers,      \* the workers whose recovery passes are modelled
          MaxAttempts,     \* max_retries of a request
          MaxStarts,       \* bound: requests to start a generation
          MaxCrashes,      \* bound: deaths of worker processes
          MaxStops,        \* bound: orderly shutdowns of worker processes
          MaxLapses,       \* bound: errors that contextlib.suppress swallows
          PromptChecks     \* TRUE: what a pass listed is still so when checked

ASSUME PipelineAssumption ==
  /\ Recoverers \subseteq Workers
  /\ MaxAttempts \in Nat \ {0} /\ MaxStarts \in Nat /\ MaxCrashes \in Nat
  /\ MaxStops \in Nat /\ MaxLapses \in Nat /\ PromptChecks \in BOOLEAN

Runs == Workers \X Features    \* the task for a feature on a worker

VARIABLES
  row,       \* the row of table workspaces
  mem,       \* mem[w]: the project is in _in_memory_locks of w
  impl,      \* impl[f]: status of row impl_<f> of feature_implementations
  active,    \* active[f]: Redis key kosmo:impl:impl_<f>:active
  worktree,  \* worktree[f]: uncommitted edits made for f
  head,      \* head[f]: what HEAD has of f
  pc,        \* pc[r]: where the task r is
  goal,      \* goal[r]: which ending r is in
  attempts,  \* attempts[r]: validations done by r
  snap,      \* snap[r]: the row as commit/rollback_workspace read it
  rpc,       \* rpc[w]: where the recovery pass of w is
  todo,      \* todo[w]: implementations listed and not yet visited
  cur,       \* cur[w]: implementation being recovered, as a set
  phase,     \* phase[w]: worker w boots, serves requests, or is stopping
  starts, crashes, stops, lapses

runVars == <<pc, goal, attempts, snap>>
recVars == <<rpc, todo, cur, phase>>
files   == <<worktree, head>>
bounds  == <<starts, crashes, stops, lapses>>
vars == <<row, mem, impl, active, files, runVars, recVars, bounds>>

Statuses == {"none", "in_progress", "implemented", "requires_review", "failed"}
Inside   == {"preparing", "registering", "planning", "building", "validating",
             "git", "read", "save", "status", "finishing", "closing"}

TypeOK ==
  /\ row \in Row
  /\ mem \in [Workers -> BOOLEAN]
  /\ impl \in [Features -> Statuses]
  /\ active \in [Features -> BOOLEAN]
  /\ worktree \in [Features -> {"clean", "unchecked", "valid"}]
  /\ head \in [Features -> {"absent", "unchecked", "valid"}]
  /\ pc \in [Runs -> {"idle", "starting", "ending"} \cup Inside]
  /\ goal \in [Runs -> {"none", "success", "review", "error"}]
  /\ attempts \in [Runs -> 0 .. MaxAttempts]
  /\ snap \in [Runs -> Row]
  /\ rpc \in [Workers -> {"idle", "checking", "releasing", "saving"}]
  /\ todo \in [Workers -> SUBSET Features]
  /\ cur \in [Workers -> SUBSET Features]
  /\ phase \in [Workers -> {"booting", "serving", "stopping"}]
  /\ starts \in 0 .. MaxStarts
  /\ crashes \in 0 .. MaxCrashes
  /\ stops \in 0 .. MaxStops
  /\ lapses \in 0 .. MaxLapses

Holding(r) == pc[r] \in Inside
Running(r) == pc[r] # "idle"       \* broker.is_running on r's worker
FirstPhase(w) == IF w \in Recoverers THEN "booting" ELSE "serving"

Init ==
  /\ row = RegisteredRow
  /\ mem = [w \in Workers |-> FALSE]
  /\ impl = [f \in Features |-> "none"]
  /\ active = [f \in Features |-> FALSE]
  /\ worktree = [f \in Features |-> "clean"]
  /\ head = [f \in Features |-> "absent"]
  /\ pc = [r \in Runs |-> "idle"]
  /\ goal = [r \in Runs |-> "none"]
  /\ attempts = [r \in Runs |-> 0]
  /\ snap = [r \in Runs |-> NoRow]
  /\ rpc = [w \in Workers |-> "idle"]
  /\ todo = [w \in Workers |-> {}]
  /\ cur = [w \in Workers |-> {}]
  /\ phase = [w \in Workers |-> FirstPhase(w)]
  /\ starts = 0 /\ crashes = 0 /\ stops = 0 /\ lapses = 0
-----------------------------------------------------------------------------
(***************************************************************************)
(* Helpers of the actions.                                                 *)
(***************************************************************************)
Goto(r, label) == pc' = [pc EXCEPT ![r] = label]

SaveImpl(f, status) == impl' = [impl EXCEPT ![f] = status]

Commit ==      \* git add . && git commit: all that is in the worktree
  /\ head' = [f \in Features |-> IF worktree[f] = "clean" THEN head[f] ELSE worktree[f]]
  /\ worktree' = [f \in Features |-> "clean"]

Rollback ==    \* git reset --hard HEAD && git clean -fd
  /\ worktree' = [f \in Features |-> "clean"]
  /\ UNCHANGED head
-----------------------------------------------------------------------------
(***************************************************************************)
(* POST /implementations: refused while this worker already runs the       *)
(* feature; otherwise the broker makes the task, which marks the run       *)
(* active in Redis.                                                        *)
(***************************************************************************)
Start(r) ==
  /\ phase[r[1]] = "serving" /\ ~Running(r) /\ starts < MaxStarts
  /\ Goto(r, "starting")
  /\ active' = [active EXCEPT ![r[2]] = TRUE]
  /\ starts' = starts + 1
  /\ UNCHANGED <<row, mem, impl, files, goal, attempts, snap, recVars, crashes, stops, lapses>>

(***************************************************************************)
(* acquire_lock, after the preconditions.                                  *)
(***************************************************************************)
Mutant_RowIgnored(r) ==
  /\ pc[r] = "starting" /\ ~mem[r[1]]
  /\ row' = LockTaken(row)
  /\ mem' = [mem EXCEPT ![r[1]] = TRUE]
  /\ Goto(r, "preparing")
  /\ UNCHANGED <<impl, active, files, goal, attempts, snap, recVars, bounds>>

Acquire(r) ==
  /\ pc[r] = "starting"
  /\ ~mem[r[1]] /\ Acquirable(row)
  /\ row' = LockTaken(row)
  /\ mem' = [mem EXCEPT ![r[1]] = TRUE]
  /\ Goto(r, "preparing")
  /\ UNCHANGED <<impl, active, files, goal, attempts, snap, recVars, bounds>>

(***************************************************************************)
(* A precondition fails, OpenCode is down, or WorkspaceLockedError: the    *)
(* pipeline raises before its try block.                                   *)
(***************************************************************************)
Refuse(r) ==
  /\ pc[r] = "starting"
  /\ Goto(r, "ending")
  /\ UNCHANGED <<row, mem, impl, active, files, goal, attempts, snap, recVars, bounds>>

(***************************************************************************)
(* ensure_workspace on an existing workspace: git add and git commit of    *)
(* whatever is in the directory, their failures suppressed; the row is     *)
(* returned as it is.                                                      *)
(***************************************************************************)
Prepare(r) ==
  /\ pc[r] = "preparing"
  /\ Commit \/ UNCHANGED files
  /\ Goto(r, "registering")
  /\ UNCHANGED <<row, mem, impl, active, goal, attempts, snap, recVars, bounds>>

(***************************************************************************)
(* The row of the implementation is created or reset; later the session    *)
(* and the plan are saved with it, from the copy the pipeline carries.     *)
(***************************************************************************)
Register(r) ==
  /\ pc[r] = "registering"
  /\ SaveImpl(r[2], "in_progress")
  /\ Goto(r, "planning")
  /\ UNCHANGED <<row, mem, active, files, goal, attempts, snap, recVars, bounds>>

Plan(r) ==
  /\ pc[r] = "planning"
  /\ SaveImpl(r[2], "in_progress")
  /\ Goto(r, "building")
  /\ UNCHANGED <<row, mem, active, files, goal, attempts, snap, recVars, bounds>>

(***************************************************************************)
(* The build prompt: the agent writes the feature's files.                 *)
(***************************************************************************)
Build(r) ==
  /\ pc[r] = "building"
  /\ worktree' = [worktree EXCEPT ![r[2]] = "unchecked"]
  /\ Goto(r, "validating")
  /\ UNCHANGED <<row, mem, impl, active, head, goal, attempts, snap, recVars, bounds>>

(***************************************************************************)
(* One turn of the validation loop.  The checks run on the whole           *)
(* workspace; the result is saved with the copy of the implementation; a   *)
(* failed attempt that is not the last sends a fix prompt.                 *)
(***************************************************************************)
ValidationTurn(r, limit) ==
  /\ pc[r] = "validating" /\ attempts[r] < limit
  /\ attempts' = [attempts EXCEPT ![r] = @ + 1]
  /\ SaveImpl(r[2], "in_progress")
  /\ \/ /\ worktree' = [f \in Features |->
                          IF worktree[f] = "unchecked" THEN "valid" ELSE worktree[f]]
        /\ Goto(r, "git")
        /\ goal' = [goal EXCEPT ![r] = "success"]
     \/ /\ attempts[r] + 1 < limit
        /\ worktree' = [worktree EXCEPT ![r[2]] = "unchecked"]
        /\ UNCHANGED <<pc, goal>>
     \/ /\ attempts[r] + 1 = limit
        /\ Goto(r, "git")
        /\ goal' = [goal EXCEPT ![r] = "review"]
        /\ UNCHANGED worktree
  /\ UNCHANGED <<row, mem, active, head, snap, recVars, bounds>>

Validate(r) == ValidationTurn(r, MaxAttempts)

(***************************************************************************)
(* handle_success commits; handle_failure and the `except` block roll      *)
(* back.  Both then read the row and save all of the copy.                 *)
(***************************************************************************)
Mutant_AlwaysRollsBack(r) ==
  /\ pc[r] = "git" /\ Rollback
  /\ Goto(r, "read")
  /\ UNCHANGED <<row, mem, impl, active, goal, attempts, snap, recVars, bounds>>

Mutant_ErrorKeepsFiles(r) ==
  /\ pc[r] = "git"
  /\ \/ goal[r] = "success" /\ Commit
     \/ goal[r] = "review" /\ Rollback
     \/ goal[r] = "error" /\ UNCHANGED files
  /\ Goto(r, "read")
  /\ UNCHANGED <<row, mem, impl, active, goal, attempts, snap, recVars, bounds>>

Git(r) ==
  /\ pc[r] = "git"
  /\ IF goal[r] = "success" THEN Commit ELSE Rollback
  /\ Goto(r, "read")
  /\ UNCHANGED <<row, mem, impl, active, goal, attempts, snap, recVars, bounds>>

ReadRow(r) ==
  /\ pc[r] = "read"
  /\ snap' = [snap EXCEPT ![r] = row]
  /\ Goto(r, "save")
  /\ UNCHANGED <<row, mem, impl, active, files, goal, attempts, recVars, bounds>>

SaveRow(r) ==
  /\ pc[r] = "save"
  /\ row' = snap[r]
  /\ snap' = [snap EXCEPT ![r] = NoRow]
  /\ Goto(r, "status")
  /\ UNCHANGED <<mem, impl, active, files, goal, attempts, recVars, bounds>>

(***************************************************************************)
(* The final status.  Only the `except` block looks at the row first.      *)
(***************************************************************************)
Mutant_FailsAnyway(r) ==
  /\ pc[r] = "status"
  /\ \/ goal[r] = "success" /\ SaveImpl(r[2], "implemented")
     \/ goal[r] = "review" /\ SaveImpl(r[2], "requires_review")
     \/ goal[r] = "error" /\ SaveImpl(r[2], "failed")
  /\ Goto(r, IF goal[r] = "error" THEN "closing" ELSE "finishing")
  /\ UNCHANGED <<row, mem, active, files, goal, attempts, snap, recVars, bounds>>

SaveStatus(r) ==
  /\ pc[r] = "status"
  /\ LET f == r[2] IN
     \/ goal[r] = "success" /\ SaveImpl(f, "implemented")
     \/ goal[r] = "review" /\ SaveImpl(f, "requires_review")
     \/ goal[r] = "error" /\ impl[f] = "in_progress" /\ SaveImpl(f, "failed")
     \/ goal[r] = "error" /\ impl[f] # "in_progress" /\ UNCHANGED impl
  /\ Goto(r, IF goal[r] = "error" THEN "closing" ELSE "finishing")
  /\ UNCHANGED <<row, mem, active, files, goal, attempts, snap, recVars, bounds>>

(***************************************************************************)
(* What follows the final status: GitHub sync, redeploy, traceability and  *)
(* the last event.  None of it touches this module's state, but it may     *)
(* still raise.                                                            *)
(***************************************************************************)
Finish(r) ==
  /\ pc[r] = "finishing"
  /\ Goto(r, "closing")
  /\ UNCHANGED <<row, mem, impl, active, files, goal, attempts, snap, recVars, bounds>>

(***************************************************************************)
(* The `finally` of the pipeline: close_session, stop_job, release_lock.   *)
(***************************************************************************)
Mutant_KeepsMemoryLock(r) ==
  /\ pc[r] = "closing"
  /\ row' = LockFreed(row)
  /\ Goto(r, "ending")
  /\ UNCHANGED <<mem, impl, active, files, goal, attempts, snap, recVars, bounds>>

Close(r) ==
  /\ pc[r] = "closing"
  /\ mem' = [mem EXCEPT ![r[1]] = FALSE]
  /\ row' = LockFreed(row)
  /\ Goto(r, "ending")
  /\ UNCHANGED <<impl, active, files, goal, attempts, snap, recVars, bounds>>

(***************************************************************************)
(* The `finally` of the broker's task: the Redis key goes, whoever set it. *)
(***************************************************************************)
End(r) ==
  /\ pc[r] = "ending"
  /\ active' = [active EXCEPT ![r[2]] = FALSE]
  /\ Goto(r, "idle")
  /\ goal' = [goal EXCEPT ![r] = "none"]
  /\ attempts' = [attempts EXCEPT ![r] = 0]
  /\ UNCHANGED <<row, mem, impl, files, snap, recVars, bounds>>

(***************************************************************************)
(* An exception anywhere in the try block (OpenCode, runner, database).    *)
(***************************************************************************)
Raise(r) ==
  /\ pc[r] \in Inside \ {"closing"} /\ goal[r] # "error"
  /\ Goto(r, "git")
  /\ goal' = [goal EXCEPT ![r] = "error"]
  /\ snap' = [snap EXCEPT ![r] = NoRow]
  /\ UNCHANGED <<row, mem, impl, active, files, attempts, recVars, bounds>>

(***************************************************************************)
(* The `except` and `finally` blocks suppress the errors of their own      *)
(* steps and go on: rollback_workspace (git's command, or the row's copy), *)
(* the save of FAILED, the UPDATE of release_lock.                         *)
(***************************************************************************)
Lapse(r) ==
  /\ lapses < MaxLapses
  /\ lapses' = lapses + 1
  /\ \/ /\ goal[r] = "error" /\ pc[r] \in {"git", "read", "save"}
        /\ Goto(r, "status")
        /\ snap' = [snap EXCEPT ![r] = NoRow]
        /\ UNCHANGED mem
     \/ /\ goal[r] = "error" /\ pc[r] = "status"
        /\ Goto(r, "closing")
        /\ UNCHANGED <<mem, snap>>
     \/ /\ pc[r] = "closing"
        /\ Goto(r, "ending")
        /\ mem' = [mem EXCEPT ![r[1]] = FALSE]
        /\ UNCHANGED snap
  /\ UNCHANGED <<row, impl, active, files, goal, attempts, recVars, starts, crashes, stops>>

(***************************************************************************)
(* The task's heartbeat, every 20 s, sets the key again.                   *)
(***************************************************************************)
Heartbeat(r) ==
  /\ pc[r] \in {"starting"} \cup Inside
  /\ ~active[r[2]]
  /\ active' = [active EXCEPT ![r[2]] = TRUE]
  /\ UNCHANGED <<row, mem, impl, files, runVars, recVars, bounds>>

(***************************************************************************)
(* The key's TTL of 90 s runs out: no task has set it for that long.       *)
(***************************************************************************)
Expire(f) ==
  /\ active[f] /\ \A w \in Workers : ~Running(<<w, f>>)
  /\ active' = [active EXCEPT ![f] = FALSE]
  /\ UNCHANGED <<row, mem, impl, files, runVars, recVars, bounds>>

(***************************************************************************)
(* The process of w is gone and is started again: the memory of its tasks  *)
(* with it.  A worker serves after its first recovery pass.                *)
(***************************************************************************)
Restarted(w) ==
  /\ mem' = [mem EXCEPT ![w] = FALSE]
  /\ pc' = [r \in Runs |-> IF r[1] = w THEN "idle" ELSE pc[r]]
  /\ goal' = [r \in Runs |-> IF r[1] = w THEN "none" ELSE goal[r]]
  /\ attempts' = [r \in Runs |-> IF r[1] = w THEN 0 ELSE attempts[r]]
  /\ snap' = [r \in Runs |-> IF r[1] = w THEN NoRow ELSE snap[r]]
  /\ rpc' = [rpc EXCEPT ![w] = "idle"]
  /\ todo' = [todo EXCEPT ![w] = {}]
  /\ cur' = [cur EXCEPT ![w] = {}]
  /\ phase' = [phase EXCEPT ![w] = FirstPhase(w)]
  /\ UNCHANGED <<row, impl, active, files, starts, stops, lapses>>

Crash(w) ==
  /\ crashes < MaxCrashes
  /\ crashes' = crashes + 1
  /\ Restarted(w)

(***************************************************************************)
(* An orderly shutdown cancels the recovery task and every task of the     *)
(* broker.  CancelledError is no Exception: a pipeline goes straight to    *)
(* its `finally`, and one that was in it leaves it, for the suppress       *)
(* around close_session and stop_job lets it through.                      *)
(***************************************************************************)
Cancelled(label) == CASE label = "idle" -> "idle"
                      [] label \in Inside \ {"closing"} -> "closing"
                      [] label \in {"starting", "closing", "ending"} -> "ending"

Shutdown(w) ==
  /\ phase[w] # "stopping" /\ stops < MaxStops
  /\ stops' = stops + 1
  /\ phase' = [phase EXCEPT ![w] = "stopping"]
  /\ pc' = [r \in Runs |-> IF r[1] = w THEN Cancelled(pc[r]) ELSE pc[r]]
  /\ snap' = [r \in Runs |-> IF r[1] = w THEN NoRow ELSE snap[r]]
  /\ rpc' = [rpc EXCEPT ![w] = "idle"]
  /\ todo' = [todo EXCEPT ![w] = {}]
  /\ cur' = [cur EXCEPT ![w] = {}]
  /\ UNCHANGED <<row, mem, impl, active, files, goal, attempts, starts, crashes, lapses>>

(***************************************************************************)
(* broker.aclose() does not wait for the tasks it cancelled: the process   *)
(* ends with what is left of them undone.                                  *)
(***************************************************************************)
Exit(w) ==
  /\ phase[w] = "stopping"
  /\ Restarted(w)
  /\ UNCHANGED crashes
-----------------------------------------------------------------------------
(***************************************************************************)
(* recover_zombie_implementations, at startup and every 100 s: list the    *)
(* implementations in progress, then visit each.                           *)
(***************************************************************************)
Mutant_OnlyAtBoot(w) ==
  /\ w \in Recoverers /\ rpc[w] = "idle" /\ phase[w] = "booting"
  /\ rpc' = [rpc EXCEPT ![w] = "checking"]
  /\ todo' = [todo EXCEPT ![w] = {f \in Features : impl[f] = "in_progress"}]
  /\ UNCHANGED <<row, mem, impl, active, files, runVars, cur, phase, bounds>>

List(w) ==
  /\ w \in Recoverers /\ rpc[w] = "idle" /\ phase[w] # "stopping"
  /\ rpc' = [rpc EXCEPT ![w] = "checking"]
  /\ todo' = [todo EXCEPT ![w] = {f \in Features : impl[f] = "in_progress"}]
  /\ UNCHANGED <<row, mem, impl, active, files, runVars, cur, phase, bounds>>

(***************************************************************************)
(* is_active, that is broker.is_running_distributed: a local task, or the  *)
(* key in Redis.  Under PromptChecks an implementation that ended since it *)
(* was listed is passed over too; the code does not look again.            *)
(***************************************************************************)
Mutant_NobodyAsked(w, f) == FALSE
IsActive(w, f) == Running(<<w, f>>) \/ active[f]
PassedOver(w, f) == IsActive(w, f) \/ (PromptChecks /\ impl[f] # "in_progress")

Check(w, f) ==
  /\ rpc[w] = "checking" /\ f \in todo[w]
  /\ todo' = [todo EXCEPT ![w] = @ \ {f}]
  /\ \/ PassedOver(w, f) /\ UNCHANGED <<rpc, cur>>
     \/ /\ ~PassedOver(w, f)
        /\ rpc' = [rpc EXCEPT ![w] = "releasing"]
        /\ cur' = [cur EXCEPT ![w] = {f}]
  /\ UNCHANGED <<row, mem, impl, active, files, runVars, phase, bounds>>

(***************************************************************************)
(* close_session (a call that may take its time), then release_lock of the *)
(* project, whoever has the lock.                                          *)
(***************************************************************************)
FreeLock(w) ==
  /\ rpc[w] = "releasing"
  /\ mem' = [mem EXCEPT ![w] = FALSE]
  /\ row' = LockFreed(row)
  /\ rpc' = [rpc EXCEPT ![w] = "saving"]
  /\ UNCHANGED <<impl, active, files, runVars, todo, cur, phase, bounds>>

(***************************************************************************)
(* FAILED is written over whatever the row says by now.                    *)
(***************************************************************************)
MarkFailed(w) ==
  /\ rpc[w] = "saving"
  /\ impl' = [f \in Features |-> IF f \in cur[w] THEN "failed" ELSE impl[f]]
  /\ rpc' = [rpc EXCEPT ![w] = "checking"]
  /\ cur' = [cur EXCEPT ![w] = {}]
  /\ UNCHANGED <<row, mem, active, files, runVars, todo, phase, bounds>>

PassDone(w) ==
  /\ rpc[w] = "checking" /\ todo[w] = {}
  /\ rpc' = [rpc EXCEPT ![w] = "idle"]
  /\ phase' = [phase EXCEPT ![w] = "serving"]
  /\ UNCHANGED <<row, mem, impl, active, files, runVars, todo, cur, bounds>>
(***************************************************************************)
(* Errors of a pass: the listing fails and there is no pass; the check or  *)
(* the save of one implementation fails and the pass goes on to the next;  *)
(* the UPDATE of release_lock fails unseen, its memory half being done.    *)
(***************************************************************************)
RecoveryLapse(w) ==
  /\ w \in Recoverers /\ lapses < MaxLapses
  /\ lapses' = lapses + 1
  /\ \/ /\ rpc[w] = "idle" /\ phase[w] = "booting"
        /\ phase' = [phase EXCEPT ![w] = "serving"]
        /\ UNCHANGED <<mem, rpc, todo, cur>>
     \/ /\ rpc[w] = "checking"
        /\ \E f \in todo[w] : todo' = [todo EXCEPT ![w] = @ \ {f}]
        /\ UNCHANGED <<mem, rpc, cur, phase>>
     \/ /\ rpc[w] = "releasing"
        /\ mem' = [mem EXCEPT ![w] = FALSE]
        /\ rpc' = [rpc EXCEPT ![w] = "saving"]
        /\ UNCHANGED <<todo, cur, phase>>
     \/ /\ rpc[w] = "saving"
        /\ rpc' = [rpc EXCEPT ![w] = "checking"]
        /\ cur' = [cur EXCEPT ![w] = {}]
        /\ UNCHANGED <<mem, todo, phase>>
  /\ UNCHANGED <<row, impl, active, files, runVars, starts, crashes, stops>>
-----------------------------------------------------------------------------
Pipeline(r) == \/ Acquire(r) \/ Refuse(r) \/ Prepare(r) \/ Register(r) \/ Plan(r)
               \/ Build(r) \/ Validate(r) \/ Git(r) \/ ReadRow(r) \/ SaveRow(r)
               \/ SaveStatus(r) \/ Finish(r) \/ Close(r) \/ End(r)

Recovery(w) == \/ List(w) \/ FreeLock(w) \/ MarkFailed(w) \/ PassDone(w)
               \/ \E f \in Features : Check(w, f)

Next == \/ \E r \in Runs : Start(r) \/ Pipeline(r) \/ Raise(r) \/ Lapse(r) \/ Heartbeat(r)
        \/ \E f \in Features : Expire(f)
        \/ \E w \in Workers : Crash(w) \/ Shutdown(w) \/ Exit(w)
                             \/ Recovery(w) \/ RecoveryLapse(w)

Spec == Init /\ [][Next]_vars

(***************************************************************************)
(* A live task goes on (every await of it has a timeout), Redis expires    *)
(* keys, the recovery task of a live worker keeps passing, a worker that   *)
(* stops does stop.  Requests, exceptions, lapses, shutdowns and crashes   *)
(* are not fair.                                                           *)
(***************************************************************************)
Fairness == /\ \A r \in Runs : WF_vars(Pipeline(r))
            /\ \A f \in Features : WF_vars(Expire(f))
            /\ \A w \in Workers : WF_vars(Recovery(w)) /\ WF_vars(Exit(w))

FairSpec == Spec /\ Fairness
-----------------------------------------------------------------------------
(***************************************************************************)
(* README 9.1: a concurrent generation on the project is refused.          *)
(***************************************************************************)
MutualExclusion == \A r, s \in Runs : Holding(r) /\ Holding(s) => r = s

(***************************************************************************)
(* An implementation is reported as implemented only if its code is in     *)
(* HEAD: nobody else's rollback took it away between validation and commit *)
(***************************************************************************)
ImplementedIsCommitted ==
  \A f \in Features : impl[f] = "implemented" => head[f] = "valid"

(***************************************************************************)
(* A generation that fails leaves nothing of itself behind: when its final *)
(* status is saved the feature's files are as HEAD has them, and if some   *)
(* rollback failed unseen, at least those left for review are.             *)
(***************************************************************************)
Fails(f) == /\ impl[f] = "in_progress"
            /\ \/ impl'[f] = "requires_review"
               \/ impl'[f] = "failed" /\ lapses = 0

FailureLeavesNothing ==
  [][\A f \in Features : Fails(f) => worktree[f] = "clean"]_vars

(***************************************************************************)
(* The recovery marks what is orphaned: an implementation that ended well  *)
(* changes status only when it is generated again.                         *)
(***************************************************************************)
FinishedStaysFinished ==
  [][\A f \in Features :
       impl[f] = "implemented" => impl'[f] \in {"implemented", "in_progress"}]_vars

(***************************************************************************)
(* Recovery passes disturb nobody who works: with them, too, one task has  *)
(* the project and what is implemented is in HEAD, as long as no error was *)
(* swallowed that leaves an implementation IN_PROGRESS behind, and no      *)
(* second crash came between a pass's release of a lock and its FAILED.    *)
(***************************************************************************)
FewErrors == lapses = 0 /\ crashes <= 1

RecoveryDisturbsNobody ==
  FewErrors => MutualExclusion /\ ImplementedIsCommitted

(***************************************************************************)
(* README 9.2: after a forced restart the recovery takes every             *)
(* implementation out of IN_PROGRESS.                                      *)
(***************************************************************************)
NobodyStaysInProgress ==
  \A f \in Features : impl[f] = "in_progress" ~> impl[f] # "in_progress"

(***************************************************************************)
(* A memory lock is never left behind by the task that took it: it would   *)
(* refuse the project on that worker until the next restart.  (A worker    *)
(* that is stopping will not be asked.)                                    *)
(***************************************************************************)
NoLeakedMemoryLock ==
  \A w \in Workers : mem[w] => \/ phase[w] = "stopping"
                               \/ \E f \in Features : Holding(<<w, f>>)
-----------------------------------------------------------------------------
(***************************************************************************)
(* Why the properties above hold: what the holder of the lock may count    *)
(* on, what each phase of the pipeline has established, and that no pass   *)
(* of the recovery is in between.                                          *)
(***************************************************************************)
LockPart ==
  /\ \A r \in Runs : Holding(r) => ~Acquirable(row)
  /\ \A r \in Runs : pc[r] = "save" => ~Acquirable(snap[r])

Concluding(r, goals) == pc[r] \in {"git", "read", "save", "status"} /\ goal[r] \in goals
Concluded(r, goals)  == pc[r] # "git" /\ Concluding(r, goals)

PhasePart ==
  \A r \in Runs :
    /\ pc[r] \in {"idle", "starting", "preparing", "registering",
                  "planning", "building", "validating"} => goal[r] = "none"
    /\ pc[r] \in {"git", "read", "save", "status", "finishing"} => goal[r] # "none"
    /\ \/ pc[r] \in {"planning", "building", "validating"}
       \/ Concluding(r, {"success", "review"})
       => impl[r[2]] # "implemented"
    /\ pc[r] = "validating" => worktree[r[2]] = "unchecked"
    /\ pc[r] = "git" /\ goal[r] = "success" => worktree[r[2]] = "valid"
    /\ Concluded(r, {"success"}) => head[r[2]] = "valid"
    /\ Concluded(r, {"success", "review"}) \/ (lapses = 0 /\ Concluded(r, {"error"}))
       => \A f \in Features : worktree[f] = "clean"

FilesPart ==
  \A f \in Features :
    impl[f] = "implemented" => head[f] = "valid" /\ worktree[f] # "unchecked"

WorkInv == LockPart /\ MutualExclusion /\ PhasePart /\ FilesPart

PipelineInv == WorkInv /\ NoLeakedMemoryLock /\ \A w \in Workers : rpc[w] = "idle"
-----------------------------------------------------------------------------
(***************************************************************************)
(* Why a recovery pass disturbs nobody.  An orphan is an implementation    *)
(* that is IN_PROGRESS without a task that will end it.  There is one at   *)
(* most; until a pass releases the lock its task had, nobody gets in, and  *)
(* what a pass is about to release is that lock.                           *)
(***************************************************************************)
Orphan(f) == /\ impl[f] = "in_progress"
             /\ \A w \in Workers : pc[<<w, f>>] \notin Inside \ {"closing"}

OrphanPart ==
  /\ crashes = 0 => \A f \in Features : ~Orphan(f)
  /\ \A f, g \in Features : Orphan(f) /\ Orphan(g) => f = g
  /\ \A w \in Workers, f \in Features : Orphan(f) /\ rpc[w] # "saving" =>
       ~Acquirable(row) /\ \A r \in Runs : ~Holding(r)

PassPart ==
  \A w \in Workers :
    /\ rpc[w] = "releasing" => \E f \in Features : cur[w] = {f} /\ Orphan(f)
    /\ rpc[w] = "saving" => crashes > 0 /\ \A f \in Features : Orphan(f) => f \in cur[w]

EndedPart == \A r \in Runs : pc[r] = "finishing" => impl[r[2]] # "in_progress"

RecoveryInv ==
  /\ \A w \in Workers : phase[w] # "stopping"
  /\ FewErrors => WorkInv /\ OrphanPart /\ PassPart /\ EndedPart
=============================================================================
