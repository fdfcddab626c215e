--------------------------- MODULE WorkspaceLock ----------------------------
(***************************************************************************)
(* The lock of one project's workspace, as LocalWorkspaceManager           *)
(* (infrastructure/codegen/workspace.py) and SqlAlchemyWorkspaceRepository *)
(* keep it: a set in the memory of each backend worker process and the     *)
(* is_locked / locked_at columns of the row in PostgreSQL.                 *)
(*                                                                         *)
(* A client is a task of a worker that uses the workspace under the lock   *)
(* (generation, deletion of a feature's code, validation, GitHub sync):    *)
(* it acquires, may create the workspace, may commit or roll back any      *)
(* number of times (each of which reads the row and writes all of it       *)
(* back), and releases in a `finally`.                                     *)
(***************************************************************************)
EXTENDS WorkspaceRow

CONSTANTS Workers,         \* uvicorn worker processes
          Tasks,           \* concurrent requests a worker may serve
          Registered,      \* TRUE: the workspace was created by an earlier run
          BoundedRuns      \* TRUE: nobody holds the lock longer than StaleAfter

ASSUME FlagsAssumption == Registered \in BOOLEAN /\ BoundedRuns \in BOOLEAN

Clients == Workers \X Tasks

VARIABLES
  row,      \* the row of table workspaces
  dir,      \* the project's directory exists on the shared volume
  mem,      \* mem[w]: the project is in _in_memory_locks of worker w
  pc,       \* pc[c]: where client c is in its use of the workspace
  created,  \* created[c]: created_new of the ensure_workspace c is in
  snap,     \* snap[c]: the row as commit/rollback_workspace read it
  held      \* held[c]: for how long c has had the lock

vars == <<row, dir, mem, pc, created, snap, held>>

States == {"idle", "locked", "ensuring", "working", "saving"}

TypeOK == /\ row \in Row
          /\ dir \in BOOLEAN
          /\ mem \in [Workers -> BOOLEAN]
          /\ pc \in [Clients -> States]
          /\ created \in [Clients -> BOOLEAN]
          /\ snap \in [Clients -> Row]
          /\ held \in [Clients -> 0 .. StaleAfter + 1]

Holding(c) == pc[c] # "idle"

Init == /\ row = IF Registered THEN RegisteredRow ELSE NoRow
        /\ dir = Registered
        /\ mem = [w \in Workers |-> FALSE]
        /\ pc = [c \in Clients |-> "idle"]
        /\ created = [c \in Clients |-> FALSE]
        /\ snap = [c \in Clients |-> NoRow]
        /\ held = [c \in Clients |-> 0]
-----------------------------------------------------------------------------
(***************************************************************************)
(* acquire_lock: both checks and both writes happen inside _lock_guard, so *)
(* no other acquire or release of the same worker comes between them, and  *)
(* the statement on the row is atomic for the other workers.  A refusal    *)
(* (WorkspaceLockedError) changes nothing.                                 *)
(***************************************************************************)
Mutant_RowIgnored(c) ==
  /\ pc[c] = "idle" /\ ~mem[c[1]]
  /\ row' = LockTaken(row)
  /\ mem' = [mem EXCEPT ![c[1]] = TRUE]
  /\ pc' = [pc EXCEPT ![c] = "locked"]
  /\ held' = [held EXCEPT ![c] = 0]
  /\ UNCHANGED <<dir, created, snap>>

Acquire(c) ==
  /\ pc[c] = "idle"
  /\ ~mem[c[1]]
  /\ Acquirable(row)
  /\ row' = LockTaken(row)
  /\ mem' = [mem EXCEPT ![c[1]] = TRUE]
  /\ pc' = [pc EXCEPT ![c] = "locked"]
  /\ held' = [held EXCEPT ![c] = 0]
  /\ UNCHANGED <<dir, created, snap>>

(***************************************************************************)
(* The task is cancelled inside acquire_lock after the UPDATE committed    *)
(* and before the in-memory set was written.  The callers acquire outside  *)
(* their try/finally, so nobody releases the row.                          *)
(***************************************************************************)
AcquireAbandoned(c) ==
  /\ pc[c] = "idle"
  /\ ~mem[c[1]]
  /\ Acquirable(row)
  /\ row' = LockTaken(row)
  /\ UNCHANGED <<dir, mem, pc, created, snap, held>>

(***************************************************************************)
(* ensure_workspace, first half: created_new is decided, the directory and *)
(* its files are made, git is initialised, dependencies are installed.     *)
(***************************************************************************)
EnsureDirectory(c) ==
  /\ pc[c] = "locked"
  /\ created' = [created EXCEPT ![c] = ~dir]
  /\ dir' = TRUE
  /\ pc' = [pc EXCEPT ![c] = "ensuring"]
  /\ UNCHANGED <<row, mem, snap, held>>

(***************************************************************************)
(* ensure_workspace, second half: a workspace that was there is returned   *)
(* as the row has it; a new one is saved, with is_locked taken from the    *)
(* in-memory set and no locked_at.                                         *)
(***************************************************************************)
Mutant_SavesEveryTime(c) ==
  /\ pc[c] = "ensuring"
  /\ row' = [exists |-> TRUE, locked |-> mem[c[1]], at |-> NoTime, path |-> TRUE]
  /\ pc' = [pc EXCEPT ![c] = "working"]
  /\ created' = [created EXCEPT ![c] = FALSE]
  /\ UNCHANGED <<dir, mem, snap, held>>

EnsureRow(c) ==
  /\ pc[c] = "ensuring"
  /\ row' = IF row.exists /\ ~created[c]
            THEN row
            ELSE [exists |-> TRUE, locked |-> mem[c[1]], at |-> NoTime, path |-> TRUE]
  /\ pc' = [pc EXCEPT ![c] = "working"]
  /\ created' = [created EXCEPT ![c] = FALSE]
  /\ UNCHANGED <<dir, mem, snap, held>>

(***************************************************************************)
(* get_workspace in place of ensure_workspace: the deletion and validation *)
(* use cases work on a workspace that exists and save nothing.             *)
(***************************************************************************)
UseExisting(c) ==
  /\ pc[c] = "locked"
  /\ row.path
  /\ pc' = [pc EXCEPT ![c] = "working"]
  /\ UNCHANGED <<row, dir, mem, created, snap, held>>

(***************************************************************************)
(* commit_workspace and rollback_workspace, after their git command: read  *)
(* the row (nothing more happens without one), then save every field of    *)
(* the copy, the lock's included.                                          *)
(***************************************************************************)
ReadRow(c) ==
  /\ pc[c] = "working"
  /\ row.exists
  /\ snap' = [snap EXCEPT ![c] = row]
  /\ pc' = [pc EXCEPT ![c] = "saving"]
  /\ UNCHANGED <<row, dir, mem, created, held>>

SaveRow(c) ==
  /\ pc[c] = "saving"
  /\ row' = snap[c]
  /\ snap' = [snap EXCEPT ![c] = NoRow]
  /\ pc' = [pc EXCEPT ![c] = "working"]
  /\ UNCHANGED <<dir, mem, created, held>>

(***************************************************************************)
(* The tasks in T end: what they had in local variables is gone.           *)
(***************************************************************************)
Ended(T) ==
  /\ pc' = [c \in Clients |-> IF c \in T THEN "idle" ELSE pc[c]]
  /\ created' = [c \in Clients |-> IF c \in T THEN FALSE ELSE created[c]]
  /\ snap' = [c \in Clients |-> IF c \in T THEN NoRow ELSE snap[c]]
  /\ held' = [c \in Clients |-> IF c \in T THEN 0 ELSE held[c]]
  /\ UNCHANGED dir

(***************************************************************************)
(* release_lock from the `finally`, which success, an exception and a      *)
(* cancellation reach from anywhere between acquire and the end.  No check *)
(* that the lock is still the caller's.                                    *)
(***************************************************************************)
Release(c) ==
  /\ Holding(c)
  /\ mem' = [mem EXCEPT ![c[1]] = FALSE]
  /\ row' = LockFreed(row)
  /\ Ended({c})

(***************************************************************************)
(* The same when the database statement fails: contextlib.suppress eats    *)
(* the error and the row stays locked.                                     *)
(***************************************************************************)
ReleaseLost(c) ==
  /\ Holding(c)
  /\ mem' = [mem EXCEPT ![c[1]] = FALSE]
  /\ Ended({c})
  /\ UNCHANGED row

(***************************************************************************)
(* A worker process dies and is started again: its tasks and its memory    *)
(* are gone, the row and the directory stay.                               *)
(***************************************************************************)
Crash(w) ==
  /\ mem' = [mem EXCEPT ![w] = FALSE]
  /\ Ended({w} \X Tasks)
  /\ UNCHANGED row

(***************************************************************************)
(* One unit of time passes.                                                *)
(***************************************************************************)
Tick ==
  /\ BoundedRuns => \A c \in Clients : Holding(c) => held[c] < StaleAfter
  /\ row' = Aged(row)
  /\ snap' = [c \in Clients |-> Aged(snap[c])]
  /\ held' = [c \in Clients |-> Older(held[c])]
  /\ UNCHANGED <<dir, mem, pc, created>>

Step(c) == \/ Acquire(c) \/ AcquireAbandoned(c)
           \/ EnsureDirectory(c) \/ EnsureRow(c) \/ UseExisting(c)
           \/ ReadRow(c) \/ SaveRow(c)
           \/ Release(c) \/ ReleaseLost(c)

Next == \/ \E c \in Clients : Step(c)
        \/ \E w \in Workers : Crash(w)
        \/ Tick

Spec == Init /\ [][Next]_vars

(***************************************************************************)
(* Time passes, and a client that got the lock reaches its `finally`: the  *)
(* code bounds every wait of a run (prompt, runner and HTTP timeouts).     *)
(***************************************************************************)
Fairness == WF_vars(Tick) /\ \A c \in Clients : WF_vars(Release(c))

FairSpec == Spec /\ Fairness
-----------------------------------------------------------------------------
(***************************************************************************)
(* README 9.1: "Si hay otra generacion en curso, se rechaza la operacion   *)
(* concurrente para evitar corrupcion de archivos."  Two tasks never have  *)
(* the workspace at the same time, on the same worker or on two.           *)
(***************************************************************************)
MutualExclusion ==
  \A c, d \in Clients : Holding(c) /\ Holding(d) => c = d

(***************************************************************************)
(* The in-memory set alone: two tasks of the same worker never have the    *)
(* workspace at the same time, whatever happens to the row.                *)
(***************************************************************************)
WorkerExclusion ==
  \A c, d \in Clients : Holding(c) /\ Holding(d) /\ c[1] = d[1] => c = d

(***************************************************************************)
(* While a client keeps the lock the row keeps saying so: no step of       *)
(* another client, and no stale copy saved by commit or rollback, unlocks  *)
(* it or makes it look free to take.                                       *)
(***************************************************************************)
HeldRowStaysLocked ==
  [][\A c \in Clients : Holding(c) /\ Holding(c)' => ~Acquirable(row')]_vars

(***************************************************************************)
(* A lock nobody holds any more (crash, lost release, abandoned acquire)   *)
(* does not block the project for ever: the lock can be taken again and    *)
(* again.                                                                  *)
(***************************************************************************)
AlwaysAcquirableAgain == []<>Acquirable(row)

(***************************************************************************)
(* The lock implements the abstract mutual exclusion of module Mutex.      *)
(***************************************************************************)
Abstract == INSTANCE Mutex WITH Tasks <- Clients,
                                inside <- {c \in Clients : Holding(c)}
ImplementsMutex == Abstract!Spec
=============================================================================
