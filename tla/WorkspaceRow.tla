---------------------------- MODULE WorkspaceRow ----------------------------
(***************************************************************************)
(* The row of table `workspaces` that belongs to one project, and the      *)
(* single SQL statements the repository runs on it                         *)
(* (infrastructure/persistence/postgres/repositories/workspace_repo.py).   *)
(*                                                                         *)
(* A timestamp is represented by its AGE in units of the model's clock.    *)
(* The code only ever asks whether locked_at < now - LOCK_STALE_AFTER, so  *)
(* ages saturate one unit past the threshold: nothing older can be told    *)
(* apart, and the state space stays finite without a bound on time.        *)
(*                                                                         *)
(* A definition Mutant_<what> is a wrong version of the one that follows   *)
(* it; the runs use it to show that their properties can fail.             *)
(***************************************************************************)
EXTENDS Integers

CONSTANT StaleAfter        \* LOCK_STALE_AFTER_MINUTES, in clock units

ASSUME StaleAfterAssumption == StaleAfter \in Nat

NoTime == -1               \* locked_at IS NULL
Age == NoTime .. StaleAfter + 1

Row == [exists : BOOLEAN,  \* the row is in the table
        locked : BOOLEAN,  \* is_locked
        at     : Age,      \* age of locked_at
        path   : BOOLEAN]  \* path # "": the workspace directory is recorded

NoRow == [exists |-> FALSE, locked |-> FALSE, at |-> NoTime, path |-> FALSE]
RegisteredRow == [exists |-> TRUE, locked |-> FALSE, at |-> NoTime, path |-> TRUE]

(***************************************************************************)
(* update_lock(is_locked=True): the conditional UPDATE matches an unlocked *)
(* row, a row without locked_at or a stale one; a missing row is INSERTed  *)
(* locked, with an empty path.  Otherwise it returns None and the caller   *)
(* raises WorkspaceLockedError.                                            *)
(***************************************************************************)
Stale(at) == at > StaleAfter

Mutant_NeverStale(r) == ~r.exists \/ ~r.locked \/ r.at = NoTime
Acquirable(r) == \/ ~r.exists
                 \/ ~r.locked
                 \/ r.at = NoTime
                 \/ Stale(r.at)

LockTaken(r) == [r EXCEPT !.exists = TRUE, !.locked = TRUE, !.at = 0]

(***************************************************************************)
(* update_lock(is_locked=False): unconditional, whoever holds the lock.    *)
(***************************************************************************)
LockFreed(r) == IF r.exists THEN [r EXCEPT !.locked = FALSE, !.at = NoTime]
                            ELSE r

(***************************************************************************)
(* The passage of one clock unit.                                          *)
(***************************************************************************)
Older(at) == IF at = NoTime \/ Stale(at) THEN at ELSE at + 1
Aged(r) == [r EXCEPT !.at = Older(@)]
=============================================================================
