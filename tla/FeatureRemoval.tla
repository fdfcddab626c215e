---------------------------- MODULE FeatureRemoval ----------------------------
(***************************************************************************)
(* Deletion of a feature: its rows (DeleteFeatureUseCase), then, in the    *)
(* background, its code (DeleteFeatureCodeUseCase): remove the files,      *)
(* commit, validate, let the agent repair, and revert when it cannot.      *)
(* The pipeline of another feature is the environment: it commits what it  *)
(* validated, or rolls back to HEAD.                                       *)
(*                                                                         *)
(* Content of the repository: the features it has code of, and whether the *)
(* application passes its validations.                                     *)
(***************************************************************************)
EXTENDS Naturals, FiniteSets

CONSTANTS RemovalFeatures, Free, Pipeline,
          MaxFixes,   \* max_fix_attempts, 2 in the code
          MaxLapses   \* bound: commands that raise, and deaths of the worker

ASSUME RemovalAssumption ==
  /\ MaxFixes \in Nat /\ MaxLapses \in Nat
  /\ Free \notin RemovalFeatures /\ Pipeline \notin RemovalFeatures

VARIABLES
  featureRows,    \* features with a row; their implementation goes with it (cascade)
  implRows,       \* implementation records
  workspaceLock,  \* the workspace lock: Free, a pipeline's, or the feature being removed
  head, tree,
  removal,        \* removal[f]: stage, repairs tried, what it found
  lapses

removalVars == <<featureRows, implRows, workspaceLock, head, tree, removal, lapses>>

Content == [has : SUBSET RemovalFeatures, works : BOOLEAN]
Empty == [has |-> {}, works |-> TRUE]
Stages == {"none", "rows", "queued", "removing", "committing", "validating", "repairing",
           "reverting", "done", "reverted", "refused", "raised"}

RemovalTypeOK ==
  /\ featureRows \subseteq RemovalFeatures /\ implRows \subseteq featureRows
  /\ workspaceLock \in RemovalFeatures \cup {Free} \cup ({Pipeline} \X RemovalFeatures)
  /\ head \in Content /\ tree \in Content
  /\ removal \in [RemovalFeatures -> [stage : Stages, fixes : 0 .. MaxFixes, worked : BOOLEAN]]
  /\ lapses \in 0 .. MaxLapses

RemovalInit ==
  /\ featureRows = RemovalFeatures /\ implRows = {} /\ workspaceLock = Free
  /\ head = Empty /\ tree = Empty
  /\ removal = [f \in RemovalFeatures |-> [stage |-> "none", fixes |-> 0, worked |-> TRUE]]
  /\ lapses = 0

RemovalAt(f, s) == removal[f].stage = s
Goto(f, s) == removal' = [removal EXCEPT ![f].stage = s]
Lapse == lapses < MaxLapses /\ lapses' = lapses + 1
-----------------------------------------------------------------------------
(***************************************************************************)
(* The pipeline of a feature that has its row.                             *)
(***************************************************************************)
Builds(f) == workspaceLock = <<Pipeline, f>>

PipelineStarts(f) == /\ workspaceLock = Free /\ f \in featureRows
                     /\ workspaceLock' = <<Pipeline, f>>
                     /\ UNCHANGED <<featureRows, implRows, head, tree, removal, lapses>>

\* it commits first; its row may be gone by then, and the save fails
PipelineSucceeds(f) ==
  /\ Builds(f)
  /\ tree' = [has |-> tree.has \cup {f}, works |-> TRUE] /\ head' = tree'
  /\ implRows' = implRows \cup ({f} \cap featureRows)
  /\ workspaceLock' = Free
  /\ UNCHANGED <<featureRows, removal, lapses>>

PipelineFails(f) ==
  /\ Builds(f)
  /\ tree' = head /\ workspaceLock' = Free
  /\ UNCHANGED <<featureRows, implRows, head, removal, lapses>>
-----------------------------------------------------------------------------
\* DELETE /features/{id}: requirements, diagram, feature; one transaction each
DeleteRows(f) ==
  /\ RemovalAt(f, "none") /\ f \in featureRows
  /\ featureRows' = featureRows \ {f} /\ implRows' = implRows \ {f}
  /\ Goto(f, "rows")
  /\ UNCHANGED <<workspaceLock, head, tree, lapses>>

\* the broker makes the task of the removal
StartRemoval(f) ==
  /\ RemovalAt(f, "rows") /\ Goto(f, "queued")
  /\ UNCHANGED <<featureRows, implRows, workspaceLock, head, tree, lapses>>

\* acquire_lock; WorkspaceLockedError is an ERROR event, and nobody tries again
AcquireForRemoval(f) ==
  /\ RemovalAt(f, "queued")
  /\ IF workspaceLock = Free THEN workspaceLock' = f /\ Goto(f, "removing")
                    ELSE Goto(f, "refused") /\ UNCHANGED workspaceLock
  /\ UNCHANGED <<featureRows, implRows, head, tree, lapses>>

\* remove_feature_from_registry: without its import line and its entry in the
\* array; an import of another form leaves the entry, and other features may
\* refer to what is gone
AppsWithout(f) == [has : {tree.has \ {f}}, works : {tree.works, FALSE}]

\* remove_feature_paths: the feature's directories, then the registry
RemoveFiles(f) ==
  /\ RemovalAt(f, "removing")
  /\ IF f \in tree.has
     THEN /\ tree' \in AppsWithout(f)
          /\ removal' = [removal EXCEPT ![f].stage = "committing", ![f].worked = tree.works]
          /\ UNCHANGED workspaceLock
     ELSE Goto(f, "done") /\ workspaceLock' = Free /\ UNCHANGED tree
  /\ UNCHANGED <<featureRows, implRows, head, lapses>>

CommitRemoval(f) ==
  /\ RemovalAt(f, "committing")
  /\ head' = tree /\ Goto(f, "validating")
  /\ UNCHANGED <<featureRows, implRows, workspaceLock, tree, lapses>>

\* no commit yet: nothing is reverted, the removal stays in the worktree
RemovalRaises(f) ==
  /\ removal[f].stage \in {"removing", "committing"} /\ Lapse
  /\ Goto(f, "raised") /\ workspaceLock' = Free
  /\ UNCHANGED <<featureRows, implRows, head, tree>>

ValidateRemoval(f) ==
  /\ RemovalAt(f, "validating")
  /\ \/ tree.works /\ Goto(f, "done") /\ workspaceLock' = Free
     \/ ~tree.works /\ removal[f].fixes < MaxFixes /\ Goto(f, "repairing") /\ UNCHANGED workspaceLock
     \/ ~tree.works /\ Goto(f, "reverting") /\ UNCHANGED workspaceLock  \* or OpenCode is not healthy
  /\ UNCHANGED <<featureRows, implRows, head, tree, lapses>>

\* the agent edits the worktree; nobody commits what it did
Repair(f) ==
  /\ RemovalAt(f, "repairing")
  /\ \E works \in BOOLEAN : tree' = [tree EXCEPT !.works = works]
  /\ removal' = [removal EXCEPT ![f].stage = "validating", ![f].fixes = @ + 1]
  /\ UNCHANGED <<featureRows, implRows, workspaceLock, head, lapses>>

\* any exception after the commit
ValidationRaises(f) ==
  /\ removal[f].stage \in {"validating", "repairing"} /\ Lapse
  /\ Goto(f, "reverting")
  /\ UNCHANGED <<featureRows, implRows, workspaceLock, head, tree>>

\* git revert, whose failure (edits in the way) is suppressed; the edits of the
\* agent stay in the worktree
Revert(f) ==
  /\ RemovalAt(f, "reverting")
  /\ \/ /\ head' = [has |-> head.has \cup {f}, works |-> removal[f].worked]
        /\ tree' = [has |-> tree.has \cup {f},
                    works |-> IF removal[f].fixes = 0 THEN removal[f].worked ELSE tree.works]
     \/ removal[f].fixes > 0 /\ UNCHANGED <<head, tree>>
  /\ Goto(f, "reverted") /\ workspaceLock' = Free
  /\ UNCHANGED <<featureRows, implRows, lapses>>

\* the task is cancelled or its process dies; the lock is free again later
RemovalDies(f) ==
  /\ removal[f].stage \in Stages \ {"none", "done", "reverted", "refused", "raised"} /\ Lapse
  /\ Goto(f, "raised") /\ workspaceLock' = IF workspaceLock = f THEN Free ELSE workspaceLock
  /\ UNCHANGED <<featureRows, implRows, head, tree>>

RemovalNext ==
  \E f \in RemovalFeatures :
     \/ PipelineStarts(f) \/ PipelineSucceeds(f) \/ PipelineFails(f)
     \/ DeleteRows(f) \/ StartRemoval(f) \/ AcquireForRemoval(f)
     \/ RemoveFiles(f) \/ CommitRemoval(f) \/ RemovalRaises(f) \/ ValidateRemoval(f)
     \/ Repair(f) \/ ValidationRaises(f) \/ Revert(f) \/ RemovalDies(f)

RemovalSpec == RemovalInit /\ [][RemovalNext]_removalVars

(***************************************************************************)
(* Once every removal that began has reported success, the application     *)
(* works whenever nobody has its workspace, as the use case says of itself *)
(* ("para que la aplicación nunca quede rota").  What the agent repaired   *)
(* is never committed: the rollback of the next pipeline that fails takes  *)
(* it away, and HEAD is the broken commit.                                 *)
(***************************************************************************)
AppNeverBroken ==
  (workspaceLock = Free /\ \A f \in RemovalFeatures : removal[f].stage \in {"none", "done"}) => tree.works
=============================================================================
