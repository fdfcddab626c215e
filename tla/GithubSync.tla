------------------------------ MODULE GithubSync ------------------------------
(***************************************************************************)
(* The project's repository on GitHub: pushes by request and by the        *)
(* deployment (sync_github_repository), the push the code generation       *)
(* pipeline makes while it has the workspace lock (post_deploy_service),   *)
(* and the removal of the repository with its project.                     *)
(*                                                                         *)
(* The files of the workspace are a version number; Broken are the         *)
(* versions that the validation rejects.  The workspace lock is its holder *)
(* only (WorkspaceLock has the rest); the lock of a dead process goes when *)
(* it is older than thirty minutes, and no push takes that long.           *)
(***************************************************************************)
EXTENDS Naturals

CONSTANTS Pushers,    \* requests that push: POST /push, POST /deploy/railway
          Pipeline,   \* the generation of a feature
          Free,       \* nobody has the workspace lock
          NoCommit,
          MaxVersion, \* bound: versions of the files
          Broken      \* versions that do not validate

Versions == 0 .. MaxVersion
ASSUME SyncAssumption ==
  /\ MaxVersion \in Nat /\ Broken \subseteq Versions \ {0}
  /\ NoCommit \notin Versions
  /\ Pipeline \notin Pushers /\ Free \notin Pushers \cup {Pipeline}

VARIABLES
  holder,  \* who has the workspace lock
  tree,    \* version of the files of the workspace
  last,    \* highest version there has been
  head,    \* version of the last commit of the workspace
  remote,  \* the repository on GitHub: is it there, and its last commit
  record,  \* row of project_integrations
  push,    \* push[p]: the push of p
  project  \* there is a project

syncVars == <<holder, tree, last, head, remote, record, push, project>>

Everyone == Pushers \cup {Pipeline}
Commits == Versions \cup {NoCommit}
Records == [status : {"syncing", "synced", "failed"}, url : BOOLEAN, commit : Commits]
NoRecord == [status |-> "none", url |-> FALSE, commit |-> NoCommit]
SyncStages == {"idle", "started", "marked", "validating", "valid", "named",
               "located", "committed", "pushed", "logging", "failing", "ending"}
Remotes == [there : BOOLEAN, head : Commits]
Pushes == [stage : SyncStages, copy : Records \cup {NoRecord}]

SyncTypeOK ==
  /\ holder \in Everyone \cup {Free}
  /\ tree \in Versions /\ last \in Versions /\ head \in Versions
  /\ remote \in Remotes
  /\ record \in Records \cup {NoRecord}
  /\ push \in [Everyone -> Pushes]
  /\ project \in BOOLEAN

SyncInit ==
  /\ holder = Free /\ tree = 0 /\ last = 0 /\ head = 0
  /\ remote = [there |-> FALSE, head |-> NoCommit]
  /\ record = NoRecord
  /\ push = [p \in Everyone |-> [stage |-> "idle", copy |-> NoRecord]]
  /\ project = TRUE

InStage(p, s) == push[p].stage = s
GoTo(p, s) == push' = [push EXCEPT ![p].stage = s]
-----------------------------------------------------------------------------
(***************************************************************************)
(* The pipeline: it changes the files under the lock, commits and pushes   *)
(* what it has validated, and otherwise goes back to the last commit.      *)
(***************************************************************************)
PipelineStarts ==
  /\ project /\ holder = Free /\ InStage(Pipeline, "idle")
  /\ holder' = Pipeline
  /\ UNCHANGED <<tree, last, head, remote, record, push, project>>

PipelineWrites ==
  /\ holder = Pipeline /\ InStage(Pipeline, "idle") /\ last < MaxVersion
  /\ last' = last + 1 /\ tree' = last'
  /\ UNCHANGED <<holder, head, remote, record, push, project>>

\* handle_success: commit, then a push without lock and without validation
PipelineSucceeds ==
  /\ holder = Pipeline /\ InStage(Pipeline, "idle") /\ tree \notin Broken
  /\ head' = tree
  /\ GoTo(Pipeline, "started")
  /\ UNCHANGED <<holder, tree, last, remote, record, project>>

PipelineFails ==
  /\ holder = Pipeline /\ InStage(Pipeline, "idle")
  /\ tree' = head /\ holder' = Free
  /\ UNCHANGED <<last, head, remote, record, push, project>>
-----------------------------------------------------------------------------
(***************************************************************************)
(* A push.                                                                 *)
(***************************************************************************)
\* acquire_lock; with the lock taken the request fails (WorkspaceLockedError)
BeginPush(p) ==
  /\ project /\ InStage(p, "idle") /\ holder = Free
  /\ holder' = p
  /\ GoTo(p, "started")
  /\ UNCHANGED <<tree, last, head, remote, record, project>>

\* a private repository, or a user without a GitHub account
RefusePush(p) ==
  /\ InStage(p, "started")
  /\ GoTo(p, "ending")
  /\ UNCHANGED <<holder, tree, last, head, remote, record, project>>

Fresh == [status |-> "syncing", url |-> FALSE, commit |-> NoCommit]
Mutant_KeepsStatus(r) == IF r = NoRecord THEN Fresh ELSE r
Syncing(r) == IF r = NoRecord THEN Fresh ELSE [r EXCEPT !.status = "syncing"]

\* every save inserts or updates the whole row; it fails without a project
Save(p, r, s) ==
  IF project THEN /\ record' = r
                  /\ push' = [push EXCEPT ![p] = [stage |-> s, copy |-> r]]
             ELSE /\ GoTo(p, IF InStage(p, "started") \/ InStage(p, "failing")
                             THEN "ending" ELSE "failing")
                  /\ UNCHANGED record

MarkSyncing(p) ==
  /\ InStage(p, "started")
  /\ Save(p, Syncing(record), "marked")
  /\ UNCHANGED <<holder, tree, last, head, remote, project>>

\* ensure_workspace and the decryption of the token are outside the inner try:
\* when one raises, the row goes on saying SYNCING
Prepare(p) ==
  /\ InStage(p, "marked")
  /\ \E s \in {IF p = Pipeline THEN "valid" ELSE "validating", "ending"} : GoTo(p, s)
  /\ UNCHANGED <<holder, tree, last, head, remote, record, project>>

\* the ephemeral validation of a copy of the files
Rejected == tree \in Broken

Validate(p) ==
  /\ InStage(p, "validating")
  /\ GoTo(p, IF Rejected THEN "failing" ELSE "valid")
  /\ UNCHANGED <<holder, tree, last, head, remote, record, project>>

\* check_repository_exists, create_repository: afterwards there is one
Located == [remote EXCEPT !.there = TRUE]

\* The row has the URL, or the repository is looked up by name and made when
\* GitHub has none.
FindRepository(p) ==
  /\ InStage(p, "valid")
  /\ IF push[p].copy.url
     THEN GoTo(p, "located") /\ UNCHANGED remote
     ELSE GoTo(p, "named") /\ remote' = Located
  /\ UNCHANGED <<holder, tree, last, head, record, project>>

SaveRepository(p) ==
  /\ InStage(p, "named")
  /\ Save(p, [push[p].copy EXCEPT !.url = TRUE], "located")
  /\ UNCHANGED <<holder, tree, last, head, remote, project>>

CommitFiles(p) ==
  /\ InStage(p, "located")
  /\ head' = tree
  /\ GoTo(p, "committed")
  /\ UNCHANGED <<holder, tree, last, remote, record, project>>

PushFiles(p) ==
  /\ InStage(p, "committed")
  /\ IF remote.there
     THEN remote' = [remote EXCEPT !.head = head] /\ GoTo(p, "pushed")
     ELSE GoTo(p, "failing") /\ UNCHANGED remote
  /\ UNCHANGED <<holder, tree, last, head, record, project>>

\* the pushed commit is the head, which moves only under the lock
SaveSynced(p) ==
  /\ InStage(p, "pushed")
  /\ Save(p, [push[p].copy EXCEPT !.status = "synced", !.commit = head], "logging")
  /\ UNCHANGED <<holder, tree, last, head, remote, project>>

WriteLog(p) ==
  /\ InStage(p, "logging")
  /\ GoTo(p, "ending")
  /\ UNCHANGED <<holder, tree, last, head, remote, record, project>>

\* any call of the inner try may raise, the log entry too
Raises(p) ==
  /\ push[p].stage \in {"validating", "valid", "named", "located", "committed", "pushed", "logging"}
  /\ GoTo(p, "failing")
  /\ UNCHANGED <<holder, tree, last, head, remote, record, project>>

SaveFailed(p) ==
  /\ InStage(p, "failing")
  /\ Save(p, [push[p].copy EXCEPT !.status = "failed"], "ending")
  /\ UNCHANGED <<holder, tree, last, head, remote, project>>

\* the finally clause; the pipeline's lock is released when it ends
EndPush(p) ==
  /\ InStage(p, "ending")
  /\ holder' = Free
  /\ push' = [push EXCEPT ![p] = [stage |-> "idle", copy |-> NoRecord]]
  /\ UNCHANGED <<tree, last, head, remote, record, project>>

\* The process dies: the row keeps its state, the lock goes when it is stale.
\* A dead pipeline leaves its files as they are.
PushDies(p) ==
  /\ holder = p
  /\ holder' = Free
  /\ push' = [push EXCEPT ![p] = [stage |-> "idle", copy |-> NoRecord]]
  /\ UNCHANGED <<tree, last, head, remote, record, project>>
-----------------------------------------------------------------------------
(***************************************************************************)
(* Removal of the project: the repository, whatever GitHub answers, the    *)
(* row, and the project with what still refers to it.  No lock is taken.   *)
(***************************************************************************)
RemoveRemote ==
  /\ project /\ record # NoRecord
  /\ remote' = [there |-> FALSE, head |-> NoCommit]
  /\ UNCHANGED <<holder, tree, last, head, record, push, project>>

RemoveRecord ==
  /\ project
  /\ record' = NoRecord
  /\ UNCHANGED <<holder, tree, last, head, remote, push, project>>

RemoveProject ==
  /\ project
  /\ project' = FALSE /\ record' = NoRecord
  /\ UNCHANGED <<holder, tree, last, head, remote, push>>
-----------------------------------------------------------------------------
PushStep(p) ==
  \/ RefusePush(p) \/ MarkSyncing(p) \/ Prepare(p) \/ Validate(p) \/ FindRepository(p)
  \/ SaveRepository(p) \/ CommitFiles(p) \/ PushFiles(p) \/ SaveSynced(p) \/ WriteLog(p)
  \/ Raises(p) \/ SaveFailed(p) \/ EndPush(p) \/ PushDies(p)

SyncNext ==
  \/ \E p \in Pushers : BeginPush(p)
  \/ \E p \in Everyone : PushStep(p)
  \/ PipelineStarts \/ PipelineWrites \/ PipelineSucceeds \/ PipelineFails
  \/ RemoveRemote \/ RemoveRecord \/ RemoveProject

SyncSpec == SyncInit /\ [][SyncNext]_syncVars

(***************************************************************************)
(* GitHub never has a commit that does not validate: the pipeline writes   *)
(* its attempts into the same directory that a push commits whole.         *)
(***************************************************************************)
PushedIsValid == remote.head \notin Broken

(***************************************************************************)
(* A row that says SYNCED is right about the last commit GitHub has: no    *)
(* push changes it before the row says SYNCING, and what a push that was   *)
(* interrupted leaves behind does not say SYNCED.                          *)
(***************************************************************************)
SyncedIsPushed ==
  (record.status = "synced" /\ remote.there) => remote.head = record.commit
=============================================================================
