------------------------------ MODULE MCServices ------------------------------
(***************************************************************************)
(* The services around a pipeline, which share no state: the launcher of   *)
(* OpenCode containers, the event stream of a run, the push to GitHub and  *)
(* the deployment on Railway.  A behaviour is one of any of them (part).   *)
(***************************************************************************)
EXTENDS OpencodeLauncher, EventStream, GithubSync, Deployment

VARIABLE part
serviceVars == <<part, launcherVars, streamVars, syncVars, deployVars>>

Init ==
  /\ LauncherInit /\ StreamInit /\ SyncInit /\ DeployInit
  /\ part \in {"launcher", "stream", "sync", "deploy"}

Next ==
  \/ part = "launcher" /\ LauncherNext /\ UNCHANGED <<part, streamVars, syncVars, deployVars>>
  \/ part = "stream" /\ StreamNext /\ UNCHANGED <<part, launcherVars, syncVars, deployVars>>
  \/ part = "sync" /\ SyncNext /\ UNCHANGED <<part, launcherVars, streamVars, deployVars>>
  \/ part = "deploy" /\ DeployNext /\ UNCHANGED <<part, launcherVars, streamVars, syncVars>>

\* only the clock of the launcher is enabled in the initial state of its part
Spec == /\ Init /\ [][Next]_serviceVars
        /\ LauncherProgress /\ WF_launcherVars(part = "launcher" /\ Tick)
        /\ StreamFairness /\ DeployFairness

(***************************************************************************)
(* The types of the four services.                                         *)
(***************************************************************************)
ServiceTypes == LauncherTypeOK /\ StreamTypeOK /\ SyncTypeOK /\ DeployTypeOK
=============================================================================
