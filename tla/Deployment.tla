------------------------------ MODULE Deployment ------------------------------
(***************************************************************************)
(* A project's deployment on Railway: the request that provisions and      *)
(* starts a build (orchestrate_cloud_deployment), the task that polls it   *)
(* (deployment_worker, monitor_deployment_status), the request that        *)
(* removes it (delete_deployment), and the recovery of the polling when a  *)
(* process starts (recover_pending_deployments).                           *)
(*                                                                         *)
(* The row is one record, written whole from a copy read earlier.  Railway *)
(* is the set of services it runs for the project's repository with the    *)
(* state of their latest build; a name, a URL and a log are left out.  The *)
(* push before a deployment (GithubSync) either works or ends the request. *)
(***************************************************************************)
EXTENDS Naturals, FiniteSets

CONSTANTS Requests,    \* deploy and delete requests
          Workers,     \* processes, each with its table of polling tasks
          NoService,
          MaxServices, \* bound: services ever created
          MaxDeploys,  \* bound: deploy requests
          MaxTrouble,  \* bound: expired tokens, crashes
          MaxPolls,    \* attempts of the monitor (60 in the code)
          Overlap,     \* two requests may be handled at the same time
          BlindLookup  \* the query for the user's projects may fail

Services == 1 .. MaxServices
ASSUME DeploymentAssumption ==
  /\ MaxServices \in Nat /\ MaxDeploys \in Nat /\ MaxTrouble \in Nat
  /\ MaxPolls \in Nat \ {0}
  /\ NoService \notin Services
  /\ Overlap \in BOOLEAN /\ BlindLookup \in BOOLEAN

VARIABLES
  row,      \* row of project_integrations for railway
  service,  \* service[s]: latest build of s, or "gone"
  created,  \* services created so far
  account,  \* "linked" or "unlinked"
  token,    \* the stored token: "good", "expired", or "revoked" with its refresh token
  request,  \* request[r]
  monitor,  \* monitor[w]: polling task of w
  up,       \* up[w]
  deploys, trouble

deployVars == <<row, service, created, account, token, request, monitor, up, deploys, trouble>>

Builds == {"none", "building", "published", "failed"}
Terminal == {"published", "failed"}
Statuses == {"not_created", "building"} \cup Terminal
Rows == [status : Statuses, sid : Services \cup {NoService}]
NoRow == [status |-> "no row", sid |-> NoService]
DeployStages == {"idle", "pushing", "reading", "looking", "creating", "volume", "trigger",
                 "refreshing", "saving", "starting", "erasing", "removing"}
Tokens == {"good", "expired", "revoked"}
\* a request and a monitor go on with the token they read (key)
Monitors == [stage : {"idle", "reading", "polling", "saving", "raised"},
             copy : Rows \cup {NoRow}, answer : Statuses,
             polls : 0 .. MaxPolls, key : Tokens, renewed : BOOLEAN]
NoMonitor == [stage |-> "idle", copy |-> NoRow, answer |-> "building", polls |-> 0,
              key |-> "good", renewed |-> FALSE]

DeployTypeOK ==
  /\ row \in Rows \cup {NoRow}
  /\ service \in [Services -> Builds \cup {"gone"}]
  /\ created \in 0 .. MaxServices
  /\ account \in {"linked", "unlinked"}
  /\ token \in Tokens
  /\ request \in [Requests -> [stage : DeployStages, worker : Workers, copy : Rows \cup {NoRow},
                               sid : Services \cup {NoService}, key : Tokens, renewed : BOOLEAN]]
  /\ monitor \in [Workers -> Monitors]
  /\ up \in [Workers -> BOOLEAN]
  /\ deploys \in 0 .. MaxDeploys /\ trouble \in 0 .. MaxTrouble

DeployInit ==
  /\ row = NoRow
  /\ service = [s \in Services |-> "gone"] /\ created = 0
  /\ account = "linked" /\ token = "good"
  /\ request \in [Requests -> [stage : {"idle"}, worker : Workers, copy : {NoRow},
                               sid : {NoService}, key : {"good"}, renewed : {FALSE}]]
  /\ monitor = [w \in Workers |-> NoMonitor]
  /\ up = [w \in Workers |-> TRUE]
  /\ deploys = 0 /\ trouble = 0

\* the repository inserts or updates the whole row, with no look at what is there
Put(r) == row' = r
Drop == row' = NoRow

Running == {s \in Services : service[s] # "gone"}
On(r, s) == request[r].stage = s
Quiet == Overlap \/ \A r \in Requests : On(r, "idle")
Idle(r) == [request[r] EXCEPT !.stage = "idle", !.copy = NoRow, !.sid = NoService,
                              !.key = "good", !.renewed = FALSE]
Finish(r) == request' = [request EXCEPT ![r] = Idle(r)]
Continue(r, s) == request' = [request EXCEPT ![r].stage = s]
-----------------------------------------------------------------------------
(***************************************************************************)
(* Railway and the account.  A build ends by itself; a token expires or is *)
(* revoked; the user links and unlinks the account.                        *)
(***************************************************************************)
BuildMoves(s) ==
  /\ service[s] \in {"none", "building"}
  /\ \E b \in IF service[s] = "none" THEN {"building"} ELSE Terminal :
       service' = [service EXCEPT ![s] = b]
  /\ UNCHANGED <<row, created, account, token, request, monitor, up, deploys, trouble>>

TokenDies ==
  /\ trouble < MaxTrouble /\ token = "good"
  /\ token' \in {"expired", "revoked"}
  /\ request' = [r \in Requests |-> IF On(r, "idle") \/ request[r].key # "good" THEN request[r]
                                    ELSE [request[r] EXCEPT !.key = token']]
  /\ monitor' = [w \in Workers |-> IF monitor[w].stage \in {"polling", "saving"} /\ monitor[w].key = "good"
                                   THEN [monitor[w] EXCEPT !.key = token'] ELSE monitor[w]]
  /\ trouble' = trouble + 1
  /\ UNCHANGED <<row, service, created, account, up, deploys>>

LinkAccount ==
  /\ account = "unlinked" \/ token # "good"
  /\ account' = "linked" /\ token' = "good"
  /\ UNCHANGED <<row, service, created, request, monitor, up, deploys, trouble>>

UnlinkAccount ==
  /\ account = "linked" /\ trouble < MaxTrouble
  /\ account' = "unlinked"
  /\ trouble' = trouble + 1
  /\ UNCHANGED <<row, service, created, token, request, monitor, up, deploys>>
-----------------------------------------------------------------------------
(***************************************************************************)
(* A deploy request.                                                       *)
(***************************************************************************)
Deploy(r) ==
  /\ On(r, "idle") /\ Quiet /\ up[request[r].worker]
  /\ account = "linked" /\ deploys < MaxDeploys
  /\ deploys' = deploys + 1
  /\ request' = [request EXCEPT ![r].stage = "pushing", ![r].key = token]
  /\ UNCHANGED <<row, service, created, account, token, monitor, up, trouble>>

\* no repository yet, the workspace lock taken, a validation or a push that fails
PushFails(r) ==
  /\ On(r, "pushing")
  /\ Finish(r)
  /\ UNCHANGED <<row, service, created, account, token, monitor, up, deploys, trouble>>

\* after the push the row is read once: with a service it is a redeployment
ReadDeployment(r) ==
  /\ On(r, "pushing")
  /\ request' = [request EXCEPT
       ![r] = [@ EXCEPT !.copy = row, !.sid = row.sid,
                        !.stage = IF row.sid = NoService THEN "looking" ELSE "trigger"]]
  /\ UNCHANGED <<row, service, created, account, token, monitor, up, deploys, trouble>>

\* what the GraphQL client calls an authentication error
Authorized(r) == request[r].key = "good"

\* the first call that needs the token finds that it is not accepted
Unauthorized(r) ==
  /\ request[r].stage \in {"creating", "volume", "trigger"} /\ ~Authorized(r)
  /\ Continue(r, "refreshing")
  /\ UNCHANGED <<row, service, created, account, token, monitor, up, deploys, trouble>>

Mutant_NeverFinds(r) == {}
\* services of the project with the repository's name; a query that fails
\* counts as one that finds nothing
Found(r) == IF Authorized(r) THEN Running ELSE {}

LookUpService(r) ==
  /\ On(r, "looking")
  /\ \/ \E s \in Found(r) : /\ \A x \in Found(r) : s <= x
                             /\ request' = [request EXCEPT ![r].sid = s, ![r].stage = "volume"]
     \/ /\ Found(r) = {} \/ BlindLookup
        /\ Continue(r, "creating")
  /\ UNCHANGED <<row, service, created, account, token, monitor, up, deploys, trouble>>

CreateService(r) ==
  /\ On(r, "creating") /\ Authorized(r) /\ created < MaxServices
  /\ created' = created + 1
  /\ service' = [service EXCEPT ![created'] = "none"]
  /\ request' = [request EXCEPT ![r].sid = created', ![r].stage = "volume"]
  /\ UNCHANGED <<row, account, token, monitor, up, deploys, trouble>>

ConfigureVolume(r) ==
  /\ On(r, "volume") /\ Authorized(r)
  /\ Continue(r, "trigger")
  /\ UNCHANGED <<row, service, created, account, token, monitor, up, deploys, trouble>>

\* a build under way is accepted as the one asked for; the first one of a
\* service may be listed a little later
TriggerDeployment(r) ==
  /\ On(r, "trigger") /\ Authorized(r) /\ service[request[r].sid] # "gone"
  /\ \/ service' = [service EXCEPT ![request[r].sid] = "building"]
     \/ service[request[r].sid] = "none" /\ UNCHANGED service
  /\ Continue(r, "saving")
  /\ UNCHANGED <<row, created, account, token, monitor, up, deploys, trouble>>

\* any other error of Railway ends the request without a row
ProvisionFails(r) ==
  /\ request[r].stage \in {"creating", "volume", "trigger"}
  /\ Finish(r)
  /\ UNCHANGED <<row, service, created, account, token, monitor, up, deploys, trouble>>

\* refresh_access_token: a refresh token that is not revoked gives a new pair
Renewable(key) == key = "expired"

\* _refresh_user_token, once, and it may fail; a second refusal deletes the
\* user's integration
RefreshToken(r) ==
  /\ On(r, "refreshing")
  /\ IF request[r].renewed
     THEN /\ account' = "unlinked"
          /\ Finish(r)
          /\ UNCHANGED token
     ELSE \/ Finish(r) /\ UNCHANGED <<account, token>>
          \/ /\ Renewable(request[r].key)
             /\ token' = "good" /\ account' = "linked"
             /\ request' = [request EXCEPT
                  ![r] = [@ EXCEPT !.renewed = TRUE, !.key = "good", !.sid = request[r].copy.sid,
                          !.stage = IF request[r].copy.sid = NoService THEN "looking" ELSE "trigger"]]
  /\ UNCHANGED <<row, service, created, monitor, up, deploys, trouble>>

SaveDeployment(r) ==
  /\ On(r, "saving")
  /\ Put([status |-> "building", sid |-> request[r].sid])
  /\ Continue(r, "starting")
  /\ UNCHANGED <<service, created, account, token, monitor, up, deploys, trouble>>

\* start_monitoring keeps a task that is not done
StartMonitoring(r) ==
  /\ On(r, "starting")
  /\ LET w == request[r].worker
     IN monitor' = IF monitor[w].stage = "idle"
                   THEN [monitor EXCEPT ![w] = [NoMonitor EXCEPT !.stage = "reading"]]
                   ELSE monitor
  /\ Finish(r)
  /\ UNCHANGED <<row, service, created, account, token, up, deploys, trouble>>
-----------------------------------------------------------------------------
(***************************************************************************)
(* The monitor of a worker.  A token it finds expired is renewed once, and *)
(* saved with the account, which may have been unlinked meanwhile.         *)
(***************************************************************************)
Mon(w, s) == monitor[w].stage = s
StopMonitor(w) == monitor' = [monitor EXCEPT ![w] = NoMonitor]

MonitorReads(w) ==
  /\ Mon(w, "reading")
  /\ IF row.sid = NoService \/ row.status \in Terminal \/ account = "unlinked"
     THEN StopMonitor(w)
     ELSE monitor' = [monitor EXCEPT ![w].stage = "polling", ![w].copy = row, ![w].key = token]
  /\ UNCHANGED <<row, service, created, account, token, request, up, deploys, trouble>>

Mutant_RawStatus(b) == b
\* get_service_status: a service without a deployment yet is NOT_CREATED
StatusOf(b) == IF b = "none" THEN "not_created" ELSE b

Poll(w) ==
  /\ Mon(w, "polling") /\ monitor[w].key = "good"
  /\ LET b == service[monitor[w].copy.sid]
     IN monitor' = IF b = "gone" THEN [monitor EXCEPT ![w].stage = "raised"]
                   ELSE [monitor EXCEPT ![w].stage = "saving", ![w].answer = StatusOf(b)]
  /\ UNCHANGED <<row, service, created, account, token, request, up, deploys, trouble>>

PollUnauthorized(w) ==
  /\ Mon(w, "polling") /\ monitor[w].key # "good"
  /\ \/ /\ monitor' = [monitor EXCEPT ![w].stage = "raised"]
        /\ UNCHANGED <<token, account>>
     \/ /\ Renewable(monitor[w].key) /\ ~monitor[w].renewed
        /\ token' = "good" /\ account' = "linked"
        /\ monitor' = [monitor EXCEPT ![w].renewed = TRUE, ![w].key = "good"]
  /\ UNCHANGED <<row, service, created, request, up, deploys, trouble>>

\* The copy with the new status is written over the row, or inserted; sixty
\* polls without an end make the deployment FAILED.
SaveStatus(w) ==
  /\ Mon(w, "saving")
  /\ LET m == monitor[w]
         n == [m.copy EXCEPT !.status = m.answer]
         late == m.answer \notin Terminal /\ m.polls + 1 = MaxPolls
     IN /\ IF late THEN Put([n EXCEPT !.status = "failed"])
           ELSE IF n # m.copy THEN Put(n) ELSE UNCHANGED row
        /\ monitor' = IF late \/ m.answer \in Terminal THEN [monitor EXCEPT ![w] = NoMonitor]
                      ELSE [monitor EXCEPT ![w] = [m EXCEPT !.stage = "polling", !.copy = n, !.polls = @ + 1]]
  /\ UNCHANGED <<service, created, account, token, request, up, deploys, trouble>>

\* handle_deployment_failure; without a row it makes one
MonitorFails(w) ==
  /\ Mon(w, "raised")
  /\ Put([row EXCEPT !.status = "failed"])
  /\ StopMonitor(w)
  /\ UNCHANGED <<service, created, account, token, request, up, deploys, trouble>>
-----------------------------------------------------------------------------
(***************************************************************************)
(* A delete request: the task of this worker is cancelled, the service is  *)
(* removed if Railway lets it, the row is removed whatever happened.       *)
(***************************************************************************)
Mutant_LeavesMonitor(r) ==
  /\ On(r, "idle") /\ Quiet /\ up[request[r].worker] /\ row # NoRow
  /\ request' = [request EXCEPT ![r].copy = row, ![r].sid = row.sid, ![r].stage = "erasing"]
  /\ UNCHANGED <<row, service, created, account, token, monitor, up, deploys, trouble>>

Delete(r) ==
  /\ On(r, "idle") /\ Quiet /\ up[request[r].worker] /\ row # NoRow
  /\ monitor' = [monitor EXCEPT ![request[r].worker] = NoMonitor]
  /\ request' = [request EXCEPT ![r].copy = row, ![r].sid = row.sid, ![r].stage = "erasing"]
  /\ UNCHANGED <<row, service, created, account, token, up, deploys, trouble>>

\* delete_service: the Railway project of the service, or else the service; an
\* error that is not one of authorization ends in a REST call whose 404 counts
\* as done
Erasable(r) == request[r].sid # NoService /\ account = "linked" /\ token # "revoked"

\* an expired token is renewed here too; any failure is only logged
EraseService(r) ==
  /\ On(r, "erasing")
  /\ \/ /\ Erasable(r)
        /\ token' = "good"
        /\ service' = [service EXCEPT ![request[r].sid] = "gone"]
     \/ UNCHANGED <<token, service>>
  /\ Continue(r, "removing")
  /\ UNCHANGED <<row, created, account, monitor, up, deploys, trouble>>

RemoveDeployment(r) ==
  /\ On(r, "removing")
  /\ Drop
  /\ Finish(r)
  /\ UNCHANGED <<service, created, account, token, monitor, up, deploys, trouble>>
-----------------------------------------------------------------------------
(***************************************************************************)
(* A worker dies with its tasks and requests; when it starts it resumes    *)
(* the polling of the rows that say BUILDING.                              *)
(***************************************************************************)
CrashWorker(w) ==
  /\ up[w] /\ trouble < MaxTrouble
  /\ up' = [up EXCEPT ![w] = FALSE]
  /\ monitor' = [monitor EXCEPT ![w] = NoMonitor]
  /\ request' = [r \in Requests |-> IF request[r].worker = w THEN Idle(r) ELSE request[r]]
  /\ trouble' = trouble + 1
  /\ UNCHANGED <<row, service, created, account, token, deploys>>

Mutant_NothingPending == FALSE
Pending == row.status = "building" /\ row.sid # NoService

RestartWorker(w) ==
  /\ ~up[w]
  /\ up' = [up EXCEPT ![w] = TRUE]
  /\ monitor' = IF Pending THEN [monitor EXCEPT ![w] = [NoMonitor EXCEPT !.stage = "reading"]]
                ELSE monitor
  /\ UNCHANGED <<row, service, created, account, token, request, deploys, trouble>>
-----------------------------------------------------------------------------
RequestStep(r) ==
  \/ PushFails(r) \/ ReadDeployment(r) \/ Unauthorized(r) \/ LookUpService(r)
  \/ CreateService(r) \/ ConfigureVolume(r) \/ TriggerDeployment(r) \/ ProvisionFails(r)
  \/ RefreshToken(r) \/ SaveDeployment(r) \/ StartMonitoring(r)
  \/ EraseService(r) \/ RemoveDeployment(r)

MonitorStep(w) ==
  MonitorReads(w) \/ Poll(w) \/ PollUnauthorized(w) \/ SaveStatus(w) \/ MonitorFails(w)

DeployNext ==
  \/ \E r \in Requests : Deploy(r) \/ Delete(r) \/ RequestStep(r)
  \/ \E w \in Workers : MonitorStep(w) \/ CrashWorker(w) \/ RestartWorker(w)
  \/ \E s \in Services : BuildMoves(s)
  \/ TokenDies \/ LinkAccount \/ UnlinkAccount

\* a live process goes on with its requests and tasks, a dead one is restarted
DeployFairness ==
  /\ \A r \in Requests : WF_deployVars(RequestStep(r))
  /\ \A w \in Workers : WF_deployVars(MonitorStep(w)) /\ WF_deployVars(RestartWorker(w))

DeploySpec == DeployInit /\ [][DeployNext]_deployVars /\ DeployFairness

(***************************************************************************)
(* A project has one service on Railway at a time, although the row is     *)
(* written only after the service exists: a request that dies between the  *)
(* two, or is repeated with a renewed token, finds the service again.      *)
(***************************************************************************)
OneService == Cardinality(Running) <= 1

(***************************************************************************)
(* A deployment that was deleted stays deleted: only a deploy request      *)
(* makes the row, no polling task that goes on writes its copy back.       *)
(***************************************************************************)
DeletedStaysDeleted ==
  [][(row = NoRow /\ row' # NoRow) => \E r \in Requests : On(r, "saving")]_deployVars

(***************************************************************************)
(* A row does not say BUILDING for ever, whatever process dies, if the     *)
(* account is never unlinked: a monitor that starts while it is ends       *)
(* without a word, and linking it again starts none.                       *)
(***************************************************************************)
BuildingSettles ==
  [](account = "linked") => ((row.status = "building") ~> (row.status # "building"))
=============================================================================
