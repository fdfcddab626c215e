--------------------------- MODULE OpencodeLauncher ---------------------------
(***************************************************************************)
(* The launcher of isolated OpenCode containers (docker/opencode/          *)
(* launcher.js) and the clients that ask it for one (isolated_opencode):   *)
(* creation, one at a time and at most MaxJobs in all; leases renewed by   *)
(* heartbeats; the reaper of containers whose lease is old.                *)
(*                                                                         *)
(* A tick is the period of the reaper, thirty seconds, in which a client   *)
(* sends at least one heartbeat; a lease is Lease ticks.  Docker answers   *)
(* or fails; the content of a job, its key and its password are left out.  *)
(***************************************************************************)
EXTENDS Naturals, FiniteSets

CONSTANTS Clients,   \* pipelines of the backend
          Jobs,      \* container ids
          NoJob,
          MaxJobs,   \* 2 in the code
          Lease,     \* 3 ticks in the code (90 s)
          MaxLost,   \* bound: heartbeats in a row that do not arrive
          MaxRestarts \* bound: restarts of the launcher

ASSUME LauncherAssumption ==
  /\ MaxJobs \in Nat \ {0} /\ Lease \in Nat \ {0} /\ MaxRestarts \in Nat
  /\ MaxLost \in Nat /\ MaxLost < Lease
  /\ NoJob \notin Jobs
  /\ IsFiniteSet(Jobs)

VARIABLES
  containers, \* containers Docker has
  lease,      \* lease[j]: its age, or NoLease
  creating,   \* the launcher is busy with a creation
  create,     \* create[c]: the POST /jobs of c in the launcher
  pass,       \* the pass of the reaper
  client,     \* client[c]: stage, container and heartbeats lost in a row
  restarts

launcherVars == <<containers, lease, creating, create, pass, client, restarts>>

NoLease == Lease + 2   \* no entry in the table of leases
Old == Lease + 1
NoRequest == [stage |-> "none", job |-> NoJob, age |-> 0]
NoPass == [on |-> FALSE, list |-> {}]
Outside == [stage |-> "idle", job |-> NoJob, lost |-> 0, beat |-> TRUE]

Creations == [stage : {"none", "listing", "making", "starting"},
              job : Jobs \cup {NoJob}, age : 0 .. Lease]
Positions == [stage : {"idle", "asking", "running", "stopping"},
              job : Jobs \cup {NoJob}, lost : 0 .. MaxLost, beat : BOOLEAN]
Passes == [on : BOOLEAN, list : SUBSET Jobs]

LauncherTypeOK ==
  /\ containers \subseteq Jobs
  /\ lease \in [Jobs -> 0 .. NoLease]
  /\ creating \in BOOLEAN
  /\ create \in [Clients -> Creations]
  /\ pass \in Passes
  /\ client \in [Clients -> Positions]
  /\ restarts \in 0 .. MaxRestarts

LauncherInit ==
  /\ containers = {} /\ lease = [j \in Jobs |-> NoLease]
  /\ creating = FALSE /\ create = [c \in Clients |-> NoRequest]
  /\ pass = NoPass
  /\ client = [c \in Clients |-> Outside]
  /\ restarts = 0

ClientAt(c, s) == client[c].stage = s
\* the launcher answers; a client that has given up hears nothing
Answer(c, new) == client' = IF ClientAt(c, "asking") THEN [client EXCEPT ![c] = new] ELSE client
\* removeJob: the container and its lease
Remove(j) ==
  /\ containers' = containers \ {j}
  /\ lease' = [lease EXCEPT ![j] = NoLease]

EndCreation(c) == create' = [create EXCEPT ![c] = NoRequest] /\ creating' = FALSE
-----------------------------------------------------------------------------
(***************************************************************************)
(* A client asks, again after a 429, or gives up: its request has a        *)
(* timeout of thirty seconds, and it asks for five minutes at most.        *)
(***************************************************************************)
Mutant_NotBusy(c) ==
  /\ ClientAt(c, "idle") /\ create[c].stage = "none"
  /\ creating' = TRUE
  /\ create' = [create EXCEPT ![c].stage = "listing"]
  /\ client' = [client EXCEPT ![c].stage = "asking"]
  /\ UNCHANGED <<containers, lease, pass, restarts>>

Ask(c) ==
  /\ ClientAt(c, "idle") /\ ~creating
  /\ creating' = TRUE
  /\ create' = [create EXCEPT ![c].stage = "listing"]
  /\ client' = [client EXCEPT ![c].stage = "asking"]
  /\ UNCHANGED <<containers, lease, pass, restarts>>

GiveUp(c) ==
  /\ ClientAt(c, "asking")
  /\ client' = [client EXCEPT ![c] = Outside]
  /\ UNCHANGED <<containers, lease, creating, create, pass, restarts>>
-----------------------------------------------------------------------------
(***************************************************************************)
(* The creation, in the launcher.                                          *)
(***************************************************************************)
CountJobs(c) ==
  /\ create[c].stage = "listing"
  /\ IF Cardinality(containers) >= MaxJobs
     THEN EndCreation(c) /\ Answer(c, Outside)
     ELSE create' = [create EXCEPT ![c].stage = "making"] /\ UNCHANGED <<creating, client>>
  /\ UNCHANGED <<containers, lease, pass, restarts>>

\* an invalid project or configuration, or Docker: nothing was made
CannotCreate(c) ==
  /\ create[c].stage \in {"listing", "making"}
  /\ EndCreation(c) /\ Answer(c, Outside)
  /\ UNCHANGED <<containers, lease, pass, restarts>>

Unused == {j \in Jobs \ (containers \cup pass.list) :
             lease[j] = NoLease /\ \A c \in Clients : client[c].job # j}

MakeContainer(c) ==
  /\ create[c].stage = "making"
  /\ \E j \in Unused : /\ containers' = containers \cup {j}
                       /\ create' = [create EXCEPT ![c].stage = "starting", ![c].job = j]
  /\ UNCHANGED <<lease, creating, pass, client, restarts>>

\* started, with its key and ready: the lease begins.  Each of the three steps
\* has a timeout of thirty seconds, so this takes no longer than a lease.
JobReady(c) ==
  /\ create[c].stage = "starting"
  /\ lease' = [lease EXCEPT ![create[c].job] = 0]
  /\ EndCreation(c)
  /\ Answer(c, [stage |-> "running", job |-> create[c].job, lost |-> 0, beat |-> TRUE])
  /\ UNCHANGED <<containers, pass, restarts>>

\* the container is removed again; that may fail too, and is only logged
JobNotReady(c) ==
  /\ create[c].stage = "starting"
  /\ Remove(create[c].job) \/ UNCHANGED <<containers, lease>>
  /\ EndCreation(c) /\ Answer(c, Outside)
  /\ UNCHANGED <<pass, restarts>>
-----------------------------------------------------------------------------
(***************************************************************************)
(* A client with a job: heartbeats (a failed one is ignored), and the end. *)
(***************************************************************************)
Renewed(j) == IF j \in containers THEN [lease EXCEPT ![j] = 0] ELSE lease

Heartbeat(c) ==
  /\ ClientAt(c, "running") /\ ~client[c].beat
  /\ lease' = Renewed(client[c].job)
  /\ client' = [client EXCEPT ![c].beat = TRUE, ![c].lost = 0]
  /\ UNCHANGED <<containers, creating, create, pass, restarts>>

HeartbeatLost(c) ==
  /\ ClientAt(c, "running") /\ ~client[c].beat /\ client[c].lost < MaxLost
  /\ client' = [client EXCEPT ![c].beat = TRUE, ![c].lost = @ + 1]
  /\ UNCHANGED <<containers, lease, creating, create, pass, restarts>>

\* the session ended, or the container never answered, or it ran out of memory
StopJob(c) ==
  /\ ClientAt(c, "running")
  /\ client' = [client EXCEPT ![c].stage = "stopping"]
  /\ UNCHANGED <<containers, lease, creating, create, pass, restarts>>

DeleteJob(c) ==
  /\ ClientAt(c, "stopping")
  /\ Remove(client[c].job) \/ UNCHANGED <<containers, lease>>
  /\ client' = [client EXCEPT ![c] = Outside]
  /\ UNCHANGED <<creating, create, pass, restarts>>

\* its process dies, or the task is cancelled where nobody deletes the job
ClientDies(c) ==
  /\ client[c].stage \in {"running", "stopping"}
  /\ client' = [client EXCEPT ![c] = Outside]
  /\ UNCHANGED <<containers, lease, creating, create, pass, restarts>>
-----------------------------------------------------------------------------
(***************************************************************************)
(* Time and the reaper: it lists the containers, forgets the leases of     *)
(* others, and goes through the list; a lease it does not know begins now. *)
(***************************************************************************)
Tick ==
  /\ ~pass.on
  /\ \A c \in Clients : ClientAt(c, "running") => client[c].beat
  /\ \A c \in Clients : create[c].stage = "starting" => create[c].age < Lease
  /\ create' = [c \in Clients |-> IF create[c].stage = "starting"
                                 THEN [create[c] EXCEPT !.age = @ + 1] ELSE create[c]]
  /\ lease' = [j \in Jobs |-> IF j \notin containers THEN NoLease
                             ELSE IF lease[j] < Old THEN lease[j] + 1 ELSE lease[j]]
  /\ client' = [c \in Clients |-> IF ClientAt(c, "running") THEN [client[c] EXCEPT !.beat = FALSE]
                                  ELSE client[c]]
  /\ pass' = [on |-> TRUE, list |-> containers]
  /\ UNCHANGED <<containers, creating, restarts>>

Mutant_UnknownToo(j) == lease[j] \in {Old, NoLease}
Abandoned(j) == lease[j] = Old

Mutant_OnlyKnown(j) == IF lease[j] = Old THEN Remove(j) ELSE UNCHANGED <<containers, lease>>
Visit(j) ==
  IF Abandoned(j) THEN Remove(j)
  ELSE /\ lease' = IF lease[j] = NoLease THEN [lease EXCEPT ![j] = 0] ELSE lease
       /\ UNCHANGED containers

Reap(j) ==
  /\ j \in pass.list
  /\ pass' = [pass EXCEPT !.list = @ \ {j}]
  /\ Visit(j)
  /\ UNCHANGED <<creating, create, client, restarts>>

\* a removal that fails ends the pass; the next one begins from the start
ReapFails ==
  /\ \E j \in pass.list : Abandoned(j)
  /\ pass' = NoPass
  /\ UNCHANGED <<containers, lease, creating, create, client, restarts>>

EndPass ==
  /\ pass.on /\ pass.list = {}
  /\ pass' = NoPass
  /\ UNCHANGED <<containers, lease, creating, create, client, restarts>>

\* the leases are in memory only; so is the creation under way
RestartLauncher ==
  /\ restarts < MaxRestarts
  /\ restarts' = restarts + 1
  /\ lease' = [j \in Jobs |-> NoLease]
  /\ creating' = FALSE /\ create' = [c \in Clients |-> NoRequest]
  /\ pass' = NoPass
  /\ client' = [c \in Clients |-> IF ClientAt(c, "asking") THEN Outside ELSE client[c]]
  /\ UNCHANGED containers
-----------------------------------------------------------------------------
ClientStep(c) ==
  \/ Ask(c) \/ GiveUp(c) \/ Heartbeat(c) \/ HeartbeatLost(c)
  \/ StopJob(c) \/ DeleteJob(c) \/ ClientDies(c)

CreateStep(c) ==
  CountJobs(c) \/ CannotCreate(c) \/ MakeContainer(c) \/ JobReady(c) \/ JobNotReady(c)

LauncherNext ==
  \/ \E c \in Clients : ClientStep(c) \/ CreateStep(c)
  \/ \E j \in Jobs : Reap(j)
  \/ Tick \/ ReapFails \/ EndPass \/ RestartLauncher

\* time passes, clients with a job beat, the reaper goes through its list and
\* Docker does not refuse a removal for ever
LauncherProgress ==
  /\ \A c \in Clients : /\ WF_launcherVars(Heartbeat(c)) /\ WF_launcherVars(DeleteJob(c))
                       /\ WF_launcherVars(CreateStep(c))
  /\ \A j \in Jobs : SF_launcherVars(Reap(j))
  /\ WF_launcherVars(EndPass)
LauncherFairness == LauncherProgress /\ WF_launcherVars(Tick)

LauncherSpec == LauncherInit /\ [][LauncherNext]_launcherVars /\ LauncherFairness

(***************************************************************************)
(* There are never more containers than the host has memory for: the count *)
(* is taken before the container is made, one creation at a time.          *)
(***************************************************************************)
AtMostMaxJobs == Cardinality(containers) <= MaxJobs

(***************************************************************************)
(* A client that goes on sending heartbeats keeps its container, also when *)
(* the launcher was restarted and knows no lease.                          *)
(***************************************************************************)
RunningJobLives == \A c \in Clients : ClientAt(c, "running") => client[c].job \in containers

(***************************************************************************)
(* A container nobody uses does not keep its place for ever: of a client   *)
(* that died, of a creation whose caller gave up, of a removal that        *)
(* failed, of a launcher that was restarted.                               *)
(***************************************************************************)
Used(j) == \E c \in Clients : create[c].job = j \/ client[c].job = j
AbandonedGoes == \A j \in Jobs : (j \in containers /\ ~Used(j)) ~> (j \notin containers)
=============================================================================
