--------------------------- MODULE Services_proofs ----------------------------
(***************************************************************************)
(* Proofs about the services around a pipeline, for any number of clients, *)
(* runs, requests and workers: the launcher of OpenCode containers, the    *)
(* event stream of a run, the push to GitHub and the deployment on         *)
(* Railway. Each is proved about as a specification of its own; the last   *)
(* theorem puts their types together.                                      *)
(***************************************************************************)
EXTENDS MCServices,
        FiniteSetTheorems, SequenceTheorems, TLAPS
-----------------------------------------------------------------------------
(***************************************************************************)
(* The launcher of OpenCode containers: its types, that the host never has *)
(* more containers than it has memory for, and that the reaper never takes *)
(* the container of a client that goes on.                                 *)
(***************************************************************************)
(***************************************************************************)
(* One creation at a time.  Its container is nobody's yet, and its lease,  *)
(* which the reaper may have begun, is not older than the creation.        *)
(***************************************************************************)
CreatePart ==
  /\ \A c \in Clients :
       /\ create[c].stage # "none" => creating
       /\ create[c].stage = "starting" =>
            /\ create[c].job \in containers
            /\ lease[create[c].job] = NoLease \/ lease[create[c].job] <= create[c].age
            /\ \A d \in Clients : client[d].job # create[c].job
  /\ \A c, d \in Clients : create[c].stage # "none" /\ create[d].stage # "none" => c = d

(***************************************************************************)
(* No two clients have the same container.  While a client runs, its       *)
(* container is there and the age of the lease is counted by the           *)
(* heartbeats that were lost.                                              *)
(***************************************************************************)
ClientPart ==
  \A c \in Clients :
    /\ client[c].stage \in {"running", "stopping"} => client[c].job \in Jobs
    /\ \A d \in Clients : client[c].job = client[d].job /\ client[c].job \in Jobs => c = d
    /\ client[c].stage = "running" =>
         /\ client[c].job \in containers
         /\ \/ lease[client[c].job] = NoLease
            \/ lease[client[c].job] <= client[c].lost + (IF client[c].beat THEN 0 ELSE 1)

\* the creation that has counted the containers has a place for one more
RoomPart ==
  /\ Cardinality(containers) <= MaxJobs
  /\ \A c \in Clients : create[c].stage = "making" => Cardinality(containers) < MaxJobs

LauncherInv == LauncherTypeOK /\ CreatePart /\ ClientPart /\ RoomPart

\* fewer containers leave at least as much room
LEMMA FewerContainers ==
  ASSUME LauncherTypeOK, NEW S \in SUBSET containers
  PROVE  /\ Cardinality(S) \in Nat /\ Cardinality(containers) \in Nat
         /\ Cardinality(S) <= Cardinality(containers)
<1>1. IsFiniteSet(containers)
  BY FS_Subset, LauncherAssumption DEF LauncherTypeOK
<1> QED
  BY <1>1, FS_Subset, FS_CardinalityType

\* what creations, clients and the reaper begin with and go back to
LEMMA Beginnings ==
  /\ NoRequest \in Creations /\ NoRequest.stage = "none"
  /\ Outside \in Positions /\ Outside.stage = "idle" /\ Outside.job = NoJob
  /\ NoPass \in Passes /\ NoLease \in Nat /\ Old \in Nat /\ Old = Lease + 1 /\ NoLease = Lease + 2
BY LauncherAssumption DEF NoRequest, Creations, Outside, Positions, NoPass, Passes, NoLease, Old

\* the fields of one creation and of one client
LEMMA Fields ==
  ASSUME LauncherTypeOK, NEW c \in Clients
  PROVE  /\ create[c] \in Creations /\ client[c] \in Positions
         /\ create[c].job \in Jobs \cup {NoJob} /\ create[c].age \in 0 .. Lease
         /\ client[c].job \in Jobs \cup {NoJob} /\ client[c].lost \in 0 .. MaxLost
         /\ client[c].beat \in BOOLEAN
BY DEF LauncherTypeOK, Creations, Positions

\* the launcher starts without containers, creations and clients
LEMMA LauncherInvInit == LauncherInit => LauncherInv
<1> SUFFICES ASSUME LauncherInit PROVE LauncherInv
  OBVIOUS
<1>1. LauncherTypeOK
  <2>1. lease \in [Jobs -> 0 .. NoLease] /\ restarts \in 0 .. MaxRestarts
    BY Beginnings, LauncherAssumption DEF LauncherInit
  <2>2. create \in [Clients -> Creations] /\ client \in [Clients -> Positions] /\ pass \in Passes
    BY Beginnings DEF LauncherInit
  <2> QED
    BY <2>1, <2>2 DEF LauncherInit, LauncherTypeOK
<1>2. CreatePart /\ ClientPart
  BY Beginnings, LauncherAssumption DEF LauncherInit, CreatePart, ClientPart
<1>3. RoomPart
  BY Beginnings, LauncherAssumption, FS_EmptySet DEF LauncherInit, RoomPart
<1> QED
  BY <1>1, <1>2, <1>3 DEF LauncherInv

\* the creations keep their type
LEMMA CreateTypes ==
  ASSUME LauncherTypeOK, [LauncherNext]_launcherVars
  PROVE  create' \in [Clients -> Creations]
<1> USE DEF LauncherTypeOK
<1>1. ASSUME NEW c \in Clients, Ask(c) \/ CountJobs(c) PROVE create' \in [Clients -> Creations]
  BY <1>1, Beginnings DEF Ask, CountJobs, EndCreation, Creations
<1>2. ASSUME NEW c \in Clients, CannotCreate(c) \/ JobReady(c) \/ JobNotReady(c)
      PROVE  create' \in [Clients -> Creations]
  BY <1>2, Beginnings DEF CannotCreate, JobReady, JobNotReady, EndCreation
<1>3. ASSUME NEW c \in Clients, MakeContainer(c) PROVE create' \in [Clients -> Creations]
  <2>1. PICK j \in Jobs : create' = [create EXCEPT ![c].stage = "starting", ![c].job = j]
    BY <1>3 DEF MakeContainer, Unused
  <2> QED
    BY <2>1 DEF Creations
<1>4. ASSUME NEW c \in Clients, \/ GiveUp(c) \/ Heartbeat(c) \/ HeartbeatLost(c)
                                \/ StopJob(c) \/ DeleteJob(c) \/ ClientDies(c)
      PROVE  create' \in [Clients -> Creations]
  BY <1>4 DEF GiveUp, Heartbeat, HeartbeatLost, StopJob, DeleteJob, ClientDies
<1>5. CASE Tick
  BY <1>5, LauncherAssumption DEF Tick, Creations
<1>6. CASE RestartLauncher
  BY <1>6, Beginnings DEF RestartLauncher
<1>7. ASSUME NEW j \in Jobs, Reap(j) PROVE create' \in [Clients -> Creations]
  BY <1>7 DEF Reap
<1>8. CASE ReapFails \/ EndPass \/ UNCHANGED launcherVars
  BY <1>8 DEF ReapFails, EndPass, launcherVars
<1> QED
  BY <1>1, <1>2, <1>3, <1>4, <1>5, <1>6, <1>7, <1>8 DEF LauncherNext, ClientStep, CreateStep

\* the clients keep their type
LEMMA ClientTypes ==
  ASSUME LauncherTypeOK, CreatePart, [LauncherNext]_launcherVars
  PROVE  client' \in [Clients -> Positions]
<1> USE DEF LauncherTypeOK
<1>1. ASSUME NEW c \in Clients, Ask(c) \/ StopJob(c) PROVE client' \in [Clients -> Positions]
  BY <1>1 DEF Ask, StopJob, Positions
<1>2. ASSUME NEW c \in Clients, Heartbeat(c) \/ HeartbeatLost(c) PROVE client' \in [Clients -> Positions]
  <2>1. CASE Heartbeat(c)
    <3>1. 0 \in 0 .. MaxLost
      BY LauncherAssumption
    <3> QED
      BY <2>1, <3>1 DEF Heartbeat, Positions
  <2>2. CASE HeartbeatLost(c)
    BY <2>2, LauncherAssumption DEF HeartbeatLost, Positions
  <2> QED
    BY <1>2, <2>1, <2>2
<1>3. ASSUME NEW c \in Clients, GiveUp(c) \/ DeleteJob(c) \/ ClientDies(c)
      PROVE  client' \in [Clients -> Positions]
  BY <1>3, Beginnings DEF GiveUp, DeleteJob, ClientDies
<1>4. ASSUME NEW c \in Clients, CountJobs(c) \/ CannotCreate(c) \/ MakeContainer(c) \/ JobNotReady(c)
      PROVE  client' \in [Clients -> Positions]
  BY <1>4, Beginnings DEF CountJobs, CannotCreate, MakeContainer, JobNotReady, Answer
<1>5. ASSUME NEW c \in Clients, JobReady(c) PROVE client' \in [Clients -> Positions]
  <2>1. [stage |-> "running", job |-> create[c].job, lost |-> 0, beat |-> TRUE] \in Positions
    BY <1>5, LauncherAssumption DEF JobReady, CreatePart, Positions
  <2> QED
    BY <1>5, <2>1 DEF JobReady, Answer
<1>6. CASE Tick
  BY <1>6 DEF Tick, Positions
<1>7. CASE RestartLauncher
  BY <1>7, Beginnings DEF RestartLauncher
<1>8. ASSUME NEW j \in Jobs, Reap(j) PROVE client' \in [Clients -> Positions]
  BY <1>8 DEF Reap
<1>9. CASE ReapFails \/ EndPass \/ UNCHANGED launcherVars
  BY <1>9 DEF ReapFails, EndPass, launcherVars
<1> QED
  BY <1>1, <1>3, <1>4, <1>5, <1>6, <1>7, <1>8, <1>9, <1>2 DEF LauncherNext, ClientStep, CreateStep

\* the containers, their leases and the rest keep their types
LEMMA OtherTypes ==
  ASSUME LauncherTypeOK, CreatePart, ClientPart, [LauncherNext]_launcherVars
  PROVE  /\ containers' \subseteq Jobs /\ lease' \in [Jobs -> 0 .. NoLease]
         /\ creating' \in BOOLEAN /\ pass' \in Passes /\ restarts' \in 0 .. MaxRestarts
<1> DEFINE Goal == /\ containers' \subseteq Jobs /\ lease' \in [Jobs -> 0 .. NoLease]
                   /\ creating' \in BOOLEAN /\ pass' \in Passes /\ restarts' \in 0 .. MaxRestarts
<1>t. /\ containers \subseteq Jobs /\ lease \in [Jobs -> 0 .. NoLease]
      /\ creating \in BOOLEAN /\ pass \in Passes /\ restarts \in 0 .. MaxRestarts
  BY DEF LauncherTypeOK
<1>1. ASSUME NEW c \in Clients, Ask(c) \/ GiveUp(c) \/ CountJobs(c) \/ CannotCreate(c) PROVE Goal
  BY <1>t, <1>1 DEF Ask, GiveUp, CountJobs, CannotCreate, EndCreation
<1>2. ASSUME NEW c \in Clients, MakeContainer(c) PROVE Goal
  BY <1>t, <1>2 DEF MakeContainer, Unused
<1>3. ASSUME NEW c \in Clients, JobReady(c) \/ JobNotReady(c) PROVE Goal
  <2>1. /\ containers' \subseteq Jobs /\ creating' \in BOOLEAN
        /\ \/ lease' = lease
           \/ lease' = [lease EXCEPT ![create[c].job] = 0]
           \/ lease' = [lease EXCEPT ![create[c].job] = NoLease]
        /\ UNCHANGED <<pass, restarts>>
    BY <1>t, <1>3 DEF JobReady, JobNotReady, Remove, EndCreation
  <2> QED
    BY <1>t, <2>1, Beginnings
<1>4. ASSUME NEW c \in Clients, Heartbeat(c) \/ HeartbeatLost(c) \/ StopJob(c) \/ ClientDies(c)
      PROVE  Goal
  BY <1>t, <1>4, Beginnings DEF Heartbeat, Renewed, HeartbeatLost, StopJob, ClientDies
<1>5. ASSUME NEW c \in Clients, DeleteJob(c) PROVE Goal
  BY <1>t, <1>5, Beginnings DEF DeleteJob, Remove
<1>6. CASE Tick
  BY <1>t, <1>6, Beginnings, LauncherAssumption DEF Tick, Passes
<1>7. ASSUME NEW j \in Jobs, Reap(j) PROVE Goal
  <2>1. pass' \in Passes
    BY <1>t, <1>7 DEF Reap, Passes
  <2> QED
    BY <1>t, <1>7, <2>1, Beginnings DEF Reap, Visit, Remove
<1>8. CASE RestartLauncher
  <2>1. restarts' \in 0 .. MaxRestarts
    BY <1>t, <1>8, LauncherAssumption DEF RestartLauncher
  <2>2. lease' \in [Jobs -> 0 .. NoLease] /\ pass' \in Passes
    BY <1>8, Beginnings DEF RestartLauncher
  <2> QED
    BY <1>t, <1>8, <2>1, <2>2 DEF RestartLauncher
<1>9. CASE ReapFails \/ EndPass \/ UNCHANGED launcherVars
  BY <1>t, <1>9, Beginnings DEF ReapFails, EndPass, launcherVars
<1> QED
  BY <1>1, <1>2, <1>3, <1>4, <1>5, <1>6, <1>7, <1>8, <1>9 DEF LauncherNext, ClientStep, CreateStep

\* every step of a client, the launcher and the reaper keeps LauncherInv
LEMMA LauncherInvNext == LauncherInv /\ [LauncherNext]_launcherVars => LauncherInv'
<1> SUFFICES ASSUME LauncherInv, [LauncherNext]_launcherVars
             PROVE  LauncherInv'
  OBVIOUS
<1>t. LauncherTypeOK /\ CreatePart /\ ClientPart /\ RoomPart
  BY DEF LauncherInv
<1>f. /\ create \in [Clients -> Creations] /\ client \in [Clients -> Positions]
      /\ containers \subseteq Jobs /\ lease \in [Jobs -> 0 .. NoLease]
  BY <1>t DEF LauncherTypeOK
<1>r. \A c \in Clients :
        /\ create[c].job \in Jobs \cup {NoJob} /\ create[c].age \in 0 .. Lease
        /\ client[c].job \in Jobs \cup {NoJob} /\ client[c].lost \in 0 .. MaxLost
        /\ client[c].beat \in BOOLEAN
  BY <1>t, Fields
<1>0. LauncherTypeOK'
  BY <1>t, CreateTypes, ClientTypes, OtherTypes DEF LauncherTypeOK
<1> USE LauncherAssumption, Beginnings DEF ClientAt
<1> DEFINE Goal == CreatePart' /\ ClientPart' /\ RoomPart'
<1>1. ASSUME NEW c \in Clients, Ask(c) PROVE Goal
  BY <1>t, <1>f, <1>1 DEF Ask, CreatePart, ClientPart, RoomPart
<1>2. ASSUME NEW c \in Clients, GiveUp(c) PROVE Goal
  BY <1>t, <1>f, <1>2 DEF GiveUp, CreatePart, ClientPart, RoomPart
<1>3. ASSUME NEW c \in Clients, CountJobs(c) PROVE Goal
  <2>0. /\ create[c].stage = "listing" /\ UNCHANGED <<containers, lease>>
        /\ \A d \in Clients : client'[d] = client[d] \/ client'[d] = Outside
        /\ \/ create' = [create EXCEPT ![c] = NoRequest]
           \/ create' = [create EXCEPT ![c].stage = "making"] /\ creating' = creating
    BY <1>f, <1>3 DEF CountJobs, EndCreation, Answer
  <2>1. CreatePart'
    BY <1>t, <1>f, <2>0 DEF CreatePart, Creations
  <2>2. ClientPart'
    BY <1>t, <1>f, <1>3 DEF CountJobs, Answer, ClientPart
  <2>3. Cardinality(containers) \in Nat
    BY <1>t, FewerContainers
  <2>4. RoomPart'
    BY <1>t, <1>f, <1>3, <2>3 DEF CountJobs, EndCreation, CreatePart, RoomPart
  <2> QED
    BY <2>1, <2>2, <2>4
<1>4. ASSUME NEW c \in Clients, CannotCreate(c) PROVE Goal
  <2>1. CreatePart' /\ RoomPart'
    BY <1>t, <1>f, <1>4 DEF CannotCreate, EndCreation, Answer, CreatePart, RoomPart
  <2>2. ClientPart'
    BY <1>t, <1>f, <1>4 DEF CannotCreate, Answer, ClientPart
  <2> QED
    BY <2>1, <2>2
<1>5. ASSUME NEW c \in Clients, MakeContainer(c) PROVE Goal
  <2>1. PICK j \in Unused : /\ containers' = containers \cup {j}
                            /\ create' = [create EXCEPT ![c].stage = "starting", ![c].job = j]
    BY <1>5 DEF MakeContainer
  <2>2. j \in Jobs \ containers /\ lease[j] = NoLease /\ \A d \in Clients : client[d].job # j
    BY <2>1 DEF Unused
  <2>3. UNCHANGED <<lease, creating, client>> /\ create[c].stage = "making"
    BY <1>5 DEF MakeContainer
  <2>4. CreatePart'
    BY <1>t, <1>f, <2>1, <2>2, <2>3 DEF CreatePart
  <2>5. ClientPart'
    BY <1>t, <1>f, <2>1, <2>3 DEF ClientPart
  <2>6. /\ Cardinality(containers') = Cardinality(containers) + 1
        /\ Cardinality(containers) < MaxJobs /\ Cardinality(containers) \in Nat
    BY <1>t, <1>f, <2>1, <2>2, <2>3, FewerContainers, FS_AddElement, FS_Subset DEF RoomPart
  <2>7. \A d \in Clients : create'[d].stage # "making"
    BY <1>t, <1>f, <2>1, <2>3 DEF CreatePart, Creations
  <2>8. RoomPart'
    BY <2>6, <2>7 DEF RoomPart
  <2> QED
    BY <2>4, <2>5, <2>8
<1>6. ASSUME NEW c \in Clients, JobReady(c) PROVE Goal
  <2>1. create[c].job \in containers /\ create[c].job \in Jobs /\ containers' = containers
    BY <1>t, <1>f, <1>6 DEF JobReady, CreatePart
  <2>2. CreatePart'
    BY <1>t, <1>f, <1>6, <2>1 DEF JobReady, EndCreation, CreatePart
  <2>3. lease' = [lease EXCEPT ![create[c].job] = 0] /\ create[c].stage = "starting"
    BY <1>6 DEF JobReady
  <2>4. \A d \in Clients : client[d].job # create[c].job
    BY <1>t, <2>3 DEF CreatePart
  <2>5. ASSUME client[c].stage = "asking" PROVE ClientPart'
    <3>1. client' = [client EXCEPT ![c] = [stage |-> "running", job |-> create[c].job, lost |-> 0, beat |-> TRUE]]
      BY <1>6, <2>5 DEF JobReady, Answer
    <3>2. /\ \A d \in Clients \ {c} : client'[d] = client[d]
          /\ client'[c].stage = "running" /\ client'[c].job = create[c].job
          /\ client'[c].lost = 0 /\ client'[c].beat = TRUE
      BY <1>f, <3>1
    <3>3. lease'[create[c].job] = 0 /\ \A j \in Jobs : lease'[j] = lease[j] \/ lease'[j] = 0
      BY <1>f, <2>1, <2>3
    <3>4. ASSUME NEW d \in Clients, client'[d].stage = "running"
          PROVE  /\ client'[d].job \in containers
                 /\ \/ lease'[client'[d].job] = NoLease
                    \/ lease'[client'[d].job] <= client'[d].lost + (IF client'[d].beat THEN 0 ELSE 1)
      BY <1>t, <1>f, <1>r, <2>1, <3>2, <3>3, <3>4 DEF ClientPart
    <3>5. \A d, e \in Clients : client'[d].job = client'[e].job /\ client'[d].job \in Jobs => d = e
      BY <1>t, <2>4, <3>2 DEF ClientPart
    <3>6. \A d \in Clients : client'[d].stage \in {"running", "stopping"} => client'[d].job \in Jobs
      BY <1>t, <2>1, <3>2 DEF ClientPart
    <3> QED
      BY <2>1, <3>4, <3>5, <3>6 DEF ClientPart
  <2>6. ASSUME client[c].stage # "asking" PROVE ClientPart'
    <3>1. client' = client
      BY <1>6, <2>6 DEF JobReady, Answer
    <3>2. \A d \in Clients : client[d].job \in Jobs => lease'[client[d].job] = lease[client[d].job]
      BY <1>f, <2>1, <2>3, <2>4
    <3> QED
      BY <1>t, <1>f, <2>1, <3>1, <3>2 DEF ClientPart
  <2>7. RoomPart'
    BY <1>t, <1>f, <1>6 DEF JobReady, EndCreation, RoomPart
  <2>8. ClientPart'
    BY <2>5, <2>6
  <2> QED
    BY <2>2, <2>7, <2>8
<1>7. ASSUME NEW c \in Clients, JobNotReady(c) PROVE Goal
  <2>1. create[c].job \in containers /\ create[c].job \in Jobs /\ create[c].stage = "starting"
    BY <1>t, <1>f, <1>7 DEF JobNotReady, CreatePart
  <2>2. create' = [create EXCEPT ![c] = NoRequest]
    BY <1>7 DEF JobNotReady, EndCreation
  <2>3. \A d \in Clients : create[d].stage # "none" => d = c
    BY <1>t, <2>1 DEF CreatePart
  <2>4. CreatePart'
    BY <1>f, <2>2, <2>3 DEF CreatePart
  <2>5. \A d \in Clients : client'[d] = client[d] \/ client'[d] = Outside
    BY <1>f, <1>7 DEF JobNotReady, Answer
  <2>6. \/ containers' = containers \ {create[c].job} /\ lease' = [lease EXCEPT ![create[c].job] = NoLease]
        \/ containers' = containers /\ lease' = lease
    BY <1>7 DEF JobNotReady, Remove
  <2>7. \A d \in Clients : client[d].job # create[c].job
    BY <1>t, <2>1 DEF CreatePart
  <2>8. ClientPart'
    BY <1>t, <1>f, <2>1, <2>5, <2>6, <2>7 DEF ClientPart
  <2>9. RoomPart'
    BY <1>t, <1>f, <2>2, <2>3, <2>6, FewerContainers DEF RoomPart
  <2> QED
    BY <2>4, <2>8, <2>9
<1>8. ASSUME NEW c \in Clients, Heartbeat(c) \/ HeartbeatLost(c) PROVE Goal
  <2>1. UNCHANGED <<containers, creating, create>>
    BY <1>8 DEF Heartbeat, HeartbeatLost
  <2>2. \A d \in Clients : client'[d].job = client[d].job /\ client'[d].stage = client[d].stage
    BY <1>f, <1>8 DEF Heartbeat, HeartbeatLost, Positions
  <2>3. lease' = lease \/ (client[c].stage = "running" /\ lease' = [lease EXCEPT ![client[c].job] = 0])
    BY <1>8 DEF Heartbeat, HeartbeatLost, Renewed
  <2>4. CreatePart'
    BY <1>t, <1>f, <1>r, <2>1, <2>2, <2>3 DEF CreatePart, ClientPart
  <2>5. \A d \in Clients : d # c => client'[d] = client[d]
    BY <1>f, <1>8 DEF Heartbeat, HeartbeatLost
  <2>6. client'[c].beat = TRUE /\ client[c].beat = FALSE /\ client[c].stage = "running"
    BY <1>f, <1>r, <1>8 DEF Heartbeat, HeartbeatLost, Positions
  <2>7. \/ lease' = [lease EXCEPT ![client[c].job] = 0] /\ client'[c].lost = 0
        \/ lease' = lease /\ client'[c].lost = client[c].lost + 1
    BY <1>t, <1>f, <1>8 DEF Heartbeat, HeartbeatLost, Renewed, Positions, ClientPart
  <2>8. ClientPart'
    BY <1>t, <1>f, <1>r, <2>1, <2>2, <2>5, <2>6, <2>7 DEF ClientPart
  <2>9. RoomPart'
    BY <1>t, <2>1 DEF RoomPart
  <2> QED
    BY <2>4, <2>8, <2>9
<1>9. ASSUME NEW c \in Clients, StopJob(c) \/ ClientDies(c) PROVE Goal
  <2>1. UNCHANGED <<containers, lease, creating, create>>
    BY <1>9 DEF StopJob, ClientDies
  <2>2. /\ \A d \in Clients \ {c} : client'[d] = client[d]
        /\ \/ client'[c] = Outside
           \/ client'[c].stage = "stopping" /\ client'[c].job = client[c].job /\ client[c].stage = "running"
    BY <1>f, <1>9 DEF StopJob, ClientDies, Positions
  <2>3. CreatePart' /\ RoomPart'
    BY <1>t, <1>f, <2>1, <2>2 DEF CreatePart, RoomPart
  <2>4. ClientPart'
    BY <1>t, <1>f, <1>r, <2>1, <2>2 DEF ClientPart
  <2> QED
    BY <2>3, <2>4
<1>10. ASSUME NEW c \in Clients, DeleteJob(c) PROVE Goal
  <2>1. client[c].job \in Jobs /\ client' = [client EXCEPT ![c] = Outside] /\ UNCHANGED <<create, creating>>
    BY <1>t, <1>10 DEF DeleteJob, ClientPart
  <2>2. \/ containers' = containers \ {client[c].job} /\ lease' = [lease EXCEPT ![client[c].job] = NoLease]
        \/ containers' = containers /\ lease' = lease
    BY <1>10 DEF DeleteJob, Remove
  <2>3. CreatePart'
    BY <1>t, <1>f, <1>r, <2>1, <2>2 DEF CreatePart
  <2>4. ClientPart'
    BY <1>t, <1>f, <1>r, <2>1, <2>2 DEF ClientPart
  <2>5. RoomPart'
    BY <1>t, <1>f, <2>1, <2>2, FewerContainers DEF RoomPart
  <2> QED
    BY <2>3, <2>4, <2>5
<1>11. ASSUME Tick PROVE Goal
  <2>1. /\ \A c \in Clients : /\ client'[c].stage = client[c].stage /\ client'[c].job = client[c].job
                              /\ client'[c].lost = client[c].lost
                              /\ client[c].stage = "running" => client[c].beat /\ client'[c].beat = FALSE
        /\ UNCHANGED <<containers, creating>>
    BY <1>f, <1>11 DEF Tick, Positions
  <2>2. \A c \in Clients : /\ create'[c].stage = create[c].stage /\ create'[c].job = create[c].job
                           /\ create[c].stage = "starting" => create'[c].age = create[c].age + 1
    BY <1>f, <1>11 DEF Tick, Creations
  <2>4. \A j \in containers : /\ lease[j] = NoLease => lease'[j] = NoLease
                              /\ lease[j] <= Lease => lease'[j] = lease[j] + 1
    BY <1>f, <1>11 DEF Tick
  <2>5. CreatePart'
    BY <1>t, <1>f, <1>r, <2>1, <2>2, <2>4 DEF CreatePart
  <2>6. ClientPart'
    BY <1>t, <1>f, <1>r, <2>1, <2>4 DEF ClientPart
  <2>7. RoomPart'
    BY <1>t, <2>1, <2>2 DEF RoomPart
  <2> QED
    BY <2>5, <2>6, <2>7
<1>12. ASSUME NEW j \in Jobs, Reap(j) PROVE Goal
  <2>1. UNCHANGED <<creating, create, client>>
    BY <1>12 DEF Reap
  <2>2. \/ lease[j] = Old /\ containers' = containers \ {j} /\ lease' = [lease EXCEPT ![j] = NoLease]
        \/ containers' = containers /\ (lease' = lease \/ lease' = [lease EXCEPT ![j] = 0])
    BY <1>12 DEF Reap, Visit, Abandoned, Remove
  <2>3. CreatePart'
    BY <1>t, <1>f, <1>r, <2>1, <2>2 DEF CreatePart
  <2>4. ClientPart'
    BY <1>t, <1>f, <1>r, <2>1, <2>2 DEF ClientPart
  <2>5. RoomPart'
    BY <1>t, <1>f, <2>1, <2>2, FewerContainers DEF RoomPart
  <2> QED
    BY <2>3, <2>4, <2>5
<1>13. ASSUME ReapFails \/ EndPass PROVE Goal
  BY <1>t, <1>13 DEF ReapFails, EndPass, CreatePart, ClientPart, RoomPart
<1>14. ASSUME RestartLauncher PROVE Goal
  <2>1. /\ containers' = containers /\ lease' = [j \in Jobs |-> NoLease]
        /\ create' = [c \in Clients |-> NoRequest]
        /\ \A c \in Clients : client'[c] = client[c] \/ client'[c] = Outside
    BY <1>f, <1>14 DEF RestartLauncher
  <2> QED
    BY <1>t, <1>f, <2>1 DEF CreatePart, ClientPart, RoomPart
<1>15. ASSUME UNCHANGED launcherVars PROVE Goal
  BY <1>t, <1>15 DEF launcherVars, CreatePart, ClientPart, RoomPart
<1>16. Goal
  BY <1>1, <1>2, <1>3, <1>4, <1>5, <1>6, <1>7, <1>8, <1>9, <1>10, <1>11, <1>12, <1>13, <1>14, <1>15
     DEF LauncherNext, ClientStep, CreateStep
<1> QED
  BY <1>0, <1>16 DEF LauncherInv

(***************************************************************************)
(* LauncherInv holds in every state of the launcher, whatever is lost or   *)
(* restarted.                                                              *)
(***************************************************************************)
THEOREM LauncherInvariant == LauncherSpec => []LauncherInv
BY LauncherInvInit, LauncherInvNext, PTL DEF LauncherSpec

(***************************************************************************)
(* The containers, leases and requests of the launcher keep their types.   *)
(***************************************************************************)
THEOREM LauncherTypeCorrect == LauncherSpec => []LauncherTypeOK
<1>1. LauncherInv => LauncherTypeOK
  BY DEF LauncherInv
<1> QED
  BY <1>1, LauncherInvariant, PTL

(***************************************************************************)
(* The limit of the launcher holds for any number of clients that ask, and *)
(* whatever creation is abandoned or interrupted.                          *)
(***************************************************************************)
THEOREM AtMostMaxJobsHolds == LauncherSpec => []AtMostMaxJobs
<1>1. LauncherInv => AtMostMaxJobs
  BY DEF LauncherInv, RoomPart, AtMostMaxJobs
<1> QED
  BY <1>1, LauncherInvariant, PTL

(***************************************************************************)
(* No pass of the reaper, no end of another client and no restart takes    *)
(* the container of a client whose heartbeats are not all lost.            *)
(***************************************************************************)
THEOREM RunningJobLivesHolds == LauncherSpec => []RunningJobLives
<1>1. LauncherInv => RunningJobLives
  BY DEF LauncherInv, ClientPart, RunningJobLives, ClientAt
<1> QED
  BY <1>1, LauncherInvariant, PTL

-----------------------------------------------------------------------------
(***************************************************************************)
(* The event stream of a run: its types, and that the end a subscriber     *)
(* reads is that of a run of its own time.                                 *)
(***************************************************************************)
(***************************************************************************)
(* One run at a time is neither cancelled nor on its way out: the one its  *)
(* worker holds, which is the last one started.                            *)
(***************************************************************************)
RunPart ==
  /\ \A r \in Runs : stage[r] \in {"unborn", "new", "cleared", "running"} => sent[r] <= MaxEvents
  /\ \A r \in Runs : stage[r] \in {"new", "cleared", "running"} => current = r
  /\ \A q, r \in Runs : q < r /\ stage[q] = "unborn" => stage[r] = "unborn"
  /\ current # NoRun => \A r \in Runs : r > current => stage[r] = "unborn"
  /\ current # NoRun => stage[current] # "unborn"

(***************************************************************************)
(* What was cleared is of earlier runs than the one that cleared, and the  *)
(* markers that are left are of that run or of later ones.                 *)
(***************************************************************************)
LogPart ==
  /\ owner # NoRun => stage[owner] # "unborn"
  /\ \A i \in 1 .. Len(log) : stage[log[i].run] \notin {"unborn", "new"}
  /\ \A i \in 1 .. cleared : log[i].run < owner
  /\ \A i \in 1 .. Len(log) : i > cleared /\ log[i].end => log[i].run >= owner

\* a subscriber has seen all that is in the stream up to where it is
SubPart ==
  /\ \A s \in Subs : sub[s].from <= owner
  /\ \A s \in Subs, i \in 1 .. Len(log) : cleared < i /\ i <= sub[s].last => i \in sub[s].seen

StreamInv == StreamTypeOK /\ RunPart /\ LogPart /\ SubPart /\ EndOfItsOwnRun

\* what a subscriber can be with n entries in the log
Reader(n) == [stage : {"away", "reading", "ended"}, local : BOOLEAN, last : 0 .. n,
              seen : SUBSET (1 .. n), from : Runs \cup {NoRun}, end : 0 .. n]

\* the first state
LEMMA StreamInit_Inv == ASSUME StreamAssumption, StreamInit PROVE StreamInv
<1> USE DEF StreamAssumption, Runs, NoRun
<1>1. StreamTypeOK
  <2>1. log \in Seq([run : Runs, end : BOOLEAN]) /\ Len(log) = 0
    BY DEF StreamInit
  <2>2. NotReading \in Reader(0)
    BY DEF NotReading, Reader
  <2>3. sub \in [Subs -> Reader(Len(log))]
    BY <2>1, <2>2 DEF StreamInit
  <2> QED
    <3>1. cleared \in 0 .. Len(log) /\ sent \in [Runs -> 0 .. MaxEvents + 1] /\ faults \in 0 .. MaxFaults
      BY <2>1 DEF StreamInit
    <3>2. sub \in [Subs -> [stage : {"away", "reading", "ended"}, local : BOOLEAN,
                       last : 0 .. Len(log), seen : SUBSET (1 .. Len(log)),
                       from : Runs \cup {NoRun}, end : 0 .. Len(log)]]
      BY <2>3 DEF Reader
    <3>3. stage \in [Runs -> {"unborn", "new", "cleared", "running", "leaving", "closing",
                         "marked", "over"}]
      BY DEF StreamInit
    <3>4. active \in BOOLEAN /\ owner = 0 /\ current = 0
      BY DEF StreamInit
    <3> QED
      BY <2>1, <3>1, <3>2, <3>3, <3>4 DEF StreamTypeOK
<1>2. Len(log) = 0
  BY DEF StreamInit
<1>3. RunPart
  BY DEF StreamInit, RunPart
<1>4. LogPart
  BY <1>2 DEF StreamInit, LogPart
<1>5. SubPart /\ EndOfItsOwnRun
  BY <1>2 DEF StreamInit, SubPart, EndOfItsOwnRun, NotReading
<1> QED
  BY <1>1, <1>3, <1>4, <1>5 DEF StreamInv
-----------------------------------------------------------------------------
\* what xadd does to the log: nothing, or one more entry at its end
LEMMA AddGrows ==
  ASSUME StreamAssumption, StreamTypeOK, NEW r \in Runs, NEW e \in BOOLEAN, Add(r, e)
  PROVE  /\ log' \in Seq([run : Runs, end : BOOLEAN]) /\ faults' \in 0 .. MaxFaults
         /\ Len(log') >= Len(log)
         /\ \/ Len(log') = Len(log) /\ log' = log
            \/ /\ Len(log') = Len(log) + 1
               /\ log'[Len(log) + 1] = [run |-> r, end |-> e]
         /\ \A i \in 1 .. Len(log) : log'[i] = log[i]
<1> DEFINE x == [run |-> r, end |-> e]
<1>1. x \in [run : Runs, end : BOOLEAN]
  OBVIOUS
<1>2. CASE log' = Append(log, x) /\ UNCHANGED faults
  <2> HIDE DEF x
  <2>1. /\ log' \in Seq([run : Runs, end : BOOLEAN]) /\ Len(log') = Len(log) + 1
        /\ log'[Len(log) + 1] = x /\ \A i \in 1 .. Len(log) : log'[i] = log[i]
    BY <1>1, <1>2, AppendProperties DEF StreamTypeOK
  <2>2. Len(log) \in Nat
    BY DEF StreamTypeOK
  <2> QED
    BY <1>2, <2>1, <2>2 DEF StreamTypeOK, x
<1>3. CASE Fault /\ UNCHANGED log
  <2>1. Len(log) \in Nat
    BY DEF StreamTypeOK
  <2> QED
    BY <1>3, <2>1 DEF Fault, StreamTypeOK, StreamAssumption
<1> QED
  BY <1>2, <1>3 DEF Add

\* a longer log is still as long as what was read of it
LEMMA SubTypeGrows ==
  ASSUME StreamTypeOK, log' \in Seq([run : Runs, end : BOOLEAN]), Len(log') >= Len(log),
         sub' = sub, cleared' = cleared
  PROVE  cleared' \in 0 .. Len(log') /\ sub' \in [Subs -> Reader(Len(log'))]
<1>1. Len(log) \in Nat /\ Len(log') \in Nat
  BY DEF StreamTypeOK
<1>2. 0 .. Len(log) \subseteq 0 .. Len(log') /\ 1 .. Len(log) \subseteq 1 .. Len(log')
  BY <1>1
<1>3. Reader(Len(log)) \subseteq Reader(Len(log'))
  BY <1>2 DEF Reader
<1> QED
  BY <1>2, <1>3 DEF StreamTypeOK, Reader

\* one subscriber changes, the log does not
LEMMA OneReader ==
  ASSUME StreamTypeOK, log' = log, NEW s \in Subs, NEW x \in Reader(Len(log)),
         sub' = [sub EXCEPT ![s] = x]
  PROVE  sub' \in [Subs -> Reader(Len(log'))]
<1> DEFINE R == Reader(Len(log))
<1>1. sub \in [Subs -> R]
  BY DEF StreamTypeOK, Reader
<1> HIDE DEF R
<1>2. sub' \in [Subs -> R]
  BY <1>1 DEF R
<1> QED
  BY <1>2 DEF R

\* a step keeps the types of the log, the runs and the subscribers
LEMMA StreamTypeStep ==
  ASSUME StreamAssumption, StreamTypeOK, RunPart, [StreamNext]_streamVars PROVE StreamTypeOK'
<1> DEFINE SubOK == sub \in [Subs -> Reader(Len(log))]
           StageOK == stage \in [Runs -> {"unborn", "new", "cleared", "running", "leaving", "closing",
                                         "marked", "over"}]
           RestOK == /\ sent \in [Runs -> 0 .. MaxEvents + 1]
                     /\ current \in Runs \cup {NoRun}
                     /\ log \in Seq([run : Runs, end : BOOLEAN])
                     /\ cleared \in 0..Len(log) /\ owner \in Runs \cup {NoRun}
                     /\ active \in BOOLEAN /\ faults \in 0 .. MaxFaults
<1>0. /\ StreamTypeOK <=> SubOK /\ StageOK /\ RestOK
      /\ StreamTypeOK' <=> SubOK' /\ StageOK' /\ RestOK'
  BY DEF StreamTypeOK, Reader
<1>00. SubOK /\ StageOK /\ RestOK
  BY <1>0
<1>n. Len(log) \in Nat
  BY <1>00
<1> HIDE DEF SubOK
<1>s. UNCHANGED <<sub, log>> => SubOK'
  BY <1>00 DEF SubOK
<1>1. ASSUME NEW r \in Runs, StartRun(r) PROVE StreamTypeOK'
  <2>1. \A q \in Runs : Cancelled(stage[q]) \in {"new", "cleared", "running", "unborn", "leaving", "closing",
                                         "marked", "over"}
    BY <1>00 DEF Cancelled
  <2> QED
    BY <1>0, <1>00, <1>1, <1>s, <2>1 DEF StartRun
<1>2. ASSUME NEW r \in Runs, ClearStream(r) PROVE StreamTypeOK'
  BY <1>0, <1>00, <1>2, <1>s DEF ClearStream, Move
<1>3. ASSUME NEW r \in Runs, MarkActive(r) \/ RenewKey(r) \/ RunEnds(r) \/ ForgetRun(r) \/ LeaveSilently(r)
      PROVE StreamTypeOK'
  BY <1>0, <1>00, <1>3, <1>s DEF MarkActive, RenewKey, RunEnds, ForgetRun, LeaveSilently, Move, runVars
<1>4. ASSUME NEW r \in Runs, StartsUnmarked(r) \/ DropKey(r) PROVE StreamTypeOK'
  <2>1. faults' \in 0 .. MaxFaults
    BY <1>00, <1>4 DEF StartsUnmarked, DropKey, Fault, StreamAssumption
  <2> QED
    BY <1>0, <1>00, <1>4, <1>s, <2>1 DEF StartsUnmarked, DropKey, Move
<1>5. ASSUME NEW r \in Runs, Publish(r) \/ RunRaises(r) \/ WriteMarker(r) PROVE StreamTypeOK'
  <2>1. /\ log' \in Seq([run : Runs, end : BOOLEAN]) /\ faults' \in 0 .. MaxFaults
        /\ Len(log') >= Len(log)
    <3>1. PICK e \in BOOLEAN : Add(r, e)
      BY <1>5 DEF Publish, RunRaises, WriteMarker
    <3> QED
      BY <3>1, AddGrows
  <2>2. sub' = sub /\ cleared' = cleared /\ owner' = owner /\ active' = active /\ current' = current
    BY <1>5 DEF Publish, RunRaises, WriteMarker
  <2>3. StageOK'
    BY <1>00, <1>5 DEF Publish, RunRaises, WriteMarker, Move
  <2>4. sent' \in [Runs -> 0 .. MaxEvents + 1]
    <3>1. CASE sent' = sent
      BY <1>00, <3>1
    <3>2. CASE stage[r] = "running" /\ sent' = [sent EXCEPT ![r] = @ + 1]
      <4>1. sent[r] + 1 \in 0 .. MaxEvents + 1
        BY <1>00, <3>2 DEF RunPart, StreamAssumption
      <4> QED
        BY <1>00, <3>2, <4>1
    <3> QED
      BY <1>5, <3>1, <3>2 DEF Publish, RunRaises, WriteMarker, Move
  <2>5. cleared' \in 0 .. Len(log') /\ SubOK'
    BY <2>1, <2>2, SubTypeGrows DEF SubOK
  <2> QED
    BY <1>0, <1>00, <2>1, <2>2, <2>3, <2>4, <2>5
<1>6. ASSUME Shut \/ KeyExpires PROVE StreamTypeOK'
  <2>1. \A q \in Runs : Cancelled(stage[q]) \in {"new", "cleared", "running", "unborn", "leaving", "closing",
                                         "marked", "over"}
    BY <1>00 DEF Cancelled
  <2> QED
    BY <1>0, <1>00, <1>6, <1>s, <2>1 DEF Shut, KeyExpires, runVars
<1>7. ASSUME WorkerDies PROVE StreamTypeOK'
  <2>1. NotReading \in Reader(Len(log))
    BY <1>00 DEF NotReading, Reader, NoRun
  <2>2. SubOK'
    BY <1>00, <1>7, <2>1 DEF SubOK, WorkerDies
  <2> QED
    BY <1>0, <1>00, <1>7, <2>2 DEF WorkerDies, Fault, StreamAssumption
<1>8. ASSUME NEW s \in Subs, NEW x \in Reader(Len(log)), sub' = [sub EXCEPT ![s] = x],
             UNCHANGED <<runVars, log, cleared, owner, active>>, faults' \in 0 .. MaxFaults
      PROVE  StreamTypeOK'
  <2>1. SubOK'
    BY <1>8, OneReader DEF SubOK
  <2> QED
    BY <1>0, <1>00, <1>8, <2>1 DEF runVars
<1>9. ASSUME NEW s \in Subs, Subscribe(s) PROVE StreamTypeOK'
  <2>1. PICK local \in BOOLEAN :
          sub' = [sub EXCEPT ![s] = [NotReading EXCEPT !.stage = "reading", !.local = local, !.from = owner]]
    BY <1>9 DEF Subscribe
  <2>2. [NotReading EXCEPT !.stage = "reading", !.local = local, !.from = owner] \in Reader(Len(log))
    <3>1. {} \in SUBSET (1 .. Len(log)) /\ 0 \in 0 .. Len(log)
      BY <1>n
    <3> QED
      BY <1>00, <3>1 DEF NotReading, Reader
  <2> QED
    BY <1>00, <1>8, <1>9, <2>1, <2>2 DEF Subscribe
<1>10. sub \in [Subs -> Reader(Len(log))]
  BY <1>00 DEF SubOK
<1>11. ASSUME NEW s \in Subs, ReadEntry(s) PROVE StreamTypeOK'
  <2> DEFINE i == Entry(s)
             x == [sub[s] EXCEPT !.last = i, !.seen = @ \cup {i},
                        !.stage = IF log[i].end THEN "ended" ELSE @,
                        !.end = IF log[i].end THEN i ELSE @]
  <2>1. i \in 1 .. Len(log)
    BY <1>00, <1>10, <1>11 DEF ReadEntry, SomethingNew, Entry, Larger, Reader
  <2>2. sub' = [sub EXCEPT ![s] = x]
    BY <1>10, <1>11 DEF ReadEntry
  <2> DEFINE n == Len(log)
  <2> HIDE DEF i, n
  <2>3. x \in Reader(n)
    <3>1. sub[s] \in Reader(n)
      BY <1>10 DEF n
    <3>2. i \in 1 .. n /\ n \in Nat
      BY <1>n, <2>1 DEF n
    <3>3. sub[s].seen \cup {i} \in SUBSET (1 .. n)
      BY <3>1, <3>2 DEF Reader
    <3>4. i \in 0 .. n
      BY <3>2
    <3> QED
      BY <3>1, <3>3, <3>4 DEF Reader
  <2> QED
    BY <1>00, <1>8, <1>11, <2>2, <2>3 DEF ReadEntry, n
<1>12. ASSUME NEW s \in Subs, Abandon(s) \/ Disconnect(s) PROVE StreamTypeOK'
  <2>1. sub' = [sub EXCEPT ![s] = [sub[s] EXCEPT !.stage = "ended"]]
    BY <1>10, <1>12 DEF Abandon, Disconnect
  <2>2. [sub[s] EXCEPT !.stage = "ended"] \in Reader(Len(log))
    BY <1>10 DEF Reader
  <2> QED
    <3>1. faults' \in 0 .. MaxFaults
      BY <1>00, <1>12 DEF Abandon, Disconnect, Fault, StreamAssumption
    <3> QED
      BY <1>8, <1>12, <2>1, <2>2, <3>1 DEF Abandon, Disconnect
<1>13. ASSUME UNCHANGED streamVars PROVE StreamTypeOK'
  BY <1>0, <1>00, <1>13, <1>s DEF streamVars
<1> QED
  BY <1>1, <1>2, <1>3, <1>4, <1>5, <1>6, <1>7, <1>9, <1>11, <1>12, <1>13 DEF StreamNext, RunStep

\* at most one run is not on its way out
LEMMA RunStepKeeps ==
  ASSUME StreamAssumption, StreamTypeOK, RunPart, [StreamNext]_streamVars PROVE RunPart'
<1> USE DEF StreamTypeOK, RunPart, NoRun, Runs, StreamAssumption
<1>1. ASSUME NEW r \in Runs, StartRun(r) PROVE RunPart'
  <2>1. stage'[r] = "new" /\ current' = r /\ sent' = sent /\ sent[r] <= MaxEvents
    BY <1>1 DEF StartRun
  <2>2. \A q \in Runs \ {r} : /\ stage'[q] \notin {"new", "cleared", "running"}
                              /\ stage'[q] = "unborn" <=> stage[q] = "unborn"
    BY <1>1 DEF StartRun, Cancelled
  <2>3. \A q \in Runs : q < r => stage[q] # "unborn"
    BY <1>1 DEF StartRun
  <2>4. \A q \in Runs : q >= r => stage[q] = "unborn"
    BY <1>1 DEF StartRun
  <2> QED
    BY <2>1, <2>2, <2>3, <2>4
<1>2. ASSUME NEW r \in Runs, stage[r] # "unborn",
             NEW t \in {"cleared", "running", "leaving", "closing", "marked", "over"},
             stage' = [stage EXCEPT ![r] = t],
             t \in {"cleared", "running"} => stage[r] \in {"new", "cleared"},
             \/ sent' = sent
             \/ t \notin {"cleared", "running"} /\ sent' = [sent EXCEPT ![r] = @ + 1],
             current' = current
      PROVE  RunPart'
  BY <1>2
<1>3. ASSUME NEW r \in Runs, ClearStream(r) \/ MarkActive(r) \/ StartsUnmarked(r) \/ RunEnds(r)
                             \/ RunRaises(r) \/ DropKey(r) \/ WriteMarker(r) \/ LeaveSilently(r)
      PROVE  RunPart'
  <2>1. PICK t \in {"cleared", "running", "leaving", "closing", "marked", "over"} :
           /\ stage' = [stage EXCEPT ![r] = t] /\ stage[r] # "unborn"
           /\ t \in {"cleared", "running"} => stage[r] \in {"new", "cleared"}
           /\ \/ sent' = sent
              \/ t \notin {"cleared", "running"} /\ sent' = [sent EXCEPT ![r] = @ + 1]
    BY <1>3 DEF ClearStream, MarkActive, StartsUnmarked, RunEnds, RunRaises, DropKey, WriteMarker,
                LeaveSilently, Move
  <2>2. current' = current
    BY <1>3 DEF ClearStream, MarkActive, StartsUnmarked, RunEnds, RunRaises, DropKey, WriteMarker,
                LeaveSilently
  <2> QED
    BY <1>2, <2>1, <2>2
<1>4. ASSUME NEW r \in Runs, Publish(r) PROVE RunPart'
  BY <1>4 DEF Publish
<1>5. ASSUME NEW r \in Runs, ForgetRun(r) PROVE RunPart'
  BY <1>5 DEF ForgetRun, Move, StillCurrent
<1>6. ASSUME Shut PROVE RunPart'
  BY <1>6 DEF Shut, Cancelled
<1>7. ASSUME WorkerDies PROVE RunPart'
  BY <1>7 DEF WorkerDies, Live
<1>8. ASSUME UNCHANGED runVars PROVE RunPart'
  BY <1>8 DEF runVars
<1> QED
  BY <1>1, <1>3, <1>4, <1>5, <1>6, <1>7, <1>8
  DEF StreamNext, RunStep, streamVars, runVars, RenewKey, KeyExpires, Subscribe, ReadEntry, Abandon, Disconnect

\* the entries of the log are entries
LEMMA LogEntries ==
  ASSUME StreamTypeOK
  PROVE  Len(log) \in Nat /\ \A i \in 1 .. Len(log) : log[i] \in [run : Runs, end : BOOLEAN] /\ log[i].run \in Runs
<1> DEFINE S == [run : Runs, end : BOOLEAN]
<1>1. log \in Seq(S) /\ Len(log) \in Nat
  BY DEF StreamTypeOK
<1> HIDE DEF S
<1>2. \A i \in 1 .. Len(log) : log[i] \in S
  BY <1>1, ElementOfSeq
<1> QED
  BY <1>1, <1>2 DEF S

\* the runs that wrote are those that started to run, and none starts over
LEMMA LogStepKeeps ==
  ASSUME StreamAssumption, StreamTypeOK, RunPart, LogPart, [StreamNext]_streamVars PROVE LogPart'
<1> USE DEF StreamTypeOK, NoRun
<1>0. Len(log) \in Nat /\ \A i \in 1 .. Len(log) : log[i].run \in Runs
  BY LogEntries
<1>1. ASSUME UNCHANGED <<log, cleared, owner>>,
             \A q \in Runs : stage'[q] = "unborn" => stage[q] = "unborn",
             \A q \in Runs : stage'[q] = "new" => stage[q] \in {"unborn", "new"}
      PROVE  LogPart'
  BY <1>0, <1>1 DEF LogPart
<1>2. ASSUME NEW r \in Runs, StartRun(r) PROVE LogPart'
  <2>1. \A q \in Runs : /\ stage'[q] = "unborn" => stage[q] = "unborn"
                        /\ stage'[q] = "new" => stage[q] \in {"unborn", "new"}
    BY <1>2 DEF StartRun, Cancelled
  <2> QED
    BY <1>1, <1>2, <2>1 DEF StartRun
<1>3. ASSUME NEW r \in Runs, ClearStream(r) PROVE LogPart'
  <2>1. current = r /\ stage[r] = "new" /\ owner' = r /\ cleared' = Len(log) /\ log' = log
        /\ stage' = [stage EXCEPT ![r] = "cleared"]
    BY <1>3 DEF ClearStream, Move, RunPart
  <2>2. \A i \in 1 .. Len(log) : log[i].run < r
    <3> SUFFICES ASSUME NEW i \in 1 .. Len(log) PROVE log[i].run < r
      OBVIOUS
    <3>1. log[i].run # r
      BY <2>1 DEF LogPart
    <3>2. ~(log[i].run > r)
      BY <1>0, <2>1 DEF LogPart, RunPart, Runs
    <3>3. log[i].run \in Nat /\ r \in Nat
      BY <1>0 DEF Runs, StreamAssumption
    <3> HIDE DEF LogPart, RunPart, StreamTypeOK
    <3> QED
      BY ONLY <3>1, <3>2, <3>3
  <2> QED
    BY <1>0, <2>1, <2>2 DEF LogPart
<1>4. ASSUME NEW r \in Runs, MarkActive(r) \/ StartsUnmarked(r) \/ RunEnds(r) \/ DropKey(r) \/ ForgetRun(r)
                             \/ LeaveSilently(r) \/ RenewKey(r)
      PROVE  LogPart'
  <2>1. \A q \in Runs : /\ stage'[q] = "unborn" => stage[q] = "unborn"
                        /\ stage'[q] = "new" => stage[q] \in {"unborn", "new"}
    BY <1>4 DEF MarkActive, StartsUnmarked, RunEnds, DropKey, ForgetRun, LeaveSilently, RenewKey, Move, runVars
  <2>2. UNCHANGED <<log, cleared, owner>>
    BY <1>4 DEF MarkActive, StartsUnmarked, RunEnds, DropKey, ForgetRun, LeaveSilently, RenewKey
  <2> QED
    BY <1>1, <2>1, <2>2
<1>5. ASSUME NEW r \in Runs, NEW e \in BOOLEAN, Add(r, e), stage[r] \notin {"unborn", "new"},
             e => current = r, UNCHANGED <<cleared, owner>>,
             \A q \in Runs : stage'[q] \in {"unborn", "new"} => stage'[q] = stage[q]
      PROVE  LogPart'
  <2>1. /\ \A i \in 1 .. Len(log) : log'[i] = log[i]
        /\ \/ Len(log') = Len(log) /\ log' = log
           \/ /\ Len(log') = Len(log) + 1 /\ log'[Len(log) + 1] = [run |-> r, end |-> e]
    BY <1>5, AddGrows
  <2>2. CASE log' = log
    BY <1>0, <1>5, <2>2 DEF LogPart
  <2>3. CASE Len(log') = Len(log) + 1 /\ log'[Len(log) + 1] = [run |-> r, end |-> e]
    <3>1. e => r >= owner
      BY <1>5 DEF LogPart, RunPart, Runs, StreamAssumption
    <3>2. \A i \in 1 .. Len(log') : i \in 1 .. Len(log) \/ i = Len(log) + 1
      BY <1>0, <2>3
    <3>3. \A i \in 1 .. cleared : i \in 1 .. Len(log)
      BY <1>0
    <3>4. log'[Len(log) + 1].run = r /\ log'[Len(log) + 1].end = e
      BY <2>3
    <3>5. \A i \in 1 .. Len(log') : stage'[log'[i].run] \notin {"unborn", "new"}
      BY <1>0, <1>5, <2>1, <3>2, <3>4 DEF LogPart
    <3>6. \A i \in 1 .. cleared' : log'[i].run < owner'
      BY <1>5, <2>1, <3>3 DEF LogPart
    <3>7. \A i \in 1 .. Len(log') : i > cleared' /\ log'[i].end => log'[i].run >= owner'
      BY <1>5, <2>1, <3>1, <3>2, <3>4 DEF LogPart
    <3> QED
      BY <1>5, <3>5, <3>6, <3>7 DEF LogPart
  <2> QED
    BY <2>1, <2>2, <2>3
<1>6. ASSUME NEW r \in Runs, Publish(r) \/ RunRaises(r) PROVE LogPart'
  BY <1>5, <1>6 DEF Publish, RunRaises, Move
<1>7. ASSUME NEW r \in Runs, WriteMarker(r) PROVE LogPart'
  BY <1>5, <1>7 DEF WriteMarker, Move, StillCurrent
<1>8. ASSUME Shut PROVE LogPart'
  BY <1>1, <1>8 DEF Shut, Cancelled
<1>9. ASSUME WorkerDies PROVE LogPart'
  BY <1>1, <1>9 DEF WorkerDies, Live
<1>10. ASSUME UNCHANGED <<stage, log, cleared, owner>> PROVE LogPart'
  BY <1>1, <1>10
<1> QED
  BY <1>2, <1>3, <1>4, <1>6, <1>7, <1>8, <1>9, <1>10
  DEF StreamNext, RunStep, streamVars, runVars, KeyExpires, Subscribe, ReadEntry, Abandon, Disconnect

\* entries are never changed, and what clears the stream is the last run started
LEMMA LogOnlyGrows ==
  ASSUME StreamAssumption, StreamTypeOK, RunPart, LogPart, [StreamNext]_streamVars
  PROVE  /\ Len(log) \in Nat /\ Len(log') \in Nat /\ Len(log') >= Len(log) /\ cleared' >= cleared /\ owner' >= owner
         /\ \A i \in 1 .. Len(log) : log'[i] = log[i]
<1> USE DEF StreamTypeOK, NoRun
<1>0. Len(log) \in Nat
  OBVIOUS
<1>1. ASSUME NEW r \in Runs, Publish(r) \/ RunRaises(r) \/ WriteMarker(r)
      PROVE  /\ Len(log') \in Nat /\ Len(log') >= Len(log) /\ \A i \in 1 .. Len(log) : log'[i] = log[i]
             /\ cleared' = cleared /\ owner' = owner
  <2>1. PICK e \in BOOLEAN : Add(r, e)
    BY <1>1 DEF Publish, RunRaises, WriteMarker
  <2>2. log' \in Seq([run : Runs, end : BOOLEAN]) /\ Len(log') >= Len(log) /\ \A i \in 1 .. Len(log) : log'[i] = log[i]
    BY <2>1, AddGrows
  <2>3. Len(log') \in Nat
    BY <2>2
  <2> QED
    BY <1>1, <2>2, <2>3 DEF Publish, RunRaises, WriteMarker
<1>2. ASSUME NEW r \in Runs, ClearStream(r) PROVE log' = log /\ cleared' >= cleared /\ owner' >= owner
  BY <1>0, <1>2 DEF ClearStream, Move, RunPart, LogPart, Runs, StreamAssumption
<1>3. ASSUME UNCHANGED <<log, cleared, owner>> PROVE log' = log /\ cleared' >= cleared /\ owner' >= owner
  BY <1>0, <1>3 DEF Runs
<1>4. \/ \E r \in Runs : Publish(r) \/ RunRaises(r) \/ WriteMarker(r)
      \/ \E r \in Runs : ClearStream(r)
      \/ UNCHANGED <<log, cleared, owner>>
  BY DEF StreamNext, RunStep, streamVars, runVars, StartRun, MarkActive, StartsUnmarked, RenewKey, RunEnds,
      DropKey, ForgetRun, LeaveSilently, Shut, WorkerDies, KeyExpires, Subscribe, ReadEntry, Abandon, Disconnect
<1>5. cleared' >= cleared /\ owner' >= owner
  BY <1>1, <1>2, <1>3, <1>4 DEF Runs
<1>6. Len(log') \in Nat /\ Len(log') >= Len(log) /\ \A i \in 1 .. Len(log) : log'[i] = log[i]
  BY <1>0, <1>1, <1>2, <1>3, <1>4
<1> QED
  BY <1>0, <1>5, <1>6

\* the subscribers of a step: where they are, and what they have seen
LEMMA SubStepKeeps ==
  ASSUME StreamAssumption, StreamInv, [StreamNext]_streamVars PROVE SubPart' /\ EndOfItsOwnRun'
<1> USE DEF NoRun
<1>0. StreamTypeOK /\ RunPart /\ LogPart /\ SubPart /\ EndOfItsOwnRun
  BY DEF StreamInv
<1>1. /\ Len(log) \in Nat /\ Len(log') \in Nat /\ Len(log') >= Len(log) /\ cleared' >= cleared /\ owner' >= owner
      /\ \A i \in 1 .. Len(log) : log'[i] = log[i]
  BY <1>0, LogOnlyGrows
<1>2. /\ cleared \in Nat /\ cleared' \in Nat /\ owner \in Nat /\ owner' \in Nat
      /\ \A i \in 1 .. Len(log) : log[i].run \in Nat
      /\ \A s \in Subs : /\ sub[s].last \in 0 .. Len(log) /\ sub[s].end \in 0 .. Len(log)
                         /\ sub[s].from \in Nat /\ sub[s].seen \subseteq 1 .. Len(log)
  <2>1. StreamTypeOK /\ StreamTypeOK'
    BY <1>0, StreamTypeStep
  <2>2. cleared \in Nat /\ owner \in Nat
    BY <1>1, <2>1 DEF StreamTypeOK, Runs
  <2>3. cleared' \in Nat /\ owner' \in Nat
    BY <1>1, <2>1 DEF StreamTypeOK, Runs
  <2>4. \A i \in 1 .. Len(log) : log[i].run \in Nat
    BY <1>0, LogEntries DEF Runs
  <2>5. \A s \in Subs : /\ sub[s].last \in 0 .. Len(log) /\ sub[s].end \in 0 .. Len(log)
                         /\ sub[s].from \in Nat /\ sub[s].seen \subseteq 1 .. Len(log)
    <3>1. sub \in [Subs -> Reader(Len(log))]
      BY <2>1 DEF StreamTypeOK, Reader
    <3>2. Runs \cup {NoRun} \subseteq Nat
      BY DEF Runs
    <3> QED
      BY <3>1, <3>2 DEF Reader
  <2> QED
    BY <2>2, <2>3, <2>4, <2>5
<1> DEFINE SubOf(s) == /\ sub[s].from <= owner
                       /\ \A i \in 1 .. Len(log) : cleared < i /\ i <= sub[s].last => i \in sub[s].seen
                       /\ sub[s].end # 0 =>
                            /\ log[sub[s].end].run >= sub[s].from
                            /\ \A i \in 1 .. sub[s].end : log[i].run = log[sub[s].end].run => i \in sub[s].seen
<1>3. /\ SubPart /\ EndOfItsOwnRun <=> \A s \in Subs : SubOf(s)
      /\ SubPart' /\ EndOfItsOwnRun' <=> \A s \in Subs : SubOf(s)'
  BY DEF SubPart, EndOfItsOwnRun
<1>4. ASSUME NEW s \in Subs, sub'[s] = sub[s] PROVE SubOf(s)'
  <2>1. SubOf(s)
    BY <1>0, <1>3
  <2>2. \A i \in 1 .. Len(log') : cleared' < i /\ i <= sub'[s].last => i \in sub'[s].seen
    BY <1>1, <1>2, <1>4, <2>1
  <2>3. ASSUME sub[s].end # 0
        PROVE  /\ log'[sub[s].end].run >= sub[s].from
               /\ \A i \in 1 .. sub[s].end : log'[i].run = log'[sub[s].end].run => i \in sub[s].seen
    <3> DEFINE e == sub[s].end
    <3>1. e \in 1 .. Len(log) /\ \A i \in 1 .. e : i \in 1 .. Len(log)
      BY <1>1, <1>2, <2>3
    <3>2. log'[e] = log[e] /\ \A i \in 1 .. e : log'[i] = log[i]
      BY <1>1, <3>1
    <3>3. log[e].run >= sub[s].from /\ \A i \in 1 .. e : log[i].run = log[e].run => i \in sub[s].seen
      BY <2>1, <2>3
    <3> HIDE DEF e
    <3>4. log'[e].run >= sub[s].from /\ \A i \in 1 .. e : log'[i].run = log'[e].run => i \in sub[s].seen
      BY <3>2, <3>3
    <3> QED
      BY <3>4 DEF e
  <2>4. sub'[s].from <= owner'
    BY <1>1, <1>2, <1>4, <2>1
  <2> QED
    BY <1>4, <2>2, <2>3, <2>4
<1>5. ASSUME NEW s \in Subs, sub'[s].last = 0, sub'[s].end = 0, sub'[s].from <= owner' PROVE SubOf(s)'
  BY <1>1, <1>2, <1>5
<1>6. ASSUME NEW s \in Subs, NEW x \in Subs, Subscribe(s) PROVE SubOf(x)'
  <2>1. CASE x = s
    <3>1. sub'[s].last = 0 /\ sub'[s].end = 0 /\ sub'[s].from = owner /\ owner' = owner
      BY <1>0, <1>6 DEF Subscribe, NotReading, StreamTypeOK
    <3> QED
      BY <1>2, <1>5, <2>1, <3>1
  <2>2. CASE x # s
    BY <1>0, <1>4, <1>6, <2>2 DEF Subscribe, StreamTypeOK
  <2> QED
    BY <2>1, <2>2
<1>7. ASSUME NEW s \in Subs, NEW x \in Subs, ReadEntry(s) PROVE SubOf(x)'
  <2>1. CASE x = s
    <3> DEFINE k == Entry(s)
    <3>1. /\ k \in 1 .. Len(log) /\ k > cleared /\ k > sub[s].last
          /\ k = cleared + 1 \/ k = sub[s].last + 1
      BY <1>1, <1>2, <1>7 DEF ReadEntry, SomethingNew, Entry, Larger
    <3>2. /\ log' = log /\ cleared' = cleared /\ owner' = owner
          /\ sub'[s].last = k /\ sub'[s].seen = sub[s].seen \cup {k} /\ sub'[s].from = sub[s].from
          /\ sub'[s].end = IF log[k].end THEN k ELSE sub[s].end
      BY <1>0, <1>7 DEF ReadEntry, StreamTypeOK
    <3> HIDE DEF k
    <3>3. SubOf(s)
      BY <1>0, <1>3
    <3>4. \A i \in 1 .. Len(log') : cleared' < i /\ i <= sub'[s].last => i \in sub'[s].seen
      BY <1>1, <1>2, <3>1, <3>2, <3>3
    <3>5. CASE ~log[k].end
      <4>1. sub'[s].end = sub[s].end /\ (sub[s].end # 0 => \A i \in 1 .. sub[s].end : i \in sub[s].seen => i \in sub'[s].seen)
        BY <3>2, <3>5
      <4> QED
        BY <2>1, <3>2, <3>3, <3>4, <4>1
    <3>6. CASE log[k].end
      <4>1. log[k].run >= owner
        BY <1>0, <3>1, <3>6 DEF LogPart
      <4>2. \A i \in 1 .. k : log[i].run = log[k].run => i > cleared
        BY <1>0, <1>2, <3>1, <4>1 DEF LogPart
      <4>3. \A i \in 1 .. k : i \in 1 .. Len(log)
        BY <1>1, <3>1
      <4>4. sub'[s].end = k /\ log[k].run >= sub[s].from
        BY <1>2, <3>1, <3>2, <3>3, <3>6, <4>1
      <4>5. \A i \in 1 .. k : log[i].run = log[k].run => i \in sub'[s].seen
        BY <1>1, <3>1, <3>2, <3>4, <4>2, <4>3
      <4> QED
        BY <2>1, <3>2, <3>3, <3>4, <4>4, <4>5
    <3> QED
      BY <2>1, <3>5, <3>6
  <2>2. CASE x # s
    BY <1>0, <1>4, <1>7, <2>2 DEF ReadEntry, StreamTypeOK
  <2> QED
    BY <2>1, <2>2
<1>8. ASSUME NEW s \in Subs, NEW x \in Subs, Abandon(s) \/ Disconnect(s) PROVE SubOf(x)'
  <2>1. /\ sub'[x].last = sub[x].last /\ sub'[x].end = sub[x].end /\ sub'[x].from = sub[x].from
        /\ sub'[x].seen = sub[x].seen
    <3>1. sub' = [sub EXCEPT ![s].stage = "ended"]
      BY <1>8 DEF Abandon, Disconnect
    <3>2. sub \in [Subs -> Reader(Len(log))]
      BY <1>0 DEF StreamTypeOK, Reader
    <3> QED
      BY <3>1, <3>2 DEF Reader
  <2>2. log' = log /\ cleared' = cleared /\ owner' = owner
    BY <1>8 DEF Abandon, Disconnect
  <2> QED
    BY <1>0, <1>3, <2>1, <2>2
<1>9. ASSUME NEW x \in Subs, WorkerDies PROVE SubOf(x)'
  <2>1. CASE sub[x].local
    BY <1>1, <1>2, <1>5, <1>9, <2>1 DEF WorkerDies, NotReading
  <2>2. CASE ~sub[x].local
    BY <1>4, <1>9, <2>2 DEF WorkerDies
  <2> QED
    BY <2>1, <2>2
<1>10. ASSUME NEW x \in Subs, sub' = sub PROVE SubOf(x)'
  BY <1>4, <1>10
<1>11. \A x \in Subs : SubOf(x)'
  <2> SUFFICES ASSUME NEW x \in Subs PROVE SubOf(x)'
    OBVIOUS
  <2> HIDE DEF SubOf
  <2> QED
    BY <1>6, <1>7, <1>8, <1>9, <1>10
    DEF StreamNext, RunStep, streamVars, runVars, StartRun, ClearStream, MarkActive, StartsUnmarked, RenewKey,
        Publish, RunEnds, RunRaises, DropKey, WriteMarker, ForgetRun, LeaveSilently, Shut, KeyExpires
<1> QED
  BY <1>3, <1>11

(***************************************************************************)
(* StreamInv is inductive: it holds of every state of a behaviour.         *)
(***************************************************************************)
THEOREM StreamInvariant == ASSUME StreamAssumption PROVE StreamSpec => []StreamInv
<1>1. StreamInit => StreamInv
  BY StreamInit_Inv
<1>2. StreamInv /\ [StreamNext]_streamVars => StreamInv'
  BY StreamTypeStep, RunStepKeeps, LogStepKeeps, SubStepKeeps DEF StreamInv
<1> QED
  BY <1>1, <1>2, PTL DEF StreamSpec

(***************************************************************************)
(* The variables of a stream keep their types: a subscriber is never past  *)
(* the end of the log.                                                     *)
(***************************************************************************)
THEOREM StreamTypeCorrect == ASSUME StreamAssumption PROVE StreamSpec => []StreamTypeOK
<1>1. StreamInv => StreamTypeOK
  BY DEF StreamInv
<1> QED
  BY <1>1, StreamInvariant, PTL

(***************************************************************************)
(* However many runs replace one another and wherever commands fail, the   *)
(* end a subscriber reads is that of a run of its time, all of whose       *)
(* entries it has seen.                                                    *)
(***************************************************************************)
THEOREM EndOfItsOwnRunHolds == ASSUME StreamAssumption PROVE StreamSpec => []EndOfItsOwnRun
<1>1. StreamInv => EndOfItsOwnRun
  BY DEF StreamInv
<1> QED
  BY <1>1, StreamInvariant, PTL

-----------------------------------------------------------------------------
(***************************************************************************)
(* The push to GitHub: its types, that GitHub never gets a commit that     *)
(* does not validate, and that a row that says SYNCED is right about the   *)
(* last one.                                                               *)
(***************************************************************************)
\* a push is made under the workspace lock, from its first step to its last
LockPart == \A p \in Everyone : push[p].stage # "idle" => holder = p

(***************************************************************************)
(* What is committed validates, and so do the files of a push that has     *)
(* come past the validation; the pipeline's push needs none, because the   *)
(* files are those it committed.                                           *)
(***************************************************************************)
FilesPart ==
  /\ head \notin Broken /\ remote.head \notin Broken
  /\ \A p \in Everyone : push[p].stage \in {"valid", "named", "located"} => tree \notin Broken
  /\ push[Pipeline].stage \in {"started", "marked"} => tree \notin Broken

\* the stages between the row that says SYNCING and the one that says how it ended
Working == {"marked", "validating", "valid", "named", "located", "committed", "pushed"}

(***************************************************************************)
(* A push that works has marked the row and saves a copy that says so;     *)
(* once it has pushed, the head is what GitHub has.                        *)
(***************************************************************************)
RecordPart ==
  /\ SyncedIsPushed
  /\ \A p \in Everyone :
       /\ push[p].stage \in Working => record.status # "synced" /\ push[p].copy.status = "syncing"
       /\ push[p].stage = "pushed" /\ remote.there => remote.head = head

SyncInv == SyncTypeOK /\ LockPart /\ FilesPart /\ RecordPart

\* the row a push begins with
LEMMA SyncingRow ==
  ASSUME NEW r \in Records \cup {NoRecord}
  PROVE  Syncing(r) \in Records /\ Syncing(r).status = "syncing"
BY DEF Syncing, Fresh, Records, NoRecord, Commits

\* a copy with another status, URL or commit is a row
LEMMA RowMoves ==
  ASSUME NEW r \in Records \cup {NoRecord}, NEW c \in Commits
  PROVE  /\ [r EXCEPT !.status = "failed"] \in Records
         /\ [r EXCEPT !.status = "synced", !.commit = c] \in Records
         /\ r.status = "syncing" => [r EXCEPT !.url = TRUE] \in Records
         /\ [r EXCEPT !.status = "failed"].status = "failed"
         /\ [r EXCEPT !.status = "synced", !.commit = c].commit = c
         /\ [r EXCEPT !.url = TRUE].status = r.status
<1>1. CASE r \in Records
  BY <1>1 DEF Records, Commits
<1>2. CASE r = NoRecord
  BY <1>2 DEF Records, NoRecord, Commits
<1> QED
  BY <1>1, <1>2

\* a step of p to another stage
LEMMA GoesTo ==
  ASSUME SyncTypeOK, NEW p \in Everyone, NEW s \in SyncStages, GoTo(p, s)
  PROVE  /\ push' \in [Everyone -> Pushes]
         /\ push'[p].stage = s /\ push'[p].copy = push[p].copy
         /\ \A q \in Everyone \ {p} : push'[q] = push[q]
BY DEF SyncTypeOK, GoTo, Pushes

\* a save of p, with a project or without
LEMMA Saves ==
  ASSUME SyncTypeOK, NEW p \in Everyone, NEW r \in Records, NEW s \in SyncStages, Save(p, r, s)
  PROVE  /\ push' \in [Everyone -> Pushes] /\ record' \in Records \cup {NoRecord}
         /\ \/ record' = r /\ push'[p].stage = s /\ push'[p].copy = r
            \/ record' = record /\ push'[p].stage \in {"ending", "failing"} /\ push'[p].copy = push[p].copy
         /\ \A q \in Everyone \ {p} : push'[q] = push[q]
<1>1. CASE project
  <2>1. [stage |-> s, copy |-> r] \in Pushes
    BY DEF Pushes
  <2> QED
    BY <1>1, <2>1 DEF Save, SyncTypeOK
<1>2. CASE ~project
  <2>1. \E t \in {"ending", "failing"} : GoTo(p, t) /\ record' = record
    BY <1>2 DEF Save
  <2>2. {"ending", "failing"} \subseteq SyncStages
    BY DEF SyncStages
  <2> QED
    BY <2>1, <2>2, GoesTo DEF SyncTypeOK
<1> QED
  BY <1>1, <1>2

\* without a push, a row and a broken file there is nothing to be wrong about
LEMMA SyncInvInit == SyncInit => SyncInv
<1> SUFFICES ASSUME SyncInit PROVE SyncInv
  OBVIOUS
<1>1. NoRecord \notin Records /\ NoRecord.status = "none"
  BY DEF NoRecord, Records
<1>2. SyncTypeOK
  <2>1. remote \in Remotes
    BY DEF SyncInit, Remotes, Commits
  <2>2. push \in [Everyone -> Pushes]
    BY DEF SyncInit, Pushes, SyncStages
  <2> QED
    BY <2>1, <2>2, SyncAssumption DEF SyncInit, SyncTypeOK, Versions
<1>3. LockPart
  BY DEF SyncInit, LockPart
<1>4. FilesPart
  BY SyncAssumption DEF SyncInit, FilesPart, Everyone
<1>5. RecordPart
  BY <1>1 DEF SyncInit, RecordPart, SyncedIsPushed, Working
<1> QED
  BY <1>2, <1>3, <1>4, <1>5 DEF SyncInv

\* every step of a push, of the pipeline and of the removal keeps SyncInv
LEMMA SyncInvNext == SyncInv /\ [SyncNext]_syncVars => SyncInv'
<1> SUFFICES ASSUME SyncInv, [SyncNext]_syncVars PROVE SyncInv'
  OBVIOUS
<1>t. SyncTypeOK /\ LockPart /\ FilesPart /\ RecordPart
  BY DEF SyncInv
<1>f. /\ holder \in Everyone \cup {Free} /\ tree \in Versions /\ last \in Versions /\ head \in Versions
      /\ remote \in Remotes /\ record \in Records \cup {NoRecord} /\ push \in [Everyone -> Pushes]
      /\ project \in BOOLEAN
      /\ \A p \in Everyone : push[p].copy \in Records \cup {NoRecord} /\ push[p].stage \in SyncStages
      /\ Pipeline \in Everyone /\ Pushers \subseteq Everyone /\ Free \notin Everyone
  BY <1>t, SyncAssumption DEF SyncTypeOK, Pushes, Everyone
<1>s. \A p, q \in Everyone : push[p].stage # "idle" /\ p # q => push[q].stage = "idle"
  BY <1>t DEF LockPart
<1>c. \A v \in Versions \cup {NoCommit} : v \in Commits
  BY DEF Commits
<1> DEFINE Goal == SyncTypeOK' /\ LockPart' /\ FilesPart' /\ RecordPart'
\* steps of a push that change its stage and nothing else
<1>1. ASSUME NEW p \in Everyone, RefusePush(p) \/ WriteLog(p) \/ Raises(p) PROVE Goal
  <2>1. /\ UNCHANGED <<holder, tree, last, head, remote, record, project>>
        /\ push[p].stage # "idle"
        /\ \E s \in {"ending", "failing"} : GoTo(p, s)
    BY <1>1 DEF RefusePush, WriteLog, Raises, InStage
  <2>2. {"ending", "failing"} \subseteq SyncStages
    BY DEF SyncStages
  <2>3. /\ push' \in [Everyone -> Pushes] /\ push'[p].stage \in {"ending", "failing"}
        /\ \A q \in Everyone \ {p} : push'[q] = push[q] /\ push[q].stage = "idle"
    BY <1>t, <1>s, <2>1, <2>2, GoesTo
  <2>4. SyncTypeOK'
    BY <1>t, <2>1, <2>3 DEF SyncTypeOK
  <2>5. LockPart'
    BY <1>t, <2>1, <2>3 DEF LockPart
  <2>6. FilesPart' /\ RecordPart'
    BY <1>t, <1>f, <2>1, <2>3 DEF FilesPart, RecordPart, SyncedIsPushed, Working
  <2> QED
    BY <2>4, <2>5, <2>6
<1>2. ASSUME NEW p \in Everyone, Prepare(p) \/ Validate(p) PROVE Goal
  <2>1. PICK s \in {"valid", "validating", "ending", "failing"} :
          /\ GoTo(p, s) /\ (s \in {"valid", "validating"} => push[p].stage \in Working)
          /\ s = "valid" => tree \notin Broken
    BY <1>t, <1>2 DEF Prepare, Validate, Rejected, InStage, FilesPart, Working
  <2>2. UNCHANGED <<holder, tree, last, head, remote, record, project>> /\ push[p].stage # "idle"
    BY <1>2 DEF Prepare, Validate, InStage
  <2>3. /\ push' \in [Everyone -> Pushes] /\ push'[p].stage = s /\ push'[p].copy = push[p].copy
        /\ \A q \in Everyone \ {p} : push'[q] = push[q] /\ push[q].stage = "idle"
    BY <1>t, <1>s, <2>1, <2>2, GoesTo DEF SyncStages
  <2>4. SyncTypeOK'
    BY <1>t, <2>2, <2>3 DEF SyncTypeOK
  <2>5. LockPart'
    BY <1>t, <2>2, <2>3 DEF LockPart
  <2>6. FilesPart' /\ RecordPart'
    BY <1>t, <1>f, <2>1, <2>2, <2>3 DEF FilesPart, RecordPart, SyncedIsPushed, Working
  <2> QED
    BY <2>4, <2>5, <2>6
\* the repository and the commits
<1>3. ASSUME NEW p \in Everyone, FindRepository(p) PROVE Goal
  <2>1. PICK s \in {"named", "located"} : GoTo(p, s)
    BY <1>3 DEF FindRepository
  <2>2. /\ UNCHANGED <<holder, tree, last, head, record, project>> /\ push[p].stage = "valid"
        /\ remote' = remote \/ remote' = Located
    BY <1>3 DEF FindRepository, InStage
  <2>3. /\ push' \in [Everyone -> Pushes] /\ push'[p].stage = s /\ push'[p].copy = push[p].copy
        /\ \A q \in Everyone \ {p} : push'[q] = push[q] /\ push[q].stage = "idle"
    BY <1>t, <1>s, <2>1, <2>2, GoesTo DEF SyncStages
  <2>4. remote' \in Remotes /\ remote'.head = remote.head
    BY <1>f, <2>2 DEF Located, Remotes
  <2>5. SyncTypeOK'
    BY <1>t, <2>2, <2>3, <2>4 DEF SyncTypeOK
  <2>6. LockPart'
    BY <1>t, <2>2, <2>3 DEF LockPart
  <2>7. FilesPart'
    BY <1>t, <1>f, <2>2, <2>3, <2>4 DEF FilesPart
  <2>8. RecordPart'
    BY <1>t, <1>f, <2>2, <2>3 DEF RecordPart, SyncedIsPushed, Working
  <2> QED
    BY <2>5, <2>6, <2>7, <2>8
<1>4. ASSUME NEW p \in Everyone, CommitFiles(p) PROVE Goal
  <2>1. GoTo(p, "committed") /\ push[p].stage = "located" /\ head' = tree
        /\ UNCHANGED <<holder, tree, last, remote, record, project>>
    BY <1>4 DEF CommitFiles, InStage
  <2>2. /\ push' \in [Everyone -> Pushes] /\ push'[p].stage = "committed" /\ push'[p].copy = push[p].copy
        /\ \A q \in Everyone \ {p} : push'[q] = push[q] /\ push[q].stage = "idle"
    BY <1>t, <1>s, <2>1, GoesTo DEF SyncStages
  <2>3. SyncTypeOK'
    BY <1>t, <2>1, <2>2 DEF SyncTypeOK
  <2>4. LockPart' /\ FilesPart'
    BY <1>t, <1>f, <2>1, <2>2 DEF LockPart, FilesPart
  <2>5. RecordPart'
    BY <1>t, <1>f, <2>1, <2>2 DEF RecordPart, SyncedIsPushed, Working
  <2> QED
    BY <2>3, <2>4, <2>5
<1>5. ASSUME NEW p \in Everyone, PushFiles(p) PROVE Goal
  <2>1. PICK s \in {"pushed", "failing"} :
          /\ GoTo(p, s)
          /\ s = "pushed" => remote' = [remote EXCEPT !.head = head]
          /\ s = "failing" => remote' = remote
    BY <1>5 DEF PushFiles
  <2>2. UNCHANGED <<holder, tree, last, head, record, project>> /\ push[p].stage = "committed"
    BY <1>5 DEF PushFiles, InStage
  <2>3. /\ push' \in [Everyone -> Pushes] /\ push'[p].stage = s /\ push'[p].copy = push[p].copy
        /\ \A q \in Everyone \ {p} : push'[q] = push[q] /\ push[q].stage = "idle"
    BY <1>t, <1>s, <2>1, <2>2, GoesTo DEF SyncStages
  <2>4. remote' \in Remotes /\ (remote' = remote \/ remote'.head = head)
        /\ (s = "pushed" => remote'.head = head)
    BY <1>f, <1>c, <2>1 DEF Remotes
  <2>5. SyncTypeOK'
    BY <1>t, <2>2, <2>3, <2>4 DEF SyncTypeOK
  <2>6. LockPart' /\ FilesPart'
    BY <1>t, <1>f, <2>2, <2>3, <2>4 DEF LockPart, FilesPart
  <2>7. RecordPart'
    BY <1>t, <1>f, <2>2, <2>3, <2>4 DEF RecordPart, SyncedIsPushed, Working
  <2> QED
    BY <2>5, <2>6, <2>7
\* the saves of the row
<1>6. ASSUME NEW p \in Everyone, MarkSyncing(p) PROVE Goal
  <2>1. Save(p, Syncing(record), "marked") /\ push[p].stage = "started"
        /\ UNCHANGED <<holder, tree, last, head, remote, project>>
    BY <1>6 DEF MarkSyncing, InStage
  <2>2. Syncing(record) \in Records /\ Syncing(record).status = "syncing"
    BY <1>f, SyncingRow
  <2>3. /\ push' \in [Everyone -> Pushes] /\ record' \in Records \cup {NoRecord}
        /\ \/ record' = Syncing(record) /\ push'[p].stage = "marked" /\ push'[p].copy = Syncing(record)
           \/ record' = record /\ push'[p].stage \in {"ending", "failing"}
        /\ \A q \in Everyone \ {p} : push'[q] = push[q] /\ push[q].stage = "idle"
    BY <1>t, <1>s, <2>1, <2>2, Saves DEF SyncStages
  <2>4. SyncTypeOK'
    BY <1>t, <2>1, <2>3 DEF SyncTypeOK
  <2>5. LockPart' /\ FilesPart'
    BY <1>t, <1>f, <2>1, <2>3 DEF LockPart, FilesPart
  <2>6. RecordPart'
    BY <1>t, <1>f, <2>1, <2>2, <2>3 DEF RecordPart, SyncedIsPushed, Working
  <2> QED
    BY <2>4, <2>5, <2>6
<1>7. ASSUME NEW p \in Everyone, SaveRepository(p) PROVE Goal
  <2> DEFINE r == [push[p].copy EXCEPT !.url = TRUE]
  <2>1. Save(p, r, "located") /\ push[p].stage = "named"
        /\ UNCHANGED <<holder, tree, last, head, remote, project>>
    BY <1>7 DEF SaveRepository, InStage
  <2>2. push[p].copy.status = "syncing" /\ record.status # "synced" /\ tree \notin Broken
    BY <1>t, <2>1 DEF RecordPart, FilesPart, Working
  <2>3. r \in Records /\ r.status = "syncing"
    BY <1>f, <1>c, <2>2, RowMoves
  <2> HIDE DEF r
  <2>4. /\ push' \in [Everyone -> Pushes] /\ record' \in Records \cup {NoRecord}
        /\ \/ record' = r /\ push'[p].stage = "located" /\ push'[p].copy = r
           \/ record' = record /\ push'[p].stage \in {"ending", "failing"}
        /\ \A q \in Everyone \ {p} : push'[q] = push[q] /\ push[q].stage = "idle"
    BY <1>t, <1>s, <2>1, <2>3, Saves DEF SyncStages
  <2>5. SyncTypeOK'
    BY <1>t, <2>1, <2>4 DEF SyncTypeOK
  <2>6. LockPart' /\ FilesPart'
    BY <1>t, <1>f, <2>1, <2>2, <2>4 DEF LockPart, FilesPart
  <2>7. RecordPart'
    BY <1>t, <1>f, <2>1, <2>2, <2>3, <2>4 DEF RecordPart, SyncedIsPushed, Working
  <2> QED
    BY <2>5, <2>6, <2>7
<1>8. ASSUME NEW p \in Everyone, SaveSynced(p) PROVE Goal
  <2> DEFINE r == [push[p].copy EXCEPT !.status = "synced", !.commit = head]
  <2>1. Save(p, r, "logging") /\ push[p].stage = "pushed"
        /\ UNCHANGED <<holder, tree, last, head, remote, project>>
    BY <1>8 DEF SaveSynced, InStage
  <2>2. r \in Records /\ r.commit = head
    BY <1>f, <1>c, RowMoves
  <2>3. remote.there => remote.head = head
    BY <1>t, <2>1 DEF RecordPart
  <2> HIDE DEF r
  <2>4. /\ push' \in [Everyone -> Pushes] /\ record' \in Records \cup {NoRecord}
        /\ record' = r \/ record' = record
        /\ push'[p].stage \in {"logging", "ending", "failing"}
        /\ \A q \in Everyone \ {p} : push'[q] = push[q] /\ push[q].stage = "idle"
    BY <1>t, <1>s, <2>1, <2>2, Saves DEF SyncStages
  <2>5. SyncTypeOK'
    BY <1>t, <2>1, <2>4 DEF SyncTypeOK
  <2>6. LockPart' /\ FilesPart'
    BY <1>t, <1>f, <2>1, <2>4 DEF LockPart, FilesPart
  <2>7. RecordPart'
    BY <1>t, <1>f, <2>1, <2>2, <2>3, <2>4 DEF RecordPart, SyncedIsPushed, Working
  <2> QED
    BY <2>5, <2>6, <2>7
<1>9. ASSUME NEW p \in Everyone, SaveFailed(p) PROVE Goal
  <2> DEFINE r == [push[p].copy EXCEPT !.status = "failed"]
  <2>1. Save(p, r, "ending") /\ push[p].stage = "failing"
        /\ UNCHANGED <<holder, tree, last, head, remote, project>>
    BY <1>9 DEF SaveFailed, InStage
  <2>2. r \in Records /\ r.status = "failed"
    BY <1>f, <1>c, RowMoves
  <2> HIDE DEF r
  <2>3. /\ push' \in [Everyone -> Pushes] /\ record' \in Records \cup {NoRecord}
        /\ record' = r \/ record' = record
        /\ push'[p].stage \in {"ending", "failing"}
        /\ \A q \in Everyone \ {p} : push'[q] = push[q] /\ push[q].stage = "idle"
    BY <1>t, <1>s, <2>1, <2>2, Saves DEF SyncStages
  <2>4. SyncTypeOK'
    BY <1>t, <2>1, <2>3 DEF SyncTypeOK
  <2>5. LockPart' /\ FilesPart'
    BY <1>t, <1>f, <2>1, <2>3 DEF LockPart, FilesPart
  <2>6. RecordPart'
    BY <1>t, <1>f, <2>1, <2>2, <2>3 DEF RecordPart, SyncedIsPushed, Working
  <2> QED
    BY <2>4, <2>5, <2>6
\* the ends of a push
<1>10. ASSUME NEW p \in Everyone, EndPush(p) \/ PushDies(p) PROVE Goal
  <2>1. /\ holder' = Free /\ push' = [push EXCEPT ![p] = [stage |-> "idle", copy |-> NoRecord]]
        /\ UNCHANGED <<tree, last, head, remote, record, project>>
        /\ push[p].stage # "idle" \/ holder = p
    BY <1>10 DEF EndPush, PushDies, InStage
  <2>2. [stage |-> "idle", copy |-> NoRecord] \in Pushes
    BY DEF Pushes, SyncStages
  <2>3. push' \in [Everyone -> Pushes] /\ \A q \in Everyone : push'[q].stage = "idle"
    BY <1>t, <1>f, <2>1, <2>2 DEF LockPart
  <2>4. SyncTypeOK'
    BY <1>t, <2>1, <2>3 DEF SyncTypeOK
  <2>5. LockPart' /\ FilesPart'
    BY <1>t, <1>f, <2>1, <2>3 DEF LockPart, FilesPart
  <2>6. RecordPart'
    BY <1>t, <1>f, <2>1, <2>3 DEF RecordPart, SyncedIsPushed, Working
  <2> QED
    BY <2>4, <2>5, <2>6
\* the beginnings, and the files of the pipeline
<1>11. ASSUME NEW p \in Pushers, BeginPush(p) PROVE Goal
  <2>1. /\ holder = Free /\ holder' = p /\ GoTo(p, "started") /\ p \in Everyone
        /\ UNCHANGED <<tree, last, head, remote, record, project>>
    BY <1>f, <1>11 DEF BeginPush
  <2>2. /\ push' \in [Everyone -> Pushes] /\ push'[p].stage = "started"
        /\ \A q \in Everyone \ {p} : push'[q] = push[q] /\ push[q].stage = "idle"
    BY <1>t, <1>f, <2>1, GoesTo DEF LockPart, SyncStages
  <2>3. p # Pipeline
    BY SyncAssumption
  <2>4. SyncTypeOK'
    BY <1>t, <2>1, <2>2 DEF SyncTypeOK
  <2>5. LockPart' /\ FilesPart'
    BY <1>t, <1>f, <2>1, <2>2, <2>3 DEF LockPart, FilesPart
  <2>6. RecordPart'
    BY <1>t, <1>f, <2>1, <2>2 DEF RecordPart, SyncedIsPushed, Working
  <2> QED
    BY <2>4, <2>5, <2>6
<1>12. ASSUME PipelineStarts \/ PipelineWrites \/ PipelineFails PROVE Goal
  <2>1. /\ \A q \in Everyone : push[q].stage = "idle"
        /\ UNCHANGED <<head, remote, record, push, project>>
    BY <1>t, <1>f, <1>12 DEF PipelineStarts, PipelineWrites, PipelineFails, InStage, LockPart
  <2>2. holder' \in Everyone \cup {Free} /\ tree' \in Versions /\ last' \in Versions
    BY <1>f, <1>12, SyncAssumption DEF PipelineStarts, PipelineWrites, PipelineFails, Versions
  <2>3. SyncTypeOK'
    BY <1>t, <2>1, <2>2 DEF SyncTypeOK
  <2>4. LockPart' /\ FilesPart'
    BY <1>t, <1>f, <2>1 DEF LockPart, FilesPart
  <2>5. RecordPart'
    BY <1>t, <1>f, <2>1 DEF RecordPart, SyncedIsPushed, Working
  <2> QED
    BY <2>3, <2>4, <2>5
<1>13. ASSUME PipelineSucceeds PROVE Goal
  <2>1. /\ holder = Pipeline /\ tree \notin Broken /\ head' = tree /\ GoTo(Pipeline, "started")
        /\ UNCHANGED <<holder, tree, last, remote, record, project>>
        /\ push[Pipeline].stage = "idle"
    BY <1>13 DEF PipelineSucceeds, InStage
  <2>2. /\ push' \in [Everyone -> Pushes] /\ push'[Pipeline].stage = "started"
        /\ \A q \in Everyone \ {Pipeline} : push'[q] = push[q] /\ push[q].stage = "idle"
    BY <1>t, <1>f, <2>1, GoesTo DEF LockPart, SyncStages
  <2>3. SyncTypeOK'
    BY <1>t, <2>1, <2>2 DEF SyncTypeOK
  <2>4. LockPart' /\ FilesPart'
    BY <1>t, <1>f, <2>1, <2>2 DEF LockPart, FilesPart
  <2>5. RecordPart'
    BY <1>t, <1>f, <2>1, <2>2 DEF RecordPart, SyncedIsPushed, Working
  <2> QED
    BY <2>3, <2>4, <2>5
\* the removal of the project
<1>14. ASSUME RemoveRemote PROVE Goal
  <2>1. /\ remote' = [there |-> FALSE, head |-> NoCommit]
        /\ UNCHANGED <<holder, tree, last, head, record, push, project>>
    BY <1>14 DEF RemoveRemote
  <2>2. remote' \in Remotes /\ remote'.head \notin Broken /\ ~remote'.there
    BY <2>1, SyncAssumption DEF Remotes, Commits
  <2>3. SyncTypeOK'
    BY <1>t, <2>1, <2>2 DEF SyncTypeOK
  <2>4. LockPart' /\ FilesPart' /\ RecordPart'
    BY <1>t, <2>1, <2>2 DEF LockPart, FilesPart, RecordPart, SyncedIsPushed
  <2> QED
    BY <2>3, <2>4
<1>15. ASSUME RemoveRecord \/ RemoveProject PROVE Goal
  <2>0. NoRecord.status # "synced"
    BY DEF NoRecord
  <2>1. /\ record' = NoRecord /\ record'.status # "synced" /\ project' \in BOOLEAN
        /\ UNCHANGED <<holder, tree, last, head, remote, push>>
    BY <1>f, <1>15, <2>0, Zenon DEF RemoveRecord, RemoveProject
  <2>2. SyncTypeOK'
    BY <1>t, <2>1 DEF SyncTypeOK
  <2>3. LockPart' /\ FilesPart' /\ RecordPart'
    BY <1>t, <2>1 DEF LockPart, FilesPart, RecordPart, SyncedIsPushed
  <2> QED
    BY <2>2, <2>3
<1>16. ASSUME UNCHANGED syncVars PROVE Goal
  BY <1>t, <1>16 DEF syncVars, SyncTypeOK, LockPart, FilesPart, RecordPart, SyncedIsPushed
<1>17. Goal
  BY <1>1, <1>2, <1>3, <1>4, <1>5, <1>6, <1>7, <1>8, <1>9, <1>10, <1>11, <1>12, <1>13, <1>14, <1>15,
     <1>16 DEF SyncNext, PushStep
<1> QED
  BY <1>17 DEF SyncInv

(***************************************************************************)
(* SyncInv holds in every state, whatever dies, fails or is removed.       *)
(***************************************************************************)
THEOREM SyncInvariant == SyncSpec => []SyncInv
BY SyncInvInit, SyncInvNext, PTL DEF SyncSpec

(***************************************************************************)
(* The files, the row, the repository and the pushes keep their types.     *)
(***************************************************************************)
THEOREM SyncTypeCorrect == SyncSpec => []SyncTypeOK
<1>1. SyncInv => SyncTypeOK
  BY DEF SyncInv
<1> QED
  BY <1>1, SyncInvariant, PTL

(***************************************************************************)
(* GitHub never has a commit that does not validate, although a pipeline   *)
(* and pushes share one directory, and although a pipeline's push skips    *)
(* the validation.                                                         *)
(***************************************************************************)
THEOREM PushedIsValidHolds == SyncSpec => []PushedIsValid
<1>1. SyncInv => PushedIsValid
  BY DEF SyncInv, FilesPart, PushedIsValid
<1> QED
  BY <1>1, SyncInvariant, PTL

(***************************************************************************)
(* A row that says SYNCED is right about the last commit GitHub has.       *)
(***************************************************************************)
THEOREM SyncedIsPushedHolds == SyncSpec => []SyncedIsPushed
<1>1. SyncInv => SyncedIsPushed
  BY DEF SyncInv, RecordPart
<1> QED
  BY <1>1, SyncInvariant, PTL

-----------------------------------------------------------------------------
(***************************************************************************)
(* The deployment on Railway: its types whatever overlaps, that one        *)
(* service runs where requests do not overlap, and that with one worker no *)
(* task brings back a row that was deleted.                                *)
(***************************************************************************)
RequestType == [stage : DeployStages, worker : Workers, copy : Rows \cup {NoRow},
                sid : Services \cup {NoService}, key : Tokens, renewed : BOOLEAN]

\* a task polls an existing service, and not yet for the last time
MonitorPart ==
  \A w \in Workers :
    /\ monitor[w].polls < MaxPolls
    /\ monitor[w].stage \in {"polling", "saving"} => monitor[w].copy.sid \in Services

\* rows and what is written over them
LEMMA RowFields ==
  /\ \A x \in Rows : x # NoRow /\ x.sid \in Services \cup {NoService}
  /\ NoRow.sid = NoService
  /\ \A x \in Rows \cup {NoRow}, s \in Statuses :
       [x EXCEPT !.status = s] \in Rows /\ [x EXCEPT !.status = s].sid = x.sid
<1>1. NoRow.sid = NoService /\ NoRow.status = "no row" /\ "no row" \notin Statuses
  BY DEF NoRow, Statuses, Terminal
<1>2. \A x \in Rows : x.status \in Statuses /\ x.sid \in Services \cup {NoService}
  BY DEF Rows
<1>3. ASSUME NEW x \in Rows, NEW s \in Statuses
      PROVE  [x EXCEPT !.status = s] \in Rows /\ [x EXCEPT !.status = s].sid = x.sid
  BY DEF Rows
<1>4. ASSUME NEW s \in Statuses
      PROVE  [NoRow EXCEPT !.status = s] \in Rows /\ [NoRow EXCEPT !.status = s].sid = NoService
  <2> DEFINE AnyRow == [status : Statuses \cup {"no row"}, sid : Services \cup {NoService}]
  <2>1. ASSUME NEW x \in AnyRow PROVE [x EXCEPT !.status = s] \in Rows /\ [x EXCEPT !.status = s].sid = x.sid
    BY DEF Rows
  <2>2. NoRow \in AnyRow
    BY DEF NoRow
  <2> HIDE DEF AnyRow
  <2> QED
    BY <1>1, <2>1, <2>2
<1> QED
  BY <1>1, <1>2, <1>3, <1>4

\* the first state
LEMMA DeployInit_Type ==
  ASSUME DeploymentAssumption, DeployInit PROVE DeployTypeOK /\ MonitorPart
<1>1. NoMonitor \in Monitors /\ NoMonitor.polls = 0 /\ NoMonitor.stage = "idle"
  BY DEF NoMonitor, Monitors, DeploymentAssumption, Tokens, Statuses, Terminal
<1>2. request \in [Requests -> RequestType]
  BY DEF DeployInit, RequestType, DeployStages, Tokens
<1>3. created \in 0 .. MaxServices /\ deploys \in 0 .. MaxDeploys /\ trouble \in 0 .. MaxTrouble
  BY DEF DeployInit, DeploymentAssumption
<1>4. DeployTypeOK
  BY <1>1, <1>2, <1>3 DEF DeployInit, DeployTypeOK, RequestType, Builds, Tokens
<1>5. MonitorPart
  BY <1>1 DEF DeployInit, MonitorPart, DeploymentAssumption
<1> QED
  BY <1>4, <1>5

\* what a step of a request does to the table of requests: one entry of it moves
LEMMA RequestMoves ==
  ASSUME DeploymentAssumption, DeployTypeOK, NEW r \in Requests, RequestStep(r)
  PROVE  \E x \in RequestType :
           /\ request' = [request EXCEPT ![r] = x]
           /\ x.worker = request[r].worker /\ ~On(r, "idle")
           /\ x.stage = "creating" => /\ On(r, "looking") /\ x.key = request[r].key
                                      /\ Found(r) = {} \/ BlindLookup
           /\ x.stage \in {"erasing", "removing"} => On(r, "erasing")
<1> DEFINE q == request[r]
           Moved(x) == /\ request' = [request EXCEPT ![r] = x]
                       /\ x.worker = q.worker /\ ~On(r, "idle")
                       /\ x.stage = "creating" => /\ On(r, "looking") /\ x.key = q.key
                                                  /\ Found(r) = {} \/ BlindLookup
                       /\ x.stage \in {"erasing", "removing"} => On(r, "erasing")
<1> SUFFICES \E x \in RequestType : Moved(x)
  OBVIOUS
<1>1. q \in RequestType /\ row \in Rows \cup {NoRow} /\ request \in [Requests -> RequestType]
  BY DEF DeployTypeOK, RequestType
<1>2. row.sid \in Services \cup {NoService} /\ q.copy.sid \in Services \cup {NoService}
  <2>1. \A x \in Rows \cup {NoRow} : x.sid \in Services \cup {NoService}
    BY RowFields
  <2>2. q.copy \in Rows \cup {NoRow}
    BY <1>1 DEF RequestType
  <2> QED
    BY <1>1, <2>1, <2>2
<1>3. ASSUME Finish(r), ~On(r, "idle") PROVE \E x \in RequestType : Moved(x)
  <2> DEFINE x == [q EXCEPT !.stage = "idle", !.copy = NoRow, !.sid = NoService, !.key = "good", !.renewed = FALSE]
  <2>1. x \in RequestType /\ x.stage = "idle" /\ x.worker = q.worker
    BY <1>1 DEF RequestType, DeployStages, Tokens
  <2>2. request' = [request EXCEPT ![r] = x]
    BY <1>3 DEF Finish, Idle
  <2> HIDE DEF x
  <2> QED
    BY <1>3, <2>1, <2>2
<1>4. ASSUME NEW s \in DeployStages, request' = [request EXCEPT ![r].stage = s], ~On(r, "idle"),
             s # "creating", s \in {"erasing", "removing"} => On(r, "erasing")
      PROVE  \E x \in RequestType : Moved(x)
  <2> DEFINE x == [q EXCEPT !.stage = s]
  <2>1. x \in RequestType /\ x.stage = s /\ x.worker = q.worker
    BY <1>1 DEF RequestType
  <2>2. request' = [request EXCEPT ![r] = x]
    BY <1>4, <1>1
  <2> HIDE DEF x
  <2> QED
    BY <1>4, <2>1, <2>2
<1>5. ASSUME NEW s \in Services, NEW t \in {"volume"}, ~On(r, "idle"),
             request' = [request EXCEPT ![r].sid = s, ![r].stage = t]
      PROVE  \E x \in RequestType : Moved(x)
  <2> DEFINE x == [q EXCEPT !.sid = s, !.stage = t]
  <2>1. x \in RequestType /\ x.stage = t /\ x.worker = q.worker
    BY <1>1 DEF RequestType, DeployStages
  <2>2. request' = [request EXCEPT ![r] = x]
    BY <1>5, <1>1
  <2> HIDE DEF x
  <2> QED
    BY <1>5, <2>1, <2>2
<1>6. CASE PushFails(r) \/ ProvisionFails(r) \/ StartMonitoring(r) \/ RemoveDeployment(r)
  BY <1>3, <1>6 DEF PushFails, ProvisionFails, StartMonitoring, RemoveDeployment, On
<1>7. CASE ReadDeployment(r)
  <2> DEFINE x == [q EXCEPT !.copy = row, !.sid = row.sid,
                            !.stage = IF row.sid = NoService THEN "looking" ELSE "trigger"]
  <2>1. x \in RequestType /\ x.stage \in {"looking", "trigger"} /\ x.worker = q.worker
    BY <1>1, <1>2 DEF RequestType, DeployStages
  <2>2. request' = [request EXCEPT ![r] = x]
    BY <1>7 DEF ReadDeployment
  <2> HIDE DEF x
  <2> QED
    BY <1>7, <2>1, <2>2 DEF ReadDeployment, On
<1>8. CASE Unauthorized(r) \/ ConfigureVolume(r) \/ TriggerDeployment(r) \/ SaveDeployment(r) \/ EraseService(r)
  BY <1>4, <1>8 DEF Unauthorized, ConfigureVolume, TriggerDeployment, SaveDeployment, EraseService, On,
                    Continue, DeployStages
<1>9. CASE LookUpService(r)
  <2>1. CASE \E s \in Found(r) : request' = [request EXCEPT ![r].sid = s, ![r].stage = "volume"]
    BY <1>5, <1>9, <2>1 DEF LookUpService, Found, Running, On
  <2>2. CASE (Found(r) = {} \/ BlindLookup) /\ Continue(r, "creating")
    <3> DEFINE x == [q EXCEPT !.stage = "creating"]
    <3>1. x \in RequestType /\ x.stage = "creating" /\ x.worker = q.worker /\ x.key = q.key
      BY <1>1 DEF RequestType, DeployStages
    <3>2. request' = [request EXCEPT ![r] = x]
      BY <2>2, <1>1 DEF Continue
    <3> HIDE DEF x
    <3> QED
      BY <1>9, <2>2, <3>1, <3>2 DEF LookUpService, On
  <2> QED
    BY <1>9, <2>1, <2>2 DEF LookUpService
<1>10. CASE CreateService(r)
  <2>1. created + 1 \in Services /\ created' = created + 1
    BY <1>10 DEF CreateService, DeployTypeOK, DeploymentAssumption, Services
  <2> QED
    BY <1>5, <1>10, <2>1 DEF CreateService, On
<1>11. CASE RefreshToken(r)
  <2>1. CASE Finish(r)
    BY <1>3, <1>11, <2>1 DEF RefreshToken, On
  <2>2. CASE request' = [request EXCEPT
                 ![r] = [@ EXCEPT !.renewed = TRUE, !.key = "good", !.sid = request[r].copy.sid,
                         !.stage = IF request[r].copy.sid = NoService THEN "looking" ELSE "trigger"]]
    <3> DEFINE x == [q EXCEPT !.renewed = TRUE, !.key = "good", !.sid = q.copy.sid,
                              !.stage = IF q.copy.sid = NoService THEN "looking" ELSE "trigger"]
    <3>1. x \in RequestType /\ x.stage \in {"looking", "trigger"} /\ x.worker = q.worker
      BY <1>1, <1>2 DEF RequestType, DeployStages, Tokens
    <3>2. request' = [request EXCEPT ![r] = x]
      BY <2>2
    <3> HIDE DEF x
    <3> QED
      BY <1>11, <3>1, <3>2 DEF RefreshToken, On
  <2> QED
    BY <1>11, <2>1, <2>2 DEF RefreshToken
<1> QED
  BY <1>6, <1>7, <1>8, <1>9, <1>10, <1>11 DEF RequestStep

\* the step of a task: its entry moves, and the row is written when there is one
LEMMA MonitorMoves ==
  ASSUME DeploymentAssumption, DeployTypeOK, MonitorPart, NEW w \in Workers, MonitorStep(w)
  PROVE  /\ \E m \in Monitors :
              /\ monitor' = [monitor EXCEPT ![w] = m] /\ ~Mon(w, "idle")
              /\ m.polls < MaxPolls
              /\ m.stage \in {"polling", "saving"} => m.copy.sid \in Services
              /\ m.stage \in {"polling", "saving", "raised"} =>
                   row.sid # NoService \/ monitor[w].stage \in {"polling", "saving", "raised"}
         /\ row' \in Rows \cup {NoRow} /\ (row' # row => row' # NoRow)
         /\ row' # row => monitor[w].stage \in {"polling", "saving", "raised"}
<1> DEFINE old == monitor[w]
           Moved(m) == /\ monitor' = [monitor EXCEPT ![w] = m] /\ ~Mon(w, "idle")
                       /\ m.polls < MaxPolls
                       /\ m.stage \in {"polling", "saving"} => m.copy.sid \in Services
                       /\ m.stage \in {"polling", "saving", "raised"} =>
                            row.sid # NoService \/ old.stage \in {"polling", "saving", "raised"}
           Written == /\ row' \in Rows \cup {NoRow} /\ (row' # row => row' # NoRow)
                      /\ row' # row => old.stage \in {"polling", "saving", "raised"}
<1> SUFFICES (\E m \in Monitors : Moved(m)) /\ Written
  OBVIOUS
<1>1. /\ old \in Monitors /\ row \in Rows \cup {NoRow} /\ token \in Tokens
      /\ service \in [Services -> Builds \cup {"gone"}]
      /\ old.polls \in 0 .. MaxPolls /\ old.polls < MaxPolls /\ MaxPolls \in Nat
      /\ old.copy \in Rows \cup {NoRow} /\ old.answer \in Statuses /\ old.renewed \in BOOLEAN
      /\ old.stage \in {"polling", "saving"} => old.copy.sid \in Services
  BY DEF DeployTypeOK, MonitorPart, Monitors, DeploymentAssumption
<1>2. \A x \in Rows \cup {NoRow}, s \in Statuses :
         /\ x.sid \in Services \cup {NoService}
         /\ [x EXCEPT !.status = s] \in Rows /\ [x EXCEPT !.status = s].sid = x.sid
  BY RowFields
<1>3. \A x \in Rows : x # NoRow
  BY RowFields
<1>4. "failed" \in Statuses
  BY DEF Statuses, Terminal
<1>5. ASSUME StopMonitor(w), ~Mon(w, "idle") PROVE \E m \in Monitors : Moved(m)
  <2>1. NoMonitor \in Monitors /\ NoMonitor.polls = 0 /\ NoMonitor.stage = "idle"
    BY <1>1 DEF NoMonitor, Monitors, Tokens, Statuses, Terminal
  <2> QED
    <3>1. Moved(NoMonitor)
      BY <1>1, <1>5, <2>1 DEF StopMonitor
    <3> QED
      BY <2>1, <3>1
<1>6. ASSUME monitor' = [monitor EXCEPT ![w].stage = "raised"], Mon(w, "polling")
      PROVE  \E m \in Monitors : Moved(m)
  <2> DEFINE m == [old EXCEPT !.stage = "raised"]
  <2>1. m \in Monitors /\ m.polls = old.polls /\ m.stage = "raised"
    BY <1>1 DEF Monitors
  <2>2. monitor' = [monitor EXCEPT ![w] = m]
    BY <1>1, <1>6 DEF DeployTypeOK
  <2> HIDE DEF m
  <2> QED
    BY <1>1, <1>6, <2>1, <2>2 DEF Mon
<1>7. CASE MonitorReads(w)
  <2>1. Written
    BY <1>1, <1>7 DEF MonitorReads
  <2>2. CASE StopMonitor(w)
    BY <1>5, <1>7, <2>1, <2>2 DEF MonitorReads, Mon
  <2>3. CASE row.sid # NoService /\ monitor' = [monitor EXCEPT ![w].stage = "polling", ![w].copy = row, ![w].key = token]
    <3> DEFINE m == [old EXCEPT !.stage = "polling", !.copy = row, !.key = token]
    <3>1. m \in Monitors /\ m.polls = old.polls /\ m.stage = "polling" /\ m.copy = row
      BY <1>1 DEF Monitors
    <3>2. monitor' = [monitor EXCEPT ![w] = m]
      BY <2>3, <1>1 DEF DeployTypeOK
    <3> HIDE DEF m
    <3> QED
      BY <1>1, <1>2, <1>7, <2>1, <2>3, <3>1, <3>2 DEF MonitorReads, Mon
  <2> QED
    BY <1>7, <2>2, <2>3 DEF MonitorReads
<1>8. CASE Poll(w)
  <2>1. Written
    BY <1>1, <1>8 DEF Poll
  <2>2. CASE monitor' = [monitor EXCEPT ![w].stage = "raised"]
    BY <1>6, <1>8, <2>1, <2>2 DEF Poll
  <2>3. CASE /\ service[old.copy.sid] # "gone"
             /\ monitor' = [monitor EXCEPT ![w].stage = "saving", ![w].answer = StatusOf(service[old.copy.sid])]
    <3> DEFINE m == [old EXCEPT !.stage = "saving", !.answer = StatusOf(service[old.copy.sid])]
    <3>1. StatusOf(service[old.copy.sid]) \in Statuses
      BY <1>1, <1>8, <2>3 DEF Poll, Mon, StatusOf, Builds, Statuses, Terminal
    <3>2. m \in Monitors /\ m.polls = old.polls /\ m.stage = "saving" /\ m.copy = old.copy
      BY <1>1, <3>1 DEF Monitors
    <3>3. monitor' = [monitor EXCEPT ![w] = m]
      BY <2>3, <1>1 DEF DeployTypeOK
    <3> HIDE DEF m
    <3> QED
      BY <1>1, <1>8, <2>1, <3>2, <3>3 DEF Poll, Mon
  <2> QED
    BY <1>8, <2>2, <2>3 DEF Poll
<1>9. CASE PollUnauthorized(w)
  <2>1. Written
    BY <1>1, <1>9 DEF PollUnauthorized
  <2>2. CASE monitor' = [monitor EXCEPT ![w].stage = "raised"]
    BY <1>6, <1>9, <2>1, <2>2 DEF PollUnauthorized
  <2>3. CASE monitor' = [monitor EXCEPT ![w].renewed = TRUE, ![w].key = "good"]
    <3> DEFINE m == [old EXCEPT !.renewed = TRUE, !.key = "good"]
    <3>1. m \in Monitors /\ m.polls = old.polls /\ m.stage = old.stage /\ m.copy = old.copy
      BY <1>1 DEF Monitors, Tokens
    <3>2. monitor' = [monitor EXCEPT ![w] = m]
      BY <2>3, <1>1 DEF DeployTypeOK
    <3> HIDE DEF m
    <3> QED
      BY <1>1, <1>9, <2>1, <3>1, <3>2 DEF PollUnauthorized, Mon
  <2> QED
    BY <1>9, <2>2, <2>3 DEF PollUnauthorized
<1>10. CASE SaveStatus(w)
  <2> DEFINE n == [old.copy EXCEPT !.status = old.answer]
             late == old.answer \notin Terminal /\ old.polls + 1 = MaxPolls
  <2>1. n \in Rows /\ n.sid = old.copy.sid /\ [n EXCEPT !.status = "failed"] \in Rows
    BY <1>1, <1>2, <1>4
  <2>2. row' \in {row, n, [n EXCEPT !.status = "failed"]}
    BY <1>10 DEF SaveStatus, Put
  <2>3. Written
    BY <1>1, <1>3, <1>10, <2>1, <2>2 DEF SaveStatus, Mon
  <2>4. CASE monitor' = [monitor EXCEPT ![w] = NoMonitor]
    BY <1>5, <1>10, <2>3, <2>4 DEF SaveStatus, Mon, StopMonitor
  <2>5. CASE /\ ~late /\ old.answer \notin Terminal
             /\ monitor' = [monitor EXCEPT ![w] = [old EXCEPT !.stage = "polling", !.copy = n, !.polls = @ + 1]]
    <3> HIDE DEF n
    <3> DEFINE m == [old EXCEPT !.stage = "polling", !.copy = n, !.polls = @ + 1]
    <3>1. old.polls + 1 \in 0 .. MaxPolls /\ old.polls + 1 < MaxPolls
      BY <1>1, <2>5
    <3>2. m \in Monitors /\ m.polls = old.polls + 1 /\ m.stage = "polling" /\ m.copy = n
      BY <1>1, <2>1, <3>1 DEF Monitors
    <3>3. monitor' = [monitor EXCEPT ![w] = m]
      BY <2>5
    <3> HIDE DEF m
    <3> QED
      BY <1>1, <1>10, <2>1, <2>3, <3>1, <3>2, <3>3 DEF SaveStatus, Mon
  <2> QED
    BY <1>10, <2>4, <2>5 DEF SaveStatus
<1>11. CASE MonitorFails(w)
  <2>1. row' \in Rows
    BY <1>1, <1>2, <1>4, <1>11 DEF MonitorFails, Put
  <2>2. Written
    BY <1>3, <1>11, <2>1 DEF MonitorFails, Mon
  <2> QED
    BY <1>5, <1>11, <2>2 DEF MonitorFails, Mon
<1> QED
  BY <1>7, <1>8, <1>9, <1>10, <1>11 DEF MonitorStep

\* what happens to the requests when none of them takes a step
Elsewise == \/ \E w \in Workers : MonitorStep(w) \/ CrashWorker(w) \/ RestartWorker(w)
            \/ \E s \in Services : BuildMoves(s)
            \/ TokenDies \/ LinkAccount \/ UnlinkAccount \/ UNCHANGED deployVars

\* the requests of another step: they are where they were, or died with their worker
LEMMA RequestsStay ==
  ASSUME DeployTypeOK, Elsewise
  PROVE  /\ request' \in [Requests -> RequestType]
         /\ \A r \in Requests :
              /\ request'[r].worker = request[r].worker
              /\ \/ request'[r].stage = "idle"
                 \/ /\ request'[r].stage = request[r].stage
                    /\ request'[r].key = "good" => request[r].key = "good"
<1>1. request \in [Requests -> RequestType] /\ token \in Tokens
  BY DEF DeployTypeOK, RequestType
<1>2. CASE TokenDies
  <2> DEFINE y(r) == [request[r] EXCEPT !.key = token']
  <2>1. token' \in Tokens /\ token' # "good"
    BY <1>2 DEF TokenDies, Tokens
  <2>2. ASSUME NEW r \in Requests
        PROVE  y(r) \in RequestType /\ y(r).stage = request[r].stage /\ y(r).worker = request[r].worker
               /\ y(r).key = token'
    BY <1>1, <2>1 DEF RequestType
  <2>3. request' = [r \in Requests |-> IF On(r, "idle") \/ request[r].key # "good" THEN request[r] ELSE y(r)]
    BY <1>2 DEF TokenDies
  <2> HIDE DEF y
  <2> QED
    BY <1>1, <2>1, <2>2, <2>3
<1>3. ASSUME NEW w \in Workers, CrashWorker(w)
      PROVE  /\ request' \in [Requests -> RequestType]
             /\ \A r \in Requests : /\ request'[r].worker = request[r].worker
                                    /\ request'[r] = request[r] \/ request'[r].stage = "idle"
  <2>1. ASSUME NEW r \in Requests
        PROVE  Idle(r) \in RequestType /\ Idle(r).stage = "idle" /\ Idle(r).worker = request[r].worker
    BY <1>1 DEF RequestType, Idle, DeployStages, Tokens
  <2>2. request' = [r \in Requests |-> IF request[r].worker = w THEN Idle(r) ELSE request[r]]
    BY <1>3 DEF CrashWorker
  <2> QED
    BY <1>1, <2>1, <2>2
<1>4. ASSUME NEW w \in Workers, MonitorStep(w) \/ RestartWorker(w) PROVE request' = request
  BY <1>4 DEF MonitorStep, MonitorReads, Poll, PollUnauthorized, SaveStatus, MonitorFails, RestartWorker
<1>5. CASE LinkAccount \/ UnlinkAccount \/ UNCHANGED deployVars \/ \E s \in Services : BuildMoves(s)
  BY <1>1, <1>5 DEF LinkAccount, UnlinkAccount, BuildMoves, deployVars
<1> QED
  BY <1>1, <1>2, <1>3, <1>4, <1>5 DEF Elsewise

\* a request that starts
LEMMA RequestStarts ==
  ASSUME DeployTypeOK, NEW r \in Requests, Deploy(r) \/ Delete(r)
  PROVE  /\ On(r, "idle") /\ Quiet /\ up[request[r].worker]
         /\ \E x \in RequestType :
              /\ request' = [request EXCEPT ![r] = x] /\ x.worker = request[r].worker
              /\ \/ Deploy(r) /\ x.stage = "pushing"
                 \/ Delete(r) /\ x.stage = "erasing"
<1>1. request \in [Requests -> RequestType] /\ request[r] \in RequestType /\ token \in Tokens
      /\ row \in Rows \cup {NoRow}
  BY DEF DeployTypeOK, RequestType
<1>2. row.sid \in Services \cup {NoService}
  BY <1>1, RowFields
<1>3. CASE Deploy(r)
  <2> DEFINE x == [request[r] EXCEPT !.stage = "pushing", !.key = token]
  <2>1. x \in RequestType /\ x.stage = "pushing" /\ x.worker = request[r].worker
    BY <1>1 DEF RequestType, DeployStages
  <2>2. request' = [request EXCEPT ![r] = x]
    BY <1>1, <1>3 DEF Deploy
  <2> HIDE DEF x
  <2> QED
    BY <1>3, <2>1, <2>2 DEF Deploy
<1>4. CASE Delete(r)
  <2> DEFINE x == [request[r] EXCEPT !.copy = row, !.sid = row.sid, !.stage = "erasing"]
  <2>1. x \in RequestType /\ x.stage = "erasing" /\ x.worker = request[r].worker
    BY <1>1, <1>2 DEF RequestType, DeployStages
  <2>2. request' = [request EXCEPT ![r] = x]
    BY <1>1, <1>4 DEF Delete
  <2> HIDE DEF x
  <2> QED
    BY <1>4, <2>1, <2>2 DEF Delete
<1> QED
  BY <1>3, <1>4

\* what Railway runs, and the count of it
LEMMA ServicesMove ==
  ASSUME DeploymentAssumption, DeployTypeOK, [DeployNext]_deployVars
  PROVE  /\ service' \in [Services -> Builds \cup {"gone"}] /\ created' \in 0 .. MaxServices
         /\ \/ Running' \subseteq Running
            \/ \E r \in Requests : CreateService(r) /\ Running' \subseteq Running \cup {created'}
<1>1. service \in [Services -> Builds \cup {"gone"}] /\ created \in 0 .. MaxServices
  BY DEF DeployTypeOK
<1>2. ASSUME NEW r \in Requests, CreateService(r)
      PROVE  /\ service' \in [Services -> Builds \cup {"gone"}] /\ created' \in 0 .. MaxServices
             /\ Running' \subseteq Running \cup {created'}
  <2>1. created' \in 0 .. MaxServices
    BY <1>1, <1>2 DEF CreateService, DeploymentAssumption
  <2> QED
    BY <1>1, <1>2, <2>1 DEF CreateService, Running, Builds
<1>3. ASSUME NEW r \in Requests, TriggerDeployment(r) \/ EraseService(r)
      PROVE  service' \in [Services -> Builds \cup {"gone"}] /\ Running' \subseteq Running /\ created' = created
  <2>1. CASE TriggerDeployment(r)
    BY <1>1, <2>1 DEF TriggerDeployment, Running, Builds
  <2>2. CASE EraseService(r)
    BY <1>1, <2>2 DEF EraseService, Running, Builds
  <2> QED
    BY <1>3, <2>1, <2>2
<1>4. ASSUME NEW s \in Services, BuildMoves(s)
      PROVE  service' \in [Services -> Builds \cup {"gone"}] /\ Running' \subseteq Running /\ created' = created
  <2>1. PICK b \in Builds : service' = [service EXCEPT ![s] = b]
    BY <1>4 DEF BuildMoves, Builds, Terminal
  <2> QED
    BY <1>1, <1>4, <2>1 DEF BuildMoves, Running, Builds
<1>5. ASSUME NEW r \in Requests,
             \/ Deploy(r) \/ Delete(r) \/ PushFails(r) \/ ReadDeployment(r) \/ Unauthorized(r)
             \/ LookUpService(r) \/ ConfigureVolume(r) \/ ProvisionFails(r) \/ RefreshToken(r)
             \/ SaveDeployment(r) \/ StartMonitoring(r) \/ RemoveDeployment(r)
      PROVE  service' = service /\ created' = created
  BY <1>5 DEF Deploy, Delete, PushFails, ReadDeployment, Unauthorized, LookUpService, ConfigureVolume,
              ProvisionFails, RefreshToken, SaveDeployment, StartMonitoring, RemoveDeployment
<1>6. ASSUME NEW w \in Workers, MonitorStep(w) \/ CrashWorker(w) \/ RestartWorker(w)
      PROVE  service' = service /\ created' = created
  BY <1>6 DEF MonitorStep, MonitorReads, Poll, PollUnauthorized, SaveStatus, MonitorFails, CrashWorker, RestartWorker
<1>7. CASE TokenDies \/ LinkAccount \/ UnlinkAccount \/ UNCHANGED deployVars
  BY <1>1, <1>7 DEF TokenDies, LinkAccount, UnlinkAccount, deployVars, Running
<1> QED
  <2>1. CASE service' = service /\ created' = created
    BY <1>1, <2>1 DEF Running
  <2> QED
    BY <1>1, <1>2, <1>3, <1>4, <1>5, <1>6, <1>7, <2>1 DEF DeployNext, RequestStep

\* every step keeps the types
LEMMA DeployTypeStep ==
  ASSUME DeploymentAssumption, DeployTypeOK, MonitorPart, [DeployNext]_deployVars
  PROVE  DeployTypeOK' /\ MonitorPart'
<1>0. /\ row \in Rows \cup {NoRow} /\ token \in Tokens /\ account \in {"linked", "unlinked"}
      /\ request \in [Requests -> RequestType] /\ monitor \in [Workers -> Monitors]
      /\ up \in [Workers -> BOOLEAN]
      /\ deploys \in 0 .. MaxDeploys /\ trouble \in 0 .. MaxTrouble
      /\ MaxDeploys \in Nat /\ MaxTrouble \in Nat
  BY DEF DeployTypeOK, RequestType, DeploymentAssumption
<1>1. service' \in [Services -> Builds \cup {"gone"}] /\ created' \in 0 .. MaxServices
  BY ServicesMove
<1>2. ASSUME row' \in Rows \cup {NoRow}, token' \in Tokens, account' \in {"linked", "unlinked"},
             request' \in [Requests -> RequestType], monitor' \in [Workers -> Monitors],
             up' \in [Workers -> BOOLEAN], deploys' \in 0 .. MaxDeploys, trouble' \in 0 .. MaxTrouble
      PROVE  DeployTypeOK'
  BY <1>1, <1>2 DEF DeployTypeOK, RequestType
<1>3. ASSUME NEW w \in Workers, NEW m \in Monitors, monitor' = [monitor EXCEPT ![w] = m],
             m.polls < MaxPolls, m.stage \in {"polling", "saving"} => m.copy.sid \in Services
      PROVE  monitor' \in [Workers -> Monitors] /\ MonitorPart'
  BY <1>0, <1>3 DEF MonitorPart
<1>4. ASSUME NEW w \in Workers, NEW s \in {"reading"}, monitor' = [monitor EXCEPT ![w] = [NoMonitor EXCEPT !.stage = s]]
      PROVE  monitor' \in [Workers -> Monitors] /\ MonitorPart'
  <2> DEFINE m == [NoMonitor EXCEPT !.stage = s]
  <2>1. NoMonitor \in Monitors /\ NoMonitor.polls = 0 /\ 0 < MaxPolls
    BY DEF NoMonitor, Monitors, DeploymentAssumption, Tokens, Statuses, Terminal
  <2>2. m \in Monitors /\ m.polls = NoMonitor.polls /\ m.stage = s
    BY <2>1 DEF Monitors
  <2>3. monitor' = [monitor EXCEPT ![w] = m]
    BY <1>4
  <2>4. m.polls < MaxPolls /\ m.stage \notin {"polling", "saving"}
    BY <2>1, <2>2
  <2> HIDE DEF m
  <2> QED
    BY <1>3, <2>2, <2>3, <2>4
<1>6. ASSUME NEW w \in Workers, monitor' = [monitor EXCEPT ![w] = NoMonitor]
      PROVE  monitor' \in [Workers -> Monitors] /\ MonitorPart'
  <2>1. NoMonitor \in Monitors /\ NoMonitor.polls = 0 /\ NoMonitor.stage = "idle" /\ 0 < MaxPolls
    BY DEF NoMonitor, Monitors, DeploymentAssumption, Tokens, Statuses, Terminal
  <2> QED
    BY <1>3, <1>6, <2>1
<1>7. ASSUME monitor' = monitor PROVE monitor' \in [Workers -> Monitors] /\ MonitorPart'
  BY <1>0, <1>7 DEF MonitorPart
<1>8. ASSUME NEW r \in Requests, Deploy(r) \/ Delete(r) PROVE DeployTypeOK' /\ MonitorPart'
  <2>1. request' \in [Requests -> RequestType] /\ request[r].worker \in Workers
    BY <1>0, <1>8, RequestStarts DEF RequestType
  <2>2. CASE Deploy(r)
    <3>1. deploys' \in 0 .. MaxDeploys
      BY <1>0, <2>2 DEF Deploy
    <3>2. monitor' \in [Workers -> Monitors] /\ MonitorPart'
      BY <1>7, <2>2 DEF Deploy
    <3>3. UNCHANGED <<row, account, token, up, trouble>>
      BY <2>2 DEF Deploy
    <3> QED
      BY <1>0, <1>2, <2>1, <3>1, <3>2, <3>3
  <2>3. CASE Delete(r)
    <3>1. monitor' \in [Workers -> Monitors] /\ MonitorPart'
      BY <1>6, <2>1, <2>3 DEF Delete
    <3>2. UNCHANGED <<row, account, token, up, deploys, trouble>>
      BY <2>3 DEF Delete
    <3> QED
      BY <1>0, <1>2, <2>1, <3>1, <3>2
  <2> QED
    BY <1>8, <2>2, <2>3
<1>9. ASSUME NEW r \in Requests, RequestStep(r) PROVE DeployTypeOK' /\ MonitorPart'
  <2>1. request' \in [Requests -> RequestType]
    BY <1>0, <1>9, RequestMoves
  <2>2. request[r].worker \in Workers /\ request[r].sid \in Services \cup {NoService}
    BY <1>0 DEF RequestType
  <2>3. row' \in Rows \cup {NoRow}
    <3>1. [status |-> "building", sid |-> request[r].sid] \in Rows
      BY <2>2 DEF Rows, Statuses
    <3> QED
      BY <1>0, <1>9, <3>1 DEF RequestStep, PushFails, ReadDeployment, Unauthorized, LookUpService, CreateService,
         ConfigureVolume, TriggerDeployment, ProvisionFails, RefreshToken, SaveDeployment, StartMonitoring,
         EraseService, RemoveDeployment, Put, Drop
  <2>4. token' \in Tokens /\ account' \in {"linked", "unlinked"}
    BY <1>0, <1>9 DEF RequestStep, PushFails, ReadDeployment, Unauthorized, LookUpService, CreateService,
       ConfigureVolume, TriggerDeployment, ProvisionFails, RefreshToken, SaveDeployment, StartMonitoring,
       EraseService, RemoveDeployment, Tokens
  <2>5. UNCHANGED <<up, deploys, trouble>>
    BY <1>9 DEF RequestStep, PushFails, ReadDeployment, Unauthorized, LookUpService, CreateService,
       ConfigureVolume, TriggerDeployment, ProvisionFails, RefreshToken, SaveDeployment, StartMonitoring,
       EraseService, RemoveDeployment
  <2>6. \/ monitor' = monitor
        \/ monitor' = [monitor EXCEPT ![request[r].worker] = [NoMonitor EXCEPT !.stage = "reading"]]
    BY <1>9 DEF RequestStep, PushFails, ReadDeployment, Unauthorized, LookUpService, CreateService,
       ConfigureVolume, TriggerDeployment, ProvisionFails, RefreshToken, SaveDeployment, StartMonitoring,
       EraseService, RemoveDeployment
  <2>7. monitor' \in [Workers -> Monitors] /\ MonitorPart'
    BY <1>4, <1>7, <2>2, <2>6
  <2> QED
    BY <1>0, <1>2, <2>1, <2>3, <2>4, <2>5, <2>7
<1>10. ASSUME Elsewise PROVE request' \in [Requests -> RequestType]
  BY <1>10, RequestsStay
<1>11. ASSUME NEW w \in Workers, MonitorStep(w) PROVE DeployTypeOK' /\ MonitorPart'
  <2>1. request' \in [Requests -> RequestType]
    BY <1>10, <1>11 DEF Elsewise
  <2>2. row' \in Rows \cup {NoRow} /\ monitor' \in [Workers -> Monitors] /\ MonitorPart'
    BY <1>3, <1>11, MonitorMoves
  <2>3. token' \in Tokens /\ account' \in {"linked", "unlinked"} /\ UNCHANGED <<up, deploys, trouble>>
    BY <1>0, <1>11 DEF MonitorStep, MonitorReads, Poll, PollUnauthorized, SaveStatus, MonitorFails, Tokens
  <2> QED
    BY <1>0, <1>2, <2>1, <2>2, <2>3
<1>12. ASSUME NEW w \in Workers, CrashWorker(w) \/ RestartWorker(w) PROVE DeployTypeOK' /\ MonitorPart'
  <2>1. request' \in [Requests -> RequestType]
    BY <1>10, <1>12 DEF Elsewise
  <2>2. monitor' \in [Workers -> Monitors] /\ MonitorPart'
    BY <1>4, <1>6, <1>7, <1>12 DEF CrashWorker, RestartWorker
  <2>3. up' \in [Workers -> BOOLEAN]
    BY <1>0, <1>12 DEF CrashWorker, RestartWorker
  <2>4. trouble' \in 0 .. MaxTrouble /\ UNCHANGED <<row, account, token, deploys>>
    BY <1>0, <1>12 DEF CrashWorker, RestartWorker
  <2> QED
    BY <1>0, <1>2, <2>1, <2>2, <2>3, <2>4
<1>13. CASE TokenDies
  <2>1. request' \in [Requests -> RequestType]
    BY <1>10, <1>13 DEF Elsewise
  <2>2. monitor' \in [Workers -> Monitors] /\ MonitorPart'
    <3> DEFINE y(w) == [monitor[w] EXCEPT !.key = token']
    <3>1. ASSUME NEW w \in Workers
          PROVE  y(w) \in Monitors /\ y(w).stage = monitor[w].stage /\ y(w).copy = monitor[w].copy
                 /\ y(w).polls = monitor[w].polls
      BY <1>0, <1>13 DEF TokenDies, Monitors, Tokens
    <3>2. monitor' = [w \in Workers |-> IF monitor[w].stage \in {"polling", "saving"} /\ monitor[w].key = "good"
                                        THEN y(w) ELSE monitor[w]]
      BY <1>13 DEF TokenDies
    <3> HIDE DEF y
    <3>3. monitor' \in [Workers -> Monitors]
      BY <1>0, <3>1, <3>2
    <3>4. \A w \in Workers : /\ monitor'[w].stage = monitor[w].stage /\ monitor'[w].copy = monitor[w].copy
                             /\ monitor'[w].polls = monitor[w].polls
      BY <3>1, <3>2
    <3> QED
      BY <3>3, <3>4 DEF MonitorPart
  <2>3. token' \in Tokens /\ trouble' \in 0 .. MaxTrouble /\ UNCHANGED <<row, account, up, deploys>>
    BY <1>0, <1>13 DEF TokenDies, Tokens
  <2> QED
    BY <1>0, <1>2, <2>1, <2>2, <2>3
<1>14. CASE LinkAccount \/ UnlinkAccount \/ (\E s \in Services : BuildMoves(s)) \/ UNCHANGED deployVars
  <2>1. UNCHANGED <<row, request, monitor, up, deploys>>
    BY <1>14 DEF LinkAccount, UnlinkAccount, BuildMoves, deployVars
  <2>2. token' \in Tokens /\ account' \in {"linked", "unlinked"}
    BY <1>0, <1>14 DEF LinkAccount, UnlinkAccount, BuildMoves, deployVars, Tokens
  <2>3. trouble' \in 0 .. MaxTrouble
    BY <1>0, <1>14 DEF LinkAccount, UnlinkAccount, BuildMoves, deployVars
  <2> QED
    BY <1>0, <1>2, <1>7, <2>1, <2>2, <2>3
<1> QED
  BY <1>8, <1>9, <1>11, <1>12, <1>13, <1>14 DEF DeployNext

(***************************************************************************)
(* One request at a time; the one about to create a service with a token   *)
(* Railway accepts has found none.                                         *)
(***************************************************************************)
OneAtATime == \A r, s \in Requests : On(r, "idle") \/ On(s, "idle") \/ r = s
CreationPart == \A r \in Requests : On(r, "creating") /\ Authorized(r) => Running = {}
OneRunning == \A s, t \in Running : s = t
DeployInv == DeployTypeOK /\ MonitorPart /\ OneAtATime /\ CreationPart /\ OneRunning

\* requests that do not overlap stay apart
LEMMA OneAtATimeStep ==
  ASSUME DeploymentAssumption, ~Overlap, DeployTypeOK, OneAtATime, [DeployNext]_deployVars
  PROVE  OneAtATime'
<1>0. request \in [Requests -> RequestType]
  BY DEF DeployTypeOK, RequestType
<1>1. ASSUME NEW r \in Requests, NEW x \in RequestType, request' = [request EXCEPT ![r] = x],
             ~On(r, "idle") \/ Quiet
      PROVE  OneAtATime'
  <2>1. \A s \in Requests \ {r} : On(s, "idle")
    BY <1>1 DEF OneAtATime, Quiet
  <2> QED
    BY <1>0, <1>1, <2>1 DEF OneAtATime, On
<1>2. ASSUME NEW r \in Requests, RequestStep(r) PROVE OneAtATime'
  BY <1>1, <1>2, RequestMoves
<1>3. ASSUME NEW r \in Requests, Deploy(r) \/ Delete(r) PROVE OneAtATime'
  BY <1>1, <1>3, RequestStarts
<1>4. CASE Elsewise
  <2>1. \A r \in Requests : request'[r].stage \in {"idle", request[r].stage}
    BY <1>4, RequestsStay
  <2> QED
    BY <2>1 DEF OneAtATime, On
<1> QED
  BY <1>2, <1>3, <1>4 DEF DeployNext, Elsewise

\* a request that is about to create a service found none
LEMMA CreationStep ==
  ASSUME DeploymentAssumption, ~Overlap, ~BlindLookup, DeployTypeOK, OneAtATime, CreationPart, OneRunning,
         [DeployNext]_deployVars
  PROVE  CreationPart' /\ OneRunning'
<1>0. request \in [Requests -> RequestType]
  BY DEF DeployTypeOK, RequestType
<1>1. OneRunning'
  <2>1. CASE Running' \subseteq Running
    BY <2>1 DEF OneRunning
  <2>2. CASE \E r \in Requests : CreateService(r) /\ Running' \subseteq Running \cup {created'}
    BY <2>2 DEF CreateService, CreationPart, OneRunning
  <2> QED
    BY <2>1, <2>2, ServicesMove
<1>2. CreationPart'
  <2> SUFFICES ASSUME NEW r \in Requests, request'[r].stage = "creating", request'[r].key = "good"
               PROVE  Running' = {}
    BY DEF CreationPart, On, Authorized
  <2>1. On(r, "looking") \/ On(r, "creating")
    <3>1. ASSUME NEW s \in Requests, RequestStep(s) PROVE On(r, "looking") \/ On(r, "creating")
      <4>1. PICK x \in RequestType : /\ request' = [request EXCEPT ![s] = x]
                                     /\ x.stage = "creating" => On(s, "looking")
        BY <3>1, RequestMoves
      <4> QED
        BY <1>0, <4>1 DEF On
    <3>2. ASSUME NEW s \in Requests, Deploy(s) \/ Delete(s) PROVE On(r, "looking") \/ On(r, "creating")
      <4>1. PICK x \in RequestType : request' = [request EXCEPT ![s] = x] /\ x.stage \in {"pushing", "erasing"}
        BY <3>2, RequestStarts
      <4> QED
        BY <1>0, <4>1 DEF On
    <3>3. CASE Elsewise
      BY <3>3, RequestsStay DEF On
    <3> QED
      BY <3>1, <3>2, <3>3 DEF DeployNext, Elsewise
  <2>2. \A s \in Requests : On(s, "idle") \/ s = r
    BY <2>1 DEF OneAtATime, On
  <2>3. request[r].key = "good" /\ (On(r, "looking") => Running = {})
    <3>1. ASSUME NEW s \in Requests, RequestStep(s)
          PROVE  request[r].key = "good" /\ (On(r, "looking") => Running = {})
      <4>1. PICK x \in RequestType : /\ request' = [request EXCEPT ![s] = x] /\ ~On(s, "idle")
                                     /\ x.stage = "creating" => /\ On(s, "looking") /\ x.key = request[s].key
                                                                /\ Found(s) = {} \/ BlindLookup
        BY <3>1, RequestMoves
      <4>2. s = r
        BY <2>2, <4>1
      <4>3. x = request'[r]
        BY <1>0, <4>1, <4>2
      <4> QED
        BY <4>1, <4>2, <4>3 DEF Found, Authorized
    <3>2. ASSUME NEW s \in Requests, Deploy(s) \/ Delete(s) PROVE FALSE
      BY <2>1, <3>2, RequestStarts DEF Quiet, On
    <3>3. CASE Elsewise
      <4>1. On(r, "creating") /\ request[r].key = "good"
        BY <3>3, RequestsStay DEF On
      <4> QED
        BY <4>1 DEF On
    <3> QED
      BY <3>1, <3>2, <3>3 DEF DeployNext, Elsewise
  <2>4. Running = {}
    BY <2>1, <2>3 DEF CreationPart, Authorized
  <2>5. ASSUME NEW s \in Requests, CreateService(s) PROVE FALSE
    <3>1. PICK x \in RequestType : /\ request' = [request EXCEPT ![s] = x] /\ ~On(s, "idle")
                                   /\ x.stage = "creating" => On(s, "looking")
      BY <2>5, RequestMoves DEF RequestStep
    <3>2. s = r
      BY <2>2, <3>1
    <3> QED
      BY <1>0, <2>5, <3>1, <3>2 DEF CreateService, On
  <2> QED
    BY <2>4, <2>5, ServicesMove
<1> QED
  BY <1>1, <1>2

(***************************************************************************)
(* Where requests of a project do not overlap and the query for the user's *)
(* projects does not fail, DeployInv holds.                                *)
(***************************************************************************)
THEOREM DeployInvariant ==
  ASSUME DeploymentAssumption, ~Overlap, ~BlindLookup PROVE DeploySpec => []DeployInv
<1>1. DeployInit => DeployInv
  <2> SUFFICES ASSUME DeployInit PROVE DeployInv
    OBVIOUS
  <2>1. Running = {} /\ \A r \in Requests : request[r].stage = "idle"
    BY DEF DeployInit, Running
  <2> QED
    BY <2>1, DeployInit_Type DEF DeployInv, OneAtATime, CreationPart, OneRunning, On
<1>2. DeployInv /\ [DeployNext]_deployVars => DeployInv'
  BY DeployTypeStep, OneAtATimeStep, CreationStep DEF DeployInv
<1> QED
  BY <1>1, <1>2, PTL DEF DeploySpec

(***************************************************************************)
(* The row, Railway, the account, the requests and the tasks have their    *)
(* types, whatever overlaps and whatever the query answers.                *)
(***************************************************************************)
THEOREM DeployTypeCorrect == ASSUME DeploymentAssumption PROVE DeploySpec => []DeployTypeOK
<1>1. DeployInit => DeployTypeOK /\ MonitorPart
  BY DeployInit_Type
<1>2. DeployTypeOK /\ MonitorPart /\ [DeployNext]_deployVars => (DeployTypeOK /\ MonitorPart)'
  BY DeployTypeStep
<1> QED
  BY <1>1, <1>2, PTL DEF DeploySpec

(***************************************************************************)
(* However many requests die between the creation of a service and its     *)
(* row, or are repeated with a renewed token, Railway runs one service.    *)
(***************************************************************************)
THEOREM OneServiceHolds ==
  ASSUME DeploymentAssumption, ~Overlap, ~BlindLookup PROVE DeploySpec => []OneService
<1>1. DeployInv => OneService
  <2> SUFFICES ASSUME DeployInv PROVE Cardinality(Running) <= 1
    BY DEF OneService
  <2>1. CASE Running = {}
    BY <2>1, FS_EmptySet
  <2>2. CASE Running # {}
    <3>1. PICK s \in Running : Running = {s}
      BY <2>2 DEF DeployInv, OneRunning
    <3> QED
      BY <3>1, FS_Singleton
  <2> QED
    BY <2>1, <2>2
<1> QED
  BY <1>1, DeployInvariant, PTL

(***************************************************************************)
(* With one worker, a deletion has cancelled the only polling task, no     *)
(* other starts before the row is gone, and a task that polls has seen a   *)
(* row.                                                                    *)
(***************************************************************************)
UpPart == \A r \in Requests : On(r, "idle") \/ up[request[r].worker]
ErasePart == \A r \in Requests : request[r].stage \in {"erasing", "removing"} => \A w \in Workers : Mon(w, "idle")
CopyPart == \A w \in Workers : monitor[w].stage \in {"polling", "saving", "raised"} => row # NoRow
ErasedInv == DeployTypeOK /\ MonitorPart /\ OneAtATime /\ UpPart /\ ErasePart /\ CopyPart

\* the backend has one process
OneWorker == \A v, w \in Workers : v = w

\* a request goes on in a process that is up
LEMMA UpStep ==
  ASSUME DeploymentAssumption, DeployTypeOK, UpPart, [DeployNext]_deployVars PROVE UpPart'
<1>0. request \in [Requests -> RequestType] /\ up \in [Workers -> BOOLEAN]
      /\ \A r \in Requests : request[r].worker \in Workers
  BY DEF DeployTypeOK, RequestType
<1>1. ASSUME NEW r \in Requests, NEW x \in RequestType, request' = [request EXCEPT ![r] = x],
             x.worker = request[r].worker, ~On(r, "idle") \/ up[request[r].worker], up' = up
      PROVE  UpPart'
  <2>1. \A s \in Requests : request'[s].worker = request[s].worker
    BY <1>0, <1>1
  <2>2. up[request[r].worker]
    BY <1>1 DEF UpPart
  <2>3. \A s \in Requests \ {r} : On(s, "idle") => request'[s].stage = "idle"
    BY <1>0, <1>1 DEF On
  <2>4. \A s \in Requests : request'[s].stage = "idle" \/ up[request[s].worker]
    BY <2>2, <2>3 DEF UpPart
  <2> QED
    BY <1>1, <2>1, <2>4 DEF UpPart, On
<1>2. ASSUME NEW r \in Requests, RequestStep(r) PROVE UpPart'
  <2>1. up' = up
    BY <1>2 DEF RequestStep, PushFails, ReadDeployment, Unauthorized, LookUpService, CreateService,
       ConfigureVolume, TriggerDeployment, ProvisionFails, RefreshToken, SaveDeployment, StartMonitoring,
       EraseService, RemoveDeployment
  <2> QED
    BY <1>1, <1>2, <2>1, RequestMoves
<1>3. ASSUME NEW r \in Requests, Deploy(r) \/ Delete(r) PROVE UpPart'
  <2>1. up' = up
    BY <1>3 DEF Deploy, Delete
  <2> QED
    BY <1>1, <1>3, <2>1, RequestStarts
<1>4. ASSUME NEW w \in Workers, CrashWorker(w) PROVE UpPart'
  <2>1. \A r \in Requests : request'[r].worker = request[r].worker
    BY <1>4, RequestsStay DEF Elsewise
  <2>2. \A r \in Requests : request[r].worker = w => request'[r].stage = "idle"
    <3>1. \A r \in Requests : request[r].worker = w => request'[r] = Idle(r)
      BY <1>4 DEF CrashWorker
    <3>2. \A r \in Requests : Idle(r).stage = "idle"
      BY <1>0 DEF Idle, RequestType
    <3> QED
      BY <3>1, <3>2
  <2>3. \A r \in Requests : request[r].worker # w => request'[r] = request[r] /\ up'[request[r].worker] = up[request[r].worker]
    BY <1>0, <1>4 DEF CrashWorker
  <2> QED
    BY <2>1, <2>2, <2>3 DEF UpPart, On
<1>5. ASSUME Elsewise, UNCHANGED up \/ \E w \in Workers : RestartWorker(w) PROVE UpPart'
  <2>1. \A r \in Requests : /\ request'[r].worker = request[r].worker
                           /\ request'[r].stage \in {"idle", request[r].stage}
    BY <1>5, RequestsStay
  <2>2. \A r \in Requests : up[request[r].worker] => up'[request[r].worker]
    BY <1>0, <1>5 DEF RestartWorker
  <2> QED
    BY <2>1, <2>2 DEF UpPart, On
<1>6. ASSUME NEW w \in Workers, MonitorStep(w) PROVE UNCHANGED up
  BY <1>6 DEF MonitorStep, MonitorReads, Poll, PollUnauthorized, SaveStatus, MonitorFails
<1>7. ASSUME TokenDies \/ LinkAccount \/ UnlinkAccount \/ (\E s \in Services : BuildMoves(s)) \/ UNCHANGED deployVars
      PROVE  UNCHANGED up
  BY <1>7 DEF TokenDies, LinkAccount, UnlinkAccount, BuildMoves, deployVars
<1> QED
  BY <1>2, <1>3, <1>4, <1>5, <1>6, <1>7 DEF DeployNext, Elsewise

\* the row appears by a request only, and goes while no task polls
LEMMA ErasedStep ==
  ASSUME DeploymentAssumption, ~Overlap, OneWorker, ErasedInv, [DeployNext]_deployVars
  PROVE  /\ ErasePart' /\ CopyPart'
         /\ row = NoRow /\ row' # NoRow => \E r \in Requests : On(r, "saving")
<1>0. /\ DeployTypeOK /\ MonitorPart /\ OneAtATime /\ UpPart /\ ErasePart /\ CopyPart
      /\ request \in [Requests -> RequestType] /\ monitor \in [Workers -> Monitors]
      /\ \A r \in Requests : request[r].worker \in Workers
      /\ up \in [Workers -> BOOLEAN]
  BY DEF ErasedInv, DeployTypeOK, RequestType
<1> DEFINE Goal == /\ ErasePart' /\ CopyPart'
                   /\ row = NoRow /\ row' # NoRow => \E r \in Requests : On(r, "saving")
<1>a. NoMonitor.stage = "idle" /\ [NoMonitor EXCEPT !.stage = "reading"].stage = "reading"
  BY DEF NoMonitor
<1>1. ASSUME NEW r \in Requests, Deploy(r) PROVE Goal
  <2>1. request[r] \in RequestType
    BY <1>0
  <2>2. \A s \in Requests : request'[s].stage \in {"pushing", request[s].stage}
    BY <1>0, <1>1, <2>1 DEF Deploy, RequestType
  <2>3. row' = row /\ monitor' = monitor
    BY <1>1 DEF Deploy
  <2> QED
    BY <1>0, <2>2, <2>3 DEF ErasePart, CopyPart, Mon
<1>2. ASSUME NEW r \in Requests, Delete(r) PROVE Goal
  <2>1. monitor' = [monitor EXCEPT ![request[r].worker] = NoMonitor] /\ row' = row
    BY <1>2 DEF Delete
  <2>2. \A w \in Workers : monitor'[w].stage = "idle"
    BY <1>0, <1>a, <2>1 DEF OneWorker
  <2> QED
    BY <2>1, <2>2 DEF ErasePart, CopyPart, Mon
<1>3. ASSUME NEW r \in Requests, RequestStep(r), UNCHANGED <<row, monitor>> PROVE Goal
  <2>1. PICK x \in RequestType : /\ request' = [request EXCEPT ![r] = x]
                                 /\ x.stage \in {"erasing", "removing"} => On(r, "erasing")
    BY <1>0, <1>3, RequestMoves
  <2>2. \A s \in Requests : request'[s].stage \in {"erasing", "removing"} => request[s].stage \in {"erasing", "removing"}
    BY <1>0, <2>1 DEF On
  <2> QED
    BY <1>0, <1>3, <2>2 DEF ErasePart, CopyPart, Mon
<1>4. ASSUME NEW r \in Requests, SaveDeployment(r) PROVE Goal
  <2>1. PICK x \in RequestType : /\ request' = [request EXCEPT ![r] = x]
                                 /\ x.stage \in {"erasing", "removing"} => On(r, "erasing")
    BY <1>0, <1>4, RequestMoves DEF RequestStep
  <2>2. \A s \in Requests : request'[s].stage \in {"erasing", "removing"} => request[s].stage \in {"erasing", "removing"}
    BY <1>0, <2>1 DEF On
  <2>3. row' \in Rows /\ monitor' = monitor /\ On(r, "saving")
    <3>1. [status |-> "building", sid |-> request[r].sid] \in Rows
      BY <1>0 DEF Rows, RequestType, Statuses
    <3> QED
      BY <1>4, <3>1 DEF SaveDeployment, Put
  <2> QED
    BY <1>0, <2>2, <2>3, RowFields DEF ErasePart, CopyPart, Mon
<1>5. ASSUME NEW r \in Requests, StartMonitoring(r) \/ RemoveDeployment(r) PROVE Goal
  <2>1. PICK x \in RequestType : /\ request' = [request EXCEPT ![r] = x] /\ ~On(r, "idle")
                                 /\ x.stage \in {"erasing", "removing"} => On(r, "erasing")
    BY <1>0, <1>5, RequestMoves DEF RequestStep
  <2>2. \A s \in Requests \ {r} : On(s, "idle")
    BY <1>0, <2>1 DEF OneAtATime
  <2>3. \A s \in Requests : request'[s].stage \notin {"erasing", "removing"}
    BY <1>0, <1>5, <2>1, <2>2 DEF On, StartMonitoring, RemoveDeployment
  <2>4. CASE StartMonitoring(r)
    <3>1. row' = row /\ \A w \in Workers : monitor'[w].stage \in {"reading", monitor[w].stage}
      BY <1>0, <1>a, <2>4 DEF StartMonitoring
    <3> QED
      BY <1>0, <2>3, <3>1 DEF ErasePart, CopyPart
  <2>5. CASE RemoveDeployment(r)
    <3>1. row' = NoRow /\ monitor' = monitor /\ \A w \in Workers : Mon(w, "idle")
      BY <1>0, <2>5 DEF RemoveDeployment, Drop, ErasePart, On
    <3> QED
      BY <2>3, <3>1 DEF ErasePart, CopyPart, Mon
  <2> QED
    BY <1>5, <2>4, <2>5
<1>6. ASSUME NEW r \in Requests, RequestStep(r) PROVE Goal
  <2>1. \/ SaveDeployment(r) \/ StartMonitoring(r) \/ RemoveDeployment(r) \/ UNCHANGED <<row, monitor>>
    BY <1>6 DEF RequestStep, PushFails, ReadDeployment, Unauthorized, LookUpService, CreateService,
       ConfigureVolume, TriggerDeployment, ProvisionFails, RefreshToken, EraseService
  <2> QED
    BY <1>3, <1>4, <1>5, <1>6, <2>1
<1>7. ASSUME Elsewise
      PROVE  \A r \in Requests : request'[r].stage \in {"erasing", "removing"} => request[r].stage \in {"erasing", "removing"}
  BY <1>0, <1>7, RequestsStay
<1>8. ASSUME NEW w \in Workers, MonitorStep(w) PROVE Goal
  <2>1. PICK m \in Monitors :
          /\ monitor' = [monitor EXCEPT ![w] = m] /\ ~Mon(w, "idle")
          /\ m.stage \in {"polling", "saving", "raised"} =>
               row.sid # NoService \/ monitor[w].stage \in {"polling", "saving", "raised"}
    BY <1>0, <1>8, MonitorMoves
  <2>2. /\ row' # row => row' # NoRow
        /\ row' # row => monitor[w].stage \in {"polling", "saving", "raised"}
    BY <1>0, <1>8, MonitorMoves
  <2>3. ErasePart'
    <3>1. \A r \in Requests : request[r].stage \notin {"erasing", "removing"}
      BY <1>0, <2>1 DEF ErasePart
    <3> QED
      BY <1>7, <1>8, <3>1 DEF ErasePart, Elsewise
  <2>4. row = NoRow => row' = NoRow
    BY <1>0, <2>2 DEF CopyPart
  <2>5. row # NoRow => row' # NoRow
    BY <2>2
  <2>6. CopyPart'
    BY <1>0, <2>1, <2>5, RowFields DEF CopyPart
  <2> QED
    BY <2>3, <2>4, <2>6
<1>9. ASSUME NEW w \in Workers, CrashWorker(w) PROVE Goal
  <2>1. row' = row /\ \A v \in Workers : monitor'[v].stage \in {"idle", monitor[v].stage}
    BY <1>0, <1>a, <1>9 DEF CrashWorker
  <2> QED
    BY <1>0, <1>7, <1>9, <2>1 DEF ErasePart, CopyPart, Mon, Elsewise
<1>10. ASSUME NEW w \in Workers, RestartWorker(w) PROVE Goal
  <2>1. row' = row /\ \A v \in Workers : monitor'[v].stage \in {"reading", monitor[v].stage}
    BY <1>0, <1>a, <1>10 DEF RestartWorker
  <2>2. \A r \in Requests : On(r, "idle")
    BY <1>0, <1>10 DEF RestartWorker, UpPart, OneWorker
  <2>3. \A r \in Requests : request[r].stage \notin {"erasing", "removing"}
    BY <2>2 DEF On
  <2> QED
    BY <1>0, <1>7, <1>10, <2>1, <2>3 DEF ErasePart, CopyPart, Elsewise
<1>11. CASE TokenDies
  <2>1. row' = row /\ \A w \in Workers : monitor'[w].stage = monitor[w].stage
    <3>1. \A w \in Workers : [monitor[w] EXCEPT !.key = token'].stage = monitor[w].stage
      BY <1>0 DEF Monitors
    <3> DEFINE y(w) == [monitor[w] EXCEPT !.key = token']
    <3>2. monitor' = [w \in Workers |-> IF monitor[w].stage \in {"polling", "saving"} /\ monitor[w].key = "good"
                                        THEN y(w) ELSE monitor[w]]
      BY <1>11 DEF TokenDies
    <3>3. \A w \in Workers : y(w).stage = monitor[w].stage
      BY <3>1
    <3> HIDE DEF y
    <3> QED
      BY <1>11, <3>2, <3>3 DEF TokenDies
  <2> QED
    BY <1>0, <1>7, <1>11, <2>1 DEF ErasePart, CopyPart, Mon, Elsewise
<1>12. CASE LinkAccount \/ UnlinkAccount \/ (\E s \in Services : BuildMoves(s)) \/ UNCHANGED deployVars
  <2>1. UNCHANGED <<row, monitor, request>>
    BY <1>12 DEF LinkAccount, UnlinkAccount, BuildMoves, deployVars
  <2> QED
    BY <1>0, <2>1 DEF ErasePart, CopyPart, Mon
<1> QED
  BY <1>1, <1>2, <1>6, <1>8, <1>9, <1>10, <1>11, <1>12 DEF DeployNext

(***************************************************************************)
(* With one worker and requests that do not overlap, a deployment that was *)
(* deleted comes back by a deploy request only: no task writes its copy.   *)
(***************************************************************************)
THEOREM DeletedStaysDeletedHolds ==
  ASSUME DeploymentAssumption, ~Overlap, OneWorker PROVE DeploySpec => DeletedStaysDeleted
<1>1. DeployInit => ErasedInv
  <2> SUFFICES ASSUME DeployInit PROVE ErasedInv
    OBVIOUS
  <2>1. \A r \in Requests : request[r].stage = "idle"
    BY DEF DeployInit
  <2>2. \A w \in Workers : monitor[w].stage = "idle"
    BY DEF DeployInit, NoMonitor
  <2> QED
    BY <2>1, <2>2, DeployInit_Type DEF ErasedInv, OneAtATime, UpPart, ErasePart, CopyPart, On
<1>2. ErasedInv /\ [DeployNext]_deployVars => ErasedInv'
  BY DeployTypeStep, OneAtATimeStep, UpStep, ErasedStep DEF ErasedInv
<1>3. ErasedInv /\ [DeployNext]_deployVars => [(row = NoRow /\ row' # NoRow) => \E r \in Requests : On(r, "saving")]_deployVars
  BY ErasedStep
<1> QED
  BY <1>1, <1>2, <1>3, PTL DEF DeploySpec, DeletedStaysDeleted

-----------------------------------------------------------------------------
(***************************************************************************)
(* The composition: a behaviour is one of any of the services, which share *)
(* no variable.                                                            *)
(***************************************************************************)
ServicesInv == LauncherInv /\ StreamInv /\ SyncInv /\ DeployTypeOK /\ MonitorPart

\* a step of the composition is a step of one service, and the others rest
LEMMA StepOfOne ==
  ASSUME [Next]_serviceVars
  PROVE  [LauncherNext]_launcherVars /\ [StreamNext]_streamVars /\ [SyncNext]_syncVars /\ [DeployNext]_deployVars
<1>1. CASE part = "launcher" /\ LauncherNext /\ UNCHANGED <<part, streamVars, syncVars, deployVars>>
  BY <1>1
<1>2. CASE part = "stream" /\ StreamNext /\ UNCHANGED <<part, launcherVars, syncVars, deployVars>>
  BY <1>2
<1>3. CASE part = "sync" /\ SyncNext /\ UNCHANGED <<part, launcherVars, streamVars, deployVars>>
  BY <1>3
<1>4. CASE part = "deploy" /\ DeployNext /\ UNCHANGED <<part, launcherVars, streamVars, syncVars>>
  BY <1>4
<1>5. CASE UNCHANGED serviceVars
  BY <1>5 DEF serviceVars
<1> QED
  BY <1>1, <1>2, <1>3, <1>4, <1>5 DEF Next

(***************************************************************************)
(* The types of the four services hold in the composition that is model-   *)
(* checked, whichever of them runs.                                        *)
(***************************************************************************)
THEOREM ServiceTypesHold == Spec => []ServiceTypes
<1>1. Init => ServicesInv
  BY LauncherInvInit, StreamInit_Inv, SyncInvInit, DeployInit_Type, StreamAssumption, DeploymentAssumption
  DEF Init, ServicesInv
<1>2. ServicesInv /\ [Next]_serviceVars => ServicesInv'
  <2> SUFFICES ASSUME ServicesInv, [Next]_serviceVars PROVE ServicesInv'
    OBVIOUS
  <2>1. [LauncherNext]_launcherVars /\ [StreamNext]_streamVars /\ [SyncNext]_syncVars /\ [DeployNext]_deployVars
    BY StepOfOne
  <2>2. LauncherInv'
    BY <2>1, LauncherInvNext DEF ServicesInv
  <2>3. StreamInv'
    BY <2>1, StreamTypeStep, RunStepKeeps, LogStepKeeps, SubStepKeeps, StreamAssumption DEF ServicesInv, StreamInv
  <2>4. SyncInv'
    BY <2>1, SyncInvNext DEF ServicesInv
  <2>5. DeployTypeOK' /\ MonitorPart'
    BY <2>1, DeployTypeStep, DeploymentAssumption DEF ServicesInv
  <2> QED
    BY <2>2, <2>3, <2>4, <2>5 DEF ServicesInv
<1>3. ServicesInv => ServiceTypes
  BY DEF ServicesInv, ServiceTypes, LauncherInv, StreamInv, SyncInv
<1> QED
  BY <1>1, <1>2, <1>3, PTL DEF Spec
=============================================================================
