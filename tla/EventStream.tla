------------------------------ MODULE EventStream ------------------------------
(***************************************************************************)
(* The event stream of one implementation: ImplementationEventBroker over  *)
(* Redis Streams.  A run clears the stream, marks itself active, publishes *)
(* and writes an end marker; a new run of the same implementation (the     *)
(* removal of the feature's code) replaces the one in progress.  A         *)
(* subscriber, on this worker or on another, reads from the start of the   *)
(* stream until a marker, an error, or a long silence with nobody active.  *)
(*                                                                         *)
(* Entries keep the index they were added at, as Redis ids do: `log` has   *)
(* every entry ever added, the stream is the part after `cleared`.         *)
(***************************************************************************)
EXTENDS Naturals, Sequences

CONSTANTS Subs,      \* connections to GET /implementations/{id}/events
          MaxRuns,   \* bound: runs started
          MaxEvents, \* bound: events of one run
          MaxFaults  \* bound: Redis commands that fail, and deaths of the worker

ASSUME StreamAssumption == MaxRuns \in Nat \ {0} /\ MaxEvents \in Nat /\ MaxFaults \in Nat

Runs == 1 .. MaxRuns
NoRun == 0

VARIABLES
  stage,    \* stage[r]: of the task of run r
  sent,     \* sent[r]: events published so far
  current,  \* _tasks: the run this worker holds for the implementation
  log, cleared,
  owner,    \* the run that cleared the stream last
  active,   \* the key kosmo:impl:<id>:active
  sub,      \* sub[s]: where it is, index read, entries seen, stream it began with
  faults

streamVars == <<stage, sent, current, log, cleared, owner, active, sub, faults>>
runVars == <<stage, sent, current>>

Live(r) == stage[r] \in {"new", "cleared", "running", "leaving", "closing", "marked"}
NotReading == [stage |-> "away", local |-> FALSE, last |-> 0, seen |-> {}, from |-> NoRun, end |-> 0]

StreamTypeOK ==
  /\ stage \in [Runs -> {"unborn", "new", "cleared", "running", "leaving", "closing",
                         "marked", "over"}]
  /\ sent \in [Runs -> 0 .. MaxEvents + 1]
  /\ current \in Runs \cup {NoRun}
  /\ log \in Seq([run : Runs, end : BOOLEAN])
  /\ cleared \in 0 .. Len(log) /\ owner \in Runs \cup {NoRun}
  /\ active \in BOOLEAN
  /\ sub \in [Subs -> [stage : {"away", "reading", "ended"}, local : BOOLEAN,
                       last : 0 .. Len(log), seen : SUBSET (1 .. Len(log)),
                       from : Runs \cup {NoRun}, end : 0 .. Len(log)]]
  /\ faults \in 0 .. MaxFaults

StreamInit ==
  /\ stage = [r \in Runs |-> "unborn"] /\ sent = [r \in Runs |-> 0] /\ current = NoRun
  /\ log = <<>> /\ cleared = 0 /\ owner = NoRun /\ active = FALSE
  /\ sub = [s \in Subs |-> NotReading]
  /\ faults = 0

Move(r, from, to) == stage[r] = from /\ stage' = [stage EXCEPT ![r] = to]
Fault == faults < MaxFaults /\ faults' = faults + 1
\* xadd, whose failure is logged and ignored
Add(r, end) ==
  \/ log' = Append(log, [run |-> r, end |-> end]) /\ UNCHANGED faults
  \/ Fault /\ UNCHANGED log
-----------------------------------------------------------------------------
(***************************************************************************)
(* start_implementation: a task that is not done is cancelled, and goes to *)
(* its `finally`; the history of this worker is dropped.                   *)
(***************************************************************************)
Cancelled(s) == IF s \in {"new", "cleared", "running"} THEN "leaving"
                ELSE IF s \in {"closing", "marked"} THEN "over" ELSE s

StartRun(r) ==
  /\ stage[r] = "unborn" /\ \A q \in Runs : q < r => stage[q] # "unborn"
  /\ stage' = [q \in Runs |-> IF q = r THEN "new" ELSE IF q = current THEN Cancelled(stage[q])
                              ELSE stage[q]]
  /\ current' = r
  /\ UNCHANGED <<sent, log, cleared, owner, active, sub, faults>>

ClearStream(r) ==
  /\ Move(r, "new", "cleared")
  /\ cleared' = Len(log) /\ owner' = r
  /\ UNCHANGED <<sent, current, log, active, sub, faults>>

MarkActive(r) ==
  /\ Move(r, "cleared", "running")
  /\ active' = TRUE
  /\ UNCHANGED <<sent, current, log, cleared, owner, sub, faults>>

\* one of the two commands fails, and no other is tried
StartsUnmarked(r) ==
  /\ stage[r] \in {"new", "cleared"} /\ stage' = [stage EXCEPT ![r] = "running"]
  /\ Fault
  /\ UNCHANGED <<sent, current, log, cleared, owner, active, sub>>

RenewKey(r) ==
  /\ stage[r] = "running" /\ ~active
  /\ active' = TRUE
  /\ UNCHANGED <<runVars, log, cleared, owner, sub, faults>>

Publish(r) ==
  /\ stage[r] = "running" /\ sent[r] < MaxEvents
  /\ sent' = [sent EXCEPT ![r] = @ + 1]
  /\ Add(r, FALSE)
  /\ UNCHANGED <<stage, current, cleared, owner, active, sub>>

RunEnds(r) ==
  /\ Move(r, "running", "leaving")
  /\ UNCHANGED <<sent, current, log, cleared, owner, active, sub, faults>>

\* an exception of the use case becomes an ERROR event
RunRaises(r) ==
  /\ Move(r, "running", "leaving")
  /\ sent' = [sent EXCEPT ![r] = @ + 1]
  /\ Add(r, FALSE)
  /\ UNCHANGED <<current, cleared, owner, active, sub>>

\* the `finally`: the key goes, whoever set it
DropKey(r) ==
  /\ Move(r, "leaving", "closing")
  /\ (active' = FALSE /\ UNCHANGED faults) \/ (Fault /\ UNCHANGED active)
  /\ UNCHANGED <<sent, current, log, cleared, owner, sub>>

Mutant_AnyTask(r) == TRUE
\* a task that was replaced says nothing more
StillCurrent(r) == current = r

WriteMarker(r) ==
  /\ StillCurrent(r)
  /\ Move(r, "closing", "marked")
  /\ Add(r, TRUE)
  /\ UNCHANGED <<sent, current, cleared, owner, active, sub>>

ForgetRun(r) ==
  /\ StillCurrent(r)
  /\ Move(r, "marked", "over")
  /\ current' = NoRun
  /\ UNCHANGED <<sent, log, cleared, owner, active, sub, faults>>

LeaveSilently(r) ==
  /\ ~StillCurrent(r)
  /\ Move(r, "closing", "over")
  /\ UNCHANGED <<sent, current, log, cleared, owner, active, sub, faults>>
-----------------------------------------------------------------------------
(***************************************************************************)
(* The worker ends: aclose cancels its tasks and waits for none of them;   *)
(* or it dies.  Its own subscribers lose their connection.                 *)
(***************************************************************************)
Shut ==
  /\ current # NoRun
  /\ stage' = [stage EXCEPT ![current] = Cancelled(@)]
  /\ current' = NoRun
  /\ UNCHANGED <<sent, log, cleared, owner, active, sub, faults>>

WorkerDies ==
  /\ \E r \in Runs : Live(r)
  /\ Fault
  /\ stage' = [r \in Runs |-> IF Live(r) THEN "over" ELSE stage[r]]
  /\ current' = NoRun
  /\ sub' = [s \in Subs |-> IF sub[s].local THEN NotReading ELSE sub[s]]
  /\ UNCHANGED <<sent, log, cleared, owner, active>>

KeyExpires ==
  /\ active /\ \A r \in Runs : ~Live(r)
  /\ active' = FALSE
  /\ UNCHANGED <<runVars, log, cleared, owner, sub, faults>>
-----------------------------------------------------------------------------
(***************************************************************************)
(* A subscriber.                                                           *)
(***************************************************************************)
Reading(s) == sub[s].stage = "reading"
Larger(a, b) == IF a > b THEN a ELSE b
Entry(s) == Larger(cleared, sub[s].last) + 1      \* what xread returns first
SomethingNew(s) == Entry(s) <= Len(log)

Subscribe(s) ==
  /\ sub[s].stage = "away"
  /\ \E local \in BOOLEAN :
       sub' = [sub EXCEPT ![s] = [NotReading EXCEPT !.stage = "reading", !.local = local,
                                                   !.from = owner]]
  /\ UNCHANGED <<runVars, log, cleared, owner, active, faults>>

ReadEntry(s) ==
  /\ Reading(s) /\ SomethingNew(s)
  /\ LET i == Entry(s) IN
     sub' = [sub EXCEPT ![s].last = i, ![s].seen = @ \cup {i},
                        ![s].stage = IF log[i].end THEN "ended" ELSE @,
                        ![s].end = IF log[i].end THEN i ELSE @]
  /\ UNCHANGED <<runVars, log, cleared, owner, active, faults>>

Mutant_WaitsForMarker(s) == FALSE
\* a minute without entries, and no task here nor a key in Redis
Orphaned(s) == /\ ~SomethingNew(s) /\ ~active
               /\ ~(sub[s].local /\ current # NoRun)

Abandon(s) ==
  /\ Reading(s) /\ Orphaned(s)
  /\ sub' = [sub EXCEPT ![s].stage = "ended"]
  /\ UNCHANGED <<runVars, log, cleared, owner, active, faults>>

\* xread fails, or the client goes away
Disconnect(s) ==
  /\ Reading(s) /\ Fault
  /\ sub' = [sub EXCEPT ![s].stage = "ended"]
  /\ UNCHANGED <<runVars, log, cleared, owner, active>>
-----------------------------------------------------------------------------
RunStep(r) ==
  \/ ClearStream(r) \/ MarkActive(r) \/ StartsUnmarked(r) \/ Publish(r)
  \/ RunEnds(r) \/ RunRaises(r) \/ DropKey(r) \/ WriteMarker(r) \/ ForgetRun(r) \/ LeaveSilently(r)

StreamNext ==
  \/ \E r \in Runs : StartRun(r) \/ RunStep(r) \/ RenewKey(r)
  \/ \E s \in Subs : Subscribe(s) \/ ReadEntry(s) \/ Abandon(s) \/ Disconnect(s)
  \/ Shut \/ WorkerDies \/ KeyExpires

\* tasks go on (a run has its own limits), keys expire, subscribers read
StreamFairness ==
  /\ \A r \in Runs : WF_streamVars(RunStep(r))
  /\ \A s \in Subs : WF_streamVars(ReadEntry(s)) /\ WF_streamVars(Abandon(s))
  /\ WF_streamVars(KeyExpires)

StreamSpec == StreamInit /\ [][StreamNext]_streamVars /\ StreamFairness

(***************************************************************************)
(* The end a subscriber reads is that of the run whose stream it opened,   *)
(* or of a later one, and by then it has seen everything that run wrote:   *)
(* a run that was replaced ends nobody's stream, and the clearing for a    *)
(* new run loses no entry of that run.                                     *)
(***************************************************************************)
EndOfItsOwnRun ==
  \A s \in Subs : sub[s].end # 0 =>
    LET r == log[sub[s].end].run IN
      /\ r >= sub[s].from
      /\ {i \in 1 .. sub[s].end : log[i].run = r} \subseteq sub[s].seen

(***************************************************************************)
(* Every subscription ends, also when the marker was lost, the run was     *)
(* cancelled, or the worker died and left its key behind.                  *)
(***************************************************************************)
SubscriptionsEnd == \A s \in Subs : Reading(s) ~> ~Reading(s)
=============================================================================
