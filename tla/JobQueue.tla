------------------------------ MODULE JobQueue ------------------------------
(***************************************************************************)
(* What the outbox promises of its jobs, with nothing of rows, loops,      *)
(* permits and processes: a job is offered to one handler at a time, at    *)
(* most MaxOffers times, and again only after a handler has ended; it is   *)
(* done only if one returned, and given up only when its offers are spent. *)
(* A job may be lost while it is with a handler, or on its way there; then *)
(* nobody is ever offered it again.                                        *)
(***************************************************************************)
EXTENDS Naturals

CONSTANTS Jobs, MaxOffers

VARIABLES
  place,      \* place[j]: where the job is; "out" is with a handler that runs,
              \* "ended" with one that has returned or raised
  offers,     \* offers[j]: how often it was offered
  returns     \* returns[j]: how many of its handlers returned

queueVars == <<place, offers, returns>>

Init ==
  /\ place = [j \in Jobs |-> "absent"]
  /\ offers = [j \in Jobs |-> 0]
  /\ returns = [j \in Jobs |-> 0]

Move(j, from, to) == place[j] = from /\ place' = [place EXCEPT ![j] = to]

Put(j) == Move(j, "absent", "waiting") /\ UNCHANGED <<offers, returns>>

\* to a handler, or lost on the way
Offer(j) ==
  /\ Move(j, "waiting", "out") \/ Move(j, "waiting", "lost")
  /\ offers[j] < MaxOffers
  /\ offers' = [offers EXCEPT ![j] = @ + 1]
  /\ UNCHANGED returns

Return(j) ==
  /\ Move(j, "out", "ended")
  /\ returns' = [returns EXCEPT ![j] = @ + 1]
  /\ UNCHANGED offers

Raise(j) == Move(j, "out", "ended") /\ UNCHANGED <<offers, returns>>

Conclude(j) ==
  /\ \/ returns[j] > 0 /\ Move(j, "ended", "done")
     \/ offers[j] = MaxOffers /\ Move(j, "ended", "dead")
     \/ offers[j] < MaxOffers /\ Move(j, "ended", "waiting")
  /\ UNCHANGED <<offers, returns>>

\* the jobs of a process that dies, some of which had just been done
Drop(lost, done) ==
  /\ \A j \in lost : place[j] \in {"out", "ended"}
  /\ \A j \in done : place[j] = "ended" /\ returns[j] > 0
  /\ place' = [j \in Jobs |-> IF j \in done THEN "done" ELSE IF j \in lost THEN "lost" ELSE place[j]]
  /\ UNCHANGED <<offers, returns>>

Next == \/ \E j \in Jobs : Put(j) \/ Offer(j) \/ Return(j) \/ Raise(j) \/ Conclude(j)
        \/ \E lost, done \in SUBSET Jobs : Drop(lost, done)

Spec == Init /\ [][Next]_queueVars
=============================================================================
