----------------------- MODULE CodegenPipeline_proofs -----------------------
(***************************************************************************)
(* Proofs about CodegenPipeline, for any workers, features, bounds and any *)
(* number of crashes and shutdowns.                                        *)
(*                                                                         *)
(* Type correctness needs no assumption.  The next theorems assume that no *)
(* recovery pass runs (Recoverers = {}): with passes on two workers they   *)
(* are false (run after_redeploy, section 7 of the README).  So they say   *)
(* that the pipeline itself, on any number of workers, is right, and that  *)
(* what goes wrong comes from the recovery.  The last section has passes   *)
(* on one worker: there they disturb nobody, with at most one crash.       *)
(***************************************************************************)
EXTENDS CodegenPipeline, TLAPS

\* the operators on the row keep it a row
LEMMA RowTypes ==
  /\ RegisteredRow \in Row /\ NoRow \in Row
  /\ \A x \in Row : LockTaken(x) \in Row /\ LockFreed(x) \in Row
<1>1. NoTime \in Age /\ 0 \in Age
  BY StaleAfterAssumption DEF Age, NoTime
<1>2. QED
  BY <1>1 DEF RegisteredRow, NoRow, Row, LockTaken, LockFreed

(***************************************************************************)
(* A row just locked is refused to everybody else; nothing in these        *)
(* theorems depends on how.                                                *)
(***************************************************************************)
LEMMA TakenIsRefused == \A x \in Row : ~Acquirable(LockTaken(x))
  BY StaleAfterAssumption DEF Row, Acquirable, LockTaken, Stale, NoTime

\* a run is the pair of its worker and its feature
LEMMA RunParts ==
  \A r \in Runs : r[1] \in Workers /\ r[2] \in Features /\ r = <<r[1], r[2]>>
  BY DEF Runs

\* every worker and feature make a run
LEMMA RunOf == \A w \in Workers, f \in Features :
                 <<w, f>> \in Runs /\ <<w, f>>[1] = w /\ <<w, f>>[2] = f
  BY DEF Runs

\* a worker that is started again has the types of one that starts
LEMMA RestartedTypes ==
  ASSUME TypeOK, NEW w \in Workers, Restarted(w)
  PROVE  /\ row' \in Row
         /\ mem' \in [Workers -> BOOLEAN]
         /\ impl' \in [Features -> Statuses]
         /\ active' \in [Features -> BOOLEAN]
         /\ worktree' \in [Features -> {"clean", "unchecked", "valid"}]
         /\ head' \in [Features -> {"absent", "unchecked", "valid"}]
         /\ pc' \in [Runs -> {"idle", "starting", "ending"} \cup Inside]
         /\ goal' \in [Runs -> {"none", "success", "review", "error"}]
         /\ attempts' \in [Runs -> 0 .. MaxAttempts]
         /\ snap' \in [Runs -> Row]
         /\ rpc' \in [Workers -> {"idle", "checking", "releasing", "saving"}]
         /\ todo' \in [Workers -> SUBSET Features]
         /\ cur' \in [Workers -> SUBSET Features]
         /\ phase' \in [Workers -> {"booting", "serving", "stopping"}]
         /\ starts' \in 0 .. MaxStarts
         /\ stops' \in 0 .. MaxStops
         /\ lapses' \in 0 .. MaxLapses
<1> USE DEF TypeOK, Restarted
<1>1. /\ row' \in Row /\ mem' \in [Workers -> BOOLEAN] /\ impl' \in [Features -> Statuses]
      /\ active' \in [Features -> BOOLEAN] /\ starts' \in 0 .. MaxStarts
      /\ stops' \in 0 .. MaxStops /\ lapses' \in 0 .. MaxLapses
  OBVIOUS
<1>2. /\ worktree' \in [Features -> {"clean", "unchecked", "valid"}]
      /\ head' \in [Features -> {"absent", "unchecked", "valid"}]
  BY DEF files
<1>3. pc' \in [Runs -> {"idle", "starting", "ending"} \cup Inside]
  BY DEF Inside
<1>4. /\ goal' \in [Runs -> {"none", "success", "review", "error"}]
      /\ attempts' \in [Runs -> 0 .. MaxAttempts]
  BY PipelineAssumption
<1>5. snap' \in [Runs -> Row]
  BY RowTypes
<1>6. /\ rpc' \in [Workers -> {"idle", "checking", "releasing", "saving"}]
      /\ todo' \in [Workers -> SUBSET Features]
      /\ cur' \in [Workers -> SUBSET Features]
      /\ phase' \in [Workers -> {"booting", "serving", "stopping"}]
  BY DEF FirstPhase
<1>7. QED BY <1>1, <1>2, <1>3, <1>4, <1>5, <1>6

(***************************************************************************)
(* Every variable of the pipeline and of the recovery keeps its type.      *)
(***************************************************************************)
THEOREM PipelineTypeCorrect == Spec => []TypeOK
<1> USE RowTypes, PipelineAssumption
<1>1. Init => TypeOK
  BY DEF Init, TypeOK, Statuses, FirstPhase
<1>2. TypeOK /\ [Next]_vars => TypeOK'
  <2> SUFFICES ASSUME TypeOK, [Next]_vars PROVE TypeOK'
    OBVIOUS
  <2> USE RunParts DEF TypeOK, files, runVars, recVars, bounds, Goto
  <2>1. ASSUME NEW r \in Runs, Start(r) PROVE TypeOK'
    BY <2>1 DEF Start
  <2>2. ASSUME NEW r \in Runs, Acquire(r) PROVE TypeOK'
    BY <2>2 DEF Acquire, Inside
  <2>3. ASSUME NEW r \in Runs, Refuse(r) PROVE TypeOK'
    BY <2>3 DEF Refuse
  <2>4. ASSUME NEW r \in Runs, Prepare(r) PROVE TypeOK'
    BY <2>4 DEF Prepare, Commit, Inside
  <2>5. ASSUME NEW r \in Runs, Register(r) PROVE TypeOK'
    BY <2>5 DEF Register, SaveImpl, Statuses, Inside
  <2>6. ASSUME NEW r \in Runs, Plan(r) PROVE TypeOK'
    BY <2>6 DEF Plan, SaveImpl, Statuses, Inside
  <2>7. ASSUME NEW r \in Runs, Build(r) PROVE TypeOK'
    BY <2>7 DEF Build, Inside
  <2>8. ASSUME NEW r \in Runs, Validate(r) PROVE TypeOK'
    <3>1. attempts[r] \in 0 .. MaxAttempts /\ attempts[r] + 1 <= MaxAttempts
          => attempts' \in [Runs -> 0 .. MaxAttempts]
      BY <2>8 DEF Validate, ValidationTurn
    <3>2. impl' \in [Features -> Statuses]
      BY <2>8 DEF Validate, ValidationTurn, SaveImpl, Statuses
    <3>3. worktree' \in [Features -> {"clean", "unchecked", "valid"}]
      BY <2>8 DEF Validate, ValidationTurn
    <3>4. /\ pc' \in [Runs -> {"idle", "starting", "ending"} \cup Inside]
          /\ goal' \in [Runs -> {"none", "success", "review", "error"}]
      <4>1. pc' = pc \/ pc' = [pc EXCEPT ![r] = "git"]
        BY <2>8 DEF Validate, ValidationTurn
      <4>2. \/ goal' = goal
            \/ goal' = [goal EXCEPT ![r] = "success"]
            \/ goal' = [goal EXCEPT ![r] = "review"]
        BY <2>8 DEF Validate, ValidationTurn
      <4>3. QED BY <4>1, <4>2 DEF Inside
    <3>5. attempts[r] + 1 <= MaxAttempts
      BY <2>8 DEF Validate, ValidationTurn
    <3>6. QED BY <3>1, <3>2, <3>3, <3>4, <3>5, <2>8 DEF Validate, ValidationTurn
  <2>9. ASSUME NEW r \in Runs, Git(r) PROVE TypeOK'
    BY <2>9 DEF Git, Commit, Rollback, Inside
  <2>10. ASSUME NEW r \in Runs, ReadRow(r) PROVE TypeOK'
    BY <2>10 DEF ReadRow, Inside
  <2>11. ASSUME NEW r \in Runs, SaveRow(r) PROVE TypeOK'
    BY <2>11 DEF SaveRow, Inside
  <2>12. ASSUME NEW r \in Runs, SaveStatus(r) PROVE TypeOK'
    <3>1. impl' \in [Features -> Statuses]
      <4>1. impl' = impl \/ \E t \in Statuses : impl' = [impl EXCEPT ![r[2]] = t]
        BY <2>12, Zenon DEF SaveStatus, SaveImpl, Statuses
      <4>2. QED BY <4>1
    <3>2. pc' \in [Runs -> {"idle", "starting", "ending"} \cup Inside]
      <4>1. \/ pc' = [pc EXCEPT ![r] = "closing"]
            \/ pc' = [pc EXCEPT ![r] = "finishing"]
        BY <2>12 DEF SaveStatus
      <4>2. QED BY <4>1 DEF Inside
    <3>3. QED BY <3>1, <3>2, <2>12 DEF SaveStatus
  <2>13. ASSUME NEW r \in Runs, Finish(r) PROVE TypeOK'
    BY <2>13 DEF Finish, Inside
  <2>14. ASSUME NEW r \in Runs, Close(r) PROVE TypeOK'
    BY <2>14 DEF Close
  <2>15. ASSUME NEW r \in Runs, End(r) PROVE TypeOK'
    BY <2>15 DEF End
  <2>16. ASSUME NEW r \in Runs, Raise(r) PROVE TypeOK'
    BY <2>16 DEF Raise, Inside
  <2>17. ASSUME NEW r \in Runs, Heartbeat(r) PROVE TypeOK'
    BY <2>17 DEF Heartbeat
  <2>18. ASSUME NEW f \in Features, Expire(f) PROVE TypeOK'
    BY <2>18 DEF Expire
  <2>19. ASSUME NEW w \in Workers, Crash(w) PROVE TypeOK'
    <3>1. crashes' \in 0 .. MaxCrashes
      BY <2>19 DEF Crash
    <3>2. QED BY <3>1, <2>19, RestartedTypes DEF Crash
  <2>20. ASSUME NEW w \in Workers, Shutdown(w) PROVE TypeOK'
    <3>1. pc' \in [Runs -> {"idle", "starting", "ending"} \cup Inside]
      BY <2>20 DEF Shutdown, Cancelled, Inside
    <3>2. snap' \in [Runs -> Row]
      BY <2>20 DEF Shutdown
    <3>3. /\ stops' \in 0 .. MaxStops
          /\ phase' \in [Workers -> {"booting", "serving", "stopping"}]
          /\ rpc' \in [Workers -> {"idle", "checking", "releasing", "saving"}]
          /\ todo' \in [Workers -> SUBSET Features]
          /\ cur' \in [Workers -> SUBSET Features]
      BY <2>20 DEF Shutdown
    <3>4. QED BY <3>1, <3>2, <3>3, <2>20 DEF Shutdown
  <2>21. ASSUME NEW w \in Workers, Exit(w) PROVE TypeOK'
    BY <2>21, RestartedTypes DEF Exit
  <2>22. ASSUME NEW w \in Workers, List(w) PROVE TypeOK'
    BY <2>22 DEF List
  <2>23. ASSUME NEW w \in Workers, NEW f \in Features, Check(w, f) PROVE TypeOK'
    <3>1. todo' \in [Workers -> SUBSET Features]
      BY <2>23 DEF Check
    <3>2. /\ cur' \in [Workers -> SUBSET Features]
          /\ rpc' \in [Workers -> {"idle", "checking", "releasing", "saving"}]
      <4>1. \/ cur' = cur /\ rpc' = rpc
            \/ cur' = [cur EXCEPT ![w] = {f}] /\ rpc' = [rpc EXCEPT ![w] = "releasing"]
        BY <2>23, Zenon DEF Check
      <4>2. [cur EXCEPT ![w] = {f}] \in [Workers -> SUBSET Features]
        OBVIOUS
      <4>3. [rpc EXCEPT ![w] = "releasing"] \in [Workers -> {"idle", "checking", "releasing", "saving"}]
        OBVIOUS
      <4>4. QED BY <4>1, <4>2, <4>3
    <3>3. QED BY <3>1, <3>2, <2>23 DEF Check
  <2>24. ASSUME NEW w \in Workers, FreeLock(w) PROVE TypeOK'
    BY <2>24 DEF FreeLock
  <2>25. ASSUME NEW w \in Workers, MarkFailed(w) PROVE TypeOK'
    BY <2>25 DEF MarkFailed, Statuses
  <2>26. ASSUME NEW w \in Workers, PassDone(w) PROVE TypeOK'
    BY <2>26 DEF PassDone
  <2>27. ASSUME NEW r \in Runs, Lapse(r) PROVE TypeOK'
    <3>1. lapses' \in 0 .. MaxLapses
      BY <2>27 DEF Lapse
    <3>2. mem' \in [Workers -> BOOLEAN]
      <4>1. \/ mem' = mem
            \/ mem' = [mem EXCEPT ![r[1]] = FALSE]
        BY <2>27, Zenon DEF Lapse
      <4>2. QED BY <4>1
    <3>3. snap' \in [Runs -> Row]
      <4>1. snap' = snap \/ snap' = [snap EXCEPT ![r] = NoRow]
        BY <2>27, Zenon DEF Lapse
      <4>2. QED BY <4>1
    <3>4. pc' \in [Runs -> {"idle", "starting", "ending"} \cup Inside]
      <4>1. \/ pc' = [pc EXCEPT ![r] = "status"]
            \/ pc' = [pc EXCEPT ![r] = "closing"]
            \/ pc' = [pc EXCEPT ![r] = "ending"]
        BY <2>27, Zenon DEF Lapse
      <4>2. QED BY <4>1 DEF Inside
    <3>5. QED BY <3>1, <3>2, <3>3, <3>4, <2>27 DEF Lapse
  <2>28. ASSUME NEW w \in Workers, RecoveryLapse(w) PROVE TypeOK'
    <3>1. lapses' \in 0 .. MaxLapses
      BY <2>28 DEF RecoveryLapse
    <3>2. /\ \/ mem' = mem
             \/ mem' = [mem EXCEPT ![w] = FALSE]
          /\ \/ rpc' = rpc
             \/ rpc' = [rpc EXCEPT ![w] = "saving"]
             \/ rpc' = [rpc EXCEPT ![w] = "checking"]
          /\ \/ todo' = todo
             \/ \E f \in todo[w] : todo' = [todo EXCEPT ![w] = @ \ {f}]
          /\ \/ cur' = cur
             \/ cur' = [cur EXCEPT ![w] = {}]
          /\ \/ phase' = phase
             \/ phase' = [phase EXCEPT ![w] = "serving"]
      BY <2>28, Zenon DEF RecoveryLapse
    <3>3. mem' \in [Workers -> BOOLEAN]
      BY <3>2
    <3>4. rpc' \in [Workers -> {"idle", "checking", "releasing", "saving"}]
      BY <3>2
    <3>5. todo' \in [Workers -> SUBSET Features] /\ cur' \in [Workers -> SUBSET Features]
      BY <3>2
    <3>6. phase' \in [Workers -> {"booting", "serving", "stopping"}]
      BY <3>2
    <3>7. QED BY <3>1, <3>3, <3>4, <3>5, <3>6, <2>28 DEF RecoveryLapse
  <2>29. CASE UNCHANGED vars
    BY <2>29 DEF vars
  <2>30. QED
    BY <2>1, <2>2, <2>3, <2>4, <2>5, <2>6, <2>7, <2>8, <2>9, <2>10, <2>11, <2>12,
       <2>13, <2>14, <2>15, <2>16, <2>17, <2>18, <2>19, <2>20, <2>21, <2>22, <2>23,
       <2>24, <2>25, <2>26, <2>27, <2>28, <2>29
       DEF Next, Pipeline, Recovery
<1>3. QED BY <1>1, <1>2, PTL DEF Spec
-----------------------------------------------------------------------------
(***************************************************************************)
(* The steps of Next that are not a recovery's, and those that are.        *)
(***************************************************************************)
PipelineStep == \/ \E r \in Runs : Start(r) \/ Pipeline(r) \/ Raise(r) \/ Lapse(r) \/ Heartbeat(r)
                \/ \E f \in Features : Expire(f)
                \/ \E w \in Workers : Crash(w) \/ Shutdown(w) \/ Exit(w)
                \/ UNCHANGED vars

RecoveryStep == \E w \in Workers : Recovery(w) \/ RecoveryLapse(w)

\* every step is one or the other
LEMMA StepsOfNext == [Next]_vars <=> PipelineStep \/ RecoveryStep
  BY DEF Next, PipelineStep, RecoveryStep

\* the first state
LEMMA PipelineInvInit == Init => WorkInv /\ NoLeakedMemoryLock /\ \A w \in Workers : rpc[w] = "idle"
  BY DEF Init, WorkInv, LockPart, MutualExclusion, PhasePart,
     FilesPart, NoLeakedMemoryLock, Holding, Inside, Concluding, Concluded

\* every step of the pipeline keeps WorkInv, whatever the recovery did before
LEMMA WorkInvStep ==
  ASSUME TypeOK, WorkInv, PipelineStep
  PROVE  WorkInv'
<1> USE RunParts, RunOf DEF WorkInv, files, runVars, recVars, bounds, Goto
<1>1. ASSUME NEW r \in Runs, Start(r) PROVE WorkInv'
  <2>1. LockPart'
    BY <1>1 DEF TypeOK, Start, LockPart, Holding, Inside
  <2>2. MutualExclusion'
    BY <1>1 DEF TypeOK, Start, MutualExclusion, LockPart, Holding, Inside
  <2>3. PhasePart'
    BY <1>1 DEF TypeOK, Start, PhasePart, MutualExclusion, Holding, Inside, Concluding, Concluded, Statuses, Running
  <2>4. FilesPart'
    BY <1>1 DEF TypeOK, Start, FilesPart, PhasePart, Concluding, Concluded, MutualExclusion, Holding, Inside
  <2>5. QED BY <2>1, <2>2, <2>3, <2>4
<1>2. ASSUME NEW r \in Runs, Acquire(r) PROVE WorkInv'
  <2>1. LockPart'
    BY <1>2, TakenIsRefused DEF TypeOK, Acquire, LockPart, Holding, Inside
  <2>2. MutualExclusion'
    BY <1>2 DEF TypeOK, Acquire, MutualExclusion, LockPart, Holding, Inside
  <2>3. PhasePart'
    BY <1>2 DEF TypeOK, Acquire, PhasePart, MutualExclusion, Holding, Inside, Concluding, Concluded, Statuses
  <2>4. FilesPart'
    BY <1>2 DEF TypeOK, Acquire, FilesPart, PhasePart, Concluding, Concluded, MutualExclusion, Holding, Inside
  <2>5. QED BY <2>1, <2>2, <2>3, <2>4
<1>3. ASSUME NEW r \in Runs, Refuse(r) PROVE WorkInv'
  <2>1. LockPart'
    BY <1>3 DEF TypeOK, Refuse, LockPart, Holding, Inside
  <2>2. MutualExclusion'
    BY <1>3 DEF TypeOK, Refuse, MutualExclusion, LockPart, Holding, Inside
  <2>3. PhasePart'
    BY <1>3 DEF TypeOK, Refuse, PhasePart, MutualExclusion, Holding, Inside, Concluding, Concluded, Statuses
  <2>4. FilesPart'
    BY <1>3 DEF TypeOK, Refuse, FilesPart, PhasePart, Concluding, Concluded, MutualExclusion, Holding, Inside
  <2>5. QED BY <2>1, <2>2, <2>3, <2>4
<1>4. ASSUME NEW r \in Runs, Prepare(r) PROVE WorkInv'
  <2>1. LockPart'
    BY <1>4 DEF TypeOK, Prepare, LockPart, Commit, Holding, Inside
  <2>2. MutualExclusion'
    BY <1>4 DEF TypeOK, Prepare, MutualExclusion, Commit, LockPart, Holding, Inside
  <2>3. PhasePart'
    BY <1>4 DEF TypeOK, Prepare, PhasePart, Commit, MutualExclusion, Holding, Inside, Concluding, Concluded, Statuses
  <2>4. FilesPart'
    BY <1>4 DEF TypeOK, Prepare, FilesPart, Commit, PhasePart, Concluding, Concluded, MutualExclusion, Holding, Inside
  <2>5. QED BY <2>1, <2>2, <2>3, <2>4
<1>5. ASSUME NEW r \in Runs, Register(r) PROVE WorkInv'
  <2>1. LockPart'
    BY <1>5 DEF TypeOK, Register, LockPart, SaveImpl, Holding, Inside
  <2>2. MutualExclusion'
    BY <1>5 DEF TypeOK, Register, MutualExclusion, SaveImpl, LockPart, Holding, Inside
  <2>3. PhasePart'
    BY <1>5 DEF TypeOK, Register, PhasePart, SaveImpl, MutualExclusion, Holding, Inside, Concluding, Concluded, Statuses
  <2>4. FilesPart'
    BY <1>5 DEF TypeOK, Register, FilesPart, SaveImpl, PhasePart, Concluding, Concluded, MutualExclusion, Holding, Inside
  <2>5. QED BY <2>1, <2>2, <2>3, <2>4
<1>6. ASSUME NEW r \in Runs, Plan(r) PROVE WorkInv'
  <2>1. LockPart'
    BY <1>6 DEF TypeOK, Plan, LockPart, SaveImpl, Holding, Inside
  <2>2. MutualExclusion'
    BY <1>6 DEF TypeOK, Plan, MutualExclusion, SaveImpl, LockPart, Holding, Inside
  <2>3. PhasePart'
    BY <1>6 DEF TypeOK, Plan, PhasePart, SaveImpl, MutualExclusion, Holding, Inside, Concluding, Concluded, Statuses
  <2>4. FilesPart'
    BY <1>6 DEF TypeOK, Plan, FilesPart, SaveImpl, PhasePart, Concluding, Concluded, MutualExclusion, Holding, Inside
  <2>5. QED BY <2>1, <2>2, <2>3, <2>4
<1>7. ASSUME NEW r \in Runs, Build(r) PROVE WorkInv'
  <2>1. LockPart'
    BY <1>7 DEF TypeOK, Build, LockPart, Holding, Inside
  <2>2. MutualExclusion'
    BY <1>7 DEF TypeOK, Build, MutualExclusion, LockPart, Holding, Inside
  <2>3. PhasePart'
    BY <1>7 DEF TypeOK, Build, PhasePart, MutualExclusion, Holding, Inside, Concluding, Concluded, Statuses
  <2>4. FilesPart'
    BY <1>7 DEF TypeOK, Build, FilesPart, PhasePart, Concluding, Concluded, MutualExclusion, Holding, Inside
  <2>5. QED BY <2>1, <2>2, <2>3, <2>4
<1>8. ASSUME NEW r \in Runs, Validate(r) PROVE WorkInv'
  <2>1. LockPart'
    BY <1>8 DEF TypeOK, Validate, ValidationTurn, LockPart, SaveImpl, Holding, Inside
  <2>2. MutualExclusion'
    BY <1>8 DEF TypeOK, Validate, ValidationTurn, MutualExclusion, SaveImpl, LockPart, Holding, Inside
  <2>3. PhasePart'
    BY <1>8 DEF TypeOK, Validate, ValidationTurn, PhasePart, SaveImpl, MutualExclusion, Holding, Inside, Concluding, Concluded, Statuses
  <2>4. FilesPart'
    BY <1>8 DEF TypeOK, Validate, ValidationTurn, FilesPart, SaveImpl, PhasePart, Concluding, Concluded, MutualExclusion, Holding, Inside
  <2>5. QED BY <2>1, <2>2, <2>3, <2>4
<1>9. ASSUME NEW r \in Runs, Git(r) PROVE WorkInv'
  <2>1. LockPart'
    BY <1>9 DEF TypeOK, Git, LockPart, Commit, Rollback, Holding, Inside
  <2>2. MutualExclusion'
    BY <1>9 DEF TypeOK, Git, MutualExclusion, Commit, Rollback, LockPart, Holding, Inside
  <2>3. PhasePart'
    BY <1>9 DEF TypeOK, Git, PhasePart, Commit, Rollback, MutualExclusion, Holding, Inside, Concluding, Concluded, Statuses
  <2>4. FilesPart'
    BY <1>9 DEF TypeOK, Git, FilesPart, Commit, Rollback, PhasePart, Concluding, Concluded, MutualExclusion, Holding, Inside
  <2>5. QED BY <2>1, <2>2, <2>3, <2>4
<1>10. ASSUME NEW r \in Runs, ReadRow(r) PROVE WorkInv'
  <2>1. LockPart'
    BY <1>10 DEF TypeOK, ReadRow, LockPart, Holding, Inside
  <2>2. MutualExclusion'
    BY <1>10 DEF TypeOK, ReadRow, MutualExclusion, LockPart, Holding, Inside
  <2>3. PhasePart'
    BY <1>10 DEF TypeOK, ReadRow, PhasePart, MutualExclusion, Holding, Inside, Concluding, Concluded, Statuses
  <2>4. FilesPart'
    BY <1>10 DEF TypeOK, ReadRow, FilesPart, PhasePart, Concluding, Concluded, MutualExclusion, Holding, Inside
  <2>5. QED BY <2>1, <2>2, <2>3, <2>4
<1>11. ASSUME NEW r \in Runs, SaveRow(r) PROVE WorkInv'
  <2>1. LockPart'
    BY <1>11 DEF TypeOK, SaveRow, LockPart, Holding, Inside
  <2>2. MutualExclusion'
    BY <1>11 DEF TypeOK, SaveRow, MutualExclusion, LockPart, Holding, Inside
  <2>3. PhasePart'
    BY <1>11 DEF TypeOK, SaveRow, PhasePart, MutualExclusion, Holding, Inside, Concluding, Concluded, Statuses
  <2>4. FilesPart'
    BY <1>11 DEF TypeOK, SaveRow, FilesPart, PhasePart, Concluding, Concluded, MutualExclusion, Holding, Inside
  <2>5. QED BY <2>1, <2>2, <2>3, <2>4
<1>12. ASSUME NEW r \in Runs, SaveStatus(r) PROVE WorkInv'
  <2>1. LockPart'
    BY <1>12 DEF TypeOK, SaveStatus, LockPart, SaveImpl, Holding, Inside
  <2>2. MutualExclusion'
    BY <1>12 DEF TypeOK, SaveStatus, MutualExclusion, SaveImpl, LockPart, Holding, Inside
  <2>3. PhasePart'
    BY <1>12 DEF TypeOK, SaveStatus, PhasePart, SaveImpl, MutualExclusion, Holding, Inside, Concluding, Concluded, Statuses
  <2>4. FilesPart'
    BY <1>12 DEF TypeOK, SaveStatus, FilesPart, SaveImpl, PhasePart, Concluding, Concluded, MutualExclusion, Holding, Inside
  <2>5. QED BY <2>1, <2>2, <2>3, <2>4
<1>13. ASSUME NEW r \in Runs, Finish(r) PROVE WorkInv'
  <2>1. LockPart'
    BY <1>13 DEF TypeOK, Finish, LockPart, Holding, Inside
  <2>2. MutualExclusion'
    BY <1>13 DEF TypeOK, Finish, MutualExclusion, LockPart, Holding, Inside
  <2>3. PhasePart'
    BY <1>13 DEF TypeOK, Finish, PhasePart, MutualExclusion, Holding, Inside, Concluding, Concluded, Statuses
  <2>4. FilesPart'
    BY <1>13 DEF TypeOK, Finish, FilesPart, PhasePart, Concluding, Concluded, MutualExclusion, Holding, Inside
  <2>5. QED BY <2>1, <2>2, <2>3, <2>4
<1>14. ASSUME NEW r \in Runs, Close(r) PROVE WorkInv'
  <2>1. LockPart'
    BY <1>14 DEF TypeOK, Close, LockPart, Holding, Inside, MutualExclusion
  <2>2. MutualExclusion'
    BY <1>14 DEF TypeOK, Close, MutualExclusion, LockPart, Holding, Inside
  <2>3. PhasePart'
    BY <1>14 DEF TypeOK, Close, PhasePart, MutualExclusion, Holding, Inside, Concluding, Concluded, Statuses
  <2>4. FilesPart'
    BY <1>14 DEF TypeOK, Close, FilesPart, PhasePart, Concluding, Concluded, MutualExclusion, Holding, Inside
  <2>5. QED BY <2>1, <2>2, <2>3, <2>4
<1>15. ASSUME NEW r \in Runs, End(r) PROVE WorkInv'
  <2>1. LockPart'
    BY <1>15 DEF TypeOK, End, LockPart, Holding, Inside
  <2>2. MutualExclusion'
    BY <1>15 DEF TypeOK, End, MutualExclusion, LockPart, Holding, Inside
  <2>3. PhasePart'
    BY <1>15 DEF TypeOK, End, PhasePart, MutualExclusion, Holding, Inside, Concluding, Concluded, Statuses
  <2>4. FilesPart'
    BY <1>15 DEF TypeOK, End, FilesPart, PhasePart, Concluding, Concluded, MutualExclusion, Holding, Inside
  <2>5. QED BY <2>1, <2>2, <2>3, <2>4
<1>16. ASSUME NEW r \in Runs, Raise(r) PROVE WorkInv'
  <2>1. LockPart'
    BY <1>16 DEF TypeOK, Raise, LockPart, Holding, Inside
  <2>2. MutualExclusion'
    BY <1>16 DEF TypeOK, Raise, MutualExclusion, LockPart, Holding, Inside
  <2>3. PhasePart'
    BY <1>16 DEF TypeOK, Raise, PhasePart, MutualExclusion, Holding, Inside, Concluding, Concluded, Statuses
  <2>4. FilesPart'
    BY <1>16 DEF TypeOK, Raise, FilesPart, PhasePart, Concluding, Concluded, MutualExclusion, Holding, Inside
  <2>5. QED BY <2>1, <2>2, <2>3, <2>4
<1>17. ASSUME NEW r \in Runs, Heartbeat(r) PROVE WorkInv'
  <2>1. LockPart'
    BY <1>17 DEF TypeOK, Heartbeat, LockPart, Holding, Inside
  <2>2. MutualExclusion'
    BY <1>17 DEF TypeOK, Heartbeat, MutualExclusion, LockPart, Holding, Inside
  <2>3. PhasePart'
    BY <1>17 DEF TypeOK, Heartbeat, PhasePart, MutualExclusion, Holding, Inside, Concluding, Concluded, Statuses
  <2>4. FilesPart'
    BY <1>17 DEF TypeOK, Heartbeat, FilesPart, PhasePart, Concluding, Concluded, MutualExclusion, Holding, Inside
  <2>5. QED BY <2>1, <2>2, <2>3, <2>4
<1>18. ASSUME NEW f \in Features, Expire(f) PROVE WorkInv'
  BY <1>18 DEF Expire, LockPart, PhasePart, FilesPart, MutualExclusion,
               Holding, Concluding, Concluded
<1>19. ASSUME NEW w \in Workers, Restarted(w) PROVE WorkInv'
  <2>1. LockPart'
    BY <1>19 DEF TypeOK, Restarted, LockPart, Holding, Inside
  <2>2. MutualExclusion'
    BY <1>19 DEF TypeOK, Restarted, MutualExclusion, LockPart, Holding, Inside
  <2>3. PhasePart'
    BY <1>19 DEF TypeOK, Restarted, PhasePart, MutualExclusion, Holding, Inside, Concluding, Concluded, Statuses
  <2>4. FilesPart'
    BY <1>19 DEF TypeOK, Restarted, FilesPart, PhasePart, Concluding, Concluded, MutualExclusion, Holding, Inside
  <2>5. QED BY <2>1, <2>2, <2>3, <2>4
<1>20. ASSUME NEW w \in Workers, Crash(w) PROVE WorkInv'
  BY <1>19, <1>20 DEF Crash
<1>21. ASSUME NEW w \in Workers, Exit(w) PROVE WorkInv'
  BY <1>19, <1>21 DEF Exit
<1>22. ASSUME NEW w \in Workers, Shutdown(w) PROVE WorkInv'
  <2>1. LockPart'
    BY <1>22 DEF TypeOK, Shutdown, Cancelled, LockPart, Holding, Inside
  <2>2. MutualExclusion'
    BY <1>22 DEF TypeOK, Shutdown, Cancelled, MutualExclusion, LockPart, Holding, Inside
  <2>3. PhasePart'
    BY <1>22 DEF TypeOK, Shutdown, Cancelled, PhasePart, MutualExclusion, Holding, Inside, Concluding, Concluded, Statuses
  <2>4. FilesPart'
    BY <1>22 DEF TypeOK, Shutdown, Cancelled, FilesPart, PhasePart, Concluding, Concluded, MutualExclusion, Holding, Inside
  <2>5. QED BY <2>1, <2>2, <2>3, <2>4
<1>24. ASSUME NEW r \in Runs, Lapse(r) PROVE WorkInv'
  <2>1. LockPart'
    BY <1>24 DEF TypeOK, Lapse, LockPart, Holding, Inside
  <2>2. MutualExclusion'
    BY <1>24 DEF TypeOK, Lapse, MutualExclusion, LockPart, Holding, Inside
  <2>3. PhasePart'
    BY <1>24 DEF TypeOK, Lapse, PhasePart, MutualExclusion, Holding, Inside, Concluding, Concluded, Statuses
  <2>4. FilesPart'
    BY <1>24 DEF TypeOK, Lapse, FilesPart
  <2>5. QED BY <2>1, <2>2, <2>3, <2>4
<1>25. CASE UNCHANGED vars
  BY <1>25 DEF vars, LockPart, PhasePart, FilesPart, MutualExclusion,
               Holding, Concluding, Concluded
<1>26. QED
  BY <1>1, <1>2, <1>3, <1>4, <1>5, <1>6, <1>7, <1>8, <1>9, <1>10, <1>11, <1>12, <1>13,
     <1>14, <1>15, <1>16, <1>17, <1>18, <1>20, <1>21, <1>22, <1>24, <1>25
     DEF PipelineStep, Pipeline

\* no step of the pipeline leaves its memory lock behind
LEMMA NoLeakStep ==
  ASSUME TypeOK, WorkInv, NoLeakedMemoryLock, PipelineStep
  PROVE  NoLeakedMemoryLock'
<1> USE RunParts, RunOf DEF WorkInv, files, runVars, recVars, bounds, Goto
<1>1. ASSUME NEW r \in Runs, Start(r) PROVE NoLeakedMemoryLock'
  BY <1>1 DEF TypeOK, Start, NoLeakedMemoryLock, Holding, Inside, MutualExclusion, Running
<1>2. ASSUME NEW r \in Runs, Acquire(r) PROVE NoLeakedMemoryLock'
  <2>1. Holding(<<r[1], r[2]>>)'
    BY <1>2 DEF TypeOK, Acquire, Holding, Inside
  <2>2. \A s \in Runs : Holding(s) => Holding(s)'
    BY <1>2 DEF TypeOK, Acquire, Holding, Inside
  <2>3. ASSUME NEW w \in Workers, mem'[w], w # r[1] PROVE mem[w]
    BY <1>2, <2>3 DEF TypeOK, Acquire
  <2>4. phase' = phase
    BY <1>2 DEF Acquire
  <2>5. QED BY <2>1, <2>2, <2>3, <2>4 DEF NoLeakedMemoryLock
<1>3. ASSUME NEW r \in Runs, Refuse(r) PROVE NoLeakedMemoryLock'
  BY <1>3 DEF TypeOK, Refuse, NoLeakedMemoryLock, Holding, Inside, MutualExclusion
<1>4. ASSUME NEW r \in Runs, Prepare(r) PROVE NoLeakedMemoryLock'
  BY <1>4 DEF TypeOK, Prepare, NoLeakedMemoryLock, Commit, Holding, Inside, MutualExclusion
<1>5. ASSUME NEW r \in Runs, Register(r) PROVE NoLeakedMemoryLock'
  BY <1>5 DEF TypeOK, Register, NoLeakedMemoryLock, SaveImpl, Holding, Inside, MutualExclusion
<1>6. ASSUME NEW r \in Runs, Plan(r) PROVE NoLeakedMemoryLock'
  BY <1>6 DEF TypeOK, Plan, NoLeakedMemoryLock, SaveImpl, Holding, Inside, MutualExclusion
<1>7. ASSUME NEW r \in Runs, Build(r) PROVE NoLeakedMemoryLock'
  BY <1>7 DEF TypeOK, Build, NoLeakedMemoryLock, Holding, Inside, MutualExclusion
<1>8. ASSUME NEW r \in Runs, Validate(r) PROVE NoLeakedMemoryLock'
  <2>1. \A s \in Runs : Holding(s) => Holding(s)'
    BY <1>8 DEF TypeOK, Validate, ValidationTurn, Holding, Inside
  <2>2. UNCHANGED <<mem, phase>>
    BY <1>8 DEF Validate, ValidationTurn
  <2>3. QED BY <2>1, <2>2 DEF NoLeakedMemoryLock
<1>9. ASSUME NEW r \in Runs, Git(r) PROVE NoLeakedMemoryLock'
  BY <1>9 DEF TypeOK, Git, NoLeakedMemoryLock, Commit, Rollback, Holding, Inside, MutualExclusion
<1>10. ASSUME NEW r \in Runs, ReadRow(r) PROVE NoLeakedMemoryLock'
  BY <1>10 DEF TypeOK, ReadRow, NoLeakedMemoryLock, Holding, Inside, MutualExclusion
<1>11. ASSUME NEW r \in Runs, SaveRow(r) PROVE NoLeakedMemoryLock'
  BY <1>11 DEF TypeOK, SaveRow, NoLeakedMemoryLock, Holding, Inside, MutualExclusion
<1>12. ASSUME NEW r \in Runs, SaveStatus(r) PROVE NoLeakedMemoryLock'
  BY <1>12 DEF TypeOK, SaveStatus, NoLeakedMemoryLock, SaveImpl, Holding, Inside, MutualExclusion
<1>13. ASSUME NEW r \in Runs, Finish(r) PROVE NoLeakedMemoryLock'
  BY <1>13 DEF TypeOK, Finish, NoLeakedMemoryLock, Holding, Inside, MutualExclusion
<1>14. ASSUME NEW r \in Runs, Close(r) PROVE NoLeakedMemoryLock'
  <2>1. ASSUME NEW w \in Workers, mem'[w]
        PROVE  w # r[1] /\ mem[w]
    BY <1>14, <2>1 DEF TypeOK, Close
  <2>2. \A s \in Runs : s[1] # r[1] /\ Holding(s) => Holding(s)'
    BY <1>14 DEF TypeOK, Close, Holding
  <2>3. phase' = phase
    BY <1>14 DEF Close
  <2>4. QED BY <2>1, <2>2, <2>3 DEF NoLeakedMemoryLock
<1>15. ASSUME NEW r \in Runs, End(r) PROVE NoLeakedMemoryLock'
  BY <1>15 DEF TypeOK, End, NoLeakedMemoryLock, Holding, Inside, MutualExclusion
<1>16. ASSUME NEW r \in Runs, Raise(r) PROVE NoLeakedMemoryLock'
  BY <1>16 DEF TypeOK, Raise, NoLeakedMemoryLock, Holding, Inside, MutualExclusion
<1>17. ASSUME NEW r \in Runs, Heartbeat(r) PROVE NoLeakedMemoryLock'
  BY <1>17 DEF TypeOK, Heartbeat, NoLeakedMemoryLock, Holding, Inside, MutualExclusion
<1>18. ASSUME NEW f \in Features, Expire(f) PROVE NoLeakedMemoryLock'
  BY <1>18 DEF Expire, NoLeakedMemoryLock, Holding
<1>19. ASSUME NEW w \in Workers, Restarted(w) PROVE NoLeakedMemoryLock'
  <2>1. ASSUME NEW v \in Workers, mem'[v]
        PROVE  v # w /\ mem[v] /\ phase'[v] = phase[v]
    BY <1>19, <2>1 DEF TypeOK, Restarted
  <2>2. \A s \in Runs : s[1] # w /\ Holding(s) => Holding(s)'
    BY <1>19 DEF TypeOK, Restarted, Holding
  <2>3. QED BY <2>1, <2>2 DEF NoLeakedMemoryLock
<1>20. ASSUME NEW w \in Workers, Crash(w) PROVE NoLeakedMemoryLock'
  BY <1>19, <1>20 DEF Crash
<1>21. ASSUME NEW w \in Workers, Exit(w) PROVE NoLeakedMemoryLock'
  BY <1>19, <1>21 DEF Exit
<1>22. ASSUME NEW w \in Workers, Shutdown(w) PROVE NoLeakedMemoryLock'
  <2>1. mem' = mem /\ phase' = [phase EXCEPT ![w] = "stopping"]
    BY <1>22 DEF Shutdown
  <2>2. \A s \in Runs : s[1] # w /\ Holding(s) => Holding(s)'
    BY <1>22 DEF TypeOK, Shutdown, Holding
  <2>3. QED BY <2>1, <2>2 DEF TypeOK, NoLeakedMemoryLock
<1>24. ASSUME NEW r \in Runs, Lapse(r) PROVE NoLeakedMemoryLock'
  <2>1. \A s \in Runs : s # r /\ Holding(s) => Holding(s)'
    BY <1>24 DEF TypeOK, Lapse, Holding
  <2>2. \/ Holding(r)' /\ mem' = mem
        \/ ~mem'[r[1]] /\ \A w \in Workers : mem'[w] => mem[w]
    <3>1. CASE pc[r] = "closing"
      <4>1. mem' = [mem EXCEPT ![r[1]] = FALSE]
        BY <1>24, <3>1 DEF Lapse
      <4>2. QED BY <4>1 DEF TypeOK
    <3>2. CASE pc[r] # "closing"
      <4>1. mem' = mem /\ pc'[r] \in {"status", "closing"}
        BY <1>24, <3>2 DEF Lapse, TypeOK
      <4>2. QED BY <4>1 DEF Holding, Inside
    <3>3. QED BY <3>1, <3>2
  <2>3. phase' = phase
    BY <1>24 DEF Lapse
  <2>4. ASSUME NEW w \in Workers, mem'[w]
        PROVE  phase'[w] = "stopping" \/ \E f \in Features : Holding(<<w, f>>)'
    <3>1. mem[w]
      BY <2>2, <2>4
    <3>2. CASE phase[w] = "stopping"
      BY <3>2, <2>3
    <3>3. CASE \E f \in Features : Holding(<<w, f>>)
      <4>1. PICK f \in Features : Holding(<<w, f>>)
        BY <3>3
      <4>2. <<w, f>> # r => Holding(<<w, f>>)'
        BY <4>1, <2>1
      <4>3. <<w, f>> = r => Holding(<<w, f>>)'
        BY <2>2, <2>4
      <4>4. QED BY <4>2, <4>3
    <3>4. QED BY <3>1, <3>2, <3>3 DEF NoLeakedMemoryLock
  <2>5. QED BY <2>4 DEF NoLeakedMemoryLock
<1>25. CASE UNCHANGED vars
  BY <1>25 DEF vars, NoLeakedMemoryLock, Holding
<1>26. QED
  BY <1>1, <1>2, <1>3, <1>4, <1>5, <1>6, <1>7, <1>8, <1>9, <1>10, <1>11, <1>12, <1>13,
     <1>14, <1>15, <1>16, <1>17, <1>18, <1>20, <1>21, <1>22, <1>24, <1>25
     DEF PipelineStep, Pipeline

(***************************************************************************)
(* Without recovery passes, PipelineInv is inductive.                      *)
(***************************************************************************)
LEMMA NoPass ==
  ASSUME Recoverers = {}, TypeOK, PipelineInv, [Next]_vars
  PROVE  PipelineStep /\ \A w \in Workers : rpc'[w] = "idle"
<1>1. ASSUME RecoveryStep PROVE FALSE
  BY <1>1 DEF RecoveryStep, Recovery, RecoveryLapse, List, Check, FreeLock, MarkFailed, PassDone, PipelineInv
<1>2. PipelineStep
  BY <1>1, StepsOfNext
<1>3. rpc' = rpc \/ \E w \in Workers : rpc' = [rpc EXCEPT ![w] = "idle"]
  BY <1>2 DEF PipelineStep, Pipeline, Start, Raise, Lapse, Heartbeat, Expire, Crash, Shutdown, Exit,
     Restarted, vars, recVars, Acquire, Refuse, Prepare, Register, Plan, Build, Validate, ValidationTurn,
     Git, ReadRow, SaveRow, SaveStatus, Finish, Close, End
<1> QED
  BY <1>2, <1>3 DEF TypeOK, PipelineInv

\* every step keeps the invariant, without passes
LEMMA PipelineInvStep ==
  ASSUME Recoverers = {}, TypeOK, PipelineInv, [Next]_vars
  PROVE  PipelineInv'
  BY NoPass, WorkInvStep, NoLeakStep DEF PipelineInv
-----------------------------------------------------------------------------
(***************************************************************************)
(* What the holder of the lock and each phase of the pipeline count on, on *)
(* any number of workers, through crashes and shutdowns.                   *)
(***************************************************************************)
THEOREM PipelineInvariant ==
  ASSUME Recoverers = {}
  PROVE  Spec => []PipelineInv
<1>1. Init => PipelineInv
  BY PipelineInvInit DEF PipelineInv
<1>2. TypeOK /\ PipelineInv /\ [Next]_vars => PipelineInv'
  BY PipelineInvStep
<1>3. QED BY <1>1, <1>2, PipelineTypeCorrect, PTL DEF Spec

(***************************************************************************)
(* Two generations of the project never run inside the lock together.      *)
(***************************************************************************)
THEOREM PipelineMutualExclusion ==
  ASSUME Recoverers = {}
  PROVE  Spec => []MutualExclusion
<1>1. PipelineInv => MutualExclusion
  BY DEF PipelineInv, WorkInv
<1>2. QED BY <1>1, PipelineInvariant, PTL

(***************************************************************************)
(* What is reported as implemented is committed and was validated: the     *)
(* rollback and the commit of other generations never take it away.        *)
(***************************************************************************)
THEOREM ImplementedIsCommittedHolds ==
  ASSUME Recoverers = {}
  PROVE  Spec => []ImplementedIsCommitted
<1>1. PipelineInv => ImplementedIsCommitted
  BY DEF PipelineInv, WorkInv, FilesPart, ImplementedIsCommitted
<1>2. QED BY <1>1, PipelineInvariant, PTL

(***************************************************************************)
(* No memory lock survives the task that took it.                          *)
(***************************************************************************)
THEOREM NoLeakedMemoryLockHolds ==
  ASSUME Recoverers = {}
  PROVE  Spec => []NoLeakedMemoryLock
<1>1. PipelineInv => NoLeakedMemoryLock
  BY DEF PipelineInv
<1>2. QED BY <1>1, PipelineInvariant, PTL

(***************************************************************************)
(* Only the step that saves the final status ends an implementation; the   *)
(* invariant says how the workspace is then.                               *)
(***************************************************************************)
LEMMA FinalStatus ==
  ASSUME Recoverers = {}, TypeOK, PipelineInv, [Next]_vars, NEW f \in Features,
         impl'[f] # impl[f]
  PROVE  \/ impl'[f] = "in_progress"
         \/ impl[f] # "implemented" /\ impl'[f] = "implemented"
         \/ /\ impl[f] # "implemented"
            /\ (impl'[f] = "failed" /\ lapses # 0) \/ (\A g \in Features : worktree[g] = "clean")
<1> USE RunParts DEF files, runVars, recVars, bounds, Goto
<1>1. ASSUME NEW r \in Runs, Register(r) \/ Plan(r) \/ Validate(r)
      PROVE  impl'[f] = "in_progress"
  BY <1>1 DEF Register, Plan, Validate, ValidationTurn, SaveImpl, TypeOK
<1>2. ASSUME NEW r \in Runs, SaveStatus(r)
      PROVE  \/ impl[f] # "implemented" /\ impl'[f] = "implemented"
             \/ /\ impl[f] # "implemented"
                /\ (impl'[f] = "failed" /\ lapses # 0) \/ (\A g \in Features : worktree[g] = "clean")
  BY <1>2 DEF SaveStatus, SaveImpl, TypeOK, PipelineInv, WorkInv, PhasePart, Concluding, Concluded
<1>3. ASSUME \/ \E r \in Runs :
                   \/ Start(r) \/ Acquire(r) \/ Refuse(r) \/ Prepare(r) \/ Build(r)
                   \/ Git(r) \/ ReadRow(r) \/ SaveRow(r) \/ Finish(r) \/ Close(r)
                   \/ End(r) \/ Raise(r) \/ Lapse(r) \/ Heartbeat(r)
             \/ \E g \in Features : Expire(g)
             \/ \E w \in Workers : Crash(w) \/ Shutdown(w) \/ Exit(w)
             \/ UNCHANGED vars
      PROVE  impl' = impl
  BY <1>3 DEF Start, Acquire, Refuse, Prepare, Build, Git, ReadRow, SaveRow, Finish, Close,
              End, Raise, Lapse, Heartbeat, Expire, Crash, Shutdown, Exit, Restarted, vars
<1>4. QED
  BY <1>1, <1>2, <1>3, NoPass DEF PipelineStep, Pipeline

(***************************************************************************)
(* A generation that fails leaves none of its edits in the workspace.      *)
(***************************************************************************)
THEOREM FailureLeavesNothingHolds ==
  ASSUME Recoverers = {}
  PROVE  Spec => FailureLeavesNothing
<1>1. TypeOK /\ PipelineInv /\ [Next]_vars
      => [\A f \in Features : Fails(f) => worktree[f] = "clean"]_vars
  BY FinalStatus DEF Fails
<1>2. QED
  BY <1>1, PipelineTypeCorrect, PipelineInvariant, PTL DEF Spec, FailureLeavesNothing

(***************************************************************************)
(* An implementation that ended well changes status only by being          *)
(* generated again.                                                        *)
(***************************************************************************)
THEOREM FinishedStaysFinishedHolds ==
  ASSUME Recoverers = {}
  PROVE  Spec => FinishedStaysFinished
<1>1. TypeOK /\ PipelineInv /\ [Next]_vars
      => [\A f \in Features :
            impl[f] = "implemented" => impl'[f] \in {"implemented", "in_progress"}]_vars
  BY FinalStatus
<1>2. QED
  BY <1>1, PipelineTypeCorrect, PipelineInvariant, PTL DEF Spec, FinishedStaysFinished
-----------------------------------------------------------------------------
(***************************************************************************)
(* With recovery passes, but one worker that is never stopped in order,    *)
(* one crash at most and no suppressed error.  A step of a run moves it    *)
(* alone; it leaves the part in which its task can still save a status     *)
(* when it has saved one; and it gets in only where the row is free.       *)
(***************************************************************************)
RunStep(r) == Start(r) \/ Pipeline(r) \/ Raise(r) \/ Heartbeat(r)
Ends(r) == pc[r] \in Inside \ {"closing"}     \* its task will end it

Moves(r) ==
  /\ \A s \in Runs \ {r} : pc'[s] = pc[s]
  /\ \A f \in Features \ {r[2]} : impl'[f] = impl[f]
  /\ rpc' = rpc /\ cur' = cur /\ crashes' = crashes
  /\ Holding(r) \/ impl' = impl
  /\ Holding(r) \/ Acquirable(row) \/ (row' = row /\ ~Holding(r)')
  /\ Ends(r) => Ends(r)' \/ impl'[r[2]] # "in_progress" \/ (pc[r] = "finishing" /\ impl' = impl)
  /\ ~Ends(r) => impl' = impl
  /\ pc'[r] = "finishing" => impl'[r[2]] # "in_progress" \/ (pc[r] = "finishing" /\ impl' = impl)

\* a step of a run is such a move
LEMMA RunMoves == ASSUME TypeOK, NEW r \in Runs, RunStep(r) PROVE Moves(r)
<1> USE RunParts DEF TypeOK, Goto, SaveImpl, Moves, Holding, Ends, Inside, runVars, recVars, bounds
<1>1. ASSUME Start(r) PROVE Moves(r)
  BY <1>1 DEF Start, Running
<1>2. ASSUME Acquire(r) PROVE Moves(r)
  BY <1>2 DEF Acquire
<1>3. ASSUME Refuse(r) PROVE Moves(r)
  BY <1>3 DEF Refuse
<1>4. ASSUME Prepare(r) PROVE Moves(r)
  BY <1>4 DEF Prepare
<1>5. ASSUME Register(r) PROVE Moves(r)
  BY <1>5 DEF Register
<1>6. ASSUME Plan(r) PROVE Moves(r)
  BY <1>6 DEF Plan
<1>7. ASSUME Build(r) PROVE Moves(r)
  BY <1>7 DEF Build
<1>8. ASSUME Validate(r) PROVE Moves(r)
  BY <1>8 DEF Validate, ValidationTurn
<1>9. ASSUME Git(r) PROVE Moves(r)
  BY <1>9 DEF Git
<1>10. ASSUME ReadRow(r) PROVE Moves(r)
  BY <1>10 DEF ReadRow
<1>11. ASSUME SaveRow(r) PROVE Moves(r)
  BY <1>11 DEF SaveRow
<1>12. ASSUME SaveStatus(r) PROVE Moves(r)
  BY <1>12 DEF SaveStatus
<1>13. ASSUME Finish(r) PROVE Moves(r)
  BY <1>13 DEF Finish
<1>14. ASSUME Close(r) PROVE Moves(r)
  BY <1>14 DEF Close
<1>15. ASSUME End(r) PROVE Moves(r)
  BY <1>15 DEF End
<1>16. ASSUME Raise(r) PROVE Moves(r)
  BY <1>16 DEF Raise
<1>17. ASSUME Heartbeat(r) PROVE Moves(r)
  BY <1>17 DEF Heartbeat
<1> QED
  BY <1>1, <1>2, <1>3, <1>4, <1>5, <1>6, <1>7, <1>8, <1>9, <1>10, <1>11,
     <1>12, <1>13, <1>14, <1>15, <1>16, <1>17
     DEF RunStep, Pipeline

\* the backend has one process
OneWorker == \A v, w \in Workers : v = w

\* an implementation is an orphan if its only task will not end it
LEMMA OrphanOfRun ==
  ASSUME OneWorker, NEW r \in Runs
  PROVE  /\ Orphan(r[2]) <=> impl[r[2]] = "in_progress" /\ ~Ends(r)
         /\ Orphan(r[2])' <=> impl'[r[2]] = "in_progress" /\ ~Ends(r)'
<1>1. r[1] \in Workers /\ r = <<r[1], r[2]>> /\ \A w \in Workers : w = r[1]
  BY RunParts DEF OneWorker
<1> QED
  BY <1>1 DEF Orphan, Ends

\* every feature has a run on every worker
LEMMA RunOfFeature == \A f \in Features, w \in Workers : \E r \in Runs : r[2] = f /\ r[1] = w
  BY RunOf

\* a step of a run makes no orphan, and none is ended while nobody gets in
LEMMA OrphansOfRunStep ==
  ASSUME TypeOK, OneWorker, MutualExclusion, EndedPart, NEW r \in Runs, Moves(r),
         NEW f \in Features
  PROVE  /\ Orphan(f)' => Orphan(f)
         /\ Orphan(f) /\ ~Acquirable(row) /\ (\A s \in Runs : ~Holding(s)) => Orphan(f)'
<1>1. PICK s \in Runs : s[2] = f /\ s[1] = r[1]
  BY RunOfFeature, RunParts
<1>2. /\ Orphan(f) <=> impl[f] = "in_progress" /\ ~Ends(s)
      /\ Orphan(f)' <=> impl'[f] = "in_progress" /\ ~Ends(s)'
  BY <1>1, OrphanOfRun
<1>3. s = r <=> f = r[2]
  BY <1>1, RunParts
<1>4. CASE s = r
  BY <1>2, <1>3, <1>4 DEF Moves, EndedPart, Ends, Holding
<1>5. CASE s # r
  <2>1. impl'[f] = impl[f] /\ pc'[s] = pc[s]
    BY <1>3, <1>5 DEF Moves
  <2> QED
    BY <1>2, <2>1 DEF Ends
<1> QED
  BY <1>4, <1>5

\* a move of a run keeps EndedPart
LEMMA EndedStep ==
  ASSUME TypeOK, MutualExclusion, EndedPart, NEW r \in Runs, Moves(r)
  PROVE  EndedPart'
<1>1. ASSUME NEW s \in Runs, pc'[s] = "finishing" PROVE impl'[s[2]] # "in_progress"
  <2>1. CASE s = r
    BY <1>1, <2>1 DEF Moves, EndedPart
  <2>2. CASE s # r
    <3>1. pc[s] = "finishing" /\ Holding(s)
      BY <1>1, <2>2 DEF Moves, Holding, Inside
    <3>2. impl' = impl
      BY <2>2, <3>1 DEF MutualExclusion, Moves
    <3> QED
      BY <3>1, <3>2 DEF EndedPart
  <2> QED
    BY <2>1, <2>2
<1> QED
  BY <1>1 DEF EndedPart

\* every step of a run keeps what is known of orphans and of the pass
LEMMA OrphanPartOfRunStep ==
  ASSUME TypeOK, OneWorker, MutualExclusion, EndedPart, OrphanPart, PassPart,
         NEW r \in Runs, Moves(r)
  PROVE  OrphanPart' /\ PassPart'
<1>1. \A f \in Features : Orphan(f)' => Orphan(f)
  BY OrphansOfRunStep
<1>2. rpc' = rpc /\ cur' = cur /\ crashes' = crashes
  BY DEF Moves
<1>3. ASSUME NEW f \in Features, Orphan(f), NEW w \in Workers, rpc[w] # "saving"
      PROVE  ~Acquirable(row') /\ Orphan(f)' /\ \A s \in Runs : ~Holding(s)'
  <2>1. ~Acquirable(row) /\ \A s \in Runs : ~Holding(s)
    BY <1>3 DEF OrphanPart
  <2>2. row' = row /\ ~Holding(r)' /\ \A s \in Runs \ {r} : pc'[s] = pc[s]
    BY <2>1 DEF Moves
  <2> QED
    BY <1>3, <2>1, <2>2, OrphansOfRunStep DEF Holding
<1>4. OrphanPart'
  <2>1. ASSUME NEW f \in Features, Orphan(f)', NEW w \in Workers, rpc'[w] # "saving"
        PROVE  ~Acquirable(row)' /\ \A s \in Runs : ~Holding(s)'
    BY <1>1, <1>2, <1>3, <2>1
  <2> QED
    BY <1>1, <1>2, <2>1 DEF OrphanPart
<1>5. PassPart'
  <2>1. ASSUME NEW w \in Workers, rpc'[w] = "releasing"
        PROVE  \E f \in Features : cur'[w] = {f} /\ Orphan(f)'
    BY <1>2, <1>3, <2>1 DEF PassPart
  <2>2. ASSUME NEW w \in Workers, rpc'[w] = "saving"
        PROVE  crashes' > 0 /\ \A f \in Features : Orphan(f)' => f \in cur'[w]
    BY <1>1, <1>2, <2>2 DEF PassPart
  <2> QED
    BY <2>1, <2>2 DEF PassPart
<1> QED
  BY <1>4, <1>5

\* a crash leaves one orphan at most, and the lock it had taken
LEMMA CrashStep ==
  ASSUME TypeOK, OneWorker, WorkInv, OrphanPart, PassPart, crashes = 0,
         NEW w \in Workers, Crash(w)
  PROVE  OrphanPart' /\ PassPart' /\ EndedPart'
<1>1. /\ \A r \in Runs : pc'[r] = "idle"
      /\ row' = row /\ impl' = impl /\ crashes' = 1
      /\ \A v \in Workers : rpc'[v] = "idle"
  BY RunParts DEF Crash, Restarted, TypeOK, OneWorker
<1>2. ASSUME NEW f \in Features, Orphan(f)' PROVE Holding(<<w, f>>)
  <2>1. impl[f] = "in_progress" /\ ~Orphan(f)
    BY <1>1, <1>2 DEF Orphan, OrphanPart
  <2>2. PICK v \in Workers : pc[<<v, f>>] \in Inside
    BY <2>1 DEF Orphan
  <2>3. v = w
    BY DEF OneWorker
  <2> QED
    BY <2>2, <2>3 DEF Holding
<1>3. ASSUME NEW f \in Features, NEW g \in Features, Orphan(f)', Orphan(g)' PROVE f = g
  <2>1. <<w, f>> = <<w, g>>
    BY <1>2, <1>3, RunOf DEF WorkInv, MutualExclusion
  <2> QED
    BY <2>1, RunOf
<1>4. ASSUME NEW f \in Features, Orphan(f)' PROVE ~Acquirable(row)' /\ \A r \in Runs : ~Holding(r)'
  BY <1>1, <1>2, <1>4, RunOf DEF WorkInv, LockPart, Holding, Inside
<1>5. OrphanPart'
  BY <1>1, <1>3, <1>4 DEF OrphanPart
<1> QED
  BY <1>1, <1>5 DEF PassPart, EndedPart

\* what is released is the orphan's lock, and who is marked is the orphan
LEMMA RecoveryStepKeeps ==
  ASSUME TypeOK, OneWorker, PromptChecks, WorkInv, OrphanPart, PassPart, EndedPart,
         NEW w \in Workers, Recovery(w)
  PROVE  WorkInv' /\ OrphanPart' /\ PassPart' /\ EndedPart'
<1>0. \A v \in Workers : v = w
  BY DEF OneWorker
<1> USE DEF files, runVars, bounds
<1>1. ASSUME row' = row, pc' = pc, goal' = goal, snap' = snap, lapses' = lapses, impl' = impl,
             worktree' = worktree, head' = head, crashes' = crashes
      PROVE  /\ WorkInv' /\ EndedPart'
             /\ (\A f \in Features : Orphan(f)' <=> Orphan(f)) /\ \A r \in Runs : Holding(r)' <=> Holding(r)
  BY <1>1 DEF WorkInv, LockPart, MutualExclusion, PhasePart, FilesPart, Holding, Concluding, Concluded,
              EndedPart, Orphan
<1>2. CASE List(w)
  <2>1. rpc[w] = "idle" /\ rpc'[w] = "checking"
    BY <1>2 DEF List, TypeOK
  <2>2. WorkInv' /\ EndedPart' /\ (\A f \in Features : Orphan(f)' <=> Orphan(f)) /\ row' = row /\ crashes' = crashes
        /\ \A r \in Runs : Holding(r)' <=> Holding(r)
    BY <1>1, <1>2 DEF List
  <2> QED
    BY <1>0, <2>1, <2>2 DEF OrphanPart, PassPart
<1>3. CASE PassDone(w)
  <2>1. rpc[w] = "checking" /\ rpc'[w] = "idle"
    BY <1>3 DEF PassDone, TypeOK
  <2>2. WorkInv' /\ EndedPart' /\ (\A f \in Features : Orphan(f)' <=> Orphan(f)) /\ row' = row /\ crashes' = crashes
        /\ \A r \in Runs : Holding(r)' <=> Holding(r)
    BY <1>1, <1>3 DEF PassDone
  <2> QED
    BY <1>0, <2>1, <2>2 DEF OrphanPart, PassPart
<1>4. ASSUME NEW f \in Features, Check(w, f) PROVE WorkInv' /\ OrphanPart' /\ PassPart' /\ EndedPart'
  <2>1. WorkInv' /\ EndedPart' /\ (\A g \in Features : Orphan(g)' <=> Orphan(g)) /\ row' = row /\ crashes' = crashes
        /\ \A r \in Runs : Holding(r)' <=> Holding(r)
    BY <1>1, <1>4 DEF Check
  <2>2. CASE PassedOver(w, f)
    BY <1>0, <1>4, <2>1, <2>2 DEF Check, OrphanPart, PassPart
  <2>3. CASE ~PassedOver(w, f)
    <3>1. rpc[w] = "checking" /\ rpc'[w] = "releasing" /\ cur'[w] = {f}
      BY <1>4, <2>3 DEF Check, TypeOK
    <3>2. Orphan(f)
      BY <1>0, <2>3 DEF PassedOver, IsActive, Running, Orphan, Inside
    <3> QED
      BY <1>0, <2>1, <3>1, <3>2 DEF OrphanPart, PassPart
  <2> QED
    BY <2>2, <2>3
<1>5. CASE FreeLock(w)
  <2>1. PICK f \in Features : cur[w] = {f} /\ Orphan(f) /\ rpc[w] = "releasing"
    BY <1>5 DEF FreeLock, PassPart
  <2>2. (\A r \in Runs : ~Holding(r)) /\ crashes # 0
    BY <2>1 DEF OrphanPart
  <2>3. /\ pc' = pc /\ goal' = goal /\ snap' = snap /\ lapses' = lapses /\ impl' = impl
        /\ worktree' = worktree /\ head' = head /\ crashes' = crashes /\ cur' = cur /\ rpc'[w] = "saving"
    BY <1>5 DEF FreeLock, TypeOK
  <2>4. \A r \in Runs : ~Holding(r)'
    BY <2>2, <2>3 DEF Holding
  <2>5. LockPart' /\ MutualExclusion'
    BY <2>4 DEF LockPart, MutualExclusion, Holding, Inside
  <2>6. WorkInv' /\ EndedPart' /\ \A g \in Features : Orphan(g)' <=> Orphan(g)
    BY <2>3, <2>5 DEF WorkInv, PhasePart, FilesPart, Concluding, Concluded, EndedPart, Orphan
  <2>7. crashes' > 0
    BY <2>2, <2>3 DEF TypeOK
  <2>8. OrphanPart'
    BY <1>0, <2>2, <2>3, <2>6 DEF OrphanPart
  <2>9. PassPart'
    BY <1>0, <2>1, <2>3, <2>6, <2>7 DEF OrphanPart, PassPart
  <2> QED
    BY <2>6, <2>8, <2>9
<1>6. CASE MarkFailed(w)
  <2>1. /\ row' = row /\ pc' = pc /\ goal' = goal /\ snap' = snap /\ lapses' = lapses
        /\ worktree' = worktree /\ head' = head /\ crashes' = crashes
        /\ rpc[w] = "saving" /\ rpc'[w] = "checking"
    BY <1>6 DEF MarkFailed, TypeOK
  <2>2. \A f \in Features : impl'[f] = IF f \in cur[w] THEN "failed" ELSE impl[f]
    BY <1>6 DEF MarkFailed
  <2>3. \A f \in Features : ~Orphan(f)'
    BY <2>1, <2>2 DEF PassPart, Orphan
  <2>4. LockPart' /\ MutualExclusion'
    BY <2>1 DEF WorkInv, LockPart, MutualExclusion, Holding
  <2>5. PhasePart' /\ FilesPart' /\ EndedPart'
    BY <2>1, <2>2, RunParts DEF WorkInv, PhasePart, FilesPart, Concluding, Concluded, EndedPart
  <2> QED
    BY <1>0, <2>1, <2>3, <2>4, <2>5 DEF WorkInv, OrphanPart, PassPart
<1> QED
  BY <1>2, <1>3, <1>4, <1>5, <1>6 DEF Recovery

\* errors and crashes are counted, and there is no orderly shutdown
LEMMA ErrorsCounted ==
  ASSUME TypeOK, MaxStops = 0, \A w \in Workers : phase[w] # "stopping", [Next]_vars
  PROVE  /\ \A w \in Workers : phase'[w] # "stopping"
         /\ FewErrors' => FewErrors
         /\ FewErrors' => \/ \E r \in Runs : RunStep(r)
                          \/ \E f \in Features : Expire(f)
                          \/ \E w \in Workers : crashes = 0 /\ Crash(w)
                          \/ \E w \in Workers : Recovery(w)
                          \/ UNCHANGED vars
<1> USE DEF TypeOK, FewErrors, recVars, bounds
<1>1. ASSUME NEW r \in Runs, RunStep(r) PROVE phase' = phase /\ lapses' = lapses /\ crashes' = crashes
  BY <1>1 DEF RunStep, Pipeline, Start, Raise, Heartbeat, Acquire, Refuse, Prepare, Register, Plan, Build,
     Validate, ValidationTurn, Git, ReadRow, SaveRow, SaveStatus, Finish, Close, End
<1>2. ASSUME NEW r \in Runs, Lapse(r) PROVE phase' = phase /\ ~FewErrors'
  BY <1>2 DEF Lapse
<1>3. ASSUME NEW w \in Workers, RecoveryLapse(w) PROVE (\A v \in Workers : phase'[v] # "stopping") /\ ~FewErrors'
  BY <1>3 DEF RecoveryLapse
<1>4. ASSUME NEW w \in Workers, Crash(w)
      PROVE  /\ \A v \in Workers : phase'[v] # "stopping"
             /\ FewErrors' => FewErrors /\ crashes = 0
  BY <1>4 DEF Crash, Restarted, FirstPhase
<1>5. ASSUME NEW w \in Workers, Shutdown(w) \/ Exit(w) PROVE FALSE
  BY <1>5 DEF Shutdown, Exit
<1>6. ASSUME NEW w \in Workers, Recovery(w)
      PROVE  (\A v \in Workers : phase'[v] # "stopping") /\ lapses' = lapses /\ crashes' = crashes
  BY <1>6 DEF Recovery, List, Check, FreeLock, MarkFailed, PassDone
<1>7. ASSUME (\E f \in Features : Expire(f)) \/ UNCHANGED vars
      PROVE  phase' = phase /\ lapses' = lapses /\ crashes' = crashes
  BY <1>7 DEF Expire, vars
<1> QED
  BY <1>1, <1>2, <1>3, <1>4, <1>5, <1>6, <1>7 DEF Next, RunStep

(***************************************************************************)
(* Every step keeps RecoveryInv.                                           *)
(***************************************************************************)
LEMMA RecoveryInvStep ==
  ASSUME TypeOK, OneWorker, PromptChecks, MaxStops = 0, RecoveryInv, [Next]_vars
  PROVE  RecoveryInv'
<1>1. /\ \A w \in Workers : phase'[w] # "stopping"
      /\ FewErrors' => FewErrors
  BY ErrorsCounted DEF RecoveryInv
<1>2. SUFFICES ASSUME FewErrors' PROVE WorkInv' /\ OrphanPart' /\ PassPart' /\ EndedPart'
  BY <1>1 DEF RecoveryInv
<1>3. WorkInv /\ MutualExclusion /\ OrphanPart /\ PassPart /\ EndedPart
  BY <1>1, <1>2 DEF RecoveryInv, WorkInv
<1>4. ASSUME NEW r \in Runs, RunStep(r) PROVE WorkInv' /\ OrphanPart' /\ PassPart' /\ EndedPart'
  <2>1. WorkInv'
    BY <1>3, <1>4, WorkInvStep DEF PipelineStep, RunStep
  <2> QED
    BY <1>3, <1>4, <2>1, RunMoves, OrphanPartOfRunStep, EndedStep
<1>5. ASSUME (\E f \in Features : Expire(f)) \/ UNCHANGED vars
      PROVE  WorkInv' /\ OrphanPart' /\ PassPart' /\ EndedPart'
  <2>1. WorkInv'
    BY <1>3, <1>5, WorkInvStep DEF PipelineStep
  <2>2. pc' = pc /\ impl' = impl /\ row' = row /\ rpc' = rpc /\ cur' = cur /\ crashes' = crashes
    BY <1>5 DEF Expire, vars, runVars, recVars, bounds
  <2> QED
    BY <1>3, <2>1, <2>2 DEF OrphanPart, PassPart, EndedPart, Orphan, Holding
<1>6. ASSUME NEW w \in Workers, crashes = 0, Crash(w) PROVE WorkInv' /\ OrphanPart' /\ PassPart' /\ EndedPart'
  BY <1>3, <1>6, WorkInvStep, CrashStep DEF PipelineStep
<1>7. ASSUME NEW w \in Workers, Recovery(w) PROVE WorkInv' /\ OrphanPart' /\ PassPart' /\ EndedPart'
  BY <1>3, <1>7, RecoveryStepKeeps
<1> QED
  BY <1>2, <1>4, <1>5, <1>6, <1>7, ErrorsCounted DEF RecoveryInv

(***************************************************************************)
(* On one worker that only ever dies, once, and where no error is          *)
(* suppressed, the passes of the recovery disturb no generation, however   *)
(* many are started and at whatever moment the worker dies.                *)
(***************************************************************************)
THEOREM RecoveryDisturbsNobodyHolds ==
  ASSUME OneWorker, PromptChecks, MaxStops = 0
  PROVE  Spec => []RecoveryDisturbsNobody
<1>1. Init => RecoveryInv
  <2> SUFFICES ASSUME Init PROVE RecoveryInv
    OBVIOUS
  <2>1. OrphanPart /\ PassPart /\ EndedPart /\ \A w \in Workers : phase[w] # "stopping"
    BY DEF Init, OrphanPart, PassPart, EndedPart, Orphan, FirstPhase
  <2> QED
    BY <2>1, PipelineInvInit DEF RecoveryInv
<1>2. TypeOK /\ RecoveryInv /\ [Next]_vars => RecoveryInv'
  BY RecoveryInvStep
<1>3. RecoveryInv => RecoveryDisturbsNobody
  BY DEF RecoveryInv, RecoveryDisturbsNobody, WorkInv, FilesPart, ImplementedIsCommitted
<1> QED
  BY <1>1, <1>2, <1>3, PipelineTypeCorrect, PTL DEF Spec
=============================================================================
