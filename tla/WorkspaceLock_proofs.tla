------------------------ MODULE WorkspaceLock_proofs ------------------------
(***************************************************************************)
(* Proofs about WorkspaceLock, for any number of workers and of tasks and  *)
(* any staleness threshold.                                                *)
(*                                                                         *)
(* WorkerExclusion needs no assumption.  MutualExclusion across workers    *)
(* needs the two that the model's flags name: the workspace is registered  *)
(* (its row was saved by an earlier run) and nobody overruns the staleness *)
(* threshold.  It is not inductive by itself: LockInv adds what every      *)
(* holder can count on.                                                    *)
(***************************************************************************)
EXTENDS WorkspaceLock, TLAPS

\* ages stay in range as time passes
LEMMA AgeOlder ==
  /\ \A a \in Age : Older(a) \in Age
  /\ \A a \in 0 .. StaleAfter + 1 : Older(a) \in 0 .. StaleAfter + 1
  BY StaleAfterAssumption DEF Age, NoTime, Older, Stale

\* locking, freeing and ageing a row give a row
LEMMA RowOperators ==
  /\ RegisteredRow \in Row /\ NoRow \in Row
  /\ \A r \in Row : LockTaken(r) \in Row
  /\ \A r \in Row : LockFreed(r) \in Row
  /\ \A r \in Row : Aged(r) \in Row
  /\ \A p \in BOOLEAN : [exists |-> TRUE, locked |-> p, at |-> NoTime, path |-> TRUE] \in Row
<1>1. NoTime \in Age /\ 0 \in Age
  BY StaleAfterAssumption DEF Age, NoTime
<1>2. RegisteredRow \in Row /\ NoRow \in Row
  BY <1>1 DEF RegisteredRow, NoRow, Row
<1>3. ASSUME NEW r \in Row PROVE LockTaken(r) \in Row
  BY <1>1 DEF Row, LockTaken
<1>4. ASSUME NEW r \in Row PROVE LockFreed(r) \in Row
  BY <1>1 DEF Row, LockFreed
<1>5. ASSUME NEW r \in Row PROVE Aged(r) \in Row
  <2>1. Older(r.at) \in Age
    BY AgeOlder DEF Row
  <2>2. QED BY <2>1 DEF Row, Aged
<1>6. ASSUME NEW p \in BOOLEAN
      PROVE [exists |-> TRUE, locked |-> p, at |-> NoTime, path |-> TRUE] \in Row
  BY <1>1 DEF Row
<1>7. QED BY <1>2, <1>3, <1>4, <1>5, <1>6

\* a task that ends keeps the types
LEMMA EndedTypes ==
  ASSUME TypeOK, NEW T, Ended(T)
  PROVE  /\ dir' \in BOOLEAN
         /\ pc' \in [Clients -> States]
         /\ created' \in [Clients -> BOOLEAN]
         /\ snap' \in [Clients -> Row]
         /\ held' \in [Clients -> 0 .. StaleAfter + 1]
<1>1. dir' \in BOOLEAN
  BY DEF TypeOK, Ended
<1>2. pc' \in [Clients -> States]
  BY DEF TypeOK, Ended, States
<1>3. created' \in [Clients -> BOOLEAN]
  BY DEF TypeOK, Ended
<1>4. snap' \in [Clients -> Row]
  BY RowOperators DEF TypeOK, Ended
<1>5. held' \in [Clients -> 0 .. StaleAfter + 1]
  BY StaleAfterAssumption DEF TypeOK, Ended
<1>6. QED BY <1>1, <1>2, <1>3, <1>4, <1>5

(***************************************************************************)
(* Every variable of the lock keeps its type, registered or not, overrun   *)
(* or not: TypeOK is inductive by itself.                                  *)
(***************************************************************************)
THEOREM TypeCorrect == Spec => []TypeOK
<1>1. Init => TypeOK
  BY RowOperators, StaleAfterAssumption, FlagsAssumption DEF Init, TypeOK, States
<1>2. TypeOK /\ [Next]_vars => TypeOK'
  <2> SUFFICES ASSUME TypeOK, [Next]_vars PROVE TypeOK'
    OBVIOUS
  <2> USE RowOperators, AgeOlder, StaleAfterAssumption DEF TypeOK, States
  <2>0. ASSUME NEW c \in Clients PROVE c[1] \in Workers
    BY DEF Clients
  <2>1. ASSUME NEW c \in Clients, Acquire(c) PROVE TypeOK'
    BY <2>0, <2>1 DEF Acquire
  <2>2. ASSUME NEW c \in Clients, AcquireAbandoned(c) PROVE TypeOK'
    BY <2>2 DEF AcquireAbandoned
  <2>3. ASSUME NEW c \in Clients, EnsureDirectory(c) PROVE TypeOK'
    BY <2>3 DEF EnsureDirectory
  <2>4. ASSUME NEW c \in Clients, EnsureRow(c) PROVE TypeOK'
    BY <2>0, <2>4 DEF EnsureRow
  <2>5. ASSUME NEW c \in Clients, UseExisting(c) PROVE TypeOK'
    BY <2>5 DEF UseExisting
  <2>6. ASSUME NEW c \in Clients, ReadRow(c) PROVE TypeOK'
    BY <2>6 DEF ReadRow
  <2>7. ASSUME NEW c \in Clients, SaveRow(c) PROVE TypeOK'
    BY <2>7 DEF SaveRow
  <2>8. ASSUME NEW c \in Clients, Release(c) PROVE TypeOK'
    BY <2>0, <2>8, EndedTypes DEF Release
  <2>9. ASSUME NEW c \in Clients, ReleaseLost(c) PROVE TypeOK'
    BY <2>0, <2>9, EndedTypes DEF ReleaseLost
  <2>10. ASSUME NEW w \in Workers, Crash(w) PROVE TypeOK'
    BY <2>10, EndedTypes DEF Crash
  <2>11. CASE Tick
    BY <2>11 DEF Tick
  <2>12. CASE UNCHANGED vars
    BY <2>12 DEF vars
  <2>13. QED
    BY <2>1, <2>2, <2>3, <2>4, <2>5, <2>6, <2>7, <2>8, <2>9, <2>10, <2>11, <2>12
       DEF Next, Step
<1>3. QED BY <1>1, <1>2, PTL DEF Spec
-----------------------------------------------------------------------------
(***************************************************************************)
(* A client that has the workspace is in its worker's in-memory set.       *)
(***************************************************************************)
HolderInMemory ==
  /\ \A c \in Clients : Holding(c) => mem[c[1]]
  /\ WorkerExclusion

(***************************************************************************)
(* Two tasks of one worker never have the workspace together, whatever     *)
(* happens to the row: acquire_lock and release_lock of the manager are    *)
(* correct for one process (staging runs one).                             *)
(***************************************************************************)
THEOREM WorkerExclusionHolds == Spec => []WorkerExclusion
<1>1. Init => HolderInMemory
  BY DEF Init, HolderInMemory, WorkerExclusion, Holding
<1>2. TypeOK /\ HolderInMemory /\ [Next]_vars => HolderInMemory'
  <2> SUFFICES ASSUME TypeOK, HolderInMemory, [Next]_vars PROVE HolderInMemory'
    OBVIOUS
  <2> USE DEF TypeOK, HolderInMemory, WorkerExclusion, Holding, Clients
  <2>1. ASSUME NEW c \in Clients, Acquire(c) PROVE HolderInMemory'
    BY <2>1 DEF Acquire
  <2>2. ASSUME NEW c \in Clients, AcquireAbandoned(c) PROVE HolderInMemory'
    BY <2>2 DEF AcquireAbandoned
  <2>3. ASSUME NEW c \in Clients, EnsureDirectory(c) PROVE HolderInMemory'
    BY <2>3 DEF EnsureDirectory
  <2>4. ASSUME NEW c \in Clients, EnsureRow(c) PROVE HolderInMemory'
    BY <2>4 DEF EnsureRow
  <2>5. ASSUME NEW c \in Clients, UseExisting(c) PROVE HolderInMemory'
    BY <2>5 DEF UseExisting
  <2>6. ASSUME NEW c \in Clients, ReadRow(c) PROVE HolderInMemory'
    BY <2>6 DEF ReadRow
  <2>7. ASSUME NEW c \in Clients, SaveRow(c) PROVE HolderInMemory'
    BY <2>7 DEF SaveRow
  <2>8. ASSUME NEW c \in Clients, Release(c) PROVE HolderInMemory'
    BY <2>8 DEF Release, Ended
  <2>9. ASSUME NEW c \in Clients, ReleaseLost(c) PROVE HolderInMemory'
    BY <2>9 DEF ReleaseLost, Ended
  <2>10. ASSUME NEW w \in Workers, Crash(w) PROVE HolderInMemory'
    BY <2>10 DEF Crash, Ended
  <2>11. CASE Tick
    BY <2>11 DEF Tick
  <2>12. CASE UNCHANGED vars
    BY <2>12 DEF vars
  <2>13. QED
    BY <2>1, <2>2, <2>3, <2>4, <2>5, <2>6, <2>7, <2>8, <2>9, <2>10, <2>11, <2>12
       DEF Next, Step
<1>3. HolderInMemory => WorkerExclusion
  BY DEF HolderInMemory
<1>4. QED BY <1>1, <1>2, <1>3, TypeCorrect, PTL DEF Spec
-----------------------------------------------------------------------------
(***************************************************************************)
(* What every holder of the lock of a registered workspace can count on    *)
(* when nobody overruns the threshold: the row says locked, its locked_at  *)
(* is the moment of the holder's own acquire, and a copy about to be saved *)
(* says exactly what the row says.                                         *)
(***************************************************************************)
HolderInv ==
  \A c \in Clients :
    /\ Holding(c) => row.locked /\ row.at = held[c] /\ held[c] <= StaleAfter
    /\ pc[c] = "saving" => snap[c] = row
    /\ ~created[c]

LockInv == row.exists /\ dir /\ HolderInv /\ MutualExclusion

(***************************************************************************)
(* Nobody can acquire while somebody holds.                                *)
(***************************************************************************)
LEMMA HeldIsNotAcquirable ==
  ASSUME TypeOK, LockInv, NEW c \in Clients, Holding(c)
  PROVE  ~Acquirable(row)
<1>1. held[c] \in 0 .. StaleAfter
  BY StaleAfterAssumption DEF TypeOK, LockInv, HolderInv
<1>2. QED
  BY <1>1, StaleAfterAssumption DEF LockInv, HolderInv, Acquirable, Stale, NoTime

\* a registered, free row satisfies LockInv
LEMMA LockInvInit ==
  ASSUME Registered, Init PROVE LockInv
  BY StaleAfterAssumption
     DEF Init, LockInv, HolderInv, MutualExclusion, Holding, RegisteredRow

\* every step of a task, a crash or the clock keeps LockInv
LEMMA LockInvStep ==
  ASSUME BoundedRuns, TypeOK, LockInv, [Next]_vars PROVE LockInv'
<1> USE DEF LockInv, HolderInv, MutualExclusion, Holding
<1>1. ASSUME NEW c \in Clients, Acquire(c) PROVE LockInv'
  <2>1. \A d \in Clients : ~Holding(d)
    BY <1>1, HeldIsNotAcquirable DEF Acquire
  <2>2. /\ row'.exists /\ row'.locked /\ row'.at = 0
        /\ held'[c] = 0 /\ pc'[c] = "locked"
    BY <1>1 DEF Acquire, LockTaken, TypeOK, Row
  <2>3. \A d \in Clients : d # c => pc'[d] = "idle"
    BY <1>1, <2>1 DEF Acquire, TypeOK
  <2>4. QED
    BY <1>1, <2>2, <2>3, StaleAfterAssumption DEF Acquire, TypeOK
<1>2. ASSUME NEW c \in Clients, AcquireAbandoned(c) PROVE LockInv'
  <2>1. \A d \in Clients : ~Holding(d)
    BY <1>2, HeldIsNotAcquirable DEF AcquireAbandoned
  <2>2. QED
    BY <1>2, <2>1 DEF AcquireAbandoned, LockTaken, TypeOK, Row
<1>3. ASSUME NEW c \in Clients, EnsureDirectory(c) PROVE LockInv'
  BY <1>3 DEF EnsureDirectory, TypeOK
<1>4. ASSUME NEW c \in Clients, EnsureRow(c) PROVE LockInv'
  BY <1>4 DEF EnsureRow, TypeOK
<1>5. ASSUME NEW c \in Clients, UseExisting(c) PROVE LockInv'
  BY <1>5 DEF UseExisting, TypeOK
<1>6. ASSUME NEW c \in Clients, ReadRow(c) PROVE LockInv'
  BY <1>6 DEF ReadRow, TypeOK
<1>7. ASSUME NEW c \in Clients, SaveRow(c) PROVE LockInv'
  <2>1. row' = row
    BY <1>7 DEF SaveRow
  <2>2. QED BY <1>7, <2>1 DEF SaveRow, TypeOK
<1>8. ASSUME NEW c \in Clients, Release(c) PROVE LockInv'
  <2>1. \A d \in Clients : ~Holding(d)' /\ ~created'[d]
    BY <1>8 DEF Release, Ended
  <2>2. row'.exists /\ dir'
    BY <1>8 DEF Release, Ended, LockFreed, TypeOK, Row
  <2>3. QED BY <2>1, <2>2
<1>9. ASSUME NEW c \in Clients, ReleaseLost(c) PROVE LockInv'
  <2>1. \A d \in Clients : ~Holding(d)' /\ ~created'[d]
    BY <1>9 DEF ReleaseLost, Ended
  <2>2. QED BY <1>9, <2>1 DEF ReleaseLost, Ended
<1>10. ASSUME NEW w \in Workers, Crash(w) PROVE LockInv'
  BY <1>10 DEF Crash, Ended
<1>11. CASE Tick
  <2>1. ASSUME NEW c \in Clients, Holding(c)'
        PROVE  row'.locked /\ row'.at = held'[c] /\ held'[c] <= StaleAfter
    <3>1. Holding(c) /\ held[c] \in 0 .. StaleAfter /\ held[c] < StaleAfter
      BY <1>11, <2>1, StaleAfterAssumption DEF Tick, TypeOK
    <3>2. held'[c] = held[c] + 1 /\ row'.at = held[c] + 1
      BY <1>11, <3>1, StaleAfterAssumption
         DEF Tick, Aged, Older, Stale, NoTime, TypeOK, Row
    <3>3. row'.locked
      BY <1>11, <3>1 DEF Tick, Aged, TypeOK, Row
    <3>4. QED BY <3>1, <3>2, <3>3, StaleAfterAssumption
  <2>2. row'.exists /\ dir'
    BY <1>11 DEF Tick, Aged, TypeOK, Row
  <2>3. \A c \in Clients : pc'[c] = "saving" => snap'[c] = row'
    BY <1>11 DEF Tick
  <2>4. \A c \in Clients : ~created'[c] /\ pc'[c] = pc[c]
    BY <1>11 DEF Tick
  <2>5. QED BY <2>1, <2>2, <2>3, <2>4
<1>12. CASE UNCHANGED vars
  BY <1>12 DEF vars
<1>13. QED
  BY <1>1, <1>2, <1>3, <1>4, <1>5, <1>6, <1>7, <1>8, <1>9, <1>10, <1>11, <1>12
     DEF Next, Step

\* LockInv holds of every behaviour: whoever is inside the lock has its row locked
\* and fresh (the basis of the theorems that follow).
THEOREM LockInvariant ==
  ASSUME Registered, BoundedRuns PROVE Spec => []LockInv
<1>1. Init => LockInv
  BY LockInvInit
<1>2. TypeOK /\ LockInv /\ [Next]_vars => LockInv'
  BY LockInvStep
<1>3. QED BY <1>1, <1>2, TypeCorrect, PTL DEF Spec
-----------------------------------------------------------------------------
(***************************************************************************)
(* Two tasks never have a registered workspace together, on one worker or  *)
(* on two, as long as nobody overruns the staleness threshold: crashes,    *)
(* lost releases and abandoned acquires included.                          *)
(***************************************************************************)
THEOREM MutualExclusionHolds ==
  ASSUME Registered, BoundedRuns PROVE Spec => []MutualExclusion
<1>1. LockInv => MutualExclusion
  BY DEF LockInv
<1>2. QED BY <1>1, LockInvariant, PTL

(***************************************************************************)
(* Under the same conditions no step makes the row of a held lock look     *)
(* free: the copies that commit and rollback save back are harmless.       *)
(***************************************************************************)
THEOREM HeldRowStaysLockedHolds ==
  ASSUME Registered, BoundedRuns PROVE Spec => HeldRowStaysLocked
<1>1. TypeOK' /\ LockInv' => \A c \in Clients : Holding(c)' => ~Acquirable(row')
  <2> SUFFICES ASSUME TypeOK', LockInv', NEW c \in Clients, Holding(c)'
               PROVE  ~Acquirable(row')
    OBVIOUS
  <2>1. /\ row'.exists /\ row'.locked /\ row'.at = held'[c]
        /\ held'[c] \in 0 .. StaleAfter
    BY StaleAfterAssumption DEF LockInv, HolderInv, TypeOK
  <2>2. QED BY <2>1, StaleAfterAssumption DEF Acquirable, Stale, NoTime
<1>2. TypeOK' /\ LockInv' /\ [Next]_vars
      => [\A c \in Clients : Holding(c) /\ Holding(c)' => ~Acquirable(row')]_vars
  BY <1>1
<1>3. QED BY <1>2, LockInvariant, TypeCorrect, PTL DEF Spec, HeldRowStaysLocked

(***************************************************************************)
(* Under the same conditions the lock implements module Mutex: it is never *)
(* handed from one task to another without a moment when it is free.       *)
(***************************************************************************)
THEOREM LockImplementsMutex ==
  ASSUME Registered, BoundedRuns PROVE Spec => ImplementsMutex
<1> DEFINE in == {c \in Clients : Holding(c)}
<1>1. Init => Abstract!Init
  BY DEF Init, Abstract!Init, Holding
<1>2. TypeOK /\ LockInv /\ LockInv' /\ [Next]_vars => [Abstract!Next]_in
  <2> SUFFICES ASSUME TypeOK, LockInv, LockInv', [Next]_vars, in' # in
               PROVE  Abstract!Next
    BY DEF in
  <2> USE DEF Holding
  <2>1. ASSUME NEW c \in Clients, Acquire(c) PROVE Abstract!Enter(c)
    <3>1. in = {}
      BY <2>1, HeldIsNotAcquirable DEF Acquire
    <3>2. in' = {c}
      BY <2>1, <3>1 DEF Acquire, TypeOK
    <3>3. QED BY <3>1, <3>2 DEF Abstract!Enter
  <2>2. ASSUME NEW T, Ended(T) PROVE Abstract!Leave
    <3>1. in' \subseteq in
      BY <2>2 DEF Ended
    <3>2. \A c, d \in in : c = d
      BY DEF LockInv, MutualExclusion
    <3>3. in # {} /\ in' = {}
      BY <3>1, <3>2
    <3>4. QED BY <3>3 DEF Abstract!Leave
  <2>3. ASSUME NEW c \in Clients,
               \/ AcquireAbandoned(c) \/ EnsureDirectory(c) \/ EnsureRow(c)
               \/ UseExisting(c) \/ ReadRow(c) \/ SaveRow(c)
        PROVE  in' = in
    BY <2>3 DEF AcquireAbandoned, EnsureDirectory, EnsureRow, UseExisting, ReadRow,
                SaveRow, TypeOK
  <2>4. ASSUME Tick \/ UNCHANGED vars PROVE in' = in
    BY <2>4 DEF Tick, vars
  <2>5. QED
    BY <2>1, <2>2, <2>3, <2>4 DEF Next, Step, Release, ReleaseLost, Crash, Abstract!Next
<1>3. QED
  BY <1>1, <1>2, LockInvariant, TypeCorrect, PTL DEF Spec, ImplementsMutex, Abstract!Spec
=============================================================================
