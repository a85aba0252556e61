-------------------------- MODULE BatchEngineProofs --------------------------
(***************************************************************************)
(* Proofs about inspect_batch, for every set of callers, every pool cap    *)
(* and every bound: type correctness, and the exclusion that the           *)
(* process-wide slot gives, by which no worker outlives its call; then     *)
(* what becomes of the images: each is in one place, the progress counters *)
(* are those of the running batch, no worker starts an image after a       *)
(* cancellation, an uncancelled batch is complete, and the whole           *)
(* implements the abstract pool.                                           *)
(***************************************************************************)
EXTENDS BatchEngine, TLAPS, BatchPolling, BatchPool, FiniteSetTheorems

\* PoolSizeOf clamps: the pool never exceeds the hard cap, whatever
\* max_workers a caller passes.
LEMMA PoolSizeType ==
  ASSUME NEW requested \in Nat, NEW n \in Nat, NEW cap \in Nat
  PROVE  PoolSizeOf(requested, n, cap) \in 0 .. cap
BY DEF PoolSizeOf

\* task_completion_percentage of two counters is a natural number.
LEMMA PercentType ==
  ASSUME NEW done \in Nat, NEW all \in Nat
  PROVE  PercentOf(done, all) \in Nat
<1>1. CASE all = 0
  BY <1>1 DEF PercentOf
<1>2. CASE all # 0
  <2> DEFINE part == (IF done > all THEN all ELSE done) * 100
  <2>1. part \in Nat
    OBVIOUS
  <2> HIDE DEF part
  <2>2. part \div all \in Nat
    BY <2>1, <1>2
  <2> QED BY <1>2, <2>2 DEF PercentOf, part
<1> QED BY <1>1, <1>2

\* reset_for_batch makes four stores.
LEMMA ResetOrderLen == Len(ResetOrder) = 4
BY DEF ResetOrder

\* Updating one entry of a function, or of a function of functions, by a value
\* of the right type keeps its type.
LEMMA UpdateType ==
  ASSUME NEW S, NEW T, NEW f \in [S -> T], NEW x \in S, NEW v \in T
  PROVE  [f EXCEPT ![x] = v] \in [S -> T]
OBVIOUS

\* The same for a row of a row.
LEMMA Update2Type ==
  ASSUME NEW S, NEW R, NEW T, NEW f \in [S -> [R -> T]],
         NEW x \in S, NEW y \in R, NEW v \in T
  PROVE  [f EXCEPT ![x][y] = v] \in [S -> [R -> T]]
OBVIOUS

USE PoolCapAssumption, BoundsAssumption, RequestsAssumption, FailuresAssumption

-----------------------------------------------------------------------------
(* Type correctness, one lemma per group of actions. *)

\* The initial state is well typed.
LEMMA InitTypeOK == Init => TypeOK
<1> SUFFICES ASSUME Init PROVE TypeOK
  OBVIOUS
<1>1. slot \in BOOLEAN /\ token \in BOOLEAN /\ cancelled \in BOOLEAN
  BY Zenon DEF Init
<1>2. /\ completed \in Nat /\ total \in Nat /\ percentage \in Nat
      /\ pc \in [Callers -> CallerPC]
      /\ field \in [Callers -> 1 .. Len(ResetOrder)]
      /\ calls \in [Callers -> 0 .. MaxCalls]
      /\ images \in [Callers -> 0 .. MaxImages]
      /\ workers \in [Callers -> 0 .. PoolCap]
      /\ spawned \in [Callers -> 0 .. PoolCap]
      /\ status \in [Callers -> Statuses]
      /\ canceller \in CancellerPC
  BY ResetOrderLen DEF Init, CallerPC, Statuses, CancellerPC
<1>3. /\ queue \in [Callers -> Seq(1 .. MaxImages)]
      /\ outcomes \in [Callers -> Seq(Outcome)]
  BY DEF Init
<1>4. /\ wpc \in [Callers -> [Workers -> WorkerPC]]
      /\ item \in [Callers -> [Workers -> 0 .. MaxImages]]
      /\ seen \in [Callers -> [Workers -> Nat]]
  BY DEF Init, WorkerPC
<1> QED BY <1>1, <1>2, <1>3, <1>4 DEF TypeOK

\* The operations of the calling thread keep the types.
LEMMA CallerTypeOK ==
  ASSUME TypeOK, NEW c \in Callers, CallerStart(c) \/ CallerStep(c)
  PROVE  TypeOK'
<1>1. CASE Rejected(c)
  BY <1>1, SMTT(30) DEF TypeOK, Rejected, progressVars, workVars
<1>2. CASE Release(c)
  BY <1>2 DEF TypeOK, Release, progressVars, workVars, CallerPC
<1>3. CASE BeginDiscovery(c)
  BY <1>3, SMTT(30) DEF TypeOK, BeginDiscovery, AcquireActiveOperation, progressVars,
              workVars, CallerPC
<1>4. CASE EndDiscovery(c)
  BY <1>4 DEF TypeOK, EndDiscovery, progressVars, workVars, CallerPC
<1>5. CASE BeginBatch(c)
  <2>1. PICK n \in 0 .. MaxImages, requested \in WorkerRequests :
          /\ images' = [images EXCEPT ![c] = n]
          /\ workers' = [workers EXCEPT ![c] = PoolSizeOf(requested, n, PoolCap)]
          /\ queue' = [queue EXCEPT ![c] = [i \in 1 .. n |-> i]]
    BY <1>5 DEF BeginBatch
  <2>2. PoolSizeOf(requested, n, PoolCap) \in 0 .. PoolCap
    <3>1. requested \in Nat /\ n \in Nat /\ PoolCap \in Nat
      OBVIOUS
    <3> QED BY <3>1, PoolSizeType
  <2>3. [i \in 1 .. n |-> i] \in Seq(1 .. MaxImages)
    OBVIOUS
  <2>4. <<>> \in Seq(Outcome)
    OBVIOUS
  <2>5. /\ images' \in [Callers -> 0 .. MaxImages]
        /\ workers' \in [Callers -> 0 .. PoolCap]
        /\ queue' \in [Callers -> Seq(1 .. MaxImages)]
    BY <2>1, <2>2, <2>3, UpdateType DEF TypeOK
  <2>6. /\ outcomes' \in [Callers -> Seq(Outcome)]
        /\ wpc' \in [Callers -> [Workers -> WorkerPC]]
        /\ item' \in [Callers -> [Workers -> 0 .. MaxImages]]
        /\ seen' \in [Callers -> [Workers -> Nat]]
    BY <1>5, <2>4, SMTT(30) DEF TypeOK, BeginBatch, WorkerPC
  <2>7. /\ slot' \in BOOLEAN
        /\ calls' \in [Callers -> 0 .. MaxCalls]
        /\ pc' \in [Callers -> CallerPC]
        /\ field' \in [Callers -> 1 .. Len(ResetOrder)]
        /\ spawned' \in [Callers -> 0 .. PoolCap]
        /\ status' \in [Callers -> Statuses]
    BY <1>5, ResetOrderLen, SMTT(30)
       DEF TypeOK, BeginBatch, AcquireActiveOperation, CallerPC, Statuses
  <2> QED BY <1>5, <2>5, <2>6, <2>7 DEF TypeOK, BeginBatch, progressVars
<1>6. CASE ResetForBatch(c)
  <2>1. /\ completed' \in Nat /\ percentage' \in Nat /\ total' \in Nat
    BY <1>6 DEF TypeOK, ResetForBatch
  <2>2. cancelled' \in BOOLEAN
    BY <1>6 DEF TypeOK, ResetForBatch
  <2>3. pc' \in [Callers -> CallerPC] /\ status' \in [Callers -> Statuses]
    <3>1. /\ \/ pc' = pc
             \/ pc' = [pc EXCEPT ![c] = "spawn"]
             \/ pc' = [pc EXCEPT ![c] = "release"]
          /\ \/ status' = status
             \/ status' = [status EXCEPT ![c] = "ok"]
      BY <1>6 DEF ResetForBatch
    <3> QED BY <3>1 DEF TypeOK, CallerPC, Statuses
  <2>4. field' \in [Callers -> 1 .. Len(ResetOrder)]
    <3>1. \/ field' = field
          \/ /\ field[c] < Len(ResetOrder)
             /\ field' = [field EXCEPT ![c] = field[c] + 1]
      BY <1>6 DEF ResetForBatch
    <3>2. field \in [Callers -> 1 .. 4]
      BY ResetOrderLen DEF TypeOK
    <3>3. field' \in [Callers -> 1 .. 4]
      <4>1. CASE field' = field
        BY <4>1, <3>2
      <4>2. CASE field' # field
        <5>1. field[c] + 1 \in 1 .. 4
          BY <3>1, <3>2, <4>2, ResetOrderLen
        <5> QED BY <3>1, <3>2, <4>2, <5>1, UpdateType
      <4> QED BY <4>1, <4>2
    <3> QED BY <3>3, ResetOrderLen
  <2>5. UNCHANGED <<slot, token, calls, images, workers, spawned, queue,
                    outcomes, wpc, item, seen, canceller>>
    BY <1>6 DEF ResetForBatch, workVars
  <2>6. Len(ResetOrder)' = Len(ResetOrder)
    BY ResetOrderLen DEF ResetOrder
  <2> QED BY <2>1, <2>2, <2>3, <2>4, <2>5, <2>6 DEF TypeOK
<1>7. CASE Spawn(c)
  <2>1. spawned[c] + 1 \in 1 .. PoolCap
    BY <1>7 DEF Spawn, TypeOK
  <2>2. wpc' \in [Callers -> [Workers -> WorkerPC]]
    BY <1>7, <2>1, Update2Type, ZenonT(30) DEF Spawn, WorkerPC, Workers, TypeOK
  <2>3. spawned' \in [Callers -> 0 .. PoolCap]
    BY <1>7, <2>1 DEF Spawn, TypeOK
  <2> QED BY <1>7, <2>2, <2>3 DEF Spawn, progressVars, TypeOK
<1>8. CASE SpawnFails(c)
  BY <1>8 DEF TypeOK, SpawnFails, progressVars, workVars, CallerPC
<1>9. CASE Join(c)
  BY <1>9 DEF TypeOK, Join, progressVars, workVars, CallerPC, Statuses
<1>10. CASE JoinAfterFailure(c)
  BY <1>10 DEF TypeOK, JoinAfterFailure, progressVars, workVars, CallerPC,
               Statuses
<1> QED
  BY <1>1, <1>2, <1>3, <1>4, <1>5, <1>6, <1>7, <1>8, <1>9, <1>10
     DEF CallerStart, CallerStep

\* Moving a worker's program counter keeps its type.
LEMMA GotoType ==
  ASSUME TypeOK, NEW c \in Callers, NEW w \in Workers, NEW to \in WorkerPC,
         Goto(c, w, to)
  PROVE  wpc' \in [Callers -> [Workers -> WorkerPC]]
BY Update2Type DEF Goto, TypeOK

\* The steps of a worker's loop keep the types.
LEMMA WorkerTypeOK ==
  ASSUME TypeOK, HoldsItem, NEW c \in Callers, NEW w \in Workers,
         WorkerStep(c, w)
  PROVE  TypeOK'
<1>0. /\ "check" \in WorkerPC /\ "pop" \in WorkerPC /\ "recheck" \in WorkerPC
      /\ "inspect" \in WorkerPC /\ "increment" \in WorkerPC
      /\ "publish" \in WorkerPC /\ "exited" \in WorkerPC
  BY DEF WorkerPC
<1>1. CASE CheckCancel(c, w)
  <2>1. wpc' \in [Callers -> [Workers -> WorkerPC]]
    BY <1>0, <1>1, GotoType DEF CheckCancel
  <2> QED BY <1>1, <2>1 DEF TypeOK, CheckCancel, progressVars, callVars
<1>2. CASE Pop(c, w)
  <2>1. wpc' \in [Callers -> [Workers -> WorkerPC]]
    BY <1>0, <1>2, GotoType DEF Pop
  <2>2. /\ queue' \in [Callers -> Seq(1 .. MaxImages)]
        /\ item' \in [Callers -> [Workers -> 0 .. MaxImages]]
    <3>1. CASE queue[c] = <<>>
      BY <1>2, <3>1 DEF Pop, TypeOK
    <3>2. CASE queue[c] # <<>>
      <4>1. /\ Head(queue[c]) \in 1 .. MaxImages
            /\ Tail(queue[c]) \in Seq(1 .. MaxImages)
        BY <3>2, SMTT(30) DEF TypeOK
      <4>2. /\ item' = [item EXCEPT ![c][w] = Head(queue[c])]
            /\ queue' = [queue EXCEPT ![c] = Tail(queue[c])]
        BY <1>2, <3>2 DEF Pop
      <4>3. Head(queue[c]) \in 0 .. MaxImages
        BY <4>1
      <4>4. item' \in [Callers -> [Workers -> 0 .. MaxImages]]
        BY <4>2, <4>3, Update2Type DEF TypeOK
      <4> QED BY <4>1, <4>2, <4>4, UpdateType DEF TypeOK
    <3> QED BY <3>1, <3>2
  <2> QED BY <1>2, <2>1, <2>2 DEF TypeOK, Pop, progressVars, callVars
<1>3. CASE RecheckCancel(c, w)
  <2>1. wpc' \in [Callers -> [Workers -> WorkerPC]]
    BY <1>0, <1>3, GotoType DEF RecheckCancel
  <2> QED BY <1>3, <2>1 DEF TypeOK, RecheckCancel, progressVars, callVars
<1>4. CASE Inspect(c, w)
  <2>0. item[c][w] # 0
    BY <1>4 DEF Inspect, HoldsItem
  <2>1. wpc' \in [Callers -> [Workers -> WorkerPC]]
    BY <1>0, <1>4, GotoType DEF Inspect
  <2>2. PICK k \in Kinds :
          outcomes' = [outcomes EXCEPT
            ![c] = Append(outcomes[c], [index |-> item[c][w], kind |-> k])]
    BY <1>4 DEF Inspect
  <2>3. [index |-> item[c][w], kind |-> k] \in Outcome
    BY <2>0 DEF Outcome, TypeOK
  <2>4. outcomes' \in [Callers -> Seq(Outcome)]
    BY <2>2, <2>3 DEF TypeOK
  <2>5. item' \in [Callers -> [Workers -> 0 .. MaxImages]]
    BY <1>4, Update2Type DEF Inspect, TypeOK
  <2> QED BY <1>4, <2>1, <2>4, <2>5 DEF TypeOK, Inspect, progressVars, callVars
<1>5. CASE InspectPanics(c, w)
  <2>1. wpc' \in [Callers -> [Workers -> WorkerPC]]
    BY <1>0, <1>5, GotoType DEF InspectPanics
  <2> QED BY <1>5, <2>1 DEF TypeOK, InspectPanics, progressVars, callVars
<1>6. CASE FetchAdd(c, w)
  <2>1. wpc' \in [Callers -> [Workers -> WorkerPC]]
    BY <1>0, <1>6, GotoType DEF FetchAdd
  <2>2. completed' \in Nat
    BY <1>6 DEF FetchAdd, TypeOK
  <2>3. completed + 1 \in Nat
    BY DEF TypeOK
  <2>4. seen' \in [Callers -> [Workers -> Nat]]
    BY <1>6, <2>3, Update2Type DEF FetchAdd, TypeOK
  <2> QED BY <1>6, <2>1, <2>2, <2>4 DEF TypeOK, FetchAdd, callVars
<1>7. CASE StorePercentage(c, w)
  <2>1. wpc' \in [Callers -> [Workers -> WorkerPC]]
    BY <1>0, <1>7, GotoType DEF StorePercentage
  <2>2. seen[c][w] \in Nat /\ total \in Nat
    BY DEF TypeOK
  <2>3. percentage' \in Nat
    BY <1>7, <2>2, PercentType DEF StorePercentage, TypeOK
  <2>4. seen' \in [Callers -> [Workers -> Nat]]
    BY <1>7, Update2Type DEF StorePercentage, TypeOK
  <2> QED BY <1>7, <2>1, <2>3, <2>4 DEF TypeOK, StorePercentage, callVars
<1> QED
  BY <1>1, <1>2, <1>3, <1>4, <1>5, <1>6, <1>7 DEF WorkerStep

\* cancel() and stuttering touch nothing that the call or its workers own.
LEMMA CancelFrame ==
  ASSUME CancelStep \/ UNCHANGED vars
  PROVE  UNCHANGED <<slot, completed, total, percentage, pc, field, calls,
                     images, workers, spawned, status, queue, outcomes, wpc,
                     item, seen>>
<1>1. CASE EngineCancel
  BY <1>1 DEF EngineCancel, progressVars, callVars, workVars
<1>2. CASE ProgressCancel
  BY <1>2 DEF ProgressCancel, callVars, workVars
<1>3. CASE ProgressCancelLink
  BY <1>3 DEF ProgressCancelLink, progressVars, callVars, workVars
<1>4. CASE UNCHANGED vars
  BY <1>4 DEF vars, progressVars, callVars, workVars
<1> QED BY <1>1, <1>2, <1>3, <1>4 DEF CancelStep

\* A cancellation keeps the types.
LEMMA CancelTypeOK ==
  ASSUME TypeOK, CancelStep \/ UNCHANGED vars
  PROVE  TypeOK'
<1>1. UNCHANGED <<slot, completed, total, percentage, pc, field, calls, images,
                  workers, spawned, status, queue, outcomes, wpc, item, seen>>
  BY CancelFrame
<1>2. token' \in BOOLEAN /\ cancelled' \in BOOLEAN
  <2>1. \/ token' = token
        \/ token' = TRUE
    BY DEF CancelStep, EngineCancel, ProgressCancel, ProgressCancelLink, vars
  <2>2. \/ cancelled' = cancelled
        \/ cancelled' = TRUE
    BY DEF CancelStep, EngineCancel, ProgressCancel, ProgressCancelLink, vars,
           progressVars
  <2> QED BY <2>1, <2>2, Zenon DEF TypeOK
<1>3. canceller' \in CancellerPC
  BY DEF TypeOK, CancelStep, EngineCancel, ProgressCancel, ProgressCancelLink,
         vars, CancellerPC
<1> QED BY <1>1, <1>2, <1>3 DEF TypeOK

-----------------------------------------------------------------------------
(* The slot.  A step of the calling thread moves only its own program       *)
(* counter; a step of a worker moves only its own, and leaves the callers   *)
(* and the slot alone.                                                      *)

\* What every worker step leaves alone.
LEMMA WorkerFrame ==
  ASSUME NEW c \in Callers, NEW w \in Workers, WorkerStep(c, w)
  PROVE  /\ UNCHANGED <<slot, pc, spawned>>
         /\ LiveWorker(c, w)
         /\ \E to \in WorkerPC : Goto(c, w, to)
<1> USE DEF callVars, LiveWorker, WorkerPC
<1>1. CASE CheckCancel(c, w)
  BY <1>1 DEF CheckCancel
<1>2. CASE Pop(c, w)
  BY <1>2 DEF Pop
<1>3. CASE RecheckCancel(c, w)
  BY <1>3 DEF RecheckCancel
<1>4. CASE Inspect(c, w)
  BY <1>4 DEF Inspect
<1>5. CASE InspectPanics(c, w)
  BY <1>5 DEF InspectPanics
<1>6. CASE FetchAdd(c, w)
  BY <1>6 DEF FetchAdd
<1>7. CASE StorePercentage(c, w)
  BY <1>7 DEF StorePercentage
<1> QED BY <1>1, <1>2, <1>3, <1>4, <1>5, <1>6, <1>7 DEF WorkerStep

\* A worker step preserves the slot invariant: the worker that takes it is
\* live, so its call is still waiting for it.
LEMMA WorkerSlot ==
  ASSUME SlotInv, NEW c \in Callers, NEW w \in Workers, WorkerStep(c, w)
  PROVE  NotSpawnedYet' /\ SlotExclusive'
<1>1. PICK to \in WorkerPC : Goto(c, w, to)
  BY WorkerFrame
<1>2. UNCHANGED <<slot, pc, spawned>> /\ LiveWorker(c, w)
  BY WorkerFrame
<1>3. wpc \in [Callers -> [Workers -> WorkerPC]]
  BY DEF SlotInv, TypeOK
<1>4. \A d \in Callers, v \in Workers :
        wpc'[d][v] = IF d = c /\ v = w THEN to ELSE wpc[d][v]
  BY <1>1, <1>3 DEF Goto
<1>5. pc[c] \in {"spawn", "join_failed"}
  BY <1>2 DEF SlotInv, SlotExclusive
<1>6. ~(w > spawned[c])
  BY <1>2, <1>5 DEF SlotInv, NotSpawnedYet, LiveWorker
<1>7. NotSpawnedYet'
  BY <1>2, <1>4, <1>6 DEF SlotInv, NotSpawnedYet
<1>8. \A d \in Callers, v \in Workers :
        LiveWorker(d, v)' => pc'[d] \in {"spawn", "join_failed"}
  BY <1>2, <1>4, <1>5 DEF SlotInv, SlotExclusive, LiveWorker
<1> QED BY <1>2, <1>7, <1>8 DEF SlotInv, SlotExclusive

\* A worker past its pop holds the image it popped, until it pushes.
LEMMA WorkerHolds ==
  ASSUME SlotInv, NEW c \in Callers, NEW w \in Workers, WorkerStep(c, w)
  PROVE  HoldsItem'
<1> SUFFICES ASSUME NEW d \in Callers, NEW v \in Workers,
                    wpc'[d][v] \in {"recheck", "inspect"}
             PROVE  item'[d][v] # 0
  BY DEF HoldsItem
<1>1. /\ wpc \in [Callers -> [Workers -> WorkerPC]]
      /\ item \in [Callers -> [Workers -> 0 .. MaxImages]]
      /\ queue \in [Callers -> Seq(1 .. MaxImages)]
  BY DEF SlotInv, TypeOK
<1>2. wpc[d][v] \in {"recheck", "inspect"} => item[d][v] # 0
  BY DEF SlotInv, HoldsItem
<1>3. CASE CheckCancel(c, w)
  BY <1>1, <1>2, <1>3 DEF CheckCancel, Goto
<1>4. CASE Pop(c, w)
  <2>1. CASE queue[c] = <<>>
    <3>1. UNCHANGED item /\ Goto(c, w, "exited")
      BY <1>4, <2>1 DEF Pop
    <3> QED BY <1>1, <1>2, <3>1 DEF Goto
  <2>2. CASE queue[c] # <<>>
    <3>0. /\ item' = [item EXCEPT ![c][w] = Head(queue[c])]
          /\ Goto(c, w, "recheck")
      BY <1>4, <2>2 DEF Pop
    <3>1. Head(queue[c]) # 0
      <4>1. Head(queue[c]) \in 1 .. MaxImages
        BY <1>1, <2>2
      <4> QED BY <4>1
    <3> QED BY <1>1, <1>2, <3>0, <3>1 DEF Goto
  <2> QED BY <2>1, <2>2
<1>5. CASE RecheckCancel(c, w)
  BY <1>1, <1>2, <1>5 DEF RecheckCancel, Goto
<1>6. CASE Inspect(c, w)
  BY <1>1, <1>2, <1>6 DEF Inspect, Goto
<1>7. CASE InspectPanics(c, w)
  BY <1>1, <1>2, <1>7 DEF InspectPanics, Goto
<1>8. CASE FetchAdd(c, w)
  BY <1>1, <1>2, <1>8 DEF FetchAdd, Goto
<1>9. CASE StorePercentage(c, w)
  BY <1>1, <1>2, <1>9 DEF StorePercentage, Goto
<1> QED BY <1>3, <1>4, <1>5, <1>6, <1>7, <1>8, <1>9 DEF WorkerStep

\* A step of the calling thread preserves the slot invariant: the slot is taken
\* only when every other caller is idle, and it is given back only after every
\* spawned worker has exited.
LEMMA CallerSlot ==
  ASSUME SlotInv, NEW c \in Callers, CallerStart(c) \/ CallerStep(c)
  PROVE  NotSpawnedYet' /\ SlotExclusive' /\ HoldsItem'
<1>0. /\ pc \in [Callers -> CallerPC]
      /\ spawned \in [Callers -> 0 .. PoolCap]
      /\ workers \in [Callers -> 0 .. PoolCap]
      /\ wpc \in [Callers -> [Workers -> WorkerPC]]
      /\ item \in [Callers -> [Workers -> 0 .. MaxImages]]
      /\ slot \in BOOLEAN
  BY DEF SlotInv, TypeOK
<1> USE DEF SlotInv, SlotExclusive, NotSpawnedYet, HoldsItem, LiveWorker
<1>1. CASE Rejected(c)
  BY <1>1 DEF Rejected, workVars
<1>2. CASE Release(c)
  <2>1. /\ pc[c] = "release" /\ slot' = FALSE
        /\ pc' = [pc EXCEPT ![c] = "idle"]
        /\ UNCHANGED <<spawned, wpc, item>>
    BY <1>2 DEF Release, workVars
  <2> QED BY <1>0, <2>1
<1>3. CASE BeginDiscovery(c)
  <2>1. /\ slot = FALSE /\ slot' = TRUE
        /\ pc' = [pc EXCEPT ![c] = "discover"]
        /\ UNCHANGED <<spawned, wpc, item>>
    BY <1>3 DEF BeginDiscovery, AcquireActiveOperation, workVars
  <2> QED BY <1>0, <2>1
<1>4. CASE EndDiscovery(c)
  <2>1. /\ pc[c] = "discover" /\ slot' = FALSE
        /\ pc' = [pc EXCEPT ![c] = "idle"]
        /\ UNCHANGED <<spawned, wpc, item>>
    BY <1>4 DEF EndDiscovery, workVars
  <2> QED BY <1>0, <2>1
<1>5. CASE BeginBatch(c)
  <2>1. /\ slot = FALSE /\ slot' = TRUE
        /\ pc' = [pc EXCEPT ![c] = "reset"]
        /\ spawned' = [spawned EXCEPT ![c] = 0]
        /\ wpc' = [wpc EXCEPT ![c] = [w \in Workers |-> "none"]]
        /\ item' = [item EXCEPT ![c] = [w \in Workers |-> 0]]
    BY <1>5 DEF BeginBatch, AcquireActiveOperation
  <2>2. /\ \A w \in Workers : wpc'[c][w] = "none"
        /\ \A d \in Callers \ {c} :
             /\ wpc'[d] = wpc[d] /\ item'[d] = item[d]
             /\ spawned'[d] = spawned[d] /\ pc'[d] = pc[d]
        /\ pc'[c] = "reset"
    BY <1>0, <2>1
  <2>3. \A d \in Callers : pc[d] = "idle"
    BY <2>1
  <2>4. NotSpawnedYet'
    BY <2>2
  <2>5. HoldsItem'
    BY <2>2
  <2>6. SlotExclusive'
    BY <2>1, <2>2, <2>3
  <2> QED BY <2>4, <2>5, <2>6
<1>6. CASE ResetForBatch(c)
  <2>1. /\ pc[c] = "reset"
        /\ \/ pc' = pc
           \/ pc' = [pc EXCEPT ![c] = "spawn"]
           \/ pc' = [pc EXCEPT ![c] = "release"]
        /\ UNCHANGED <<slot, spawned, wpc, item>>
    BY <1>6 DEF ResetForBatch, workVars
  <2>2. PICK to \in {"reset", "spawn", "release"} :
          \A d \in Callers : pc'[d] = IF d = c THEN to ELSE pc[d]
    BY <1>0, <2>1
  <2>3. NotSpawnedYet' /\ HoldsItem'
    BY <2>1, <2>2
  <2>4. \A d \in Callers : pc'[d] = "idle" <=> pc[d] = "idle"
    BY <2>1, <2>2
  <2>5. SlotExclusive'
    BY <2>1, <2>2, <2>4
  <2> QED BY <2>3, <2>5
<1>7. CASE Spawn(c)
  <2>1. /\ pc[c] = "spawn" /\ spawned[c] < workers[c]
        /\ spawned' = [spawned EXCEPT ![c] = spawned[c] + 1]
        /\ wpc' = [wpc EXCEPT ![c][spawned[c] + 1] = "check"]
        /\ UNCHANGED <<slot, pc, item>>
    BY <1>7 DEF Spawn
  <2>2. spawned[c] + 1 \in Workers /\ spawned[c] \in Nat
    BY <1>0, <2>1, SMTT(30) DEF Workers
  <2>3. \A d \in Callers, w \in Workers :
          /\ wpc'[d][w] = IF d = c /\ w = spawned[c] + 1 THEN "check"
                                                        ELSE wpc[d][w]
          /\ spawned'[d] = IF d = c THEN spawned[c] + 1 ELSE spawned[d]
    BY <1>0, <2>1, <2>2
  <2>4. NotSpawnedYet'
    <3> SUFFICES ASSUME NEW d \in Callers, NEW w \in Workers,
                        pc'[d] \in {"reset", "spawn", "join_failed"},
                        w > spawned'[d]
                 PROVE  wpc'[d][w] = "none"
      OBVIOUS
    <3>1. w \in Nat
      BY DEF Workers
    <3>2. CASE d = c
      <4>1. w > spawned[c] /\ w # spawned[c] + 1
        BY <2>2, <2>3, <3>1, <3>2
      <4> QED BY <2>1, <2>3, <3>2, <4>1
    <3>3. CASE d # c
      BY <2>1, <2>3, <3>3
    <3> QED BY <3>2, <3>3
  <2>5. HoldsItem'
    BY <2>1, <2>3
  <2>6. SlotExclusive'
    BY <2>1, <2>3
  <2> QED BY <2>4, <2>5, <2>6
<1>8. CASE SpawnFails(c)
  <2>1. /\ pc[c] = "spawn"
        /\ pc' = [pc EXCEPT ![c] = "join_failed"]
        /\ UNCHANGED <<slot, spawned, wpc, item>>
    BY <1>8 DEF SpawnFails, workVars
  <2> QED BY <1>0, <2>1
<1>9. CASE Join(c) \/ JoinAfterFailure(c)
  <2>1. /\ pc[c] \in {"spawn", "join_failed"} /\ AllExited(c)
        /\ pc' = [pc EXCEPT ![c] = "release"]
        /\ UNCHANGED <<slot, spawned, wpc, item>>
    BY <1>9 DEF Join, JoinAfterFailure, workVars
  <2>2. \A w \in Workers : ~LiveWorker(c, w)
    <3> SUFFICES ASSUME NEW w \in Workers
                 PROVE  ~LiveWorker(c, w)
      OBVIOUS
    <3>1. CASE w > spawned[c]
      BY <2>1, <3>1
    <3>2. CASE ~(w > spawned[c])
      <4>1. w \in 1 .. spawned[c]
        BY <1>0, <3>2 DEF Workers
      <4> QED BY <2>1, <4>1 DEF AllExited
    <3> QED BY <3>1, <3>2
  <2>3. \A d \in Callers : pc'[d] = IF d = c THEN "release" ELSE pc[d]
    BY <1>0, <2>1
  <2>4. NotSpawnedYet' /\ HoldsItem'
    BY <2>1, <2>3
  <2>5. SlotExclusive'
    BY <2>1, <2>2, <2>3
  <2> QED BY <2>4, <2>5
<1> QED
  BY <1>1, <1>2, <1>3, <1>4, <1>5, <1>6, <1>7, <1>8, <1>9
     DEF CallerStart, CallerStep

-----------------------------------------------------------------------------
(* The theorems. *)

\* Every state inspect_batch reaches satisfies the inductive invariant.
THEOREM SlotInvariant == Spec => []SlotInv
<1>1. Init => SlotInv
  <2> SUFFICES ASSUME Init PROVE SlotInv
    OBVIOUS
  <2>1. TypeOK
    BY InitTypeOK
  <2>2. /\ pc = [c \in Callers |-> "idle"]
        /\ wpc = [c \in Callers |-> [w \in Workers |-> "none"]]
    BY DEF Init
  <2>3. slot = FALSE
    BY DEF Init
  <2>4. HoldsItem /\ NotSpawnedYet
    BY <2>2 DEF HoldsItem, NotSpawnedYet
  <2>5. SlotExclusive
    BY <2>2, <2>3 DEF SlotExclusive, LiveWorker
  <2> QED BY <2>1, <2>4, <2>5 DEF SlotInv
<1>2. SlotInv /\ [Next]_vars => SlotInv'
  <2> SUFFICES ASSUME SlotInv, [Next]_vars PROVE SlotInv'
    OBVIOUS
  <2>1. ASSUME NEW c \in Callers, CallerStart(c) \/ CallerStep(c)
        PROVE  SlotInv'
    <3>1. TypeOK'
      BY <2>1, CallerTypeOK DEF SlotInv
    <3>2. NotSpawnedYet' /\ SlotExclusive' /\ HoldsItem'
      BY <2>1, CallerSlot
    <3> QED BY <3>1, <3>2 DEF SlotInv
  <2>2. ASSUME NEW c \in Callers, NEW w \in Workers, WorkerStep(c, w)
        PROVE  SlotInv'
    <3>1. TypeOK'
      BY <2>2, WorkerTypeOK DEF SlotInv
    <3>2. NotSpawnedYet' /\ SlotExclusive'
      BY <2>2, WorkerSlot
    <3>3. HoldsItem'
      BY <2>2, WorkerHolds
    <3> QED BY <3>1, <3>2, <3>3 DEF SlotInv
  <2>3. CASE CancelStep \/ UNCHANGED vars
    <3>1. TypeOK'
      BY <2>3, CancelTypeOK DEF SlotInv
    <3>2. UNCHANGED <<slot, pc, spawned, wpc, item>>
      BY <2>3, CancelFrame
    <3> QED BY <3>1, <3>2 DEF SlotInv, HoldsItem, NotSpawnedYet, SlotExclusive,
                              LiveWorker
  <2> QED BY <2>1, <2>2, <2>3 DEF Next
<1> QED BY <1>1, <1>2, PTL DEF Spec

\* inspect_batch keeps its types, with any number of callers, pool sizes and
\* images.
THEOREM BatchTypeOK == Spec => []TypeOK
<1>1. SlotInv => TypeOK
  BY DEF SlotInv
<1> QED BY <1>1, SlotInvariant, PTL

\* The operation slot is exclusive and no worker outlives its inspect_batch call,
\* for every number of callers and every pool size.
THEOREM BatchSlotExclusive == Spec => []SlotExclusive
<1>1. SlotInv => SlotExclusive
  BY DEF SlotInv
<1> QED BY <1>1, SlotInvariant, PTL

-----------------------------------------------------------------------------
(* The images of a batch. *)

\* What hands hold and what is settled is a finite set.
LEMMA HeldFinite ==
  ASSUME TypeOK, NEW c \in Callers
  PROVE  IsFiniteSet(Held(c)) /\ Cardinality(Held(c)) \in Nat /\ Held(c) \subseteq 1 .. MaxImages
<1>1. Held(c) \subseteq 1 .. MaxImages
  BY DEF Held, TypeOK
<1>2. IsFiniteSet(1 .. MaxImages)
  BY BoundsAssumption, FS_Interval
<1> QED
  BY <1>1, <1>2, FS_Subset, FS_CardinalityType

\* The accounts of a caller depend on four of its rows.
Account(c) ==
  /\ Len(queue[c]) <= images[c]
  /\ \A k \in 1 .. Len(queue[c]) : queue[c][k] = Popped(c) + k
  /\ Held(c) \cup Settled(c) = 1 .. Popped(c)
  /\ Held(c) \cap Settled(c) = {}
  /\ \A v, w \in Workers : item[c][v] # 0 /\ item[c][v] = item[c][w] => v = w
  /\ Cardinality(Held(c)) + Len(outcomes[c]) = Popped(c)

\* A step that leaves those rows alone leaves the accounts alone.
LEMMA AccountKept ==
  ASSUME NEW c \in Callers, Account(c),
         images'[c] = images[c], queue'[c] = queue[c], item'[c] = item[c],
         outcomes'[c] = outcomes[c]
  PROVE  Account(c)'
<1>1. Popped(c)' = Popped(c) /\ Held(c)' = Held(c) /\ Settled(c)' = Settled(c)
  BY DEF Popped, Held, Settled
<1>2. /\ Len(queue'[c]) <= images'[c]
      /\ \A k \in 1 .. Len(queue'[c]) : queue'[c][k] = Popped(c)' + k
  BY <1>1 DEF Account
<1>3. /\ Held(c)' \cup Settled(c)' = 1 .. Popped(c)'
      /\ Held(c)' \cap Settled(c)' = {}
  BY <1>1 DEF Account
<1>4. \A v, w \in Workers : item'[c][v] # 0 /\ item'[c][v] = item'[c][w] => v = w
  BY DEF Account
<1>5. Cardinality(Held(c)') + Len(outcomes'[c]) = Popped(c)'
  BY <1>1 DEF Account
<1> QED BY <1>2, <1>3, <1>4, <1>5 DEF Account

\* A new batch: everything is queued, in order.
LEMMA AccountBegins ==
  ASSUME NEW c \in Callers, NEW n \in 0 .. MaxImages,
         images'[c] = n, queue'[c] = [i \in 1 .. n |-> i],
         item'[c] = [w \in Workers |-> 0], outcomes'[c] = <<>>
  PROVE  Account(c)'
<1>1. n \in Nat /\ Len(queue'[c]) = n
  BY BoundsAssumption
<1>2. Popped(c)' = 0 /\ Settled(c)' = {} /\ Held(c)' = {}
  BY <1>1 DEF Popped, Settled, Held
<1>3. Cardinality(Held(c)') = 0 /\ Len(outcomes'[c]) = 0
  BY <1>2, FS_EmptySet
<1> QED
  BY <1>1, <1>2, <1>3 DEF Account

\* A pop moves the first image of the queue into a hand that was empty.
LEMMA PopMoves ==
  ASSUME TypeOK, NEW c \in Callers, NEW w \in Workers, Account(c), queue[c] # <<>>,
         item[c][w] = 0,
         images'[c] = images[c], queue'[c] = Tail(queue[c]), outcomes'[c] = outcomes[c],
         item'[c] = [item[c] EXCEPT ![w] = Head(queue[c])]
  PROVE  /\ Popped(c) \in Nat /\ Popped(c)' = Popped(c) + 1 /\ Head(queue[c]) = Popped(c) + 1
         /\ Len(queue[c]) \in Nat /\ Len(queue[c]) >= 1
         /\ Len(queue'[c]) = Len(queue[c]) - 1
         /\ \A k \in 1 .. Len(queue'[c]) : queue'[c][k] = Head(queue[c]) + k
         /\ Head(queue[c]) \notin Held(c) /\ Head(queue[c]) \notin Settled(c)
         /\ Held(c)' = Held(c) \cup {Head(queue[c])} /\ Settled(c)' = Settled(c)
         /\ \A v \in Workers : item'[c][v] = IF v = w THEN Head(queue[c]) ELSE item[c][v]
<1> DEFINE t == Head(queue[c])
<1>1. queue[c] \in Seq(1 .. MaxImages) /\ images[c] \in Nat
      /\ item[c] \in [Workers -> 0 .. MaxImages]
  BY BoundsAssumption DEF TypeOK
<1>2. /\ Len(queue[c]) \in Nat /\ Len(queue[c]) >= 1 /\ Head(queue[c]) = queue[c][1]
      /\ Len(queue'[c]) = Len(queue[c]) - 1
      /\ \A k \in 1 .. Len(queue[c]) - 1 : queue'[c][k] = queue[c][k + 1]
  BY <1>1
<1>3. Popped(c) \in Nat /\ Popped(c)' = Popped(c) + 1 /\ t = Popped(c) + 1 /\ t # 0
  BY <1>1, <1>2, SMTT(30) DEF Account, Popped
<1>4. \A k \in 1 .. Len(queue'[c]) : queue'[c][k] = t + k
  <2> TAKE k \in 1 .. Len(queue'[c])
  <2>1. k + 1 \in 1 .. Len(queue[c]) /\ queue'[c][k] = queue[c][k + 1]
    BY <1>2
  <2>2. queue[c][k + 1] = Popped(c) + (k + 1)
    BY <2>1 DEF Account
  <2> QED BY <1>2, <1>3, <2>1, <2>2
<1>5. t \notin Held(c) /\ t \notin Settled(c)
  BY <1>3 DEF Account
<1>6. \A v \in Workers : item'[c][v] = IF v = w THEN t ELSE item[c][v]
  BY <1>1, <1>3
<1>7. Held(c)' = Held(c) \cup {t}
  BY <1>3, <1>6 DEF Held
<1>8. Settled(c)' = Settled(c)
  BY DEF Settled
<1> QED BY <1>2, <1>3, <1>4, <1>5, <1>6, <1>7, <1>8

\* The accounts balance after a pop.
LEMMA AccountPops ==
  ASSUME TypeOK, NEW c \in Callers, NEW w \in Workers, Account(c), queue[c] # <<>>,
         item[c][w] = 0,
         images'[c] = images[c], queue'[c] = Tail(queue[c]), outcomes'[c] = outcomes[c],
         item'[c] = [item[c] EXCEPT ![w] = Head(queue[c])]
  PROVE  Account(c)'
<1> DEFINE t == Head(queue[c])
<1>1. images[c] \in Nat /\ Len(outcomes[c]) \in Nat
  BY BoundsAssumption DEF TypeOK
<1>2. t = Popped(c) + 1
  BY PopMoves
<1>3. /\ Popped(c) \in Nat /\ Popped(c)' = t
      /\ Len(queue[c]) \in Nat /\ Len(queue'[c]) = Len(queue[c]) - 1
      /\ \A k \in 1 .. Len(queue'[c]) : queue'[c][k] = t + k
      /\ t \notin Held(c) /\ t \notin Settled(c)
      /\ Held(c)' = Held(c) \cup {t} /\ Settled(c)' = Settled(c)
      /\ \A v \in Workers : item'[c][v] = IF v = w THEN t ELSE item[c][v]
  BY <1>2, PopMoves
<1> HIDE DEF t
<1>4. Cardinality(Held(c)') = Cardinality(Held(c)) + 1 /\ Cardinality(Held(c)) \in Nat
  <2>1. IsFiniteSet(Held(c)) /\ Cardinality(Held(c)) \in Nat
    BY HeldFinite
  <2>2. Cardinality(Held(c) \cup {t}) = Cardinality(Held(c)) + 1
    BY <1>3, <2>1, FS_AddElement
  <2> QED BY <1>3, <2>1, <2>2
<1>5. \A u, v \in Workers : item'[c][u] # 0 /\ item'[c][u] = item'[c][v] => u = v
  <2>1. \A v \in Workers : item[c][v] # t
    BY <1>2, <1>3 DEF Held
  <2> QED BY <1>3, <2>1 DEF Account
<1>6. Held(c)' \cup Settled(c)' = 1 .. t
  <2>1. Held(c) \cup Settled(c) = 1 .. Popped(c)
    BY DEF Account
  <2> QED BY <1>2, <1>3, <2>1
<1>7. Held(c)' \cap Settled(c)' = {}
  BY <1>3 DEF Account
<1>8. Len(queue'[c]) <= images'[c]
  BY <1>1, <1>3 DEF Account
<1>9. Cardinality(Held(c)') + Len(outcomes'[c]) = t
  <2>1. Cardinality(Held(c)) + Len(outcomes[c]) = Popped(c)
    BY DEF Account
  <2> QED BY <1>1, <1>2, <1>3, <1>4, <2>1
<1> QED
  BY <1>3, <1>5, <1>6, <1>7, <1>8, <1>9 DEF Account

\* A push moves an image from a hand into the outcomes.
LEMMA PushMoves ==
  ASSUME TypeOK, NEW c \in Callers, NEW w \in Workers, Account(c), item[c][w] # 0,
         NEW o \in Outcome, o.index = item[c][w],
         outcomes'[c] = Append(outcomes[c], o),
         \A v \in Workers : item'[c][v] = IF v = w THEN 0 ELSE item[c][v]
  PROVE  /\ Len(outcomes[c]) \in Nat /\ Len(outcomes'[c]) = Len(outcomes[c]) + 1
         /\ Settled(c)' = Settled(c) \cup {item[c][w]}
         /\ Held(c)' = Held(c) \ {item[c][w]} /\ item[c][w] \in Held(c)
<1> DEFINE t == item[c][w]
<1>1. outcomes[c] \in Seq(Outcome) /\ Len(outcomes[c]) \in Nat
      /\ item[c] \in [Workers -> 0 .. MaxImages] /\ t \in 1 .. MaxImages
  BY SMTT(30) DEF TypeOK
<1>3. /\ Len(outcomes'[c]) = Len(outcomes[c]) + 1
      /\ DOMAIN outcomes'[c] = 1 .. Len(outcomes[c]) + 1
      /\ DOMAIN outcomes[c] = 1 .. Len(outcomes[c])
      /\ \A j \in 1 .. Len(outcomes[c]) : outcomes'[c][j] = outcomes[c][j]
      /\ outcomes'[c][Len(outcomes[c]) + 1].index = t
  BY <1>1
<1>4. Settled(c)' = Settled(c) \cup {t}
  <2>1. Settled(c) = {outcomes[c][j].index : j \in 1 .. Len(outcomes[c])}
    BY <1>3 DEF Settled
  <2>2. Settled(c)' = {outcomes'[c][j].index : j \in 1 .. Len(outcomes[c]) + 1}
    BY <1>3 DEF Settled
  <2> QED BY <1>1, <1>3, <2>1, <2>2
<1>6. Held(c)' = Held(c) \ {t} /\ t \in Held(c)
  <2>1. \A v \in Workers : item[c][v] = t => v = w
    BY <1>1 DEF Account
  <2>2. t \in Held(c)
    BY <1>1 DEF Held
  <2> QED BY <1>1, <2>1, <2>2 DEF Held
<1> QED BY <1>1, <1>3, <1>4, <1>6

\* The accounts balance after a push.
LEMMA AccountSettles ==
  ASSUME TypeOK, NEW c \in Callers, NEW w \in Workers, Account(c), item[c][w] # 0,
         NEW o \in Outcome, o.index = item[c][w],
         images'[c] = images[c], queue'[c] = queue[c],
         outcomes'[c] = Append(outcomes[c], o),
         \A v \in Workers : item'[c][v] = IF v = w THEN 0 ELSE item[c][v]
  PROVE  Account(c)'
<1> DEFINE t == item[c][w]
<1>1. /\ Len(outcomes[c]) \in Nat /\ Len(outcomes'[c]) = Len(outcomes[c]) + 1
      /\ Settled(c)' = Settled(c) \cup {t}
      /\ Held(c)' = Held(c) \ {t} /\ t \in Held(c)
  BY PushMoves
<1> HIDE DEF t
<1>2. Popped(c)' = Popped(c)
  BY DEF Popped
<1>3. Cardinality(Held(c)') = Cardinality(Held(c)) - 1 /\ Cardinality(Held(c)) \in Nat
  <2>1. IsFiniteSet(Held(c)) /\ Cardinality(Held(c)) \in Nat
    BY HeldFinite
  <2>2. Cardinality(Held(c) \ {t}) = Cardinality(Held(c)) - 1
    BY <1>1, <2>1, FS_RemoveElement
  <2> QED BY <1>1, <2>1, <2>2
<1>4. Held(c)' \cup Settled(c)' = 1 .. Popped(c) /\ Held(c)' \cap Settled(c)' = {}
  BY <1>1 DEF Account
<1>5. \A u, v \in Workers : item'[c][u] # 0 /\ item'[c][u] = item'[c][v] => u = v
  BY <1>1 DEF Account
<1>6. Cardinality(Held(c)') + Len(outcomes'[c]) = Popped(c)
  <2>1. Cardinality(Held(c)) + Len(outcomes[c]) = Popped(c)
    BY DEF Account
  <2> QED BY <1>1, <1>3, <2>1
<1>7. /\ Len(queue'[c]) <= images'[c]
      /\ \A j \in 1 .. Len(queue'[c]) : queue'[c][j] = Popped(c) + j
  BY DEF Account
<1> QED
  BY <1>2, <1>4, <1>5, <1>6, <1>7 DEF Account

\* A queue whose entries count up from p + 1 holds an interval.
LEMMA QueueSpan ==
  ASSUME NEW q, NEW p \in Nat, NEW m \in Nat, Len(q) \in Nat,
         DOMAIN q = 1 .. Len(q), p + Len(q) = m,
         \A k \in 1 .. Len(q) : q[k] = p + k
  PROVE  {q[k] : k \in DOMAIN q} = p + 1 .. m
<1>1. {q[k] : k \in DOMAIN q} \subseteq p + 1 .. m
  OBVIOUS
<1>2. ASSUME NEW i \in p + 1 .. m PROVE i \in {q[k] : k \in DOMAIN q}
  <2>1. i - p \in 1 .. Len(q) /\ p + (i - p) = i
    OBVIOUS
  <2>2. q[i - p] = i
    BY <2>1
  <2> QED BY <2>1, <2>2
<1> QED BY <1>1, <1>2

\* What the queue of a caller still holds.
LEMMA QueuedIs ==
  ASSUME NEW c \in Callers, TypeOK, Account(c)
  PROVE  /\ Queued(c) = Popped(c) + 1 .. images[c]
         /\ Popped(c) \in 0 .. images[c] /\ images[c] \in Nat
<1>1. /\ images[c] \in Nat /\ Len(queue[c]) \in Nat
      /\ DOMAIN queue[c] = 1 .. Len(queue[c])
  BY BoundsAssumption DEF TypeOK
<1>2. Popped(c) \in 0 .. images[c] /\ Popped(c) + Len(queue[c]) = images[c]
  BY <1>1 DEF Account, Popped
<1>3. \A k \in 1 .. Len(queue[c]) : queue[c][k] = Popped(c) + k
  BY DEF Account
<1>4. Queued(c) = Popped(c) + 1 .. images[c]
  <2>1. Popped(c) \in Nat
    BY <1>1, <1>2
  <2>2. {queue[c][k] : k \in DOMAIN queue[c]} = Popped(c) + 1 .. images[c]
    BY <1>1, <1>2, <1>3, <2>1, QueueSpan, ZenonT(30)
  <2> QED BY <2>2 DEF Queued
<1> QED BY <1>1, <1>2, <1>4

-----------------------------------------------------------------------------
(* Frames: what a step of one call leaves alone. *)

\* The rows of a caller that the accounts, the hands and the reset are about.
RowKept(d) ==
  /\ pc'[d] = pc[d] /\ field'[d] = field[d] /\ status'[d] = status[d]
  /\ images'[d] = images[d] /\ workers'[d] = workers[d] /\ spawned'[d] = spawned[d]
  /\ queue'[d] = queue[d] /\ outcomes'[d] = outcomes[d]
  /\ wpc'[d] = wpc[d] /\ item'[d] = item[d]

\* A step of a calling thread touches its own rows only.
LEMMA CallerTouchesItsRow ==
  ASSUME TypeOK, NEW c \in Callers, CallerStart(c) \/ CallerStep(c),
         NEW d \in Callers \ {c}
  PROVE  RowKept(d)
<1> USE DEF RowKept, workVars
<1>0. /\ pc \in [Callers -> CallerPC] /\ status \in [Callers -> Statuses]
      /\ field \in [Callers -> 1 .. Len(ResetOrder)]
      /\ images \in [Callers -> 0 .. MaxImages]
      /\ workers \in [Callers -> 0 .. PoolCap] /\ spawned \in [Callers -> 0 .. PoolCap]
      /\ queue \in [Callers -> Seq(1 .. MaxImages)]
      /\ outcomes \in [Callers -> Seq(Outcome)]
      /\ wpc \in [Callers -> [Workers -> WorkerPC]]
      /\ item \in [Callers -> [Workers -> 0 .. MaxImages]]
  BY DEF TypeOK
<1>1. CASE Rejected(c)
  BY <1>0, <1>1 DEF Rejected
<1>2. CASE Release(c)
  BY <1>0, <1>2 DEF Release
<1>3. CASE BeginDiscovery(c)
  BY <1>0, <1>3 DEF BeginDiscovery
<1>4. CASE EndDiscovery(c)
  BY <1>0, <1>4 DEF EndDiscovery
<1>5. CASE BeginBatch(c)
  <2>1. PICK n, m, q :
          /\ images' = [images EXCEPT ![c] = n]
          /\ workers' = [workers EXCEPT ![c] = m]
          /\ queue' = [queue EXCEPT ![c] = q]
    BY <1>5 DEF BeginBatch
  <2>2. images'[d] = images[d] /\ workers'[d] = workers[d] /\ queue'[d] = queue[d]
    BY <1>0, <2>1
  <2>3. /\ pc'[d] = pc[d] /\ field'[d] = field[d] /\ status'[d] = status[d]
        /\ spawned'[d] = spawned[d] /\ outcomes'[d] = outcomes[d]
        /\ wpc'[d] = wpc[d] /\ item'[d] = item[d]
    BY <1>0, <1>5 DEF BeginBatch
  <2> QED BY <2>2, <2>3
<1>6. CASE ResetForBatch(c)
  BY <1>0, <1>6 DEF ResetForBatch
<1>7. CASE Spawn(c)
  BY <1>0, <1>7 DEF Spawn
<1>8. CASE SpawnFails(c)
  BY <1>0, <1>8 DEF SpawnFails
<1>9. CASE Join(c)
  BY <1>0, <1>9 DEF Join
<1>10. CASE JoinAfterFailure(c)
  BY <1>0, <1>10 DEF JoinAfterFailure
<1> QED
  BY <1>1, <1>2, <1>3, <1>4, <1>5, <1>6, <1>7, <1>8, <1>9, <1>10
     DEF CallerStart, CallerStep

\* So does a step of one of its workers, which moves that worker alone and
\* leaves the calling thread's variables, the token and the plan as they are.
LEMMA WorkerTouchesItsRow ==
  ASSUME TypeOK, NEW c \in Callers, NEW w \in Workers, WorkerStep(c, w)
  PROVE  /\ UNCHANGED <<callVars, token, total>>
         /\ \A d \in Callers \ {c} : RowKept(d)
         /\ \A v \in Workers \ {w} :
              wpc'[c][v] = wpc[c][v] /\ item'[c][v] = item[c][v]
<1> USE DEF RowKept, callVars, progressVars, Goto
<1>0. /\ queue \in [Callers -> Seq(1 .. MaxImages)]
      /\ outcomes \in [Callers -> Seq(Outcome)]
      /\ wpc \in [Callers -> [Workers -> WorkerPC]]
      /\ item \in [Callers -> [Workers -> 0 .. MaxImages]]
  BY DEF TypeOK
<1>1. CASE CheckCancel(c, w)
  BY <1>0, <1>1 DEF CheckCancel
<1>2. CASE Pop(c, w)
  <2>1. CASE queue[c] = <<>>
    <3>1. /\ Goto(c, w, "exited") /\ UNCHANGED <<queue, item, outcomes, callVars, token, total>>
      BY <1>2, <2>1 DEF Pop
    <3> QED BY <1>0, <3>1
  <2>2. CASE queue[c] # <<>>
    <3>1. /\ item' = [item EXCEPT ![c][w] = Head(queue[c])]
          /\ queue' = [queue EXCEPT ![c] = Tail(queue[c])]
          /\ Goto(c, w, "recheck") /\ UNCHANGED <<outcomes, callVars, token, total>>
      BY <1>2, <2>2 DEF Pop
    <3> QED BY <1>0, <3>1
  <2> QED BY <2>1, <2>2
<1>3. CASE RecheckCancel(c, w)
  BY <1>0, <1>3 DEF RecheckCancel
<1>4. CASE Inspect(c, w)
  <2>1. PICK o : outcomes' = [outcomes EXCEPT ![c] = o]
    BY <1>4 DEF Inspect
  <2>2. /\ item' = [item EXCEPT ![c][w] = 0] /\ Goto(c, w, "increment")
        /\ UNCHANGED <<queue, callVars, token, total>>
    BY <1>4 DEF Inspect
  <2> QED BY <1>0, <2>1, <2>2
<1>5. CASE InspectPanics(c, w)
  BY <1>0, <1>5 DEF InspectPanics
<1>6. CASE FetchAdd(c, w)
  BY <1>0, <1>6 DEF FetchAdd
<1>7. CASE StorePercentage(c, w)
  BY <1>0, <1>7 DEF StorePercentage
<1> QED
  BY <1>1, <1>2, <1>3, <1>4, <1>5, <1>6, <1>7 DEF WorkerStep

\* The holder of the slot is the only caller that is not idle.
LEMMA OthersIdle ==
  ASSUME SlotExclusive, NEW c \in Callers, pc[c] # "idle" \/ ~slot
  PROVE  \A d \in Callers \ {c} : pc[d] = "idle"
BY DEF SlotExclusive
\* A calling thread hands out images and threads only when it begins a batch and
\* when it spawns; it never touches the token.
LEMMA CallerTokenKept ==
  ASSUME NEW c \in Callers, CallerStart(c) \/ CallerStep(c)
  PROVE  token' = token
BY DEF CallerStart, CallerStep, Rejected, Release, BeginDiscovery, EndDiscovery,
       BeginBatch, ResetForBatch, Spawn, SpawnFails, Join, JoinAfterFailure

\* Only the start of a batch and a spawn touch what the workers work on.
LEMMA CallerLeavesWork ==
  ASSUME NEW c \in Callers, CallerStart(c) \/ CallerStep(c), ~BeginBatch(c), ~Spawn(c)
  PROVE  UNCHANGED <<images, workers, spawned, queue, outcomes, wpc, item>>
<1> USE DEF workVars
<1>1. CASE Rejected(c)
  BY <1>1 DEF Rejected
<1>2. CASE Release(c)
  BY <1>2 DEF Release
<1>3. CASE BeginDiscovery(c)
  BY <1>3 DEF BeginDiscovery
<1>4. CASE EndDiscovery(c)
  BY <1>4 DEF EndDiscovery
<1>5. CASE ResetForBatch(c)
  BY <1>5 DEF ResetForBatch
<1>6. CASE SpawnFails(c)
  BY <1>6 DEF SpawnFails
<1>7. CASE Join(c)
  BY <1>7 DEF Join
<1>8. CASE JoinAfterFailure(c)
  BY <1>8 DEF JoinAfterFailure
<1> QED
  BY <1>1, <1>2, <1>3, <1>4, <1>5, <1>6, <1>7, <1>8 DEF CallerStart, CallerStep

\* What beginning a batch writes in the caller's rows.
LEMMA BeginRow ==
  ASSUME TypeOK, NEW c \in Callers, BeginBatch(c)
  PROVE  /\ slot = FALSE /\ pc[c] = "idle" /\ pc'[c] = "reset" /\ field'[c] = 1
         /\ spawned'[c] = 0 /\ status'[c] = "none" /\ outcomes'[c] = <<>>
         /\ wpc'[c] = [w \in Workers |-> "none"] /\ item'[c] = [w \in Workers |-> 0]
         /\ \E n \in 0 .. MaxImages, requested \in WorkerRequests :
              /\ images'[c] = n /\ queue'[c] = [k \in 1 .. n |-> k]
              /\ workers'[c] = PoolSizeOf(requested, n, PoolCap)
<1>1. /\ slot = FALSE /\ pc[c] = "idle" /\ pc'[c] = "reset" /\ field'[c] = 1
      /\ spawned'[c] = 0 /\ status'[c] = "none" /\ outcomes'[c] = <<>>
      /\ wpc'[c] = [w \in Workers |-> "none"] /\ item'[c] = [w \in Workers |-> 0]
  BY DEF BeginBatch, AcquireActiveOperation, TypeOK
<1>2. PICK n \in 0 .. MaxImages, requested \in WorkerRequests :
        /\ images' = [images EXCEPT ![c] = n]
        /\ workers' = [workers EXCEPT ![c] = PoolSizeOf(requested, n, PoolCap)]
        /\ queue' = [queue EXCEPT ![c] = [i \in 1 .. n |-> i]]
  BY DEF BeginBatch
<1>3. /\ images'[c] = n /\ queue'[c] = [k \in 1 .. n |-> k]
      /\ workers'[c] = PoolSizeOf(requested, n, PoolCap)
  BY <1>2 DEF TypeOK
<1> QED BY <1>1, <1>3

\* What spawning writes: one more thread, at the top of its loop.
LEMMA SpawnRow ==
  ASSUME SlotInv, NEW c \in Callers, Spawn(c)
  PROVE  /\ pc[c] = "spawn" /\ spawned[c] < workers[c] /\ spawned[c] + 1 \in Workers
         /\ wpc[c][spawned[c] + 1] = "none" /\ spawned'[c] = spawned[c] + 1
         /\ \A w \in Workers :
              wpc'[c][w] = IF w = spawned[c] + 1 THEN "check" ELSE wpc[c][w]
         /\ UNCHANGED <<pc, field, status, images, workers, queue, outcomes, item,
                        completed, total>>
<1>1. /\ pc[c] = "spawn" /\ spawned[c] < workers[c]
      /\ spawned' = [spawned EXCEPT ![c] = spawned[c] + 1]
      /\ wpc' = [wpc EXCEPT ![c][spawned[c] + 1] = "check"]
      /\ UNCHANGED <<pc, field, status, images, workers, queue, outcomes, item,
                     completed, total>>
  BY DEF Spawn, progressVars
<1>2. /\ spawned[c] \in Nat /\ workers[c] \in 0 .. PoolCap
      /\ spawned \in [Callers -> 0 .. PoolCap]
      /\ wpc \in [Callers -> [Workers -> WorkerPC]]
  BY DEF SlotInv, TypeOK
<1>3. spawned[c] + 1 \in Workers /\ spawned[c] + 1 > spawned[c]
  BY <1>1, <1>2, PoolCapAssumption DEF Workers
<1>4. wpc[c][spawned[c] + 1] = "none"
  BY <1>1, <1>3 DEF SlotInv, NotSpawnedYet
<1>5. \A w \in Workers :
        wpc'[c][w] = IF w = spawned[c] + 1 THEN "check" ELSE wpc[c][w]
  BY <1>1, <1>2, <1>3
<1>6. spawned'[c] = spawned[c] + 1
  BY <1>1, <1>2
<1> QED BY <1>1, <1>3, <1>4, <1>5, <1>6

-----------------------------------------------------------------------------
(* The hands. *)

Hand(c, w) ==
  /\ wpc[c][w] \in {"none", "check", "pop", "increment", "publish"} => item[c][w] = 0
  /\ wpc[c][w] = "exited" /\ item[c][w] # 0 => token \/ item[c][w] \in PanicImages
  /\ wpc[c][w] = "exited" /\ item[c][w] = 0 => token \/ queue[c] = <<>>

\* A hand that does not move stays right when the token may have been set and the
\* queue may have lost an image.
LEMMA HandKept ==
  ASSUME NEW c \in Callers, NEW w \in Workers, Hand(c, w),
         wpc'[c][w] = wpc[c][w], item'[c][w] = item[c][w],
         token => token', queue[c] = <<>> => queue'[c] = <<>>
  PROVE  Hand(c, w)'
BY DEF Hand

\* A step of a calling thread leaves every hand right.
LEMMA CallerHands ==
  ASSUME SlotInv, HandsInv, NEW c \in Callers, CallerStart(c) \/ CallerStep(c)
  PROVE  HandsInv'
<1> SUFFICES ASSUME NEW d \in Callers, NEW v \in Workers PROVE Hand(d, v)'
  BY DEF HandsInv, Hand
<1>0. Hand(d, v) /\ token' = token /\ TypeOK
  BY CallerTokenKept DEF HandsInv, Hand, SlotInv
<1>1. CASE d # c
  <2>1. RowKept(d)
    BY <1>0, <1>1, CallerTouchesItsRow
  <2> QED BY <1>0, <2>1, HandKept DEF RowKept
<1>2. CASE d = c /\ BeginBatch(c)
  <2>1. wpc'[c] = [u \in Workers |-> "none"] /\ item'[c] = [u \in Workers |-> 0]
    BY <1>0, <1>2, BeginRow
  <2> QED BY <1>2, <2>1 DEF Hand
<1>3. CASE d = c /\ Spawn(c)
  <2>1. /\ item' = item /\ queue' = queue /\ wpc[c][spawned[c] + 1] = "none"
        /\ wpc'[c][v] = IF v = spawned[c] + 1 THEN "check" ELSE wpc[c][v]
    BY <1>3, SpawnRow
  <2>2. CASE v = spawned[c] + 1
    BY <1>0, <1>3, <2>1, <2>2 DEF Hand
  <2>3. CASE v # spawned[c] + 1
    BY <1>0, <1>3, <2>1, <2>3, HandKept
  <2> QED BY <2>2, <2>3
<1>4. CASE d = c /\ ~BeginBatch(c) /\ ~Spawn(c)
  <2>1. UNCHANGED <<queue, wpc, item>>
    BY <1>4, CallerLeavesWork
  <2> QED BY <1>0, <2>1, HandKept
<1> QED BY <1>1, <1>2, <1>3, <1>4

\* So does a step of a worker.
LEMMA WorkerHands ==
  ASSUME SlotInv, HandsInv, NEW c \in Callers, NEW w \in Workers, WorkerStep(c, w)
  PROVE  HandsInv'
<1> SUFFICES ASSUME NEW d \in Callers, NEW v \in Workers PROVE Hand(d, v)'
  BY DEF HandsInv, Hand
<1>0. /\ Hand(d, v) /\ Hand(c, w) /\ token' = token /\ TypeOK
      /\ wpc[c][w] \in {"recheck", "inspect"} => item[c][w] # 0
  BY WorkerTouchesItsRow DEF HandsInv, Hand, SlotInv, HoldsItem
<1>1. CASE d # c
  <2>1. RowKept(d)
    BY <1>0, <1>1, WorkerTouchesItsRow
  <2> QED BY <1>0, <2>1, HandKept DEF RowKept
<1>2. CASE d = c /\ v # w
  <2>1. wpc'[c][v] = wpc[c][v] /\ item'[c][v] = item[c][v]
    BY <1>0, <1>2, WorkerTouchesItsRow
  <2>2. queue[c] = <<>> => queue'[c] = <<>>
    <3>1. \/ queue' = queue
          \/ queue[c] # <<>>
      BY DEF WorkerStep, CheckCancel, Pop, RecheckCancel, Inspect, InspectPanics,
             FetchAdd, StorePercentage
    <3> QED BY <3>1
  <2> QED BY <1>0, <1>2, <2>1, <2>2, HandKept
<1>3. CASE d = c /\ v = w
  <2>0. /\ wpc \in [Callers -> [Workers -> WorkerPC]]
        /\ item \in [Callers -> [Workers -> 0 .. MaxImages]]
        /\ queue \in [Callers -> Seq(1 .. MaxImages)]
    BY <1>0 DEF TypeOK
  <2> USE DEF Hand, Goto
  <2>1. CASE CheckCancel(c, w)
    BY <1>0, <1>3, <2>0, <2>1 DEF CheckCancel
  <2>2. CASE Pop(c, w)
    <3>1. CASE queue[c] = <<>>
      BY <1>0, <1>3, <2>0, <2>2, <3>1 DEF Pop
    <3>2. CASE queue[c] # <<>>
      <4>1. wpc'[c][w] = "recheck"
        BY <2>0, <2>2, <3>2 DEF Pop
      <4> QED BY <1>3, <4>1
    <3> QED BY <3>1, <3>2
  <2>3. CASE RecheckCancel(c, w)
    BY <1>0, <1>3, <2>0, <2>3 DEF RecheckCancel
  <2>4. CASE Inspect(c, w)
    <3>1. wpc'[c][w] = "increment" /\ item'[c][w] = 0
      BY <2>0, <2>4 DEF Inspect
    <3> QED BY <1>3, <3>1
  <2>5. CASE InspectPanics(c, w)
    BY <1>0, <1>3, <2>0, <2>5 DEF InspectPanics
  <2>6. CASE FetchAdd(c, w)
    BY <1>0, <1>3, <2>0, <2>6 DEF FetchAdd
  <2>7. CASE StorePercentage(c, w)
    BY <1>0, <1>3, <2>0, <2>7 DEF StorePercentage
  <2> QED
    BY <2>1, <2>2, <2>3, <2>4, <2>5, <2>6, <2>7 DEF WorkerStep
<1> QED BY <1>1, <1>2, <1>3
-----------------------------------------------------------------------------
(* The accounts. *)

\* A calling thread's step keeps the accounts: it opens them with the batch.
LEMMA CallerAccounts ==
  ASSUME SlotInv, AccountInv, NEW c \in Callers, CallerStart(c) \/ CallerStep(c)
  PROVE  AccountInv'
<1> SUFFICES ASSUME NEW d \in Callers PROVE Account(d)'
  BY DEF AccountInv, Account
<1>0. Account(d) /\ TypeOK
  BY DEF AccountInv, Account, SlotInv
<1>1. CASE d # c
  <2>1. RowKept(d)
    BY <1>0, <1>1, CallerTouchesItsRow
  <2> QED BY <1>0, <2>1, AccountKept DEF RowKept
<1>2. CASE d = c /\ BeginBatch(c)
  <2>1. PICK n \in 0 .. MaxImages :
          images'[c] = n /\ queue'[c] = [k \in 1 .. n |-> k]
    BY <1>0, <1>2, BeginRow
  <2>2. outcomes'[c] = <<>> /\ item'[c] = [w \in Workers |-> 0]
    BY <1>0, <1>2, BeginRow
  <2> QED BY <1>2, <2>1, <2>2, AccountBegins
<1>3. CASE d = c /\ ~BeginBatch(c)
  <2>1. UNCHANGED <<images, queue, outcomes, item>>
    BY <1>3, CallerLeavesWork, SpawnRow
  <2> QED BY <1>0, <2>1, AccountKept
<1> QED BY <1>1, <1>2, <1>3

\* A worker's step keeps the accounts: a pop moves one image into its hand, which
\* is empty, and a push moves it on.
LEMMA WorkerAccounts ==
  ASSUME SlotInv, HandsInv, AccountInv, NEW c \in Callers, NEW w \in Workers,
         WorkerStep(c, w)
  PROVE  AccountInv'
<1> SUFFICES ASSUME NEW d \in Callers PROVE Account(d)'
  BY DEF AccountInv, Account
<1>0. Account(d) /\ Account(c) /\ TypeOK /\ Hand(c, w)
  BY DEF AccountInv, Account, SlotInv, HandsInv, Hand
<1>1. CASE d # c
  <2>1. RowKept(d)
    BY <1>0, <1>1, WorkerTouchesItsRow
  <2> QED BY <1>0, <2>1, AccountKept DEF RowKept
<1>2. CASE d = c /\ Pop(c, w) /\ queue[c] # <<>>
  <2>1. item[c][w] = 0
    BY <1>0, <1>2 DEF Pop, Hand
  <2>2. /\ item' = [item EXCEPT ![c][w] = Head(queue[c])]
        /\ queue' = [queue EXCEPT ![c] = Tail(queue[c])]
        /\ outcomes' = outcomes /\ images' = images
    BY <1>2 DEF Pop, callVars
  <2>3. /\ item'[c] = [item[c] EXCEPT ![w] = Head(queue[c])]
        /\ queue'[c] = Tail(queue[c])
    BY <1>0, <2>2 DEF TypeOK
  <2> QED BY <1>0, <1>2, <2>1, <2>2, <2>3, AccountPops
<1>3. CASE d = c /\ Inspect(c, w)
  <2>1. item[c][w] # 0
    BY <1>3 DEF Inspect, SlotInv, HoldsItem
  <2>2. PICK k \in Kinds :
          outcomes' = [outcomes EXCEPT
            ![c] = Append(outcomes[c], [index |-> item[c][w], kind |-> k])]
    BY <1>3 DEF Inspect
  <2>3. /\ item' = [item EXCEPT ![c][w] = 0] /\ queue' = queue /\ images' = images
    BY <1>3 DEF Inspect, callVars
  <2>4. /\ outcomes'[c] = Append(outcomes[c], [index |-> item[c][w], kind |-> k])
        /\ \A v \in Workers : item'[c][v] = IF v = w THEN 0 ELSE item[c][v]
    BY <1>0, <2>2, <2>3 DEF TypeOK
  <2>5. item[c][w] \in 1 .. MaxImages
    <3>1. item \in [Callers -> [Workers -> 0 .. MaxImages]]
      BY <1>0 DEF TypeOK
    <3>2. item[c][w] \in 0 .. MaxImages
      BY <3>1
    <3> QED BY <2>1, <3>2
  <2>6. [index |-> item[c][w], kind |-> k] \in Outcome
    BY <2>5 DEF Outcome
  <2>7. PICK o \in Outcome :
          o.index = item[c][w] /\ outcomes'[c] = Append(outcomes[c], o)
    BY <2>4, <2>6
  <2> QED BY <1>0, <1>3, <2>1, <2>3, <2>4, <2>7, AccountSettles
<1>4. CASE d = c /\ ~(Pop(c, w) /\ queue[c] # <<>>) /\ ~Inspect(c, w)
  <2>1. UNCHANGED <<images, queue, outcomes, item>>
    BY <1>4 DEF WorkerStep, CheckCancel, Pop, RecheckCancel, InspectPanics,
                FetchAdd, StorePercentage, callVars
  <2> QED BY <1>0, <2>1, AccountKept
<1> QED BY <1>1, <1>2, <1>3, <1>4

-----------------------------------------------------------------------------
(* The reset and the counters. *)

\* A pool has a worker exactly when its batch has an image.
LEMMA PoolNotEmpty ==
  ASSUME NEW requested \in Nat, NEW n \in Nat
  PROVE  n > 0 <=> PoolSizeOf(requested, n, PoolCap) > 0
BY PoolCapAssumption DEF PoolSizeOf

Begun(c) ==
  /\ pc[c] = "reset" =>
       /\ spawned[c] = 0 /\ outcomes[c] = <<>>
       /\ field[c] > 1 => completed = 0
  /\ images[c] > 0 <=> workers[c] > 0
  /\ pc[c] \in {"spawn", "join_failed"} => images[c] > 0
  /\ Returned(c) => spawned[c] = workers[c] /\ \A w \in 1 .. workers[c] :
                                                  wpc[c][w] = "exited"

\* A call that does not hold the slot is not concerned by what its holder does.
LEMMA BegunElsewhere ==
  ASSUME NEW d \in Callers, Begun(d), RowKept(d), pc[d] = "idle" \/ completed' = completed
  PROVE  Begun(d)'
BY DEF Begun, RowKept, Returned

\* A step of a calling thread keeps what a reset owes the batch.
LEMMA CallerResets ==
  ASSUME SlotInv, ResetInv, NEW c \in Callers, CallerStart(c) \/ CallerStep(c)
  PROVE  ResetInv'
<1> SUFFICES ASSUME NEW d \in Callers PROVE Begun(d)'
  BY DEF ResetInv, Begun
<1>0. Begun(d) /\ TypeOK /\ SlotExclusive
  BY DEF ResetInv, Begun, SlotInv
<1>1. CASE d # c
  <2>1. RowKept(d)
    BY <1>0, <1>1, CallerTouchesItsRow
  <2>2. pc[d] = "idle" \/ completed' = completed
    <3>1. CASE ResetForBatch(c)
      <4>1. pc[c] # "idle"
        BY <3>1 DEF ResetForBatch
      <4> QED BY <1>0, <1>1, <4>1, OthersIdle
    <3>2. CASE ~ResetForBatch(c)
      BY <3>2 DEF CallerStart, CallerStep, Rejected, Release, BeginDiscovery,
                  EndDiscovery, BeginBatch, Spawn, SpawnFails, Join,
                  JoinAfterFailure, progressVars
    <3> QED BY <3>1, <3>2
  <2> QED BY <1>0, <2>1, <2>2, BegunElsewhere
<1>2. CASE d = c /\ BeginBatch(c)
  <2>1. PICK n \in 0 .. MaxImages, requested \in WorkerRequests :
          images'[c] = n /\ workers'[c] = PoolSizeOf(requested, n, PoolCap)
    <3>1. BeginBatch(c) /\ TypeOK
      BY <1>0, <1>2
    <3>2. \E n \in 0 .. MaxImages, requested \in WorkerRequests :
            /\ images'[c] = n /\ queue'[c] = [k \in 1 .. n |-> k]
            /\ workers'[c] = PoolSizeOf(requested, n, PoolCap)
      BY <3>1, BeginRow, Zenon
    <3> QED BY <3>2, Zenon
  <2>2. n > 0 <=> PoolSizeOf(requested, n, PoolCap) > 0
    BY PoolNotEmpty, BoundsAssumption, RequestsAssumption
  <2>3. /\ pc'[c] = "reset" /\ field'[c] = 1 /\ spawned'[c] = 0
        /\ outcomes'[c] = <<>>
    BY <1>0, <1>2, BeginRow
  <2> QED BY <1>2, <2>1, <2>2, <2>3 DEF Begun, Returned
<1>3. CASE d = c /\ Spawn(c)
  <2>1. /\ pc[c] = "spawn" /\ UNCHANGED <<pc, images, workers>>
    BY <1>3, SpawnRow
  <2> QED BY <1>0, <1>3, <2>1 DEF Begun, Returned
<1>4. CASE d = c /\ ~BeginBatch(c) /\ ~Spawn(c)
  <2>0. UNCHANGED <<images, workers, spawned, outcomes, wpc>>
    BY <1>4, CallerLeavesWork
  <2>1. CASE ResetForBatch(c)
    <3>1. /\ pc[c] = "reset" /\ field[c] \in 1 .. 4 /\ spawned[c] = 0
          /\ outcomes[c] = <<>> /\ images[c] \in Nat
          /\ pc \in [Callers -> CallerPC] /\ status \in [Callers -> Statuses]
      BY <1>0, <1>4, <2>1, ResetOrderLen, BoundsAssumption DEF Begun, TypeOK, ResetForBatch
    <3>2. completed' = 0
      <4>1. completed' = IF ResetOrder[field[c]] = "completed_tasks" THEN 0 ELSE completed
        BY <2>1 DEF ResetForBatch
      <4>2. CASE field[c] = 1
        BY <4>1, <4>2 DEF ResetOrder
      <4>3. CASE field[c] > 1
        BY <1>0, <1>4, <3>1, <4>1, <4>3 DEF Begun
      <4> QED BY <3>1, <4>2, <4>3
    <3>3. CASE field[c] < Len(ResetOrder)
      <4>1. pc' = pc
        BY <2>1, <3>3 DEF ResetForBatch
      <4> QED BY <1>0, <1>4, <2>0, <3>1, <3>2, <4>1 DEF Begun, Returned
    <3>4. CASE field[c] = Len(ResetOrder) /\ images[c] > 0
      <4>1. pc'[c] = "spawn"
        BY <2>1, <3>1, <3>4 DEF ResetForBatch
      <4> QED BY <1>0, <1>4, <2>0, <3>4, <4>1 DEF Begun, Returned
    <3>5. CASE field[c] = Len(ResetOrder) /\ images[c] = 0
      <4>1. pc'[c] = "release"
        BY <2>1, <3>1, <3>5 DEF ResetForBatch
      <4>2. workers[c] = 0 /\ 1 .. workers[c] = {}
        BY <1>0, <1>4, <3>5 DEF Begun, TypeOK
      <4> QED BY <1>0, <1>4, <2>0, <3>1, <3>5, <4>1, <4>2 DEF Begun, Returned
    <3> QED BY <3>1, <3>3, <3>4, <3>5, ResetOrderLen
  <2>2. CASE Rejected(c)
    <3>1. UNCHANGED <<pc, field, status, completed>>
      BY <2>2 DEF Rejected, progressVars
    <3> QED BY <1>0, <1>4, <2>0, <3>1 DEF Begun, Returned
  <2>3. CASE Release(c) \/ BeginDiscovery(c) \/ EndDiscovery(c)
    <3>1. pc'[c] \in {"idle", "discover"}
      BY <1>0, <2>3 DEF Release, BeginDiscovery, EndDiscovery, TypeOK
    <3> QED BY <1>0, <1>4, <2>0, <3>1 DEF Begun, Returned
  <2>4. CASE SpawnFails(c)
    <3>1. pc[c] = "spawn" /\ pc'[c] = "join_failed"
      BY <1>0, <2>4 DEF SpawnFails, TypeOK
    <3> QED BY <1>0, <1>4, <2>0, <3>1 DEF Begun, Returned
  <2>5. CASE Join(c)
    <3>1. /\ pc'[c] = "release" /\ spawned[c] = workers[c]
          /\ \A w \in 1 .. spawned[c] : wpc[c][w] = "exited"
      BY <1>0, <2>5 DEF Join, AllExited, TypeOK
    <3> QED BY <1>0, <1>4, <2>0, <3>1 DEF Begun, Returned
  <2>6. CASE JoinAfterFailure(c)
    <3>1. pc'[c] = "release" /\ status'[c] = "io_error"
      BY <1>0, <2>6 DEF JoinAfterFailure, TypeOK
    <3> QED BY <1>0, <1>4, <2>0, <3>1 DEF Begun, Returned
  <2> QED BY <1>4, <2>1, <2>2, <2>3, <2>4, <2>5, <2>6 DEF CallerStart, CallerStep
<1> QED BY <1>1, <1>2, <1>3, <1>4

\* A step of a worker does not disturb a reset.
LEMMA WorkerResets ==
  ASSUME SlotInv, ResetInv, NEW c \in Callers, NEW w \in Workers, WorkerStep(c, w)
  PROVE  ResetInv'
<1> SUFFICES ASSUME NEW d \in Callers PROVE Begun(d)'
  BY DEF ResetInv, Begun
<1>0. Begun(d) /\ TypeOK /\ SlotExclusive
  BY DEF ResetInv, Begun, SlotInv
<1>1. pc[c] \in {"spawn", "join_failed"}
  BY <1>0, WorkerFrame DEF SlotExclusive
<1>2. CASE d # c
  <2>1. RowKept(d)
    BY <1>0, <1>2, WorkerTouchesItsRow
  <2>2. pc[d] = "idle"
    BY <1>0, <1>1, <1>2, OthersIdle
  <2> QED BY <1>0, <2>1, <2>2, BegunElsewhere
<1>3. CASE d = c
  <2>1. UNCHANGED <<pc, images, workers>>
    BY <1>0, WorkerTouchesItsRow DEF callVars
  <2> QED BY <1>0, <1>1, <1>3, <2>1 DEF Begun, Returned
<1> QED BY <1>2, <1>3

\* The workers between their push and their fetch_add.
Adding(c) == {w \in Workers : wpc[c][w] = "increment"}

\* The workers between their push and their fetch_add can be counted.
LEMMA AddingFinite ==
  ASSUME NEW c \in Callers
  PROVE  IsFiniteSet(Adding(c)) /\ Cardinality(Adding(c)) \in Nat
<1>1. IsFiniteSet(Workers)
  BY PoolCapAssumption, FS_Interval DEF Workers
<1>2. Adding(c) \subseteq Workers
  BY DEF Adding
<1> QED BY <1>1, <1>2, FS_Subset, FS_CardinalityType

Counted(c) ==
  /\ total = images[c]
  /\ completed + Cardinality(Adding(c)) = Len(outcomes[c])

\* A step of a calling thread keeps the progress exact.
LEMMA CallerCounts ==
  ASSUME SlotInv, ResetInv, ProgressExact, NEW c \in Callers,
         CallerStart(c) \/ CallerStep(c)
  PROVE  ProgressExact'
<1> SUFFICES ASSUME NEW d \in Callers, InBatch(d)' PROVE Counted(d)'
  BY DEF ProgressExact, Counted, Adding
<1>0. (InBatch(d) => Counted(d)) /\ Begun(c) /\ TypeOK /\ SlotExclusive
  BY DEF ProgressExact, Counted, Adding, SlotInv, ResetInv, Begun
<1>1. CASE d # c
  <2>1. RowKept(d)
    BY <1>0, <1>1, CallerTouchesItsRow
  <2>2. InBatch(d) /\ pc[d] # "idle"
    BY <2>1 DEF RowKept, InBatch
  <2>3. pc[c] = "idle" /\ slot
    BY <1>0, <1>1, <2>2, OthersIdle DEF SlotExclusive
  <2>4. Rejected(c)
    BY <2>3 DEF CallerStart, CallerStep, BeginBatch, BeginDiscovery,
                AcquireActiveOperation, Release, EndDiscovery, ResetForBatch, Spawn,
                SpawnFails, Join, JoinAfterFailure
  <2>5. UNCHANGED <<total, completed>>
    BY <2>4 DEF Rejected, progressVars
  <2> QED BY <1>0, <2>1, <2>2, <2>5 DEF RowKept, Counted, Adding
<1>2. CASE d = c /\ BeginBatch(c)
  BY <1>0, <1>2, BeginRow DEF InBatch
<1>3. CASE d = c /\ Spawn(c)
  <2>1. /\ InBatch(c) /\ UNCHANGED <<images, outcomes, completed, total>>
    BY <1>3, SpawnRow DEF InBatch
  <2>2. Adding(c)' = Adding(c)
    BY <1>3, SpawnRow DEF Adding
  <2> QED BY <1>0, <1>3, <2>1, <2>2 DEF Counted
<1>4. CASE d = c /\ ~BeginBatch(c) /\ ~Spawn(c)
  <2>0. /\ UNCHANGED <<images, workers, spawned, outcomes, wpc>>
        /\ Adding(c)' = Adding(c)
    BY <1>4, CallerLeavesWork DEF Adding
  <2>1. CASE ResetForBatch(c)
    <3>1. /\ pc[c] = "reset" /\ field[c] \in 1 .. 4 /\ spawned[c] = 0
          /\ outcomes[c] = <<>> /\ completed \in Nat
      BY <1>0, <2>1, ResetOrderLen DEF Begun, TypeOK, ResetForBatch
    <3>2. field[c] = 4
      <4>1. CASE field[c] < Len(ResetOrder)
        <5>1. pc' = pc
          BY <2>1, <4>1 DEF ResetForBatch
        <5> QED BY <1>4, <3>1, <5>1 DEF InBatch
      <4> QED BY <3>1, <4>1, ResetOrderLen
    <3>3. ResetOrder[field[c]] = "total_tasks"
      BY <3>2 DEF ResetOrder
    <3>4. total' = images[c] /\ completed' = completed
      BY <2>1, <3>3 DEF ResetForBatch
    <3>5. completed = 0
      BY <1>0, <3>1, <3>2 DEF Begun
    <3>6. Adding(c) = {}
      <4>1. \A w \in Workers : w > spawned[c]
        BY <3>1 DEF Workers
      <4>2. \A w \in Workers : wpc[c][w] = "none"
        BY <3>1, <4>1 DEF SlotInv, NotSpawnedYet
      <4> QED BY <4>2 DEF Adding
    <3>7. Cardinality(Adding(c)) = 0 /\ Len(outcomes[c]) = 0
      BY <3>1, <3>6, FS_EmptySet
    <3> QED BY <1>4, <2>0, <3>4, <3>5, <3>7 DEF Counted
  <2>2. CASE Rejected(c) \/ SpawnFails(c) \/ Join(c) \/ JoinAfterFailure(c)
    <3>1. InBatch(c) /\ UNCHANGED <<completed, total>>
      BY <1>4, <2>2 DEF Rejected, SpawnFails, Join, JoinAfterFailure, InBatch, progressVars
    <3> QED BY <1>0, <1>4, <2>0, <3>1 DEF Counted
  <2>3. CASE Release(c) \/ BeginDiscovery(c) \/ EndDiscovery(c)
    <3>1. pc'[c] \in {"idle", "discover"}
      BY <1>0, <2>3 DEF Release, BeginDiscovery, EndDiscovery, TypeOK
    <3> QED BY <1>4, <3>1 DEF InBatch
  <2> QED BY <1>4, <2>1, <2>2, <2>3 DEF CallerStart, CallerStep
<1> QED BY <1>1, <1>2, <1>3, <1>4
\* A worker's step keeps the count: its push adds an outcome and puts it among
\* those who have still to add; its fetch_add takes it out again.
LEMMA WorkerCounts ==
  ASSUME SlotInv, ProgressExact, NEW c \in Callers, NEW w \in Workers, WorkerStep(c, w)
  PROVE  ProgressExact'
<1> SUFFICES ASSUME NEW d \in Callers, InBatch(d)' PROVE Counted(d)'
  BY DEF ProgressExact, Counted, Adding
<1>0. (InBatch(d) => Counted(d)) /\ TypeOK /\ SlotExclusive
  BY DEF ProgressExact, Counted, Adding, SlotInv
<1>1. pc[c] \in {"spawn", "join_failed"}
  BY <1>0, WorkerFrame DEF SlotExclusive
<1>2. UNCHANGED <<pc, images, total>>
  BY <1>0, WorkerTouchesItsRow DEF callVars
<1>3. d = c
  BY <1>0, <1>1, <1>2, OthersIdle DEF InBatch
<1>4. /\ total = images[c] /\ completed + Cardinality(Adding(c)) = Len(outcomes[c])
  BY <1>0, <1>2, <1>3 DEF InBatch, Counted
<1>5. /\ wpc \in [Callers -> [Workers -> WorkerPC]] /\ completed \in Nat
      /\ outcomes \in [Callers -> Seq(Outcome)] /\ Len(outcomes[c]) \in Nat
  <2>1. outcomes \in [Callers -> Seq(Outcome)]
    BY <1>0 DEF TypeOK
  <2>2. outcomes[c] \in Seq(Outcome)
    BY <2>1
  <2>3. wpc \in [Callers -> [Workers -> WorkerPC]] /\ completed \in Nat
    BY <1>0 DEF TypeOK
  <2>4. Len(outcomes[c]) \in Nat
    BY <2>2
  <2> QED BY <2>1, <2>3, <2>4
<1>6. /\ IsFiniteSet(Adding(c)) /\ Cardinality(Adding(c)) \in Nat
  BY AddingFinite
<1>7. CASE Inspect(c, w)
  <2>1. wpc[c][w] = "inspect" /\ Goto(c, w, "increment") /\ completed' = completed
    BY <1>7 DEF Inspect, progressVars
  <2>2. Adding(c)' = Adding(c) \cup {w} /\ w \notin Adding(c)
    BY <1>5, <2>1 DEF Goto, Adding
  <2>3. Cardinality(Adding(c) \cup {w}) = Cardinality(Adding(c)) + 1
    BY <1>6, <2>2, FS_AddElement
  <2>4. PICK k : outcomes' = [outcomes EXCEPT
                   ![c] = Append(outcomes[c], [index |-> item[c][w], kind |-> k])]
    BY <1>7 DEF Inspect
  <2>5. Len(outcomes'[c]) = Len(outcomes[c]) + 1
    <3>1. outcomes'[c] = Append(outcomes[c], [index |-> item[c][w], kind |-> k])
      BY <1>5, <2>4
    <3> QED BY <1>5, <3>1
  <2>6. completed' + Cardinality(Adding(c)') = Len(outcomes'[c])
    <3>1. Cardinality(Adding(c)') = Cardinality(Adding(c)) + 1
      BY <2>2, <2>3
    <3>2. completed \in Nat /\ Len(outcomes[c]) \in Nat /\ completed' = completed
      BY <1>5, <2>1
    <3> QED BY <1>4, <1>6, <2>5, <3>1, <3>2
  <2> QED BY <1>2, <1>3, <1>4, <2>6 DEF Counted
<1>8. CASE FetchAdd(c, w)
  <2>1. wpc[c][w] = "increment" /\ Goto(c, w, "publish") /\ completed' = completed + 1
        /\ outcomes' = outcomes
    BY <1>8 DEF FetchAdd
  <2>2. Adding(c)' = Adding(c) \ {w} /\ w \in Adding(c)
    BY <1>5, <2>1 DEF Goto, Adding
  <2>3. Cardinality(Adding(c) \ {w}) = Cardinality(Adding(c)) - 1
    BY <1>6, <2>2, FS_RemoveElement
  <2> QED BY <1>2, <1>3, <1>4, <1>5, <1>6, <2>1, <2>2, <2>3 DEF Counted
<1>9. CASE ~Inspect(c, w) /\ ~FetchAdd(c, w)
  <2>1. /\ completed' = completed /\ outcomes' = outcomes
        /\ wpc[c][w] # "increment"
        /\ \/ Goto(c, w, "exited") \/ Goto(c, w, "pop") \/ Goto(c, w, "recheck")
           \/ Goto(c, w, "inspect") \/ Goto(c, w, "check")
    BY <1>9 DEF WorkerStep, CheckCancel, Pop, RecheckCancel, InspectPanics,
                StorePercentage, progressVars
  <2>2. Adding(c)' = Adding(c)
    BY <1>5, <2>1 DEF Goto, Adding
  <2> QED BY <1>2, <1>3, <1>4, <2>1, <2>2 DEF Counted
<1> QED BY <1>7, <1>8, <1>9

-----------------------------------------------------------------------------
(* The theorems. *)

\* cancel() only ever sets the token.
LEMMA CancelSetsToken ==
  ASSUME TypeOK, CancelStep \/ UNCHANGED vars
  PROVE  token => token'
BY DEF CancelStep, EngineCancel, ProgressCancel, ProgressCancelLink, vars

\* A cancellation touches nothing that the batch invariant reads.
LEMMA CancelKeepsBatch ==
  ASSUME TypeOK, BatchInv, CancelStep \/ UNCHANGED vars
  PROVE  BatchInv'
<1>1. /\ UNCHANGED <<completed, total, pc, field, images, workers, spawned, status,
                     queue, outcomes, wpc, item>>
      /\ token => token'
  BY CancelFrame, CancelSetsToken
<1>2. HandsInv'
  BY <1>1 DEF BatchInv, HandsInv
<1>3. AccountInv'
  <2> SUFFICES ASSUME NEW d \in Callers PROVE Account(d)'
    BY DEF AccountInv, Account
  <2>1. Account(d)
    BY DEF BatchInv, AccountInv, Account
  <2> QED BY <1>1, <2>1, AccountKept
<1>4. ResetInv'
  BY <1>1 DEF BatchInv, ResetInv, Returned
<1>5. ProgressExact'
  BY <1>1 DEF BatchInv, ProgressExact, InBatch
<1> QED BY <1>2, <1>3, <1>4, <1>5 DEF BatchInv

\* The batch invariant holds before the first call.
LEMMA InitBatch == Init => BatchInv
<1> SUFFICES ASSUME Init PROVE BatchInv
  OBVIOUS
<1>1. /\ pc = [c \in Callers |-> "idle"]
      /\ images = [c \in Callers |-> 0] /\ workers = [c \in Callers |-> 0]
      /\ queue = [c \in Callers |-> <<>>] /\ outcomes = [c \in Callers |-> <<>>]
      /\ wpc = [c \in Callers |-> [w \in Workers |-> "none"]]
      /\ item = [c \in Callers |-> [w \in Workers |-> 0]]
  BY DEF Init
<1>2. HandsInv
  BY <1>1 DEF HandsInv
<1>3. AccountInv
  <2> SUFFICES ASSUME NEW c \in Callers PROVE Account(c)
    BY DEF AccountInv, Account
  <2>1. /\ images[c] = 0 /\ Len(queue[c]) = 0 /\ Len(outcomes[c]) = 0
        /\ DOMAIN outcomes[c] = {} /\ \A w \in Workers : item[c][w] = 0
    BY <1>1
  <2>2. Popped(c) = 0 /\ Held(c) = {} /\ Settled(c) = {}
    BY <2>1 DEF Popped, Held, Settled
  <2>3. Cardinality(Held(c)) = 0
    BY <2>2, FS_EmptySet
  <2> QED BY <2>1, <2>2, <2>3 DEF Account
<1>4. ResetInv
  BY <1>1 DEF ResetInv, Returned
<1>5. ProgressExact
  BY <1>1 DEF ProgressExact, InBatch
<1> QED BY <1>2, <1>3, <1>4, <1>5 DEF BatchInv

\* The accounts of inspect_batch are kept by every step of every thread: the
\* invariant the results below rest on.
THEOREM BatchInvariant == Spec => [](SlotInv /\ BatchInv)
<1>1. SlotInv /\ BatchInv /\ [Next]_vars => BatchInv'
  <2> SUFFICES ASSUME SlotInv, BatchInv, [Next]_vars PROVE BatchInv'
    OBVIOUS
  <2>0. HandsInv /\ AccountInv /\ ResetInv /\ ProgressExact /\ TypeOK
    BY DEF BatchInv, SlotInv
  <2>1. ASSUME NEW c \in Callers, CallerStart(c) \/ CallerStep(c)
        PROVE  BatchInv'
    BY <2>0, <2>1, CallerHands, CallerAccounts, CallerResets, CallerCounts DEF BatchInv
  <2>2. ASSUME NEW c \in Callers, NEW w \in Workers, WorkerStep(c, w)
        PROVE  BatchInv'
    BY <2>0, <2>2, WorkerHands, WorkerAccounts, WorkerResets, WorkerCounts DEF BatchInv
  <2>3. CASE CancelStep \/ UNCHANGED vars
    BY <2>0, <2>3, CancelKeepsBatch
  <2> QED BY <2>1, <2>2, <2>3 DEF Next
<1> QED BY <1>1, InitBatch, SlotInvariant, PTL DEF Spec

\* The progress handle tells the truth about the running batch: its plan is the
\* number of images, its counter the outcomes pushed, save those of workers
\* between their push and their fetch_add.
THEOREM ProgressIsExact == Spec => []ProgressExact
<1>1. BatchInv => ProgressExact
  BY DEF BatchInv
<1> QED BY <1>1, BatchInvariant, PTL

\* No image is lost, inspected twice or invented by the workers that share the
\* queue, for any pool size and any number of images.
THEOREM ImagesAreAccounted == Spec => []ImageAccounting
<1>1. SlotInv /\ BatchInv => ImageAccounting
  <2> SUFFICES ASSUME SlotInv, BatchInv, NEW c \in Callers
               PROVE  /\ Queued(c) \cup Held(c) \cup Settled(c) = 1 .. images[c]
                      /\ Len(queue[c]) + Cardinality(Held(c)) + Len(outcomes[c]) = images[c]
                      /\ \A v, w \in Workers :
                           item[c][v] # 0 /\ item[c][v] = item[c][w] => v = w
                      /\ \A w \in Workers :
                           wpc[c][w] = "exited" /\ item[c][w] # 0
                             => token \/ item[c][w] \in PanicImages
    BY DEF ImageAccounting
  <2>1. Account(c) /\ TypeOK
    BY DEF BatchInv, AccountInv, Account, SlotInv
  <2>2. /\ images[c] \in Nat /\ Len(queue[c]) \in Nat /\ Len(outcomes[c]) \in Nat
        /\ queue[c] \in Seq(1 .. MaxImages)
        /\ Cardinality(Held(c)) \in Nat
    BY <2>1, HeldFinite, BoundsAssumption, SMTT(30) DEF TypeOK
  <2>3. Queued(c) = Popped(c) + 1 .. images[c] /\ Popped(c) \in 0 .. images[c]
    BY <2>1, QueuedIs
  <2>5. Queued(c) \cup Held(c) \cup Settled(c) = 1 .. images[c]
    <3>1. Held(c) \cup Settled(c) = 1 .. Popped(c)
      BY <2>1 DEF Account
    <3> QED BY <2>2, <2>3, <3>1
  <2>6. Len(queue[c]) + Cardinality(Held(c)) + Len(outcomes[c]) = images[c]
    <3>1. Cardinality(Held(c)) + Len(outcomes[c]) = Popped(c)
      BY <2>1 DEF Account
    <3>2. Popped(c) = images[c] - Len(queue[c])
      BY DEF Popped
    <3>3. \A q, h, o, n \in Nat : h + o = n - q => q + h + o = n
      OBVIOUS
    <3> DEFINE h == Cardinality(Held(c))
               q == Len(queue[c])
               o == Len(outcomes[c])
               n == images[c]
    <3>4. h \in Nat /\ q \in Nat /\ o \in Nat /\ n \in Nat /\ h + o = n - q
      BY <2>2, <3>1, <3>2
    <3> HIDE DEF h, q, o, n
    <3>5. q + h + o = n
      BY <3>3, <3>4
    <3> QED BY <3>5 DEF h, q, o, n
  <2>7. \A v, w \in Workers : item[c][v] # 0 /\ item[c][v] = item[c][w] => v = w
    BY <2>1 DEF Account
  <2>8. \A w \in Workers :
          wpc[c][w] = "exited" /\ item[c][w] # 0 => token \/ item[c][w] \in PanicImages
    BY DEF BatchInv, HandsInv
  <2> QED BY <2>5, <2>6, <2>7, <2>8
<1> QED BY <1>1, BatchInvariant, PTL

\* The part of ResultComplete that does not depend on the order of the result:
\* an uncancelled batch returns with an outcome for every image, save one whose
\* inspection panicked, and with a path in the queue only when every worker died.
OutcomesComplete ==
  \A c \in Callers : Returned(c) /\ ~token =>
    /\ \A i \in (1 .. images[c]) \ Settled(c) : i \in PanicImages \/ i \in Queued(c)
    /\ Queued(c) # {} => \A w \in 1 .. workers[c] : item[c][w] \in PanicImages

LEMMA OutcomesAreComplete == SlotInv /\ BatchInv => OutcomesComplete
<1> SUFFICES ASSUME SlotInv, BatchInv, NEW c \in Callers, Returned(c), ~token
             PROVE  /\ \A i \in (1 .. images[c]) \ Settled(c) :
                         i \in PanicImages \/ i \in Queued(c)
                    /\ Queued(c) # {} =>
                         \A w \in 1 .. workers[c] : item[c][w] \in PanicImages
  BY DEF OutcomesComplete
<1>1. Account(c) /\ Begun(c) /\ TypeOK /\ \A w \in Workers : Hand(c, w)
  BY DEF BatchInv, AccountInv, Account, SlotInv, ResetInv, Begun, HandsInv, Hand
<1>2. /\ images[c] \in Nat /\ Len(queue[c]) \in Nat
      /\ queue[c] \in Seq(1 .. MaxImages)
      /\ workers[c] \in 0 .. PoolCap /\ wpc \in [Callers -> [Workers -> WorkerPC]]
  BY <1>1, BoundsAssumption DEF TypeOK
<1>3. \A w \in Workers : item[c][w] # 0 => item[c][w] \in PanicImages
  <2>1. \A w \in Workers : wpc[c][w] \in {"none", "exited"}
    BY DEF SlotInv, SlotExclusive, LiveWorker, Returned
  <2> QED BY <1>1, <2>1 DEF Hand
<1>4. ASSUME NEW i \in (1 .. images[c]) \ Settled(c)
      PROVE  i \in PanicImages \/ i \in Queued(c)
  <2>1. CASE i <= Popped(c)
    <3>1. i \in Held(c)
      <4>1. Popped(c) \in Int /\ i \in 1 .. images[c] /\ i \notin Settled(c)
        BY <1>2, <1>4 DEF Popped
      <4>2. i \in 1 .. Popped(c)
        BY <1>2, <2>1, <4>1
      <4>3. Held(c) \cup Settled(c) = 1 .. Popped(c)
        BY <1>1 DEF Account
      <4> QED BY <4>1, <4>2, <4>3
    <3> QED BY <1>3, <3>1 DEF Held
  <2>2. CASE ~(i <= Popped(c))
    BY <1>1, <1>2, <2>2, QueuedIs
  <2> QED BY <2>1, <2>2
<1>5. ASSUME Queued(c) # {}, NEW w \in 1 .. workers[c]
      PROVE  item[c][w] \in PanicImages
  <2>1. queue[c] # <<>>
    BY <1>5 DEF Queued
  <2>2. w \in Workers
    BY <1>2, PoolCapAssumption DEF Workers
  <2>3. wpc[c][w] = "exited"
    BY <1>1 DEF Begun
  <2>4. item[c][w] # 0
    BY <1>1, <2>1, <2>2, <2>3 DEF Hand
  <2> QED BY <1>3, <2>2, <2>4
<1> QED BY <1>4, <1>5

-----------------------------------------------------------------------------
(* The order of the result. *)

\* The entries of S that come before i.
Below(S, i) == {j \in S : j < i}

\* A larger entry has more entries before it, and no entry has all of them.
LEMMA RankGrows ==
  ASSUME NEW S, IsFiniteSet(S), S \subseteq Nat, NEW a \in S
  PROVE  /\ Cardinality(Below(S, a)) \in Nat /\ Cardinality(Below(S, a)) < Cardinality(S)
         /\ \A b \in S : a < b => Cardinality(Below(S, a)) < Cardinality(Below(S, b))
<1>1. \A b \in S : /\ IsFiniteSet(Below(S, b)) /\ Cardinality(Below(S, b)) \in Nat
                   /\ Cardinality(S) \in Nat
  <2> TAKE b \in S
  <2>1. Below(S, b) \in SUBSET S
    BY DEF Below
  <2>2. IsFiniteSet(Below(S, b))
    BY <2>1, FS_Subset
  <2> QED BY <2>2, FS_CardinalityType
<1>2. Cardinality(Below(S, a)) < Cardinality(S)
  <2>1. Below(S, a) \in SUBSET S /\ a \notin Below(S, a)
    BY DEF Below
  <2>2. /\ Cardinality(Below(S, a)) <= Cardinality(S)
        /\ Cardinality(S) = Cardinality(Below(S, a)) => S = Below(S, a)
    BY <2>1, FS_Subset
  <2> QED BY <1>1, <2>1, <2>2
<1>3. ASSUME NEW b \in S, a < b
      PROVE  Cardinality(Below(S, a)) < Cardinality(Below(S, b))
  <2>1. Below(S, a) \in SUBSET Below(S, b) /\ a \notin Below(S, a) /\ a \in Below(S, b)
    <3>1. \A j \in S : j \in Nat
      OBVIOUS
    <3>2. \A j \in S : j < a => j < b
      BY <1>3, <3>1
    <3>3. ~(a < a)
      BY <3>1
    <3> QED BY <1>3, <3>2, <3>3 DEF Below
  <2>2. /\ Cardinality(Below(S, a)) <= Cardinality(Below(S, b))
        /\ Cardinality(Below(S, b)) = Cardinality(Below(S, a)) => Below(S, b) = Below(S, a)
    BY <1>1, <2>1, FS_Subset
  <2> QED BY <1>1, <2>1, <2>2
<1> QED BY <1>1, <1>2, <1>3

\* So there is one entry of every rank, and ranks and entries are in one order.
LEMMA Ranks ==
  ASSUME NEW S, IsFiniteSet(S), S \subseteq Nat
  PROVE  /\ \A k \in 1 .. Cardinality(S) : \E i \in S : Cardinality(Below(S, i)) = k - 1
         /\ \A i, j \in S : Cardinality(Below(S, i)) < Cardinality(Below(S, j)) => i < j
         /\ \A i, j \in S : Cardinality(Below(S, i)) = Cardinality(Below(S, j)) => i = j
         /\ \A i \in S : Cardinality(Below(S, i)) + 1 \in 1 .. Cardinality(S)
<1> DEFINE n == Cardinality(S)
           T == 0 .. n - 1
           f == [i \in S |-> Cardinality(Below(S, i))]
<1>1. n \in Nat
  BY FS_CardinalityType
<1>2. /\ IsFiniteSet(T) /\ Cardinality(T) = n
  <2>1. 0 \in Int /\ n - 1 \in Int
    BY <1>1
  <2>2. IsFiniteSet(T) /\ Cardinality(T) = IF 0 > n - 1 THEN 0 ELSE (n - 1) - 0 + 1
    BY <2>1, FS_Interval
  <2> QED BY <1>1, <2>2
<1>3. \A i \in S : /\ Cardinality(Below(S, i)) \in Nat /\ Cardinality(Below(S, i)) < n
                   /\ \A j \in S : i < j =>
                        Cardinality(Below(S, i)) < Cardinality(Below(S, j))
  BY RankGrows
<1> HIDE DEF n
<1>4. \A i \in S : Cardinality(Below(S, i)) \in T /\ Cardinality(Below(S, i)) + 1 \in 1 .. n
  BY <1>1, <1>3
<1>5. ASSUME NEW i \in S, NEW j \in S
      PROVE  /\ Cardinality(Below(S, i)) = Cardinality(Below(S, j)) => i = j
             /\ Cardinality(Below(S, i)) < Cardinality(Below(S, j)) => i < j
  <2>1. i \in Nat /\ j \in Nat /\ (i < j \/ j < i \/ i = j)
    OBVIOUS
  <2>2. i < j => Cardinality(Below(S, i)) < Cardinality(Below(S, j))
    BY <1>3
  <2>3. j < i => Cardinality(Below(S, j)) < Cardinality(Below(S, i))
    BY <1>3
  <2>4. Cardinality(Below(S, i)) \in Nat /\ Cardinality(Below(S, j)) \in Nat
    BY <1>3
  <2> QED BY <2>1, <2>2, <2>3, <2>4
<1>6. f \in Injection(S, T)
  BY <1>4, <1>5 DEF Injection, IsInjective
<1>7. f \in Surjection(S, T)
  BY <1>2, <1>6, FS_Injection DEF n
<1>8. \A k \in 1 .. n : k - 1 \in T
  BY <1>1
<1> QED BY <1>4, <1>5, <1>7, <1>8 DEF Surjection, n

\* sort_by_key puts outcomes of distinct images in the order of the images, and
\* keeps each of them.
LEMMA SortIncreases ==
  ASSUME NEW s \in Seq(Outcome), \A j, k \in DOMAIN s : s[j].index = s[k].index => j = k
  PROVE  /\ DOMAIN SortByIndex(s) = 1 .. Len(s) /\ Len(s) \in Nat
         /\ \A j, k \in 1 .. Len(s) : j < k => SortByIndex(s)[j].index < SortByIndex(s)[k].index
         /\ \A k \in 1 .. Len(s) : SortByIndex(s)[k] \in Outcome
         /\ \A j \in DOMAIN s : \E k \in 1 .. Len(s) : SortByIndex(s)[k] = s[j]
<1> DEFINE I == {s[k].index : k \in DOMAIN s}
           t == SortByIndex(s)
           At(k) == CHOOSE j \in DOMAIN s : Cardinality(Below(I, s[j].index)) = k - 1
<1>1. /\ DOMAIN s = 1 .. Len(s) /\ Len(s) \in Nat
      /\ \A k \in DOMAIN s : s[k] \in Outcome /\ s[k].index \in 1 .. MaxImages
  <2>1. \A o \in Outcome : o.index \in 1 .. MaxImages
    BY DEF Outcome
  <2> QED BY <2>1
<1>2. I \in SUBSET (1 .. MaxImages) /\ I \subseteq Nat
  BY <1>1, BoundsAssumption
<1>3. IsFiniteSet(I)
  <2>1. IsFiniteSet(1 .. MaxImages)
    BY BoundsAssumption, FS_Interval
  <2> QED BY <1>2, <2>1, FS_Subset
<1>4. Cardinality(I) = Len(s)
  <2> DEFINE g == [k \in 1 .. Len(s) |-> s[k].index]
  <2>1. g \in [1 .. Len(s) -> I] /\ \A k \in 1 .. Len(s) : g[k] = s[k].index
    BY <1>1
  <2>2. \A i \in I : \E k \in 1 .. Len(s) : g[k] = i
    BY <1>1, <2>1
  <2>3. \A j, k \in 1 .. Len(s) : g[j] = g[k] => j = k
    BY <1>1, <2>1
  <2> HIDE DEF g, I
  <2>4. g \in Injection(1 .. Len(s), I)
    BY <2>1, <2>3 DEF Injection, IsInjective
  <2>5. g \in Surjection(1 .. Len(s), I)
    BY <2>1, <2>2 DEF Surjection
  <2>6. Cardinality(1 .. Len(s)) = Cardinality(I)
    BY <1>3, <2>4, <2>5, FS_Injection
  <2>7. Cardinality(1 .. Len(s)) = Len(s)
    <3>1. 1 \in Int /\ Len(s) \in Int
      BY <1>1
    <3>2. Cardinality(1 .. Len(s)) = IF 1 > Len(s) THEN 0 ELSE Len(s) - 1 + 1
      BY <3>1, FS_Interval
    <3> QED BY <1>1, <3>2
  <2> QED BY <2>6, <2>7
<1>5. DOMAIN t = DOMAIN s /\ \A k \in DOMAIN s : t[k] = s[At(k)]
  BY DEF SortByIndex, Below
<1>6. /\ \A i \in I : \E j \in DOMAIN s : s[j].index = i
      /\ \A j \in DOMAIN s : s[j].index \in I
  OBVIOUS
<1> HIDE DEF I, t
<1>7. /\ \A k \in 1 .. Len(s) : \E i \in I : Cardinality(Below(I, i)) = k - 1
      /\ \A i, j \in I : Cardinality(Below(I, i)) < Cardinality(Below(I, j)) => i < j
      /\ \A i, j \in I : Cardinality(Below(I, i)) = Cardinality(Below(I, j)) => i = j
      /\ \A i \in I : Cardinality(Below(I, i)) + 1 \in 1 .. Len(s)
  <2>1. I \subseteq Nat
    BY <1>2
  <2>2. /\ \A k \in 1 .. Cardinality(I) : \E i \in I : Cardinality(Below(I, i)) = k - 1
        /\ \A i, j \in I : Cardinality(Below(I, i)) < Cardinality(Below(I, j)) => i < j
        /\ \A i, j \in I : Cardinality(Below(I, i)) = Cardinality(Below(I, j)) => i = j
        /\ \A i \in I : Cardinality(Below(I, i)) + 1 \in 1 .. Cardinality(I)
    BY <1>3, <2>1, Ranks, Zenon
  <2> QED BY <1>4, <2>2, Zenon
<1>8. \A k \in 1 .. Len(s) :
        At(k) \in DOMAIN s /\ Cardinality(Below(I, s[At(k)].index)) = k - 1
  <2> TAKE k \in 1 .. Len(s)
  <2>1. \E j \in DOMAIN s : Cardinality(Below(I, s[j].index)) = k - 1
    BY <1>6, <1>7
  <2> QED BY <2>1
<1> HIDE DEF At
<1>9. ASSUME NEW j \in 1 .. Len(s), NEW k \in 1 .. Len(s), j < k
      PROVE  t[j].index < t[k].index
  <2>1. /\ t[j] = s[At(j)] /\ t[k] = s[At(k)]
        /\ s[At(j)].index \in I /\ s[At(k)].index \in I
    BY <1>1, <1>5, <1>6, <1>8
  <2>2. j - 1 < k - 1
    BY <1>1, <1>9
  <2> QED BY <1>7, <1>8, <2>1, <2>2
<1>10. ASSUME NEW j \in DOMAIN s PROVE \E k \in 1 .. Len(s) : t[k] = s[j]
  <2> DEFINE k == Cardinality(Below(I, s[j].index)) + 1
  <2>1. s[j].index \in I /\ k \in 1 .. Len(s)
    BY <1>6, <1>7
  <2>2. Cardinality(Below(I, s[j].index)) \in Nat
    BY <1>2, <1>3, <2>1, RankGrows
  <2>3. k - 1 = Cardinality(Below(I, s[j].index))
    BY <2>2
  <2> HIDE DEF k
  <2>4. s[At(k)].index = s[j].index /\ At(k) \in DOMAIN s
    BY <1>6, <1>7, <1>8, <2>1, <2>3
  <2>5. At(k) = j
    BY <2>4
  <2> QED BY <1>1, <1>5, <2>1, <2>5
<1> QED BY <1>1, <1>5, <1>8, <1>9, <1>10 DEF t

\* The loop over the outcomes keeps their order, and pushes each one of its kinds.
LEMMA SplitKeeps ==
  ASSUME NEW n \in Nat, NEW t, DOMAIN t = 1 .. n, NEW K
  PROVE  /\ \A j, k \in DOMAIN Split(t, K) : j < k =>
              \E a, b \in 1 .. n : a < b /\ Split(t, K)[j] = t[a] /\ Split(t, K)[k] = t[b]
         /\ \A m \in 1 .. n : t[m].kind \in K =>
              \E k \in DOMAIN Split(t, K) : Split(t, K)[k] = t[m]
<1> DEFINE P == {m \in DOMAIN t : t[m].kind \in K}
           u == Split(t, K)
           At(k) == CHOOSE m \in P : Cardinality(Below(P, m)) = k - 1
<1>1. P \in SUBSET (1 .. n) /\ P \subseteq Nat /\ \A m \in 1 .. n : t[m].kind \in K => m \in P
  OBVIOUS
<1>2. IsFiniteSet(P)
  <2>1. IsFiniteSet(1 .. n)
    BY FS_Interval
  <2> QED BY <1>1, <2>1, FS_Subset
<1>3. /\ DOMAIN u = 1 .. Cardinality(P) /\ Cardinality(P) \in Nat
      /\ \A k \in 1 .. Cardinality(P) : u[k] = t[At(k)]
  BY <1>2, FS_CardinalityType DEF Split, Below
<1> HIDE DEF P, u
<1>4. /\ \A k \in 1 .. Cardinality(P) : \E i \in P : Cardinality(Below(P, i)) = k - 1
      /\ \A i, j \in P : Cardinality(Below(P, i)) < Cardinality(Below(P, j)) => i < j
      /\ \A i, j \in P : Cardinality(Below(P, i)) = Cardinality(Below(P, j)) => i = j
      /\ \A i \in P : Cardinality(Below(P, i)) + 1 \in 1 .. Cardinality(P)
  BY <1>1, <1>2, Ranks
<1>5. \A k \in 1 .. Cardinality(P) : At(k) \in P /\ Cardinality(Below(P, At(k))) = k - 1
  BY <1>4
<1> HIDE DEF At
<1>6. ASSUME NEW j \in DOMAIN u, NEW k \in DOMAIN u, j < k
      PROVE  \E a, b \in 1 .. n : a < b /\ u[j] = t[a] /\ u[k] = t[b]
  <2>1. j \in 1 .. Cardinality(P) /\ k \in 1 .. Cardinality(P) /\ j - 1 < k - 1
    BY <1>3, <1>6
  <2>2. At(j) \in P /\ At(k) \in P /\ At(j) < At(k)
    BY <1>4, <1>5, <2>1
  <2> QED BY <1>1, <1>3, <2>1, <2>2
<1>7. ASSUME NEW m \in 1 .. n, t[m].kind \in K PROVE \E k \in DOMAIN u : u[k] = t[m]
  <2> DEFINE k == Cardinality(Below(P, m)) + 1
  <2>1. m \in P /\ k \in 1 .. Cardinality(P)
    BY <1>1, <1>4, <1>7
  <2>2. Cardinality(Below(P, m)) \in Nat
    BY <1>1, <1>2, <2>1, RankGrows
  <2>3. k - 1 = Cardinality(Below(P, m))
    BY <2>2
  <2> HIDE DEF k
  <2>4. At(k) = m
    BY <1>4, <1>5, <2>1, <2>3
  <2> QED BY <1>3, <2>1, <2>4
<1> QED BY <1>6, <1>7 DEF u

\* No image has two outcomes.
LEMMA OneOutcomeEach ==
  ASSUME TypeOK, NEW c \in Callers, Account(c)
  PROVE  \A j, k \in DOMAIN outcomes[c] : outcomes[c][j].index = outcomes[c][k].index => j = k
<1> DEFINE s == outcomes[c]
           n == Len(s)
           g == [k \in 1 .. n |-> s[k].index]
<1>1. /\ s \in Seq(Outcome) /\ n \in Nat /\ DOMAIN s = 1 .. n
      /\ images[c] \in Nat /\ Len(queue[c]) \in Nat
  BY BoundsAssumption DEF TypeOK
<1>2. Popped(c) \in Nat
  BY <1>1 DEF Account, Popped
<1>3. /\ IsFiniteSet(Held(c)) /\ Cardinality(Held(c)) \in Nat
      /\ IsFiniteSet(Settled(c)) /\ Cardinality(Settled(c)) \in Nat
  <2>1. IsFiniteSet(1 .. Popped(c))
    BY <1>2, FS_Interval
  <2>2. Settled(c) \in SUBSET (1 .. Popped(c))
    BY DEF Account
  <2>3. IsFiniteSet(Settled(c))
    BY <2>1, <2>2, FS_Subset
  <2> QED BY <2>3, HeldFinite, FS_CardinalityType
<1>4. Cardinality(Settled(c)) = n
  <2>1. Held(c) \cup Settled(c) = 1 .. Popped(c) /\ Held(c) \cap Settled(c) = {}
    BY DEF Account
  <2>2. Cardinality(1 .. Popped(c)) = Popped(c)
    <3>1. 1 \in Int /\ Popped(c) \in Int
      BY <1>2
    <3>2. Cardinality(1 .. Popped(c)) = IF 1 > Popped(c) THEN 0 ELSE Popped(c) - 1 + 1
      BY <3>1, FS_Interval
    <3> QED BY <1>2, <3>2
  <2>3. Cardinality(Held(c) \cup Settled(c)) =
          Cardinality(Held(c)) + Cardinality(Settled(c)) - Cardinality(Held(c) \cap Settled(c))
    BY <1>3, FS_Union
  <2>4. Cardinality(Held(c) \cap Settled(c)) = 0
    BY <2>1, FS_EmptySet
  <2>5. Cardinality(Held(c)) + n = Popped(c)
    BY DEF Account
  <2>6. Popped(c) = Cardinality(Held(c)) + Cardinality(Settled(c)) - 0
    BY <2>1, <2>2, <2>3, <2>4
  <2>7. \A h, x, y, p \in Nat : h + x = p /\ p = h + y - 0 => y = x
    OBVIOUS
  <2> HIDE DEF n
  <2> QED BY <1>1, <1>2, <1>3, <2>5, <2>6, <2>7
<1>5. /\ IsFiniteSet(1 .. n) /\ Cardinality(1 .. n) = n
  <2>1. 1 \in Int /\ n \in Int
    BY <1>1
  <2>2. IsFiniteSet(1 .. n) /\ Cardinality(1 .. n) = IF 1 > n THEN 0 ELSE n - 1 + 1
    BY <2>1, FS_Interval
  <2> QED BY <1>1, <2>2
<1>6. g \in Surjection(1 .. n, Settled(c))
  <2>1. Settled(c) = {s[k].index : k \in 1 .. n}
    BY <1>1 DEF Settled
  <2> QED BY <2>1 DEF Surjection
<1> HIDE DEF g, n
<1>7. g \in Injection(1 .. n, Settled(c))
  BY <1>4, <1>5, <1>6, FS_SurjSameCardinalityImpliesInj
<1>8. \A j, k \in 1 .. n : g[j] = g[k] => j = k
  BY <1>7 DEF Injection, IsInjective
<1> QED BY <1>1, <1>8 DEF g

\* inspect_batch hands back its reports and its errors in the order of the paths,
\* and without a cancellation an answer for every path, save one whose inspection
\* panicked and those no worker lived to take, for any number of images.
THEOREM ResultIsComplete == Spec => []ResultComplete
<1>1. SlotInv /\ BatchInv => ResultComplete
  <2> SUFFICES ASSUME SlotInv, BatchInv, NEW c \in Callers, Returned(c)
               PROVE  /\ Increasing(Indexes(Reports(c))) /\ Increasing(Indexes(Errors(c)))
                      /\ ~token =>
                           /\ \A i \in (1 .. images[c]) \ Answered(c) :
                                i \in PanicImages \/ i \in Queued(c)
                           /\ Queued(c) # {} =>
                                \A w \in 1 .. workers[c] : item[c][w] \in PanicImages
    BY DEF ResultComplete
  <2> DEFINE s == outcomes[c]
             t == SortByIndex(s)
             n == Len(s)
  <2>1. TypeOK /\ Account(c) /\ s \in Seq(Outcome)
    BY DEF SlotInv, BatchInv, AccountInv, Account, TypeOK
  <2>2. /\ DOMAIN t = 1 .. n /\ n \in Nat
        /\ \A j, k \in 1 .. n : j < k => t[j].index < t[k].index
        /\ \A k \in 1 .. n : t[k] \in Outcome
        /\ \A j \in DOMAIN s : \E k \in 1 .. n : t[k] = s[j]
    BY <2>1, OneOutcomeEach, SortIncreases
  <2>3. Reports(c) = Split(t, {"report"}) /\ Errors(c) = Split(t, Kinds \ {"report"})
    BY DEF Reports, Errors
  <2> HIDE DEF t, n
  <2>4. ASSUME NEW K PROVE Increasing(Indexes(Split(t, K)))
    <3> DEFINE u == Split(t, K)
    <3>1. \A j, k \in DOMAIN u : j < k => \E a, b \in 1 .. n : a < b /\ u[j] = t[a] /\ u[k] = t[b]
      BY <2>2, SplitKeeps
    <3> HIDE DEF u
    <3>2. \A j, k \in DOMAIN u : j < k => u[j].index < u[k].index
      BY <2>2, <3>1
    <3> QED BY <3>2 DEF Increasing, Indexes, u
  <2>5. Settled(c) \subseteq Answered(c)
    <3> SUFFICES ASSUME NEW j \in DOMAIN s PROVE s[j].index \in Answered(c)
      BY DEF Settled
    <3>1. PICK k \in 1 .. n : t[k] = s[j]
      BY <2>2
    <3>2. t[k].kind \in {"report"} \/ t[k].kind \in Kinds \ {"report"}
      BY <2>2 DEF Outcome
    <3>3. CASE t[k].kind \in {"report"}
      <4>1. \E m \in DOMAIN Reports(c) : Reports(c)[m] = t[k]
        BY <2>2, <2>3, <3>3, SplitKeeps
      <4> QED BY <3>1, <4>1 DEF Answered
    <3>4. CASE t[k].kind \in Kinds \ {"report"}
      <4>1. \E m \in DOMAIN Errors(c) : Errors(c)[m] = t[k]
        BY <2>2, <2>3, <3>4, SplitKeeps
      <4> QED BY <3>1, <4>1 DEF Answered
    <3> QED BY <3>2, <3>3, <3>4
  <2>6. OutcomesComplete
    BY OutcomesAreComplete
  <2> QED BY <2>3, <2>4, <2>5, <2>6 DEF OutcomesComplete
<1> QED BY <1>1, BatchInvariant, PTL

-----------------------------------------------------------------------------
(* Cancellation. *)

\* A cancel call that has returned has set the token, which is never cleared:
\* reset_for_batch clears the progress flag only.
TokenInv == canceller = "returned" => token

\* The three stores of cancel() happen in order, and nothing clears the token.
LEMMA TokenStep == TypeOK /\ TokenInv /\ [Next]_vars => TokenInv'
<1> SUFFICES ASSUME TypeOK, TokenInv, [Next]_vars PROVE TokenInv'
  OBVIOUS
<1>1. ASSUME NEW c \in Callers, CallerStart(c) \/ CallerStep(c) PROVE TokenInv'
  <2>1. token' = token
    BY <1>1, CallerTokenKept
  <2>2. canceller' = canceller
    BY <1>1 DEF CallerStart, CallerStep, Rejected, Release, BeginDiscovery,
         EndDiscovery, BeginBatch, ResetForBatch, Spawn, SpawnFails, Join,
         JoinAfterFailure
  <2> QED BY <2>1, <2>2 DEF TokenInv
<1>2. ASSUME NEW c \in Callers, NEW w \in Workers, WorkerStep(c, w) PROVE TokenInv'
  <2>1. token' = token
    BY <1>2, WorkerTouchesItsRow
  <2>2. canceller' = canceller
    BY <1>2 DEF WorkerStep, CheckCancel, Pop, RecheckCancel, Inspect, InspectPanics,
         FetchAdd, StorePercentage
  <2> QED BY <2>1, <2>2 DEF TokenInv
<1>3. CASE CancelStep \/ UNCHANGED vars
  <2>1. CASE EngineCancel \/ ProgressCancel
    BY <2>1 DEF EngineCancel, ProgressCancel, TokenInv
  <2>2. CASE ProgressCancelLink
    BY <2>2 DEF ProgressCancelLink, TokenInv
  <2>3. CASE UNCHANGED vars
    BY <2>3 DEF vars, TokenInv
  <2> QED BY <1>3, <2>1, <2>2, <2>3 DEF CancelStep
<1> QED BY <1>1, <1>2, <1>3 DEF Next

\* What a canceller has stored so far, in every reachable state.
LEMMA TokenInvariant == Spec => []TokenInv
<1>1. Init => TokenInv
  BY DEF Init, TokenInv
<1>2. SlotInv => TypeOK
  BY DEF SlotInv
<1> QED BY <1>1, <1>2, TokenStep, SlotInvariant, PTL DEF Spec

\* A cancellation that returned stays visible through every later reset.
THEOREM CancellationIsKept == Spec => []CancelNotLost
<1>1. TokenInv => CancelNotLost
  BY DEF TokenInv, CancelNotLost, IsCancelled
<1> QED BY <1>1, TokenInvariant, PTL

\* Once a cancel call has returned no worker of any call starts an inspection:
\* the second look at the token is the only way into one.
THEOREM NoInspectionAfterCancel == Spec => NoStartAfterCancel
<1> DEFINE Quiet == \A c \in Callers, w \in Workers :
                      canceller = "returned" /\ wpc[c][w] # "inspect"
                        => wpc'[c][w] # "inspect"
<1>1. SlotInv /\ TokenInv /\ [Next]_vars => [Quiet]_vars
  <2> SUFFICES ASSUME SlotInv, TokenInv, [Next]_vars,
                      NEW d \in Callers, NEW v \in Workers,
                      canceller = "returned", wpc[d][v] # "inspect"
               PROVE  wpc'[d][v] # "inspect"
    OBVIOUS
  <2>0. token /\ TypeOK /\ wpc \in [Callers -> [Workers -> WorkerPC]]
    BY DEF TokenInv, SlotInv, TypeOK
  <2>1. ASSUME NEW c \in Callers, CallerStart(c) \/ CallerStep(c)
        PROVE  wpc'[d][v] # "inspect"
    <3>1. CASE d # c
      <4>1. RowKept(d)
        BY <2>0, <2>1, <3>1, CallerTouchesItsRow
      <4> QED BY <4>1 DEF RowKept
    <3>2. CASE d = c /\ BeginBatch(c)
      <4>1. wpc'[c] = [u \in Workers |-> "none"]
        BY <2>0, <3>2, BeginRow
      <4> QED BY <3>2, <4>1
    <3>3. CASE d = c /\ Spawn(c)
      BY <3>3, SpawnRow
    <3>4. CASE d = c /\ ~BeginBatch(c) /\ ~Spawn(c)
      <4>1. wpc' = wpc
        BY <2>1, <3>4, CallerLeavesWork
      <4> QED BY <4>1
    <3> QED BY <3>1, <3>2, <3>3, <3>4
  <2>2. ASSUME NEW c \in Callers, NEW w \in Workers, WorkerStep(c, w)
        PROVE  wpc'[d][v] # "inspect"
    <3>1. \/ Goto(c, w, "exited") \/ Goto(c, w, "pop") \/ Goto(c, w, "recheck")
          \/ Goto(c, w, "increment") \/ Goto(c, w, "publish") \/ Goto(c, w, "check")
      BY <2>0, <2>2 DEF WorkerStep, CheckCancel, Pop, RecheckCancel, Inspect,
              InspectPanics, FetchAdd, StorePercentage
    <3> QED BY <2>0, <3>1 DEF Goto
  <2>3. CASE CancelStep \/ UNCHANGED vars
    BY <2>3, CancelFrame
  <2> QED BY <2>1, <2>2, <2>3 DEF Next
<1> QED BY <1>1, SlotInvariant, TokenInvariant, PTL DEF Spec, NoStartAfterCancel
-----------------------------------------------------------------------------
(* The abstract pool. *)

\* A step that leaves the caller's rows and the token alone is not seen.
LEMMA PoolStutters ==
  ASSUME RowKept(caller), token' = token
  PROVE  UNCHANGED Pool!poolVars
<1>1. /\ Queued(caller)' = Queued(caller) /\ Settled(caller)' = Settled(caller)
      /\ Held(caller)' = Held(caller) /\ Running(caller)' = Running(caller)
  BY DEF RowKept, Queued, Settled, Held, Running
<1>2. Open' = Open /\ Result' = Result /\ Lost(caller)' = Lost(caller)
      /\ images'[caller] = images[caller]
  BY <1>1 DEF RowKept, Open, Result, Lost
<1>3. Halted' = Halted
  BY <1>2 DEF Halted
<1> QED BY <1>1, <1>2, <1>3 DEF Pool!poolVars

\* Nor is a step that moves no image and neither opens nor closes the call.
LEMMA PoolStuttersToo ==
  ASSUME Open' = Open, Result' = Result, Running(caller)' = Running(caller),
         token' = token, images'[caller] = images[caller], queue'[caller] = queue[caller],
         outcomes'[caller] = outcomes[caller], item'[caller] = item[caller]
  PROVE  UNCHANGED Pool!poolVars
<1>1. /\ Queued(caller)' = Queued(caller) /\ Settled(caller)' = Settled(caller)
      /\ Held(caller)' = Held(caller)
  BY DEF Queued, Settled, Held
<1>2. Lost(caller)' = Lost(caller)
  BY <1>1 DEF Lost
<1>3. Halted' = Halted
  BY <1>2 DEF Halted
<1> QED BY <1>1, <1>2, <1>3 DEF Pool!poolVars

\* A call with no live worker runs nothing.
LEMMA NothingRuns ==
  ASSUME NEW c \in Callers, \A w \in Workers : ~LiveWorker(c, w)
  PROVE  Running(c) = {}
BY DEF LiveWorker, Running

\* A worker that leaves the running part of its loop takes its image with it.
LEMMA RunningLoses ==
  ASSUME NEW c \in Callers, NEW w \in Workers, Account(c), item[c][w] # 0,
         wpc[c][w] \in {"recheck", "inspect"},
         wpc'[c][w] \notin {"recheck", "inspect"},
         \A v \in Workers \ {w} :
           wpc'[c][v] = wpc[c][v] /\ item'[c][v] = item[c][v]
  PROVE  /\ Running(c)' = Running(c) \ {item[c][w]} /\ item[c][w] \in Running(c)
<1>1. \A v \in Workers : item[c][v] = item[c][w] => v = w
  BY DEF Account
<1>2. item[c][w] \in Running(c)
  BY DEF Running
<1>3. Running(c)' \subseteq Running(c) \ {item[c][w]}
  BY <1>1 DEF Running
<1>4. Running(c) \ {item[c][w]} \subseteq Running(c)'
  BY DEF Running
<1> QED BY <1>2, <1>3, <1>4

\* What is running is in a hand.
LEMMA RunningHeld ==
  ASSUME NEW c \in Callers, HoldsItem
  PROVE  Running(c) \subseteq Held(c)
BY DEF Running, Held, HoldsItem
\* What inspect_batch does between the slot and the joins opens the pool once and
\* closes it once, with nothing running and nothing pending unless it was halted.
LEMMA CallerPool ==
  ASSUME SlotInv, BatchInv, NEW c \in Callers, CallerStart(c) \/ CallerStep(c)
  PROVE  Pool!Next \/ UNCHANGED Pool!poolVars
<1>0. /\ caller \in Callers /\ Account(caller) /\ Begun(caller) /\ TypeOK /\ SlotExclusive
      /\ token' = token /\ NotSpawnedYet /\ \A w \in Workers : Hand(caller, w)
  BY CallerAssumption, CallerTokenKept
     DEF BatchInv, AccountInv, Account, ResetInv, Begun, SlotInv, HandsInv, Hand
<1>00. /\ pc \in [Callers -> CallerPC] /\ status \in [Callers -> Statuses]
       /\ wpc \in [Callers -> [Workers -> WorkerPC]]
  BY <1>0 DEF TypeOK
<1>1. CASE c # caller
  <2>1. RowKept(caller)
    BY <1>0, <1>1, CallerTouchesItsRow
  <2> QED BY <1>0, <2>1, PoolStutters
<1>2. CASE c = caller /\ BeginBatch(caller)
  <2>1. PICK n \in 0 .. MaxImages :
          images'[caller] = n /\ queue'[caller] = [k \in 1 .. n |-> k]
    BY <1>0, <1>2, BeginRow
  <2>2. /\ pc[caller] = "idle" /\ pc'[caller] = "reset" /\ status'[caller] = "none"
        /\ outcomes'[caller] = <<>> /\ wpc'[caller] = [w \in Workers |-> "none"]
        /\ item'[caller] = [w \in Workers |-> 0]
    BY <1>0, <1>2, BeginRow
  <2>3. ~Open /\ Open' = TRUE /\ Result' = "none"
    BY <2>2 DEF Open, Result
  <2>4. Queued(caller)' = 1 .. n
    BY <2>1 DEF Queued
  <2>5. Running(caller)' = {} /\ Settled(caller)' = {} /\ Held(caller)' = {}
    BY <2>2 DEF Running, Settled, Held
  <2>6. Lost(caller)' = {}
    BY <2>5 DEF Lost
  <2>7. Halted' \in BOOLEAN
    BY <1>0, <2>6 DEF Halted, TypeOK
  <2>8. Pool!Begin
    BY <2>1, <2>3, <2>4, <2>5, <2>6, <2>7 DEF Pool!Begin
  <2> QED BY <2>8 DEF Pool!Next
<1>3. CASE c = caller /\ Spawn(caller)
  <2>1. /\ UNCHANGED <<pc, status, images, queue, outcomes, item>>
        /\ wpc[caller][spawned[caller] + 1] = "none"
        /\ \A w \in Workers :
             wpc'[caller][w] = IF w = spawned[caller] + 1 THEN "check" ELSE wpc[caller][w]
    BY <1>3, SpawnRow
  <2>2. Running(caller)' = Running(caller)
    BY <2>1 DEF Running
  <2>3. Open' = Open /\ Result' = Result
    BY <2>1 DEF Open, Result
  <2> QED BY <1>0, <2>1, <2>2, <2>3, PoolStuttersToo
<1>4. CASE c = caller /\ ~BeginBatch(caller) /\ ~Spawn(caller)
  <2>0. UNCHANGED <<images, workers, spawned, queue, outcomes, wpc, item>>
    BY <1>4, CallerLeavesWork
  <2>1. /\ UNCHANGED <<Queued(caller), Running(caller), Settled(caller), Lost(caller)>>
        /\ images'[caller] = images[caller]
    BY <2>0 DEF Queued, Running, Settled, Lost, Held
  <2>2. Halted' = Halted
    BY <1>0, <2>1 DEF Halted
  <2>3. ASSUME Open' = Open, Result' = Result PROVE UNCHANGED Pool!poolVars
    BY <2>1, <2>2, <2>3 DEF Pool!poolVars
  <2>4. ASSUME pc[caller] \in {"reset", "spawn"}, pc'[caller] = "release",
               status'[caller] = "ok", Running(caller) = {},
               Queued(caller) = {} \/ Halted
        PROVE  Pool!ReturnOk
    <3>1. Open /\ Open' = FALSE /\ Result' = "ok"
      BY <2>4 DEF Open, Result
    <3> QED BY <2>1, <2>2, <2>4, <3>1 DEF Pool!ReturnOk
  <2>5. CASE ResetForBatch(caller)
    <3>1. pc[caller] = "reset"
      BY <2>5 DEF ResetForBatch
    <3>2. CASE field[caller] < Len(ResetOrder)
      <4>1. UNCHANGED <<pc, status>>
        BY <2>5, <3>2 DEF ResetForBatch
      <4> QED BY <2>3, <4>1 DEF Open, Result
    <3>3. CASE field[caller] = Len(ResetOrder) /\ images[caller] > 0
      <4>1. images[caller] # 0
        BY <3>3
      <4>2. pc' = [pc EXCEPT ![caller] = "spawn"] /\ status' = status
        BY <2>5, <3>3, <4>1, ResetOrderLen DEF ResetForBatch
      <4>3. pc'[caller] = "spawn"
        BY <1>0, <1>00, <4>2
      <4> QED BY <2>3, <3>1, <4>2, <4>3 DEF Open, Result
    <3>4. CASE field[caller] = Len(ResetOrder) /\ images[caller] = 0
      <4>1. pc'[caller] = "release" /\ status'[caller] = "ok"
        BY <1>0, <1>00, <2>5, <3>4, ResetOrderLen DEF ResetForBatch
      <4>2. \A w \in Workers : ~LiveWorker(caller, w)
        BY <1>0, <3>1 DEF SlotExclusive
      <4>3. Running(caller) = {}
        BY <1>0, <4>2, NothingRuns
      <4>4. Queued(caller) = {}
        BY <1>0, <3>4, QueuedIs
      <4> QED BY <2>4, <3>1, <4>1, <4>3, <4>4 DEF Pool!Next
    <3> QED BY <1>0, <2>5, <3>2, <3>3, <3>4 DEF ResetForBatch
  <2>6. CASE SpawnFails(caller) \/ Rejected(caller) \/ Release(caller)
             \/ BeginDiscovery(caller) \/ EndDiscovery(caller)
    <3>1. status' = status
      BY <2>6 DEF SpawnFails, Rejected, Release, BeginDiscovery, EndDiscovery
    <3>2. Open' = Open
      BY <1>0, <1>00, <2>6 DEF Open, SpawnFails, Rejected, Release, BeginDiscovery, EndDiscovery
    <3> QED BY <2>3, <3>1, <3>2 DEF Result
  <2>7. ASSUME Join(caller) \/ JoinAfterFailure(caller) PROVE Running(caller) = {}
    <3>1. pc[caller] \in {"spawn", "join_failed"} /\ AllExited(caller)
      BY <2>7 DEF Join, JoinAfterFailure
    <3>2. \A w \in Workers : ~LiveWorker(caller, w)
      <4> TAKE w \in Workers
      <4>1. CASE w > spawned[caller]
        BY <1>0, <3>1, <4>1 DEF NotSpawnedYet, LiveWorker
      <4>2. CASE ~(w > spawned[caller])
        <5>1. spawned[caller] \in 0 .. PoolCap /\ w \in 1 .. PoolCap /\ PoolCap \in Nat
          BY <1>0, CallerAssumption, PoolCapAssumption DEF TypeOK, Workers
        <5>2. w \in 1 .. spawned[caller]
          BY <4>2, <5>1
        <5> QED BY <3>1, <5>2 DEF AllExited, LiveWorker
      <4> QED BY <4>1, <4>2
    <3> QED BY <1>0, <3>2, NothingRuns
  <2>8. CASE Join(caller)
    <3>1. /\ pc[caller] = "spawn" /\ spawned[caller] = workers[caller] /\ AllExited(caller)
          /\ pc'[caller] = "release" /\ status'[caller] = "ok"
      BY <1>0, <1>00, <2>8 DEF Join
    <3>2. ASSUME Queued(caller) # {} PROVE Halted
      <4>1. workers[caller] > 0 /\ workers[caller] \in 0 .. PoolCap
        BY <1>0, <3>1 DEF Begun, TypeOK
      <4>2. 1 \in 1 .. spawned[caller] /\ 1 \in Workers
        BY <3>1, <4>1, PoolCapAssumption DEF Workers
      <4>3. wpc[caller][1] = "exited"
        BY <3>1, <4>2 DEF AllExited
      <4>4. queue[caller] # <<>>
        BY <3>2 DEF Queued
      <4>5. CASE item[caller][1] = 0
        <5>1. token
          BY <1>0, <4>2, <4>3, <4>4, <4>5 DEF Hand
        <5> QED BY <5>1 DEF Halted
      <4>6. CASE item[caller][1] # 0
        <5>1. item[caller][1] \in Held(caller)
          BY <4>2, <4>6 DEF Held
        <5>2. Lost(caller) # {}
          BY <2>7, <2>8, <5>1 DEF Lost
        <5> QED BY <5>2 DEF Halted
      <4> QED BY <4>5, <4>6
    <3> QED BY <2>4, <2>7, <2>8, <3>1, <3>2 DEF Pool!Next
  <2>9. CASE JoinAfterFailure(caller)
    <3>1. /\ pc[caller] = "join_failed"
          /\ pc'[caller] = "release" /\ status'[caller] = "io_error"
      BY <1>0, <1>00, <2>9 DEF JoinAfterFailure
    <3>2. Open /\ Open' = FALSE /\ Result' = "error"
      BY <3>1 DEF Open, Result
    <3>3. Pool!ReturnError
      BY <2>1, <2>2, <2>7, <2>9, <3>2 DEF Pool!ReturnError
    <3> QED BY <3>3 DEF Pool!Next
  <2> QED
    BY <1>4, <2>5, <2>6, <2>8, <2>9 DEF CallerStart, CallerStep
<1> QED BY <1>1, <1>2, <1>3, <1>4

\* A worker starts the first pending image, settles the one it holds, or loses it.
LEMMA WorkerPool ==
  ASSUME SlotInv, BatchInv, NEW c \in Callers, NEW w \in Workers, WorkerStep(c, w)
  PROVE  Pool!Next \/ UNCHANGED Pool!poolVars
<1>0. /\ caller \in Callers /\ Account(caller) /\ TypeOK /\ SlotExclusive /\ HoldsItem
      /\ Hand(caller, w) /\ LiveWorker(c, w)
  BY CallerAssumption, WorkerFrame DEF BatchInv, AccountInv, Account, SlotInv, HandsInv, Hand
<1>1. /\ UNCHANGED <<pc, status, images, token>>
      /\ \A v \in Workers \ {w} :
           wpc'[c][v] = wpc[c][v] /\ item'[c][v] = item[c][v]
  BY <1>0, WorkerTouchesItsRow DEF callVars
<1>2. CASE c # caller
  <2>1. RowKept(caller)
    BY <1>0, <1>2, WorkerTouchesItsRow
  <2> QED BY <1>1, <2>1, PoolStutters
<1>3. CASE c = caller
  <2>0. /\ wpc \in [Callers -> [Workers -> WorkerPC]]
        /\ item \in [Callers -> [Workers -> 0 .. MaxImages]]
    BY <1>0 DEF TypeOK
  <2>1. Open' = Open /\ Result' = Result /\ Open
    BY <1>0, <1>1, <1>3 DEF Open, Result, SlotExclusive
  <2>2. CASE CheckCancel(c, w) \/ FetchAdd(c, w) \/ StorePercentage(c, w)
    <3>1. /\ wpc[c][w] \in {"check", "increment", "publish"}
          /\ wpc'[c][w] \in {"exited", "pop", "publish", "check"}
      BY <2>0, <2>2 DEF CheckCancel, FetchAdd, StorePercentage, Goto
    <3>2. UNCHANGED <<queue, outcomes, item>>
      BY <2>2 DEF CheckCancel, FetchAdd, StorePercentage
    <3>3. Running(caller)' = Running(caller)
      BY <1>1, <1>3, <3>1, <3>2 DEF Running
    <3> QED BY <1>1, <2>1, <3>2, <3>3, PoolStuttersToo
  <2>3. CASE Pop(c, w) /\ queue[c] = <<>>
    <3>1. /\ wpc[c][w] = "pop" /\ wpc'[c][w] = "exited" /\ UNCHANGED <<queue, outcomes, item>>
      BY <2>0, <2>3 DEF Pop, Goto
    <3>3. Running(caller)' = Running(caller)
      BY <1>1, <1>3, <3>1 DEF Running
    <3> QED BY <1>1, <2>1, <3>1, <3>3, PoolStuttersToo
  <2>4. CASE Pop(c, w) /\ queue[c] # <<>>
    <3>1. /\ wpc[c][w] = "pop" /\ wpc'[c][w] = "recheck" /\ outcomes' = outcomes
          /\ queue' = [queue EXCEPT ![c] = Tail(queue[c])]
          /\ item' = [item EXCEPT ![c][w] = Head(queue[c])]
      BY <2>0, <2>4 DEF Pop, Goto
    <3>2. /\ queue'[c] = Tail(queue[c]) /\ item[c][w] = 0
          /\ item'[c] = [item[c] EXCEPT ![w] = Head(queue[c])]
      BY <1>0, <1>3, <3>1 DEF TypeOK, Hand
    <3> DEFINE t == Head(queue[c])
    <3>3. /\ t = Popped(c) + 1 /\ Popped(c) \in Nat /\ Popped(c)' = Popped(c) + 1
          /\ t \notin Held(c) /\ Held(c)' = Held(c) \cup {t}
          /\ Settled(c)' = Settled(c)
          /\ \A v \in Workers : item'[c][v] = IF v = w THEN t ELSE item[c][v]
      BY <1>0, <1>1, <1>3, <2>4, <3>1, <3>2, PopMoves
    <3> HIDE DEF t
    <3>4. /\ Queued(c) = t .. images[c] /\ Queued(c)' = t + 1 .. images[c]
          /\ t \in Queued(c) /\ images[c] \in Nat
      <4>1. Queued(c) = Popped(c) + 1 .. images[c] /\ images[c] \in Nat
        BY <1>0, <1>3, QueuedIs
      <4>2. /\ Len(queue[c]) \in Nat /\ Len(queue'[c]) \in Nat
            /\ Len(queue'[c]) = Len(queue[c]) - 1 /\ Len(queue[c]) <= images[c]
            /\ \A k \in 1 .. Len(queue'[c]) : queue'[c][k] = t + k
        <5>1. /\ Len(queue[c]) \in Nat /\ Len(queue[c]) >= 1
              /\ Len(queue'[c]) = Len(queue[c]) - 1
              /\ \A k \in 1 .. Len(queue'[c]) : queue'[c][k] = Head(queue[c]) + k
          BY <1>0, <1>1, <1>3, <2>4, <3>1, <3>2, PopMoves
        <5> QED BY <1>0, <1>3, <5>1 DEF Account, t
      <4>3. DOMAIN queue'[c] = 1 .. Len(queue'[c])
        <5>1. queue[c] \in Seq(1 .. MaxImages)
          BY <1>0 DEF TypeOK
        <5> QED BY <2>4, <3>2, <5>1
      <4>4. t + Len(queue'[c]) = images[c] /\ t \in Nat
        BY <3>3, <4>1, <4>2 DEF Popped
      <4>5. Queued(c)' = t + 1 .. images[c]
        BY <4>1, <4>2, <4>3, <4>4, QueueSpan, ZenonT(30) DEF Queued
      <4> QED BY <3>3, <4>1, <4>2, <4>4, <4>5
    <3>5. Running(c)' = Running(c) \cup {t}
      BY <1>1, <3>1, <3>3 DEF Running
    <3>6. Lost(c)' = Lost(c)
      BY <1>0, <1>3, <3>3, <3>5, RunningHeld DEF Lost
    <3>7. Halted' = Halted
      BY <1>1, <1>3, <3>6 DEF Halted
    <3>8. Queued(c)' = Queued(c) \ {t} /\ \A u \in Queued(c) : t <= u
      BY <3>3, <3>4
    <3>9. Pool!Start
      BY <1>1, <1>3, <2>1, <3>3, <3>4, <3>5, <3>6, <3>7, <3>8 DEF Pool!Start
    <3> QED BY <3>9 DEF Pool!Next
  <2>5. ASSUME wpc[c][w] \in {"recheck", "inspect"}, wpc'[c][w] = "exited",
               UNCHANGED <<queue, outcomes, item>>
        PROVE  Pool!Lose
    <3>1. item[c][w] # 0
      BY <1>0, <2>5 DEF HoldsItem
    <3>2. Running(c)' = Running(c) \ {item[c][w]} /\ item[c][w] \in Running(c)
      BY <1>0, <1>1, <1>3, <2>5, <3>1, RunningLoses
    <3>3. Queued(c)' = Queued(c) /\ Settled(c)' = Settled(c) /\ Held(c)' = Held(c)
      BY <2>5 DEF Queued, Settled, Held
    <3>4. Lost(c)' = Lost(c) \cup {item[c][w]}
      BY <1>0, <1>3, <3>2, <3>3, RunningHeld DEF Lost
    <3>5. Halted' = TRUE
      BY <1>3, <3>4 DEF Halted
    <3> QED BY <1>1, <1>3, <2>1, <3>2, <3>3, <3>4, <3>5 DEF Pool!Lose
  <2>6. CASE RecheckCancel(c, w)
    <3>1. /\ wpc[c][w] = "recheck" /\ UNCHANGED <<queue, outcomes, item>>
          /\ wpc'[c][w] = IF token THEN "exited" ELSE "inspect"
      BY <2>0, <2>6 DEF RecheckCancel, Goto
    <3>2. CASE token
      BY <2>5, <3>1, <3>2 DEF Pool!Next
    <3>3. CASE ~token
      <4>1. Running(caller)' = Running(caller)
        BY <1>1, <1>3, <3>1, <3>3 DEF Running
      <4> QED BY <1>1, <2>1, <3>1, <4>1, PoolStuttersToo
    <3> QED BY <3>2, <3>3
  <2>7. CASE InspectPanics(c, w)
    <3>1. /\ wpc[c][w] = "inspect" /\ UNCHANGED <<queue, outcomes, item>>
          /\ wpc'[c][w] = "exited"
      BY <2>0, <2>7 DEF InspectPanics, Goto
    <3> QED BY <2>5, <3>1 DEF Pool!Next
  <2>8. CASE Inspect(c, w)
    <3>1. /\ wpc[c][w] = "inspect" /\ wpc'[c][w] = "increment" /\ queue' = queue
          /\ item' = [item EXCEPT ![c][w] = 0]
      BY <2>0, <2>8 DEF Inspect, Goto
    <3>2. item[c][w] # 0 /\ item[c][w] \in 1 .. MaxImages
      <4>1. item[c][w] # 0
        BY <1>0, <3>1 DEF HoldsItem
      <4>2. item[c][w] \in 0 .. MaxImages
        BY <2>0
      <4> QED BY <4>1, <4>2
    <3>3. PICK k \in Kinds :
            outcomes' = [outcomes EXCEPT
              ![c] = Append(outcomes[c], [index |-> item[c][w], kind |-> k])]
      BY <2>8 DEF Inspect
    <3>4. outcomes'[c] = Append(outcomes[c], [index |-> item[c][w], kind |-> k])
      BY <1>0, <3>3 DEF TypeOK
    <3>5. [index |-> item[c][w], kind |-> k] \in Outcome
      BY <3>2 DEF Outcome
    <3>6. PICK o \in Outcome :
            o.index = item[c][w] /\ outcomes'[c] = Append(outcomes[c], o)
      BY <3>4, <3>5
    <3>7. \A v \in Workers : item'[c][v] = IF v = w THEN 0 ELSE item[c][v]
      BY <2>0, <3>1
    <3>8. /\ Settled(c)' = Settled(c) \cup {item[c][w]}
          /\ Held(c)' = Held(c) \ {item[c][w]} /\ item[c][w] \in Held(c)
      BY <1>0, <1>3, <3>2, <3>6, <3>7, PushMoves
    <3>9. Running(c)' = Running(c) \ {item[c][w]} /\ item[c][w] \in Running(c)
      BY <1>0, <1>1, <1>3, <3>1, <3>2, RunningLoses
    <3>10. Lost(c)' = Lost(c) /\ Queued(c)' = Queued(c)
      BY <3>1, <3>8, <3>9 DEF Lost, Queued
    <3>11. Halted' = Halted
      BY <1>1, <1>3, <3>10 DEF Halted
    <3>12. Pool!Settle
      BY <1>1, <1>3, <2>1, <3>8, <3>9, <3>10, <3>11 DEF Pool!Settle
    <3> QED BY <3>12 DEF Pool!Next
  <2> QED BY <2>2, <2>3, <2>4, <2>6, <2>7, <2>8 DEF WorkerStep
<1> QED BY <1>2, <1>3

\* The batches of every caller implement the abstract pool, with any number of
\* other callers, whatever the token does and whichever threads die.
THEOREM BatchesImplementPool == Spec => ImplementsPool
<1>1. Init => Pool!Init
  <2> SUFFICES ASSUME Init PROVE Pool!Init
    OBVIOUS
  <2>1. /\ pc[caller] = "idle" /\ images[caller] = 0 /\ status[caller] = "none"
        /\ queue[caller] = <<>> /\ outcomes[caller] = <<>>
        /\ wpc[caller] = [w \in Workers |-> "none"]
        /\ item[caller] = [w \in Workers |-> 0]
    BY CallerAssumption DEF Init
  <2>2. Open = FALSE /\ Result = "none"
    BY <2>1 DEF Open, Result
  <2>3. /\ Queued(caller) = {} /\ Running(caller) = {} /\ Settled(caller) = {}
        /\ Held(caller) = {}
    BY <2>1 DEF Queued, Running, Settled, Held
  <2>4. Lost(caller) = {}
    BY <2>3 DEF Lost
  <2>5. Halted \in BOOLEAN
    <3>1. token \in BOOLEAN
      BY Zenon DEF Init
    <3> QED BY <2>4, <3>1 DEF Halted
  <2> QED BY <2>1, <2>2, <2>3, <2>4, <2>5 DEF Pool!Init
<1>2. SlotInv /\ BatchInv /\ [Next]_vars => [Pool!Next]_(Pool!poolVars)
  <2> SUFFICES ASSUME SlotInv, BatchInv, [Next]_vars
               PROVE  Pool!Next \/ UNCHANGED Pool!poolVars
    OBVIOUS
  <2>1. ASSUME NEW c \in Callers, CallerStart(c) \/ CallerStep(c)
        PROVE  Pool!Next \/ UNCHANGED Pool!poolVars
    BY <2>1, CallerPool
  <2>2. ASSUME NEW c \in Callers, NEW w \in Workers, WorkerStep(c, w)
        PROVE  Pool!Next \/ UNCHANGED Pool!poolVars
    BY <2>2, WorkerPool
  <2>3. CASE CancelStep \/ UNCHANGED vars
    <3>1. UNCHANGED <<pc, field, images, workers, spawned, status, queue, outcomes, wpc, item>>
      BY <2>3, CancelFrame
    <3>2. RowKept(caller)
      BY <3>1 DEF RowKept
    <3>3. CASE token' = token
      BY <3>2, <3>3, PoolStutters
    <3>4. CASE token' = TRUE
      <4>1. /\ UNCHANGED <<Queued(caller), Running(caller), Settled(caller), Lost(caller)>>
            /\ UNCHANGED <<Open, Result>> /\ images'[caller] = images[caller]
        BY <3>1 DEF Queued, Running, Settled, Lost, Held, Open, Result
      <4>2. Halted' = TRUE
        BY <3>4 DEF Halted
      <4>3. Pool!Halt
        BY <4>1, <4>2 DEF Pool!Halt
      <4> QED BY <4>3 DEF Pool!Next
    <3>5. token' = token \/ token' = TRUE
      BY <2>3 DEF CancelStep, EngineCancel, ProgressCancel, ProgressCancelLink, vars
    <3> QED BY <3>3, <3>4, <3>5
  <2> QED BY <2>1, <2>2, <2>3 DEF Next
<1> QED
  BY <1>1, <1>2, BatchInvariant, PTL DEF Spec, ImplementsPool, Pool!Spec

\* So what is proved of the pool holds of them: each image is in one place, a
\* batch that returned has nothing running, and one that nothing halted returns Ok
\* only with every image settled.
THEOREM BatchesKeepThePromise == Spec => [](Pool!Conserved /\ Pool!Promise)
<1>1. Pool!Spec => []Pool!PoolInv
  BY BoundsAssumption, Pool!PoolKeepsPromise
<1>2. Pool!PoolInv => Pool!Conserved /\ Pool!Promise
  BY DEF Pool!PoolInv
<1> QED BY <1>1, <1>2, BatchesImplementPool, PTL DEF ImplementsPool

-----------------------------------------------------------------------------
(* Polled progress. *)

\* What a quotient is.
LEMMA DivFact ==
  ASSUME NEW x \in Nat, NEW n \in Nat \ {0}
  PROVE  x \div n \in Nat /\ n * (x \div n) <= x /\ x < n * (x \div n) + n
OBVIOUS

\* Division by a positive number keeps the order.
LEMMA DivMonotone ==
  ASSUME NEW x \in Nat, NEW y \in Nat, x <= y, NEW n \in Nat \ {0}
  PROVE  x \div n <= y \div n
<1> DEFINE p == x \div n
           q == y \div n
<1>1. /\ p \in Nat /\ n * p <= x
      /\ q \in Nat /\ y < n * q + n
  BY DivFact
<1> HIDE DEF p, q
<1>2. ASSUME p >= q + 1 PROVE FALSE
  <2>1. n * p >= n * (q + 1)
    BY <1>1, <1>2
  <2>2. n * (q + 1) = n * q + n
    BY <1>1
  <2>3. n * p \in Int /\ n * q \in Int
    BY <1>1
  <2> QED BY <1>1, <2>1, <2>2, <2>3
<1>3. p <= q
  BY <1>1, <1>2
<1> QED BY <1>3 DEF p, q

\* task_completion_percentage does not go back when more tasks are done, and
\* is 100 only when they all are.
LEMMA PercentMonotone ==
  ASSUME NEW a \in Nat, NEW b \in Nat, a <= b, NEW all \in Nat
  PROVE  PercentOf(a, all) <= PercentOf(b, all)
<1> DEFINE Capped(d) == IF d > all THEN all ELSE d
<1>1. CASE all = 0
  BY <1>1 DEF PercentOf
<1>2. CASE all # 0
  <2>1. /\ Capped(a) * 100 \in Nat /\ Capped(b) * 100 \in Nat
        /\ Capped(a) * 100 <= Capped(b) * 100
    OBVIOUS
  <2>2. (Capped(a) * 100) \div all <= (Capped(b) * 100) \div all
    BY <1>2, <2>1, DivMonotone
  <2> QED BY <1>2, <2>2 DEF PercentOf
<1> QED BY <1>1, <1>2

\* A percentage of 100 means that every task is done.
LEMMA PercentFull ==
  ASSUME NEW a \in Nat, NEW all \in Nat, PercentOf(a, all) = 100
  PROVE  a >= all
<1> SUFFICES ASSUME a < all PROVE FALSE
  OBVIOUS
<1>1. (a * 100) \div all = 100
  BY DEF PercentOf
<1>2. all * 100 <= a * 100
  BY <1>1, DivFact
<1> QED BY <1>2

\* Only reset_for_batch writes the plan, and it is never at work while a batch
\* is running; meanwhile the counter only grows.
LEMMA PlanKept ==
  ASSUME SlotInv, Next, BatchRunning
  PROVE  total' = total /\ completed' \in Nat /\ completed <= completed'
<1>0. TypeOK /\ SlotExclusive /\ completed \in Nat
  BY DEF SlotInv, TypeOK
<1>1. PICK b \in Callers : InBatch(b)
  BY DEF BatchRunning
<1>2. ASSUME NEW c \in Callers, CallerStart(c) \/ CallerStep(c)
      PROVE  total' = total /\ completed' = completed
  <2>1. ~ResetForBatch(c)
    BY <1>0, <1>1 DEF ResetForBatch, SlotExclusive, InBatch
  <2> QED
    BY <1>2, <2>1 DEF CallerStart, CallerStep, Rejected, Release, BeginDiscovery,
         EndDiscovery, BeginBatch, Spawn, SpawnFails, Join, JoinAfterFailure, progressVars
<1>3. ASSUME NEW c \in Callers, NEW w \in Workers, WorkerStep(c, w)
      PROVE  total' = total /\ (completed' = completed \/ completed' = completed + 1)
  BY <1>3 DEF WorkerStep, CheckCancel, Pop, RecheckCancel, Inspect, InspectPanics,
       FetchAdd, StorePercentage, progressVars
<1>4. CASE CancelStep
  BY <1>0, <1>4, CancelFrame
<1> QED BY <1>0, <1>2, <1>3, <1>4 DEF Next

\* A batch without images never gets a thread that would store a percentage.
LEMMA EmptyStep ==
  ASSUME SlotInv, BatchInv, EmptyInv, [Next]_vars
  PROVE  EmptyInv'
<1> DEFINE Empty(c) == /\ pc[c] = "reset" /\ field[c] > 2 => percentage = 0
                       /\ InBatch(c) /\ images[c] = 0 => percentage = 0
<1> SUFFICES ASSUME NEW e \in Callers PROVE Empty(e)'
  BY DEF EmptyInv
<1>0. /\ TypeOK /\ SlotExclusive /\ Empty(e) /\ Begun(e)
      /\ pc \in [Callers -> CallerPC] /\ field \in [Callers -> 1 .. 4]
      /\ images[e] \in Nat
  BY ResetOrderLen, BoundsAssumption
     DEF SlotInv, TypeOK, EmptyInv, BatchInv, ResetInv, Begun
<1>1. ASSUME NEW c \in Callers, CallerStart(c) \/ CallerStep(c) PROVE Empty(e)'
  <2>1. CASE ResetForBatch(c)
    <3>1. pc[c] = "reset"
      BY <2>1 DEF ResetForBatch
    <3>2. CASE e # c
      <4>1. RowKept(e) /\ pc[e] = "idle"
        BY <1>0, <1>1, <3>1, <3>2, CallerTouchesItsRow, OthersIdle
      <4> QED BY <4>1 DEF RowKept, InBatch
    <3>3. CASE e = c
      <4>1. percentage' = IF ResetOrder[field[c]] = "percentage" THEN 0 ELSE percentage
        BY <2>1 DEF ResetForBatch
      <4>2. field[c] >= 2 => percentage' = 0
        <5>1. CASE field[c] = 2
          BY <4>1, <5>1 DEF ResetOrder
        <5>2. CASE field[c] > 2
          BY <1>0, <3>1, <3>3, <4>1, <5>2
        <5> QED BY <1>0, <5>1, <5>2
      <4>3. CASE field[c] < Len(ResetOrder)
        <5>1. pc' = pc /\ field' = [field EXCEPT ![c] = field[c] + 1]
          BY <2>1, <4>3 DEF ResetForBatch
        <5>2. field'[c] = field[c] + 1
          BY <1>0, <5>1
        <5> QED BY <1>0, <3>1, <3>3, <4>2, <5>1, <5>2 DEF InBatch
      <4>4. CASE ~(field[c] < Len(ResetOrder))
        <5>1. field[c] >= 2
          BY <1>0, <4>4, ResetOrderLen
        <5> QED BY <3>3, <4>2, <5>1
      <4> QED BY <4>3, <4>4
    <3> QED BY <3>2, <3>3
  <2>2. CASE ~ResetForBatch(c)
    <3>1. percentage' = percentage
      BY <1>1, <2>2 DEF CallerStart, CallerStep, Rejected, Release, BeginDiscovery,
           EndDiscovery, BeginBatch, Spawn, SpawnFails, Join, JoinAfterFailure, progressVars
    <3>2. CASE e # c
      <4>1. RowKept(e)
        BY <1>0, <1>1, <3>2, CallerTouchesItsRow
      <4> QED BY <1>0, <3>1, <4>1 DEF RowKept, InBatch
    <3>3. CASE e = c /\ BeginBatch(c)
      <4>1. pc'[c] = "reset" /\ field'[c] = 1
        BY <1>0, <3>3, BeginRow
      <4> QED BY <3>3, <4>1 DEF InBatch
    <3>4. CASE e = c /\ ~BeginBatch(c)
      <4>1. images' = images
        BY <1>1, <3>4, CallerLeavesWork, SpawnRow
      <4>2. \/ pc' = pc /\ field' = field
            \/ pc'[c] \in {"idle", "discover"}
            \/ InBatch(c) /\ pc'[c] # "reset"
        BY <1>0, <1>1, <2>2, <3>4
           DEF CallerStart, CallerStep, Rejected, Release, BeginDiscovery,
               EndDiscovery, Spawn, SpawnFails, Join, JoinAfterFailure, InBatch
      <4> QED BY <1>0, <3>1, <3>4, <4>1, <4>2 DEF InBatch
    <3> QED BY <3>2, <3>3, <3>4
  <2> QED BY <2>1, <2>2
<1>2. ASSUME NEW c \in Callers, NEW w \in Workers, WorkerStep(c, w) PROVE Empty(e)'
  <2>1. pc[c] \in {"spawn", "join_failed"}
    BY <1>0, <1>2, WorkerFrame DEF SlotExclusive
  <2>2. UNCHANGED <<pc, images, field>>
    BY <1>0, <1>2, WorkerTouchesItsRow DEF callVars
  <2>3. CASE e = c
    BY <1>0, <2>1, <2>2, <2>3 DEF Begun
  <2>4. CASE e # c
    <3>1. pc[e] = "idle"
      BY <1>0, <2>1, <2>4, OthersIdle
    <3> QED BY <2>2, <3>1 DEF InBatch
  <2> QED BY <2>3, <2>4
<1>3. CASE CancelStep \/ UNCHANGED vars
  <2>1. UNCHANGED <<pc, field, images, percentage>>
    BY <1>3, CancelFrame
  <2> QED BY <1>0, <2>1 DEF InBatch
<1> QED BY <1>1, <1>2, <1>3 DEF Next

\* The poller only reads: what it runs beside is the batch engine.
LEMMA PollingIsBatching == PollSpec => Spec
<1>1. PollInit => Init
  BY DEF PollInit
<1>2. [PollNext]_allVars => [Next]_vars
  BY DEF PollNext, EngineStep, SnapshotTotal, SnapshotCompleted, allVars
<1> QED BY <1>1, <1>2, PTL DEF PollSpec, Spec

\* What a snapshot of the running batch would show now is a natural number.
LEMMA ShownType ==
  ASSUME TypeOK
  PROVE  SnapshotPercentage(total, completed) \in Nat
<1>1. total \in Nat /\ completed \in Nat /\ percentage \in Nat
  BY DEF TypeOK
<1> QED BY <1>1, PercentType DEF SnapshotPercentage

\* The invariant of the poller survives its own loads and every step of the engine.
LEMMA PollStep ==
  ASSUME SlotInv, SlotInv', BatchInv, EmptyInv, PollInv, [PollNext]_allVars
  PROVE  PollInv'
<1>0. /\ TypeOK /\ TypeOK' /\ completed \in Nat /\ total \in Nat /\ percentage \in Nat
      /\ SnapshotPercentage(total, completed) \in Nat
      /\ torn \in BOOLEAN /\ high \in Nat
  BY ShownType DEF SlotInv, TypeOK, PollInv
<1>1. CASE EngineStep
  <2>1. /\ Next /\ torn' = (torn \/ ~BatchRunning') /\ loads' = loads
        /\ high' = IF BatchRunning' THEN high ELSE 0
    BY <1>1 DEF EngineStep
  <2>2. torn' \in BOOLEAN /\ high' \in Nat
    BY <1>0, <2>1
  <2>3. ~torn' => BatchRunning' /\ loads' = <<total>>'
    BY <2>1, PlanKept DEF PollInv
  <2>4. ~BatchRunning' => high' = 0
    BY <2>1
  <2>5. ASSUME BatchRunning' PROVE high' <= SnapshotPercentage(total, completed)'
    <3>0. completed' \in Nat /\ total' \in Nat /\ percentage' \in Nat
      BY <1>0 DEF TypeOK
    <3>1. SnapshotPercentage(total, completed)' \in Nat
      BY <3>0, PercentType DEF SnapshotPercentage
    <3>2. CASE ~BatchRunning
      BY <2>1, <2>5, <3>1, <3>2 DEF PollInv
    <3>3. CASE BatchRunning
      <4>1. total' = total /\ completed <= completed'
        BY <2>1, <3>3, PlanKept
      <4>2. high <= SnapshotPercentage(total, completed) /\ high' = high
        BY <2>1, <2>5, <3>3 DEF PollInv
      <4>3. CASE total > 0
        <5>1. PercentOf(completed, total) <= PercentOf(completed', total)
          BY <1>0, <3>0, <4>1, PercentMonotone
        <5>2. /\ SnapshotPercentage(total, completed) = PercentOf(completed, total)
              /\ SnapshotPercentage(total, completed)' = PercentOf(completed', total)
          BY <4>1, <4>3 DEF SnapshotPercentage
        <5>3. PercentOf(completed, total) \in Nat /\ PercentOf(completed', total) \in Nat
          BY <1>0, <3>0, PercentType
        <5> QED BY <1>0, <4>2, <5>1, <5>2, <5>3
      <4>4. CASE total = 0
        <5>1. PICK c \in Callers : InBatch(c)
          BY <3>3 DEF BatchRunning
        <5>2. images[c] = 0
          BY <4>4, <5>1 DEF BatchInv, ProgressExact
        <5>3. percentage = 0
          BY <5>1, <5>2 DEF EmptyInv
        <5>4. high = 0
          BY <1>0, <4>2, <4>4, <5>3 DEF SnapshotPercentage
        <5> QED BY <3>1, <4>2, <5>4
      <4> QED BY <1>0, <4>3, <4>4
    <3> QED BY <3>2, <3>3
  <2> QED BY <2>2, <2>3, <2>4, <2>5 DEF PollInv
<1>2. ASSUME UNCHANGED vars
      PROVE  /\ BatchRunning' = BatchRunning /\ total' = total
             /\ SnapshotPercentage(total, completed)' = SnapshotPercentage(total, completed)
  <2>1. UNCHANGED <<pc, total, completed, percentage>>
    BY <1>2 DEF vars, progressVars, callVars
  <2> QED BY <2>1 DEF BatchRunning, InBatch, SnapshotPercentage
<1>3. CASE SnapshotTotal
  <2>1. UNCHANGED vars /\ loads' = <<total>> /\ torn' = ~BatchRunning /\ high' = high
    BY <1>3 DEF SnapshotTotal
  <2>2. torn' \in BOOLEAN
    BY <2>1
  <2> QED BY <1>0, <1>2, <2>1, <2>2 DEF PollInv
<1>4. CASE SnapshotCompleted
  <2>1. /\ UNCHANGED vars /\ torn' = TRUE
        /\ high' = IF torn THEN high ELSE snapshot'.percentage
        /\ snapshot' = [total_tasks     |-> loads[1],
                        completed_tasks |-> completed,
                        percentage      |-> SnapshotPercentage(loads[1], completed)]
    BY <1>4 DEF SnapshotCompleted
  <2>2. CASE torn
    BY <1>0, <1>2, <2>1, <2>2 DEF PollInv
  <2>3. CASE ~torn
    <3>1. loads[1] = total /\ BatchRunning
      BY <2>3 DEF PollInv
    <3>2. high' = SnapshotPercentage(total, completed)
      BY <2>1, <2>3, <3>1
    <3> QED BY <1>0, <1>2, <2>1, <3>1, <3>2 DEF PollInv
  <2> QED BY <1>0, <2>2, <2>3
<1>5. CASE UNCHANGED allVars
  <2>1. UNCHANGED vars /\ UNCHANGED <<loads, torn, high>>
    BY <1>5 DEF allVars, pollVars
  <2> QED BY <1>0, <1>2, <2>1 DEF PollInv
<1> QED BY <1>1, <1>3, <1>4, <1>5 DEF PollNext

\* The invariant of a polled batch.
THEOREM PollInvariant == PollSpec => [](SlotInv /\ BatchInv /\ EmptyInv /\ PollInv)
<1>1. PollInit => EmptyInv /\ PollInv
  <2> SUFFICES ASSUME PollInit PROVE EmptyInv /\ PollInv
    OBVIOUS
  <2>1. pc = [c \in Callers |-> "idle"] /\ torn = TRUE /\ high = 0
    BY DEF PollInit, Init
  <2>2. ~BatchRunning
    BY <2>1 DEF BatchRunning, InBatch
  <2> QED BY <2>1, <2>2 DEF EmptyInv, InBatch, PollInv
<1>2. [PollNext]_allVars => [Next]_vars
  BY DEF PollNext, EngineStep, SnapshotTotal, SnapshotCompleted, allVars
<1>3. SlotInv /\ SlotInv' /\ BatchInv /\ EmptyInv /\ PollInv /\ [PollNext]_allVars
        => EmptyInv' /\ PollInv'
  BY <1>2, EmptyStep, PollStep
<1> QED BY <1>1, <1>3, PollingIsBatching, BatchInvariant, PTL DEF PollSpec

\* The snapshots a poller takes of one batch never go backwards, and one that
\* shows 100% means that every image of the batch has its outcome.
THEOREM PolledProgressHolds == PollSpec => PolledProgress
<1> DEFINE Honest == SnapshotCompleted /\ ~torn =>
                       /\ snapshot'.percentage >= high
                       /\ snapshot'.percentage = 100 => ~UnsettledBatch
<1>1. SlotInv /\ BatchInv /\ EmptyInv /\ PollInv => [Honest]_allVars
  <2> SUFFICES ASSUME SlotInv, BatchInv, EmptyInv, PollInv, SnapshotCompleted, ~torn
               PROVE  /\ snapshot'.percentage >= high
                      /\ snapshot'.percentage = 100 => ~UnsettledBatch
    OBVIOUS
  <2>0. /\ TypeOK /\ completed \in Nat /\ total \in Nat /\ high \in Nat
        /\ SnapshotPercentage(total, completed) \in Nat
    BY ShownType DEF SlotInv, TypeOK, PollInv
  <2>1. BatchRunning /\ loads[1] = total /\ high <= SnapshotPercentage(total, completed)
    BY DEF PollInv
  <2>2. snapshot'.percentage = SnapshotPercentage(total, completed)
    BY <2>1 DEF SnapshotCompleted
  <2>3. ASSUME SnapshotPercentage(total, completed) = 100, UnsettledBatch PROVE FALSE
    <3>1. PICK c \in Callers : InBatch(c) /\ Len(outcomes[c]) < images[c]
      BY <2>3 DEF UnsettledBatch
    <3>2. /\ total = images[c]
          /\ completed + Cardinality(Adding(c)) = Len(outcomes[c])
      BY <3>1 DEF BatchInv, ProgressExact, Adding
    <3>3. Cardinality(Adding(c)) \in Nat /\ Len(outcomes[c]) \in Nat
      <4>1. outcomes[c] \in Seq(Outcome)
        BY <2>0 DEF TypeOK
      <4> QED BY <4>1, AddingFinite
    <3>4. completed < total
      BY <2>0, <3>1, <3>2, <3>3
    <3>5. PercentOf(completed, total) = 100
      BY <2>0, <2>3, <3>4 DEF SnapshotPercentage
    <3> QED BY <2>0, <3>4, <3>5, PercentFull
  <2> QED BY <2>0, <2>1, <2>2, <2>3
<1> QED BY <1>1, PollInvariant, PTL DEF PolledProgress
=============================================================================
