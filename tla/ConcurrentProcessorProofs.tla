---------------------- MODULE ConcurrentProcessorProofs ----------------------
(***************************************************************************)
(* Proofs about process_in_parallel, for every item list, every pool cap   *)
(* and every behaviour of the task function, panics included: no result is *)
(* lost or reordered, an error surfaces, what is left in the queue is      *)
(* explained, the percentage never goes back, and the call implements the  *)
(* abstract pool.                                                          *)
(***************************************************************************)
EXTENDS ConcurrentProcessor, FiniteSetTheorems, TLAPS

-----------------------------------------------------------------------------
(* The arithmetic of the pool. *)

\* The clamp leaves a pool without threads exactly when there is nothing to do.
LEMMA PoolSizeFact ==
  ASSUME NEW requested \in Nat, NEW n \in Nat, NEW cap \in Nat \ {0}
  PROVE  /\ PoolSizeOf(requested, n, cap) \in 0 .. cap
         /\ n > 0 <=> PoolSizeOf(requested, n, cap) > 0
BY DEF PoolSizeOf

\* What a quotient is.
LEMMA Quotient ==
  ASSUME NEW x \in Nat, NEW n \in Nat \ {0}
  PROVE  x \div n \in Nat /\ n * (x \div n) <= x /\ x < n * (x \div n) + n
OBVIOUS

\* Division by a positive number keeps the order.
LEMMA QuotientGrows ==
  ASSUME NEW x \in Nat, NEW y \in Nat, x <= y, NEW n \in Nat \ {0}
  PROVE  x \div n <= y \div n
<1> DEFINE p == x \div n
           q == y \div n
<1>1. p \in Nat /\ n * p <= x /\ q \in Nat /\ y < n * q + n
  BY Quotient
<1> HIDE DEF p, q
<1>2. ASSUME p >= q + 1 PROVE FALSE
  <2>1. n * p >= n * (q + 1)
    BY <1>1, <1>2
  <2>2. n * (q + 1) = n * q + n /\ n * p \in Int /\ n * q \in Int
    BY <1>1
  <2> QED BY <1>1, <2>1, <2>2
<1>3. p <= q
  BY <1>1, <1>2
<1> QED BY <1>3 DEF p, q

\* The percentage is a natural number and does not go back when more is done.
LEMMA PercentGrows ==
  ASSUME NEW a \in Nat, NEW b \in Nat, a <= b, NEW all \in Nat
  PROVE  /\ PercentOf(a, all) \in Nat /\ PercentOf(b, all) \in Nat
         /\ PercentOf(a, all) <= PercentOf(b, all)
<1> DEFINE Capped(d) == IF d > all THEN all ELSE d
<1>1. CASE all = 0
  BY <1>1 DEF PercentOf
<1>2. CASE all # 0
  <2>1. /\ Capped(a) * 100 \in Nat /\ Capped(b) * 100 \in Nat
        /\ Capped(a) * 100 <= Capped(b) * 100
    OBVIOUS
  <2>2. (Capped(a) * 100) \div all <= (Capped(b) * 100) \div all
    BY <1>2, <2>1, QuotientGrows
  <2>3. (Capped(a) * 100) \div all \in Nat /\ (Capped(b) * 100) \div all \in Nat
    BY <1>2, <2>1, Quotient
  <2> QED BY <1>2, <2>2, <2>3 DEF PercentOf
<1> QED BY <1>1, <1>2

-----------------------------------------------------------------------------
(* Frames. *)

\* Worker v is where it was and holds what it held.
Still(v) == wpc'[v] = wpc[v] /\ item'[v] = item[v] /\ seen'[v] = seen[v]

\* A worker step happens while the caller is between the first spawn and the
\* joins, moves that worker alone and leaves the caller's variables alone.
LEMMA WorkerFrame ==
  ASSUME TypeOK, CallInv, NEW w \in Workers, WorkerStep(w)
  PROVE  /\ pc = "spawn" /\ w <= tried /\ size > 0
         /\ wpc[w] \notin {"none", "exited"} /\ wpc'[w] # "none"
         /\ UNCHANGED <<callVars, token, total>>
         /\ \A v \in Workers \ {w} : Still(v)
<1>0. /\ wpc \in [Workers -> WorkerPC] /\ item \in [Workers -> 0 .. MaxItems]
      /\ seen \in [Workers -> Nat] /\ pc \in CallerPC /\ tried \in Nat /\ w \in Nat
      /\ size \in Nat
  BY ProcessorAssumption DEF TypeOK, Workers
<1>1. wpc[w] \notin {"none", "exited"} /\ UNCHANGED <<callVars, token, total>>
  BY DEF WorkerStep, CheckCancel, Pop, RecheckCancel, RunTask, PushResult, FetchAdd,
         StorePercentage, StoreError
<1>2. pc = "spawn" /\ w <= tried /\ size > 0
  BY <1>0, <1>1 DEF CallInv, CallerPC, Workers
<1>3. \A v \in Workers \ {w} : Still(v)
  <2> USE DEF Still
  <2>1. CASE CheckCancel(w) \/ RecheckCancel(w)
    BY <1>0, <2>1 DEF CheckCancel, RecheckCancel
  <2>2. CASE Pop(w)
    BY <1>0, <2>2 DEF Pop
  <2>3. CASE RunTask(w)
    <3>1. PICK s : wpc' = [wpc EXCEPT ![w] = s]
      BY <2>3 DEF RunTask
    <3> QED BY <1>0, <2>3, <3>1 DEF RunTask
  <2>4. CASE PushResult(w)
    BY <1>0, <2>4 DEF PushResult
  <2>5. CASE FetchAdd(w) \/ StorePercentage(w)
    BY <1>0, <2>5 DEF FetchAdd, StorePercentage
  <2>6. CASE StoreError(w)
    BY <1>0, <2>6 DEF StoreError
  <2> QED BY <2>1, <2>2, <2>3, <2>4, <2>5, <2>6 DEF WorkerStep
<1>4. wpc'[w] # "none"
  BY <1>0 DEF WorkerStep, CheckCancel, Pop, RecheckCancel, RunTask, PushResult, FetchAdd,
         StorePercentage, StoreError
<1> QED BY <1>1, <1>2, <1>3, <1>4

\* Where the task function's verdict sends the worker, and what it records.
LEMMA RunFrame ==
  ASSUME TypeOK, NEW w \in Workers, RunTask(w), item[w] # 0
  PROVE  \E v \in Verdicts \ {"none"} :
           /\ \A i \in 1 .. MaxItems : verdict'[i] = IF i = item[w] THEN v ELSE verdict[i]
           /\ item[w] \in 1 .. MaxItems /\ verdict' \in [1 .. MaxItems -> Verdicts]
           /\ wpc' = [wpc EXCEPT ![w] = wpc'[w]]
           /\ v = "ok" => wpc'[w] = "push"
           /\ v = "error" => wpc'[w] = "store_error"
           /\ v \notin {"ok", "error"} => wpc'[w] = "exited"
<1>0. /\ wpc \in [Workers -> WorkerPC] /\ item[w] \in 1 .. MaxItems
      /\ verdict \in [1 .. MaxItems -> Verdicts]
  BY ProcessorAssumption DEF TypeOK
<1>1. PICK v \in Verdicts \ {"none"} :
        /\ verdict' = [verdict EXCEPT ![item[w]] = v]
        /\ wpc' = [wpc EXCEPT ![w] = CASE v = "ok"    -> "push"
                                       [] v = "error" -> "store_error"
                                       [] OTHER       -> "exited"]
  BY DEF RunTask
<1>2. /\ v = "ok" => wpc'[w] = "push"
      /\ v = "error" => wpc'[w] = "store_error"
      /\ v \notin {"ok", "error"} => wpc'[w] = "exited"
  BY <1>0, <1>1
<1>3. wpc' = [wpc EXCEPT ![w] = wpc'[w]]
  BY <1>0, <1>1
<1>4. \A i \in 1 .. MaxItems : verdict'[i] = IF i = item[w] THEN v ELSE verdict[i]
  BY <1>0, <1>1
<1>5. verdict' \in [1 .. MaxItems -> Verdicts]
  BY <1>0, <1>1
<1> QED BY <1>0, <1>2, <1>3, <1>4, <1>5

-----------------------------------------------------------------------------
(* The invariant, part by part. *)

\* The calling thread's variables, and the cancellation, keep their types.
LEMMA CallerTypes ==
  ASSUME TypeOK, CallerStep \/ Cancel \/ UNCHANGED vars
  PROVE  TypeOK'
<1>1. CASE Call
  <2>1. PICK n \in 0 .. MaxItems, requested \in WorkerRequests :
          /\ size' = n /\ workers' = PoolSizeOf(requested, n, PoolCap)
          /\ queue' = [i \in 1 .. n |-> i]
    BY <1>1 DEF Call
  <2>2. workers' \in 0 .. PoolCap
    BY <2>1, ProcessorAssumption, PoolSizeFact
  <2>3. queue' \in Seq(1 .. MaxItems) /\ size' \in 0 .. MaxItems
    BY <2>1, ProcessorAssumption
  <2>4. pc' \in CallerPC
    BY <1>1 DEF Call, CallerPC
  <2> QED BY <1>1, <2>2, <2>3, <2>4 DEF Call, TypeOK
<1>2. CASE Enter
  <2>1. total' \in Nat /\ pc' \in CallerPC /\ answer' \in {"none", "ok", "error"}
    BY <1>2, ProcessorAssumption DEF Enter, TypeOK, CallerPC
  <2> QED BY <1>2, <2>1 DEF Enter, TypeOK, sharedVars
<1>3. CASE Spawn
  <2>1. tried' \in 0 .. PoolCap /\ tried + 1 \in Workers
    BY <1>3, ProcessorAssumption DEF Spawn, TypeOK, Workers
  <2>2. wpc' = wpc \/ wpc' = [wpc EXCEPT ![tried + 1] = "check"]
    BY <1>3 DEF Spawn
  <2>3. wpc' \in [Workers -> WorkerPC]
    BY <2>1, <2>2 DEF TypeOK, WorkerPC
  <2> QED BY <1>3, <2>1, <2>3 DEF Spawn, TypeOK, sharedVars
<1>4. CASE JoinAll
  <2>1. pc' \in CallerPC
    BY <1>4 DEF JoinAll, CallerPC
  <2> QED BY <1>4, <2>1 DEF JoinAll, TypeOK, sharedVars
<1>5. CASE Return
  <2>1. pc' \in CallerPC /\ answer' \in {"none", "ok", "error"}
    BY <1>5 DEF Return, CallerPC
  <2> QED BY <1>5, <2>1 DEF Return, TypeOK, sharedVars
<1>6. CASE Cancel
  BY <1>6 DEF Cancel, TypeOK, callVars, sharedVars
<1>7. CASE UNCHANGED vars
  BY <1>7 DEF vars, TypeOK, callVars, sharedVars
<1> QED BY <1>1, <1>2, <1>3, <1>4, <1>5, <1>6, <1>7 DEF CallerStep

\* So do a worker's.
LEMMA WorkerTypes ==
  ASSUME TypeOK, CallInv, HandsInv, NEW w \in Workers, WorkerStep(w)
  PROVE  TypeOK'
<1>0. /\ wpc \in [Workers -> WorkerPC] /\ item \in [Workers -> 0 .. MaxItems]
      /\ seen \in [Workers -> Nat] /\ item[w] \in 0 .. MaxItems
      /\ queue \in Seq(1 .. MaxItems) /\ results \in Seq(1 .. MaxItems)
      /\ completed \in Nat /\ total \in Nat /\ percentage \in Nat
      /\ w \in 0 .. PoolCap
  BY ProcessorAssumption DEF TypeOK, Workers
<1>1. /\ wasCancelled' \in BOOLEAN /\ token' \in BOOLEAN /\ total' \in Nat
      /\ pc' \in CallerPC /\ answer' \in {"none", "ok", "error"}
      /\ size' \in 0 .. MaxItems /\ workers' \in 0 .. PoolCap /\ tried' \in 0 .. PoolCap
  BY WorkerFrame DEF TypeOK, callVars
<1>2. CASE CheckCancel(w) \/ RecheckCancel(w)
  <2>1. wpc' \in [Workers -> WorkerPC]
    BY <1>0, <1>2 DEF CheckCancel, RecheckCancel, WorkerPC
  <2> QED BY <1>1, <1>2, <2>1 DEF CheckCancel, RecheckCancel, TypeOK, sharedVars
<1>3. CASE Pop(w)
  <2>1. wpc' \in [Workers -> WorkerPC]
    BY <1>0, <1>3 DEF Pop, WorkerPC
  <2>2. queue' \in Seq(1 .. MaxItems) /\ item' \in [Workers -> 0 .. MaxItems]
    <3>1. CASE queue = <<>>
      BY <1>0, <1>3, <3>1 DEF Pop
    <3>2. CASE queue # <<>>
      <4>1. Head(queue) \in 0 .. MaxItems /\ Tail(queue) \in Seq(1 .. MaxItems)
        BY <1>0, <3>2, ProcessorAssumption
      <4> QED BY <1>0, <1>3, <3>2, <4>1 DEF Pop
    <3> QED BY <3>1, <3>2
  <2> QED BY <1>1, <1>3, <2>1, <2>2 DEF Pop, TypeOK
<1>4. CASE RunTask(w)
  <2>1. item[w] # 0
    BY <1>4 DEF RunTask, HandsInv
  <2>2. verdict' \in [1 .. MaxItems -> Verdicts] /\ wpc' = [wpc EXCEPT ![w] = wpc'[w]]
        /\ wpc'[w] \in WorkerPC
    BY <1>4, <2>1, RunFrame DEF WorkerPC
  <2>3. wpc' \in [Workers -> WorkerPC]
    BY <1>0, <2>2
  <2> QED BY <1>1, <1>4, <2>2, <2>3 DEF RunTask, TypeOK
<1>5. CASE PushResult(w)
  <2>1. item[w] \in 1 .. MaxItems
    BY <1>0, <1>5, ProcessorAssumption DEF PushResult, HandsInv
  <2>2. results' \in Seq(1 .. MaxItems) /\ lock' \in 0 .. PoolCap
    BY <1>0, <1>5, <2>1 DEF PushResult
  <2>3. wpc' \in [Workers -> WorkerPC] /\ item' \in [Workers -> 0 .. MaxItems]
    BY <1>0, <1>5, ProcessorAssumption DEF PushResult, WorkerPC
  <2> QED BY <1>1, <1>5, <2>2, <2>3 DEF PushResult, TypeOK
<1>6. CASE FetchAdd(w)
  <2>1. wpc' \in [Workers -> WorkerPC] /\ seen' \in [Workers -> Nat] /\ completed' \in Nat
    BY <1>0, <1>6 DEF FetchAdd, WorkerPC
  <2> QED BY <1>1, <1>6, <2>1 DEF FetchAdd, TypeOK, sharedVars
<1>7. CASE StorePercentage(w)
  <2>1. wpc' \in [Workers -> WorkerPC] /\ seen' \in [Workers -> Nat]
    BY <1>0, <1>7 DEF StorePercentage, WorkerPC
  <2>2. PercentOf(seen[w], total) \in Nat
    <3>1. seen[w] \in Nat /\ seen[w] <= seen[w]
      BY <1>0
    <3> QED BY <1>0, <3>1, PercentGrows
  <2>3. percentage' \in Nat /\ lock' \in 0 .. PoolCap
    BY <1>0, <1>7, <2>2, ProcessorAssumption DEF StorePercentage
  <2> QED BY <1>1, <1>7, <2>1, <2>3 DEF StorePercentage, TypeOK, sharedVars
<1>8. CASE StoreError(w)
  <2>1. wpc' \in [Workers -> WorkerPC]
    BY <1>0, <1>8 DEF StoreError, WorkerPC
  <2>2. storedError \in 0 .. MaxItems
    BY DEF TypeOK
  <2>3. storedError' \in 0 .. MaxItems
    BY <1>0, <1>8, <2>2 DEF StoreError
  <2> QED BY <1>1, <1>8, <2>1, <2>3 DEF StoreError, TypeOK
<1> QED
  BY <1>2, <1>3, <1>4, <1>5, <1>6, <1>7, <1>8 DEF WorkerStep

\* Nothing has been pushed, met or stored before the first spawn.
LEMMA Untouched ==
  ASSUME ProcessorInv, pc \in {"idle", "enter"}
  PROVE  /\ Popped = 0 /\ Held = {} /\ Pushed = {} /\ results = <<>> /\ storedError = 0
         /\ lock = 0 /\ completed = 0
         /\ \A w \in Workers : wpc[w] = "none" /\ item[w] = 0
         /\ \A i \in 1 .. MaxItems : verdict[i] = "none"
<1>0. /\ size \in Nat /\ Workers \subseteq Nat \ {0} /\ results \in Seq(1 .. MaxItems)
      /\ lock \in 0 .. PoolCap /\ storedError \in 0 .. MaxItems /\ completed \in Nat
  BY ProcessorAssumption DEF ProcessorInv, TypeOK, Workers
<1>1. tried = 0 /\ Len(queue) = size
  BY DEF ProcessorInv, CallInv
<1>2. Popped = 0
  BY <1>0, <1>1 DEF Popped
<1>3. \A w \in Workers : wpc[w] = "none" /\ item[w] = 0
  BY <1>0, <1>1 DEF ProcessorInv, CallInv, HandsInv
<1>4. Held = {} /\ Pushed = {}
  BY <1>2 DEF ProcessorInv, AccountInv
<1>5. results = <<>>
  <2>1. DOMAIN results = {}
    BY <1>4 DEF Pushed
  <2> QED BY <1>0, <2>1
<1>6. \A i \in 1 .. MaxItems : verdict[i] = "none"
  BY <1>2 DEF ProcessorInv, VerdictsInv
<1>7. storedError = 0
  BY <1>0, <1>6, ProcessorAssumption DEF ProcessorInv, VerdictsInv
<1>8. lock = 0
  BY <1>0, <1>3, ProcessorAssumption DEF ProcessorInv, LockInv, Workers
<1>9. completed = 0
  BY <1>0, <1>5, <1>8 DEF ProcessorInv, LockInv
<1> QED BY <1>2, <1>3, <1>4, <1>5, <1>6, <1>7, <1>8, <1>9

\* Where the caller stands.
LEMMA CallStep ==
  ASSUME ProcessorInv, [Next]_vars
  PROVE  CallInv'
<1>0. /\ TypeOK /\ CallInv /\ pc \in CallerPC /\ wpc \in [Workers -> WorkerPC]
      /\ tried \in Nat /\ workers \in Nat /\ size \in Nat /\ Workers \subseteq Nat
  BY ProcessorAssumption DEF ProcessorInv, TypeOK, Workers
<1>1. CASE Call
  <2>1. PICK n \in 0 .. MaxItems, requested \in WorkerRequests :
          /\ size' = n /\ workers' = PoolSizeOf(requested, n, PoolCap)
          /\ queue' = [i \in 1 .. n |-> i]
    BY <1>1 DEF Call
  <2>2. (size' > 0 <=> workers' > 0) /\ Len(queue') = size'
    <3>1. requested \in Nat /\ n \in Nat /\ PoolCap \in Nat \ {0}
      BY ProcessorAssumption
    <3>2. n > 0 <=> PoolSizeOf(requested, n, PoolCap) > 0
      BY <3>1, PoolSizeFact
    <3> QED BY <2>1, <3>1, <3>2
  <2>3. /\ pc = "idle" /\ pc' = "enter"
        /\ UNCHANGED <<tried, percentage, wpc, answer>>
    BY <1>1 DEF Call
  <2> QED BY <1>0, <2>2, <2>3 DEF CallInv
<1>2. CASE Enter
  <2>1. /\ pc = "enter" /\ UNCHANGED <<tried, percentage, wpc, size, workers, wasCancelled,
                                       queue, storedError>>
        /\ \/ pc' = "returned" /\ answer' = "ok"
           \/ pc' = "spawn" /\ size > 0 /\ answer' = answer
    BY <1>2 DEF Enter, sharedVars
  <2>2. storedError = 0 /\ \A w \in Workers : wpc[w] = "none"
    BY <2>1, Untouched
  <2>3. answer = "none"
    BY <1>0, <2>1 DEF CallInv
  <2>4. CASE pc' = "returned"
    BY <1>0, <2>1, <2>2, <2>4 DEF CallInv
  <2>5. CASE pc' = "spawn"
    BY <1>0, <2>1, <2>2, <2>3, <2>5 DEF CallInv
  <2> QED BY <2>1, <2>4, <2>5
<1>3. CASE Spawn
  <2>1. /\ pc = "spawn" /\ pc' = pc /\ tried' = tried + 1
        /\ wpc' = wpc \/ wpc' = [wpc EXCEPT ![tried + 1] = "check"]
        /\ UNCHANGED <<size, workers, answer>>
    BY <1>3 DEF Spawn
  <2>2. \A w \in Workers : w > tried' => wpc'[w] = "none"
    BY <1>0, <2>1 DEF CallInv
  <2> QED BY <1>0, <2>1, <2>2 DEF CallInv
<1>4. CASE JoinAll
  BY <1>0, <1>4 DEF CallInv, JoinAll
<1>5. CASE Return
  <2>1. /\ pc = "decide" /\ pc' = "returned"
        /\ answer' = IF ~wasCancelled /\ storedError # 0 THEN "error" ELSE "ok"
        /\ UNCHANGED <<size, workers, tried, wasCancelled, storedError, wpc>>
    BY <1>5 DEF Return, sharedVars
  <2> QED BY <1>0, <2>1 DEF CallInv
<1>6. ASSUME NEW w \in Workers, WorkerStep(w) PROVE CallInv'
  <2>1. /\ pc = "spawn" /\ w <= tried /\ UNCHANGED callVars
        /\ \A v \in Workers \ {w} : Still(v)
    BY <1>0, <1>6, WorkerFrame
  <2>2. \A v \in Workers : v > tried' => wpc'[v] = "none"
    <3> SUFFICES ASSUME NEW v \in Workers, v > tried PROVE wpc'[v] = "none"
      BY <2>1 DEF callVars
    <3>1. v # w /\ wpc[v] = "none"
      BY <1>0, <2>1 DEF CallInv
    <3> QED BY <2>1, <3>1 DEF Still
  <2> QED BY <1>0, <2>1, <2>2 DEF CallInv, callVars
<1>7. CASE Cancel \/ UNCHANGED vars
  <2>1. UNCHANGED <<callVars, percentage, queue, storedError, wpc>>
    BY <1>7 DEF Cancel, vars, callVars, sharedVars
  <2> QED BY <1>0, <2>1 DEF CallInv, callVars
<1> QED BY <1>1, <1>2, <1>3, <1>4, <1>5, <1>6, <1>7 DEF Next, CallerStep

\* A pop moves the first item of the queue into a hand that was empty.
LEMMA PopMoves ==
  ASSUME TypeOK, AccountInv, NEW w \in Workers, queue # <<>>, item[w] = 0,
         size' = size, queue' = Tail(queue), results' = results,
         item' = [item EXCEPT ![w] = Head(queue)]
  PROVE  /\ Popped \in Nat /\ Head(queue) = Popped + 1 /\ Popped' = Popped + 1
         /\ Len(queue) \in Nat /\ Len(queue) >= 1 /\ Len(queue') = Len(queue) - 1
         /\ DOMAIN queue' = 1 .. Len(queue')
         /\ \A k \in 1 .. Len(queue') : queue'[k] = Head(queue) + k
         /\ Head(queue) \notin Held /\ Head(queue) \notin Pushed
         /\ Held' = Held \cup {Head(queue)} /\ Pushed' = Pushed
         /\ \A v \in Workers : item'[v] = IF v = w THEN Head(queue) ELSE item[v]
<1> DEFINE t == Head(queue)
<1>1. /\ queue \in Seq(1 .. MaxItems) /\ size \in Nat
      /\ item \in [Workers -> 0 .. MaxItems]
  BY ProcessorAssumption DEF TypeOK
<1>2. /\ Len(queue) \in Nat /\ Len(queue) >= 1 /\ t = queue[1]
      /\ Len(queue') = Len(queue) - 1 /\ DOMAIN queue' = 1 .. Len(queue')
      /\ \A k \in 1 .. Len(queue) - 1 : queue'[k] = queue[k + 1]
  BY <1>1
<1>3. Popped \in Nat /\ Popped' = Popped + 1 /\ t = Popped + 1 /\ t # 0
  BY <1>1, <1>2 DEF AccountInv, Popped
<1>4. \A k \in 1 .. Len(queue') : queue'[k] = t + k
  <2> TAKE k \in 1 .. Len(queue')
  <2>1. k + 1 \in 1 .. Len(queue) /\ queue'[k] = queue[k + 1]
    BY <1>2
  <2>2. queue[k + 1] = Popped + (k + 1)
    BY <2>1 DEF AccountInv
  <2> QED BY <1>2, <1>3, <2>1, <2>2
<1>5. t \notin Held /\ t \notin Pushed
  BY <1>3 DEF AccountInv
<1>6. \A v \in Workers : item'[v] = IF v = w THEN t ELSE item[v]
  BY <1>1, <1>3
<1>7. Held' = Held \cup {t}
  BY <1>3, <1>6 DEF Held
<1>8. Pushed' = Pushed
  BY DEF Pushed
<1> QED BY <1>2, <1>3, <1>4, <1>5, <1>6, <1>7, <1>8

\* A push moves an item from a hand to the end of the results.
LEMMA PushMoves ==
  ASSUME TypeOK, AccountInv, NEW w \in Workers, item[w] # 0,
         results' = Append(results, item[w]), item' = [item EXCEPT ![w] = 0]
  PROVE  /\ Len(results) \in Nat /\ Len(results') = Len(results) + 1
         /\ Pushed' = Pushed \cup {item[w]}
         /\ Held' = Held \ {item[w]} /\ item[w] \in Held
         /\ \A v \in Workers : item'[v] = IF v = w THEN 0 ELSE item[v]
         /\ \A j, k \in DOMAIN results' : results'[j] = results'[k] => j = k
<1> DEFINE t == item[w]
<1>1. /\ results \in Seq(1 .. MaxItems) /\ Len(results) \in Nat
      /\ item \in [Workers -> 0 .. MaxItems] /\ t \in 1 .. MaxItems
  BY ProcessorAssumption DEF TypeOK
<1>2. /\ Len(results') = Len(results) + 1
      /\ DOMAIN results' = 1 .. Len(results) + 1 /\ DOMAIN results = 1 .. Len(results)
      /\ \A j \in 1 .. Len(results) : results'[j] = results[j]
      /\ results'[Len(results) + 1] = t
  BY <1>1
<1>3. Pushed' = Pushed \cup {t}
  <2>1. Pushed = {results[j] : j \in 1 .. Len(results)}
    BY <1>2 DEF Pushed
  <2>2. Pushed' = {results'[j] : j \in 1 .. Len(results) + 1}
    BY <1>2 DEF Pushed
  <2> QED BY <1>1, <1>2, <2>1, <2>2
<1>4. \A v \in Workers : item'[v] = IF v = w THEN 0 ELSE item[v]
  BY <1>1
<1>5. Held' = Held \ {t} /\ t \in Held
  <2>1. \A v \in Workers : item[v] = t => v = w
    BY <1>1 DEF AccountInv
  <2>2. t \in Held
    BY <1>1 DEF Held
  <2> QED BY <1>1, <1>4, <2>1, <2>2 DEF Held
<1>6. \A j, k \in DOMAIN results' : results'[j] = results'[k] => j = k
  <2>1. \A j \in 1 .. Len(results) : results[j] # t
    BY <1>2, <1>5 DEF AccountInv, Pushed
  <2>2. \A j, k \in 1 .. Len(results) : results[j] = results[k] => j = k
    BY <1>2 DEF AccountInv
  <2> QED BY <1>1, <1>2, <2>1, <2>2
<1> QED BY <1>1, <1>2, <1>3, <1>4, <1>5, <1>6

\* The accounts read four variables.
LEMMA AccountKept ==
  ASSUME AccountInv, UNCHANGED <<size, queue, results, item>>
  PROVE  AccountInv' /\ Popped' = Popped /\ Held' = Held /\ Pushed' = Pushed
<1>1. Popped' = Popped /\ Held' = Held /\ Pushed' = Pushed
  BY DEF Popped, Held, Pushed
<1> QED BY <1>1 DEF AccountInv

\* The accounts balance.
LEMMA AccountStep ==
  ASSUME ProcessorInv, [Next]_vars
  PROVE  AccountInv'
<1>0. /\ TypeOK /\ CallInv /\ AccountInv /\ HandsInv /\ size \in Nat
      /\ queue \in Seq(1 .. MaxItems)
  BY ProcessorAssumption DEF ProcessorInv, TypeOK
<1>1. CASE Call
  <2>1. PICK n \in 0 .. MaxItems : size' = n /\ queue' = [i \in 1 .. n |-> i]
    BY <1>1 DEF Call
  <2>2. n \in Nat /\ Len(queue') = n /\ \A k \in 1 .. Len(queue') : queue'[k] = k
    BY <2>1, ProcessorAssumption
  <2>3. pc = "idle" /\ results' = results /\ item' = item
    BY <1>1 DEF Call
  <2>4. Held = {} /\ results = <<>> /\ Pushed = {} /\ \A w \in Workers : item[w] = 0
    BY <2>3, Untouched
  <2>5. Held' = {} /\ Pushed' = {} /\ Popped' = 0
    BY <2>1, <2>2, <2>3, <2>4 DEF Held, Pushed, Popped
  <2> QED BY <2>1, <2>2, <2>3, <2>4, <2>5 DEF AccountInv
<1>2. CASE \E w \in Workers : Pop(w) /\ queue # <<>>
  <2>1. PICK w \in Workers : Pop(w) /\ queue # <<>>
    BY <1>2
  <2>2. /\ item[w] = 0 /\ size' = size /\ queue' = Tail(queue) /\ results' = results
        /\ item' = [item EXCEPT ![w] = Head(queue)]
    BY <1>0, <2>1 DEF Pop, HandsInv, callVars
  <2> DEFINE t == Head(queue)
  <2>3. t = Popped + 1
    BY <1>0, <2>1, <2>2, PopMoves
  <2>4. /\ Popped \in Nat /\ Popped' = t
        /\ Len(queue) \in Nat /\ Len(queue') = Len(queue) - 1
        /\ \A k \in 1 .. Len(queue') : queue'[k] = t + k
        /\ t \notin Held /\ t \notin Pushed
        /\ Held' = Held \cup {t} /\ Pushed' = Pushed
        /\ \A v \in Workers : item'[v] = IF v = w THEN t ELSE item[v]
    BY <1>0, <2>1, <2>2, <2>3, PopMoves
  <2> HIDE DEF t
  <2>5. \A u, v \in Workers : item'[u] # 0 /\ item'[u] = item'[v] => u = v
    <3>1. \A v \in Workers : item[v] # t
      BY <2>3, <2>4 DEF Held
    <3> QED BY <1>0, <2>4, <3>1 DEF AccountInv
  <2>6. Held' \cup Pushed' = 1 .. t /\ Held' \cap Pushed' = {}
    <3>1. Held \cup Pushed = 1 .. Popped /\ Held \cap Pushed = {}
      BY <1>0 DEF AccountInv
    <3> QED BY <2>3, <2>4, <3>1
  <2>7. Len(queue') <= size'
    BY <1>0, <2>2, <2>4 DEF AccountInv
  <2>8. \A j, k \in DOMAIN results' : results'[j] = results'[k] => j = k
    BY <1>0, <2>2 DEF AccountInv
  <2> QED BY <2>4, <2>5, <2>6, <2>7, <2>8 DEF AccountInv
<1>3. CASE \E w \in Workers : PushResult(w)
  <2>1. PICK w \in Workers : PushResult(w)
    BY <1>3
  <2>2. /\ item[w] # 0 /\ UNCHANGED <<size, queue>>
        /\ results' = Append(results, item[w]) /\ item' = [item EXCEPT ![w] = 0]
    BY <1>0, <2>1 DEF PushResult, HandsInv, callVars
  <2> DEFINE t == item[w]
  <2>3. /\ Pushed' = Pushed \cup {t} /\ Held' = Held \ {t} /\ t \in Held
        /\ \A v \in Workers : item'[v] = IF v = w THEN 0 ELSE item[v]
        /\ \A j, k \in DOMAIN results' : results'[j] = results'[k] => j = k
    BY <1>0, <2>2, PushMoves
  <2> HIDE DEF t
  <2>4. Popped' = Popped
    BY <2>2 DEF Popped
  <2>5. Held' \cup Pushed' = 1 .. Popped /\ Held' \cap Pushed' = {}
    BY <1>0, <2>3 DEF AccountInv
  <2>6. \A u, v \in Workers : item'[u] # 0 /\ item'[u] = item'[v] => u = v
    BY <1>0, <2>3 DEF AccountInv
  <2>7. /\ Len(queue') <= size'
        /\ \A j \in 1 .. Len(queue') : queue'[j] = Popped + j
    BY <1>0, <2>2 DEF AccountInv
  <2> QED BY <2>3, <2>4, <2>5, <2>6, <2>7 DEF AccountInv
<1>4. CASE Enter \/ Spawn \/ JoinAll \/ Return \/ Cancel \/ UNCHANGED vars
  <2>1. UNCHANGED <<size, queue, results, item>>
    BY <1>4 DEF Enter, Spawn, JoinAll, Return, Cancel, vars, callVars, sharedVars
  <2> QED BY <1>0, <2>1, AccountKept
<1>5. ASSUME NEW w \in Workers, WorkerStep(w), ~PushResult(w), ~(Pop(w) /\ queue # <<>>)
      PROVE  AccountInv'
  <2>1. UNCHANGED <<size, queue, results, item>>
    BY <1>5 DEF WorkerStep, CheckCancel, Pop, RecheckCancel, RunTask, FetchAdd,
         StorePercentage, StoreError, callVars, sharedVars
  <2> QED BY <1>0, <2>1, AccountKept
<1> QED BY <1>1, <1>2, <1>3, <1>4, <1>5 DEF Next, CallerStep

\* What an idle, working or finished worker has in its hand.
Hand(w) ==
  /\ wpc[w] \in {"none", "check", "pop", "increment", "publish"} => item[w] = 0
  /\ wpc[w] \in {"recheck", "run", "push", "store_error"} => item[w] # 0
  /\ wpc[w] \in {"recheck", "run"} => verdict[item[w]] = "none"
  /\ wpc[w] = "push" => verdict[item[w]] = "ok"
  /\ wpc[w] = "store_error" => verdict[item[w]] = "error"
  /\ wpc[w] = "exited" /\ item[w] = 0 => token \/ queue = <<>>
  /\ wpc[w] = "exited" /\ item[w] # 0 =>
       verdict[item[w]] # "ok" /\ (verdict[item[w]] = "error" => storedError # 0)

\* A hand that does not move stays right while its item keeps its verdict, the
\* token and the stored error are not taken back and the queue is not refilled.
LEMMA HandKept ==
  ASSUME NEW v \in Workers, Hand(v), wpc'[v] = wpc[v], item'[v] = item[v],
         item[v] # 0 => verdict'[item[v]] = verdict[item[v]],
         token => token', queue = <<>> => queue' = <<>>,
         storedError # 0 => storedError' # 0
  PROVE  Hand(v)'
BY DEF Hand

\* Each worker's hand agrees with where it stands.
LEMMA HandsStep ==
  ASSUME ProcessorInv, [Next]_vars
  PROVE  HandsInv'
<1> SUFFICES ASSUME NEW v \in Workers PROVE Hand(v)'
  BY DEF HandsInv, Hand
<1>0. /\ TypeOK /\ CallInv /\ AccountInv /\ Hand(v) /\ wpc \in [Workers -> WorkerPC]
      /\ item \in [Workers -> 0 .. MaxItems] /\ verdict \in [1 .. MaxItems -> Verdicts]
      /\ queue \in Seq(1 .. MaxItems)
  BY DEF ProcessorInv, TypeOK, HandsInv, Hand
<1>1. CASE Call
  <2>1. pc = "idle" /\ wpc' = wpc /\ item' = item
    BY <1>1 DEF Call
  <2>2. wpc[v] = "none" /\ item[v] = 0
    BY <2>1, Untouched
  <2> QED BY <2>1, <2>2 DEF Hand
<1>2. CASE Enter \/ JoinAll \/ Return \/ UNCHANGED vars
  <2>1. UNCHANGED <<wpc, item, verdict, token, queue, storedError>>
    BY <1>2 DEF Enter, JoinAll, Return, vars, sharedVars
  <2> QED BY <1>0, <2>1, HandKept
<1>3. CASE Cancel
  <2>1. UNCHANGED <<wpc, item, verdict, queue, storedError>> /\ token'
    BY <1>3 DEF Cancel, sharedVars
  <2> QED BY <1>0, <2>1, HandKept
<1>4. CASE Spawn
  <2>1. /\ UNCHANGED <<item, verdict, token, queue, storedError>>
        /\ wpc' = wpc \/ wpc' = [wpc EXCEPT ![tried + 1] = "check"]
    BY <1>4 DEF Spawn, sharedVars
  <2>2. CASE wpc'[v] = wpc[v]
    BY <1>0, <2>1, <2>2, HandKept
  <2>3. CASE wpc'[v] # wpc[v]
    <3>1. v = tried + 1 /\ wpc'[v] = "check"
      BY <1>0, <2>1, <2>3
    <3>2. wpc[v] = "none"
      <4>1. tried \in Nat
        BY ProcessorAssumption, <1>0 DEF TypeOK
      <4> QED BY <1>0, <3>1, <4>1 DEF CallInv
    <3>3. item[v] = 0
      BY <1>0, <3>2 DEF Hand
    <3> QED BY <2>1, <3>1, <3>3 DEF Hand
  <2> QED BY <2>2, <2>3
<1>5. ASSUME NEW w \in Workers, WorkerStep(w) PROVE Hand(v)'
  <2>0. /\ \A u \in Workers \ {w} : Still(u)
        /\ token' = token /\ Hand(w)
    BY <1>0, <1>5, WorkerFrame DEF ProcessorInv, HandsInv, Hand
  <2>1. CASE CheckCancel(w) \/ RecheckCancel(w)
    <3>1. UNCHANGED <<item, verdict, queue, storedError>>
      BY <2>1 DEF CheckCancel, RecheckCancel, sharedVars
    <3>2. CASE v # w
      BY <1>0, <2>0, <3>1, <3>2, HandKept DEF Still
    <3>3. CASE v = w /\ CheckCancel(w)
      <4>1. wpc[w] = "check" /\ wpc'[w] = IF token THEN "exited" ELSE "pop"
        BY <1>0, <3>3 DEF CheckCancel
      <4> QED BY <2>0, <3>1, <3>3, <4>1 DEF Hand
    <3>4. CASE v = w /\ RecheckCancel(w)
      <4>1. wpc[w] = "recheck" /\ wpc'[w] = IF token THEN "exited" ELSE "run"
        BY <1>0, <3>4 DEF RecheckCancel
      <4> QED BY <2>0, <3>1, <3>4, <4>1 DEF Hand
    <3> QED BY <2>1, <3>2, <3>3, <3>4
  <2>2. CASE Pop(w)
    <3>1. UNCHANGED <<verdict, storedError>>
      BY <2>2 DEF Pop
    <3>2. queue = <<>> => queue' = <<>>
      BY <2>2 DEF Pop
    <3>3. CASE v # w
      BY <1>0, <2>0, <3>1, <3>2, <3>3, HandKept DEF Still
    <3>4. CASE v = w /\ queue = <<>>
      <4>1. wpc[w] = "pop" /\ wpc'[w] = "exited" /\ UNCHANGED <<item, queue>>
        BY <1>0, <2>2, <3>4 DEF Pop
      <4> QED BY <2>0, <3>1, <3>4, <4>1 DEF Hand
    <3>5. CASE v = w /\ queue # <<>>
      <4>1. /\ wpc[w] = "pop" /\ wpc'[w] = "recheck" /\ queue' = Tail(queue)
            /\ item' = [item EXCEPT ![w] = Head(queue)] /\ UNCHANGED <<size, results>>
        BY <1>0, <2>2, <3>5 DEF Pop, callVars
      <4>2. item[w] = 0
        BY <2>0, <4>1 DEF Hand
      <4>3. Popped \in Nat /\ Head(queue) = Popped + 1 /\ item'[w] = Head(queue)
        BY <1>0, <3>5, <4>1, <4>2, PopMoves
      <4>4. Head(queue) \in 1 .. MaxItems
        <5>1. queue \in Seq(1 .. MaxItems) /\ queue # <<>>
          BY <1>0, <3>5
        <5> QED BY <5>1, ProcessorAssumption
      <4>5. verdict[Head(queue)] = "none"
        BY <4>3, <4>4 DEF ProcessorInv, VerdictsInv
      <4> QED BY <3>1, <3>5, <4>1, <4>3, <4>4, <4>5 DEF Hand
    <3> QED BY <3>3, <3>4, <3>5
  <2>3. CASE RunTask(w)
    <3>1. /\ wpc[w] = "run" /\ item[w] # 0 /\ UNCHANGED <<item, queue, storedError>>
      BY <2>0, <2>3 DEF RunTask, Hand
    <3>2. PICK o \in Verdicts \ {"none"} :
            /\ \A i \in 1 .. MaxItems : verdict'[i] = IF i = item[w] THEN o ELSE verdict[i]
            /\ item[w] \in 1 .. MaxItems
            /\ o = "ok" => wpc'[w] = "push"
            /\ o = "error" => wpc'[w] = "store_error"
            /\ o \notin {"ok", "error"} => wpc'[w] = "exited"
      BY <1>0, <2>3, <3>1, RunFrame
    <3>3. CASE v # w
      <4>1. item[v] # 0 => item[v] # item[w] /\ item[v] \in 1 .. MaxItems
        BY <1>0, <3>3 DEF AccountInv
      <4>2. item[v] # 0 => verdict'[item[v]] = verdict[item[v]]
        BY <3>2, <4>1
      <4> QED BY <1>0, <2>0, <3>1, <3>3, <4>2, HandKept DEF Still
    <3>4. CASE v = w
      <4>1. verdict'[item[w]] = o /\ item'[w] # 0
        BY <3>1, <3>2
      <4> QED BY <3>1, <3>2, <3>4, <4>1 DEF Hand
    <3> QED BY <3>3, <3>4
  <2>4. CASE PushResult(w) \/ FetchAdd(w) \/ StorePercentage(w)
    <3>1. UNCHANGED <<verdict, queue, storedError>>
      BY <2>4 DEF PushResult, FetchAdd, StorePercentage, sharedVars
    <3>2. CASE v # w
      BY <1>0, <2>0, <3>1, <3>2, HandKept DEF Still
    <3>3. CASE v = w
      <4>1. wpc'[w] \in {"increment", "publish", "check"} /\ item'[w] = 0
        <5>1. CASE PushResult(w)
          BY <1>0, <5>1 DEF PushResult
        <5>2. CASE FetchAdd(w)
          <6>1. wpc[w] = "increment" /\ wpc'[w] = "publish" /\ item' = item
            BY <1>0, <5>2 DEF FetchAdd
          <6> QED BY <2>0, <6>1 DEF Hand
        <5>3. CASE StorePercentage(w)
          <6>1. wpc[w] = "publish" /\ wpc'[w] = "check" /\ item' = item
            BY <1>0, <5>3 DEF StorePercentage
          <6> QED BY <2>0, <6>1 DEF Hand
        <5> QED BY <2>4, <5>1, <5>2, <5>3
      <4> QED BY <3>3, <4>1 DEF Hand
    <3> QED BY <3>2, <3>3
  <2>5. CASE StoreError(w)
    <3>1. /\ wpc[w] = "store_error" /\ wpc'[w] = "exited" /\ item[w] # 0
          /\ verdict[item[w]] = "error" /\ UNCHANGED <<item, verdict, queue>>
      BY <1>0, <2>0, <2>5 DEF StoreError, Hand
    <3>2. storedError' # 0
      BY <2>5, <3>1 DEF StoreError
    <3>3. CASE v # w
      BY <1>0, <2>0, <3>1, <3>2, <3>3, HandKept DEF Still
    <3>4. CASE v = w
      BY <3>1, <3>2, <3>4 DEF Hand
    <3> QED BY <3>3, <3>4
  <2> QED
    BY <1>5, <2>1, <2>2, <2>3, <2>4, <2>5 DEF WorkerStep
<1> QED BY <1>1, <1>2, <1>3, <1>4, <1>5 DEF Next, CallerStep

\* Verdicts are given to popped items only, results are successes and the
\* stored error is a failure.
LEMMA VerdictsStep ==
  ASSUME ProcessorInv, [Next]_vars
  PROVE  VerdictsInv'
<1>0. /\ TypeOK /\ CallInv /\ AccountInv /\ HandsInv /\ VerdictsInv
      /\ item \in [Workers -> 0 .. MaxItems] /\ size \in Nat
      /\ storedError \in 0 .. MaxItems
  BY ProcessorAssumption DEF ProcessorInv, TypeOK
<1>1. CASE Call
  <2>1. pc = "idle" /\ UNCHANGED <<results, storedError, verdict>>
    BY <1>1 DEF Call
  <2>2. results = <<>> /\ storedError = 0 /\ \A i \in 1 .. MaxItems : verdict[i] = "none"
    BY <2>1, Untouched
  <2>3. Pushed' = {}
    BY <2>1, <2>2 DEF Pushed
  <2> QED BY <2>1, <2>2, <2>3 DEF VerdictsInv
<1>2. ASSUME UNCHANGED <<size, queue, results, item, verdict, storedError>>
      PROVE  VerdictsInv'
  BY <1>0, <1>2, AccountKept DEF VerdictsInv
<1>3. CASE Enter \/ Spawn \/ JoinAll \/ Return \/ Cancel \/ UNCHANGED vars
  BY <1>2, <1>3 DEF Enter, Spawn, JoinAll, Return, Cancel, vars, callVars, sharedVars
<1>4. ASSUME NEW w \in Workers, CheckCancel(w) \/ RecheckCancel(w) \/ FetchAdd(w)
                                 \/ StorePercentage(w) \/ (Pop(w) /\ queue = <<>>)
      PROVE  VerdictsInv'
  BY <1>2, <1>4 DEF CheckCancel, RecheckCancel, FetchAdd, StorePercentage, Pop,
                    callVars, sharedVars
<1>5. ASSUME NEW w \in Workers, Pop(w), queue # <<>> PROVE VerdictsInv'
  <2>1. /\ item[w] = 0 /\ size' = size /\ queue' = Tail(queue) /\ results' = results
        /\ item' = [item EXCEPT ![w] = Head(queue)] /\ UNCHANGED <<verdict, storedError>>
    BY <1>0, <1>5 DEF Pop, HandsInv, callVars
  <2>2. Popped \in Nat /\ Popped' = Popped + 1 /\ Pushed' = Pushed
    BY <1>0, <1>5, <2>1, PopMoves
  <2> QED BY <1>0, <2>1, <2>2 DEF VerdictsInv
<1>6. ASSUME NEW w \in Workers, RunTask(w) PROVE VerdictsInv'
  <2>1. /\ item[w] # 0 /\ verdict[item[w]] = "none"
        /\ UNCHANGED <<size, queue, results, item, storedError>>
    BY <1>0, <1>6 DEF RunTask, HandsInv, callVars
  <2>2. PICK o \in Verdicts \ {"none"} :
          /\ \A i \in 1 .. MaxItems : verdict'[i] = IF i = item[w] THEN o ELSE verdict[i]
          /\ item[w] \in 1 .. MaxItems
    BY <1>0, <1>6, <2>1, RunFrame
  <2>3. Popped' = Popped /\ Pushed' = Pushed
    BY <1>0, <2>1, AccountKept
  <2>4. item[w] \in Held
    BY <2>1 DEF Held
  <2>5. Popped \in Nat
    <3>1. Len(queue) \in Nat
      BY <1>0 DEF TypeOK
    <3> QED BY <1>0, <3>1 DEF AccountInv, Popped
  <2>6. item[w] <= Popped /\ item[w] \notin Pushed
    BY <1>0, <2>4, <2>5 DEF AccountInv
  <2>7. \A i \in 1 .. MaxItems : i > Popped' => verdict'[i] = "none"
    BY <1>0, <2>2, <2>3, <2>5, <2>6 DEF VerdictsInv
  <2>8. \A i \in Pushed' : verdict'[i] = "ok"
    <3>1. Pushed \subseteq 1 .. MaxItems
      <4>1. results \in Seq(1 .. MaxItems)
        BY <1>0 DEF TypeOK
      <4>2. \A k \in DOMAIN results : results[k] \in 1 .. MaxItems
        BY <4>1, ProcessorAssumption
      <4> QED BY <4>2 DEF Pushed
    <3> QED BY <1>0, <2>2, <2>3, <2>6, <3>1 DEF VerdictsInv
  <2>9. storedError' # 0 => verdict'[storedError'] = "error"
    BY <1>0, <2>1, <2>2, ProcessorAssumption DEF VerdictsInv
  <2> QED BY <2>7, <2>8, <2>9 DEF VerdictsInv
<1>7. ASSUME NEW w \in Workers, PushResult(w) PROVE VerdictsInv'
  <2>1. /\ item[w] # 0 /\ verdict[item[w]] = "ok"
        /\ UNCHANGED <<size, queue, verdict, storedError>>
        /\ results' = Append(results, item[w]) /\ item' = [item EXCEPT ![w] = 0]
    BY <1>0, <1>7 DEF PushResult, HandsInv, callVars
  <2>2. Pushed' = Pushed \cup {item[w]} /\ Popped' = Popped
    BY <1>0, <2>1, PushMoves DEF Popped
  <2> QED BY <1>0, <2>1, <2>2 DEF VerdictsInv
<1>8. ASSUME NEW w \in Workers, StoreError(w) PROVE VerdictsInv'
  <2>1. /\ verdict[item[w]] = "error" /\ UNCHANGED <<size, queue, results, verdict, item>>
        /\ storedError' = IF storedError = 0 THEN item[w] ELSE storedError
    BY <1>0, <1>8 DEF StoreError, HandsInv, callVars
  <2>2. Popped' = Popped /\ Pushed' = Pushed
    BY <1>0, <2>1, AccountKept
  <2> QED BY <1>0, <2>1, <2>2 DEF VerdictsInv
<1> QED
  BY <1>1, <1>3, <1>4, <1>5, <1>6, <1>7, <1>8 DEF Next, CallerStep, WorkerStep

\* The results lock makes a push and its progress one step for the other workers.
LEMMA LockStep ==
  ASSUME ProcessorInv, TypeOK', [Next]_vars
  PROVE  LockInv'
<1>0. /\ TypeOK /\ CallInv /\ HandsInv /\ LockInv /\ wpc \in [Workers -> WorkerPC]
      /\ completed \in Nat /\ total \in Nat /\ percentage \in Nat
      /\ seen \in [Workers -> Nat] /\ 0 \notin Workers /\ lock \in {0} \cup Workers
      /\ Len(results) \in Nat
  <2>1. /\ TypeOK /\ CallInv /\ HandsInv /\ LockInv /\ wpc \in [Workers -> WorkerPC]
        /\ completed \in Nat /\ total \in Nat /\ percentage \in Nat
        /\ seen \in [Workers -> Nat] /\ lock \in 0 .. PoolCap
        /\ results \in Seq(1 .. MaxItems)
    BY DEF ProcessorInv, TypeOK
  <2>2. 0 \notin Workers /\ lock \in {0} \cup Workers
    BY <2>1, ProcessorAssumption DEF Workers
  <2>3. Len(results) \in Nat
    BY <2>1
  <2> QED BY <2>1, <2>2, <2>3
<1>1. /\ PercentOf(completed, total) <= PercentOf(completed + 1, total)
      /\ PercentOf(completed, total) \in Nat /\ PercentOf(completed + 1, total) \in Nat
  <2>1. completed + 1 \in Nat /\ completed <= completed + 1
    BY <1>0
  <2> QED BY <1>0, <2>1, PercentGrows
<1>2. CASE Call
  BY <1>0, <1>2 DEF Call, LockInv
<1>3. CASE Enter
  <2>1. /\ pc = "enter" /\ UNCHANGED <<lock, wpc, completed, results, seen, percentage>>
    BY <1>3 DEF Enter, sharedVars
  <2>2. percentage = 0
    BY <1>0, <2>1 DEF CallInv
  <2>3. PercentOf(completed, total') \in Nat
    <3>1. total' \in Nat /\ completed <= completed
      BY <1>0 DEF TypeOK
    <3> QED BY <1>0, <3>1, PercentGrows
  <2> QED BY <1>0, <2>1, <2>2, <2>3 DEF LockInv
<1>4. CASE Spawn
  <2>1. /\ wpc' = wpc \/ wpc' = [wpc EXCEPT ![tried + 1] = "check"]
        /\ UNCHANGED <<lock, completed, total, results, seen, percentage>>
    BY <1>4 DEF Spawn, sharedVars
  <2>2. tried + 1 \in Workers => wpc[tried + 1] = "none"
    <3>1. tried \in Nat
      BY <1>0, ProcessorAssumption DEF TypeOK
    <3> QED BY <1>0, <3>1 DEF CallInv
  <2>3. \A w \in Workers : wpc'[w] # wpc[w] => wpc[w] = "none" /\ wpc'[w] = "check"
    BY <1>0, <2>1, <2>2
  <2> QED BY <1>0, <2>1, <2>3 DEF LockInv
<1>5. CASE JoinAll \/ Return \/ Cancel \/ UNCHANGED vars
  <2>1. UNCHANGED <<lock, wpc, completed, total, results, seen, percentage>>
    BY <1>5 DEF JoinAll, Return, Cancel, vars, sharedVars
  <2> QED BY <1>0, <2>1 DEF LockInv
<1>6. ASSUME NEW w \in Workers, WorkerStep(w) PROVE LockInv'
  <2>0. total' = total /\ \A v \in Workers \ {w} : Still(v)
    BY <1>0, <1>6, WorkerFrame
  <2>1. CASE CheckCancel(w) \/ Pop(w) \/ RecheckCancel(w) \/ RunTask(w) \/ StoreError(w)
    <3>1. UNCHANGED <<lock, completed, total, results, seen, percentage>>
      BY <2>0, <2>1 DEF CheckCancel, Pop, RecheckCancel, RunTask, StoreError, sharedVars
    <3>2. /\ wpc[w] \notin {"increment", "publish"}
          /\ wpc'[w] \notin {"increment", "publish"}
      BY <1>0, <2>1 DEF CheckCancel, Pop, RecheckCancel, RunTask, StoreError
    <3>3. \A v \in Workers : v # w => wpc'[v] = wpc[v]
      BY <2>0 DEF Still
    <3> QED BY <1>0, <3>1, <3>2, <3>3 DEF LockInv
  <2>2. CASE PushResult(w)
    <3>1. /\ lock = 0 /\ lock' = w /\ wpc'[w] = "increment"
          /\ UNCHANGED <<completed, percentage, seen>>
      BY <1>0, <2>2 DEF PushResult
    <3>2. Len(results') = Len(results) + 1
      <4>1. results \in Seq(1 .. MaxItems)
        BY <1>0 DEF TypeOK
      <4> QED BY <2>2, <4>1 DEF PushResult
    <3>3. \A v \in Workers : v # w => wpc'[v] = wpc[v]
      BY <2>0 DEF Still
    <3> QED BY <1>0, <2>0, <3>1, <3>2, <3>3 DEF LockInv
  <2>3. CASE FetchAdd(w)
    <3>1. /\ wpc[w] = "increment" /\ wpc'[w] = "publish" /\ completed' = completed + 1
          /\ seen'[w] = completed + 1 /\ UNCHANGED <<lock, results, percentage>>
      BY <1>0, <2>3 DEF FetchAdd, sharedVars
    <3>2. lock = w /\ completed + 1 = Len(results)
      BY <1>0, <3>1 DEF LockInv
    <3>3. \A v \in Workers : v # w => wpc'[v] = wpc[v]
      BY <2>0 DEF Still
    <3>4. percentage <= PercentOf(completed + 1, total)
      BY <1>0, <1>1 DEF LockInv
    <3> QED BY <1>0, <2>0, <3>1, <3>2, <3>3, <3>4 DEF LockInv
  <2>4. CASE StorePercentage(w)
    <3>1. /\ wpc[w] = "publish" /\ wpc'[w] = "check" /\ lock' = 0
          /\ UNCHANGED <<completed, results>>
          /\ percentage' = IF total > 0 THEN PercentOf(seen[w], total) ELSE percentage
      BY <1>0, <2>4 DEF StorePercentage, sharedVars
    <3>2. lock = w /\ completed = Len(results) /\ seen[w] = completed
      BY <1>0, <3>1 DEF LockInv
    <3>3. \A v \in Workers : v # w => wpc'[v] = wpc[v]
      BY <2>0 DEF Still
    <3>4. \A v \in Workers : wpc'[v] \notin {"increment", "publish"}
      BY <1>0, <3>1, <3>2, <3>3 DEF LockInv
    <3>5. percentage' <= PercentOf(completed, total)
      BY <1>0, <1>1, <3>1, <3>2 DEF LockInv
    <3> QED BY <1>0, <2>0, <3>1, <3>2, <3>4, <3>5 DEF LockInv
  <2> QED BY <1>6, <2>1, <2>2, <2>3, <2>4 DEF WorkerStep
<1> QED BY <1>2, <1>3, <1>4, <1>5, <1>6 DEF Next, CallerStep

\* process_in_parallel keeps its invariant, whatever the task function does.
THEOREM ProcessorInvariant == Spec => []ProcessorInv
<1>1. Init => ProcessorInv
  <2> SUFFICES ASSUME Init PROVE ProcessorInv
    OBVIOUS
  <2>1. /\ completed = 0 /\ total = 0 /\ percentage = 0
        /\ pc = "idle" /\ tried = 0 /\ answer = "none" /\ size = 0 /\ workers = 0
        /\ queue = <<>> /\ results = <<>> /\ storedError = 0 /\ lock = 0
        /\ wpc = [w \in Workers |-> "none"] /\ item = [w \in Workers |-> 0]
        /\ seen = [w \in Workers |-> 0] /\ verdict = [i \in 1 .. MaxItems |-> "none"]
    BY DEF Init
  <2>2. token \in BOOLEAN /\ wasCancelled \in BOOLEAN
    BY Zenon DEF Init
  <2>3. TypeOK
    <3>1. /\ wpc \in [Workers -> WorkerPC] /\ item \in [Workers -> 0 .. MaxItems]
          /\ seen \in [Workers -> Nat] /\ verdict \in [1 .. MaxItems -> Verdicts]
      BY <2>1, ProcessorAssumption DEF WorkerPC, Verdicts
    <3>2. queue \in Seq(1 .. MaxItems) /\ results \in Seq(1 .. MaxItems)
      BY <2>1
    <3>3. /\ pc \in CallerPC /\ answer \in {"none", "ok", "error"}
          /\ completed \in Nat /\ total \in Nat /\ percentage \in Nat
          /\ size \in 0 .. MaxItems /\ storedError \in 0 .. MaxItems
          /\ workers \in 0 .. PoolCap /\ tried \in 0 .. PoolCap /\ lock \in 0 .. PoolCap
      BY <2>1, ProcessorAssumption DEF CallerPC
    <3> QED BY <2>2, <3>1, <3>2, <3>3 DEF TypeOK
  <2>4. Held = {} /\ Pushed = {} /\ Popped = 0
    <3>1. size = 0 /\ Len(queue) = 0 /\ DOMAIN results = {}
      BY <2>1
    <3>3. Popped = 0
      BY <3>1 DEF Popped
    <3>4. Pushed = {}
      BY <3>1 DEF Pushed
    <3>2. \A w \in Workers : item[w] = 0
      BY <2>1
    <3> QED BY <3>2, <3>3, <3>4 DEF Held
  <2>5. CallInv
    BY <2>1 DEF CallInv
  <2>6. AccountInv
    BY <2>1, <2>4 DEF AccountInv
  <2>7. HandsInv
    BY <2>1 DEF HandsInv
  <2>8. VerdictsInv
    BY <2>1, <2>4 DEF VerdictsInv
  <2>9. LockInv
    <3>1. PercentOf(completed, total) = 0
      BY <2>1 DEF PercentOf
    <3>2. \A w \in Workers : w # 0
      BY ProcessorAssumption DEF Workers
    <3> QED BY <2>1, <3>1, <3>2 DEF LockInv
  <2> QED BY <2>3, <2>5, <2>6, <2>7, <2>8, <2>9 DEF ProcessorInv
<1>2. ProcessorInv /\ [Next]_vars => ProcessorInv'
  <2> SUFFICES ASSUME ProcessorInv, [Next]_vars PROVE ProcessorInv'
    OBVIOUS
  <2>1. TypeOK'
    BY CallerTypes, WorkerTypes DEF ProcessorInv, Next
  <2>2. CallInv' /\ AccountInv' /\ HandsInv' /\ VerdictsInv' /\ LockInv'
    BY <2>1, CallStep, AccountStep, HandsStep, VerdictsStep, LockStep
  <2> QED BY <2>1, <2>2 DEF ProcessorInv
<1> QED BY <1>1, <1>2, PTL DEF Spec

-----------------------------------------------------------------------------
(* The sort. *)

\* The entries of S that come before i.
Below(S, i) == {j \in S : j < i}

\* A larger entry has more entries before it, and no entry has all of them.
LEMMA RankGrows ==
  ASSUME NEW S, IsFiniteSet(S), S \subseteq Nat, NEW a \in S
  PROVE  /\ Cardinality(Below(S, a)) \in Nat /\ Cardinality(Below(S, a)) < Cardinality(S)
         /\ \A b \in S : a < b => Cardinality(Below(S, a)) < Cardinality(Below(S, b))
<1>1. \A b \in S : /\ IsFiniteSet(Below(S, b)) /\ Cardinality(Below(S, b)) \in Nat
                   /\ Cardinality(S) \in Nat
  <2> TAKE b \in S
  <2>1. Below(S, b) \in SUBSET S
    BY DEF Below
  <2>2. IsFiniteSet(Below(S, b))
    BY <2>1, FS_Subset
  <2> QED BY <2>2, FS_CardinalityType
<1>2. Cardinality(Below(S, a)) < Cardinality(S)
  <2>1. Below(S, a) \in SUBSET S /\ a \notin Below(S, a)
    BY DEF Below
  <2>2. /\ Cardinality(Below(S, a)) <= Cardinality(S)
        /\ Cardinality(S) = Cardinality(Below(S, a)) => S = Below(S, a)
    BY <2>1, FS_Subset
  <2> QED BY <1>1, <2>1, <2>2
<1>3. ASSUME NEW b \in S, a < b
      PROVE  Cardinality(Below(S, a)) < Cardinality(Below(S, b))
  <2>1. Below(S, a) \in SUBSET Below(S, b) /\ a \notin Below(S, a) /\ a \in Below(S, b)
    <3>1. \A j \in S : j \in Nat
      OBVIOUS
    <3>2. \A j \in S : j < a => j < b
      BY <1>3, <3>1
    <3>3. ~(a < a)
      BY <3>1
    <3> QED BY <1>3, <3>2, <3>3 DEF Below
  <2>2. /\ Cardinality(Below(S, a)) <= Cardinality(Below(S, b))
        /\ Cardinality(Below(S, b)) = Cardinality(Below(S, a)) => Below(S, b) = Below(S, a)
    BY <1>1, <2>1, FS_Subset
  <2> QED BY <1>1, <2>1, <2>2
<1> QED BY <1>1, <1>2, <1>3

\* So there is an entry of every rank.
LEMMA EveryRank ==
  ASSUME NEW S, IsFiniteSet(S), S \subseteq Nat, NEW k \in 1 .. Cardinality(S)
  PROVE  \E i \in S : Cardinality(Below(S, i)) = k - 1
<1> DEFINE n == Cardinality(S)
           T == 0 .. n - 1
           f == [i \in S |-> Cardinality(Below(S, i))]
<1>1. n \in Nat
  BY FS_CardinalityType
<1>2. /\ IsFiniteSet(T) /\ Cardinality(T) = n
  <2>1. 0 \in Int /\ n - 1 \in Int
    BY <1>1
  <2>2. IsFiniteSet(T) /\ Cardinality(T) = IF 0 > n - 1 THEN 0 ELSE (n - 1) - 0 + 1
    BY <2>1, FS_Interval
  <2> QED BY <1>1, <2>2
<1>3. \A i \in S : /\ Cardinality(Below(S, i)) \in Nat /\ Cardinality(Below(S, i)) < n
                   /\ \A j \in S : i < j =>
                        Cardinality(Below(S, i)) < Cardinality(Below(S, j))
  BY RankGrows
<1> HIDE DEF n
<1>4. \A i \in S : Cardinality(Below(S, i)) \in T
  BY <1>1, <1>3
<1>5. \A i, j \in S : Cardinality(Below(S, i)) = Cardinality(Below(S, j)) => i = j
  <2> SUFFICES ASSUME NEW i \in S, NEW j \in S, i # j
               PROVE  Cardinality(Below(S, i)) # Cardinality(Below(S, j))
    OBVIOUS
  <2>1. i \in Nat /\ j \in Nat /\ (i < j \/ j < i)
    OBVIOUS
  <2> QED BY <1>3, <2>1
<1>6. f \in Injection(S, T)
  BY <1>4, <1>5 DEF Injection, IsInjective
<1>7. f \in Surjection(S, T)
  BY <1>2, <1>6, FS_Injection DEF n
<1>8. k - 1 \in T
  BY <1>1 DEF n
<1> QED BY <1>7, <1>8 DEF Surjection

\* sort_by_key puts distinct entries in increasing order.
LEMMA SortedIncreases ==
  ASSUME NEW N \in Nat, NEW s \in Seq(1 .. N),
         \A j, k \in DOMAIN s : s[j] = s[k] => j = k
  PROVE  /\ DOMAIN Sorted(s) = DOMAIN s
         /\ \A j, k \in DOMAIN s : j < k => Sorted(s)[j] < Sorted(s)[k]
<1> DEFINE S == {s[k] : k \in DOMAIN s}
<1>1. /\ DOMAIN s = 1 .. Len(s) /\ Len(s) \in Nat
      /\ \A k \in DOMAIN s : s[k] \in 1 .. N
  OBVIOUS
<1>2. S \in SUBSET (1 .. N) /\ S \subseteq Nat
  BY <1>1
<1>3. IsFiniteSet(S)
  <2>1. IsFiniteSet(1 .. N)
    BY FS_Interval
  <2> QED BY <1>2, <2>1, FS_Subset
<1>4. Cardinality(S) = Len(s)
  <2>1. s \in [1 .. Len(s) -> S]
    BY <1>1
  <2>2. s \in Injection(1 .. Len(s), S)
    BY <1>1, <2>1 DEF Injection, IsInjective
  <2>3. s \in Surjection(1 .. Len(s), S)
    BY <1>1, <2>1 DEF Surjection
  <2>4. Cardinality(1 .. Len(s)) = Cardinality(S)
    BY <1>3, <2>2, <2>3, FS_Injection
  <2>5. Cardinality(1 .. Len(s)) = Len(s)
    <3>1. 1 \in Int /\ Len(s) \in Int
      BY <1>1
    <3>2. Cardinality(1 .. Len(s)) = IF 1 > Len(s) THEN 0 ELSE Len(s) - 1 + 1
      BY <3>1, FS_Interval
    <3> QED BY <1>1, <3>2
  <2> QED BY <2>4, <2>5
<1>5. \A k \in DOMAIN s : Sorted(s)[k] = CHOOSE i \in S : Cardinality(Below(S, i)) = k - 1
  BY DEF Sorted, Below
<1>6. DOMAIN Sorted(s) = DOMAIN s
  BY DEF Sorted
<1> HIDE DEF S
<1>7. \A k \in DOMAIN s : Sorted(s)[k] \in S /\ Cardinality(Below(S, Sorted(s)[k])) = k - 1
  <2> TAKE k \in DOMAIN s
  <2>1. k \in 1 .. Cardinality(S)
    BY <1>1, <1>4
  <2>2. \E i \in S : Cardinality(Below(S, i)) = k - 1
    BY <1>2, <1>3, <2>1, EveryRank
  <2> QED BY <1>5, <2>2
<1>8. ASSUME NEW j \in DOMAIN s, NEW k \in DOMAIN s, j < k
      PROVE  Sorted(s)[j] < Sorted(s)[k]
  <2> DEFINE a == Sorted(s)[j]
             b == Sorted(s)[k]
  <2>1. /\ a \in S /\ b \in S /\ a \in Nat /\ b \in Nat
        /\ Cardinality(Below(S, a)) = j - 1 /\ Cardinality(Below(S, b)) = k - 1
    BY <1>2, <1>7
  <2>2. j \in Nat /\ k \in Nat /\ j - 1 < k - 1
    BY <1>1, <1>8
  <2> HIDE DEF a, b
  <2>3. a # b
    BY <2>1, <2>2
  <2>4. ~(b < a)
    <3>1. b < a => Cardinality(Below(S, b)) < Cardinality(Below(S, a))
      BY <1>2, <1>3, <2>1, RankGrows
    <3> QED BY <2>1, <2>2, <3>1
  <2>5. a < b
    BY <2>1, <2>3, <2>4
  <2> QED BY <2>5 DEF a, b
<1> QED BY <1>6, <1>8

-----------------------------------------------------------------------------
(* What a caller of process_in_parallel relies on. *)

\* A successful call hands back, in input order, exactly the tasks that succeeded.
THEOREM ResultsArePreserved == Spec => []ResultsPreserved
<1>1. ProcessorInv => ResultsPreserved
  <2> SUFFICES ASSUME ProcessorInv, pc = "returned", answer = "ok" PROVE ResultsPreserved
    BY DEF ResultsPreserved
  <2>0. /\ results \in Seq(1 .. MaxItems) /\ MaxItems \in Nat
        /\ item \in [Workers -> 0 .. MaxItems] /\ lock \in 0 .. PoolCap
        /\ size \in Nat /\ queue \in Seq(1 .. MaxItems)
    BY ProcessorAssumption DEF ProcessorInv, TypeOK
  <2>1. \A j, k \in DOMAIN results : results[j] = results[k] => j = k
    BY DEF ProcessorInv, AccountInv
  <2>2. \A j, k \in DOMAIN Returned : j < k => Returned[j] < Returned[k]
    BY <2>0, <2>1, SortedIncreases DEF Returned
  <2>3. \A w \in Workers : wpc[w] \in {"none", "exited"}
    BY DEF ProcessorInv, CallInv
  <2>4. \A i \in Held : verdict[i] # "ok"
    <3>1. \A w \in Workers : item[w] # 0 => verdict[item[w]] # "ok"
      BY <2>3 DEF ProcessorInv, HandsInv
    <3> QED BY <3>1 DEF Held
  <2>5. Popped \in Nat
    <3>1. Len(queue) \in Nat
      BY <2>0
    <3> QED BY <2>0, <3>1 DEF ProcessorInv, AccountInv, Popped
  <2>6. Pushed \subseteq 1 .. MaxItems
    <3>1. \A k \in DOMAIN results : results[k] \in 1 .. MaxItems
      BY <2>0
    <3> QED BY <3>1 DEF Pushed
  <2>7. Pushed = {i \in 1 .. MaxItems : verdict[i] = "ok"}
    <3>1. ASSUME NEW i \in 1 .. MaxItems, verdict[i] = "ok" PROVE i \in Pushed
      <4>1. i \in 1 .. Popped
        BY <2>5, <3>1 DEF ProcessorInv, VerdictsInv
      <4> QED BY <2>4, <3>1, <4>1 DEF ProcessorInv, AccountInv
    <3>2. \A i \in Pushed : verdict[i] = "ok"
      BY DEF ProcessorInv, VerdictsInv
    <3> QED BY <2>6, <3>1, <3>2
  <2>8. completed = Len(results)
    <3>1. \A w \in Workers : lock # w
      BY <2>3 DEF ProcessorInv, LockInv
    <3>2. lock = 0
      BY <2>0, <3>1, ProcessorAssumption DEF Workers
    <3> QED BY <3>2 DEF ProcessorInv, LockInv
  <2> QED BY <2>2, <2>7, <2>8 DEF ResultsPreserved
<1> QED BY <1>1, ProcessorInvariant, PTL

\* A task error is never swallowed by an uncancelled call, and never invented.
THEOREM ErrorsSurface == Spec => []ErrorSurfaces
<1>1. ProcessorInv => ErrorSurfaces
  <2> SUFFICES ASSUME ProcessorInv, pc = "returned" PROVE ErrorSurfaces
    BY DEF ErrorSurfaces
  <2>0. /\ answer = (IF ~wasCancelled /\ storedError # 0 THEN "error" ELSE "ok")
        /\ \A w \in Workers : wpc[w] \in {"none", "exited"}
    BY DEF ProcessorInv, CallInv
  <2>1. ASSUME NEW i \in 1 .. MaxItems, verdict[i] = "error" PROVE storedError # 0
    <3>1. i \in 1 .. Popped
      <4>1. Popped \in Int
        <5>1. queue \in Seq(1 .. MaxItems) /\ size \in Nat
          BY ProcessorAssumption DEF ProcessorInv, TypeOK
        <5>2. Len(queue) \in Nat
          BY <5>1
        <5> QED BY <5>1, <5>2 DEF Popped
      <4> QED BY <2>1, <4>1 DEF ProcessorInv, VerdictsInv
    <3>2. i \in Held
      BY <2>1, <3>1 DEF ProcessorInv, AccountInv, VerdictsInv
    <3>3. PICK w \in Workers : item[w] = i /\ i # 0
      BY <3>2 DEF Held
    <3>4. wpc[w] = "exited"
      BY <2>0, <3>3 DEF ProcessorInv, HandsInv
    <3> QED BY <2>1, <3>3, <3>4 DEF ProcessorInv, HandsInv
  <2>2. answer = "error" => ~wasCancelled /\ verdict[storedError] = "error"
    BY <2>0 DEF ProcessorInv, VerdictsInv
  <2> QED BY <2>0, <2>1, <2>2 DEF ErrorSurfaces
<1> QED BY <1>1, ProcessorInvariant, PTL

\* One error never starves the tasks that a surviving worker could run.
THEOREM LeftoversAreExplained == Spec => []LeftoverExplained
<1>1. ProcessorInv => LeftoverExplained
  BY DEF ProcessorInv, HandsInv, LeftoverExplained
<1> QED BY <1>1, ProcessorInvariant, PTL

\* The percentage that a poller reads never goes backwards.
THEOREM PercentageNeverFalls == Spec => PercentageMonotone
<1>1. ProcessorInv /\ [Next]_vars => [percentage' >= percentage]_vars
  <2> SUFFICES ASSUME ProcessorInv, Next PROVE percentage' >= percentage
    OBVIOUS
  <2>0. percentage \in Nat
    BY DEF ProcessorInv, TypeOK
  <2>1. ASSUME NEW w \in Workers, StorePercentage(w) PROVE percentage' >= percentage
    <3>1. seen[w] = completed /\ percentage <= PercentOf(completed, total)
      BY <2>1 DEF StorePercentage, ProcessorInv, LockInv
    <3>2. PercentOf(completed, total) \in Nat
      <4>1. completed \in Nat /\ total \in Nat /\ completed <= completed
        BY DEF ProcessorInv, TypeOK
      <4> QED BY <4>1, PercentGrows
    <3> QED BY <2>0, <2>1, <3>1, <3>2 DEF StorePercentage
  <2>2. CASE CallerStep \/ Cancel
    BY <2>0, <2>2 DEF CallerStep, Call, Enter, Spawn, JoinAll, Return, Cancel
  <2>3. ASSUME NEW w \in Workers, WorkerStep(w), ~StorePercentage(w)
        PROVE  percentage' >= percentage
    BY <2>0, <2>3 DEF WorkerStep, CheckCancel, Pop, RecheckCancel, RunTask, PushResult,
         FetchAdd, StoreError
  <2> QED BY <2>1, <2>2, <2>3 DEF Next
<1> QED BY <1>1, ProcessorInvariant, PTL DEF Spec, PercentageMonotone

-----------------------------------------------------------------------------
(* The abstract pool. *)

\* A queue whose entries count up from p + 1 holds an interval.
LEMMA QueueSpan ==
  ASSUME NEW q, NEW p \in Nat, NEW m \in Nat, Len(q) \in Nat,
         DOMAIN q = 1 .. Len(q), p + Len(q) = m,
         \A k \in 1 .. Len(q) : q[k] = p + k
  PROVE  {q[k] : k \in DOMAIN q} = p + 1 .. m
<1>1. {q[k] : k \in DOMAIN q} \subseteq p + 1 .. m
  OBVIOUS
<1>2. ASSUME NEW i \in p + 1 .. m PROVE i \in {q[k] : k \in DOMAIN q}
  <2>1. i - p \in 1 .. Len(q) /\ p + (i - p) = i
    OBVIOUS
  <2>2. q[i - p] = i
    BY <2>1
  <2> QED BY <2>1, <2>2
<1> QED BY <1>1, <1>2

\* What is queued is what has not been popped.
LEMMA QueuedIs ==
  ASSUME TypeOK, AccountInv
  PROVE  /\ Queued = Popped + 1 .. size
         /\ Popped \in Nat /\ size \in Nat /\ Popped <= size
<1>1. queue \in Seq(1 .. MaxItems) /\ size \in Nat
  BY ProcessorAssumption DEF TypeOK
<1>2. Len(queue) \in Nat /\ DOMAIN queue = 1 .. Len(queue)
  BY <1>1
<1>3. Popped \in Nat /\ Popped + Len(queue) = size /\ Popped <= size
  BY <1>1, <1>2 DEF AccountInv, Popped
<1>4. \A k \in 1 .. Len(queue) : queue[k] = Popped + k
  BY DEF AccountInv
<1>5. {queue[k] : k \in DOMAIN queue} = Popped + 1 .. size
  BY <1>1, <1>2, <1>3, <1>4, QueueSpan
<1> QED BY <1>1, <1>3, <1>5 DEF Queued

\* Where a worker counts as running its task, and where as having given it up.
RunningPC == {"recheck", "run", "push"}
LostPC    == {"store_error", "exited"}

\* A worker that stays on the same side changes neither set.
LEMMA SameSide ==
  ASSUME NEW w \in Workers, \A v \in Workers \ {w} : Still(v), item'[w] = item[w],
         wpc[w] \in RunningPC <=> wpc'[w] \in RunningPC,
         (wpc[w] \in LostPC <=> wpc'[w] \in LostPC) \/ item[w] = 0
  PROVE  Running' = Running /\ Lost' = Lost
<1>1. \A v \in Workers : item'[v] = item[v] /\ (wpc[v] \in RunningPC <=> wpc'[v] \in RunningPC)
  BY DEF Still
<1>2. \A v \in Workers : item[v] # 0 => (wpc[v] \in LostPC <=> wpc'[v] \in LostPC)
  BY DEF Still
<1>3. Running' = Running
  BY <1>1 DEF Running, RunningPC
<1>4. Lost' = Lost
  BY <1>1, <1>2 DEF Lost, LostPC
<1> QED BY <1>3, <1>4

\* A worker that gives up its task loses it.
LEMMA GivesUp ==
  ASSUME AccountInv, NEW w \in Workers, \A v \in Workers \ {w} : Still(v),
         item'[w] = item[w], item[w] # 0,
         wpc[w] \in RunningPC, wpc'[w] \in LostPC
  PROVE  /\ item[w] \in Running /\ Running' = Running \ {item[w]}
         /\ Lost' = Lost \cup {item[w]}
<1> DEFINE t == item[w]
<1>1. \A v \in Workers : v # w => item'[v] = item[v] /\ wpc'[v] = wpc[v] /\ item[v] # t
  BY DEF Still, AccountInv
<1>2. wpc'[w] \notin RunningPC /\ wpc[w] \notin LostPC
  BY DEF RunningPC, LostPC
<1>3. t \in Running
  BY DEF Running, RunningPC
<1>4. Running' = Running \ {t}
  BY <1>1, <1>2 DEF Running, RunningPC
<1>5. Lost' = Lost \cup {t}
  BY <1>1, <1>2 DEF Lost, LostPC
<1> QED BY <1>3, <1>4, <1>5

\* A step of the calling thread opens or closes the pool, or halts it when the
\* last spawn fails like all the others.
LEMMA CallerRefines ==
  ASSUME ProcessorInv, CallerStep
  PROVE  Pool!Next \/ UNCHANGED Pool!poolVars
<1>0. /\ TypeOK /\ CallInv /\ AccountInv /\ HandsInv /\ wpc \in [Workers -> WorkerPC]
      /\ size \in Nat /\ workers \in Nat /\ tried \in Nat
  BY ProcessorAssumption DEF ProcessorInv, TypeOK
<1>1. CASE Call
  <2>1. PICK n \in 0 .. MaxItems : size' = n /\ queue' = [i \in 1 .. n |-> i]
    BY <1>1 DEF Call
  <2>2. pc = "idle" /\ pc' = "enter" /\ UNCHANGED <<answer, wpc, item, results>>
    BY <1>1 DEF Call
  <2>3. results = <<>> /\ \A w \in Workers : wpc[w] = "none"
    BY <2>2, Untouched
  <2>4. answer = "none"
    BY <1>0, <2>2 DEF CallInv
  <2>5. Running' = {} /\ Lost' = {}
    BY <2>2, <2>3 DEF Running, Lost
  <2>6. Pushed' = {}
    BY <2>2, <2>3 DEF Pushed
  <2>7. Queued' = 1 .. size'
    <3>1. DOMAIN queue' = 1 .. n /\ \A k \in 1 .. n : queue'[k] = k
      BY <2>1
    <3> QED BY <2>1, <3>1 DEF Queued
  <2>8. Open = FALSE /\ Open' = TRUE /\ Halted' \in BOOLEAN
    BY <2>2 DEF Open, Halted
  <2>9. Pool!Begin
    BY <2>1, <2>2, <2>4, <2>5, <2>6, <2>7, <2>8 DEF Pool!Begin
  <2> QED BY <2>9 DEF Pool!Next
<1>2. ASSUME UNCHANGED <<size, workers, tried, token, queue, results, wpc, item>>
      PROVE  UNCHANGED <<size, Queued, Running, Pushed, Lost, Halted>>
  <2>1. UNCHANGED <<Queued, Running, Pushed, Lost>>
    BY <1>2 DEF Queued, Running, Pushed, Lost
  <2>2. Halted' = Halted
    BY <1>2, <2>1 DEF Halted, Threadless
  <2> QED BY <1>2, <2>1, <2>2
<1>3. CASE Enter
  <2>1. pc = "enter" /\ UNCHANGED <<size, workers, tried, token, queue, results, wpc, item>>
    BY <1>3 DEF Enter, sharedVars
  <2>2. UNCHANGED <<size, Queued, Running, Pushed, Lost, Halted>>
    BY <1>2, <2>1
  <2>3. CASE pc' = "spawn"
    <3>1. answer' = answer
      BY <1>3, <2>3 DEF Enter
    <3>2. Open' = Open
      BY <2>1, <2>3 DEF Open
    <3> QED BY <2>2, <3>1, <3>2 DEF Pool!poolVars
  <2>4. CASE pc' # "spawn"
    <3>1. pc' = "returned" /\ answer' = "ok" /\ (size = 0 \/ token)
      BY <1>3, <2>4 DEF Enter
    <3>2. Open = TRUE /\ Open' = FALSE
      BY <2>1, <3>1 DEF Open
    <3>3. Running = {}
      <4>1. \A w \in Workers : wpc[w] = "none"
        BY <2>1, Untouched
      <4> QED BY <4>1 DEF Running
    <3>4. Queued = {} \/ Halted
      <4>1. CASE token
        BY <4>1 DEF Halted
      <4>2. CASE size = 0
        BY <1>0, <4>2, QueuedIs
      <4> QED BY <3>1, <4>1, <4>2
    <3>5. Pool!ReturnOk
      BY <2>2, <3>1, <3>2, <3>3, <3>4 DEF Pool!ReturnOk
    <3> QED BY <3>5 DEF Pool!Next
  <2> QED BY <2>3, <2>4
<1>4. CASE Spawn
  <2>1. /\ pc = "spawn" /\ tried < workers
        /\ wpc' = wpc \/ wpc' = [wpc EXCEPT ![tried + 1] = "check"]
        /\ UNCHANGED <<pc, size, workers, token, answer, queue, results, item>>
    BY <1>4 DEF Spawn, sharedVars
  <2>2. \A w \in Workers : wpc'[w] # wpc[w] => wpc[w] = "none" /\ wpc'[w] = "check"
    <3>1. tried + 1 \in Workers => wpc[tried + 1] = "none"
      BY <1>0 DEF CallInv
    <3> QED BY <1>0, <2>1, <3>1
  <2>3. Running' = Running /\ Lost' = Lost
    BY <2>1, <2>2 DEF Running, Lost
  <2>4. UNCHANGED <<size, Open, Queued, Running, Pushed, Lost, answer>>
    BY <2>1, <2>3 DEF Open, Queued, Pushed
  <2>5. ~Threadless
    BY <1>0, <2>1 DEF Threadless
  <2>6. CASE Halted'
    <3>1. Halted' = TRUE
      BY <2>6 DEF Halted
    <3>2. Pool!Halt
      BY <2>4, <3>1 DEF Pool!Halt
    <3> QED BY <3>2 DEF Pool!Next
  <2>7. CASE ~Halted'
    <3>1. ~Halted
      BY <2>1, <2>3, <2>5, <2>7 DEF Halted
    <3>2. Halted' = Halted
      BY <2>7, <3>1 DEF Halted
    <3> QED BY <2>4, <3>2 DEF Pool!poolVars
  <2> QED BY <2>6, <2>7
<1>5. CASE JoinAll
  <2>1. /\ pc = "spawn" /\ pc' = "decide" /\ answer' = answer
        /\ UNCHANGED <<size, workers, tried, token, queue, results, wpc, item>>
    BY <1>5 DEF JoinAll, sharedVars
  <2>2. UNCHANGED <<size, Queued, Running, Pushed, Lost, Halted>>
    BY <1>2, <2>1
  <2>3. Open' = Open
    BY <2>1 DEF Open
  <2> QED BY <2>1, <2>2, <2>3 DEF Pool!poolVars
<1>6. CASE Return
  <2>1. /\ pc = "decide" /\ pc' = "returned" /\ answer' \in {"ok", "error"}
        /\ UNCHANGED <<size, workers, tried, token, queue, results, wpc, item>>
    BY <1>6 DEF Return, sharedVars
  <2>2. UNCHANGED <<size, Queued, Running, Pushed, Lost, Halted>>
    BY <1>2, <2>1
  <2>3. Open = TRUE /\ Open' = FALSE
    BY <2>1 DEF Open
  <2>4. /\ tried = workers /\ workers > 0
        /\ \A w \in Workers : wpc[w] \in {"none", "exited"}
    BY <1>0, <2>1 DEF CallInv
  <2>5. Running = {}
    BY <2>4 DEF Running
  <2>6. Queued = {} \/ Halted
    <3>1. CASE \A w \in Workers : wpc[w] = "none"
      BY <1>0, <2>4, <3>1 DEF Halted, Threadless
    <3>2. ASSUME NEW w \in Workers, wpc[w] = "exited" PROVE Queued = {} \/ Halted
      <4>1. CASE item[w] # 0
        <5>1. item[w] \in Lost
          BY <3>2, <4>1 DEF Lost
        <5> QED BY <5>1 DEF Halted
      <4>2. CASE item[w] = 0
        <5>1. token \/ queue = <<>>
          BY <1>0, <3>2, <4>2 DEF HandsInv
        <5>2. queue = <<>> => Queued = {}
          BY DEF Queued
        <5> QED BY <5>1, <5>2 DEF Halted
      <4> QED BY <4>1, <4>2
    <3> QED BY <2>4, <3>1, <3>2
  <2>7. answer' = "ok" => Pool!ReturnOk
    BY <2>2, <2>3, <2>5, <2>6 DEF Pool!ReturnOk
  <2>8. answer' = "error" => Pool!ReturnError
    BY <2>2, <2>3, <2>5 DEF Pool!ReturnError
  <2> QED BY <2>1, <2>7, <2>8 DEF Pool!Next
<1> QED BY <1>1, <1>3, <1>4, <1>5, <1>6 DEF CallerStep

\* A worker starts the first queued task, settles the one it holds, or loses it.
LEMMA WorkerRefines ==
  ASSUME ProcessorInv, NEW w \in Workers, WorkerStep(w)
  PROVE  Pool!Next \/ UNCHANGED Pool!poolVars
<1>0. /\ TypeOK /\ CallInv /\ AccountInv /\ HandsInv /\ wpc \in [Workers -> WorkerPC]
      /\ item \in [Workers -> 0 .. MaxItems]
  BY DEF ProcessorInv, TypeOK
<1>1. /\ pc = "spawn" /\ UNCHANGED <<pc, size, answer, token, workers, tried>>
      /\ wpc[w] # "none" /\ wpc'[w] # "none" /\ \A v \in Workers \ {w} : Still(v)
  BY <1>0, WorkerFrame DEF callVars
<1>2. Open = TRUE /\ Open' = TRUE /\ ~Threadless /\ ~Threadless'
  BY <1>1 DEF Open, Threadless
<1>3. ASSUME Lost' = Lost PROVE Halted' = Halted
  BY <1>1, <1>2, <1>3 DEF Halted
<1>4. ASSUME item'[w] = item[w], UNCHANGED <<queue, results>>,
             wpc[w] \in RunningPC <=> wpc'[w] \in RunningPC,
             (wpc[w] \in LostPC <=> wpc'[w] \in LostPC) \/ item[w] = 0
      PROVE  UNCHANGED Pool!poolVars
  <2>1. Running' = Running /\ Lost' = Lost
    BY <1>1, <1>4, SameSide
  <2>2. Queued' = Queued /\ Pushed' = Pushed
    BY <1>4 DEF Queued, Pushed
  <2> QED BY <1>1, <1>2, <1>3, <2>1, <2>2 DEF Pool!poolVars
<1>5. ASSUME item'[w] = item[w], item[w] # 0, UNCHANGED <<queue, results>>,
             wpc[w] \in RunningPC, wpc'[w] \in LostPC
      PROVE  Pool!Next
  <2>1. /\ item[w] \in Running /\ Running' = Running \ {item[w]}
        /\ Lost' = Lost \cup {item[w]}
    BY <1>0, <1>1, <1>5, GivesUp
  <2>2. Queued' = Queued /\ Pushed' = Pushed
    BY <1>5 DEF Queued, Pushed
  <2>3. Halted' = TRUE
    BY <2>1 DEF Halted
  <2>4. Pool!Lose
    BY <1>1, <1>2, <2>1, <2>2, <2>3 DEF Pool!Lose
  <2> QED BY <2>4 DEF Pool!Next
<1> USE DEF RunningPC, LostPC
<1>6. CASE CheckCancel(w)
  <2>1. /\ wpc[w] = "check" /\ wpc'[w] \in {"exited", "pop"}
        /\ UNCHANGED <<item, queue, results>>
    BY <1>0, <1>6 DEF CheckCancel, sharedVars
  <2>2. item[w] = 0
    BY <1>0, <2>1 DEF HandsInv
  <2> QED BY <1>4, <2>1, <2>2
<1>7. CASE Pop(w) /\ queue = <<>>
  <2>1. /\ wpc[w] = "pop" /\ wpc'[w] = "exited" /\ UNCHANGED <<item, queue, results>>
    BY <1>0, <1>7 DEF Pop
  <2>2. item[w] = 0
    BY <1>0, <2>1 DEF HandsInv
  <2> QED BY <1>4, <2>1, <2>2
<1>8. CASE Pop(w) /\ queue # <<>>
  <2>1. /\ wpc[w] = "pop" /\ wpc'[w] = "recheck" /\ queue' = Tail(queue)
        /\ item' = [item EXCEPT ![w] = Head(queue)] /\ results' = results
    BY <1>0, <1>8 DEF Pop
  <2>2. item[w] = 0
    BY <1>0, <2>1 DEF HandsInv
  <2> DEFINE t == Head(queue)
  <2>3. /\ Popped \in Nat /\ t = Popped + 1
        /\ Len(queue) \in Nat /\ Len(queue) >= 1 /\ Len(queue') = Len(queue) - 1
        /\ DOMAIN queue' = 1 .. Len(queue')
        /\ \A k \in 1 .. Len(queue') : queue'[k] = t + k
        /\ Pushed' = Pushed
        /\ \A v \in Workers : item'[v] = IF v = w THEN t ELSE item[v]
    BY <1>0, <1>1, <1>8, <2>1, <2>2, PopMoves
  <2> HIDE DEF t
  <2>4. Queued = t .. size /\ size \in Nat /\ Popped + Len(queue) = size
    BY <1>0, <2>3, QueuedIs DEF Popped
  <2>5. Queued' = t + 1 .. size /\ t <= size /\ t \in Nat
    <3>1. t \in Nat /\ Len(queue') \in Nat /\ t + Len(queue') = size
      BY <2>3, <2>4
    <3>2. {queue'[k] : k \in DOMAIN queue'} = t + 1 .. size
      <4>1. /\ DOMAIN queue' = 1 .. Len(queue') /\ size \in Nat
            /\ \A k \in 1 .. Len(queue') : queue'[k] = t + k
        BY <2>3, <2>4
      <4> QED BY <3>1, <4>1, QueueSpan
    <3> QED BY <3>1, <3>2, <2>4 DEF Queued
  <2>6. Queued' = Queued \ {t} /\ t \in Queued /\ \A u \in Queued : t <= u
    BY <2>4, <2>5
  <2>7. \A v \in Workers : v # w => wpc'[v] = wpc[v]
    BY <1>1 DEF Still
  <2>8. Running' = Running \cup {t}
    BY <2>1, <2>3, <2>7 DEF Running
  <2>9. Lost' = Lost
    BY <2>1, <2>3, <2>7 DEF Lost
  <2>10. Pool!Start
    BY <1>1, <1>2, <1>3, <2>3, <2>6, <2>8, <2>9 DEF Pool!Start
  <2> QED BY <2>10 DEF Pool!Next
<1>9. CASE RecheckCancel(w)
  <2>1. /\ wpc[w] = "recheck" /\ wpc'[w] \in {"exited", "run"}
        /\ UNCHANGED <<item, queue, results>>
    BY <1>0, <1>9 DEF RecheckCancel, sharedVars
  <2>2. item[w] # 0
    BY <1>0, <2>1 DEF HandsInv
  <2> QED BY <1>4, <1>5, <2>1, <2>2
<1>10. CASE RunTask(w)
  <2>1. wpc[w] = "run" /\ item[w] # 0 /\ UNCHANGED <<item, queue, results>>
    BY <1>0, <1>10 DEF RunTask, HandsInv
  <2>2. wpc'[w] \in {"push", "store_error", "exited"}
    BY <1>0, <1>10, <2>1, RunFrame
  <2> QED BY <1>4, <1>5, <2>1, <2>2
<1>11. CASE PushResult(w)
  <2>1. /\ wpc[w] = "push" /\ wpc'[w] = "increment" /\ item[w] # 0
        /\ results' = Append(results, item[w]) /\ item' = [item EXCEPT ![w] = 0]
        /\ queue' = queue
    BY <1>0, <1>11 DEF PushResult, HandsInv
  <2> DEFINE t == item[w]
  <2>2. /\ Pushed' = Pushed \cup {t}
        /\ \A v \in Workers : item'[v] = IF v = w THEN 0 ELSE item[v]
    BY <1>0, <2>1, PushMoves
  <2>3. \A v \in Workers : v # w => wpc'[v] = wpc[v] /\ item[v] # t
    BY <1>0, <1>1, <2>1 DEF Still, AccountInv
  <2>4. t \in Running /\ Running' = Running \ {t}
    BY <2>1, <2>2, <2>3 DEF Running
  <2>5. Lost' = Lost
    BY <2>1, <2>2, <2>3 DEF Lost
  <2>6. Queued' = Queued
    BY <2>1 DEF Queued
  <2> HIDE DEF t
  <2>7. Pool!Settle
    BY <1>1, <1>2, <1>3, <2>2, <2>4, <2>5, <2>6 DEF Pool!Settle
  <2> QED BY <2>7 DEF Pool!Next
<1>12. CASE FetchAdd(w) \/ StorePercentage(w)
  <2>1. /\ wpc[w] \in {"increment", "publish"} /\ wpc'[w] \in {"publish", "check"}
        /\ UNCHANGED <<item, queue, results>>
    BY <1>0, <1>12 DEF FetchAdd, StorePercentage, sharedVars
  <2> QED BY <1>4, <2>1
<1>13. CASE StoreError(w)
  <2>1. /\ wpc[w] = "store_error" /\ wpc'[w] = "exited" /\ UNCHANGED <<item, queue, results>>
    BY <1>0, <1>13 DEF StoreError
  <2> QED BY <1>4, <2>1
<1> QED
  BY <1>6, <1>7, <1>8, <1>9, <1>10, <1>11, <1>12, <1>13 DEF WorkerStep

\* process_in_parallel is an abstract pool: a failed or panicking task, a missing
\* thread and the cancellation are the only ways to leave a task out.
THEOREM ProcessorImplementsPool == Spec => ImplementsPool
<1>1. Init => Pool!Init
  <2> SUFFICES ASSUME Init PROVE Pool!Init
    OBVIOUS
  <2>1. /\ size = 0 /\ pc = "idle" /\ queue = <<>> /\ results = <<>> /\ answer = "none"
        /\ wpc = [w \in Workers |-> "none"]
    BY DEF Init
  <2>2. Queued = {} /\ Pushed = {}
    BY <2>1 DEF Queued, Pushed
  <2>3. Running = {} /\ Lost = {}
    <3>1. \A w \in Workers : wpc[w] = "none"
      BY <2>1
    <3> QED BY <3>1 DEF Running, Lost
  <2>4. Open = FALSE /\ Halted \in BOOLEAN
    BY <2>1 DEF Open, Halted
  <2> QED BY <2>1, <2>2, <2>3, <2>4 DEF Pool!Init
<1>2. ProcessorInv /\ [Next]_vars => [Pool!Next]_(Pool!poolVars)
  <2> SUFFICES ASSUME ProcessorInv, [Next]_vars
               PROVE  Pool!Next \/ UNCHANGED Pool!poolVars
    OBVIOUS
  <2>1. CASE CallerStep
    BY <2>1, CallerRefines
  <2>2. ASSUME NEW w \in Workers, WorkerStep(w)
        PROVE  Pool!Next \/ UNCHANGED Pool!poolVars
    BY <2>2, WorkerRefines
  <2>3. ASSUME UNCHANGED <<callVars, sharedVars, wpc, item>>
        PROVE  UNCHANGED <<size, Open, Queued, Running, Pushed, Lost, answer, Threadless>>
    BY <2>3 DEF callVars, sharedVars, Open, Queued, Running, Pushed, Lost, Threadless
  <2>4. CASE Cancel
    <3>1. Halted' = TRUE
      BY <2>4 DEF Cancel, Halted
    <3>2. Pool!Halt
      BY <2>3, <2>4, <3>1 DEF Cancel, Pool!Halt
    <3> QED BY <3>2 DEF Pool!Next
  <2>5. CASE UNCHANGED vars
    <3>1. UNCHANGED <<callVars, sharedVars, wpc, item, token>>
      BY <2>5 DEF vars
    <3>2. UNCHANGED <<size, Open, Queued, Running, Pushed, Lost, answer, Threadless>>
      BY <2>3, <3>1
    <3>3. Halted' = Halted
      BY <3>1, <3>2 DEF Halted
    <3> QED BY <3>2, <3>3 DEF Pool!poolVars
  <2> QED BY <2>1, <2>2, <2>4, <2>5 DEF Next
<1> QED
  BY <1>1, <1>2, ProcessorInvariant, PTL DEF Spec, ImplementsPool, Pool!Spec

\* So what is proved of the pool holds of it: each task is in one place, and a call
\* that nothing halted returns Ok only with the result of every task.
THEOREM ProcessorKeepsThePromise == Spec => [](Pool!Conserved /\ Pool!Promise)
<1>1. Pool!Spec => []Pool!PoolInv
  BY ProcessorAssumption, Pool!PoolKeepsPromise
<1>2. Pool!PoolInv => Pool!Conserved /\ Pool!Promise
  BY DEF Pool!PoolInv
<1> QED BY <1>1, <1>2, ProcessorImplementsPool, PTL DEF ImplementsPool
=============================================================================
