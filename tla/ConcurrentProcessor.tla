------------------------ MODULE ConcurrentProcessor ------------------------
(***************************************************************************)
(* ConcurrentProcessor::process_in_parallel: the generic worker pool       *)
(* behind inspect_images.  It differs from inspect_batch in what it does   *)
(* with failures: a task error ends the worker that met it, the first one  *)
(* is kept and returned unless the call was cancelled, and a worker that   *)
(* cannot be spawned is skipped without a word.  A result is pushed and    *)
(* counted under one lock.                                                 *)
(*                                                                         *)
(* One call is modelled; calls share no state (inspect_images passes no    *)
(* progress, other callers a fresh one).                                   *)
(***************************************************************************)
EXTENDS Naturals, Sequences, FiniteSets, EngineOps

CONSTANTS
  MaxItems,       \* the longest item list
  WorkerRequests, \* values of max_workers
  PoolCap,        \* hard cap on the pool size (32 in the code)
  MayPanic        \* whether the task function may panic

ASSUME ProcessorAssumption ==
  /\ MaxItems \in Nat /\ PoolCap \in Nat \ {0}
  /\ WorkerRequests \subseteq Nat /\ MayPanic \in BOOLEAN

VARIABLES
  token,        \* cancel_token
  completed, total, percentage, \* the InspectionProgress passed in
  pc,           \* the calling thread
  size,         \* items.len()
  workers,      \* num_workers
  tried,        \* spawn attempts so far
  queue,        \* indexes not yet popped
  results,      \* pushed indexes, in push order
  storedError,  \* index of the task whose error is kept, 0 if none
  wasCancelled, \* the load after the joins
  answer,       \* what the call returned
  wpc,          \* worker -> where its loop stands
  item,         \* worker -> index popped, 0 if none
  seen,         \* worker -> fetch_add result
  verdict,      \* index -> what the task function returned
  lock          \* worker that holds the results lock, 0 if none

callVars   == <<pc, size, workers, tried, wasCancelled, answer>>
sharedVars == <<queue, results, storedError, verdict>>
vars == <<token, completed, total, percentage, callVars, sharedVars, wpc, item,
          seen, lock>>

Workers  == 1 .. PoolCap
Verdicts == {"none", "ok", "error", "cancelled", "panic"}

Init ==
  /\ token \in BOOLEAN
  /\ completed = 0 /\ total = 0 /\ percentage = 0
  /\ pc = "idle" /\ tried = 0 /\ wasCancelled = FALSE /\ answer = "none"
  /\ size = 0 /\ workers = 0
  /\ queue = <<>>
  /\ results = <<>> /\ storedError = 0
  /\ wpc = [w \in Workers |-> "none"]
  /\ item = [w \in Workers |-> 0]
  /\ seen = [w \in Workers |-> 0]
  /\ verdict = [i \in 1 .. MaxItems |-> "none"]
  /\ lock = 0

-----------------------------------------------------------------------------
(* The calling thread. *)

\* The arguments of the call.
Call ==
  /\ pc = "idle" /\ pc' = "enter"
  /\ \E n \in 0 .. MaxItems, requested \in WorkerRequests :
       /\ size' = n
       /\ workers' = PoolSizeOf(requested, n, PoolCap)
       /\ queue' = [i \in 1 .. n |-> i]
  /\ UNCHANGED <<token, completed, total, percentage, tried, wasCancelled,
                 answer, results, storedError, verdict, wpc, item, seen, lock>>

\* No items, or a token that is already set: an empty vector, no threads.
Enter ==
  /\ pc = "enter"
  /\ \/ /\ size = 0 \/ token
        /\ pc' = "returned" /\ answer' = "ok"
        /\ UNCHANGED total
     \/ /\ size > 0 /\ ~token
        /\ pc' = "spawn"
        /\ total' = size
        /\ UNCHANGED answer
  /\ UNCHANGED <<token, completed, percentage, size, workers, tried,
                 wasCancelled, sharedVars, wpc, item, seen, lock>>

\* Builder::spawn: an error is dropped and the loop goes on.
Spawn ==
  /\ pc = "spawn" /\ tried < workers
  /\ tried' = tried + 1
  /\ \E spawned \in BOOLEAN :
       wpc' = IF spawned THEN [wpc EXCEPT ![tried + 1] = "check"] ELSE wpc
  /\ UNCHANGED <<token, completed, total, percentage, pc, size, workers,
                 wasCancelled, answer, sharedVars, item, seen, lock>>

\* Mutant of JoinAll: does not wait for the workers.
JoinNone ==
  /\ pc = "spawn" /\ tried = workers
  /\ pc' = "decide"
  /\ wasCancelled' = token
  /\ UNCHANGED <<token, completed, total, percentage, size, workers, tried,
                 answer, sharedVars, wpc, item, seen, lock>>

JoinAll ==
  /\ pc = "spawn" /\ tried = workers
  /\ \A w \in Workers : wpc[w] \in {"none", "exited"}
  /\ pc' = "decide"
  /\ wasCancelled' = token
  /\ UNCHANGED <<token, completed, total, percentage, size, workers, tried,
                 answer, sharedVars, wpc, item, seen, lock>>

\* Mutant of Return: the kept error wins over a cancellation too.
ReturnErrorFirst ==
  /\ pc = "decide"
  /\ pc' = "returned"
  /\ answer' = IF storedError # 0 THEN "error" ELSE "ok"
  /\ UNCHANGED <<token, completed, total, percentage, size, workers, tried,
                 wasCancelled, sharedVars, wpc, item, seen, lock>>

\* The kept error wins unless the call was cancelled; the results are sorted
\* otherwise.
Return ==
  /\ pc = "decide"
  /\ pc' = "returned"
  /\ answer' = IF ~wasCancelled /\ storedError # 0 THEN "error" ELSE "ok"
  /\ UNCHANGED <<token, completed, total, percentage, size, workers, tried,
                 wasCancelled, sharedVars, wpc, item, seen, lock>>

\* Mutant of Sorted: the order of the pushes.
Unsorted(s) == s

\* res.sort_by_key, on distinct indexes
Sorted(s) ==
  LET entries == {s[k] : k \in DOMAIN s} IN
  [k \in DOMAIN s |->
     CHOOSE i \in entries : Cardinality({j \in entries : j < i}) = k - 1]

Returned == Sorted(results)

-----------------------------------------------------------------------------
(* A worker's loop. *)

CheckCancel(w) ==
  /\ wpc[w] = "check"
  /\ wpc' = [wpc EXCEPT ![w] = IF token THEN "exited" ELSE "pop"]
  /\ UNCHANGED <<token, completed, total, percentage, callVars, sharedVars,
                 item, seen, lock>>

\* Mutant of Pop: a stored error stops every worker.
PopUnlessError(w) ==
  /\ wpc[w] = "pop"
  /\ \/ /\ queue = <<>> \/ storedError # 0
        /\ wpc' = [wpc EXCEPT ![w] = "exited"]
        /\ UNCHANGED <<queue, item>>
     \/ /\ queue # <<>> /\ storedError = 0
        /\ item' = [item EXCEPT ![w] = Head(queue)]
        /\ queue' = Tail(queue)
        /\ wpc' = [wpc EXCEPT ![w] = "recheck"]
  /\ UNCHANGED <<token, completed, total, percentage, callVars, results,
                 storedError, verdict, seen, lock>>

Pop(w) ==
  /\ wpc[w] = "pop"
  /\ \/ /\ queue = <<>>
        /\ wpc' = [wpc EXCEPT ![w] = "exited"]
        /\ UNCHANGED <<queue, item>>
     \/ /\ queue # <<>>
        /\ item' = [item EXCEPT ![w] = Head(queue)]
        /\ queue' = Tail(queue)
        /\ wpc' = [wpc EXCEPT ![w] = "recheck"]
  /\ UNCHANGED <<token, completed, total, percentage, callVars, results,
                 storedError, verdict, seen, lock>>

RecheckCancel(w) ==
  /\ wpc[w] = "recheck"
  /\ wpc' = [wpc EXCEPT ![w] = IF token THEN "exited" ELSE "run"]
  /\ UNCHANGED <<token, completed, total, percentage, callVars, sharedVars,
                 item, seen, lock>>

\* The task function runs outside every lock.  Its error may be Cancelled even
\* without the token: the function decides.
RunTask(w) ==
  /\ wpc[w] = "run"
  /\ \E v \in Verdicts \ {"none"} :
       /\ v = "panic" => MayPanic
       /\ verdict' = [verdict EXCEPT ![item[w]] = v]
       /\ wpc' = [wpc EXCEPT ![w] = CASE v = "ok"    -> "push"
                                      [] v = "error" -> "store_error"
                                      [] OTHER       -> "exited"]
  /\ UNCHANGED <<token, completed, total, percentage, callVars, queue, results,
                 storedError, item, seen, lock>>

\* Mutant of PushResult: the lock is released before the progress is updated.
PushAndUnlock(w) ==
  /\ wpc[w] = "push" /\ lock = 0
  /\ results' = Append(results, item[w])
  /\ item' = [item EXCEPT ![w] = 0]
  /\ wpc' = [wpc EXCEPT ![w] = "increment"]
  /\ UNCHANGED <<token, completed, total, percentage, callVars, queue,
                 storedError, verdict, seen, lock>>

\* The results lock is taken here and held until the progress is updated.
PushResult(w) ==
  /\ wpc[w] = "push" /\ lock = 0
  /\ lock' = w
  /\ results' = Append(results, item[w])
  /\ item' = [item EXCEPT ![w] = 0]
  /\ wpc' = [wpc EXCEPT ![w] = "increment"]
  /\ UNCHANGED <<token, completed, total, percentage, callVars, queue,
                 storedError, verdict, seen>>

FetchAdd(w) ==
  /\ wpc[w] = "increment"
  /\ completed' = completed + 1
  /\ seen' = [seen EXCEPT ![w] = completed + 1]
  /\ wpc' = [wpc EXCEPT ![w] = "publish"]
  /\ UNCHANGED <<token, total, percentage, callVars, sharedVars, item, lock>>

\* Mutant of StorePercentage: the guard of the results lock is leaked.
KeepLock(w) ==
  /\ wpc[w] = "publish"
  /\ percentage' = IF total > 0 THEN PercentOf(seen[w], total) ELSE percentage
  /\ seen' = [seen EXCEPT ![w] = 0]
  /\ wpc' = [wpc EXCEPT ![w] = "check"]
  /\ UNCHANGED <<token, completed, total, callVars, sharedVars, item, lock>>

StorePercentage(w) ==
  /\ wpc[w] = "publish"
  /\ percentage' = IF total > 0 THEN PercentOf(seen[w], total) ELSE percentage
  /\ seen' = [seen EXCEPT ![w] = 0]
  /\ lock' = 0
  /\ wpc' = [wpc EXCEPT ![w] = "check"]
  /\ UNCHANGED <<token, completed, total, callVars, sharedVars, item>>

\* Only the first error is kept; the worker stops.
StoreError(w) ==
  /\ wpc[w] = "store_error"
  /\ storedError' = IF storedError = 0 THEN item[w] ELSE storedError
  /\ wpc' = [wpc EXCEPT ![w] = "exited"]
  /\ UNCHANGED <<token, completed, total, percentage, callVars, queue, results,
                 verdict, item, seen, lock>>

\* Somebody sets the token.
Cancel ==
  /\ ~token /\ token' = TRUE
  /\ UNCHANGED <<completed, total, percentage, callVars, sharedVars, wpc, item,
                 seen, lock>>

WorkerStep(w) ==
  \/ CheckCancel(w) \/ Pop(w) \/ RecheckCancel(w) \/ RunTask(w)
  \/ PushResult(w) \/ FetchAdd(w) \/ StorePercentage(w) \/ StoreError(w)

CallerStep == Call \/ Enter \/ Spawn \/ JoinAll \/ Return

Next == CallerStep \/ (\E w \in Workers : WorkerStep(w)) \/ Cancel

Spec == Init /\ [][Next]_vars

\* The calling thread and the workers are scheduled and the task function ends.
FairSpec ==
  Spec /\ WF_vars(CallerStep) /\ \A w \in Workers : WF_vars(WorkerStep(w))

-----------------------------------------------------------------------------
(* Properties. *)

Pushed == {results[k] : k \in DOMAIN results}

\* Partial results are preserved: an "ok" call hands back, in input order and
\* once each, exactly the tasks whose function succeeded, cancelled or not, and
\* the progress counted each of them.
ResultsPreserved ==
  pc = "returned" /\ answer = "ok" =>
    /\ \A j, k \in DOMAIN Returned : j < k => Returned[j] < Returned[k]
    /\ Pushed = {i \in 1 .. MaxItems : verdict[i] = "ok"}
    /\ completed = Len(results)

\* A task error surfaces: an uncancelled call in which some task failed returns
\* an error, and the error returned is one that a task really reported.
ErrorSurfaces ==
  pc = "returned" =>
    /\ answer = "ok" /\ ~wasCancelled /\ tried > 0
         => \A i \in 1 .. MaxItems : verdict[i] # "error"
    /\ answer = "error" => ~wasCancelled /\ verdict[storedError] = "error"

\* Tasks are left in the queue only if the token is set or every worker that
\* could be spawned died on a task of its own: one error never starves the
\* tasks that a surviving worker could run.
LeftoverExplained ==
  pc \in {"decide", "returned"} /\ queue # <<>> =>
    token \/ \A w \in Workers : wpc[w] = "exited" => item[w] # 0

\* The results lock covers the whole progress update, so the stored percentage
\* never goes backwards.
PercentageMonotone == [][percentage' >= percentage]_vars

\* The call returns.
CallReturns == pc = "enter" ~> pc = "returned"

Running == {item[w] : w \in {v \in Workers : wpc[v] \in {"recheck", "run", "push"}}}
Lost    == {item[w] : w \in {v \in Workers : wpc[v] \in {"store_error", "exited"}}}
             \ {0}

\* Every spawn failed, which the call does not report.
Threadless == tried > 0 /\ tried = workers /\ \A w \in Workers : wpc[w] = "none"

Open   == pc \notin {"idle", "returned"}
Queued == {queue[k] : k \in DOMAIN queue}
Halted == token \/ Lost # {} \/ Threadless

Pool == INSTANCE WorkPool WITH
  MaxTasks <- MaxItems,
  open     <- Open,
  pending  <- Queued,
  running  <- Running,
  settled  <- Pushed,
  lost     <- Lost,
  halted   <- Halted,
  result   <- answer

\* process_in_parallel implements the abstract pool.
ImplementsPool == Pool!Spec
-----------------------------------------------------------------------------
(* What these need to be inductive. *)

CallerPC == {"idle", "enter", "spawn", "decide", "returned"}
WorkerPC == {"none", "check", "pop", "recheck", "run", "push", "increment",
             "publish", "store_error", "exited"}

TypeOK ==
  /\ token \in BOOLEAN /\ wasCancelled \in BOOLEAN
  /\ completed \in Nat /\ total \in Nat /\ percentage \in Nat
  /\ pc \in CallerPC /\ answer \in {"none", "ok", "error"}
  /\ size \in 0 .. MaxItems /\ storedError \in 0 .. MaxItems
  /\ workers \in 0 .. PoolCap /\ tried \in 0 .. PoolCap /\ lock \in 0 .. PoolCap
  /\ queue \in Seq(1 .. MaxItems) /\ results \in Seq(1 .. MaxItems)
  /\ wpc \in [Workers -> WorkerPC]
  /\ item \in [Workers -> 0 .. MaxItems]
  /\ seen \in [Workers -> Nat]
  /\ verdict \in [1 .. MaxItems -> Verdicts]

\* Threads exist only between the first spawn and the joins; the answer is the
\* one that Return computes, also on the early return, which has met no error.
CallInv ==
  /\ pc \in {"idle", "enter"} => tried = 0 /\ percentage = 0 /\ Len(queue) = size
  /\ pc \notin {"idle", "enter"} /\ size = 0 => pc = "returned"
  /\ \A w \in Workers : w > tried => wpc[w] = "none"
  /\ pc \in {"decide", "returned"} => \A w \in Workers : wpc[w] \in {"none", "exited"}
  /\ pc = "decide" => tried = workers
  /\ size > 0 <=> workers > 0
  /\ pc # "returned" => answer = "none"
  /\ pc = "returned" =>
       answer = IF ~wasCancelled /\ storedError # 0 THEN "error" ELSE "ok"

Held   == {item[w] : w \in Workers} \ {0}
Popped == size - Len(queue)

\* The items popped so far are an initial segment, each in one hand or pushed once.
AccountInv ==
  /\ Len(queue) <= size
  /\ \A k \in 1 .. Len(queue) : queue[k] = Popped + k
  /\ Held \cup Pushed = 1 .. Popped
  /\ Held \cap Pushed = {}
  /\ \A v, w \in Workers : item[v] # 0 /\ item[v] = item[w] => v = w
  /\ \A j, k \in DOMAIN results : results[j] = results[k] => j = k

\* A worker holds an item from its pop to its push, or for good when it ends in
\* between; what the task function said of the item tells where the worker is.
HandsInv ==
  \A w \in Workers :
    /\ wpc[w] \in {"none", "check", "pop", "increment", "publish"} => item[w] = 0
    /\ wpc[w] \in {"recheck", "run", "push", "store_error"} => item[w] # 0
    /\ wpc[w] \in {"recheck", "run"} => verdict[item[w]] = "none"
    /\ wpc[w] = "push" => verdict[item[w]] = "ok"
    /\ wpc[w] = "store_error" => verdict[item[w]] = "error"
    /\ wpc[w] = "exited" /\ item[w] = 0 => token \/ queue = <<>>
    /\ wpc[w] = "exited" /\ item[w] # 0 =>
         verdict[item[w]] # "ok" /\ (verdict[item[w]] = "error" => storedError # 0)

VerdictsInv ==
  /\ \A i \in 1 .. MaxItems : i > Popped => verdict[i] = "none"
  /\ \A i \in Pushed : verdict[i] = "ok"
  /\ storedError # 0 => verdict[storedError] = "error"

\* The lock is held from a push to the store of its percentage, so that the counter
\* is the number of results save between the two.
LockInv ==
  /\ \A w \in Workers : wpc[w] \in {"increment", "publish"} <=> lock = w
  /\ IF lock # 0 /\ wpc[lock] = "increment" THEN completed + 1 = Len(results)
                                             ELSE completed = Len(results)
  /\ \A w \in Workers : wpc[w] = "publish" => seen[w] = completed
  /\ percentage <= PercentOf(completed, total)

ProcessorInv == TypeOK /\ CallInv /\ AccountInv /\ HandsInv /\ VerdictsInv /\ LockInv
=============================================================================
