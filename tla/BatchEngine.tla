---------------------------- MODULE BatchEngine ----------------------------
(***************************************************************************)
(* InspectionEngine::inspect_batch: a bounded pool of worker threads that  *)
(* drains a queue of image paths, together with the three pieces of shared *)
(* state it touches: the process-wide operation slot (operation.rs), the   *)
(* lock-free InspectionProgress counters (models/options.rs) and the       *)
(* cancellation token.                                                     *)
(*                                                                         *)
(* Every atomic load, store or read-modify-write and every critical        *)
(* section of the code is one step here.  All callers share one engine     *)
(* (clones of an engine share its progress and its token); each call owns  *)
(* its queue and its outcomes.  Images are numbered from 1.                *)
(***************************************************************************)
EXTENDS Naturals, Sequences, FiniteSets, EngineOps

CONSTANTS
  Callers,        \* threads that call inspect_batch or a discovery function
  MaxImages,      \* the longest path list a caller passes
  WorkerRequests, \* the values of max_workers a caller passes
  PoolCap,        \* the hard cap on the pool size (32 in the code)
  MaxCalls,       \* bound: operations one caller starts
  PanicImages,    \* images whose inspection may panic inside a library
  SpawnMayFail    \* whether Builder::spawn may return an error

ASSUME PoolCapAssumption    == PoolCap \in Nat \ {0}
ASSUME BoundsAssumption     == MaxImages \in Nat /\ MaxCalls \in Nat
ASSUME RequestsAssumption   == WorkerRequests \subseteq Nat
ASSUME FailuresAssumption   == PanicImages \subseteq Nat /\ SpawnMayFail \in BOOLEAN

VARIABLES
  slot,       \* ACTIVE_OPERATION
  token,      \* InspectionEngine::cancel_token
  cancelled,  \* InspectionProgress::cancelled
  completed,  \* InspectionProgress::completed_tasks
  total,      \* InspectionProgress::total_tasks
  percentage, \* InspectionProgress::percentage
  pc,         \* caller -> where its call stands
  field,      \* caller -> next field reset_for_batch stores
  calls,      \* caller -> operations started
  images,     \* caller -> number of paths of its batch
  workers,    \* caller -> size of its pool
  spawned,    \* caller -> workers spawned so far
  status,     \* caller -> what its last batch returned ("none" until then)
  queue,      \* caller -> indexes not yet popped
  outcomes,   \* caller -> the (index, result) pairs pushed
  wpc,        \* caller -> worker -> where the worker's loop stands
  item,       \* caller -> worker -> the index the worker popped (0: none)
  seen,       \* caller -> worker -> fetch_add result, until it is published
  canceller   \* the thread that calls cancel()

progressVars == <<cancelled, completed, total, percentage>>
callVars     == <<pc, field, calls, images, workers, spawned, status>>
workVars     == <<queue, outcomes, wpc, item, seen>>
vars == <<slot, token, progressVars, callVars, workVars, canceller>>

Workers == 1 .. PoolCap
Kinds   == {"report", "error", "cancelled"}
Outcome == [index : 1 .. MaxImages, kind : Kinds]

CallerPC    == {"idle", "reset", "spawn", "join_failed", "release", "discover"}
WorkerPC    == {"none", "check", "pop", "recheck", "inspect", "increment",
                "publish", "exited"}
Statuses    == {"none", "ok", "io_error"}
CancellerPC == {"none", "progress", "link", "returned"}

\* InspectionEngine::is_cancelled and InspectionProgress::is_cancelled agree:
\* the engine always links its progress to its own token.
IsCancelled == token \/ cancelled

Init ==
  /\ slot = FALSE /\ token = FALSE /\ cancelled = FALSE
  /\ completed = 0 /\ total = 0 /\ percentage = 0
  /\ pc = [c \in Callers |-> "idle"]
  /\ field = [c \in Callers |-> 1]
  /\ calls = [c \in Callers |-> 0]
  /\ images = [c \in Callers |-> 0]
  /\ workers = [c \in Callers |-> 0]
  /\ spawned = [c \in Callers |-> 0]
  /\ status = [c \in Callers |-> "none"]
  /\ queue = [c \in Callers |-> <<>>]
  /\ outcomes = [c \in Callers |-> <<>>]
  /\ wpc = [c \in Callers |-> [w \in Workers |-> "none"]]
  /\ item = [c \in Callers |-> [w \in Workers |-> 0]]
  /\ seen = [c \in Callers |-> [w \in Workers |-> 0]]
  /\ canceller = "none"

-----------------------------------------------------------------------------
(* The operation slot. *)

\* Mutant of AcquireActiveOperation: a plain store instead of compare_exchange.
StoreActiveOperation == slot' = TRUE

\* acquire_active_operation: the compare_exchange succeeds on a free slot only.
AcquireActiveOperation == slot = FALSE /\ slot' = TRUE

\* The loser of the compare_exchange returns an error and touches nothing else.
Rejected(c) ==
  /\ pc[c] = "idle" /\ calls[c] < MaxCalls
  /\ slot = TRUE
  /\ calls' = [calls EXCEPT ![c] = @ + 1]
  /\ UNCHANGED <<slot, token, progressVars, pc, field, images, workers,
                 spawned, status, workVars, canceller>>

\* Drop of ActiveOperationGuard, when inspect_batch returns.
Release(c) ==
  /\ pc[c] = "release"
  /\ slot' = FALSE
  /\ pc' = [pc EXCEPT ![c] = "idle"]
  /\ UNCHANGED <<token, progressVars, field, calls, images, workers, spawned,
                 status, workVars, canceller>>

\* A discovery call holds the same slot while it scans (Discovery models the
\* scan itself) ...
BeginDiscovery(c) ==
  /\ pc[c] = "idle" /\ calls[c] < MaxCalls
  /\ AcquireActiveOperation
  /\ calls' = [calls EXCEPT ![c] = @ + 1]
  /\ pc' = [pc EXCEPT ![c] = "discover"]
  /\ UNCHANGED <<token, progressVars, field, images, workers, spawned, status,
                 workVars, canceller>>

\* ... and ends, with a result or an error, by dropping its guard.
EndDiscovery(c) ==
  /\ pc[c] = "discover"
  /\ slot' = FALSE
  /\ pc' = [pc EXCEPT ![c] = "idle"]
  /\ UNCHANGED <<token, progressVars, field, calls, images, workers, spawned,
                 status, workVars, canceller>>

-----------------------------------------------------------------------------
(* The calling thread of inspect_batch. *)

BeginBatch(c) ==
  /\ pc[c] = "idle" /\ calls[c] < MaxCalls
  /\ AcquireActiveOperation
  /\ \E n \in 0 .. MaxImages, requested \in WorkerRequests :
       /\ images' = [images EXCEPT ![c] = n]
       /\ workers' = [workers EXCEPT ![c] = PoolSizeOf(requested, n, PoolCap)]
       /\ queue' = [queue EXCEPT ![c] = [i \in 1 .. n |-> i]]
  /\ calls' = [calls EXCEPT ![c] = @ + 1]
  /\ pc' = [pc EXCEPT ![c] = "reset"]
  /\ field' = [field EXCEPT ![c] = 1]
  /\ spawned' = [spawned EXCEPT ![c] = 0]
  /\ status' = [status EXCEPT ![c] = "none"]
  /\ outcomes' = [outcomes EXCEPT ![c] = <<>>]
  /\ wpc' = [wpc EXCEPT ![c] = [w \in Workers |-> "none"]]
  /\ item' = [item EXCEPT ![c] = [w \in Workers |-> 0]]
  /\ seen' = [seen EXCEPT ![c] = [w \in Workers |-> 0]]
  /\ UNCHANGED <<token, progressVars, canceller>>

\* The order in which reset_for_batch stores the fields that matter here
\* (bytes_processed, total_bytes and stage_id sit between the first two).
ResetOrder == <<"completed_tasks", "percentage", "cancelled", "total_tasks">>

\* One store of reset_for_batch.  After the last one an empty batch returns and
\* any other one starts its pool.
ResetForBatch(c) ==
  /\ pc[c] = "reset"
  /\ LET f == ResetOrder[field[c]] IN
       /\ completed'  = IF f = "completed_tasks" THEN 0 ELSE completed
       /\ percentage' = IF f = "percentage" THEN 0 ELSE percentage
       /\ cancelled'  = IF f = "cancelled" THEN FALSE ELSE cancelled
       /\ total'      = IF f = "total_tasks" THEN images[c] ELSE total
  /\ \/ /\ field[c] < Len(ResetOrder)
        /\ field' = [field EXCEPT ![c] = @ + 1]
        /\ UNCHANGED <<pc, status>>
     \/ /\ field[c] = Len(ResetOrder) /\ images[c] > 0
        /\ pc' = [pc EXCEPT ![c] = "spawn"]
        /\ UNCHANGED <<field, status>>
     \/ /\ field[c] = Len(ResetOrder) /\ images[c] = 0
        /\ pc' = [pc EXCEPT ![c] = "release"]
        /\ status' = [status EXCEPT ![c] = "ok"]
        /\ UNCHANGED field
  /\ UNCHANGED <<slot, token, calls, images, workers, spawned, workVars,
                 canceller>>

Spawn(c) ==
  /\ pc[c] = "spawn" /\ spawned[c] < workers[c]
  /\ spawned' = [spawned EXCEPT ![c] = @ + 1]
  /\ wpc' = [wpc EXCEPT ![c][spawned[c] + 1] = "check"]
  /\ UNCHANGED <<slot, token, progressVars, pc, field, calls, images, workers,
                 status, queue, outcomes, item, seen, canceller>>

\* Builder::spawn fails: the batch waits for the workers it already has and
\* returns the I/O error, dropping whatever they produced.
SpawnFails(c) ==
  /\ SpawnMayFail
  /\ pc[c] = "spawn" /\ spawned[c] < workers[c]
  /\ pc' = [pc EXCEPT ![c] = "join_failed"]
  /\ UNCHANGED <<slot, token, progressVars, field, calls, images, workers,
                 spawned, status, workVars, canceller>>

\* Mutant of AllExited: the worker spawned last is not joined.
AllButLastExited(c) == \A w \in 1 .. spawned[c] - 1 : wpc[c][w] = "exited"

AllExited(c) == \A w \in 1 .. spawned[c] : wpc[c][w] = "exited"

\* Joins every handle (a panicked worker's join error is ignored) and returns
\* the outcomes.
Join(c) ==
  /\ pc[c] = "spawn" /\ spawned[c] = workers[c]
  /\ AllExited(c)
  /\ pc' = [pc EXCEPT ![c] = "release"]
  /\ status' = [status EXCEPT ![c] = "ok"]
  /\ UNCHANGED <<slot, token, progressVars, field, calls, images, workers,
                 spawned, workVars, canceller>>

\* Mutant of JoinAfterFailure: returns the spawn error without joining.
ReturnWithoutJoin(c) ==
  /\ pc[c] = "join_failed"
  /\ pc' = [pc EXCEPT ![c] = "release"]
  /\ status' = [status EXCEPT ![c] = "io_error"]
  /\ UNCHANGED <<slot, token, progressVars, field, calls, images, workers,
                 spawned, workVars, canceller>>

JoinAfterFailure(c) ==
  /\ pc[c] = "join_failed"
  /\ AllExited(c)
  /\ pc' = [pc EXCEPT ![c] = "release"]
  /\ status' = [status EXCEPT ![c] = "io_error"]
  /\ UNCHANGED <<slot, token, progressVars, field, calls, images, workers,
                 spawned, workVars, canceller>>

\* Mutant of SortByIndex: the order in which the workers finished.
PushOrder(s) == s

\* outcomes.sort_by_key on the index: the k-th entry has k - 1 indexes below it.
SortByIndex(s) ==
  LET indexes == {s[k].index : k \in DOMAIN s} IN
  [k \in DOMAIN s |->
     s[CHOOSE j \in DOMAIN s :
         Cardinality({i \in indexes : i < s[j].index}) = k - 1]]

\* What the loop over the outcomes pushes on one of its two lists: the k-th of
\* those of these kinds.
Split(s, kinds) ==
  LET places == {n \in DOMAIN s : s[n].kind \in kinds} IN
  [k \in 1 .. Cardinality(places) |->
     s[CHOOSE n \in places : Cardinality({m \in places : m < n}) = k - 1]]

\* The BatchResult an "ok" call hands back.
Reports(c) == Split(SortByIndex(outcomes[c]), {"report"})
Errors(c)  == Split(SortByIndex(outcomes[c]), Kinds \ {"report"})

-----------------------------------------------------------------------------
(* A worker's loop. *)

Goto(c, w, to) == wpc' = [wpc EXCEPT ![c][w] = to]

CheckCancel(c, w) ==
  /\ wpc[c][w] = "check"
  /\ Goto(c, w, IF token THEN "exited" ELSE "pop")
  /\ UNCHANGED <<slot, token, progressVars, callVars, queue, outcomes, item,
                 seen, canceller>>

\* Mutant of Pop: front instead of pop_front.
PeekFront(c, w) ==
  /\ wpc[c][w] = "pop"
  /\ \/ /\ queue[c] = <<>>
        /\ Goto(c, w, "exited")
        /\ UNCHANGED item
     \/ /\ queue[c] # <<>>
        /\ item' = [item EXCEPT ![c][w] = Head(queue[c])]
        /\ Goto(c, w, "recheck")
  /\ UNCHANGED <<slot, token, progressVars, callVars, queue, outcomes, seen,
                 canceller>>

\* Mutant of Pop: a worker that finds the queue empty polls it again.
PopAgain(c, w) ==
  /\ wpc[c][w] = "pop"
  /\ \/ /\ queue[c] = <<>>
        /\ Goto(c, w, "check")
        /\ UNCHANGED <<queue, item>>
     \/ /\ queue[c] # <<>>
        /\ item' = [item EXCEPT ![c][w] = Head(queue[c])]
        /\ queue' = [queue EXCEPT ![c] = Tail(queue[c])]
        /\ Goto(c, w, "recheck")
  /\ UNCHANGED <<slot, token, progressVars, callVars, outcomes, seen, canceller>>

Pop(c, w) ==
  /\ wpc[c][w] = "pop"
  /\ \/ /\ queue[c] = <<>>
        /\ Goto(c, w, "exited")
        /\ UNCHANGED <<queue, item>>
     \/ /\ queue[c] # <<>>
        /\ item' = [item EXCEPT ![c][w] = Head(queue[c])]
        /\ queue' = [queue EXCEPT ![c] = Tail(queue[c])]
        /\ Goto(c, w, "recheck")
  /\ UNCHANGED <<slot, token, progressVars, callVars, outcomes, seen, canceller>>

\* Mutant of RecheckCancel: no second look at the token.
NoRecheck(c, w) ==
  /\ wpc[c][w] = "recheck"
  /\ Goto(c, w, "inspect")
  /\ UNCHANGED <<slot, token, progressVars, callVars, queue, outcomes, item,
                 seen, canceller>>

\* The second look at the token: a popped path is dropped when it is set.
RecheckCancel(c, w) ==
  /\ wpc[c][w] = "recheck"
  /\ Goto(c, w, IF token THEN "exited" ELSE "inspect")
  /\ UNCHANGED <<slot, token, progressVars, callVars, queue, outcomes, item,
                 seen, canceller>>

\* A fresh engine inspects the image and the outcome is pushed.  Only an
\* inspection that saw the token set reports a cancellation.
Inspect(c, w) ==
  /\ wpc[c][w] = "inspect"
  /\ \E k \in Kinds :
       /\ k = "cancelled" => token
       /\ outcomes' = [outcomes EXCEPT
            ![c] = Append(@, [index |-> item[c][w], kind |-> k])]
  /\ item' = [item EXCEPT ![c][w] = 0]
  /\ Goto(c, w, "increment")
  /\ UNCHANGED <<slot, token, progressVars, callVars, queue, seen, canceller>>

\* The inspection unwinds: the thread ends and its image has no outcome.
InspectPanics(c, w) ==
  /\ wpc[c][w] = "inspect" /\ item[c][w] \in PanicImages
  /\ Goto(c, w, "exited")
  /\ UNCHANGED <<slot, token, progressVars, callVars, queue, outcomes, item,
                 seen, canceller>>

\* increment_completed_tasks, first half: fetch_add.
FetchAdd(c, w) ==
  /\ wpc[c][w] = "increment"
  /\ completed' = completed + 1
  /\ seen' = [seen EXCEPT ![c][w] = completed + 1]
  /\ Goto(c, w, "publish")
  /\ UNCHANGED <<slot, token, cancelled, total, percentage, callVars, queue,
                 outcomes, item, canceller>>

\* increment_completed_tasks, second half: the percentage of the value that
\* this thread's fetch_add saw.
StorePercentage(c, w) ==
  /\ wpc[c][w] = "publish"
  /\ percentage' = IF total > 0 THEN PercentOf(seen[c][w], total)
                                ELSE percentage
  /\ seen' = [seen EXCEPT ![c][w] = 0]
  /\ Goto(c, w, "check")
  /\ UNCHANGED <<slot, token, cancelled, completed, total, callVars, queue,
                 outcomes, item, canceller>>

-----------------------------------------------------------------------------
(* Cancellation. *)

\* InspectionEngine::cancel stores the token first and then calls
\* InspectionProgress::cancel ...
EngineCancel ==
  /\ canceller = "none"
  /\ token' = TRUE
  /\ canceller' = "progress"
  /\ UNCHANGED <<slot, progressVars, callVars, workVars>>

\* ... which a holder of the progress handle may also call directly: it stores
\* its own flag ...
ProgressCancel ==
  /\ canceller \in {"none", "progress"}
  /\ cancelled' = TRUE
  /\ canceller' = "link"
  /\ UNCHANGED <<slot, token, completed, total, percentage, callVars, workVars>>

\* Mutant of ProgressCancelLink: the progress has no token to store to.
ProgressCancelUnlinked ==
  /\ canceller = "link"
  /\ canceller' = "returned"
  /\ UNCHANGED <<slot, token, progressVars, callVars, workVars>>

\* ... and then the linked token.
ProgressCancelLink ==
  /\ canceller = "link"
  /\ token' = TRUE
  /\ canceller' = "returned"
  /\ UNCHANGED <<slot, progressVars, callVars, workVars>>

-----------------------------------------------------------------------------

CallerStep(c) ==
  \/ ResetForBatch(c) \/ Spawn(c) \/ SpawnFails(c) \/ Join(c)
  \/ JoinAfterFailure(c) \/ EndDiscovery(c) \/ Release(c)

CallerStart(c) == BeginBatch(c) \/ BeginDiscovery(c) \/ Rejected(c)

WorkerStep(c, w) ==
  \/ CheckCancel(c, w) \/ Pop(c, w) \/ RecheckCancel(c, w)
  \/ Inspect(c, w) \/ InspectPanics(c, w)
  \/ FetchAdd(c, w) \/ StorePercentage(c, w)

CancelStep == EngineCancel \/ ProgressCancel \/ ProgressCancelLink

Next ==
  \/ \E c \in Callers : CallerStart(c) \/ CallerStep(c)
  \/ \E c \in Callers, w \in Workers : WorkerStep(c, w)
  \/ CancelStep

Spec == Init /\ [][Next]_vars

\* A started call and its threads are scheduled, and an inspection or a scan
\* ends; starting a call and cancelling are the users' choice.
Fairness ==
  /\ \A c \in Callers : WF_vars(CallerStep(c))
  /\ \A c \in Callers, w \in Workers : WF_vars(WorkerStep(c, w))

-----------------------------------------------------------------------------
(* Properties. *)

TypeOK ==
  /\ slot \in BOOLEAN /\ token \in BOOLEAN /\ cancelled \in BOOLEAN
  /\ completed \in Nat /\ total \in Nat /\ percentage \in Nat
  /\ pc \in [Callers -> CallerPC]
  /\ field \in [Callers -> 1 .. Len(ResetOrder)]
  /\ calls \in [Callers -> 0 .. MaxCalls]
  /\ images \in [Callers -> 0 .. MaxImages]
  /\ workers \in [Callers -> 0 .. PoolCap]
  /\ spawned \in [Callers -> 0 .. PoolCap]
  /\ status \in [Callers -> Statuses]
  /\ queue \in [Callers -> Seq(1 .. MaxImages)]
  /\ outcomes \in [Callers -> Seq(Outcome)]
  /\ wpc \in [Callers -> [Workers -> WorkerPC]]
  /\ item \in [Callers -> [Workers -> 0 .. MaxImages]]
  /\ seen \in [Callers -> [Workers -> Nat]]
  /\ canceller \in CancellerPC

\* The call has reset the counters and has not returned yet.
InBatch(c) == pc[c] \in {"spawn", "join_failed", "release"}

LiveWorker(c, w) == wpc[c][w] \notin {"none", "exited"}

\* The slot admits one batch or scan at a time, it is taken exactly while one is
\* in progress, and no worker thread outlives the inspect_batch call that
\* spawned it, on the paths that return an error included.
SlotExclusive ==
  /\ slot <=> \E c \in Callers : pc[c] # "idle"
  /\ \A c, d \in Callers : pc[c] # "idle" /\ pc[d] # "idle" => c = d
  /\ \A c \in Callers, w \in Workers :
       LiveWorker(c, w) => pc[c] \in {"spawn", "join_failed"}

\* What SlotExclusive needs to be inductive: a worker that is not spawned has no
\* thread, and one between its pop and its push holds an image.
NotSpawnedYet ==
  \A c \in Callers, w \in Workers :
    pc[c] \in {"reset", "spawn", "join_failed"} /\ w > spawned[c]
      => wpc[c][w] = "none"
HoldsItem ==
  \A c \in Callers, w \in Workers :
    wpc[c][w] \in {"recheck", "inspect"} => item[c][w] # 0

SlotInv == TypeOK /\ HoldsItem /\ NotSpawnedYet /\ SlotExclusive

\* The progress of the engine is the progress of the running batch: the plan is
\* its number of images and completed_tasks counts the outcomes pushed, save
\* those of workers between their push and their fetch_add.
ProgressExact ==
  \A c \in Callers : InBatch(c) =>
    /\ total = images[c]
    /\ completed + Cardinality({w \in Workers : wpc[c][w] = "increment"})
         = Len(outcomes[c])

Queued(c)  == {queue[c][k] : k \in DOMAIN queue[c]}
Held(c)    == {item[c][w] : w \in Workers} \ {0}
Settled(c) == {outcomes[c][k].index : k \in DOMAIN outcomes[c]}

\* Each image of a batch is in one place: queued, popped by one worker, or
\* settled by one outcome.  One that a thread gave up on was given up because of
\* the token or because its inspection panicked.
ImageAccounting ==
  \A c \in Callers : InBatch(c) =>
    /\ Queued(c) \cup Held(c) \cup Settled(c) = 1 .. images[c]
    /\ Len(queue[c]) + Cardinality(Held(c)) + Len(outcomes[c]) = images[c]
    /\ \A v, w \in Workers :
         item[c][v] # 0 /\ item[c][v] = item[c][w] => v = w
    /\ \A w \in Workers :
         wpc[c][w] = "exited" /\ item[c][w] # 0
           => token \/ item[c][w] \in PanicImages

Indexes(s) == [k \in DOMAIN s |-> s[k].index]
Increasing(s) == \A j, k \in DOMAIN s : j < k => s[j] < s[k]

\* The images the result has a report or an error for.
Answered(c) ==
  {Reports(c)[k].index : k \in DOMAIN Reports(c)}
    \cup {Errors(c)[k].index : k \in DOMAIN Errors(c)}

Returned(c) == pc[c] = "release" /\ status[c] = "ok"

\* A batch returns its reports and its errors in input order, whatever the order
\* in which the workers finished.  When it is not cancelled every path has its
\* answer, save one whose inspection panicked, and a path is left in the queue
\* only when every worker thread died of a panic.
ResultComplete ==
  \A c \in Callers : Returned(c) =>
    /\ Increasing(Indexes(Reports(c))) /\ Increasing(Indexes(Errors(c)))
    /\ ~token =>
         /\ \A i \in (1 .. images[c]) \ Answered(c) :
              i \in PanicImages \/ i \in Queued(c)
         /\ Queued(c) # {} =>
              \A w \in 1 .. workers[c] : item[c][w] \in PanicImages

\* What the documentation of inspect_batch says: one image failure does not abort
\* the batch, so that without a cancellation every path has its answer.
OneFailureDoesNotAbort ==
  \A c \in Callers : Returned(c) /\ ~token => Answered(c) = 1 .. images[c]

\* A cancellation that returned stays visible, even when reset_for_batch of a
\* starting batch clears the progress flag in between.
CancelNotLost == canceller = "returned" => IsCancelled

\* Once a cancel call has returned no worker starts another inspection.
NoStartAfterCancel ==
  [][\A c \in Callers, w \in Workers :
       canceller = "returned" /\ wpc[c][w] # "inspect"
         => wpc'[c][w] # "inspect"]_vars

\* What the abstract pool sees of the batch of caller c.
Running(c) ==
  {item[c][w] : w \in {v \in Workers : wpc[c][v] \in {"recheck", "inspect"}}}
Lost(c) == Held(c) \ Running(c)

\* Every call returns and frees the slot: no worker waits for another one.
BatchReturns == \A c \in Callers : pc[c] # "idle" ~> pc[c] = "idle"
-----------------------------------------------------------------------------
(* What these need to be inductive. *)

\* A worker holds an image from its pop to its push, or for good when it exits
\* in between; a worker that exits with nothing in hand does so because of the
\* token or because the queue is empty.
HandsInv ==
  \A c \in Callers, w \in Workers :
    /\ wpc[c][w] \in {"none", "check", "pop", "increment", "publish"} => item[c][w] = 0
    /\ wpc[c][w] = "exited" /\ item[c][w] # 0 => token \/ item[c][w] \in PanicImages
    /\ wpc[c][w] = "exited" /\ item[c][w] = 0 => token \/ queue[c] = <<>>

\* The images popped so far are an initial segment of the batch, and each of them
\* is in one hand or has one outcome.
Popped(c) == images[c] - Len(queue[c])
AccountInv ==
  \A c \in Callers :
    /\ Len(queue[c]) <= images[c]
    /\ \A k \in 1 .. Len(queue[c]) : queue[c][k] = Popped(c) + k
    /\ Held(c) \cup Settled(c) = 1 .. Popped(c)
    /\ Held(c) \cap Settled(c) = {}
    /\ \A v, w \in Workers : item[c][v] # 0 /\ item[c][v] = item[c][w] => v = w
    /\ Cardinality(Held(c)) + Len(outcomes[c]) = Popped(c)

\* A starting batch has no outcome and no thread yet, and its counter is zero
\* from the first store of reset_for_batch on; its pool is empty only when it has
\* no image.
ResetInv ==
  \A c \in Callers :
    /\ pc[c] = "reset" =>
         /\ spawned[c] = 0 /\ outcomes[c] = <<>>
         /\ field[c] > 1 => completed = 0
    /\ images[c] > 0 <=> workers[c] > 0
    /\ pc[c] \in {"spawn", "join_failed"} => images[c] > 0
    /\ Returned(c) => spawned[c] = workers[c] /\ \A w \in 1 .. workers[c] :
                                                     wpc[c][w] = "exited"

BatchInv == HandsInv /\ AccountInv /\ ResetInv /\ ProgressExact
=============================================================================
