---------------------------- MODULE BatchPolling ----------------------------
(***************************************************************************)
(* A poller of the InspectionProgress that a batch reports to: it takes    *)
(* snapshots from another thread, as the readme's polling loop does.       *)
(***************************************************************************)
EXTENDS BatchEngine

VARIABLES
  loads,     \* what the snapshot under way has loaded: <<>> or <<total_tasks>>
  snapshot,  \* the last snapshot returned
  torn,      \* the snapshot under way does not lie within one batch
  high       \* percentage of the batch's last snapshot that lies within it

pollVars == <<loads, snapshot, torn, high>>
allVars  == <<vars, pollVars>>

PollInit ==
  /\ Init
  /\ loads = <<>>
  /\ snapshot = [total_tasks |-> 0, completed_tasks |-> 0, percentage |-> 0]
  /\ torn = TRUE /\ high = 0

BatchRunning == \E c \in Callers : InBatch(c)

\* A step of the engine.  torn and high only record, for the properties, whether
\* the batch that a snapshot or the last percentage belongs to is still running.
EngineStep ==
  /\ Next
  /\ torn' = (torn \/ ~BatchRunning')
  /\ high' = IF BatchRunning' THEN high ELSE 0
  /\ UNCHANGED <<loads, snapshot>>

\* InspectionProgress::snapshot loads total_tasks ...
SnapshotTotal ==
  /\ loads = <<>>
  /\ loads' = <<total>>
  /\ torn' = ~BatchRunning
  /\ UNCHANGED <<vars, snapshot, high>>

\* Mutant of SnapshotPercentage: the stored field also when there is a plan.
StoredPercentage(all, done) == percentage

\* The percentage snapshot reports: of the counters it loaded when there is a
\* plan, the stored field otherwise.
SnapshotPercentage(all, done) ==
  IF all > 0 THEN PercentOf(done, all) ELSE percentage

\* ... and then completed_tasks.
SnapshotCompleted ==
  /\ loads # <<>>
  /\ snapshot' = [total_tasks     |-> loads[1],
                  completed_tasks |-> completed,
                  percentage      |-> SnapshotPercentage(loads[1], completed)]
  /\ high' = IF torn THEN high ELSE snapshot'.percentage
  /\ loads' = <<>>
  /\ torn' = TRUE
  /\ UNCHANGED vars

PollNext == EngineStep \/ SnapshotTotal \/ SnapshotCompleted

PollSpec == PollInit /\ [][PollNext]_allVars

FairPollSpec == PollSpec /\ Fairness

-----------------------------------------------------------------------------

UnsettledBatch ==
  \E c \in Callers : InBatch(c) /\ Len(outcomes[c]) < images[c]

\* The snapshots a poller takes of one batch never go backwards, although the
\* workers' stores to the percentage field may, and one that shows 100% is only
\* taken when every image of that batch has its outcome.
PolledProgress ==
  [][SnapshotCompleted /\ ~torn =>
       /\ snapshot'.percentage >= high
       /\ snapshot'.percentage = 100 => ~UnsettledBatch]_allVars
-----------------------------------------------------------------------------
(* What PolledProgress needs to be inductive. *)

\* A batch without images leaves the stored percentage at the zero that its reset
\* put there.
EmptyInv ==
  \A c \in Callers :
    /\ pc[c] = "reset" /\ field[c] > 2 => percentage = 0
    /\ InBatch(c) /\ images[c] = 0 => percentage = 0

\* A snapshot that is not torn was begun in the batch that is running, whose plan
\* it loaded; what such a snapshot showed is not ahead of the counters.
PollInv ==
  /\ torn \in BOOLEAN /\ high \in Nat
  /\ ~torn => BatchRunning /\ loads = <<total>>
  /\ ~BatchRunning => high = 0
  /\ BatchRunning => high <= SnapshotPercentage(total, completed)
=============================================================================
