------------------------------ MODULE BatchPool ------------------------------
(***************************************************************************)
(* The batches of one caller as the abstract worker pool sees them: the    *)
(* queue is what is pending, the images between a pop and a push are       *)
(* running, and one that a thread gave up on is lost.                      *)
(***************************************************************************)
EXTENDS BatchEngine

CONSTANT caller  \* the caller whose batches are looked at

ASSUME CallerAssumption == caller \in Callers

Open   == pc[caller] \in {"reset", "spawn", "join_failed"}
Halted == token \/ Lost(caller) # {}
Result == IF status[caller] = "io_error" THEN "error" ELSE status[caller]

Pool == INSTANCE WorkPool WITH
  MaxTasks <- MaxImages,
  size     <- images[caller],
  open     <- Open,
  pending  <- Queued(caller),
  running  <- Running(caller),
  settled  <- Settled(caller),
  lost     <- Lost(caller),
  halted   <- Halted,
  result   <- Result

\* The batch of the caller implements the abstract pool: inspect_batch starts
\* paths in order, settles each at most once, and returns nothing incomplete
\* unless it was halted.
ImplementsPool == Pool!Spec
=============================================================================
