----------------------------- MODULE Inspection -----------------------------
(***************************************************************************)
(* One inspection: InspectionEngine::run_inspection with the partition     *)
(* detector (module Detector) and the guest analysers (modules             *)
(* WindowsGuest and LinuxGuest).  The engine is a fresh one, as each batch *)
(* worker makes it, or one on which a batch or inspections ran before.     *)
(* Another thread may cancel at any moment.  Every read of the disk goes   *)
(* through DiskReader::read_range, which looks at the token first.         *)
(***************************************************************************)
EXTENDS WindowsGuest, LinuxGuest, EngineOps

CONSTANTS
  Plans,         \* total_tasks an engine may carry (0 unless a batch ran on it)
  MaxCounted     \* bound: partitions counted beyond the plan by earlier inspections

ASSUME InspectionBounds == Plans \subseteq Nat /\ MaxCounted \in Nat

VARIABLES
  pc,         \* where run_inspection stands
  cancelled,  \* InspectionProgress::cancelled
  canceller,  \* the thread that calls cancel()
  stageId,    \* InspectionProgress::stage_id
  percentage, \* InspectionProgress::percentage
  completed,  \* InspectionProgress::completed_tasks
  total,      \* InspectionProgress::total_tasks
  events,     \* percentages passed to the callback
  result      \* what run_inspection returned

cancelVars   == <<token, cancelled, canceller>>
progressVars == <<stageId, percentage, completed, total, events>>
guestVars    == <<request, gpc, candidates, volume, resultVars, scanVars,
                  hiveVars, stanza>>
vars == <<pc, cancelVars, progressVars, detectorVars, guestVars, refused,
          result>>

IsCancelled == token \/ cancelled

\* Stage and percentage of a fresh engine, and those an earlier inspection leaves
\* by failing or by ending well: run_inspection does not reset them.  (A
\* cancelled engine stays cancelled: EngineCancel before Begin.)
Leftovers == {<<0, 0>>, <<1, 5>>, <<1, 15>>, <<2, 25>>, <<4, 100>>}

Init ==
  /\ pc = "metadata"
  /\ token = FALSE /\ cancelled = FALSE /\ canceller = "none"
  /\ events = <<>>
  /\ total \in Plans /\ completed \in 0 .. total + MaxCounted
  /\ \E left \in Leftovers :
       /\ stageId = left[1]
       /\ percentage \in IF total = 0 THEN {left[2]}
                        ELSE {left[2], PercentOf(completed, total)}
  /\ refused = FALSE
  /\ DetectorInit /\ GuestInit /\ WindowsInit /\ LinuxInit
  /\ result = "none"

Return(r) == pc' = "done" /\ result' = r
Goto(to)  == pc' = to /\ UNCHANGED result

\* set_stage_id and set_percentage, and the callback for each percentage.
Publish(stage, percentages) ==
  /\ stageId' = stage
  /\ percentage' = percentages[Len(percentages)]
  /\ events' = events \o percentages
  /\ UNCHANGED <<completed, total>>

\* The is_cancelled() check in front of a stage: the stage is announced only
\* when it passes.  Check and announcement are one step: a cancel between them
\* counts as one behind both.
EnterStage(from, stage, percentages, to) ==
  /\ pc = from
  /\ \/ IsCancelled /\ Return("cancelled") /\ UNCHANGED progressVars
     \/ ~IsCancelled /\ Goto(to) /\ Publish(stage, percentages)
  /\ UNCHANGED <<cancelVars, detectorVars, guestVars, refused>>

-----------------------------------------------------------------------------
(* Stage 1: the file exists, is identified, and a backend opens it. *)

Metadata ==
  /\ pc = "metadata"
  /\ \/ Goto("begin")
     \/ \E e \in {"image_not_found", "io"} : Return(e)
  /\ UNCHANGED <<cancelVars, progressVars, detectorVars, guestVars, refused>>

Begin == EnterStage("begin", 1, <<5>>, "identify")

\* identify_image; its reads do not look at the token.
Identify ==
  /\ pc = "identify"
  /\ \/ Goto("backend")
     \/ \E e \in {"image_not_found", "io"} : Return(e)
  /\ UNCHANGED <<cancelVars, progressVars, detectorVars, guestVars, refused>>

\* With force_nbd a second event repeats the percentage, with the warning.
Backend ==
  EnterStage("backend", stageId,
             IF request.forceNbd THEN <<15, 15>> ELSE <<15>>, "open")

\* DiskReader::open_with_options_diagnostic (modules VmdkOpen and NbdSession).
\* An NBD session that is interrupted turns into Cancelled.
OpenBackend ==
  /\ pc = "open"
  /\ \/ Goto("detect")
     \/ \E e \in {"image_not_found", "missing_component", "parse", "io"} \cup
                 IF request.forceNbd THEN {"qemu_not_found", "nbd", "cancelled"}
                                     ELSE {"unsupported_format"} :
          /\ e = "cancelled" => token
          /\ Return(e)
  /\ UNCHANGED <<cancelVars, progressVars, detectorVars, guestVars, refused>>

-----------------------------------------------------------------------------
(* Stage 2: detect_with_progress. *)

Detect == EnterStage("detect", 2, <<25>>, "detecting")

\* A step of the detector.
Detecting(step) ==
  /\ pc = "detecting" /\ step
  /\ UNCHANGED <<pc, cancelVars, progressVars, guestVars, result>>

DetectTable ==
  \/ Detecting(CheckToken("entry", "header"))
  \/ Detecting(ReadHeader) \/ Detecting(ReadGpt) \/ Detecting(ReadGptEntry)
  \/ Detecting(ReadMbr) \/ Detecting(EndOfMbr)
  \/ Detecting(ReadEbr) \/ Detecting(ChainTooLong)

DetectFileSystems ==
  \/ Detecting(CheckToken("between", "partition"))
  \/ Detecting(NextPartition)
  \/ Detecting(ProbeBootSector) \/ Detecting(ProbeExt)
  \/ Detecting(ProbeBtrfs) \/ Detecting(ProbeSwap)

\* Mutant of Increment: the percentage is taken from a plan that may not be there.
IncrementPlanless ==
  /\ pc = "detecting" /\ CountPartition
  /\ completed' = completed + 1
  /\ percentage' = PercentOf(completed + 1, total)
  /\ UNCHANGED <<pc, cancelVars, stageId, total, events, guestVars,
                 result>>

\* The detector counts each partition as a completed task.
Increment ==
  /\ pc = "detecting" /\ CountPartition
  /\ completed' = completed + 1
  /\ percentage' = IF total > 0 THEN PercentOf(completed + 1, total)
                                ELSE percentage
  /\ UNCHANGED <<pc, cancelVars, stageId, total, events, guestVars,
                 result>>

\* An Interrupted becomes Cancelled when the engine is cancelled, and any other
\* error Io.
Detected ==
  /\ pc = "detecting" /\ dpc = "done"
  /\ \/ failure = "none" /\ Goto("guest")
     \/ /\ failure # "none"
        /\ Return(IF failure = "interrupted" /\ IsCancelled THEN "cancelled"
                                                            ELSE "io")
  /\ UNCHANGED <<cancelVars, progressVars, detectorVars, guestVars, refused>>

-----------------------------------------------------------------------------
(* Stages 3 and 4: guest analysis and report. *)

Guest == EnterStage("guest", 3, <<45, 55>>, "analyze")

\* A step of the analyser that get_inspector chose.
Analyzing(step) ==
  /\ pc = "analyze" /\ step
  /\ UNCHANGED <<pc, cancelVars, progressVars, detectorVars, result>>

AnalyzeGuest ==
  \/ Analyzing(GetInspector /\ UNCHANGED <<hiveVars, stanza>>)
  \/ Analyzing(WindowsStep /\ UNCHANGED stanza)
  \/ Analyzing(LinuxStep /\ UNCHANGED hiveVars)

\* The analysers end with a result in any case: what they could not read is a
\* warning at most.
Analyzed ==
  /\ pc = "analyze" /\ gpc = "done"
  /\ Goto("report")
  /\ UNCHANGED <<cancelVars, progressVars, detectorVars, guestVars, refused>>

\* Mutant of Report: no look at the token behind the guest analysis.
ReportUnchecked ==
  /\ pc = "report"
  /\ Goto("finish") /\ Publish(4, <<90>>)
  /\ UNCHANGED <<cancelVars, detectorVars, guestVars, refused>>

Report == EnterStage("report", 4, <<90>>, "finish")

Finish ==
  /\ pc = "finish"
  /\ Publish(4, <<100>>)
  /\ Return("ok")
  /\ UNCHANGED <<cancelVars, detectorVars, guestVars, refused>>

-----------------------------------------------------------------------------
(* Cancellation, through the engine or through the progress handle. *)

EngineCancel ==
  /\ canceller = "none" /\ canceller' = "progress"
  /\ token' = TRUE
  /\ UNCHANGED <<pc, cancelled, progressVars, detectorVars, guestVars, refused,
                 result>>

ProgressCancel ==
  /\ canceller \in {"none", "progress"} /\ canceller' = "link"
  /\ cancelled' = TRUE
  /\ UNCHANGED <<pc, token, progressVars, detectorVars, guestVars, refused,
                 result>>

ProgressCancelLink ==
  /\ canceller = "link" /\ canceller' = "returned"
  /\ token' = TRUE
  /\ UNCHANGED <<pc, cancelled, progressVars, detectorVars, guestVars, refused,
                 result>>

-----------------------------------------------------------------------------

Step ==
  \/ Metadata \/ Begin \/ Identify \/ Backend \/ OpenBackend
  \/ Detect \/ DetectTable \/ DetectFileSystems \/ Increment \/ Detected
  \/ Guest \/ AnalyzeGuest \/ Analyzed \/ Report \/ Finish

Next == Step \/ EngineCancel \/ ProgressCancel \/ ProgressCancelLink

Spec == Init /\ [][Next]_vars

\* The inspecting thread runs.
FairSpec == Spec /\ WF_vars(Step)

-----------------------------------------------------------------------------
(* Properties. *)

\* A report never rests on reads that a cancellation refused or on lists that it
\* cut short: the parsers swallow both, and it is the check behind them that
\* keeps a report with holes from being returned as a success.
ReportIsWhole == result = "ok" => ~refused

\* InspectionProgress::snapshot: the plan's percentage when there is a plan.
SnapshotPercentage ==
  IF total > 0 THEN PercentOf(completed, total) ELSE percentage

\* What a poller or the callback sees of an inspection never goes back: the
\* stage, the percentage of a snapshot, and the events in the order they were
\* passed.  Only its first announcement may undo what an earlier inspection left
\* (stage 4 and 100% become 1 and 5%), and with the plan of an earlier batch not
\* even that step takes the percentage of a snapshot back.
ProgressMonotone ==
  [][/\ pc # "begin" => stageId' >= stageId
     /\ pc # "begin" \/ total > 0 => SnapshotPercentage' >= SnapshotPercentage
     /\ \A i, j \in DOMAIN events' : i < j => events'[i] <= events'[j]]_vars

\* An inspection that is cancelled before its last look at the token never ends
\* in a report, and every inspection ends.
NoReportOnceCancelled ==
  [](canceller = "returned" /\ pc \notin {"finish", "done"} => [](result # "ok"))
CancelTakesEffect == <>(result # "none") /\ NoReportOnceCancelled
=============================================================================
