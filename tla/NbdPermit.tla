------------------------------ MODULE NbdPermit ------------------------------
(***************************************************************************)
(* The process-wide permits of qemu-nbd sessions on their own              *)
(* (NbdSessionPermit in vms/nbd.rs): a counter under a mutex and a         *)
(* condition variable.  Each session brings the limit of its own Options,  *)
(* so sessions with different limits wait on one condition variable.       *)
(***************************************************************************)
EXTENDS Naturals, FiniteSets

CONSTANTS
  Sessions,  \* would-be holders of a permit
  Limit      \* session -> nbd_max_sessions of its Options

ASSUME PermitAssumption == IsFiniteSet(Sessions) /\ Limit \in [Sessions -> Nat]

VARIABLES
  count,  \* NBD_SESSIONS
  stage,  \* session -> where it stands with its permit
  late,   \* session -> its deadline has passed
  token   \* the cancellation token of the Options

permitVars == <<count, stage, late, token>>

Stages == {"idle", "acquire", "waiting", "held", "done"}

\* options.nbd_max_sessions.max(1)
LimitOf(s) == IF Limit[s] = 0 THEN 1 ELSE Limit[s]

Holders == {s \in Sessions : stage[s] = "held"}
Waiters == {s \in Sessions : stage[s] = "waiting"}

PermitInit ==
  /\ count = 0
  /\ stage = [s \in Sessions |-> "idle"]
  /\ late = [s \in Sessions |-> FALSE]
  /\ token = FALSE

Goto(s, to) == stage' = [stage EXCEPT ![s] = to]

\* open_with_options looks at the token before it asks for a permit.
Ask(s) ==
  /\ stage[s] = "idle"
  /\ Goto(s, IF token THEN "done" ELSE "acquire")
  /\ UNCHANGED <<count, late, token>>

\* Mutant of Take: admits one session beyond the limit.
TakeAtLimit(s) ==
  /\ stage[s] = "acquire" /\ count <= LimitOf(s)
  /\ count' = count + 1
  /\ Goto(s, "held")
  /\ UNCHANGED <<late, token>>

\* while *count >= limit, once the mutex is held
Take(s) ==
  /\ stage[s] = "acquire" /\ count < LimitOf(s)
  /\ count' = count + 1
  /\ Goto(s, "held")
  /\ UNCHANGED <<late, token>>

\* Mutant of GiveUp: an acquire that fails drops a permit it never had.
GiveUpAndDrop(s) ==
  /\ stage[s] = "acquire" /\ count >= LimitOf(s)
  /\ token \/ late[s]
  /\ count' = count - 1
  /\ Goto(s, "done")
  /\ UNCHANGED <<late, token>>

GiveUp(s) ==
  /\ stage[s] = "acquire" /\ count >= LimitOf(s)
  /\ token \/ late[s]
  /\ Goto(s, "done")
  /\ UNCHANGED <<count, late, token>>

Wait(s) ==
  /\ stage[s] = "acquire" /\ count >= LimitOf(s)
  /\ ~token /\ ~late[s]
  /\ Goto(s, "waiting")
  /\ UNCHANGED <<count, late, token>>

\* Mutant of WaitTimesOut: wait without a timeout, which only Drop ends.
WaitForever(s) ==
  /\ stage[s] = "waiting" /\ FALSE
  /\ UNCHANGED permitVars

\* wait_timeout ends after at most 50 ms, notified or not.
WaitTimesOut(s) ==
  /\ stage[s] = "waiting"
  /\ Goto(s, "acquire")
  /\ UNCHANGED <<count, late, token>>

\* Drop: saturating_sub(1), then notify_one.
DropPermit(s) ==
  /\ stage[s] = "held"
  /\ count' = IF count = 0 THEN 0 ELSE count - 1
  /\ \/ /\ Waiters = {}
        /\ Goto(s, "done")
     \/ \E t \in Waiters :
          stage' = [stage EXCEPT ![s] = "done", ![t] = "acquire"]
  /\ UNCHANGED <<late, token>>

DeadlinePasses(s) ==
  /\ ~late[s]
  /\ late' = [late EXCEPT ![s] = TRUE]
  /\ UNCHANGED <<count, stage, token>>

Cancel ==
  /\ ~token /\ token' = TRUE
  /\ UNCHANGED <<count, stage, late>>

\* One turn of the acquire loop, or the end of its wait.
AcquireStep(s) == Take(s) \/ GiveUp(s) \/ Wait(s) \/ WaitTimesOut(s)

PermitNext ==
  \/ \E s \in Sessions :
       Ask(s) \/ AcquireStep(s) \/ DropPermit(s) \/ DeadlinePasses(s)
  \/ Cancel

PermitSpec == PermitInit /\ [][PermitNext]_permitVars

\* Threads run and a wait ends within 50 ms.  Nothing forces a deadline to pass
\* or a holder to drop its permit, or fixes which waiter notify_one picks.
FairPermitSpec ==
  PermitSpec /\ \A s \in Sessions : WF_permitVars(AcquireStep(s))

-----------------------------------------------------------------------------
(* Properties. *)

PermitTypes ==
  /\ count \in Nat
  /\ stage \in [Sessions -> Stages]
  /\ late \in [Sessions -> BOOLEAN]
  /\ token \in BOOLEAN

\* The counter is the number of sessions that hold a permit: no path takes one
\* twice or returns one twice, and the saturating subtraction never saturates.
PermitAccounting == count = Cardinality(Holders)

\* The number of sessions never exceeds the largest limit among their options.
Admission == count > 0 => \E s \in Sessions : count <= LimitOf(s)

\* A waiter does not sleep on while the count stays below its limit, even if no
\* permit is dropped any more: notify_one may wake a waiter whose own limit is
\* still reached, and the bounded wait makes up for it.  It also ends the wait of
\* a session that was cancelled or whose deadline passed, which nobody notifies.
NoLostWakeup ==
  \A s \in Sessions :
    /\ (stage[s] = "waiting" /\ count < LimitOf(s))
         ~> (stage[s] # "waiting" \/ count >= LimitOf(s))
    /\ (stage[s] = "waiting" /\ (token \/ late[s])) ~> stage[s] \in {"held", "done"}
=============================================================================
