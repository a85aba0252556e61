------------------------------ MODULE WorkPool ------------------------------
(***************************************************************************)
(* What a worker pool of the engine promises its caller, whatever its      *)
(* threads do: tasks start in the order given, each one is settled at most *)
(* once, the call returns only when nothing is running, and a task can be  *)
(* left out of a successful return only if the pool was halted (by the     *)
(* cancellation token, or by a task that ended the thread it ran on).      *)
(* BatchEngine and ConcurrentProcessor implement it.                       *)
(***************************************************************************)
EXTENDS Naturals, TLAPS

CONSTANT MaxTasks

VARIABLES
  size,     \* number of tasks of the current call
  open,     \* a call is in progress
  pending,  \* tasks not started
  running,  \* tasks a worker holds
  settled,  \* tasks whose result is kept
  lost,     \* tasks a worker gave up
  halted,   \* something made the pool stop early
  result    \* what the last call returned ("none" until then)

poolVars == <<size, open, pending, running, settled, lost, halted, result>>

Init ==
  /\ size = 0 /\ open = FALSE
  /\ pending = {} /\ running = {} /\ settled = {} /\ lost = {}
  /\ halted \in BOOLEAN
  /\ result = "none"

Begin ==
  /\ ~open /\ open' = TRUE
  /\ size' \in 0 .. MaxTasks
  /\ pending' = 1 .. size'
  /\ running' = {} /\ settled' = {} /\ lost' = {}
  /\ halted' \in BOOLEAN
  /\ result' = "none"

Start ==
  \E t \in pending :
    /\ open
    /\ \A u \in pending : t <= u
    /\ pending' = pending \ {t}
    /\ running' = running \cup {t}
    /\ UNCHANGED <<size, open, settled, lost, halted, result>>

Settle ==
  \E t \in running :
    /\ running' = running \ {t}
    /\ settled' = settled \cup {t}
    /\ UNCHANGED <<size, open, pending, lost, halted, result>>

\* Giving a task up halts the pool: the thread that held it takes no other.
Lose ==
  \E t \in running :
    /\ running' = running \ {t}
    /\ lost' = lost \cup {t}
    /\ halted' = TRUE
    /\ UNCHANGED <<size, open, pending, settled, result>>

Halt ==
  /\ halted' = TRUE
  /\ UNCHANGED <<size, open, pending, running, settled, lost, result>>

ReturnOk ==
  /\ open /\ open' = FALSE
  /\ running = {}
  /\ pending = {} \/ halted
  /\ result' = "ok"
  /\ UNCHANGED <<size, pending, running, settled, lost, halted>>

ReturnError ==
  /\ open /\ open' = FALSE
  /\ running = {}
  /\ result' = "error"
  /\ UNCHANGED <<size, pending, running, settled, lost, halted>>

Next ==
  \/ Begin \/ Start \/ Settle \/ Lose \/ Halt \/ ReturnOk \/ ReturnError

Spec == Init /\ [][Next]_poolVars

-----------------------------------------------------------------------------

TypeOK ==
  /\ size \in 0 .. MaxTasks
  /\ open \in BOOLEAN /\ halted \in BOOLEAN
  /\ pending \subseteq 1 .. MaxTasks /\ running \subseteq 1 .. MaxTasks
  /\ settled \subseteq 1 .. MaxTasks /\ lost \subseteq 1 .. MaxTasks
  /\ result \in {"none", "ok", "error"}

Disjoint(S, T) == S \cap T = {}

\* Every task of the call is in exactly one place.
Conserved ==
  /\ pending \cup running \cup settled \cup lost = 1 .. size
  /\ Disjoint(pending, running) /\ Disjoint(pending, settled)
  /\ Disjoint(pending, lost) /\ Disjoint(running, settled)
  /\ Disjoint(running, lost) /\ Disjoint(settled, lost)

\* A pool that returned runs nothing, and one that was never halted returned the
\* result of every task.
Promise ==
  /\ ~open => running = {}
  /\ result = "ok" /\ ~halted => settled = 1 .. size
  /\ lost # {} => halted
-----------------------------------------------------------------------------
(* Both hold of every pool that implements this one. *)

PoolInv == TypeOK /\ Conserved /\ Promise

\* A step of the pool keeps the types.
LEMMA PoolTypeStep ==
  ASSUME MaxTasks \in Nat
  PROVE  TypeOK /\ [Next]_poolVars => TypeOK'
<1> SUFFICES ASSUME TypeOK, [Next]_poolVars PROVE TypeOK'
  OBVIOUS
<1> USE DEF TypeOK
<1>1. CASE Begin
  <2>1. size' \in 0 .. MaxTasks /\ pending' = 1 .. size'
    BY <1>1 DEF Begin
  <2>2. 1 .. size' \subseteq 1 .. MaxTasks
    BY <2>1
  <2> QED BY <1>1, <2>1, <2>2 DEF Begin
<1>2. CASE Start
  BY <1>2 DEF Start
<1>3. CASE Settle
  BY <1>3 DEF Settle
<1>4. CASE Lose
  BY <1>4 DEF Lose
<1>5. CASE Halt
  BY <1>5 DEF Halt
<1>6. CASE ReturnOk
  BY <1>6 DEF ReturnOk
<1>7. CASE ReturnError
  BY <1>7 DEF ReturnError
<1>8. CASE UNCHANGED poolVars
  BY <1>8 DEF poolVars
<1> QED BY <1>1, <1>2, <1>3, <1>4, <1>5, <1>6, <1>7, <1>8 DEF Next

\* A step of the pool moves a task, it never copies or drops one.
LEMMA ConservedStep == TypeOK /\ Conserved /\ [Next]_poolVars => Conserved'
<1> SUFFICES ASSUME TypeOK, Conserved, [Next]_poolVars PROVE Conserved'
  OBVIOUS
<1> USE DEF Conserved, Disjoint
<1>1. CASE Begin
  BY <1>1 DEF Begin
<1>2. CASE Start
  BY <1>2 DEF Start
<1>3. CASE Settle
  BY <1>3 DEF Settle
<1>4. CASE Lose
  BY <1>4 DEF Lose
<1>5. CASE Halt \/ ReturnOk \/ ReturnError \/ UNCHANGED poolVars
  BY <1>5 DEF Halt, ReturnOk, ReturnError, poolVars
<1> QED BY <1>1, <1>2, <1>3, <1>4, <1>5 DEF Next

\* A step of the pool keeps the promise.
LEMMA PromiseStep == TypeOK /\ Conserved /\ Promise /\ [Next]_poolVars => Promise'
<1> SUFFICES ASSUME TypeOK, Conserved, Promise, [Next]_poolVars PROVE Promise'
  OBVIOUS
<1> USE DEF Promise
<1>1. CASE Begin
  BY <1>1 DEF Begin
<1>2. CASE Start
  BY <1>2 DEF Start
<1>3. CASE Settle
  <2>1. PICK t \in running :
          /\ running' = running \ {t} /\ settled' = settled \cup {t}
          /\ UNCHANGED <<size, open, pending, lost, halted, result>>
    BY <1>3 DEF Settle
  <2>2. t \in 1 .. size /\ t \notin settled
    BY DEF Conserved, Disjoint
  <2>3. ~(result = "ok" /\ ~halted)
    BY <2>2
  <2> QED BY <2>1, <2>3
<1>4. CASE Lose
  BY <1>4 DEF Lose
<1>5. CASE Halt
  BY <1>5 DEF Halt
<1>6. CASE ReturnOk
  <2>1. running = {} /\ (pending = {} \/ halted) /\ (~halted => lost = {})
    BY <1>6 DEF ReturnOk
  <2>2. ~halted => settled = 1 .. size
    BY <2>1 DEF Conserved
  <2> QED BY <1>6, <2>1, <2>2 DEF ReturnOk
<1>7. CASE ReturnError
  BY <1>7 DEF ReturnError
<1>8. CASE UNCHANGED poolVars
  BY <1>8 DEF poolVars
<1> QED BY <1>1, <1>2, <1>3, <1>4, <1>5, <1>6, <1>7, <1>8 DEF Next

\* A worker pool of the engine conserves its tasks and keeps its promise: each
\* task is in one place, a closed pool runs nothing, and a pool that was never
\* halted returns with every task settled.
THEOREM PoolKeepsPromise ==
  ASSUME MaxTasks \in Nat
  PROVE  Spec => []PoolInv
<1>1. Init => PoolInv
  <2> SUFFICES ASSUME Init PROVE PoolInv
    OBVIOUS
  <2>1. open = FALSE /\ halted \in BOOLEAN
    BY Zenon DEF Init
  <2>2. /\ size = 0 /\ pending = {} /\ running = {} /\ settled = {} /\ lost = {}
        /\ result = "none"
    BY DEF Init
  <2>3. TypeOK
    <3>1. open \in BOOLEAN
      BY <2>1, Zenon
    <3>2. size \in 0 .. MaxTasks
      BY <2>2
    <3> QED BY <2>1, <2>2, <3>1, <3>2 DEF TypeOK
  <2>4. Conserved
    BY <2>2 DEF Conserved, Disjoint
  <2>5. Promise
    BY <2>1, <2>2 DEF Promise
  <2> QED BY <2>3, <2>4, <2>5 DEF PoolInv
<1>2. PoolInv /\ [Next]_poolVars => PoolInv'
  BY PoolTypeStep, ConservedStep, PromiseStep DEF PoolInv
<1> QED BY <1>1, <1>2, PTL DEF Spec
=============================================================================
