-------------------------- MODULE NbdSessionProofs --------------------------
(***************************************************************************)
(* Proofs about the life of qemu-nbd sessions, for every finite set of     *)
(* sessions, every limit and every choice of socket paths: the inductive   *)
(* invariant SessionInv, the properties it yields and the refinement of    *)
(* the permits of NbdPermit.                                               *)
(***************************************************************************)
EXTENDS NbdSession, FiniteSetTheorems, TLAPS

\* The steps of one session, written out.
LEMMA NextCases ==
  ASSUME NEW ACTION P, Next,
         \A s \in Sessions : Open(s) => P,
         \A s \in Sessions : Acquire(s) => P,
         \A s \in Sessions : WaitTimesOut(s) => P,
         \A s \in Sessions : DropPermit(s) => P,
         \A s \in Sessions : PrepareUnix(s) => P,
         \A s \in Sessions : PrepareTcp(s) => P,
         \A s \in Sessions : SpawnChild(s) => P,
         \A s \in Sessions : LoopDeadline(s) \/ LoopDial(s) \/ Retry(s) => P,
         \A s \in Sessions : LoopCancelled(s) \/ LoopStatusUnknown(s) => P,
         \A s \in Sessions : LoopChildExited(s) => P,
         \A s \in Sessions : Connect(s) => P,
         \A s \in Sessions : HandshakeFails(s) \/ TimedOut(s) => P,
         \A s \in Sessions : Disconnect(s) => P,
         \A s \in Sessions : Reap(s) => P,
         \A s \in Sessions : Unlink(s) => P,
         \A s \in Sessions : ChildBinds(s) => P,
         \A s \in Sessions : ChildExits(s) => P,
         \A s \in Sessions : DeadlinePasses(s) => P,
         Cancel => P
  PROVE  P
BY DEF Next, PermitStep, OpenStep, DropStep, ChildStep

\* The types are kept; a session dials, binds or unlinks only an address it has.
LEMMA TypeInvStep ==
  ASSUME TypeOK, ChildInv, Next
  PROVE  TypeOK'
<1> USE SessionAssumption DEF TypeOK, Goto, Returns, SessionPC, Outcomes, ChildState
<1>1. ASSUME NEW s \in Sessions, Open(s) PROVE TypeOK'
  BY <1>1 DEF Open
<1>2. ASSUME NEW s \in Sessions, Acquire(s) PROVE TypeOK'
  BY <1>2 DEF Acquire
<1>3. ASSUME NEW s \in Sessions, WaitTimesOut(s) PROVE TypeOK'
  BY <1>3 DEF WaitTimesOut
<1>4. ASSUME NEW s \in Sessions, DropPermit(s) PROVE TypeOK'
  BY <1>4 DEF DropPermit
<1>5. ASSUME NEW s \in Sessions, PrepareUnix(s) PROVE TypeOK'
  BY <1>5 DEF PrepareUnix, Addresses
<1>6. ASSUME NEW s \in Sessions, PrepareTcp(s) PROVE TypeOK'
  BY <1>6 DEF PrepareTcp, Addresses
<1>7. ASSUME NEW s \in Sessions, SpawnChild(s) PROVE TypeOK'
  BY <1>7 DEF SpawnChild
<1>8. ASSUME NEW s \in Sessions, LoopDeadline(s) \/ LoopDial(s) \/ Retry(s)
      PROVE  TypeOK'
  BY <1>8 DEF LoopDeadline, LoopDial, Retry
<1>9. ASSUME NEW s \in Sessions, LoopCancelled(s) \/ LoopStatusUnknown(s)
      PROVE  TypeOK'
  BY <1>9 DEF LoopCancelled, LoopStatusUnknown, Terminate
<1>10. ASSUME NEW s \in Sessions, LoopChildExited(s) PROVE TypeOK'
  BY <1>10 DEF LoopChildExited
<1>11. ASSUME NEW s \in Sessions, Connect(s) PROVE TypeOK'
  <2>1. addr[s] \in Addresses
    BY <1>11 DEF Connect, ChildInv, Holding
  <2> QED BY <1>11, <2>1 DEF Connect
<1>12. ASSUME NEW s \in Sessions, HandshakeFails(s) \/ TimedOut(s) PROVE TypeOK'
  BY <1>12 DEF HandshakeFails, TimedOut, Terminate
<1>13. ASSUME NEW s \in Sessions, Disconnect(s) PROVE TypeOK'
  BY <1>13 DEF Disconnect
<1>14. ASSUME NEW s \in Sessions, Reap(s) PROVE TypeOK'
  BY <1>14 DEF Reap, Terminate
<1>15. ASSUME NEW s \in Sessions, Unlink(s) PROVE TypeOK'
  BY <1>15 DEF Unlink, Addresses
<1>16. ASSUME NEW s \in Sessions, ChildBinds(s) PROVE TypeOK'
  BY <1>16 DEF ChildBinds, ChildInv
<1>17. ASSUME NEW s \in Sessions, ChildExits(s) PROVE TypeOK'
  BY <1>17 DEF ChildExits
<1>18. ASSUME NEW s \in Sessions, DeadlinePasses(s) PROVE TypeOK'
  BY <1>18 DEF DeadlinePasses
<1>19. CASE Cancel
  BY <1>19 DEF Cancel
<1> QED
  BY <1>1, <1>2, <1>3, <1>4, <1>5, <1>6, <1>7, <1>8, <1>9, <1>10, <1>11, <1>12,
     <1>13, <1>14, <1>15, <1>16, <1>17, <1>18, <1>19, NextCases

\* Children are started, served from and killed where ChildInv says.
LEMMA ChildInvStep ==
  ASSUME TypeOK, ChildInv, Next
  PROVE  ChildInv'
<1> USE SessionAssumption DEF TypeOK, Goto, Returns, ChildInv, Alive, Holding
<1>1. ASSUME NEW s \in Sessions, Open(s) PROVE ChildInv'
  BY <1>1 DEF Open
<1>2. ASSUME NEW s \in Sessions, Acquire(s) PROVE ChildInv'
  BY <1>2 DEF Acquire
<1>3. ASSUME NEW s \in Sessions, WaitTimesOut(s) PROVE ChildInv'
  BY <1>3 DEF WaitTimesOut
<1>4. ASSUME NEW s \in Sessions, DropPermit(s) PROVE ChildInv'
  BY <1>4 DEF DropPermit
<1>5. ASSUME NEW s \in Sessions, PrepareUnix(s) PROVE ChildInv'
  BY <1>5 DEF PrepareUnix, Addresses
<1>6. ASSUME NEW s \in Sessions, PrepareTcp(s) PROVE ChildInv'
  BY <1>6 DEF PrepareTcp, Addresses
<1>7. ASSUME NEW s \in Sessions, SpawnChild(s) PROVE ChildInv'
  BY <1>7 DEF SpawnChild
<1>8. ASSUME NEW s \in Sessions, LoopDeadline(s) \/ LoopDial(s) \/ Retry(s)
      PROVE  ChildInv'
  BY <1>8 DEF LoopDeadline, LoopDial, Retry
<1>9. ASSUME NEW s \in Sessions, LoopCancelled(s) \/ LoopStatusUnknown(s)
      PROVE  ChildInv'
  BY <1>9 DEF LoopCancelled, LoopStatusUnknown, Terminate
<1>10. ASSUME NEW s \in Sessions, LoopChildExited(s) PROVE ChildInv'
  BY <1>10 DEF LoopChildExited
<1>11. ASSUME NEW s \in Sessions, Connect(s) PROVE ChildInv'
  BY <1>11 DEF Connect
<1>12. ASSUME NEW s \in Sessions, HandshakeFails(s) \/ TimedOut(s)
      PROVE  ChildInv'
  BY <1>12 DEF HandshakeFails, TimedOut, Terminate
<1>13. ASSUME NEW s \in Sessions, Disconnect(s) PROVE ChildInv'
  BY <1>13 DEF Disconnect
<1>14. ASSUME NEW s \in Sessions, Reap(s) PROVE ChildInv'
  BY <1>14 DEF Reap, Terminate
<1>15. ASSUME NEW s \in Sessions, Unlink(s) PROVE ChildInv'
  BY <1>15 DEF Unlink
<1>16. ASSUME NEW s \in Sessions, ChildBinds(s) PROVE ChildInv'
  BY <1>16 DEF ChildBinds, Addresses
<1>17. ASSUME NEW s \in Sessions, ChildExits(s) PROVE ChildInv'
  BY <1>17 DEF ChildExits
<1>18. ASSUME NEW s \in Sessions, DeadlinePasses(s) PROVE ChildInv'
  BY <1>18 DEF DeadlinePasses
<1>19. CASE Cancel
  BY <1>19 DEF Cancel
<1> QED
  BY <1>1, <1>2, <1>3, <1>4, <1>5, <1>6, <1>7, <1>8, <1>9, <1>10, <1>11, <1>12,
     <1>13, <1>14, <1>15, <1>16, <1>17, <1>18, <1>19, NextCases

\* Only the child that was given an address binds it.
LEMMA SocketInvStep ==
  ASSUME TypeOK, ChildInv, SocketInv, Next
  PROVE  SocketInv'
<1> USE SessionAssumption DEF TypeOK, Goto, Returns, ChildInv, SocketInv
<1>1. ASSUME NEW s \in Sessions, Open(s) PROVE SocketInv'
  BY <1>1 DEF Open
<1>2. ASSUME NEW s \in Sessions, Acquire(s) PROVE SocketInv'
  BY <1>2 DEF Acquire
<1>3. ASSUME NEW s \in Sessions, WaitTimesOut(s) PROVE SocketInv'
  BY <1>3 DEF WaitTimesOut
<1>4. ASSUME NEW s \in Sessions, DropPermit(s) PROVE SocketInv'
  BY <1>4 DEF DropPermit
<1>5. ASSUME NEW s \in Sessions, PrepareUnix(s) PROVE SocketInv'
  BY <1>5 DEF PrepareUnix, Addresses
<1>6. ASSUME NEW s \in Sessions, PrepareTcp(s) PROVE SocketInv'
  BY <1>6 DEF PrepareTcp, Addresses
<1>7. ASSUME NEW s \in Sessions, SpawnChild(s) PROVE SocketInv'
  BY <1>7 DEF SpawnChild
<1>8. ASSUME NEW s \in Sessions, LoopDeadline(s) \/ LoopDial(s) \/ Retry(s)
      PROVE  SocketInv'
  BY <1>8 DEF LoopDeadline, LoopDial, Retry
<1>9. ASSUME NEW s \in Sessions, LoopCancelled(s) \/ LoopStatusUnknown(s)
      PROVE  SocketInv'
  BY <1>9 DEF LoopCancelled, LoopStatusUnknown, Terminate
<1>10. ASSUME NEW s \in Sessions, LoopChildExited(s) PROVE SocketInv'
  BY <1>10 DEF LoopChildExited
<1>11. ASSUME NEW s \in Sessions, Connect(s) PROVE SocketInv'
  BY <1>11 DEF Connect
<1>12. ASSUME NEW s \in Sessions, HandshakeFails(s) \/ TimedOut(s)
      PROVE  SocketInv'
  BY <1>12 DEF HandshakeFails, TimedOut, Terminate
<1>13. ASSUME NEW s \in Sessions, Disconnect(s) PROVE SocketInv'
  BY <1>13 DEF Disconnect
<1>14. ASSUME NEW s \in Sessions, Reap(s) PROVE SocketInv'
  BY <1>14 DEF Reap, Terminate
<1>15. ASSUME NEW s \in Sessions, Unlink(s) PROVE SocketInv'
  BY <1>15 DEF Unlink, Addresses
<1>16. ASSUME NEW s \in Sessions, ChildBinds(s) PROVE SocketInv'
  BY <1>16 DEF ChildBinds, Addresses
<1>17. ASSUME NEW s \in Sessions, ChildExits(s) PROVE SocketInv'
  BY <1>17 DEF ChildExits
<1>18. ASSUME NEW s \in Sessions, DeadlinePasses(s) PROVE SocketInv'
  BY <1>18 DEF DeadlinePasses
<1>19. CASE Cancel
  BY <1>19 DEF Cancel
<1> QED
  BY <1>1, <1>2, <1>3, <1>4, <1>5, <1>6, <1>7, <1>8, <1>9, <1>10, <1>11, <1>12,
     <1>13, <1>14, <1>15, <1>16, <1>17, <1>18, <1>19, NextCases

-----------------------------------------------------------------------------
(* The permits. *)

\* The holders are a finite set, so their number is a natural number.
LEMMA HoldersFinite ==
  IsFiniteSet(Holders) /\ Cardinality(Holders) \in Nat
<1>1. Holders \subseteq Sessions
  BY DEF Holders
<1> QED
  BY <1>1, SessionAssumption, FS_Subset, FS_CardinalityType

\* A limit is at least one.
LEMMA LimitPositive == \A s \in Sessions : LimitOf(s) \in Nat /\ LimitOf(s) >= 1
BY SessionAssumption DEF LimitOf

\* What a step does to the holders and to their number: a session joins below
\* its limit, a session leaves, or both stay as they are.
Joins(s) ==
  /\ s \notin Holders /\ Holders' = Holders \cup {s}
  /\ count < LimitOf(s) /\ count' = count + 1
Leaves(s) ==
  /\ s \in Holders /\ Holders' = Holders \ {s}
  /\ count' = IF count = 0 THEN 0 ELSE count - 1
Stays == Holders' = Holders /\ count' = count

\* Acquire is the only way in and DropPermit the only way out: no error path of
\* the open and no step of the teardown takes or returns a permit.
LEMMA HoldersStep ==
  ASSUME TypeOK, [Next]_vars
  PROVE  Stays \/ \E s \in Sessions : Joins(s) \/ Leaves(s)
<1> USE DEF TypeOK, Goto, Holders, Holding, Stays
<1>1. ASSUME NEW s \in Sessions, Acquire(s) PROVE Stays \/ Joins(s)
  BY <1>1 DEF Acquire, Joins
<1>2. ASSUME NEW s \in Sessions, DropPermit(s) PROVE Leaves(s)
  BY <1>2 DEF DropPermit, Leaves
<1>3. ASSUME NEW s \in Sessions, Open(s) \/ WaitTimesOut(s) PROVE Stays
  BY <1>3 DEF Open, WaitTimesOut
<1>4. ASSUME NEW s \in Sessions, OpenStep(s) PROVE Stays
  <2>1. CASE PrepareUnix(s) \/ PrepareTcp(s) \/ SpawnChild(s)
    BY <2>1 DEF PrepareUnix, PrepareTcp, SpawnChild
  <2>2. CASE LoopDeadline(s) \/ LoopCancelled(s) \/ LoopChildExited(s)
               \/ LoopStatusUnknown(s) \/ LoopDial(s)
    BY <2>2 DEF LoopDeadline, LoopCancelled, LoopChildExited, LoopStatusUnknown,
                LoopDial
  <2>3. CASE Connect(s) \/ Retry(s) \/ HandshakeFails(s) \/ TimedOut(s)
    BY <2>3 DEF Connect, Retry, HandshakeFails, TimedOut
  <2> QED BY <1>4, <2>1, <2>2, <2>3 DEF OpenStep
<1>5. ASSUME NEW s \in Sessions, DropStep(s) PROVE Stays
  BY <1>5 DEF DropStep, Disconnect, Reap, Unlink
<1>6. ASSUME NEW s \in Sessions, ChildStep(s) \/ DeadlinePasses(s) PROVE Stays
  BY <1>6 DEF ChildStep, ChildBinds, ChildExits, DeadlinePasses
<1>7. CASE Cancel
  BY <1>7 DEF Cancel
<1>8. CASE UNCHANGED vars
  BY <1>8 DEF vars
<1> QED
  BY <1>1, <1>2, <1>3, <1>4, <1>5, <1>6, <1>7, <1>8 DEF Next, PermitStep

\* The counter follows the set of holders, and the saturating subtraction of
\* Drop never saturates.
LEMMA PermitCountStep ==
  ASSUME TypeOK, PermitCount, [Next]_vars
  PROVE  PermitCount'
<1>1. CASE Stays
  BY <1>1 DEF Stays, PermitCount
<1>2. ASSUME NEW s \in Sessions, Joins(s) PROVE PermitCount'
  <2>1. Cardinality(Holders \cup {s}) = Cardinality(Holders) + 1
    BY <1>2, HoldersFinite, FS_AddElement DEF Joins
  <2> QED BY <1>2, <2>1 DEF Joins, PermitCount
<1>3. ASSUME NEW s \in Sessions, Leaves(s) PROVE PermitCount'
  <2>1. Cardinality(Holders \ {s}) = Cardinality(Holders) - 1
    BY <1>3, HoldersFinite, FS_RemoveElement DEF Leaves
  <2>2. Cardinality(Holders) # 0
    BY <1>3, HoldersFinite, FS_EmptySet DEF Leaves
  <2> QED BY <1>3, <2>1, <2>2, HoldersFinite DEF Leaves, PermitCount
<1> QED
  BY <1>1, <1>2, <1>3, HoldersStep

-----------------------------------------------------------------------------
(* The theorems. *)

\* SessionInv holds in every state: the permit counter is the number of sessions
\* between the end of acquire and the end of their teardown, a child that dies
\* when killed runs only behind its session's spawn and before its permit is
\* dropped, and whoever bound an address was given it.
THEOREM SessionInvariant == Spec => []SessionInv
<1>1. Init => SessionInv
  <2> SUFFICES ASSUME Init PROVE SessionInv
    OBVIOUS
  <2> USE SessionAssumption DEF Init
  <2>1. TypeOK
    <3>1. late \in [Sessions -> BOOLEAN] /\ token \in BOOLEAN
      BY Zenon
    <3> QED BY <3>1 DEF TypeOK, SessionPC, ChildState, Outcomes
  <2>2. PermitCount
    <3>1. Holders = {}
      BY DEF Holders, Holding
    <3> QED BY <3>1, FS_EmptySet DEF PermitCount
  <2>3. ChildInv
    BY DEF ChildInv, Alive, Holding
  <2>4. SocketInv
    BY DEF SocketInv
  <2> QED BY <2>1, <2>2, <2>3, <2>4 DEF SessionInv
<1>2. SessionInv /\ [Next]_vars => SessionInv'
  <2> SUFFICES ASSUME SessionInv, [Next]_vars PROVE SessionInv'
    OBVIOUS
  <2>1. CASE Next
    BY <2>1, TypeInvStep, PermitCountStep, ChildInvStep, SocketInvStep DEF SessionInv
  <2>2. CASE UNCHANGED vars
    BY <2>2 DEF vars, SessionInv, TypeOK, PermitCount, Holders, ChildInv, Alive, SocketInv
  <2> QED BY <2>1, <2>2
<1> QED
  BY <1>1, <1>2, PTL DEF Spec

\* However many sessions are opened and however they end, the permits given out
\* stay within the largest limit in use, and a qemu-nbd process that dies when
\* killed is covered by a permit.
THEOREM ChildrenAreBounded == Spec => []ChildrenBounded
<1> DEFINE Admission == count > 0 => \E s \in Sessions : count <= LimitOf(s)
<1>1. Init => Admission
  BY DEF Init
<1>2. SessionInv /\ Admission /\ [Next]_vars => Admission'
  <2> SUFFICES ASSUME SessionInv, Admission, [Next]_vars PROVE Admission'
    OBVIOUS
  <2>1. CASE Stays
    BY <2>1 DEF Stays, LimitOf
  <2>2. ASSUME NEW s \in Sessions, Joins(s) PROVE Admission'
    <3>1. count' <= LimitOf(s)
      BY <2>2, LimitPositive DEF Joins, SessionInv, TypeOK
    <3> QED BY <3>1 DEF LimitOf
  <2>3. ASSUME NEW s \in Sessions, Leaves(s) PROVE Admission'
    <3>1. count' \in Nat /\ count' <= count
      BY <2>3 DEF Leaves, SessionInv, TypeOK
    <3> QED BY <3>1, LimitPositive DEF SessionInv, TypeOK, LimitOf
  <2> QED BY <2>1, <2>2, <2>3, HoldersStep DEF SessionInv
<1>3. SessionInv /\ Admission => ChildrenBounded
  BY DEF SessionInv, ChildInv, ChildrenBounded, TypeOK, Holders, Holding
<1> HIDE DEF Admission
<1> QED
  BY <1>1, <1>2, <1>3, SessionInvariant, PTL DEF Spec

\* An open that reports an interruption was cancelled, whatever the deadline did
\* meanwhile, unless signals interrupt the session's reads.
THEOREM InterruptionsAreCancellations == Spec => []InterruptedMeansCancelled
<1>1. Init => InterruptedMeansCancelled
  BY DEF Init, InterruptedMeansCancelled
<1>2. SessionInv /\ InterruptedMeansCancelled /\ [Next]_vars
        => InterruptedMeansCancelled'
  <2> SUFFICES ASSUME SessionInv, InterruptedMeansCancelled, [Next]_vars
               PROVE  InterruptedMeansCancelled'
    OBVIOUS
  <2> USE DEF SessionInv, TypeOK, InterruptedMeansCancelled, Goto, Returns
  <2>1. ASSUME NEW s \in Sessions, Open(s) \/ Acquire(s)
        PROVE  InterruptedMeansCancelled'
    BY <2>1 DEF Open, Acquire
  <2>2. ASSUME NEW s \in Sessions,
               PrepareTcp(s) \/ SpawnChild(s) \/ LoopCancelled(s)
                 \/ LoopChildExited(s) \/ LoopStatusUnknown(s) \/ Connect(s)
        PROVE  InterruptedMeansCancelled'
    BY <2>2 DEF PrepareTcp, SpawnChild, LoopCancelled, LoopChildExited,
                LoopStatusUnknown, Connect
  <2>3. ASSUME NEW s \in Sessions, HandshakeFails(s) \/ TimedOut(s)
        PROVE  InterruptedMeansCancelled'
    BY <2>3 DEF HandshakeFails, TimedOut
  <2>4. ASSUME outcome' = outcome, token => token'
        PROVE  InterruptedMeansCancelled'
    BY <2>4
  <2> QED
    BY <2>1, <2>2, <2>3, <2>4
       DEF Next, PermitStep, OpenStep, DropStep, ChildStep, WaitTimesOut, DropPermit,
           PrepareUnix, LoopDeadline, LoopDial, Retry, Disconnect, Reap, Unlink,
           ChildBinds, ChildExits, DeadlinePasses, Cancel, vars
<1> QED
  BY <1>1, <1>2, SessionInvariant, PTL DEF Spec
-----------------------------------------------------------------------------
(* Whose child serves an open reader. *)

\* Sessions that share a socket path hold permits one after the other.
LEMMA OneAtATimeStep ==
  ASSUME AddressesApart, SessionInv, OneAtATime, [Next]_vars
  PROVE  OneAtATime'
<1> USE DEF OneAtATime
<1>1. CASE Stays
  BY <1>1 DEF Stays
<1>2. ASSUME NEW s \in Sessions, Joins(s) PROVE OneAtATime'
  <2>1. ASSUME NEW t \in Holders, SocketPath[s] # None, SocketPath[t] = SocketPath[s]
        PROVE  FALSE
    <3>1. t \in Sessions /\ t # s
      BY <1>2 DEF Joins, Holders
    <3>2. LimitOf(s) = 1
      BY <2>1, <3>1 DEF AddressesApart
    <3>3. Cardinality(Holders) = 0
      BY <1>2, <3>2, HoldersFinite DEF Joins, SessionInv, PermitCount
    <3> QED BY <3>3, HoldersFinite, FS_EmptySet
  <2> QED BY <1>2, <2>1 DEF Joins
<1>3. ASSUME NEW s \in Sessions, Leaves(s) PROVE OneAtATime'
  BY <1>3 DEF Leaves
<1> QED
  BY <1>1, <1>2, <1>3, HoldersStep DEF SessionInv

\* A port is taken up by PrepareTcp only, which records whom it shares it with;
\* nobody takes up the use of a port again.
LEMMA PortsApartStep ==
  ASSUME SessionInv, PortsApart, [Next]_vars
  PROVE  PortsApart'
<1> USE DEF SessionInv, TypeOK, PortsApart
<1>1. ASSUME \A u \in Sessions : Uses(u)' => Uses(u), addr' = addr,
             doubled \subseteq doubled'
      PROVE  PortsApart'
  BY <1>1
<1>2. ASSUME NEW s \in Sessions, PrepareTcp(s) PROVE PortsApart'
  <2> USE <1>2 DEF PrepareTcp, Goto
  <2>1. CASE addr' = addr /\ doubled' = doubled /\ Goto(s, "permit")
    BY <1>1, <2>1 DEF Uses, Alive
  <2>2. ASSUME NEW p \in Ports, addr' = [addr EXCEPT ![s] = p], Goto(s, "spawn"),
               NEW others, others = {t \in Sessions \ {s} : addr[t] = p /\ Uses(t)},
               doubled' = IF others = {} THEN doubled ELSE doubled \cup {s} \cup others
        PROVE  PortsApart'
    <3>1. \A u \in Sessions \ {s} : addr'[u] = addr[u] /\ (Uses(u)' => Uses(u))
      BY <2>2 DEF Uses, Alive
    <3>2. addr'[s] = p /\ doubled \subseteq doubled'
      BY <2>2
    <3> SUFFICES ASSUME NEW u \in Sessions, NEW v \in Sessions, u # v,
                        addr'[u] \in Ports, addr'[u] = addr'[v], Uses(u)', Uses(v)'
                 PROVE  u \in doubled'
      OBVIOUS
    <3>3. CASE u # s /\ v # s
      BY <3>1, <3>2, <3>3
    <3>4. CASE u = s
      <4>1. v \in others
        BY <2>2, <3>1, <3>2, <3>4
      <4> QED BY <2>2, <3>4, <4>1
    <3>5. CASE v = s
      <4>1. u \in others
        BY <2>2, <3>1, <3>2, <3>5
      <4> QED BY <2>2, <4>1
    <3> QED BY <3>3, <3>4, <3>5
  <2> QED BY <1>2, <2>1, <2>2 DEF PrepareTcp
<1>3. ASSUME NEW s \in Sessions, PrepareUnix(s) PROVE PortsApart'
  <2>1. \A u \in Sessions \ {s} : addr'[u] = addr[u] /\ (Uses(u)' => Uses(u))
    BY <1>3 DEF PrepareUnix, Uses, Alive, Goto
  <2>2. addr'[s] \notin Ports /\ doubled' = doubled
    BY <1>3, SessionAssumption DEF PrepareUnix
  <2> QED BY <2>1, <2>2
<1>4. ASSUME NEW s \in Sessions, Open(s) \/ PermitStep(s) PROVE PortsApart'
  BY <1>1, <1>4 DEF Open, PermitStep, Acquire, WaitTimesOut, DropPermit, Uses, Alive, Goto
<1>5. ASSUME NEW s \in Sessions,
             SpawnChild(s) \/ LoopDeadline(s) \/ LoopCancelled(s) \/ LoopChildExited(s)
               \/ LoopStatusUnknown(s) \/ LoopDial(s)
      PROVE  PortsApart'
  BY <1>1, <1>5 DEF SpawnChild, LoopDeadline, LoopCancelled, LoopChildExited,
                    LoopStatusUnknown, LoopDial, Terminate, Uses, Alive, Goto
<1>6. ASSUME NEW s \in Sessions,
             Connect(s) \/ Retry(s) \/ HandshakeFails(s) \/ TimedOut(s)
      PROVE  PortsApart'
  BY <1>1, <1>6 DEF Connect, Retry, HandshakeFails, TimedOut, Terminate, Uses, Alive, Goto
<1>7. ASSUME NEW s \in Sessions, DropStep(s) \/ ChildStep(s) \/ DeadlinePasses(s)
      PROVE  PortsApart'
  BY <1>1, <1>7 DEF DropStep, Disconnect, Reap, Unlink, ChildStep, ChildBinds, ChildExits,
                    DeadlinePasses, Terminate, Uses, Alive, Goto
<1>8. CASE Cancel \/ UNCHANGED vars
  BY <1>1, <1>8 DEF Cancel, vars, Uses, Alive
<1> QED
  BY <1>2, <1>3, <1>4, <1>5, <1>6, <1>7, <1>8 DEF Next, OpenStep

\* Whoever listens at the address of a dialing session is that session's child,
\* unless its port was handed out twice.
LEMMA ListenerIsOwn ==
  ASSUME AddressesApart, SessionInv, OneAtATime, PortsApart,
         NEW s \in Sessions, pc[s] = "dialing", Bound(addr[s]), s \notin doubled
  PROVE  socket[addr[s]] = s
<1> DEFINE t == socket[addr[s]]
<1>1. addr[s] \in Addresses /\ t \in Sessions /\ child[t] = "listening"
  BY DEF SessionInv, TypeOK, ChildInv, Holding, Bound
<1>2. addr[t] = addr[s]
  BY <1>1 DEF SessionInv, SocketInv, Bound
<1>3. CASE addr[s] \in Ports
  <2>1. Uses(s) /\ Uses(t)
    BY <1>1 DEF Uses, Alive
  <2> QED BY <1>1, <1>2, <1>3, <2>1 DEF PortsApart
<1>4. CASE addr[s] \notin Ports
  <2>1. SocketPath[t] = SocketPath[s] /\ SocketPath[s] # None
    BY <1>1, <1>2, <1>4, SessionAssumption DEF SessionInv, TypeOK, ChildInv, Addresses
  <2>2. ASSUME t # s PROVE t \in Holders /\ s \in Holders
    BY <1>1, <2>1, <2>2 DEF AddressesApart, SessionInv, ChildInv, Alive, Holders, Holding
  <2> QED BY <1>1, <2>1, <2>2 DEF OneAtATime
<1> QED
  BY <1>3, <1>4

\* An open reader reads from the qemu-nbd it started, with the default Options
\* (TCP, two sessions and more at a time) unless the host handed its port out
\* twice, and on socket paths when sessions that share one run one at a time and
\* their children die when killed.  The hypothesis on paths is needed: with a
\* limit of two and one path the run NbdSharedSocket connects a reader to another
\* session's child.
THEOREM OpenReadersOwnTheirServer ==
  ASSUME AddressesApart
  PROVE  Spec => []ServedByOwnChild
<1> DEFINE OwnInv == OneAtATime /\ PortsApart /\ ServedByOwnChild
<1>1. Init => OwnInv
  BY SessionAssumption
     DEF Init, OneAtATime, Holders, Holding, PortsApart, ServedByOwnChild
<1>2. SessionInv /\ OwnInv /\ [Next]_vars => OwnInv'
  <2> SUFFICES ASSUME SessionInv, OwnInv, [Next]_vars PROVE OwnInv'
    OBVIOUS
  <2>1. OneAtATime'
    BY OneAtATimeStep, AddressesApart
  <2>2. PortsApart'
    BY PortsApartStep
  <2>3. ServedByOwnChild'
    <3> USE DEF SessionInv, TypeOK, ServedByOwnChild, Goto
    <3>1. ASSUME NEW s \in Sessions, Connect(s) PROVE ServedByOwnChild'
      <4>1. s \notin doubled => socket[addr[s]] = s
        BY <3>1, AddressesApart, ListenerIsOwn DEF Connect, Listening
      <4> QED BY <3>1, <4>1 DEF Connect
    <3>2. ASSUME NEW s \in Sessions,
                 Open(s) \/ PermitStep(s) \/ DropStep(s) \/ ChildStep(s)
                   \/ DeadlinePasses(s) \/ Cancel \/ UNCHANGED vars
          PROVE  ServedByOwnChild'
      BY <3>2 DEF Open, PermitStep, Acquire, WaitTimesOut, DropPermit, DropStep,
                  Disconnect, Reap, Unlink, ChildStep, ChildBinds, ChildExits,
                  DeadlinePasses, Cancel, vars
    <3>3. ASSUME NEW s \in Sessions, OpenStep(s) PROVE ServedByOwnChild'
      BY <3>1, <3>3 DEF OpenStep, PrepareUnix, PrepareTcp, SpawnChild, LoopDeadline,
                  LoopCancelled, LoopChildExited, LoopStatusUnknown, LoopDial, Retry,
                  HandshakeFails, TimedOut
    <3>4. CASE Cancel \/ UNCHANGED vars
      BY <3>4 DEF Cancel, vars
    <3> QED BY <3>2, <3>3, <3>4 DEF Next
  <2> QED BY <2>1, <2>2, <2>3
<1> QED
  BY <1>1, <1>2, SessionInvariant, PTL DEF Spec

-----------------------------------------------------------------------------
(* The refinement of NbdPermit. *)

\* The stages of NbdPermit, and the stage a program counter stands for.
Stage == [s \in Sessions |-> PermitStage(s)]
StageOf(at) ==
  CASE at \in Holding -> "held"
    [] at \in {"idle", "acquire", "waiting"} -> at
    [] OTHER -> "done"

\* A stage is a function of the program counter.
LEMMA StageIs ==
  /\ Stage = [u \in Sessions |-> StageOf(pc[u])]
  /\ Stage' = [u \in Sessions |-> StageOf(pc'[u])]
BY DEF Stage, PermitStage, StageOf

\* Moving a session's program counter moves its stage.
LEMMA StageMoves ==
  ASSUME TypeOK, NEW s \in Sessions, NEW to \in SessionPC, Goto(s, to)
  PROVE  Stage' = [Stage EXCEPT ![s] = StageOf(to)]
BY StageIs DEF TypeOK, Goto

\* A move within one stage is invisible to NbdPermit.
LEMMA StageKept ==
  ASSUME TypeOK, NEW s \in Sessions, NEW to \in SessionPC, Goto(s, to),
         StageOf(to) = StageOf(pc[s])
  PROVE  Stage' = Stage
BY StageIs DEF TypeOK, Goto

\* What the stages of the program counters are.
LEMMA Stages ==
  /\ \A at \in Holding : StageOf(at) = "held"
  /\ StageOf("idle") = "idle" /\ StageOf("acquire") = "acquire"
  /\ StageOf("waiting") = "waiting" /\ StageOf("closed") = "done"
BY DEF StageOf, Holding

\* Only DropPermit, Acquire, WaitTimesOut and Open change a stage: every step
\* between them leaves the permit of its session alone.
LEMMA QuietSteps ==
  ASSUME TypeOK, NEW s \in Sessions, OpenStep(s) \/ DropStep(s)
  PROVE  Stage' = Stage /\ UNCHANGED <<count, late, token>>
<1>1. PICK to \in Holding : Goto(s, to)
  <2>1. CASE PrepareUnix(s) \/ PrepareTcp(s) \/ SpawnChild(s)
    BY <2>1 DEF PrepareUnix, PrepareTcp, SpawnChild, Holding
  <2>2. CASE LoopDeadline(s) \/ LoopCancelled(s) \/ LoopChildExited(s)
               \/ LoopStatusUnknown(s) \/ LoopDial(s)
    BY <2>2 DEF LoopDeadline, LoopCancelled, LoopChildExited, LoopStatusUnknown,
                LoopDial, Holding
  <2>3. CASE Connect(s) \/ Retry(s) \/ HandshakeFails(s) \/ TimedOut(s)
    BY <2>3 DEF Connect, Retry, HandshakeFails, TimedOut, Holding
  <2>4. CASE DropStep(s)
    BY <2>4 DEF DropStep, Disconnect, Reap, Unlink, Holding
  <2> QED BY <2>1, <2>2, <2>3, <2>4 DEF OpenStep
<1>2. pc[s] \in Holding
  BY DEF OpenStep, DropStep, PrepareUnix, PrepareTcp, SpawnChild, LoopDeadline,
         LoopCancelled, LoopChildExited, LoopStatusUnknown, LoopDial, Connect, Retry,
         HandshakeFails, TimedOut, Disconnect, Reap, Unlink, Holding
<1>3. UNCHANGED <<count, late, token>>
  BY DEF OpenStep, DropStep, PrepareUnix, PrepareTcp, SpawnChild, LoopDeadline,
         LoopCancelled, LoopChildExited, LoopStatusUnknown, LoopDial, Connect, Retry,
         HandshakeFails, TimedOut, Disconnect, Reap, Unlink
<1>4. to \in SessionPC /\ StageOf(to) = StageOf(pc[s])
  BY <1>2, Stages DEF Holding, SessionPC
<1> QED
  BY <1>1, <1>3, <1>4, StageKept

\* The sessions use the permits as NbdPermit promises: whatever happens between
\* spawn and teardown, a session takes one permit below its limit, keeps it until
\* its reader is dropped or its open failed, and gives it back once.
THEOREM SessionsImplementPermits == Spec => ImplementsPermit
<1>1. Init => Permit!PermitInit
  <2> SUFFICES ASSUME Init PROVE Permit!PermitInit
    OBVIOUS
  <2>1. Stage = [s \in Sessions |-> "idle"]
    BY StageIs, Stages DEF Init
  <2> QED BY <2>1 DEF Init, Permit!PermitInit, Stage
<1>2. TypeOK /\ [Next]_vars => [Permit!PermitNext]_(Permit!permitVars)
  <2> SUFFICES ASSUME TypeOK, [Next]_vars
               PROVE  Permit!PermitNext \/ UNCHANGED Permit!permitVars
    OBVIOUS
  <2>0. \A s \in Sessions : Stage[s] = StageOf(pc[s]) /\ LimitOf(s) = Permit!LimitOf(s)
    BY StageIs DEF LimitOf, Permit!LimitOf
  <2>00. \A s \in Sessions : Open(s) \/ Acquire(s) \/ WaitTimesOut(s) \/ DropPermit(s)
           => UNCHANGED <<late, token>>
    BY DEF Open, Acquire, WaitTimesOut, DropPermit
  <2>1. ASSUME NEW s \in Sessions, Open(s) PROVE Permit!Ask(s)
    <3>1. Goto(s, IF token THEN "closed" ELSE "acquire") /\ count' = count
      BY <2>1 DEF Open
    <3>2. Stage' = [Stage EXCEPT ![s] = IF token THEN "done" ELSE "acquire"]
      BY <3>1, StageMoves, Stages DEF SessionPC
    <3>3. Stage[s] = "idle"
      BY <2>0, <2>1, Stages DEF Open
    <3> QED BY <3>1, <3>2, <3>3, <2>1, <2>00 DEF Permit!Ask, Permit!Goto, Stage
  <2>2. ASSUME NEW s \in Sessions, Acquire(s) PROVE Permit!AcquireStep(s)
    <3>1. Stage[s] = "acquire"
      BY <2>0, <2>2, Stages DEF Acquire
    <3>2. CASE count < LimitOf(s) /\ count' = count + 1 /\ Goto(s, "prepare")
      <4>1. Stage' = [Stage EXCEPT ![s] = "held"]
        BY <3>2, StageMoves, Stages DEF SessionPC, Holding
      <4> QED BY <3>1, <3>2, <4>1, <2>0, <2>00, <2>2
                 DEF Permit!AcquireStep, Permit!Take, Permit!Goto, Stage
    <3>3. CASE count >= LimitOf(s) /\ (token \/ late[s]) /\ Goto(s, "closed")
                 /\ count' = count
      <4>1. Stage' = [Stage EXCEPT ![s] = "done"]
        BY <3>3, StageMoves, Stages DEF SessionPC
      <4> QED BY <3>1, <3>3, <4>1, <2>0, <2>00, <2>2
                 DEF Permit!AcquireStep, Permit!GiveUp, Permit!Goto, Stage
    <3>4. CASE count >= LimitOf(s) /\ ~token /\ ~late[s] /\ Goto(s, "waiting")
                 /\ count' = count
      <4>1. Stage' = [Stage EXCEPT ![s] = "waiting"]
        BY <3>4, StageMoves, Stages DEF SessionPC
      <4> QED BY <3>1, <3>4, <4>1, <2>0, <2>00, <2>2
                 DEF Permit!AcquireStep, Permit!Wait, Permit!Goto, Stage
    <3> QED BY <2>2, <3>2, <3>3, <3>4 DEF Acquire
  <2>3. ASSUME NEW s \in Sessions, WaitTimesOut(s) PROVE Permit!AcquireStep(s)
    <3>1. Stage[s] = "waiting"
      BY <2>0, <2>3, Stages DEF WaitTimesOut
    <3>2. Stage' = [Stage EXCEPT ![s] = "acquire"]
      BY <2>3, StageMoves, Stages DEF SessionPC, WaitTimesOut
    <3> QED BY <3>1, <3>2, <2>3, <2>00
               DEF WaitTimesOut, Permit!AcquireStep, Permit!WaitTimesOut, Permit!Goto, Stage
  <2>4. ASSUME NEW s \in Sessions, DropPermit(s) PROVE Permit!DropPermit(s)
    <3>1. Stage[s] = "held"
      BY <2>0, <2>4, Stages DEF DropPermit, Holding
    <3>2. Permit!Waiters = {t \in Sessions : pc[t] = "waiting"}
      BY StageIs DEF TypeOK, SessionPC, Permit!Waiters, Stage, StageOf, Holding
    <3>3. CASE Permit!Waiters = {} /\ Goto(s, "closed")
      <4>1. Stage' = [Stage EXCEPT ![s] = "done"]
        BY <3>3, StageMoves, Stages DEF SessionPC
      <4> QED BY <3>1, <3>3, <4>1, <2>4, <2>00
                 DEF DropPermit, Permit!DropPermit, Permit!Goto, Stage
    <3>4. ASSUME NEW t \in Permit!Waiters,
                 pc' = [pc EXCEPT ![s] = "closed", ![t] = "acquire"]
          PROVE  Permit!DropPermit(s)
      <4>1. t \in Sessions
        BY <3>2
      <4>2. Stage' = [Stage EXCEPT ![s] = "done", ![t] = "acquire"]
        BY <3>4, <4>1, StageIs, Stages DEF TypeOK
      <4> QED BY <3>1, <3>4, <4>2, <2>4, <2>00 DEF DropPermit, Permit!DropPermit, Stage
    <3> QED BY <2>4, <3>2, <3>3, <3>4 DEF DropPermit
  <2>5. ASSUME NEW s \in Sessions, OpenStep(s) \/ DropStep(s)
        PROVE  UNCHANGED Permit!permitVars
    BY <2>5, QuietSteps DEF Permit!permitVars, Stage
  <2>6. ASSUME Stage' = Stage, UNCHANGED <<count, late, token>>
        PROVE  UNCHANGED Permit!permitVars
    BY <2>6 DEF Permit!permitVars, Stage
  <2>7. ASSUME pc' = pc PROVE Stage' = Stage
    BY <2>7, StageIs
  <2>8. ASSUME NEW s \in Sessions, ChildStep(s) PROVE UNCHANGED Permit!permitVars
    BY <2>6, <2>7, <2>8 DEF ChildStep, ChildBinds, ChildExits
  <2>9. ASSUME NEW s \in Sessions, DeadlinePasses(s) PROVE Permit!DeadlinePasses(s)
    BY <2>7, <2>9 DEF DeadlinePasses, Permit!DeadlinePasses, Stage
  <2>10. CASE Cancel
    BY <2>7, <2>10 DEF Cancel, Permit!PermitNext, Permit!Cancel, Stage
  <2>11. CASE UNCHANGED vars
    BY <2>6, <2>7, <2>11 DEF vars
  <2> QED
    BY <2>1, <2>2, <2>3, <2>4, <2>5, <2>8, <2>9, <2>10, <2>11
       DEF Next, PermitStep, Permit!PermitNext
<1>3. SessionInv => TypeOK
  BY DEF SessionInv
<1> QED
  BY <1>1, <1>2, <1>3, SessionInvariant, PTL DEF Spec, ImplementsPermit, Permit!PermitSpec
=============================================================================
