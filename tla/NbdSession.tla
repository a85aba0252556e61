----------------------------- MODULE NbdSession -----------------------------
(***************************************************************************)
(* The life of qemu-nbd sessions (vms/nbd.rs): the process-wide permits    *)
(* (NbdSessionPermit), the child process and the socket it serves on, the  *)
(* connection loop of NbdReader::open_with_options with its deadline, its  *)
(* retries and its error paths, and the teardown in Drop.                  *)
(*                                                                         *)
(* A session opens one image.  Its deadline may pass at any moment.  The   *)
(* child, the socket file and the network are outside the program: the     *)
(* actions Child... give them every behaviour the code is prepared for.    *)
(***************************************************************************)
EXTENDS Naturals, FiniteSets

CONSTANTS
  Sessions,     \* NbdReaders opened by concurrent inspections
  Limit,        \* session -> nbd_max_sessions of its Options
  SocketPath,   \* session -> unix_socket of its Options, None for TCP
  Paths, Ports, \* the socket paths and the ephemeral TCP ports of the host
  None,
  Stubborn,     \* sessions whose child may outlive PROCESS_CLEANUP_TIMEOUT
  Signalled,    \* sessions whose socket reads a signal may interrupt (EINTR)
  Together      \* bound: the sets of sessions opened in one behaviour

ASSUME SessionAssumption ==
  /\ IsFiniteSet(Sessions) /\ None \notin Sessions
  /\ Limit \in [Sessions -> Nat]
  /\ SocketPath \in [Sessions -> Paths \cup {None}]
  /\ None \notin Paths \cup Ports /\ Paths \cap Ports = {}
  /\ Stubborn \subseteq Sessions /\ Signalled \subseteq Sessions
  /\ Together \subseteq SUBSET Sessions

VARIABLES
  count,    \* NBD_SESSIONS: the number of permits given out
  pc,       \* session -> where open_with_options or Drop stands
  child,    \* session -> its qemu-nbd process
  addr,     \* session -> the path or port it uses, once chosen
  socket,   \* address -> session whose child bound it (None: nobody, no file)
  server,   \* session -> session whose child it is connected to
  late,     \* session -> its initialization deadline has passed
  outcome,  \* session -> what open_with_options returned
  token,    \* the cancellation token of the Options
  doubled   \* history: sessions that were handed one TCP port while both used it

vars == <<count, pc, child, addr, socket, server, late, outcome, token, doubled>>

SessionPC == {"idle", "acquire", "waiting", "prepare", "spawn", "connecting",
              "dialing", "timed_out", "open", "reap", "unlink", "permit", "closed"}
ChildState == {"none", "starting", "listening", "exited"}
Outcomes == {"none", "ok", "interrupted", "timed_out", "refused", "failed"}

\* Mutant of LimitOf: a limit of zero stands for the default of two.
LimitOrDefault(s) == IF Limit[s] = 0 THEN 2 ELSE Limit[s]

\* options.nbd_max_sessions.max(1)
LimitOf(s) == IF Limit[s] = 0 THEN 1 ELSE Limit[s]

\* The stages during which the session owns an NbdSessionPermit.
Holding == {"prepare", "spawn", "connecting", "dialing", "timed_out", "open",
            "reap", "unlink", "permit"}
Holders == {s \in Sessions : pc[s] \in Holding}

Alive(s) == child[s] \in {"starting", "listening"}

Addresses == Paths \cup Ports

Init ==
  /\ count = 0
  /\ pc = [s \in Sessions |-> "idle"]
  /\ child = [s \in Sessions |-> "none"]
  /\ addr = [s \in Sessions |-> None]
  /\ socket = [a \in Addresses |-> None]
  /\ server = [s \in Sessions |-> None]
  /\ late = [s \in Sessions |-> FALSE]
  /\ outcome = [s \in Sessions |-> "none"]
  /\ token = FALSE
  /\ doubled = {}

Goto(s, to) == pc' = [pc EXCEPT ![s] = to]
Returns(s, result) == outcome' = [outcome EXCEPT ![s] = result]

-----------------------------------------------------------------------------
(* NbdSessionPermit (NbdPermit has these steps on their own) *)

\* open_with_options looks at the token before anything else.
Open(s) ==
  /\ pc[s] = "idle"
  /\ \E group \in Together : {s} \cup {t \in Sessions : pc[t] # "idle"} \subseteq group
  /\ IF token THEN Goto(s, "closed") /\ Returns(s, "interrupted")
              ELSE Goto(s, "acquire") /\ UNCHANGED outcome
  /\ UNCHANGED <<count, child, addr, socket, server, late, token, doubled>>

\* Mutant of Acquire: the deadline is reported as an interruption.
AcquireTimeoutInterrupts(s) ==
  /\ pc[s] = "acquire"
  /\ \/ /\ count < LimitOf(s)
        /\ count' = count + 1
        /\ Goto(s, "prepare")
        /\ UNCHANGED outcome
     \/ /\ count >= LimitOf(s) /\ (token \/ late[s])
        /\ Goto(s, "closed") /\ Returns(s, "interrupted")
        /\ UNCHANGED count
     \/ /\ count >= LimitOf(s) /\ ~token /\ ~late[s]
        /\ Goto(s, "waiting")
        /\ UNCHANGED <<count, outcome>>
  /\ UNCHANGED <<child, addr, socket, server, late, token, doubled>>

\* One evaluation of the loop in acquire, under the mutex: take a permit, give
\* up, or wait on the condition variable, which releases the mutex.
Acquire(s) ==
  /\ pc[s] = "acquire"
  /\ \/ /\ count < LimitOf(s)
        /\ count' = count + 1
        /\ Goto(s, "prepare")
        /\ UNCHANGED outcome
     \/ /\ count >= LimitOf(s) /\ token
        /\ Goto(s, "closed") /\ Returns(s, "interrupted")
        /\ UNCHANGED count
     \/ /\ count >= LimitOf(s) /\ ~token /\ late[s]
        /\ Goto(s, "closed") /\ Returns(s, "timed_out")
        /\ UNCHANGED count
     \/ /\ count >= LimitOf(s) /\ ~token /\ ~late[s]
        /\ Goto(s, "waiting")
        /\ UNCHANGED <<count, outcome>>
  /\ UNCHANGED <<child, addr, socket, server, late, token, doubled>>

\* wait_timeout gives up after at most 50 ms.
WaitTimesOut(s) ==
  /\ pc[s] = "waiting"
  /\ Goto(s, "acquire")
  /\ UNCHANGED <<count, child, addr, socket, server, late, outcome, token, doubled>>

\* Drop of the permit: saturating_sub, then notify_one wakes one waiter, if any.
DropPermit(s) ==
  /\ pc[s] = "permit"
  /\ count' = IF count = 0 THEN 0 ELSE count - 1
  /\ LET waiters == {t \in Sessions : pc[t] = "waiting"} IN
       IF waiters = {} THEN Goto(s, "closed")
       ELSE \E t \in waiters :
              pc' = [pc EXCEPT ![s] = "closed", ![t] = "acquire"]
  /\ UNCHANGED <<child, addr, socket, server, late, outcome, token, doubled>>

-----------------------------------------------------------------------------
(* open_with_options *)

\* A process is listening at the address.
Bound(a) == socket[a] # None /\ child[socket[a]] = "listening"

\* A UNIX socket path is cleared of any file.
PrepareUnix(s) ==
  /\ pc[s] = "prepare" /\ SocketPath[s] # None
  /\ addr' = [addr EXCEPT ![s] = SocketPath[s]]
  /\ socket' = [socket EXCEPT ![SocketPath[s]] = None]
  /\ Goto(s, "spawn")
  /\ UNCHANGED <<count, child, server, late, outcome, token, doubled>>

\* The session's child may still bind its address, or serves on it, or the
\* session may still dial it.
Uses(s) == Alive(s) \/ pc[s] \in {"spawn", "dialing"}

\* For TCP, binding port 0 yields a port nobody listens on, or fails; the port is
\* released at once, so nothing reserves it until qemu-nbd binds it.
PrepareTcp(s) ==
  /\ pc[s] = "prepare" /\ SocketPath[s] = None
  /\ \/ /\ \E p \in {q \in Ports : ~Bound(q)} :
             /\ addr' = [addr EXCEPT ![s] = p]
             /\ LET others == {t \in Sessions \ {s} : addr[t] = p /\ Uses(t)} IN
                  doubled' = IF others = {} THEN doubled
                             ELSE doubled \cup {s} \cup others
        /\ Goto(s, "spawn")
        /\ UNCHANGED outcome
     \/ /\ Goto(s, "permit") /\ Returns(s, "failed")
        /\ UNCHANGED <<addr, doubled>>
  /\ UNCHANGED <<count, child, socket, server, late, token>>

\* Mutant of SpawnChild: the permit moves into the child's guard too early.
SpawnErrorReacquires(s) ==
  /\ pc[s] = "spawn"
  /\ \/ /\ child' = [child EXCEPT ![s] = "starting"]
        /\ Goto(s, "connecting")
        /\ UNCHANGED outcome
     \/ /\ Goto(s, "acquire") /\ Returns(s, "failed")
        /\ UNCHANGED child
  /\ UNCHANGED <<count, addr, socket, server, late, token, doubled>>

SpawnChild(s) ==
  /\ pc[s] = "spawn"
  /\ \/ /\ child' = [child EXCEPT ![s] = "starting"]
        /\ Goto(s, "connecting")
        /\ UNCHANGED outcome
     \/ /\ Goto(s, "permit") /\ Returns(s, "failed")
        /\ UNCHANGED child
  /\ UNCHANGED <<count, addr, socket, server, late, token, doubled>>

\* terminate_and_reap: kill and wait; a stubborn child may survive it.
Terminate(s) ==
  \/ child' = [child EXCEPT ![s] = "exited"]
  \/ s \in Stubborn /\ UNCHANGED child

\* The head of the connection loop.
LoopDeadline(s) ==
  /\ pc[s] = "connecting" /\ late[s]
  /\ Goto(s, "timed_out")
  /\ UNCHANGED <<count, child, addr, socket, server, late, outcome, token, doubled>>

LoopCancelled(s) ==
  /\ pc[s] = "connecting" /\ ~late[s] /\ token
  /\ Terminate(s)
  /\ Goto(s, "permit") /\ Returns(s, "interrupted")
  /\ UNCHANGED <<count, addr, socket, server, late, token, doubled>>

\* try_wait: the child is already gone ...
LoopChildExited(s) ==
  /\ pc[s] = "connecting" /\ ~late[s] /\ ~token /\ child[s] = "exited"
  /\ Goto(s, "permit") /\ Returns(s, "refused")
  /\ UNCHANGED <<count, child, addr, socket, server, late, token, doubled>>

\* ... or its state cannot be queried ...
LoopStatusUnknown(s) ==
  /\ pc[s] = "connecting" /\ ~late[s] /\ ~token
  /\ Terminate(s)
  /\ Goto(s, "permit") /\ Returns(s, "failed")
  /\ UNCHANGED <<count, addr, socket, server, late, token, doubled>>

\* ... or it runs, and a connection is attempted.
LoopDial(s) ==
  /\ pc[s] = "connecting" /\ ~late[s] /\ ~token /\ Alive(s)
  /\ Goto(s, "dialing")
  /\ UNCHANGED <<count, child, addr, socket, server, late, outcome, token, doubled>>

\* The server behind the address, if one is listening and serves nobody (a
\* qemu-nbd without --persistent or --shared serves one client).
Listening(s) ==
  Bound(addr[s]) /\ \A u \in Sessions : server[u] # socket[addr[s]]

\* connect and handshake succeed with whoever listens at the address.
Connect(s) ==
  /\ pc[s] = "dialing"
  /\ Listening(s)
  /\ server' = [server EXCEPT ![s] = socket[addr[s]]]
  /\ Goto(s, "open") /\ Returns(s, "ok")
  /\ UNCHANGED <<count, child, addr, socket, late, token, doubled>>

\* A retryable error (nobody listens yet, the connection is reset, the deadline
\* passes) sleeps and goes round.
Retry(s) ==
  /\ pc[s] = "dialing"
  /\ Goto(s, "connecting")
  /\ UNCHANGED <<count, child, addr, socket, server, late, outcome, token, doubled>>

\* Any other error ends the attempt with the kind of the error; a signal during
\* a socket read of the handshake is Interrupted, which is not retried.
HandshakeFails(s) ==
  /\ pc[s] = "dialing"
  /\ Terminate(s)
  /\ \/ Returns(s, "failed")
     \/ s \in Signalled /\ Listening(s) /\ Returns(s, "interrupted")
  /\ Goto(s, "permit")
  /\ UNCHANGED <<count, addr, socket, server, late, token, doubled>>

\* Mutant of TimedOut: the child is left running.
TimedOutLeavesChild(s) ==
  /\ pc[s] = "timed_out"
  /\ Returns(s, IF child[s] = "exited" THEN "refused" ELSE "timed_out")
  /\ Goto(s, "permit")
  /\ UNCHANGED <<count, child, addr, socket, server, late, token, doubled>>

\* After the loop: one last try_wait, then terminate and time out.
TimedOut(s) ==
  /\ pc[s] = "timed_out"
  /\ IF child[s] = "exited"
     THEN Returns(s, "refused") /\ UNCHANGED child
     ELSE Returns(s, "timed_out") /\ Terminate(s)
  /\ Goto(s, "permit")
  /\ UNCHANGED <<count, addr, socket, server, late, token, doubled>>

-----------------------------------------------------------------------------
(* Drop of NbdReader, then of its permit field. *)

\* disconnect: the server loses its client; it may exit now (ChildExits).
Disconnect(s) ==
  /\ pc[s] = "open"
  /\ server' = [server EXCEPT ![s] = None]
  /\ Goto(s, "reap")
  /\ UNCHANGED <<count, child, addr, socket, late, outcome, token, doubled>>

\* Mutant of Reap: the teardown waits for the child to exit by itself.
ReapWaits(s) ==
  /\ pc[s] = "reap" /\ child[s] = "exited"
  /\ Goto(s, "unlink")
  /\ UNCHANGED <<count, child, addr, socket, server, late, outcome, token, doubled>>

Reap(s) ==
  /\ pc[s] = "reap"
  /\ IF child[s] = "exited" THEN UNCHANGED child ELSE Terminate(s)
  /\ Goto(s, "unlink")
  /\ UNCHANGED <<count, addr, socket, server, late, outcome, token, doubled>>

\* The socket file goes, whoever bound it; a TCP address has none.
Unlink(s) ==
  /\ pc[s] = "unlink"
  /\ socket' = IF addr[s] \in Paths THEN [socket EXCEPT ![addr[s]] = None]
                                     ELSE socket
  /\ Goto(s, "permit")
  /\ UNCHANGED <<count, child, addr, server, late, outcome, token, doubled>>

-----------------------------------------------------------------------------
(* The environment. *)

\* qemu-nbd binds its address: a socket file left there is replaced, a port in
\* use is not ...
ChildBinds(s) ==
  /\ child[s] = "starting"
  /\ addr[s] \in Ports => ~Bound(addr[s])
  /\ child' = [child EXCEPT ![s] = "listening"]
  /\ socket' = [socket EXCEPT ![addr[s]] = s]
  /\ UNCHANGED <<count, pc, addr, server, late, outcome, token, doubled>>

\* ... or exits, because it cannot bind, cannot open the image, or crashes.  A
\* socket file it bound stays behind.
ChildExits(s) ==
  /\ Alive(s)
  /\ child' = [child EXCEPT ![s] = "exited"]
  /\ UNCHANGED <<count, pc, addr, socket, server, late, outcome, token, doubled>>

\* The deadline matters only while the session waits for a permit or connects.
DeadlinePasses(s) ==
  /\ ~late[s] /\ pc[s] \in {"acquire", "waiting", "connecting", "dialing"}
  /\ late' = [late EXCEPT ![s] = TRUE]
  /\ UNCHANGED <<count, pc, child, addr, socket, server, outcome, token, doubled>>

Cancel ==
  /\ ~token /\ token' = TRUE
  /\ UNCHANGED <<count, pc, child, addr, socket, server, late, outcome, doubled>>

-----------------------------------------------------------------------------

PermitStep(s) == Acquire(s) \/ WaitTimesOut(s) \/ DropPermit(s)

OpenStep(s) ==
  \/ PrepareUnix(s) \/ PrepareTcp(s) \/ SpawnChild(s)
  \/ LoopDeadline(s) \/ LoopCancelled(s) \/ LoopChildExited(s)
  \/ LoopStatusUnknown(s) \/ LoopDial(s)
  \/ Connect(s) \/ Retry(s) \/ HandshakeFails(s) \/ TimedOut(s)

DropStep(s) == Disconnect(s) \/ Reap(s) \/ Unlink(s)

ChildStep(s) == ChildBinds(s) \/ ChildExits(s)

Next ==
  \/ \E s \in Sessions :
       \/ Open(s) \/ PermitStep(s) \/ OpenStep(s) \/ DropStep(s)
       \/ ChildStep(s) \/ DeadlinePasses(s)
  \/ Cancel

Spec == Init /\ [][Next]_vars

\* The thread of a session runs, a condition-variable wait ends within 50 ms and
\* an open reader is eventually dropped; nothing is assumed of the children, of
\* cancellation or of the order in which waiters are notified.
ThreadFairness ==
  \A s \in Sessions : WF_vars(PermitStep(s) \/ OpenStep(s) \/ DropStep(s))

\* Time passes.
ClockFairness == \A s \in Sessions : WF_vars(DeadlinePasses(s))

FairSpec == Spec /\ ThreadFairness /\ ClockFairness

-----------------------------------------------------------------------------
(* Properties. *)

TypeOK ==
  /\ count \in Nat
  /\ pc \in [Sessions -> SessionPC]
  /\ child \in [Sessions -> ChildState]
  /\ addr \in [Sessions -> Addresses \cup {None}]
  /\ socket \in [Addresses -> Sessions \cup {None}]
  /\ server \in [Sessions -> Sessions \cup {None}]
  /\ late \in [Sessions -> BOOLEAN]
  /\ outcome \in [Sessions -> Outcomes]
  /\ token \in BOOLEAN
  /\ doubled \subseteq Sessions

\* The number of sessions never exceeds the largest limit in use, and a child
\* that dies when killed runs only while its session holds a permit: the number
\* of qemu-nbd processes is bounded too.
ChildrenBounded ==
  /\ count > 0 => \E s \in Sessions : count <= LimitOf(s)
  /\ \A s \in Sessions \ Stubborn : Alive(s) => s \in Holders

\* An open reader reads from the qemu-nbd process it started: the image behind
\* the connection is the image the session was opened for, unless the host handed
\* its port to another session too between the bind that chose the port and the
\* last use of it.
ServedByOwnChild ==
  \A s \in Sessions \ doubled : pc[s] = "open" => server[s] = s

\* An open that reports an interruption (VmSpectError::Cancelled) was cancelled,
\* whatever raced with its deadline, unless a signal interrupted one of its reads.
InterruptedMeansCancelled ==
  \A s \in Sessions \ Signalled : outcome[s] = "interrupted" => token

\* What the three need to be inductive.  A session has a child only behind its
\* spawn, on the address that its Options or PrepareTcp gave it; the child dies
\* before the permit is given back, unless it is stubborn; and whoever bound an
\* address has that address.
PermitCount == count = Cardinality(Holders)
ChildInv ==
  \A s \in Sessions :
    /\ child[s] # "none" =>
         /\ pc[s] \notin {"idle", "acquire", "waiting", "prepare", "spawn"}
         /\ addr[s] # None
    /\ Alive(s) => s \in Stubborn \/ pc[s] \in {"connecting", "dialing", "timed_out",
                                               "open", "reap"}
    /\ pc[s] \in Holding \ {"prepare", "permit"} => addr[s] # None
    /\ addr[s] # None => addr[s] = SocketPath[s]
                           \/ (SocketPath[s] = None /\ addr[s] \in Ports)
SocketInv ==
  \A a \in Addresses : socket[a] # None =>
    addr[socket[a]] = a /\ child[socket[a]] # "none"

SessionInv == TypeOK /\ PermitCount /\ ChildInv /\ SocketInv

\* Options under which no two sessions can be in each other's way on a socket
\* path: those that share one admit one session at a time and have children that
\* die when killed.  Of sessions over TCP, the default, nothing is asked.
AddressesApart ==
  \A s, t \in Sessions :
    s # t /\ SocketPath[s] # None /\ SocketPath[s] = SocketPath[t] =>
      LimitOf(s) = 1 /\ LimitOf(t) = 1 /\ s \notin Stubborn /\ t \notin Stubborn
OneAtATime ==
  \A s, t \in Holders :
    SocketPath[s] # None /\ SocketPath[s] = SocketPath[t] => s = t
PortsApart ==
  \A s, t \in Sessions :
    s # t /\ addr[s] \in Ports /\ addr[s] = addr[t] /\ Uses(s) /\ Uses(t)
      => s \in doubled

\* A session that asks for a permit always ends, with its permit given back,
\* whatever its child does: no open waits for ever and no teardown blocks.
SessionEnds == \A s \in Sessions : pc[s] = "acquire" ~> pc[s] = "closed"

\* What NbdPermit sees of a session.
PermitStage(s) ==
  CASE pc[s] \in Holding -> "held"
    [] pc[s] \in {"idle", "acquire", "waiting"} -> pc[s]
    [] OTHER -> "done"

Permit == INSTANCE NbdPermit WITH
  stage <- [s \in Sessions |-> PermitStage(s)],
  late  <- late

\* Sessions use the permits as NbdPermit says: one permit from the end of the
\* wait to the end of the teardown, returned on every path.
ImplementsPermit == Permit!PermitSpec
=============================================================================
