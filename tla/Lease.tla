------------------------------- MODULE Lease -------------------------------
(***************************************************************************)
(* The pipe server of the ReadWatch service and its lease                  *)
(* (cmd/readwatch/ipc_windows.go), with the end of the service             *)
(* (serviceMain, Shutdown and requestServiceStop in service_windows.go).   *)
(*                                                                         *)
(* A viewer that has said hello holds the service; a maintenance           *)
(* connection does not, but no operation is cut short.  Two timers and     *)
(* the operations in flight decide when the service stops by itself.  One  *)
(* goroutine accepts, two serve each connection, timers run on their own,  *)
(* and any of them may come between two steps of another.                  *)
(* Each section of code under leaseMu is an action, and so is each step    *)
(* that can wait; what only its own goroutine notices is joined to a step  *)
(* that others notice: close() to the section of clientClosed it ends      *)
(* with, the end of a reader to its close().                               *)
(*                                                                         *)
(* What is left out:                                                       *)
(*  - time: an armed timer may fire at any moment, and the five seconds    *)
(*    Stop grants the accept loop may always be over;                      *)
(*  - the contents of messages and the queue of a connection: a send to a  *)
(*    client that is there may wait until it reads or is closed, and a     *)
(*    writer may meet the end of a client that has gone at any moment,     *)
(*    because broadcasts reach every connection, role or not;              *)
(*  - what an operation does under opMu, beyond switching monitoring on or *)
(*    off: it is one step here, and many in Monitoring;                    *)
(*  - a pipe that cannot be created: the accept loop tries again.          *)
(***************************************************************************)
EXTENDS Integers, FiniteSets

CONSTANTS Clients,      \* processes that may connect, one connection at a time
          None,         \* none of them
          MaxCut,       \* bound on the connections closed between hello and lease
          MaxFired      \* bound on the timers that have fired and not run yet

ASSUME ClientsAssumption == IsFiniteSet(Clients) /\ None \notin Clients
ASSUME MaxCutAssumption == MaxCut \in Nat
ASSUME MaxFiredAssumption == MaxFired \in Nat \ {0}

VARIABLES
  peer,         \* the client's end: away, here, or gone without the server knowing
  at,           \* where the reader of a connection is
  open,         \* close() has not run: c.done is open and c is in clients
  role,         \* c.role; other than none: c.greeted
  resuming,     \* what it is doing is for a hello and not for a command
  acceptor,     \* where the accept loop is
  incoming,     \* the connection it has just been given
  viewerClients, activeOperations, startupTimer, orphanTimer,
  stopRequested, leaseReleased,
  fired,        \* timers that have fired and not run leaseExpired yet
  decided,      \* the lease has decided to call requestServiceStop
  stopAsked,    \* serviceStopCh is closed
  main,         \* where serviceMain is; it has left serving: e.shuttingDown
  monitoring,   \* the watcher runs
  wedged,       \* an operation holds opMu for ever
  cut           \* connections closed between hello and lease (a history: no step reads it)

connection == <<peer, at, open, role, resuming>>
accepting  == <<acceptor, incoming>>
timers     == <<startupTimer, orphanTimer>>
lease      == <<viewerClients, activeOperations, timers, stopRequested, leaseReleased,
                fired, decided>>
ending     == <<stopAsked, main>>
vars       == <<connection, accepting, lease, ending, monitoring, wedged, cut>>

TypeOK ==
  /\ peer \in [Clients -> {"away", "here", "gone"}]
  /\ at \in [Clients -> {"off", "read", "lease", "begin", "work", "finish"}]
  /\ open \in [Clients -> BOOLEAN] /\ resuming \in [Clients -> BOOLEAN]
  /\ role \in [Clients -> {"none", "viewer", "maintenance"}]
  /\ acceptor \in {"await", "register", "done"} /\ incoming \in Clients \cup {None}
  /\ viewerClients \in Nat /\ activeOperations \in Nat
  /\ startupTimer \in {"nil", "armed", "fired"} /\ orphanTimer \in {"nil", "armed", "fired"}
  /\ stopRequested \in BOOLEAN /\ leaseReleased \in BOOLEAN
  /\ fired \in 0..MaxFired /\ decided \in BOOLEAN
  /\ stopAsked \in BOOLEAN /\ main \in {"serving", "closing", "ended", "stopped"}
  /\ monitoring \in BOOLEAN /\ wedged \in BOOLEAN /\ cut \in 0..MaxCut

\* NewIPCServer and Start: the startup lease is armed before the accept loop runs.
Init ==
  /\ peer = [c \in Clients |-> "away"] /\ at = [c \in Clients |-> "off"]
  /\ open = [c \in Clients |-> FALSE] /\ role = [c \in Clients |-> "none"]
  /\ resuming = [c \in Clients |-> FALSE]
  /\ acceptor = "await" /\ incoming = None
  /\ viewerClients = 0 /\ activeOperations = 0
  /\ startupTimer = "armed" /\ orphanTimer = "nil"
  /\ stopRequested = FALSE /\ leaseReleased = FALSE /\ fired = 0 /\ decided = FALSE
  /\ stopAsked = FALSE /\ main = "serving" /\ monitoring = FALSE
  /\ wedged = FALSE /\ cut = 0

\* The process is there until serviceMain has reported SERVICE_STOPPED.
Alive == main # "stopped"

\* IPCServer.Stop has closed s.stop.
StopClosed == main \in {"closing", "ended"}

Set(f, c, v) == [f EXCEPT ![c] = v]
OneLess(n) == IF n > 0 THEN n - 1 ELSE 0
-----------------------------------------------------------------------------
(***************************************************************************)
(* The clients.                                                            *)
(***************************************************************************)

\* It opens the pipe instance that is waiting.
Connect(c) ==
  /\ Alive /\ acceptor = "await" /\ ~StopClosed /\ peer[c] = "away"
  /\ peer' = Set(peer, c, "here")
  /\ acceptor' = "register" /\ incoming' = c
  /\ UNCHANGED <<at, open, role, resuming, lease, ending, monitoring, wedged, cut>>

\* It closes its end or is killed, at any moment.
Leave(c) ==
  /\ Alive /\ peer[c] = "here" /\ at[c] # "off"
  /\ peer' = Set(peer, c, "gone")
  /\ UNCHANGED <<at, open, role, resuming, accepting, lease, ending, monitoring, wedged, cut>>

(***************************************************************************)
(* acceptLoop.                                                             *)
(***************************************************************************)

\* It finds stop closed, or stopEvent wakes it from waiting for a client.
AcceptEnds ==
  /\ Alive /\ acceptor = "await" /\ StopClosed
  /\ acceptor' = "done"
  /\ UNCHANGED <<connection, incoming, lease, ending, monitoring, wedged, cut>>

\* Stop may have been closed, and its connections listed, since the last look.
Register ==
  /\ Alive /\ acceptor = "register"
  /\ open' = Set(open, incoming, TRUE) /\ at' = Set(at, incoming, "read")
  /\ acceptor' = "await" /\ incoming' = None
  /\ UNCHANGED <<peer, role, resuming, lease, ending, monitoring, wedged, cut>>
-----------------------------------------------------------------------------
(***************************************************************************)
(* The lease.  Each operator is one section under leaseMu.                 *)
(***************************************************************************)

\* (a slip: the timers are stopped, the fields still name them)
HelloKeepsTimers ==
  /\ viewerClients' = viewerClients + 1
  /\ startupTimer' = (IF startupTimer = "armed" THEN "fired" ELSE startupTimer)
  /\ orphanTimer' = (IF orphanTimer = "armed" THEN "fired" ELSE orphanTimer)
  /\ UNCHANGED <<activeOperations, stopRequested, leaseReleased, fired, decided>>

\* A timer that has fired already still runs leaseExpired.
ViewerHello ==
  /\ viewerClients' = viewerClients + 1
  /\ startupTimer' = "nil" /\ orphanTimer' = "nil"
  /\ UNCHANGED <<activeOperations, stopRequested, leaseReleased, fired, decided>>

\* (a slip: it asks neither whose connection it was nor whether a lease is left)
ClosedUncounted(c) ==
  /\ viewerClients' = viewerClients - 1
  /\ orphanTimer' = IF viewerClients' = 0 /\ ~leaseReleased /\ orphanTimer = "nil"
                    THEN "armed" ELSE orphanTimer
  /\ UNCHANGED <<activeOperations, startupTimer, stopRequested, leaseReleased, fired,
                 decided>>

\* (a slip: the connection is taken for a viewer's whether or not it said hello)
AnyoneClosed(c) ==
  /\ viewerClients' = OneLess(viewerClients)
  /\ orphanTimer' = IF viewerClients' = 0 /\ ~leaseReleased /\ orphanTimer = "nil"
                    THEN "armed" ELSE orphanTimer
  /\ UNCHANGED <<activeOperations, startupTimer, stopRequested, leaseReleased, fired,
                 decided>>

ClientClosed(c) ==
  \/ /\ role[c] = "viewer"
     /\ viewerClients' = OneLess(viewerClients)
     /\ orphanTimer' = IF viewerClients' = 0 /\ ~leaseReleased /\ orphanTimer = "nil"
                       THEN "armed" ELSE orphanTimer
     /\ UNCHANGED <<activeOperations, startupTimer, stopRequested, leaseReleased, fired,
                    decided>>
  \/ role[c] # "viewer" /\ UNCHANGED lease

OperationStarted ==
  /\ activeOperations' = activeOperations + 1
  /\ UNCHANGED <<viewerClients, timers, stopRequested, leaseReleased, fired, decided>>

\* (a slip: the stop that was put off forgets to look for viewers)
FinishedRegardless ==
  /\ activeOperations' = OneLess(activeOperations)
  /\ decided' = (decided \/ (stopRequested /\ activeOperations' = 0 /\ ~leaseReleased))
  /\ UNCHANGED <<viewerClients, timers, stopRequested, leaseReleased, fired>>

OperationFinished ==
  /\ activeOperations' = OneLess(activeOperations)
  /\ decided' = (decided \/ (stopRequested /\ activeOperations' = 0
                             /\ viewerClients = 0 /\ ~leaseReleased))
  /\ UNCHANGED <<viewerClients, timers, stopRequested, leaseReleased, fired>>

\* time.AfterFunc: the goroutine of a timer has started; leaseMu is still to be taken.
Fire ==
  /\ Alive /\ fired < MaxFired /\ fired' = fired + 1
  /\ \/ startupTimer = "armed" /\ startupTimer' = "fired" /\ UNCHANGED orphanTimer
     \/ orphanTimer = "armed" /\ orphanTimer' = "fired" /\ UNCHANGED startupTimer
  /\ UNCHANGED <<connection, accepting, viewerClients, activeOperations, stopRequested,
                 leaseReleased, decided, ending, monitoring, wedged, cut>>

LeaseExpired ==
  /\ Alive /\ fired > 0 /\ fired' = fired - 1
  /\ \/ /\ leaseReleased \/ viewerClients > 0
        /\ UNCHANGED <<stopRequested, decided>>
     \/ /\ ~leaseReleased /\ viewerClients = 0 /\ activeOperations > 0
        /\ stopRequested' = TRUE /\ UNCHANGED decided
     \/ /\ ~leaseReleased /\ viewerClients = 0 /\ activeOperations = 0
        /\ decided' = TRUE /\ UNCHANGED stopRequested
  /\ UNCHANGED <<connection, accepting, viewerClients, activeOperations, timers,
                 leaseReleased, ending, monitoring, wedged, cut>>

\* requestServiceStop: the lease calls it after leaseMu was given up, and
\* serviceControlHandler whenever it is told to.
LeaseStops ==
  /\ Alive /\ decided /\ ~stopAsked /\ stopAsked' = TRUE
  /\ UNCHANGED <<connection, accepting, lease, main, monitoring, wedged, cut>>

ControlStop ==
  /\ Alive /\ ~stopAsked /\ stopAsked' = TRUE
  /\ UNCHANGED <<connection, accepting, lease, main, monitoring, wedged, cut>>
-----------------------------------------------------------------------------
(***************************************************************************)
(* The reader of a connection, and close(), which anyone may come to first. *)
(***************************************************************************)

Goto(c, step) == at' = Set(at, c, step)

\* A hello has been decoded.  It sets greeted and role at once; the lease of a
\* viewer follows.  (The answer to it may have to wait, which is no different from waiting
\* for the next message.)
ReadHello(c) ==
  /\ Alive /\ at[c] = "read" /\ open[c] /\ peer[c] = "here" /\ role[c] = "none"
  /\ \/ /\ role' = Set(role, c, "viewer")
        /\ resuming' = Set(resuming, c, TRUE) /\ Goto(c, "lease")
     \/ /\ role' = Set(role, c, "maintenance") /\ UNCHANGED <<resuming, at>>
  /\ UNCHANGED <<peer, open, accepting, lease, ending, monitoring, wedged, cut>>

ReadCommand(c) ==
  /\ Alive /\ at[c] = "read" /\ open[c] /\ peer[c] = "here" /\ role[c] # "none"
  /\ Goto(c, "begin")
  /\ UNCHANGED <<peer, open, role, resuming, accepting, lease, ending, monitoring, wedged, cut>>

TakeLease(c) ==
  /\ Alive /\ at[c] = "lease" /\ Goto(c, "begin")
  /\ ViewerHello
  /\ UNCHANGED <<peer, open, role, resuming, accepting, ending, monitoring, wedged, cut>>

Begin(c) ==
  /\ Alive /\ at[c] = "begin" /\ Goto(c, "work")
  /\ OperationStarted
  /\ UNCHANGED <<peer, open, role, resuming, accepting, ending, monitoring, wedged, cut>>

\* OnViewerHello, ApplyFromClient, StopMonitoring and the others, from the moment
\* they have opMu; rejectIfStopping looks at e.shuttingDown.
Work(c) ==
  /\ Alive /\ at[c] = "work" /\ ~wedged /\ Goto(c, "finish")
  /\ monitoring' \in IF main = "serving" THEN BOOLEAN ELSE {monitoring}
  /\ UNCHANGED <<peer, open, role, resuming, accepting, lease, ending, wedged, cut>>

\* An operation that starts the watcher has to report that its window for reading is
\* degraded, waits for a mutex it holds itself (PipelineDegraded), and keeps opMu.
Wedge(c) ==
  /\ at[c] = "work" /\ main = "serving" /\ ~wedged /\ wedged' = TRUE
  /\ UNCHANGED <<connection, accepting, lease, ending, monitoring, cut>>

\* A command is answered first: send returns when the queue takes the answer or the
\* connection is closed.
Finish(c) ==
  /\ Alive /\ at[c] = "finish" /\ Goto(c, "read")
  /\ OperationFinished /\ resuming' = Set(resuming, c, FALSE)
  /\ UNCHANGED <<peer, open, role, accepting, ending, monitoring, wedged, cut>>

Close(c) == open' = Set(open, c, FALSE) /\ ClientClosed(c)

\* Decode fails, or what came is a second hello, a command before the hello, or a
\* message of another version.  The client, which may connect again, finds out.
ReaderEnds(c) ==
  /\ Alive /\ at[c] = "read"
  /\ \/ open[c] /\ Close(c)
     \/ ~open[c] /\ UNCHANGED <<open, lease>>
  /\ Goto(c, "off") /\ peer' = Set(peer, c, "away")
  /\ role' = Set(role, c, "none")
  /\ UNCHANGED <<resuming, accepting, ending, monitoring, wedged, cut>>

\* Writing fails.  Nothing keeps a close out of the steps between the decoding of a
\* hello and the end of viewerHello: it gives back a lease that is still to be taken,
\* or another viewer's, or, where greeted and role are not to be seen yet by the
\* writer, none; and the lease is taken all the same.  (When Stop closes, the lease is
\* released and the counters no longer matter.)
WriterCloses(c) ==
  /\ Alive /\ open[c] /\ peer[c] = "gone" /\ at[c] # "off"
  /\ \/ at[c] # "lease" /\ Close(c) /\ UNCHANGED cut
     \/ /\ at[c] = "lease" /\ cut < MaxCut /\ cut' = cut + 1
        /\ open' = Set(open, c, FALSE)
        /\ ClientClosed(c) \/ UNCHANGED lease
  /\ UNCHANGED <<peer, at, role, resuming, accepting, ending, monitoring, wedged>>
-----------------------------------------------------------------------------
(***************************************************************************)
(* serviceMain, ServiceEngine.Shutdown and IPCServer.Stop.                 *)
(***************************************************************************)

\* shuttingDown is set, the lease is released, stop is closed and the connections
\* there are get closed.  (One after the other in the code: a connection whose turn
\* has not come does nothing that it could not have done before.)
Shutdown ==
  /\ main = "serving" /\ stopAsked /\ main' = "closing"
  /\ leaseReleased' = TRUE /\ startupTimer' = "nil" /\ orphanTimer' = "nil"
  /\ open' = [c \in Clients |-> FALSE]
  /\ LET given == Cardinality({c \in Clients : open[c] /\ role[c] = "viewer"})
     IN viewerClients' = IF viewerClients > given THEN viewerClients - given ELSE 0
  /\ UNCHANGED <<peer, at, role, resuming, accepting, activeOperations,
                 stopRequested, fired, decided, stopAsked, monitoring, wedged, cut>>

\* The accept loop is done or five seconds are over, and opMu is free:
\* stopMonitoringLocked.  Operations may still be waiting for opMu.
Cleanup ==
  /\ main = "closing" /\ ~wedged /\ main' = "ended" /\ monitoring' = FALSE
  /\ UNCHANGED <<connection, accepting, lease, stopAsked, wedged, cut>>

\* SERVICE_STOPPED: the process goes, whatever its goroutines are at.
Stopped ==
  /\ main = "ended" /\ main' = "stopped"
  /\ peer' = [c \in Clients |-> "away"] /\ at' = [c \in Clients |-> "off"]
  /\ open' = [c \in Clients |-> FALSE] /\ role' = [c \in Clients |-> "none"]
  /\ resuming' = [c \in Clients |-> FALSE]
  /\ acceptor' = "done" /\ incoming' = None
  /\ viewerClients' = 0 /\ activeOperations' = 0 /\ fired' = 0
  /\ UNCHANGED <<timers, stopRequested, leaseReleased, decided, stopAsked, monitoring,
                 wedged, cut>>
-----------------------------------------------------------------------------
Next ==
  \/ \E c \in Clients : \/ Connect(c) \/ Leave(c) \/ ReadHello(c) \/ ReadCommand(c)
                        \/ TakeLease(c) \/ Begin(c) \/ Work(c) \/ Wedge(c) \/ Finish(c)
                        \/ ReaderEnds(c) \/ WriterCloses(c)
  \/ AcceptEnds \/ Register
  \/ Fire \/ LeaseExpired \/ LeaseStops \/ ControlStop
  \/ Shutdown \/ Cleanup \/ Stopped

Spec == Init /\ [][Next]_vars

\* Goroutines run, timers fire, and a Go mutex lets in whoever waits for it (opMu is
\* given up again unless the service is wedged).  Nothing is assumed of a client: one
\* that is there may never read and never leave.  The server notices the end of its own
\* side of a connection, and that a client has gone when it reads or has an answer to
\* deliver.
Fairness ==
  /\ \A c \in Clients :
       /\ WF_vars(TakeLease(c) \/ Begin(c) \/ Work(c))
       /\ WF_vars((resuming[c] \/ ~open[c]) /\ Finish(c))
       /\ WF_vars((peer[c] = "gone" \/ ~open[c]) /\ ReaderEnds(c))
       /\ WF_vars(at[c] = "finish" /\ WriterCloses(c))
  /\ WF_vars(Register) /\ WF_vars(Fire) /\ WF_vars(LeaseExpired) /\ WF_vars(LeaseStops)
  /\ WF_vars(Shutdown) /\ WF_vars(Cleanup) /\ WF_vars(Stopped)

FairSpec == Spec /\ Fairness
-----------------------------------------------------------------------------
(***************************************************************************)
(* Properties.                                                             *)
(***************************************************************************)

\* The viewers whose lease is taken and not given back, and the connections an
\* operation is in flight for, told from where their goroutines are and never
\* from the counters.
Holders == {c \in Clients : role[c] = "viewer" /\ at[c] # "lease" /\ open[c]}
Busy == {c \in Clients : at[c] \in {"work", "finish"}}

\* Connections closed between hello and lease, whose lease is still going to be taken.
Early == {c \in Clients : at[c] = "lease" /\ ~open[c] /\ ~leaseReleased}

\* Until Stop has released the lease the counters tell the truth (viewerHello,
\* clientClosed, operationStarted, operationFinished), whoever closes a connection and
\* whatever its reader is doing: no lease is given back twice, for somebody else, or
\* never.  What the code leaves open is counted exactly: a connection closed between
\* its hello and its lease may have given back another's, but only until it takes its
\* own, and may leave one lease behind then; in operations nobody is wrong.
CountersAreTrue ==
  ~leaseReleased =>
    /\ Cardinality(Holders) <= viewerClients + Cardinality(Early)
    /\ viewerClients + Cardinality(Early) <= Cardinality(Holders) + cut
    /\ activeOperations = Cardinality(Busy)

\* The service lets itself go only while nothing is in flight and nobody holds it, or
\* while a connection is between an early close and its lease; it may be told to stop at
\* any time; and once it has ended nothing it was asked to do has switched monitoring
\* on again (leaseExpired, operationFinished, rejectIfStopping, Shutdown).
Promised == INSTANCE Session WITH
  holders <- Holders, early <- Early, busy <- Busy, lapsed <- decided,
  asked <- stopAsked, watching <- monitoring, ended <- (main = "stopped")
ImplementsSession == Promised!Spec

\* Nobody is there, for good.
Abandoned == <>[](\A c \in Clients : peer[c] # "here")

\* A service that is left alone for good stops, with two exceptions: it is wedged, or it
\* goes on counting a lease that nobody holds, and then a connection has been closed
\* between its hello and its lease.  The second is a killed viewer that strands the service,
\* which the comment on the lease rules out (ipc_windows.go:57-59).
AbandonedStops ==
  Abandoned => \/ <>(main = "stopped" \/ wedged)
               \/ <>[](cut > 0 /\ viewerClients > 0 /\ Holders = {})
=============================================================================
