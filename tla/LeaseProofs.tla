---------------------------- MODULE LeaseProofs ----------------------------
(***************************************************************************)
(* The lease, for any number of connections: its counters tell who holds   *)
(* the service and what is in flight, but for the connections closed       *)
(* between a hello and its lease, which are counted exactly; and each of   *)
(* its steps is a step that Session allows.                                *)
(***************************************************************************)
EXTENDS Lease, FiniteSetTheorems, TLAPS

LEMMA OneLessType == ASSUME NEW n \in Nat
                     PROVE  OneLess(n) \in Nat /\ (n > 0 => OneLess(n) = n - 1)
  BY DEF OneLess

\* The tuples that stand for several variables.
LEMMA LeaseUnchanged ==
  ASSUME UNCHANGED lease
  PROVE  UNCHANGED <<viewerClients, activeOperations, startupTimer, orphanTimer,
                     stopRequested, leaseReleased, fired, decided>>
  BY DEF lease, timers

LEMMA SetType == ASSUME NEW S, NEW f \in [Clients -> S], NEW c, NEW v \in S
                 PROVE  Set(f, c, v) \in [Clients -> S]
  BY DEF Set

(***************************************************************************)
(* Types: of the connections, and of everything else.                      *)
(***************************************************************************)

ConnectionType ==
  /\ peer \in [Clients -> {"away", "here", "gone"}]
  /\ at \in [Clients -> {"off", "read", "lease", "begin", "work", "finish"}]
  /\ open \in [Clients -> BOOLEAN] /\ resuming \in [Clients -> BOOLEAN]
  /\ role \in [Clients -> {"none", "viewer", "maintenance"}]

LeaseType ==
  /\ viewerClients \in Nat /\ activeOperations \in Nat
  /\ startupTimer \in {"nil", "armed", "fired"} /\ orphanTimer \in {"nil", "armed", "fired"}
  /\ stopRequested \in BOOLEAN /\ leaseReleased \in BOOLEAN
  /\ fired \in 0..MaxFired /\ decided \in BOOLEAN

ServerType ==
  /\ acceptor \in {"await", "register", "done"} /\ incoming \in Clients \cup {None}
  /\ stopAsked \in BOOLEAN /\ main \in {"serving", "closing", "ended", "stopped"}
  /\ monitoring \in BOOLEAN /\ wedged \in BOOLEAN /\ cut \in 0..MaxCut

LEMMA TypeParts == TypeOK <=> ConnectionType /\ LeaseType /\ ServerType
  BY DEF TypeOK, ConnectionType, LeaseType, ServerType

LEMMA TypeJoin == ASSUME ConnectionType', LeaseType', ServerType' PROVE TypeOK'
  BY DEF TypeOK, ConnectionType, LeaseType, ServerType

LEMMA TypeInit == Init => TypeOK
  <1> SUFFICES ASSUME Init PROVE ConnectionType /\ LeaseType /\ ServerType
    BY TypeParts
  <1>1. ConnectionType
    BY DEF Init, ConnectionType
  <1>2. LeaseType
    <2>1. fired \in 0..MaxFired
      BY MaxFiredAssumption DEF Init
    <2> QED BY <2>1 DEF Init, LeaseType
  <1>3. ServerType
    <2>1. cut \in 0..MaxCut
      BY MaxCutAssumption DEF Init
    <2> QED BY <2>1 DEF Init, ServerType
  <1> QED BY <1>1, <1>2, <1>3, TypeJoin

LEMMA LeaseTypeKept == ASSUME LeaseType, UNCHANGED lease PROVE LeaseType'
  BY LeaseUnchanged DEF LeaseType

LEMMA TypeConnect == ASSUME TypeOK, NEW c \in Clients, Connect(c) PROVE TypeOK'
  <1> USE TypeParts
  <1>1. ConnectionType'
    BY SetType DEF ConnectionType, Connect
  <1>2. LeaseType'
    BY LeaseTypeKept DEF Connect
  <1>3. ServerType'
    BY DEF ServerType, Connect, ending
  <1> QED BY <1>1, <1>2, <1>3, TypeJoin

LEMMA TypeLeave == ASSUME TypeOK, NEW c \in Clients, Leave(c) PROVE TypeOK'
  <1> USE TypeParts
  <1>1. ConnectionType'
    BY SetType DEF ConnectionType, Leave
  <1>2. LeaseType'
    BY LeaseTypeKept DEF Leave
  <1>3. ServerType'
    BY DEF ServerType, Leave, accepting, ending
  <1> QED BY <1>1, <1>2, <1>3, TypeJoin

LEMMA TypeAcceptEnds == ASSUME TypeOK, AcceptEnds PROVE TypeOK'
  <1> USE TypeParts
  <1>1. ConnectionType'
    BY DEF ConnectionType, AcceptEnds, connection
  <1>2. LeaseType'
    BY LeaseTypeKept DEF AcceptEnds
  <1>3. ServerType'
    BY DEF ServerType, AcceptEnds, ending
  <1> QED BY <1>1, <1>2, <1>3, TypeJoin

LEMMA TypeRegister == ASSUME TypeOK, Register PROVE TypeOK'
  <1> USE TypeParts
  <1>1. ConnectionType'
    BY SetType DEF ConnectionType, Register
  <1>2. LeaseType'
    BY LeaseTypeKept DEF Register
  <1>3. ServerType'
    BY DEF ServerType, Register, ending
  <1> QED BY <1>1, <1>2, <1>3, TypeJoin

LEMMA TypeFire == ASSUME TypeOK, Fire PROVE TypeOK'
  <1> USE TypeParts
  <1>1. ConnectionType'
    BY DEF ConnectionType, Fire, connection
  <1>2. LeaseType'
    BY MaxFiredAssumption DEF LeaseType, Fire
  <1>3. ServerType'
    BY DEF ServerType, Fire, accepting, ending
  <1> QED BY <1>1, <1>2, <1>3, TypeJoin

LEMMA TypeExpired == ASSUME TypeOK, LeaseExpired PROVE TypeOK'
  <1> USE TypeParts
  <1>1. ConnectionType'
    BY DEF ConnectionType, LeaseExpired, connection
  <1>2. LeaseType'
    <2>1. fired' \in 0..MaxFired
      BY MaxFiredAssumption DEF LeaseType, LeaseExpired
    <2>2. stopRequested' \in BOOLEAN /\ decided' \in BOOLEAN
      BY DEF LeaseType, LeaseExpired
    <2>3. UNCHANGED <<viewerClients, activeOperations, timers, leaseReleased>>
      BY DEF LeaseExpired
    <2> QED BY <2>1, <2>2, <2>3 DEF LeaseType, timers
  <1>3. ServerType'
    BY DEF ServerType, LeaseExpired, accepting, ending
  <1> QED BY <1>1, <1>2, <1>3, TypeJoin

LEMMA TypeLeaseStops == ASSUME TypeOK, LeaseStops PROVE TypeOK'
  <1> USE TypeParts
  <1>1. ConnectionType'
    BY DEF ConnectionType, LeaseStops, connection
  <1>2. LeaseType'
    BY LeaseTypeKept DEF LeaseStops
  <1>3. ServerType'
    BY DEF ServerType, LeaseStops, accepting
  <1> QED BY <1>1, <1>2, <1>3, TypeJoin

LEMMA TypeControlStop == ASSUME TypeOK, ControlStop PROVE TypeOK'
  <1> USE TypeParts
  <1>1. ConnectionType'
    BY DEF ConnectionType, ControlStop, connection
  <1>2. LeaseType'
    BY LeaseTypeKept DEF ControlStop
  <1>3. ServerType'
    BY DEF ServerType, ControlStop, accepting
  <1> QED BY <1>1, <1>2, <1>3, TypeJoin

LEMMA TypeReadHello == ASSUME TypeOK, NEW c \in Clients, ReadHello(c) PROVE TypeOK'
  <1> USE TypeParts
  <1>1. ConnectionType'
    <2>1. /\ role' = Set(role, c, "viewer") \/ role' = Set(role, c, "maintenance")
          /\ resuming' = resuming \/ resuming' = Set(resuming, c, TRUE)
          /\ at' = at \/ at' = Set(at, c, "lease")
          /\ UNCHANGED <<peer, open>>
      BY DEF ReadHello, Goto
    <2>2. /\ at' \in [Clients -> {"off", "read", "lease", "begin", "work", "finish"}]
          /\ role' \in [Clients -> {"none", "viewer", "maintenance"}]
      BY <2>1 DEF ConnectionType, Set
    <2>3. resuming' \in [Clients -> BOOLEAN]
      BY <2>1 DEF ConnectionType, Set
    <2> QED BY <2>1, <2>2, <2>3 DEF ConnectionType
  <1>2. LeaseType'
    BY LeaseTypeKept DEF ReadHello
  <1>3. ServerType'
    BY DEF ServerType, ReadHello, accepting, ending
  <1> QED BY <1>1, <1>2, <1>3, TypeJoin

LEMMA TypeReadCommand == ASSUME TypeOK, NEW c \in Clients, ReadCommand(c) PROVE TypeOK'
  <1> USE TypeParts
  <1>1. ConnectionType'
    BY SetType DEF ConnectionType, ReadCommand, Goto
  <1>2. LeaseType'
    BY LeaseTypeKept DEF ReadCommand
  <1>3. ServerType'
    BY DEF ServerType, ReadCommand, accepting, ending
  <1> QED BY <1>1, <1>2, <1>3, TypeJoin

LEMMA TypeTakeLease == ASSUME TypeOK, NEW c \in Clients, TakeLease(c) PROVE TypeOK'
  <1> USE TypeParts
  <1>1. ConnectionType'
    BY SetType DEF ConnectionType, TakeLease, Goto
  <1>2. LeaseType'
    BY DEF LeaseType, TakeLease, ViewerHello
  <1>3. ServerType'
    BY DEF ServerType, TakeLease, accepting, ending
  <1> QED BY <1>1, <1>2, <1>3, TypeJoin

LEMMA TypeBegin == ASSUME TypeOK, NEW c \in Clients, Begin(c) PROVE TypeOK'
  <1> USE TypeParts
  <1>1. ConnectionType'
    BY SetType DEF ConnectionType, Begin, Goto
  <1>2. LeaseType'
    BY DEF LeaseType, Begin, OperationStarted, timers
  <1>3. ServerType'
    BY DEF ServerType, Begin, accepting, ending
  <1> QED BY <1>1, <1>2, <1>3, TypeJoin

LEMMA TypeWork == ASSUME TypeOK, NEW c \in Clients, Work(c) PROVE TypeOK'
  <1> USE TypeParts
  <1>1. ConnectionType'
    BY SetType DEF ConnectionType, Work, Goto
  <1>2. LeaseType'
    BY LeaseTypeKept DEF Work
  <1>3. ServerType'
    BY DEF ServerType, Work, accepting, ending
  <1> QED BY <1>1, <1>2, <1>3, TypeJoin

LEMMA TypeWedge == ASSUME TypeOK, NEW c \in Clients, Wedge(c) PROVE TypeOK'
  <1> USE TypeParts
  <1>1. ConnectionType'
    BY DEF ConnectionType, Wedge, connection
  <1>2. LeaseType'
    BY LeaseTypeKept DEF Wedge
  <1>3. ServerType'
    BY DEF ServerType, Wedge, accepting, ending
  <1> QED BY <1>1, <1>2, <1>3, TypeJoin

LEMMA TypeFinish == ASSUME TypeOK, NEW c \in Clients, Finish(c) PROVE TypeOK'
  <1> USE TypeParts
  <1>1. ConnectionType'
    BY SetType DEF ConnectionType, Finish, Goto
  <1>2. LeaseType'
    BY OneLessType DEF LeaseType, Finish, OperationFinished, timers
  <1>3. ServerType'
    BY DEF ServerType, Finish, accepting, ending
  <1> QED BY <1>1, <1>2, <1>3, TypeJoin

LEMMA TypeClosed == ASSUME LeaseType, NEW c \in Clients, ClientClosed(c) PROVE LeaseType'
  BY OneLessType, LeaseTypeKept DEF LeaseType, ClientClosed

LEMMA TypeReaderEnds == ASSUME TypeOK, NEW c \in Clients, ReaderEnds(c) PROVE TypeOK'
  <1> USE TypeParts
  <1>1. ConnectionType'
    <2>1. open' = open \/ open' = Set(open, c, FALSE)
      BY DEF ReaderEnds, Close
    <2>2. /\ at' = Set(at, c, "off") /\ peer' = Set(peer, c, "away")
          /\ role' = Set(role, c, "none") /\ resuming' = resuming
      BY DEF ReaderEnds, Goto
    <2>3. open' \in [Clients -> BOOLEAN]
      BY <2>1 DEF ConnectionType, Set
    <2> QED BY <2>2, <2>3, SetType DEF ConnectionType
  <1>2. LeaseType'
    BY TypeClosed, LeaseTypeKept DEF ReaderEnds, Close
  <1>3. ServerType'
    BY DEF ServerType, ReaderEnds, accepting, ending
  <1> QED BY <1>1, <1>2, <1>3, TypeJoin

LEMMA TypeWriterCloses == ASSUME TypeOK, NEW c \in Clients, WriterCloses(c) PROVE TypeOK'
  <1> USE TypeParts
  <1>1. ConnectionType'
    <2>1. open' = Set(open, c, FALSE) /\ UNCHANGED <<peer, at, role, resuming>>
      BY DEF WriterCloses, Close
    <2>2. open' \in [Clients -> BOOLEAN]
      BY <2>1 DEF ConnectionType, Set
    <2> QED BY <2>1, <2>2 DEF ConnectionType
  <1>2. LeaseType'
    BY TypeClosed, LeaseTypeKept DEF WriterCloses, Close
  <1>3. ServerType'
    <2>3. cut' = cut \/ (cut < MaxCut /\ cut' = cut + 1)
      BY DEF WriterCloses
    <2>4. cut \in 0..MaxCut
      BY DEF ServerType
    <2>1. cut' \in 0..MaxCut
      BY <2>3, <2>4, MaxCutAssumption
    <2>2. UNCHANGED <<accepting, ending, monitoring, wedged>>
      BY DEF WriterCloses
    <2> QED BY <2>1, <2>2 DEF ServerType, accepting, ending
  <1> QED BY <1>1, <1>2, <1>3, TypeJoin

LEMMA TypeCleanup == ASSUME TypeOK, Cleanup PROVE TypeOK'
  <1> USE TypeParts
  <1>1. ConnectionType'
    BY DEF ConnectionType, Cleanup, connection
  <1>2. LeaseType'
    BY LeaseTypeKept DEF Cleanup
  <1>3. ServerType'
    BY DEF ServerType, Cleanup, accepting
  <1> QED BY <1>1, <1>2, <1>3, TypeJoin

LEMMA TypeStopped == ASSUME TypeOK, Stopped PROVE TypeOK'
  <1> USE TypeParts
  <1>1. ConnectionType'
    BY DEF ConnectionType, Stopped
  <1>2. LeaseType'
    BY MaxFiredAssumption DEF LeaseType, Stopped, timers
  <1>3. ServerType'
    BY DEF ServerType, Stopped
  <1> QED BY <1>1, <1>2, <1>3, TypeJoin

LEMMA TypeShutdown == ASSUME TypeOK, Shutdown PROVE TypeOK'
  <1> USE TypeParts
  <1>1. ConnectionType'
    BY DEF ConnectionType, Shutdown
  <1>2. LeaseType'
    <2> DEFINE Given == Cardinality({c \in Clients : open[c] /\ role[c] = "viewer"})
    <2>1. Given \in Nat
      BY ClientsAssumption, FS_Subset, FS_CardinalityType
    <2>2. /\ viewerClients' = IF viewerClients > Given THEN viewerClients - Given ELSE 0
          /\ leaseReleased' = TRUE /\ startupTimer' = "nil" /\ orphanTimer' = "nil"
          /\ UNCHANGED <<activeOperations, stopRequested, fired, decided>>
      BY DEF Shutdown
    <2> HIDE DEF Given
    <2> QED BY <2>1, <2>2 DEF LeaseType
  <1>3. ServerType'
    BY DEF ServerType, Shutdown, accepting
  <1> QED BY <1>1, <1>2, <1>3, TypeJoin

LEMMA TypeStutter == ASSUME TypeOK, UNCHANGED vars PROVE TypeOK'
  <1> USE TypeParts
  <1>1. ConnectionType' /\ LeaseType'
    BY LeaseTypeKept DEF vars, ConnectionType, connection
  <1>2. ServerType'
    BY DEF vars, ServerType, accepting, ending
  <1> QED BY <1>1, <1>2, TypeJoin

LEMMA TypeNext == ASSUME TypeOK, [Next]_vars PROVE TypeOK'
  BY TypeConnect, TypeLeave, TypeAcceptEnds, TypeRegister, TypeFire, TypeExpired, TypeLeaseStops, TypeControlStop, TypeReadHello, TypeReadCommand, TypeTakeLease, TypeBegin, TypeWork, TypeWedge, TypeFinish, TypeReaderEnds, TypeWriterCloses, TypeCleanup, TypeStopped, TypeShutdown, TypeStutter DEF Next

\* The types of the lease's variables (ipc_windows.go), for any number of connections.
THEOREM TypeOKCorrect == Spec => []TypeOK
  BY TypeInit, TypeNext, PTL DEF Spec
-----------------------------------------------------------------------------
(***************************************************************************)
(* The counters.                                                           *)
(***************************************************************************)

\* What the place of a reader says of its connection.
Seated ==
  /\ \A c \in Clients : /\ peer[c] = "away" => at[c] = "off"
                        /\ at[c] = "off" => role[c] = "none" /\ ~open[c]
  /\ acceptor = "register" =>
       incoming \in Clients /\ at[incoming] = "off" /\ peer[incoming] # "away"

\* Only a viewer is on its way to a lease.
OnTheWay == \A c \in Clients : at[c] = "lease" => role[c] = "viewer"

\* Whoever was closed early has been counted.
CutsCounted == Cardinality(Early) <= cut

\* What has happened before the service is where it is.
Ending ==
  /\ main # "serving" => leaseReleased /\ stopAsked
  /\ main \in {"ended", "stopped"} => monitoring = FALSE

LeaseInv == Seated /\ OnTheWay /\ Ending /\ CutsCounted /\ CountersAreTrue

LEMMA SubsetsCount ==
  ASSUME NEW S \in SUBSET Clients
  PROVE  /\ IsFiniteSet(S) /\ Cardinality(S) \in Nat
         /\ Cardinality(S) = 0 <=> S = {}
         /\ \A c \in Clients \ S : Cardinality(S \cup {c}) = Cardinality(S) + 1
         /\ \A c \in S : Cardinality(S \ {c}) = Cardinality(S) - 1 /\ Cardinality(S) > 0
         /\ \A c \in Clients \ S : S \ {c} = S
  <1>1. IsFiniteSet(S) /\ Cardinality(S) \in Nat
    BY ClientsAssumption, FS_Subset, FS_CardinalityType
  <1>2. Cardinality(S) = 0 <=> S = {}
    BY <1>1, FS_EmptySet
  <1>3. \A c \in Clients \ S : Cardinality(S \cup {c}) = Cardinality(S) + 1
    BY <1>1, FS_AddElement
  <1>4. \A c \in S : Cardinality(S \ {c}) = Cardinality(S) - 1 /\ Cardinality(S) > 0
    <2> TAKE c \in S
    <2>1. Cardinality(S \ {c}) = Cardinality(S) - 1
      BY <1>1, FS_RemoveElement
    <2> QED BY <1>1, <1>2, <2>1
  <1>5. \A c \in Clients \ S : S \ {c} = S
    OBVIOUS
  <1> QED BY <1>1, <1>2, <1>3, <1>4, <1>5

LEMMA SetsType ==
  Holders \in SUBSET Clients /\ Busy \in SUBSET Clients /\ Early \in SUBSET Clients
  BY DEF Holders, Busy, Early

\* Their sizes, as the arithmetic below needs them.
LEMMA SizesType ==
  /\ Cardinality(Holders) \in Nat /\ Cardinality(Busy) \in Nat /\ Cardinality(Early) \in Nat
  BY SetsType, SubsetsCount

(***************************************************************************)
(* What each step does to those who hold the service, to those who were    *)
(* closed early and to what is in flight.                                  *)
(***************************************************************************)

SetsStay == Holders' = Holders /\ Busy' = Busy /\ Early' = Early

LEMMA SetsKept == ASSUME UNCHANGED <<at, open, role, leaseReleased>> PROVE SetsStay
  BY DEF SetsStay, Holders, Busy, Early

LEMMA SetsRegister == ASSUME TypeOK, Seated, Register PROVE SetsStay
  BY LeaseUnchanged DEF TypeOK, Seated, Register, Set, SetsStay, Holders, Busy, Early

LEMMA SetsReadHello == ASSUME TypeOK, NEW c \in Clients, ReadHello(c) PROVE SetsStay
  BY LeaseUnchanged DEF TypeOK, ReadHello, Goto, Set, SetsStay, Holders, Busy, Early

LEMMA SetsReadCommand == ASSUME TypeOK, NEW c \in Clients, ReadCommand(c) PROVE SetsStay
  BY LeaseUnchanged DEF TypeOK, ReadCommand, Goto, Set, SetsStay, Holders, Busy, Early

LEMMA SetsTakeLease ==
  ASSUME TypeOK, OnTheWay, NEW c \in Clients, TakeLease(c)
  PROVE  /\ c \notin Holders /\ Busy' = Busy /\ Early' = Early \ {c}
         /\ Holders' = IF open[c] THEN Holders \cup {c} ELSE Holders
         /\ ~leaseReleased => (c \in Early <=> ~open[c])
  BY DEF TypeOK, OnTheWay, TakeLease, ViewerHello, Goto, Set, Holders, Busy, Early

LEMMA SetsBegin ==
  ASSUME TypeOK, NEW c \in Clients, Begin(c)
  PROVE  c \notin Busy /\ Holders' = Holders /\ Busy' = Busy \cup {c} /\ Early' = Early
  BY DEF TypeOK, Begin, OperationStarted, Goto, Set, Holders, Busy, Early

LEMMA SetsWork == ASSUME TypeOK, NEW c \in Clients, Work(c) PROVE SetsStay
  BY LeaseUnchanged DEF TypeOK, Work, Goto, Set, SetsStay, Holders, Busy, Early

LEMMA SetsFinish ==
  ASSUME TypeOK, NEW c \in Clients, Finish(c)
  PROVE  c \in Busy /\ Holders' = Holders /\ Busy' = Busy \ {c} /\ Early' = Early
  BY DEF TypeOK, Finish, OperationFinished, Goto, Set, Holders, Busy, Early

LEMMA ClosedKeeps == ASSUME NEW c, ClientClosed(c) \/ UNCHANGED lease
                     PROVE  UNCHANGED <<activeOperations, stopRequested, leaseReleased,
                                        decided>>
  BY LeaseUnchanged DEF ClientClosed

LEMMA SetsReaderEnds ==
  ASSUME TypeOK, NEW c \in Clients, ReaderEnds(c)
  PROVE  Holders' = Holders \ {c} /\ Busy' = Busy /\ Early' = Early
  <1>1. leaseReleased' = leaseReleased
    BY ClosedKeeps DEF ReaderEnds, Close
  <1> QED BY <1>1 DEF TypeOK, ReaderEnds, Close, Goto, Set, Holders, Busy, Early

LEMMA SetsWriterCloses ==
  ASSUME TypeOK, NEW c \in Clients, WriterCloses(c)
  PROVE  /\ Holders' = Holders \ {c} /\ Busy' = Busy
         /\ at[c] # "lease" => Early' = Early
         /\ at[c] = "lease" =>
              c \notin Early /\ Early' = IF leaseReleased THEN Early ELSE Early \cup {c}
  <1>1. leaseReleased' = leaseReleased
    BY ClosedKeeps DEF WriterCloses, Close
  <1> QED BY <1>1 DEF TypeOK, WriterCloses, Close, Set, Holders, Busy, Early

LEMMA SetsShutdown ==
  ASSUME Shutdown PROVE Holders' = {} /\ Busy' = Busy /\ Early' = {}
  BY DEF Shutdown, Holders, Busy, Early

LEMMA SetsStopped == ASSUME Stopped PROVE Holders' = {} /\ Busy' = {} /\ Early' = {}
  BY DEF Stopped, Holders, Busy, Early
-----------------------------------------------------------------------------
(***************************************************************************)
(* The invariant, action by action.                                        *)
(***************************************************************************)

LEMMA InvInit == Init => LeaseInv
  <1> SUFFICES ASSUME Init PROVE LeaseInv
    OBVIOUS
  <1>1. Holders = {} /\ Busy = {} /\ Early = {}
    BY DEF Init, Holders, Busy, Early
  <1>2. CountersAreTrue /\ CutsCounted
    BY <1>1, FS_EmptySet DEF Init, CountersAreTrue, CutsCounted
  <1>3. Seated /\ OnTheWay /\ Ending
    BY DEF Init, Seated, OnTheWay, Ending
  <1> QED BY <1>2, <1>3 DEF LeaseInv

\* Counters and sets both stay as they are.
LEMMA CountersKept ==
  ASSUME CountersAreTrue, CutsCounted, SetsStay,
         UNCHANGED <<viewerClients, activeOperations, leaseReleased, cut>>
  PROVE  CountersAreTrue' /\ CutsCounted'
  BY DEF CountersAreTrue, CutsCounted, SetsStay

LEMMA InvConnect == ASSUME TypeOK, LeaseInv, NEW c \in Clients, Connect(c) PROVE LeaseInv'
  <1> USE DEF LeaseInv
  <1>1. Seated' /\ OnTheWay'
    BY DEF TypeOK, Connect, Set, Seated, OnTheWay
  <1>2. Ending' /\ CountersAreTrue' /\ CutsCounted'
    BY LeaseUnchanged, SetsKept, CountersKept DEF Connect, Ending, ending
  <1> QED BY <1>1, <1>2

LEMMA InvLeave == ASSUME TypeOK, LeaseInv, NEW c \in Clients, Leave(c) PROVE LeaseInv'
  <1> USE DEF LeaseInv
  <1>1. Seated' /\ OnTheWay'
    BY DEF TypeOK, Leave, Set, Seated, OnTheWay, accepting
  <1>2. Ending' /\ CountersAreTrue' /\ CutsCounted'
    BY LeaseUnchanged, SetsKept, CountersKept DEF Leave, Ending, ending
  <1> QED BY <1>1, <1>2

LEMMA InvAcceptEnds == ASSUME LeaseInv, AcceptEnds PROVE LeaseInv'
  <1> USE DEF LeaseInv
  <1>1. Seated' /\ OnTheWay'
    BY DEF AcceptEnds, Seated, OnTheWay, connection
  <1>2. Ending' /\ CountersAreTrue' /\ CutsCounted'
    BY LeaseUnchanged, SetsKept, CountersKept DEF AcceptEnds, Ending, ending, connection
  <1> QED BY <1>1, <1>2

LEMMA InvRegister == ASSUME TypeOK, LeaseInv, Register PROVE LeaseInv'
  <1> USE DEF LeaseInv
  <1>1. Seated' /\ OnTheWay'
    BY DEF TypeOK, Register, Set, Seated, OnTheWay
  <1>2. Ending' /\ CountersAreTrue' /\ CutsCounted'
    BY LeaseUnchanged, SetsRegister, CountersKept DEF Register, Ending, ending
  <1> QED BY <1>1, <1>2

\* Timers, what they and the control handler ask for, and an operation that hangs.
LEMMA InvTimers ==
  ASSUME LeaseInv,
         \/ Fire \/ LeaseExpired \/ LeaseStops \/ ControlStop
         \/ \E c \in Clients : Wedge(c)
  PROVE  LeaseInv'
  <1>1. /\ UNCHANGED <<connection, accepting, main, monitoring, cut>>
        /\ UNCHANGED <<viewerClients, activeOperations, leaseReleased>>
        /\ stopAsked => stopAsked'
    BY LeaseUnchanged DEF Fire, LeaseExpired, LeaseStops, ControlStop, Wedge, ending
  <1>2. Seated' /\ OnTheWay'
    BY <1>1 DEF LeaseInv, Seated, OnTheWay, connection, accepting
  <1>3. Ending'
    BY <1>1 DEF LeaseInv, Ending
  <1>4. CountersAreTrue' /\ CutsCounted'
    BY <1>1, SetsKept, CountersKept DEF LeaseInv, connection
  <1> QED BY <1>2, <1>3, <1>4 DEF LeaseInv

LEMMA InvReadHello == ASSUME TypeOK, LeaseInv, NEW c \in Clients, ReadHello(c) PROVE LeaseInv'
  <1> USE DEF LeaseInv
  <1>1. Seated'
    BY DEF TypeOK, ReadHello, Goto, Set, Seated, accepting
  <1>2. OnTheWay'
    BY DEF TypeOK, ReadHello, Goto, Set, OnTheWay
  <1>3. Ending' /\ CountersAreTrue' /\ CutsCounted'
    BY LeaseUnchanged, SetsReadHello, CountersKept DEF ReadHello, Ending, ending
  <1> QED BY <1>1, <1>2, <1>3

LEMMA InvReadCommand ==
  ASSUME TypeOK, LeaseInv, NEW c \in Clients, ReadCommand(c) PROVE LeaseInv'
  <1> USE DEF LeaseInv
  <1>1. Seated' /\ OnTheWay'
    BY DEF TypeOK, ReadCommand, Goto, Set, Seated, OnTheWay, accepting
  <1>2. Ending' /\ CountersAreTrue' /\ CutsCounted'
    BY LeaseUnchanged, SetsReadCommand, CountersKept DEF ReadCommand, Ending, ending
  <1> QED BY <1>1, <1>2

\* The lease of a connection closed early is what its count has been waiting for.
LEMMA InvTakeLease == ASSUME TypeOK, LeaseInv, NEW c \in Clients, TakeLease(c) PROVE LeaseInv'
  <1> USE DEF LeaseInv
  <1>1. Seated' /\ OnTheWay'
    BY DEF TypeOK, TakeLease, Goto, Set, Seated, OnTheWay, accepting
  <1>2. Ending'
    BY DEF TakeLease, ViewerHello, Ending, ending
  <1>3. /\ viewerClients' = viewerClients + 1
        /\ UNCHANGED <<activeOperations, leaseReleased, cut>>
    BY DEF TakeLease, ViewerHello
  <1>4. viewerClients \in Nat /\ cut \in Nat
    BY MaxCutAssumption DEF TypeOK
  <1>5. CASE leaseReleased
    <2>1. Early = {}
      BY <1>5 DEF Early
    <2>2. Early' = Early
      BY <2>1, SetsTakeLease
    <2> QED BY <1>1, <1>2, <1>3, <1>5, <2>2 DEF CutsCounted, CountersAreTrue
  <1>6. CASE ~leaseReleased /\ open[c]
    <2>2. c \notin Early /\ Early' = Early \ {c} /\ c \notin Holders /\ Busy' = Busy
          /\ Holders' = Holders \cup {c}
      BY <1>6, SetsTakeLease
    <2>1. /\ Cardinality(Holders') = Cardinality(Holders) + 1
          /\ Early' = Early /\ Busy' = Busy
      BY <2>2, SetsType, SubsetsCount
    <2> QED BY <1>1, <1>2, <1>3, <1>4, <2>1, SizesType DEF CutsCounted, CountersAreTrue
  <1>7. CASE ~leaseReleased /\ ~open[c]
    <2>1. /\ Cardinality(Early') = Cardinality(Early) - 1
          /\ Holders' = Holders /\ Busy' = Busy
      BY <1>7, SetsTakeLease, SetsType, SubsetsCount
    <2> QED BY <1>1, <1>2, <1>3, <1>4, <2>1, SizesType DEF CutsCounted, CountersAreTrue
  <1> QED BY <1>5, <1>6, <1>7

LEMMA InvBegin == ASSUME TypeOK, LeaseInv, NEW c \in Clients, Begin(c) PROVE LeaseInv'
  <1> USE DEF LeaseInv
  <1>1. Seated' /\ OnTheWay'
    BY DEF TypeOK, Begin, Goto, Set, Seated, OnTheWay, accepting
  <1>2. Ending'
    BY DEF Begin, OperationStarted, Ending, ending
  <1>3. CountersAreTrue' /\ CutsCounted'
    <2>1. /\ activeOperations' = activeOperations + 1
          /\ UNCHANGED <<viewerClients, leaseReleased, cut>>
      BY DEF Begin, OperationStarted
    <2>2. Cardinality(Busy') = Cardinality(Busy) + 1
      BY SetsBegin, SetsType, SubsetsCount
    <2> QED BY <2>1, <2>2, SetsBegin DEF CountersAreTrue, CutsCounted
  <1> QED BY <1>1, <1>2, <1>3

LEMMA InvWork == ASSUME TypeOK, LeaseInv, NEW c \in Clients, Work(c) PROVE LeaseInv'
  <1> USE DEF LeaseInv
  <1>1. Seated' /\ OnTheWay'
    BY DEF TypeOK, Work, Goto, Set, Seated, OnTheWay, accepting
  <1>2. Ending' /\ CountersAreTrue' /\ CutsCounted'
    BY LeaseUnchanged, SetsWork, CountersKept DEF Work, Ending, ending
  <1> QED BY <1>1, <1>2

LEMMA InvFinish == ASSUME TypeOK, LeaseInv, NEW c \in Clients, Finish(c) PROVE LeaseInv'
  <1> USE DEF LeaseInv
  <1>1. Seated' /\ OnTheWay'
    BY DEF TypeOK, Finish, Goto, Set, Seated, OnTheWay, accepting
  <1>2. Ending'
    BY DEF Finish, OperationFinished, Ending, ending
  <1>3. CountersAreTrue' /\ CutsCounted'
    <2>1. /\ activeOperations' = OneLess(activeOperations)
          /\ UNCHANGED <<viewerClients, leaseReleased, cut>>
      BY DEF Finish, OperationFinished
    <2>2. Cardinality(Busy') = Cardinality(Busy) - 1 /\ Cardinality(Busy) > 0
      BY SetsFinish, SetsType, SubsetsCount
    <2> QED BY <2>1, <2>2, SetsFinish DEF CountersAreTrue, CutsCounted, OneLess
  <1> QED BY <1>1, <1>2, <1>3

\* The lease of a connection that is closed is given back, once, if it is a viewer's
\* and not on its way; another's loss is one that is counted.
LEMMA CountersClose ==
  ASSUME TypeOK, CountersAreTrue, CutsCounted, NEW c \in Clients, ClientClosed(c),
         open[c], at[c] # "lease", cut' = cut,
         Holders' = Holders \ {c}, Busy' = Busy, Early' = Early
  PROVE  CountersAreTrue' /\ CutsCounted'
  <1>1. UNCHANGED <<activeOperations, leaseReleased>>
    BY ClosedKeeps
  <1>2. CASE role[c] = "viewer"
    <2>1. c \in Holders /\ viewerClients' = OneLess(viewerClients)
      BY <1>2 DEF Holders, ClientClosed
    <2>2. Cardinality(Holders') = Cardinality(Holders) - 1 /\ Cardinality(Holders) > 0
      BY <2>1, SetsType, SubsetsCount
    <2>3. viewerClients \in Nat /\ cut \in Nat
      BY MaxCutAssumption DEF TypeOK
    <2> QED BY <1>1, <2>1, <2>2, <2>3, SizesType DEF CountersAreTrue, CutsCounted, OneLess
  <1>3. CASE role[c] # "viewer"
    <2>1. c \notin Holders /\ viewerClients' = viewerClients
      BY <1>3, LeaseUnchanged DEF Holders, ClientClosed
    <2>2. Holders' = Holders
      BY <2>1
    <2> QED BY <1>1, <2>1, <2>2, CountersKept DEF SetsStay
  <1> QED BY <1>2, <1>3

LEMMA InvReaderEnds == ASSUME TypeOK, LeaseInv, NEW c \in Clients, ReaderEnds(c) PROVE LeaseInv'
  <1> USE DEF LeaseInv
  <1>1. leaseReleased' = leaseReleased /\ cut' = cut
    BY ClosedKeeps DEF ReaderEnds, Close
  <1>2. open' = open \/ open' = Set(open, c, FALSE)
    BY DEF ReaderEnds, Close
  <1>3. ~open'[c]
    BY DEF TypeOK, ReaderEnds, Close, Set
  <1>4. Seated'
    BY <1>2, <1>3 DEF TypeOK, ReaderEnds, Goto, Set, Seated, accepting
  <1>5. OnTheWay'
    BY DEF TypeOK, ReaderEnds, Goto, Set, OnTheWay
  <1>6. Ending'
    BY <1>1 DEF ReaderEnds, Ending, ending
  <1>7. CountersAreTrue' /\ CutsCounted'
    <2>1. CASE open[c] /\ Close(c)
      BY <1>1, <2>1, CountersClose, SetsReaderEnds DEF ReaderEnds, Close
    <2>2. CASE ~open[c] /\ UNCHANGED <<open, lease>>
      <3>1. c \notin Holders
        BY <2>2 DEF Holders
      <3>2. SetsStay
        BY <3>1, SetsReaderEnds DEF SetsStay
      <3> QED BY <1>1, <2>2, <3>2, LeaseUnchanged, CountersKept
    <2> QED BY <2>1, <2>2 DEF ReaderEnds
  <1> QED BY <1>4, <1>5, <1>6, <1>7

LEMMA CutArithmetic ==
  ASSUME NEW h \in Nat, NEW e \in Nat, NEW v \in Nat, NEW w \in Nat, NEW n \in Nat,
         h <= v + e, v + e <= h + n, w <= v, v <= w + 1
  PROVE  h <= w + (e + 1) /\ w + (e + 1) <= h + (n + 1)
  OBVIOUS

\* A close between hello and lease: one more is early, and at most one lease is gone.
LEMMA CountersCut ==
  ASSUME TypeOK, CountersAreTrue, CutsCounted, NEW c \in Clients, at[c] = "lease",
         ClientClosed(c) \/ UNCHANGED lease, cut' = cut + 1, Busy' = Busy,
         Holders' = Holders \ {c}, c \notin Early,
         Early' = IF leaseReleased THEN Early ELSE Early \cup {c}
  PROVE  CountersAreTrue' /\ CutsCounted'
  <1>1. UNCHANGED <<activeOperations, leaseReleased>>
    BY ClosedKeeps
  <1>2. viewerClients' = viewerClients \/ viewerClients' = OneLess(viewerClients)
    BY LeaseUnchanged DEF ClientClosed
  <1>3. Holders' = Holders
    BY DEF Holders
  <1>4. /\ viewerClients \in Nat /\ cut \in Nat
        /\ viewerClients' \in Nat /\ viewerClients' <= viewerClients
        /\ viewerClients <= viewerClients' + 1
    <2>1. viewerClients \in Nat /\ cut \in Nat
      BY MaxCutAssumption DEF TypeOK
    <2>2. /\ OneLess(viewerClients) \in Nat /\ OneLess(viewerClients) <= viewerClients
          /\ viewerClients <= OneLess(viewerClients) + 1
      BY <2>1 DEF OneLess
    <2> QED BY <1>2, <2>1, <2>2
  <1>5. CASE leaseReleased
    BY <1>1, <1>4, <1>5, SizesType DEF CountersAreTrue, CutsCounted
  <1>6. CASE ~leaseReleased
    <2>1. Cardinality(Early') = Cardinality(Early) + 1
      BY <1>6, SetsType, SubsetsCount
    <2>2. Cardinality(Holders') = Cardinality(Holders) /\ Cardinality(Busy') = Cardinality(Busy)
      BY <1>3
    <2>3. /\ Cardinality(Holders) <= viewerClients + Cardinality(Early)
          /\ viewerClients + Cardinality(Early) <= Cardinality(Holders) + cut
          /\ activeOperations = Cardinality(Busy)
      BY <1>6 DEF CountersAreTrue
    <2>4. CutsCounted'
      BY <1>4, <2>1, SizesType DEF CutsCounted
    <2>5. /\ Cardinality(Holders') <= viewerClients' + Cardinality(Early')
          /\ viewerClients' + Cardinality(Early') <= Cardinality(Holders') + cut'
      BY <1>4, <2>1, <2>2, <2>3, SizesType, CutArithmetic
    <2>6. activeOperations' = Cardinality(Busy')
      BY <1>1, <2>2, <2>3
    <2> QED BY <2>4, <2>5, <2>6 DEF CountersAreTrue
  <1> QED BY <1>5, <1>6

LEMMA InvWriterCloses ==
  ASSUME TypeOK, LeaseInv, NEW c \in Clients, WriterCloses(c) PROVE LeaseInv'
  <1> USE DEF LeaseInv
  <1>1. leaseReleased' = leaseReleased
    BY ClosedKeeps DEF WriterCloses, Close
  <1>2. Seated'
    BY DEF TypeOK, WriterCloses, Close, Set, Seated, accepting
  <1>3. OnTheWay'
    BY DEF WriterCloses, OnTheWay
  <1>4. Ending'
    BY <1>1 DEF WriterCloses, Ending, ending
  <1>5. CASE at[c] # "lease"
    BY <1>2, <1>3, <1>4, <1>5, CountersClose, SetsWriterCloses DEF WriterCloses, Close
  <1>6. CASE at[c] = "lease"
    BY <1>2, <1>3, <1>4, <1>6, CountersCut, SetsWriterCloses DEF WriterCloses, Close
  <1> QED BY <1>5, <1>6

LEMMA InvEnd == ASSUME TypeOK, LeaseInv, Shutdown \/ Cleanup \/ Stopped PROVE LeaseInv'
  <1> USE DEF LeaseInv
  <1>1. CASE Shutdown \/ Stopped
    <2>4. cut \in Nat /\ cut' = cut
      BY <1>1, MaxCutAssumption DEF Shutdown, Stopped, TypeOK
    <2>5. Cardinality(Early') = 0
      BY <1>1, SetsShutdown, SetsStopped, FS_EmptySet
    <2>1. CutsCounted'
      BY <2>4, <2>5 DEF CutsCounted
    <2>2. leaseReleased'
      BY <1>1 DEF Shutdown, Stopped, Ending
    <2>3. Seated' /\ OnTheWay' /\ Ending'
      BY <1>1 DEF Shutdown, Stopped, Seated, OnTheWay, Ending, accepting
    <2> QED BY <2>1, <2>2, <2>3 DEF CountersAreTrue
  <1>2. CASE Cleanup
    <2>1. Seated' /\ OnTheWay'
      BY <1>2 DEF Cleanup, Seated, OnTheWay, connection, accepting
    <2>2. Ending' /\ CountersAreTrue' /\ CutsCounted'
      BY <1>2, LeaseUnchanged, SetsKept, CountersKept DEF Cleanup, Ending, connection
    <2> QED BY <2>1, <2>2
  <1> QED BY <1>1, <1>2

LEMMA InvStutter == ASSUME LeaseInv, UNCHANGED vars PROVE LeaseInv'
  <1>1. UNCHANGED <<peer, at, open, role, acceptor, incoming, main, stopAsked, monitoring>>
    BY DEF vars, connection, accepting, ending
  <1>2. UNCHANGED <<viewerClients, activeOperations, leaseReleased, cut>>
    BY LeaseUnchanged DEF vars
  <1> QED BY <1>1, <1>2, SetsKept, CountersKept DEF LeaseInv, Seated, OnTheWay, Ending

LEMMA InvNext == ASSUME TypeOK, LeaseInv, [Next]_vars PROVE LeaseInv'
  BY InvConnect, InvLeave, InvAcceptEnds, InvRegister, InvTimers, InvReadHello,
     InvReadCommand, InvTakeLease, InvBegin, InvWork, InvFinish, InvReaderEnds,
     InvWriterCloses, InvEnd, InvStutter DEF Next

\* What the proofs about the lease rest on holds of it (ipc_windows.go).
THEOREM LeaseCorrect == Spec => []LeaseInv
  BY InvInit, InvNext, TypeOKCorrect, PTL DEF Spec

\* Until the service is told to stop, the two counters of the lease say who holds it and
\* what is in flight, whoever closes a connection and whatever its reader is doing; a
\* connection closed between hello and lease may have one viewer overlooked until it has
\* its lease, and one counted for nothing from then on
\* (viewerHello, clientClosed, operationStarted, operationFinished).
THEOREM CountersAreTrueCorrect == Spec => []CountersAreTrue
  BY LeaseCorrect, PTL DEF LeaseInv
-----------------------------------------------------------------------------
(***************************************************************************)
(* What the lease does is what Session allows.                             *)
(***************************************************************************)

LEMMA PromisedInit == Init => Promised!Init
  BY DEF Init, Holders, Busy, Early, Promised!Init

LEMMA SeenKept ==
  ASSUME SetsStay, decided' = decided, stopAsked' = stopAsked,
         monitoring' = monitoring, (main = "stopped")' = (main = "stopped")
  PROVE  UNCHANGED Promised!vars
  BY DEF SetsStay, Promised!vars

LEMMA StepQuiet ==
  ASSUME TypeOK, LeaseInv,
         \/ AcceptEnds \/ Register \/ Fire
         \/ \E c \in Clients : \/ Connect(c) \/ Leave(c) \/ ReadHello(c) \/ ReadCommand(c)
                               \/ Wedge(c)
  PROVE  UNCHANGED Promised!vars
  <1>1. UNCHANGED <<decided, stopAsked, monitoring, main>>
    BY LeaseUnchanged DEF Connect, Leave, AcceptEnds, Register, Fire, ReadHello, ReadCommand,
                          Wedge, ending
  <1>2. SetsStay
    BY SetsKept, SetsRegister, SetsReadHello, SetsReadCommand, LeaseUnchanged
    DEF LeaseInv, Connect, Leave, AcceptEnds, Fire, Wedge, connection
  <1> QED BY <1>1, <1>2, SeenKept

LEMMA StepTakeLease ==
  ASSUME TypeOK, LeaseInv, NEW c \in Clients, TakeLease(c)
  PROVE  Promised!Next \/ UNCHANGED Promised!vars
  <1>1. UNCHANGED <<decided, stopAsked, monitoring, main>> /\ Busy' = Busy
    BY SetsTakeLease DEF LeaseInv, TakeLease, ViewerHello, ending
  <1>2. CASE open[c]
    <2>1. Holders' = Holders \cup {c} /\ Early' = Early
      BY <1>2, SetsTakeLease DEF LeaseInv, Early
    <2> QED BY <1>1, <2>1 DEF Promised!Next, Promised!Take
  <1>3. CASE ~open[c]
    <2>1. Holders' = Holders /\ Early' = Early \ {c}
      BY <1>3, SetsTakeLease DEF LeaseInv
    <2> QED BY <1>1, <2>1 DEF Promised!Next, Promised!TakeLate
  <1> QED BY <1>2, <1>3

LEMMA StepBegin == ASSUME TypeOK, NEW c \in Clients, Begin(c) PROVE Promised!Next
  <1>1. UNCHANGED <<decided, stopAsked, monitoring, main>>
    BY DEF Begin, OperationStarted, ending
  <1> QED BY <1>1, SetsBegin DEF Promised!Next, Promised!Enter

LEMMA StepWork == ASSUME TypeOK, NEW c \in Clients, Work(c) PROVE Promised!Next
  <1>1. UNCHANGED <<decided, stopAsked, main>> /\ main # "stopped"
    BY LeaseUnchanged DEF Work, Alive, ending
  <1>2. monitoring' \in BOOLEAN
    BY DEF TypeOK, Work
  <1> QED BY <1>1, <1>2, SetsWork DEF SetsStay, Promised!Next, Promised!Watch

\* What no viewers counted means: nobody holds the service, or somebody is early.
LEMMA NobodyCounted ==
  ASSUME LeaseInv, ~leaseReleased, viewerClients = 0
  PROVE  Holders = {} \/ Early # {}
  <1>1. Cardinality(Holders) <= Cardinality(Early)
    BY SizesType DEF LeaseInv, CountersAreTrue
  <1>2. Early = {} => Cardinality(Holders) = 0
    BY <1>1, SizesType, FS_EmptySet
  <1> QED BY <1>2, SetsType, SubsetsCount

\* Put off or not, the stop is only decided on when nobody is left.
LEMMA StepFinish ==
  ASSUME TypeOK, LeaseInv, NEW c \in Clients, Finish(c) PROVE Promised!Next
  <1>1. UNCHANGED <<stopAsked, monitoring, main>>
    BY DEF Finish, ending
  <1>2. Holders' = Holders /\ Busy' = Busy \ {c} /\ Early' = Early
    BY SetsFinish
  <1>3. ASSUME decided' # decided
        PROVE  decided' = TRUE /\ (Holders = {} \/ Early # {}) /\ Busy' = {}
    <2>1. /\ ~leaseReleased /\ viewerClients = 0 /\ activeOperations' = 0
          /\ decided' = TRUE /\ leaseReleased' = leaseReleased
      BY <1>3 DEF TypeOK, Finish, OperationFinished
    <2>2. CountersAreTrue'
      BY InvFinish DEF LeaseInv
    <2>3. activeOperations' = Cardinality(Busy')
      BY <2>1, <2>2 DEF CountersAreTrue
    <2>4. Busy' \in SUBSET Clients
      BY <1>2, SetsType
    <2> QED BY <2>1, <2>3, <2>4, SubsetsCount, NobodyCounted
  <1>4. Promised!Leave(c)
    <2>1. CASE decided' = decided
      BY <1>1, <1>2, <2>1 DEF Promised!Leave
    <2>2. CASE decided' # decided
      <3>1. Promised!Free
        BY <1>3, <2>2 DEF Promised!Free
      <3> QED BY <1>1, <1>2, <1>3, <2>2, <3>1 DEF Promised!Leave
    <2> QED BY <2>1, <2>2
  <1> QED BY <1>4 DEF Promised!Next

LEMMA StepExpired ==
  ASSUME TypeOK, LeaseInv, LeaseExpired PROVE Promised!Next \/ UNCHANGED Promised!vars
  <1>1. UNCHANGED <<stopAsked, monitoring, main>>
    BY DEF LeaseExpired, ending
  <1>2. SetsStay
    BY SetsKept DEF LeaseExpired, connection
  <1>3. CASE decided' = decided
    BY <1>1, <1>2, <1>3, SeenKept
  <1>4. CASE decided' # decided
    <2>1. ~leaseReleased /\ viewerClients = 0 /\ activeOperations = 0 /\ decided' = TRUE
      BY <1>4 DEF LeaseExpired
    <2>2. Busy = {}
      BY <2>1, SetsType, SubsetsCount DEF LeaseInv, CountersAreTrue
    <2>3. Promised!Free
      BY <1>2, <2>1, <2>2, NobodyCounted DEF SetsStay, Promised!Free
    <2> QED BY <1>1, <1>2, <2>1, <2>3 DEF SetsStay, Promised!Next, Promised!Lapse
  <1> QED BY <1>3, <1>4

LEMMA StepAsked == ASSUME LeaseStops \/ ControlStop PROVE Promised!Next
  <1>1. UNCHANGED <<decided, monitoring, main>> /\ stopAsked' = TRUE
    BY LeaseUnchanged DEF LeaseStops, ControlStop
  <1>2. SetsStay
    BY SetsKept, LeaseUnchanged DEF LeaseStops, ControlStop, connection
  <1> QED BY <1>1, <1>2 DEF SetsStay, Promised!Next, Promised!Ask

LEMMA StepClose ==
  ASSUME TypeOK, NEW c \in Clients, ReaderEnds(c) \/ WriterCloses(c) PROVE Promised!Next
  <1>1. UNCHANGED <<decided, stopAsked, monitoring, main>>
    BY ClosedKeeps DEF ReaderEnds, WriterCloses, Close, ending
  <1>2. Holders' = Holders \ {c} /\ Busy' = Busy
    BY SetsReaderEnds, SetsWriterCloses
  <1>3. CASE Early' = Early
    BY <1>1, <1>2, <1>3 DEF Promised!Next, Promised!Release
  <1>4. CASE Early' # Early
    <2>1. at[c] = "lease" /\ Early' = Early \cup {c}
      BY <1>4, SetsReaderEnds, SetsWriterCloses
    <2>2. c \notin Holders /\ Holders' = Holders
      BY <1>2, <2>1 DEF Holders
    <2> QED BY <1>1, <1>2, <2>1, <2>2 DEF Promised!Next, Promised!GoEarly
  <1> QED BY <1>3, <1>4

LEMMA StepEnd ==
  ASSUME TypeOK, LeaseInv, Shutdown \/ Cleanup \/ Stopped PROVE Promised!Next
  <1>1. CASE Shutdown
    <2>1. UNCHANGED <<decided, stopAsked, monitoring>> /\ stopAsked
      BY <1>1 DEF Shutdown
    <2>2. main # "stopped" /\ main' # "stopped"
      BY <1>1 DEF Shutdown
    <2> QED BY <1>1, <2>1, <2>2, SetsShutdown DEF Promised!Next, Promised!ReleaseAll
  <1>2. CASE Cleanup
    <2>1. UNCHANGED <<decided, stopAsked>> /\ monitoring' = FALSE
      BY <1>2, LeaseUnchanged DEF Cleanup
    <2>2. main # "stopped" /\ main' # "stopped" /\ SetsStay
      BY <1>2, SetsKept, LeaseUnchanged DEF Cleanup, connection
    <2> QED BY <2>1, <2>2 DEF SetsStay, Promised!Next, Promised!Watch
  <1>3. CASE Stopped
    <2>1. UNCHANGED <<decided, stopAsked, monitoring>> /\ main' = "stopped"
      BY <1>3 DEF Stopped
    <2>2. stopAsked /\ monitoring = FALSE
      BY <1>3 DEF Stopped, LeaseInv, Ending
    <2> QED BY <1>3, <2>1, <2>2, SetsStopped DEF Promised!Next, Promised!End
  <1> QED BY <1>1, <1>2, <1>3

LEMMA StepStutter == ASSUME UNCHANGED vars PROVE UNCHANGED Promised!vars
  <1>1. UNCHANGED <<at, open, role, leaseReleased, main, stopAsked, monitoring, decided>>
    BY LeaseUnchanged DEF vars, connection, ending
  <1> QED BY <1>1, SetsKept, SeenKept

LEMMA StepNext ==
  ASSUME TypeOK, LeaseInv, [Next]_vars PROVE [Promised!Next]_(Promised!vars)
  BY StepQuiet, StepTakeLease, StepBegin, StepWork, StepFinish, StepExpired, StepAsked,
     StepClose, StepEnd, StepStutter DEF Next

\* The service lets itself go only while nothing is in flight and nobody holds it, or
\* while a connection is between an early close and its lease, and has left nothing
\* running when it has ended: every behaviour of the lease is one of Session's, for any
\* number of connections (leaseExpired, operationFinished, rejectIfStopping, Shutdown).
THEOREM ImplementsSessionCorrect == Spec => ImplementsSession
  BY PromisedInit, StepNext, TypeOKCorrect, LeaseCorrect, PTL
  DEF Spec, ImplementsSession, Promised!Spec
=============================================================================
