--------------------------- MODULE PipelineProofs ---------------------------
(***************************************************************************)
(* No read is lost in silence but by the three ways Pipeline names, and    *)
(* nobody is blamed for another's, for queues of any size, any number of   *)
(* reads and of processes, and whenever the file fails.                    *)
(***************************************************************************)
EXTENDS Pipeline, SequenceTheorems, TLAPS

(***************************************************************************)
(* Who is where.                                                           *)
(***************************************************************************)

\* The mutex, the source and the worker go with the goroutine that starts and stops.
Phases ==
  /\ muHeld <=> control \in {"starting", "degraded", "started"}
  /\ listening <=> control \in {"started", "on", "stopping"}
  /\ control \in {"off", "starting", "degraded", "started"} => worker = "off"
  /\ control \in {"on", "stopping", "draining"} => worker = "run"
  /\ control \notin {"off", "waiting"} => ~stopClosed
  /\ control = "waiting" => stopClosed
  /\ worker = "off" => "worker" \notin reporting
  /\ forgotten => mechanism = "etw"

\* The worker has had all there was.
Over == worker = "last" \/ (worker = "off" /\ control # "started")

\* What is empty when.
Emptied ==
  /\ control \in {"off", "starting", "degraded", "waiting"} => raw = <<>> /\ parked = {}
  /\ Over => events = <<>> /\ lost \subseteq seen \cup silent
  /\ worker = "off" => buffered = {} /\ bufferedGaps = {}

\* A trace's counters are out of reach once it is forgotten, and so are silent.
Forgets == forgotten => lost \subseteq seen \cup silent

\* A parked read has not been counted.
Parked == parked \cap (lost \cup seen) = {}

\* Where a read is that has neither reached its end nor been lost.
Underway == ToSet(raw) \cup parked \cup ToSet(events) \cup (lost \ seen) \cup buffered \cup bufferedGaps
Ended == log \cup gaps \cup hidden \cup silent \cup 1..told

\* Every read is on its way or accounted for, unless an error is being reported, after
\* which all that has happened is.
Accounted == "worker" \in reporting \/ Happened \subseteq Underway \cup Ended

\* What a failed flush leaves in the buffer at the end has been reported before it goes.
Closing ==
  worker = "last" /\ "worker" \notin reporting =>
    (buffered = {} /\ bufferedGaps = {}) \/ told = Len(reads)

\* Who has the id is the youngest, and no reader is younger.
Youngest == proc \in {0, born} /\ \A r \in Happened : reads[r] <= born

PipelineInv ==
  /\ TypeOK /\ Phases /\ Emptied /\ Forgets /\ Parked /\ Accounted /\ Closing
  /\ Youngest /\ NobodyIsBlamed

(***************************************************************************)
(* Queues and what they hold.                                              *)
(***************************************************************************)

LEMMA AppendSet == ASSUME NEW S, NEW s \in Seq(S), NEW e \in S
                   PROVE  ToSet(Append(s, e)) = ToSet(s) \cup {e}
  <1>1. /\ DOMAIN s = 1..Len(s) /\ Len(s) \in Nat
        /\ DOMAIN Append(s, e) = 1..Len(s) + 1
        /\ \A j \in 1..Len(s) : Append(s, e)[j] = s[j]
        /\ Append(s, e)[Len(s) + 1] = e
    BY LenProperties, AppendProperties
  <1> QED BY <1>1 DEF ToSet

LEMMA TailSet == ASSUME NEW S, NEW s \in Seq(S), s # <<>>
                 PROVE  ToSet(s) = {Head(s)} \cup ToSet(Tail(s))
  <1>1. /\ DOMAIN s = 1..Len(s) /\ Len(s) \in Nat \ {0} /\ s[1] = Head(s)
        /\ Tail(s) \in Seq(S) /\ Len(Tail(s)) = Len(s) - 1
        /\ \A j \in 1..Len(Tail(s)) : Tail(s)[j] = s[j + 1]
    BY LenProperties, HeadTailProperties, EmptySeq
  <1>2. DOMAIN Tail(s) = 1..Len(s) - 1
    BY <1>1, LenProperties
  <1>3. \A j \in 1..Len(s) : j = 1 \/ (j - 1 \in 1..Len(s) - 1 /\ s[j] = Tail(s)[j - 1])
    BY <1>1
  <1>4. ToSet(s) \subseteq {Head(s)} \cup ToSet(Tail(s))
    <2> SUFFICES ASSUME NEW j \in 1..Len(s) PROVE s[j] \in {Head(s)} \cup ToSet(Tail(s))
      BY <1>1 DEF ToSet
    <2>1. CASE j = 1
      BY <1>1, <2>1
    <2>2. CASE j # 1
      BY <1>2, <1>3, <2>2 DEF ToSet
    <2> QED BY <2>1, <2>2
  <1>5. {Head(s)} \cup ToSet(Tail(s)) \subseteq ToSet(s)
    BY <1>1, <1>2 DEF ToSet
  <1> QED BY <1>4, <1>5

LEMMA EmptySet == ToSet(<<>>) = {}
  BY DEF ToSet

LEMMA SetIn == ASSUME NEW S, NEW s \in Seq(S) PROVE ToSet(s) \subseteq S
  BY LenProperties DEF ToSet

\* A read that is delivered is in the queue or lost in silence.
LEMMA DeliverIs ==
  ASSUME NEW S, events \in Seq(S), Len(events) <= EventsMax, silent \subseteq S,
         NEW r \in S, Deliver(r)
  PROVE  /\ events' \in Seq(S) /\ Len(events') <= EventsMax
         /\ silent' \subseteq S /\ silent \subseteq silent'
         /\ ToSet(events') \cup silent' = ToSet(events) \cup silent \cup {r}
         /\ ToSet(events) \subseteq ToSet(events')
  <1>1. CASE Len(events) < EventsMax /\ events' = Append(events, r) /\ UNCHANGED silent
    <2>1. Append(events, r) \in Seq(S) /\ Len(Append(events, r)) = Len(events) + 1
      BY AppendProperties
    <2>2. ToSet(Append(events, r)) = ToSet(events) \cup {r}
      BY AppendSet
    <2>3. Len(events) \in Nat
      BY LenProperties
    <2> QED BY <1>1, <2>1, <2>2, <2>3, CapacityAssumption
  <1>2. CASE silent' = silent \cup {r} /\ UNCHANGED events
    BY <1>2
  <1> QED BY <1>1, <1>2 DEF Deliver

LEMMA ReadsType == ASSUME TypeOK
                   PROVE  /\ Len(reads) \in Nat /\ reads \in [Happened -> 1..MaxProcs]
                          /\ told \in Nat /\ 1..told \subseteq Happened
                          /\ raw \in Seq(Happened) /\ events \in Seq(Happened)
  <1>1. reads \in Seq(1..MaxProcs) /\ told \in 0..Len(reads) /\ raw \in Seq(Happened) /\ events \in Seq(Happened)
    BY DEF TypeOK
  <1>2. Len(reads) \in Nat /\ reads \in [1..Len(reads) -> 1..MaxProcs]
    BY <1>1, LenProperties
  <1> QED BY <1>1, <1>2 DEF Happened

(***************************************************************************)
(* Types.                                                                  *)
(***************************************************************************)

\* TypeOK in two parts: the sequences, and the rest.
Sequenced ==
  /\ reads \in Seq(1..MaxProcs) /\ Len(reads) <= MaxReads
  /\ raw \in Seq(Happened) /\ Len(raw) <= RawMax
  /\ events \in Seq(Happened) /\ Len(events) <= EventsMax
  /\ named \in [Happened -> 0..MaxProcs]

Plain ==
  /\ proc \in 0..MaxProcs /\ born \in 1..MaxProcs
  /\ mechanism \in {"sacl", "etw"}
  /\ control \in {"off", "starting", "degraded", "started", "on", "stopping", "draining",
                  "waiting"}
  /\ muHeld \in BOOLEAN /\ listening \in BOOLEAN /\ forgotten \in BOOLEAN
  /\ worker \in {"off", "run", "drain", "last"} /\ reporting \subseteq {"control", "worker"}
  /\ stopClosed \in BOOLEAN /\ armed \in BOOLEAN /\ broken \in BOOLEAN

\* The sets of reads.
Sets ==
  /\ parked \subseteq Happened /\ lost \subseteq Happened /\ silent \subseteq Happened
  /\ seen \subseteq Happened /\ hidden \subseteq Happened
  /\ buffered \subseteq Happened /\ log \subseteq Happened
  /\ bufferedGaps \subseteq Happened /\ gaps \subseteq Happened /\ told \in 0..Len(reads)

LEMMA TypeParts == TypeOK <=> Sequenced /\ Plain /\ Sets
  BY DEF TypeOK, Sequenced, Plain, Sets

LEMMA TypeJoin == ASSUME Sequenced', Plain', Sets' PROVE TypeOK'
  BY DEF TypeOK, Sequenced, Plain, Sets

LEMMA SequencedSteady ==
  ASSUME Sequenced, UNCHANGED <<reads, raw, events, named>> PROVE Sequenced'
  BY DEF Sequenced, Happened

LEMMA TypeInit == Init => TypeOK
  <1> SUFFICES ASSUME Init PROVE Sequenced /\ Plain /\ Sets
    BY TypeParts
  <1>1. Len(reads) = 0 /\ reads \in Seq(1..MaxProcs) /\ Happened = {}
    BY EmptySeq DEF Init, Happened
  <1>2. raw \in Seq(Happened) /\ Len(raw) = 0 /\ events \in Seq(Happened) /\ Len(events) = 0
    BY EmptySeq DEF Init
  <1>3. named \in [{} -> 0..MaxProcs]
    BY SeqDef DEF Init
  <1>4. Sequenced
    BY <1>1, <1>2, <1>3, BoundsAssumption, CapacityAssumption DEF Sequenced
  <1>5. Plain
    <2>1. proc \in 0..MaxProcs /\ born \in 1..MaxProcs
      BY BoundsAssumption DEF Init
    <2> QED BY <2>1 DEF Init, Plain
  <1>6. Sets
    BY <1>1 DEF Init, Sets
  <1> QED BY <1>4, <1>5, <1>6

LEMMA TypeProcess == ASSUME TypeOK, Exit \/ Reuse PROVE TypeOK'
  <1> USE DEF Exit, Reuse, source, queue, writer, verdict
  <1>1. proc' \in 0..MaxProcs /\ born' \in 1..MaxProcs
    BY BoundsAssumption DEF TypeOK
  <1>2. Sequenced'
    BY TypeParts, SequencedSteady
  <1>3. Plain'
    BY <1>1, TypeParts DEF Plain
  <1>4. Sets'
    BY TypeParts DEF Sets, Happened
  <1> QED BY <1>2, <1>3, <1>4, TypeJoin

LEMMA TypeRead == ASSUME TypeOK, Youngest, Read PROVE TypeOK'
  <1>1. /\ Len(reads) \in Nat /\ proc \in 1..MaxProcs
        /\ reads' \in Seq(1..MaxProcs) /\ Len(reads') = Len(reads) + 1 /\ Len(reads') <= MaxReads
    <2>1. reads \in Seq(1..MaxProcs) /\ Len(reads) \in Nat /\ proc \in 1..MaxProcs
      BY ReadsType, BoundsAssumption DEF TypeOK, Read
    <2> QED BY <2>1, AppendProperties, BoundsAssumption DEF Read
  <1> DEFINE r == Len(reads')
  <1>2. /\ Happened = 1..Len(reads) /\ Happened' = 1..Len(reads) + 1
        /\ Happened \subseteq Happened' /\ r \in Happened' /\ r \in Nat
    BY <1>1 DEF Happened
  <1>3. /\ raw \in Seq(Happened') /\ Len(raw) <= RawMax
        /\ events \in Seq(Happened') /\ Len(events) <= EventsMax
    <2>1. /\ raw \in Seq(Happened) /\ Len(raw) <= RawMax
          /\ events \in Seq(Happened) /\ Len(events) <= EventsMax
      BY DEF TypeOK
    <2> QED BY <1>2, <2>1, SeqMonotonic
  <1>4. named' \in [Happened' -> 0..MaxProcs]
    <2>1. named \in [1..Len(reads) -> 0..MaxProcs]
      BY <1>2 DEF TypeOK
    <2>2. named \in Seq(0..MaxProcs)
      <3>1. [1..Len(reads) -> 0..MaxProcs] \in {[1..n -> 0..MaxProcs] : n \in Nat}
        BY <1>1
      <3> QED BY <2>1, <3>1, SeqDef
    <2>3. Len(named) = Len(reads)
      BY <1>1, <2>1, <2>2, LenProperties
    <2>4. 0 \in 0..MaxProcs /\ named' = Append(named, 0)
      BY BoundsAssumption DEF Read
    <2>5. named' \in Seq(0..MaxProcs) /\ Len(named') = Len(reads) + 1
      BY <2>2, <2>3, <2>4, AppendProperties
    <2> QED BY <1>2, <2>5, LenProperties
  <1>5. /\ raw' \in Seq(Happened') /\ Len(raw') <= RawMax
        /\ events' \in Seq(Happened') /\ Len(events') <= EventsMax
        /\ parked' \subseteq Happened' /\ lost' \subseteq Happened' /\ silent' \subseteq Happened'
    <2>1. silent \subseteq Happened' /\ parked \subseteq Happened' /\ lost \subseteq Happened'
      BY <1>2 DEF TypeOK
    <2>2. CASE Len(raw) < RawMax /\ raw' = Append(raw, r) /\ UNCHANGED <<parked, queue, lost>>
      <3>1. Append(raw, r) \in Seq(Happened') /\ Len(Append(raw, r)) = Len(raw) + 1 /\ Len(raw) \in Nat
        BY <1>2, <1>3, AppendProperties, LenProperties
      <3>2. UNCHANGED <<events, silent>>
        BY <2>2 DEF queue
      <3> QED BY <1>3, <2>1, <2>2, <3>1, <3>2, CapacityAssumption
    <2>3. CASE Deliver(r) /\ UNCHANGED <<raw, parked, lost>>
      <3>1. events' \in Seq(Happened') /\ Len(events') <= EventsMax /\ silent' \subseteq Happened'
        BY <1>2, <1>3, <2>1, <2>3, DeliverIs
      <3> QED BY <1>3, <2>1, <2>3, <3>1
    <2>4. CASE Counted(r) /\ UNCHANGED <<raw, parked>>
      BY <1>2, <1>3, <2>1, <2>4 DEF Counted
    <2>5. CASE lost' = lost \cup {r} /\ UNCHANGED <<raw, parked, queue>>
      BY <1>2, <1>3, <2>1, <2>5 DEF queue
    <2>6. CASE parked' = parked \cup {r} /\ UNCHANGED <<raw, queue, lost>>
      BY <1>2, <1>3, <2>1, <2>6 DEF queue
    <2> QED BY <2>2, <2>3, <2>4, <2>5, <2>6 DEF Read
  <1>6. UNCHANGED <<proc, born, control, muHeld, mechanism, listening, forgotten, worker, reporting,
                    stopClosed, armed, seen, buffered, log, bufferedGaps, gaps, broken, hidden, told>>
    BY DEF Read, writer
  <1>7. Sequenced'
    BY <1>1, <1>4, <1>5 DEF Sequenced
  <1>8. Plain'
    BY <1>6, TypeParts DEF Plain
  <1>9. Sets'
    BY <1>1, <1>2, <1>5, <1>6, TypeParts DEF Sets
  <1> QED BY <1>7, <1>8, <1>9, TypeJoin

LEMMA TypeQueue == ASSUME TypeOK, Parse \/ \E r \in Happened : Sweep(r) PROVE TypeOK'
  <1>1. UNCHANGED <<reads, proc, born, control, muHeld, mechanism, listening, forgotten, worker,
                    reporting, stopClosed, armed, seen, buffered, log, bufferedGaps, gaps, broken,
                    hidden, named, told>>
    BY DEF Parse, Sweep, writer, verdict
  <1>2. /\ raw \in Seq(Happened) /\ Len(raw) <= RawMax
        /\ events \in Seq(Happened) /\ Len(events) <= EventsMax
        /\ parked \subseteq Happened /\ lost \subseteq Happened /\ silent \subseteq Happened
    BY DEF TypeOK
  <1>3. /\ raw' \in Seq(Happened) /\ Len(raw') <= RawMax
        /\ events' \in Seq(Happened) /\ Len(events') <= EventsMax
        /\ parked' \subseteq Happened /\ lost' \subseteq Happened /\ silent' \subseteq Happened
    <2>1. CASE Parse
      <3>1. raw # <<>> /\ Deliver(Head(raw)) /\ raw' = Tail(raw) /\ UNCHANGED <<parked, lost>>
        BY <2>1 DEF Parse
      <3>2. Head(raw) \in Happened /\ Tail(raw) \in Seq(Happened) /\ Len(Tail(raw)) = Len(raw) - 1
        BY <1>2, <3>1, HeadTailProperties
      <3>3. events' \in Seq(Happened) /\ Len(events') <= EventsMax /\ silent' \subseteq Happened
        BY <1>2, <3>1, <3>2, DeliverIs
      <3>4. Len(raw) \in Nat
        BY <1>2, LenProperties
      <3> QED BY <1>2, <3>1, <3>2, <3>3, <3>4, CapacityAssumption
    <2>2. CASE \E r \in Happened : Sweep(r)
      <3>1. PICK r \in Happened : Sweep(r)
        BY <2>2
      <3>2. CASE Deliver(r)
        BY <1>2, <3>1, <3>2, DeliverIs DEF Sweep, Counted
      <3>3. CASE Counted(r)
        BY <1>2, <3>1, <3>3 DEF Sweep, Counted
      <3> QED BY <3>1, <3>2, <3>3 DEF Sweep
    <2> QED BY <2>1, <2>2
  <1>4. Sequenced'
    BY <1>1, <1>3, TypeParts DEF Sequenced, Happened
  <1>5. Plain'
    BY <1>1, TypeParts DEF Plain
  <1>6. Sets'
    BY <1>1, <1>3, TypeParts DEF Sets, Happened
  <1> QED BY <1>4, <1>5, <1>6, TypeJoin

LEMMA TypeControl == ASSUME TypeOK, Starting \/ Stopping PROVE TypeOK'
  <1> USE DEF Starting, Stopping, source, queue, writer, verdict
  <1>1. UNCHANGED <<reads, proc, born, named>> /\ Happened' = Happened
    BY DEF Start, StartSource, Started, Stop, SourceCloses, SourceStopped, Stopped, Happened
  <1>2. raw' \in {raw, <<>>} /\ events' \in {events, <<>>}
    BY DEF Start, StartSource, Started, Stop, SourceCloses, SourceStopped, Stopped
  <1>3. Sequenced'
    <2>1. <<>> \in Seq(Happened) /\ Len(<<>>) = 0
      BY EmptySeq
    <2>2. Sequenced /\ 0 <= RawMax /\ 0 <= EventsMax
      BY TypeParts, CapacityAssumption
    <2>3. raw' \in Seq(Happened) /\ Len(raw') <= RawMax
      BY <1>2, <2>1, <2>2 DEF Sequenced
    <2>4. events' \in Seq(Happened) /\ Len(events') <= EventsMax
      BY <1>2, <2>1, <2>2 DEF Sequenced
    <2> QED BY <1>1, <2>2, <2>3, <2>4 DEF Sequenced
  <1>4. Plain'
    <2>1. /\ Plain /\ armed' = armed
          /\ mechanism' \in {mechanism, "sacl", "etw"} /\ reporting' \in {reporting, {"control"}}
          /\ worker' \in {worker, "run"} /\ broken' \in {broken, FALSE}
      BY TypeParts
      DEF Start, StartSource, Started, Stop, SourceCloses, SourceStopped, Stopped
    <2>2. /\ muHeld' \in {muHeld, TRUE, FALSE} /\ listening' \in {listening, TRUE, FALSE}
          /\ stopClosed' \in {stopClosed, TRUE, FALSE}
          /\ forgotten' \in {forgotten, FALSE, mechanism' = "etw"}
          /\ control' \in {"off", "starting", "degraded", "started", "on", "stopping", "draining",
                           "waiting"}
      BY DEF Start, StartSource, Started, Stop, SourceCloses, SourceStopped, Stopped
    <2>3. (mechanism' = "etw") \in BOOLEAN
      OBVIOUS
    <2>4. muHeld' \in BOOLEAN /\ listening' \in BOOLEAN
      BY <2>1, <2>2, Zenon DEF Plain
    <2>5. stopClosed' \in BOOLEAN /\ forgotten' \in BOOLEAN
      BY <2>1, <2>2, <2>3, Zenon DEF Plain
    <2>6. armed' \in BOOLEAN /\ broken' \in BOOLEAN
      BY <2>1, Zenon DEF Plain
    <2>7. /\ proc' \in 0..MaxProcs /\ born' \in 1..MaxProcs /\ mechanism' \in {"sacl", "etw"}
          /\ worker' \in {"off", "run", "drain", "last"} /\ reporting' \subseteq {"control", "worker"}
      BY <1>1, <2>1 DEF Plain
    <2> QED BY <2>2, <2>4, <2>5, <2>6, <2>7 DEF Plain
  <1>5. ToSet(raw) \subseteq Happened
    BY ReadsType, SetIn
  <1>6. Sets'
    BY <1>1, <1>5, TypeParts
    DEF Sets, Start, StartSource, Started, Stop, SourceCloses, SourceStopped, Stopped
  <1> QED BY <1>3, <1>4, <1>6, TypeJoin

LEMMA ReportType == ASSUME TypeOK, NEW b, ReportIf(b)
                    PROVE  reporting' \subseteq {"control", "worker"}
  BY DEF ReportIf, TypeOK

\* What the worker does to the file.
LEMMA FileType ==
  ASSUME TypeOK, ToFile
  PROVE  /\ seen' \subseteq Happened /\ log' \subseteq Happened /\ gaps' \subseteq Happened
         /\ buffered' \subseteq Happened /\ bufferedGaps' \subseteq Happened /\ broken' \in BOOLEAN
         /\ reporting' \subseteq {"control", "worker"}
  <1>1. Sets /\ broken \in BOOLEAN /\ reporting \subseteq {"control", "worker"}
    BY TypeParts DEF Plain
  <1> QED BY <1>1 DEF Sets, ToFile, Note, News, Losses, ReportIf

LEMMA TypeHandle == ASSUME TypeOK, Handle PROVE TypeOK'
  <1>1. events \in Seq(Happened) /\ Len(events) <= EventsMax /\ events # <<>> /\ Len(events) \in Nat
    BY LenProperties DEF TypeOK, Handle
  <1>2. /\ Head(events) \in Happened /\ events' \in Seq(Happened) /\ Len(events') <= EventsMax
    BY <1>1, HeadTailProperties, CapacityAssumption DEF Handle
  <1>3. Identity(Head(events)) \in 0..MaxProcs
    <2>1. reads[Head(events)] \in 1..MaxProcs /\ proc \in 0..MaxProcs /\ MaxProcs \in Nat
      BY <1>2, ReadsType, BoundsAssumption DEF TypeOK
    <2> QED BY <2>1 DEF Identity
  <1>4. UNCHANGED <<reads, proc, born, control, muHeld, mechanism, listening, forgotten, raw, parked,
                    lost, silent, worker, stopClosed, seen, log, bufferedGaps, gaps, broken, told>>
    BY DEF Handle, source
  <1>5. /\ hidden' \subseteq Happened /\ buffered' \subseteq Happened
        /\ named' \in [Happened -> 0..MaxProcs]
    <2>1. /\ hidden \subseteq Happened /\ buffered \subseteq Happened
          /\ named \in [Happened -> 0..MaxProcs]
      BY DEF TypeOK
    <2> QED BY <1>2, <1>3, <2>1 DEF Handle
  <1>6. armed' \in BOOLEAN /\ reporting' \subseteq {"control", "worker"}
    <2>1. armed \in BOOLEAN /\ reporting \subseteq {"control", "worker"}
      BY DEF TypeOK
    <2> QED BY <2>1 DEF Handle, ReportIf
  <1>7. Sequenced'
    BY <1>2, <1>4, <1>5, TypeParts DEF Sequenced, Happened
  <1>8. Plain'
    BY <1>4, <1>6, TypeParts DEF Plain
  <1>9. Sets'
    BY <1>4, <1>5, TypeParts DEF Sets, Happened
  <1> QED BY <1>7, <1>8, <1>9, TypeJoin

LEMMA TypeWorker ==
  ASSUME TypeOK, Flush \/ GapTick \/ SeesStop \/ LastPass \/ WorkerEnds PROVE TypeOK'
  <1>1. /\ UNCHANGED <<reads, proc, born, control, muHeld, mechanism, listening, forgotten, raw, parked,
                       lost, events, silent, stopClosed, hidden, named, told>>
        /\ Happened' = Happened
    BY DEF Flush, GapTick, SeesStop, LastPass, WorkerEnds, source, queue, verdict, Happened
  <1>2. /\ worker' \in {"off", "run", "drain", "last"} /\ armed' \in BOOLEAN /\ broken' \in BOOLEAN
        /\ reporting' \subseteq {"control", "worker"}
        /\ seen' \subseteq Happened /\ buffered' \subseteq Happened /\ log' \subseteq Happened
        /\ bufferedGaps' \subseteq Happened /\ gaps' \subseteq Happened
    <2>1. Plain /\ Sets
      BY TypeParts
    <2>2. CASE Flush \/ LastPass
      BY <2>1, <2>2, FileType DEF Flush, LastPass, Plain
    <2>3. CASE GapTick
      BY <2>1, <2>3, ReportType DEF GapTick, Note, News, Losses, Plain, Sets
    <2>4. CASE SeesStop \/ WorkerEnds
      BY <2>1, <2>4 DEF SeesStop, WorkerEnds, Plain, Sets
    <2> QED BY <2>2, <2>3, <2>4
  <1>3. Sequenced'
    BY <1>1, TypeParts, SequencedSteady
  <1>4. Plain'
    BY <1>1, <1>2, TypeParts DEF Plain
  <1>5. Sets'
    BY <1>1, <1>2, TypeParts DEF Sets
  <1> QED BY <1>3, <1>4, <1>5, TypeJoin

LEMMA TypeStep == ASSUME TypeOK, Youngest, [Next]_vars PROVE TypeOK'
  <1>1. CASE UNCHANGED vars \/ \E who \in {"control", "worker"} : Report(who)
    <2> USE DEF vars, source, queue, writer, verdict, Report
    <2>1. /\ UNCHANGED <<reads, proc, born, control, muHeld, source, queue, worker, stopClosed, writer,
                         verdict>>
          /\ told' \in {told, Len(reads)} /\ reporting' \subseteq reporting
      BY <1>1
    <2>2. Sequenced'
      BY <2>1, TypeParts, SequencedSteady
    <2>3. Plain'
      BY <2>1, TypeParts DEF Plain
    <2>4. Sets'
      BY <2>1, TypeParts, ReadsType DEF Sets, Happened
    <2> QED BY <2>2, <2>3, <2>4, TypeJoin
  <1> QED BY <1>1, TypeProcess, TypeRead, TypeQueue, TypeControl, TypeHandle, TypeWorker DEF Next, Working

(***************************************************************************)
(* The invariant.                                                          *)
(***************************************************************************)

LEMMA PipelineInit == Init => PipelineInv
  <1> SUFFICES ASSUME Init PROVE PipelineInv
    OBVIOUS
  <1>1. Happened = {} /\ Len(reads) = 0
    BY EmptySeq DEF Init, Happened
  <1>2. Phases /\ Emptied /\ Forgets /\ Parked /\ Closing
    BY DEF Init, Phases, Emptied, Over, Forgets, Parked, Closing
  <1>3. Accounted /\ Youngest /\ NobodyIsBlamed
    BY <1>1 DEF Init, Accounted, Youngest, NobodyIsBlamed
  <1> QED BY <1>2, <1>3, TypeInit DEF PipelineInv

\* Nothing is forgotten by a step that takes no read away from where it is.
LEMMA StillAccounted ==
  ASSUME Accounted, UNCHANGED reads, "worker" \in reporting => "worker" \in reporting',
         Underway \cup Ended \subseteq Underway' \cup Ended'
  PROVE  Accounted'
  BY DEF Accounted, Happened

\* Nor are the processes mixed up.
LEMMA StillNobody ==
  ASSUME Youngest, NobodyIsBlamed, UNCHANGED <<reads, proc, born, named>>
  PROVE  Youngest' /\ NobodyIsBlamed'
  BY DEF Youngest, NobodyIsBlamed, Happened

LEMMA PipelineProcess == ASSUME PipelineInv, Exit \/ Reuse PROVE PipelineInv'
  <1> USE DEF Exit, Reuse, source, queue, writer, verdict
  <1>1. UNCHANGED <<reads, control, muHeld, source, queue, worker, reporting, stopClosed, writer,
                    verdict, told>> /\ Happened' = Happened
    BY DEF Happened
  <1>2. Phases' /\ Emptied' /\ Forgets' /\ Parked' /\ Closing'
    BY <1>1 DEF PipelineInv, Phases, Emptied, Over, Forgets, Parked, Closing
  <1>3. Accounted'
    BY <1>1 DEF PipelineInv, Accounted, Underway, Ended
  <1>4. Youngest' /\ NobodyIsBlamed'
    <2>1. \A r \in Happened : reads[r] \in Nat
      BY ReadsType, BoundsAssumption DEF PipelineInv
    <2>2. born \in Nat /\ proc' \in {0, born'} /\ born' >= born
      BY BoundsAssumption DEF PipelineInv, TypeOK, Youngest
    <2> QED BY <1>1, <2>1, <2>2 DEF PipelineInv, Youngest, NobodyIsBlamed
  <1> QED BY <1>2, <1>3, <1>4, TypeProcess DEF PipelineInv

LEMMA PipelineRead == ASSUME PipelineInv, Read PROVE PipelineInv'
  <1> DEFINE r == Len(reads')
  <1>1. /\ UNCHANGED <<proc, born, control, muHeld, mechanism, listening, forgotten, worker, reporting,
                       stopClosed, armed, seen, buffered, log, bufferedGaps, gaps, broken, hidden, told>>
        /\ control \in {"started", "on", "stopping"} /\ worker \in {"off", "run"} /\ proc # 0
    BY DEF PipelineInv, Phases, Read, writer
  <1>2. /\ Len(reads) \in Nat /\ reads \in Seq(1..MaxProcs) /\ proc \in 1..MaxProcs
        /\ raw \in Seq(Happened) /\ events \in Seq(Happened) /\ Len(events) <= EventsMax
        /\ silent \subseteq Happened /\ lost \subseteq Happened /\ seen \subseteq Happened
    <2>1. TypeOK
      BY DEF PipelineInv
    <2>2. Len(reads) \in Nat /\ raw \in Seq(Happened) /\ events \in Seq(Happened)
      BY <2>1, ReadsType
    <2>3. proc \in 0..MaxProcs /\ MaxProcs \in Nat
      BY <2>1, BoundsAssumption DEF TypeOK
    <2>4. proc \in 1..MaxProcs
      BY <1>1, <2>3
    <2>5. /\ reads \in Seq(1..MaxProcs) /\ Len(events) <= EventsMax
          /\ silent \subseteq Happened /\ lost \subseteq Happened /\ seen \subseteq Happened
      BY <2>1 DEF TypeOK
    <2> QED BY <2>2, <2>4, <2>5
  <1>3. /\ r = Len(reads) + 1 /\ reads'[r] = proc
        /\ \A x \in 1..Len(reads) : reads'[x] = reads[x]
    BY <1>2, AppendProperties DEF Read
  <1>4. Happened = 1..Len(reads) /\ Happened' = Happened \cup {r} /\ r \notin Happened
    BY <1>2, <1>3 DEF Happened
  <1>5. raw \in Seq(Happened') /\ events \in Seq(Happened') /\ silent \subseteq Happened'
    BY <1>2, <1>4, SeqMonotonic
  <1>6. /\ lost \subseteq lost' /\ silent \subseteq silent' /\ parked \subseteq parked'
        /\ lost' \subseteq lost \cup {r}
        /\ ToSet(raw) \subseteq ToSet(raw') /\ ToSet(events) \subseteq ToSet(events')
        /\ r \in ToSet(raw') \cup ToSet(events') \cup silent' \cup parked' \cup lost'
        /\ forgotten => lost' \subseteq lost \cup silent'
        /\ parked' \subseteq parked \cup {r} /\ (parked' = parked \/ lost' = lost)
    <2>1. CASE mechanism = "sacl" /\ raw' = Append(raw, r) /\ UNCHANGED <<parked, queue, lost>>
      BY <1>4, <1>5, <2>1, AppendSet DEF queue
    <2>2. CASE mechanism = "sacl" /\ lost' = lost \cup {r} /\ UNCHANGED <<raw, parked, queue>>
      BY <2>2 DEF queue, PipelineInv, Phases
    <2>3. CASE Deliver(r) /\ UNCHANGED <<raw, parked, lost>>
      <3>1. r \in Happened'
        BY <1>4
      <3>2. /\ silent \subseteq silent' /\ ToSet(events) \subseteq ToSet(events')
            /\ ToSet(events') \cup silent' = ToSet(events) \cup silent \cup {r}
        BY <1>2, <1>5, <2>3, <3>1, DeliverIs
      <3> QED BY <2>3, <3>2
    <2>4. CASE parked' = parked \cup {r} /\ UNCHANGED <<raw, queue, lost>>
      BY <2>4 DEF queue
    <2>5. CASE Counted(r) /\ UNCHANGED <<raw, parked>>
      BY <2>5 DEF Counted
    <2> QED BY <2>1, <2>2, <2>3, <2>4, <2>5 DEF Read
  <1>7. Phases' /\ Emptied' /\ Closing'
    BY <1>1 DEF PipelineInv, Phases, Emptied, Over, Closing
  <1>8. Forgets' /\ Parked'
    <2>1. parked \subseteq Happened
      BY DEF PipelineInv, TypeOK
    <2> QED BY <1>1, <1>2, <1>4, <1>6, <2>1 DEF PipelineInv, Forgets, Parked
  <1>9. Accounted'
    <2>0. r \notin seen
      BY <1>2, <1>4
    <2>1. Underway \cup Ended \cup {r} \subseteq Underway' \cup Ended'
      <3>1. Ended \subseteq Ended'
        BY <1>1, <1>6 DEF Ended
      <3>2. Underway \subseteq Underway'
        BY <1>1, <1>6 DEF Underway
      <3>3. r \in Underway' \cup Ended'
        BY <1>1, <1>6, <2>0 DEF Underway, Ended
      <3> QED BY <3>1, <3>2, <3>3
    <2> QED BY <1>1, <1>4, <2>1 DEF PipelineInv, Accounted
  <1>10. Youngest'
    <2>1. born \in Nat /\ proc = born /\ \A x \in Happened : reads[x] <= born
      BY <1>1 DEF PipelineInv, Youngest, TypeOK
    <2> QED BY <1>1, <1>3, <1>4, <2>1 DEF Youngest
  <1>11. NobodyIsBlamed'
    <2>1. named \in [1..Len(reads) -> 0..MaxProcs]
      BY <1>4 DEF PipelineInv, TypeOK
    <2>2. [1..Len(reads) -> 0..MaxProcs] \in {[1..n -> 0..MaxProcs] : n \in Nat}
      BY <1>2
    <2>3. named \in Seq(0..MaxProcs)
      BY <2>1, <2>2, SeqDef
    <2>4. Len(named) = Len(reads) /\ 0 \in 0..MaxProcs
      BY <1>2, <2>1, <2>3, LenProperties, BoundsAssumption
    <2>5. named'[r] = 0 /\ \A x \in 1..Len(reads) : named'[x] = named[x]
      BY <1>2, <1>3, <2>3, <2>4, AppendProperties DEF Read
    <2> QED BY <1>3, <1>4, <2>5 DEF PipelineInv, NobodyIsBlamed
  <1>12. TypeOK'
    BY TypeRead DEF PipelineInv
  <1> QED BY <1>7, <1>8, <1>9, <1>10, <1>11, <1>12 DEF PipelineInv

LEMMA PipelineQueue == ASSUME PipelineInv, Parse \/ \E r \in Happened : Sweep(r) PROVE PipelineInv'
  <1>1. /\ UNCHANGED <<reads, proc, born, control, muHeld, mechanism, listening, forgotten, worker,
                       reporting, stopClosed, seen, buffered, log, bufferedGaps, gaps, hidden, named, told>>
        /\ raw # <<>> \/ parked # {}
    BY DEF Parse, Sweep, writer, verdict
  <1>2. /\ raw \in Seq(Happened) /\ events \in Seq(Happened) /\ Len(events) <= EventsMax
        /\ silent \subseteq Happened
    BY DEF PipelineInv, TypeOK
  <1>3. /\ lost \subseteq lost' /\ silent \subseteq silent' /\ ToSet(events) \subseteq ToSet(events')
        /\ parked' \subseteq parked /\ lost' \subseteq lost \cup (parked \ parked')
        /\ ToSet(raw) \cup parked \subseteq
             ToSet(raw') \cup parked' \cup ToSet(events') \cup silent' \cup (lost' \ seen)
        /\ forgotten => lost' \subseteq lost \cup silent'
    <2>1. CASE Parse
      <3>1. /\ Head(raw) \in Happened /\ raw # <<>> /\ Deliver(Head(raw)) /\ raw' = Tail(raw)
            /\ UNCHANGED <<parked, lost>>
        BY <1>2, <2>1, HeadTailProperties DEF Parse
      <3>2. ToSet(raw) = {Head(raw)} \cup ToSet(raw')
        BY <1>2, <3>1, TailSet
      <3> QED BY <1>2, <3>1, <3>2, DeliverIs
    <2>2. CASE \E r \in Happened : Sweep(r)
      <3>1. PICK r \in Happened : Sweep(r)
        BY <2>2
      <3>2. CASE Deliver(r) /\ UNCHANGED lost
        BY <1>2, <3>1, <3>2, DeliverIs DEF Sweep
      <3>3. CASE Counted(r)
        BY <3>1, <3>3 DEF Sweep, Counted, PipelineInv, Parked
      <3> QED BY <3>1, <3>2, <3>3 DEF Sweep
    <2> QED BY <2>1, <2>2
  <1>4. Phases' /\ Closing' /\ Parked'
    BY <1>1, <1>3 DEF PipelineInv, Phases, Closing, Parked
  <1>5. Emptied' /\ Forgets'
    <2>1. control \notin {"off", "starting", "degraded", "waiting"}
      BY <1>1 DEF PipelineInv, Emptied
    <2>2. ~Over
      BY <2>1 DEF PipelineInv, Phases, Over, TypeOK
    <2> QED BY <1>1, <1>3, <2>1, <2>2 DEF PipelineInv, Emptied, Over, Forgets
  <1>6. Accounted'
    <2>1. Underway \cup Ended \subseteq Underway' \cup Ended'
      BY <1>1, <1>3 DEF Underway, Ended
    <2> QED BY <1>1, <2>1, StillAccounted DEF PipelineInv
  <1> QED BY <1>1, <1>4, <1>5, <1>6, StillNobody, TypeQueue DEF PipelineInv

LEMMA PipelineControl == ASSUME PipelineInv, Starting \/ Stopping PROVE PipelineInv'
  <1>1. /\ UNCHANGED <<reads, proc, born, named, hidden, buffered, bufferedGaps, log, gaps, told>>
        /\ "worker" \in reporting => "worker" \in reporting'
    <2>1. StartSource /\ reporting' = {"control"} => "worker" \notin reporting
      BY DEF StartSource, PipelineInv, Phases
    <2>2. StartSource => reporting' \in {reporting, {"control"}}
      BY DEF StartSource
    <2>3. ~StartSource => UNCHANGED reporting
      BY DEF Starting, Start, Started, Stopping, Stop, SourceCloses, SourceStopped, Stopped
    <2>4. UNCHANGED <<reads, proc, born, named, hidden, buffered, bufferedGaps, log, gaps, told>>
      BY DEF Starting, Start, StartSource, Started, Stopping, Stop, SourceCloses, SourceStopped, Stopped,
             writer, verdict
    <2> QED BY <2>1, <2>2, <2>3, <2>4
  <1>2. Youngest' /\ NobodyIsBlamed'
    BY <1>1, StillNobody DEF PipelineInv
  <1>3. Phases' /\ Closing'
    BY <1>1 DEF PipelineInv, TypeOK, Phases, Closing, Starting, Start, StartSource, Started, Stopping, Stop,
           SourceCloses, SourceStopped, Stopped, source, queue
  <1>4. Emptied' /\ Forgets' /\ Parked' /\ Underway \cup Ended \subseteq Underway' \cup Ended'
    <2>1. CASE \E m \in {"sacl", "etw"} : Start(m)
      BY <1>1, <2>1, EmptySet
      DEF Start, PipelineInv, Phases, Emptied, Over, Forgets, Parked, Underway, Ended
    <2>2. CASE StartSource \/ Started
      BY <1>1, <2>2
      DEF StartSource, Started, PipelineInv, Phases, Emptied, Over, Forgets, Parked, Underway, Ended,
          source, queue, writer
    <2>3. CASE Stop
      BY <1>1, <2>3 DEF Stop, PipelineInv, Phases, Emptied, Over, Forgets, Parked, Underway, Ended, writer
    <2>4. CASE SourceCloses \/ Stopped
      BY <1>1, <2>4 DEF SourceCloses, Stopped, PipelineInv, Phases, Emptied, Over, Forgets, Parked, Underway,
                        Ended, source, queue, writer
    <2>5. CASE SourceStopped
      BY <1>1, <2>5, EmptySet
      DEF SourceStopped, PipelineInv, Phases, Emptied, Over, Forgets, Parked, Underway, Ended, writer
    <2> QED BY <2>1, <2>2, <2>3, <2>4, <2>5 DEF Starting, Stopping
  <1>5. Accounted'
    BY <1>1, <1>4, StillAccounted DEF PipelineInv
  <1> QED BY <1>2, <1>3, <1>4, <1>5, TypeControl DEF PipelineInv

LEMMA PipelineHandle == ASSUME PipelineInv, Handle PROVE PipelineInv'
  <1> DEFINE r == Head(events)
             who == Identity(r)
  <1>1. /\ UNCHANGED <<reads, proc, born, control, muHeld, mechanism, listening, forgotten, raw, parked,
                       lost, silent, worker, stopClosed, seen, log, bufferedGaps, gaps, broken, told>>
        /\ worker \in {"run", "drain"} /\ Happened' = Happened
    BY DEF Handle, source, Happened
  <1>2. /\ events \in Seq(Happened) /\ r \in Happened
        /\ ToSet(events) = {r} \cup ToSet(events')
    BY HeadTailProperties, TailSet DEF PipelineInv, TypeOK, Handle
  <1>3. /\ hidden \subseteq hidden' /\ buffered \subseteq buffered'
        /\ "worker" \in reporting' \/ r \in hidden' \cup buffered'
        /\ "worker" \in reporting => "worker" \in reporting'
    BY DEF Handle, ReportIf
  <1>4. Phases' /\ Forgets' /\ Parked' /\ Closing' /\ Emptied'
    BY <1>1 DEF PipelineInv, Phases, Forgets, Parked, Closing, Emptied, Over
  <1>5. Accounted'
    <2>1. "worker" \in reporting' \/ Underway \cup Ended \subseteq Underway' \cup Ended'
      BY <1>1, <1>2, <1>3 DEF Underway, Ended
    <2> QED BY <1>1, <1>3, <2>1 DEF PipelineInv, Accounted
  <1>6. who \in {0, reads[r]}
    <2>0. TypeOK /\ Youngest
      BY DEF PipelineInv
    <2>1. /\ proc \in {0, born} /\ reads[r] \in 1..MaxProcs /\ reads[r] <= born /\ born \in 1..MaxProcs
          /\ MaxProcs \in Nat
      BY <1>2, <2>0, ReadsType, BoundsAssumption DEF Youngest, TypeOK
    <2> QED BY <2>1 DEF Identity
  <1>7. NobodyIsBlamed' /\ Youngest'
    <2>1. named \in [Happened -> 0..MaxProcs]
      BY DEF PipelineInv, TypeOK
    <2>2. named' \in {named, [named EXCEPT ![r] = who]}
      BY DEF Handle
    <2> QED BY <1>1, <1>2, <1>6, <2>1, <2>2 DEF PipelineInv, NobodyIsBlamed, Youngest
  <1> QED BY <1>4, <1>5, <1>7, TypeHandle DEF PipelineInv

LEMMA PipelineFile ==
  ASSUME PipelineInv, Flush \/ LastPass \/ GapTick PROVE PipelineInv'
  <1>1. /\ UNCHANGED <<reads, proc, born, control, muHeld, mechanism, listening, forgotten, raw, parked,
                       lost, events, silent, stopClosed, hidden, named, told>>
        /\ seen' = seen \cup Losses /\ worker # "off"
        /\ worker' = worker \/ (worker = "drain" /\ worker' = "last" /\ events = <<>>)
        /\ "worker" \in reporting => "worker" \in reporting'
    BY DEF Flush, LastPass, GapTick, ToFile, Note, ReportIf, source, queue, verdict
  <1>2. \/ "worker" \in reporting'
        \/ /\ buffered \cup bufferedGaps \cup log \cup gaps \cup News
                \subseteq buffered' \cup bufferedGaps' \cup log' \cup gaps'
           /\ LastPass => buffered' = {} /\ bufferedGaps' = {}
    BY DEF Flush, LastPass, GapTick, ToFile, ReportIf
  <1>3. Losses \subseteq lost /\ lost \subseteq seen' \cup silent
    BY <1>1 DEF Losses, PipelineInv, Forgets
  <1>4. Phases' /\ Forgets' /\ Parked' /\ Emptied'
    BY <1>1, <1>3 DEF PipelineInv, Phases, Forgets, Parked, Emptied, Over
  <1>5. Closing'
    <2>1. worker' = "last" => LastPass
      BY <1>1 DEF Flush, GapTick
    <2> QED BY <1>2, <2>1 DEF Closing
  <1>6. Accounted'
    <2>1. "worker" \in reporting' \/ Underway \cup Ended \subseteq Underway' \cup Ended'
      BY <1>1, <1>2, <1>3 DEF Underway, Ended, News
    <2> QED BY <1>1, <2>1 DEF PipelineInv, Accounted, Happened
  <1> QED BY <1>1, <1>4, <1>5, <1>6, StillNobody, TypeWorker DEF PipelineInv

LEMMA PipelineEnds == ASSUME PipelineInv, SeesStop \/ WorkerEnds PROVE PipelineInv'
  <1>1. UNCHANGED <<reads, proc, born, control, muHeld, mechanism, listening, forgotten, raw, parked,
                    lost, events, silent, reporting, stopClosed, seen, hidden, named, told, log, gaps>>
    BY DEF SeesStop, WorkerEnds, source, queue, verdict
  <1>2. Phases' /\ Forgets' /\ Parked' /\ Emptied' /\ Closing'
    BY <1>1 DEF SeesStop, WorkerEnds, PipelineInv, TypeOK, Free, Phases, Forgets, Parked, Emptied, Over, Closing
  <1>3. Accounted'
    <2>1. CASE SeesStop
      BY <1>1, <2>1, StillAccounted DEF SeesStop, PipelineInv, Underway, Ended
    <2>2. CASE WorkerEnds /\ buffered = {} /\ bufferedGaps = {}
      BY <1>1, <2>2, StillAccounted DEF WorkerEnds, PipelineInv, Underway, Ended
    <2>3. CASE WorkerEnds /\ told = Len(reads)
      BY <1>1, <2>3 DEF Accounted, Ended, Happened
    <2> QED BY <2>1, <2>2, <2>3 DEF PipelineInv, Closing, WorkerEnds, Free
  <1> QED BY <1>1, <1>2, <1>3, StillNobody, TypeWorker DEF PipelineInv

LEMMA PipelineReport ==
  ASSUME PipelineInv, NEW who \in {"control", "worker"}, Report(who) PROVE PipelineInv'
  <1> USE DEF Report, source, queue, writer, verdict
  <1>1. told' = Len(reads) /\ reporting' \subseteq reporting /\ Happened' = Happened
    BY DEF Happened
  <1>2. Phases' /\ Forgets' /\ Parked' /\ Emptied' /\ Closing'
    BY <1>1 DEF PipelineInv, Phases, Forgets, Parked, Emptied, Over, Closing
  <1>3. Accounted'
    BY <1>1 DEF Accounted, Ended, Happened
  <1> QED BY <1>2, <1>3, StillNobody, TypeStep DEF PipelineInv, Next

LEMMA PipelineStep == ASSUME PipelineInv, [Next]_vars PROVE PipelineInv'
  <1>1. CASE UNCHANGED vars
    <2> USE DEF vars, source, queue, writer, verdict
    <2>1. Phases' /\ Forgets' /\ Parked' /\ Emptied' /\ Closing'
      BY <1>1 DEF PipelineInv, Phases, Forgets, Parked, Emptied, Over, Closing
    <2>2. Accounted'
      BY <1>1 DEF PipelineInv, Accounted, Underway, Ended, Happened
    <2> QED BY <1>1, <2>1, <2>2, StillNobody, TypeStep DEF PipelineInv
  <1> QED BY <1>1, PipelineProcess, PipelineRead, PipelineQueue, PipelineControl, PipelineHandle,
             PipelineFile, PipelineEnds, PipelineReport DEF Next, Working

(***************************************************************************)
(* The theorems.                                                           *)
(***************************************************************************)

\* The inductive invariant: where each read is at every step of the source, the worker
\* and of whoever starts and stops them, for queues of any size and any failure of the
\* file.
THEOREM PipelineCorrect == Spec => []PipelineInv
  BY PipelineInit, PipelineStep, PTL DEF Spec

\* Every reachable state of the pipeline is well typed, and no queue is over its size.
THEOREM TypeOKCorrect == Spec => []TypeOK
  BY PipelineCorrect, PTL DEF PipelineInv

\* When monitoring is off, every read is in the log, in a gap, hidden on purpose, lost in
\* one of the three silent ways, or before an error the owner has been told of.
THEOREM NothingElseIsSilentCorrect == Spec => []NothingElseIsSilent
  <1>1. ASSUME PipelineInv, control = "off" PROVE Happened \subseteq Ended
    <2>1. /\ raw = <<>> /\ parked = {} /\ events = <<>> /\ lost \subseteq seen \cup silent
          /\ buffered = {} /\ bufferedGaps = {} /\ "worker" \notin reporting
      BY <1>1 DEF PipelineInv, Emptied, Over, Phases
    <2> QED BY <1>1, <2>1, EmptySet DEF PipelineInv, Accounted, Underway, Ended
  <1>2. PipelineInv => NothingElseIsSilent
    BY <1>1 DEF NothingElseIsSilent, Ended
  <1> QED BY <1>2, PipelineCorrect, PTL

\* Nobody is blamed for what another process read with the same id, however often the id
\* is given away while the read waits.
THEOREM NobodyIsBlamedCorrect == Spec => []NobodyIsBlamed
  BY PipelineCorrect, PTL DEF PipelineInv
=============================================================================
