------------------------------ MODULE Pipeline ------------------------------
(***************************************************************************)
(* From a read to the log (cmd/readwatch/eventwatch_windows.go,            *)
(* etwsource_windows.go and internal/logsink/writer.go): a source, which   *)
(* is the Security log or a trace session, the EventWatcher's queue and    *)
(* worker, and the buffered log file.                                      *)
(*                                                                         *)
(* A read is known by its number.  The queue of events and the buffer stand *)
(* between it and the file, at each place something may be full, and what  *)
(* is lost is to reach the log as a gap.  The goroutines are the one that  *)
(* starts and stops monitoring, the source's own, and the worker; w.mu is  *)
(* held over the whole of Start, and whoever reports an error wants it.    *)
(*                                                                         *)
(* What is left out: the parsing of a record and how a trace names a file  *)
(* (Correlation); folders and the directory rule, beyond a read's being    *)
(* wanted or not; the format of the log; a log that cannot be opened,      *)
(* which is the source's not starting.  One process id stands for all, in  *)
(* the hands of one process after the other.                               *)
(***************************************************************************)
EXTENDS Naturals, Sequences, SequencesExt, FiniteSets

CONSTANTS RawMax,     \* capacity of saclSource.raw
          EventsMax,  \* capacity of EventWatcher.events
          MaxReads,   \* bound on the reads that happen
          MaxProcs,   \* bound on the processes that have had the id
          Excluded    \* those of them on the exclusion list

ASSUME CapacityAssumption == RawMax \in Nat \ {0} /\ EventsMax \in Nat \ {0}
ASSUME BoundsAssumption == MaxReads \in Nat /\ MaxProcs \in Nat \ {0}
ASSUME ExcludedAssumption == Excluded \subseteq 1..MaxProcs

VARIABLES
  reads,      \* who made each read there has been
  proc,       \* the process that has the id now, 0 when the last one has exited
  born,       \* the youngest process there has been
  mechanism,  \* the source of this run: sacl or etw
  control,    \* where the goroutine that starts and stops is
  muHeld,     \* it holds w.mu
  listening,  \* reads reach the source
  forgotten,  \* etwSource.w is nil: the source has no counters to tell
  raw,        \* saclSource.raw
  parked,     \* reads a trace has not named yet
  events,     \* w.events
  lost,       \* the reads in the source's counters
  worker,     \* where the worker is: off, run, drain (stop seen) or last
  reporting,  \* the goroutines that report an error: control, worker
  stopClosed, \* w.stop is closed
  armed,      \* the flush timer is set
  seen,       \* what recordGaps has taken note of
  buffered, log,          \* the reads in the writer's buffer and in the file
  bufferedGaps, gaps,     \* the reads the gaps there stand for
  hidden,     \* the reads handled and not wanted, or counted in w.hidden
  named,      \* the process each event was put down to
  silent,     \* reads lost in the ways no gap ever tells of (below)
  broken,     \* the file cannot be written
  told        \* the owner has been told of an error after so many reads

source == <<mechanism, listening, forgotten, raw, parked, lost>>
queue  == <<events, silent>>
writer == <<armed, seen, buffered, log, bufferedGaps, gaps, broken>>
verdict == <<hidden, named>>
vars == <<reads, proc, born, control, muHeld, source, queue, worker, reporting, stopClosed,
          writer, verdict, told>>

Happened == 1..Len(reads)

TypeOK ==
  /\ reads \in Seq(1..MaxProcs) /\ Len(reads) <= MaxReads
  /\ proc \in 0..MaxProcs /\ born \in 1..MaxProcs
  /\ mechanism \in {"sacl", "etw"}
  /\ control \in {"off", "starting", "degraded", "started", "on", "stopping", "draining",
                  "waiting"}
  /\ muHeld \in BOOLEAN /\ listening \in BOOLEAN /\ forgotten \in BOOLEAN
  /\ raw \in Seq(Happened) /\ Len(raw) <= RawMax
  /\ events \in Seq(Happened) /\ Len(events) <= EventsMax
  /\ parked \subseteq Happened /\ lost \subseteq Happened /\ silent \subseteq Happened
  /\ worker \in {"off", "run", "drain", "last"} /\ reporting \subseteq {"control", "worker"}
  /\ stopClosed \in BOOLEAN /\ armed \in BOOLEAN /\ seen \subseteq Happened
  /\ buffered \subseteq Happened /\ log \subseteq Happened
  /\ bufferedGaps \subseteq Happened /\ gaps \subseteq Happened
  /\ hidden \subseteq Happened /\ named \in [Happened -> 0..MaxProcs]
  /\ broken \in BOOLEAN /\ told \in 0..Len(reads)

Init ==
  /\ reads = <<>> /\ proc = 1 /\ born = 1 /\ mechanism = "sacl"
  /\ control = "off" /\ muHeld = FALSE /\ listening = FALSE /\ forgotten = FALSE
  /\ raw = <<>> /\ parked = {} /\ events = <<>> /\ lost = {} /\ silent = {}
  /\ worker = "off" /\ reporting = {} /\ stopClosed = FALSE /\ armed = FALSE /\ seen = {}
  /\ buffered = {} /\ log = {} /\ bufferedGaps = {} /\ gaps = {}
  /\ hidden = {} /\ named = <<>> /\ broken = FALSE /\ told = 0

\* The process that has the id exits, or the id is given to another one.
Exit ==
  /\ proc # 0 /\ proc' = 0
  /\ UNCHANGED <<reads, born, control, muHeld, source, queue, worker, reporting, stopClosed,
                 writer, verdict, told>>

Reuse ==
  /\ proc = 0 /\ born < MaxProcs /\ born' = born + 1 /\ proc' = born'
  /\ UNCHANGED <<reads, control, muHeld, source, queue, worker, reporting, stopClosed,
                 writer, verdict, told>>
-----------------------------------------------------------------------------
(***************************************************************************)
(* The sources.                                                            *)
(*                                                                         *)
(* Three losses are in no gap: what finds w.events full is only counted in *)
(* w.dropped; what is in raw when parse stops is not counted at all; and   *)
(* what a trace counts after the worker has last seen its counters, since  *)
(* etwSource.Stop forgets the watcher before it stops it.                  *)
(***************************************************************************)

\* (a slip: the queue grows instead of dropping)
DeliverAlways(r) == events' = Append(events, r) /\ UNCHANGED silent

Deliver(r) ==
  \/ Len(events) < EventsMax /\ events' = Append(events, r) /\ UNCHANGED silent
  \/ Len(events) = EventsMax /\ silent' = silent \cup {r} /\ UNCHANGED events

\* A trace loses reads in many ways, and counts each.
Counted(r) ==
  /\ lost' = lost \cup {r}
  /\ silent' = IF forgotten THEN silent \cup {r} ELSE silent
  /\ UNCHANGED events

\* A process that has the id reads.  Windows writes event 4663, whose callback has
\* room in raw or counts it; or the trace delivers the read: named at once, parked
\* until it is named, or lost.
Read ==
  /\ listening /\ proc # 0 /\ Len(reads) < MaxReads
  /\ reads' = Append(reads, proc)
  /\ named' = Append(named, 0)
  /\ LET r == Len(reads')
     IN \/ /\ mechanism = "sacl" /\ Len(raw) < RawMax
           /\ raw' = Append(raw, r) /\ UNCHANGED <<parked, queue, lost>>
        \/ /\ mechanism = "sacl" /\ Len(raw) = RawMax
           /\ lost' = lost \cup {r} /\ UNCHANGED <<raw, parked, queue>>
        \/ mechanism = "etw" /\ Deliver(r) /\ UNCHANGED <<raw, parked, lost>>
        \/ mechanism = "etw" /\ parked' = parked \cup {r} /\ UNCHANGED <<raw, queue, lost>>
        \/ mechanism = "etw" /\ Counted(r) /\ UNCHANGED <<raw, parked>>
  /\ UNCHANGED <<proc, born, control, muHeld, mechanism, listening, forgotten, worker,
                 reporting, stopClosed, writer, hidden, told>>

\* saclSource.parse, until it notices that the source stops.
Parse ==
  /\ raw # <<>> /\ Deliver(Head(raw)) /\ raw' = Tail(raw)
  /\ UNCHANGED <<reads, proc, born, control, muHeld, mechanism, listening, forgotten,
                 parked, lost, worker, reporting, stopClosed, writer, verdict, told>>

\* sweepDeferred: a parked read is named and published, or given up.
Sweep(r) ==
  /\ r \in parked /\ parked' = parked \ {r}
  /\ \/ Deliver(r) /\ UNCHANGED lost
     \/ Counted(r)
  /\ UNCHANGED <<reads, proc, born, control, muHeld, mechanism, listening, forgotten, raw,
                 worker, reporting, stopClosed, writer, verdict, told>>
-----------------------------------------------------------------------------
(***************************************************************************)
(* EventWatcher.Start and Stop, called one at a time (under opMu).         *)
(***************************************************************************)

Start(m) ==
  /\ control = "off" /\ Len(reads) < MaxReads
  /\ control' = "starting" /\ muHeld' = TRUE /\ mechanism' = m
  /\ events' = <<>> /\ stopClosed' = FALSE
  /\ forgotten' = (m = "etw") /\ raw' = <<>> /\ parked' = {} /\ lost' = {}
  /\ seen' = {} /\ broken' = FALSE
  /\ UNCHANGED <<reads, proc, born, listening, worker, reporting, armed, buffered, log,
                 bufferedGaps, gaps, verdict, silent, told>>

\* The source starts, or refuses to.  A trace may have something to report before it
\* returns: a rundown, a snapshot or a barrier that failed, though monitoring goes on;
\* or a consumer that failed, whose goroutine Start then waits for.
StartSource ==
  /\ control \in {"starting", "degraded"} /\ "control" \notin reporting
  /\ \/ /\ control' = "started" /\ listening' = TRUE /\ forgotten' = FALSE
        /\ UNCHANGED <<muHeld, reporting>>
     \/ /\ control' = "off" /\ muHeld' = FALSE
        /\ UNCHANGED <<listening, forgotten, reporting>>
     \/ /\ control = "starting" /\ mechanism = "etw"
        /\ control' = "degraded" /\ reporting' = {"control"}
        /\ UNCHANGED <<muHeld, listening, forgotten>>
  /\ UNCHANGED <<reads, proc, born, mechanism, raw, parked, lost, queue, worker,
                 stopClosed, writer, verdict, told>>

\* onWatcherError, BroadcastState, and CurrentState, which asks Running() and Dropped()
\* of this watcher: w.mu is needed.
Report(who) ==
  /\ who \in reporting /\ ~muHeld /\ reporting' = reporting \ {who}
  /\ told' = Len(reads)
  /\ UNCHANGED <<reads, proc, born, control, muHeld, source, queue, worker, stopClosed,
                 writer, verdict>>

Started ==
  /\ control = "started" /\ control' = "on" /\ muHeld' = FALSE /\ worker' = "run"
  /\ UNCHANGED <<reads, proc, born, source, queue, reporting, stopClosed, writer, verdict,
                 told>>

\* (a slip: w.mu is given back when everything is over)
StopHolding ==
  /\ control = "on" /\ control' = "stopping" /\ muHeld' = TRUE
  /\ forgotten' = (mechanism = "etw")
  /\ UNCHANGED <<reads, proc, born, mechanism, listening, raw, parked, lost, queue, worker,
                 reporting, stopClosed, writer, verdict, told>>

\* The source is called without w.mu.  etwSource.Stop forgets its watcher first.
Stop ==
  /\ control = "on" /\ control' = "stopping"
  /\ forgotten' = (mechanism = "etw")
  /\ silent' = IF mechanism = "etw" THEN silent \cup (lost \ seen) ELSE silent
  /\ UNCHANGED <<reads, proc, born, muHeld, mechanism, listening, raw, parked, lost, events,
                 worker, reporting, stopClosed, writer, verdict, told>>

\* The subscription is closed, or the trace session stopped.
SourceCloses ==
  /\ control = "stopping" /\ control' = "draining" /\ listening' = FALSE
  /\ UNCHANGED <<reads, proc, born, muHeld, mechanism, forgotten, raw, parked, lost, queue,
                 worker, reporting, stopClosed, writer, verdict, told>>

\* The source's goroutine ends.  The final sweep of a trace leaves nothing parked; parse
\* may leave its loop with raw not empty.  Then w.stop is closed.
SourceStopped ==
  /\ control = "draining" /\ control' = "waiting" /\ stopClosed' = TRUE
  /\ parked = {} /\ raw' = <<>> /\ silent' = silent \cup ToSet(raw)
  /\ UNCHANGED <<reads, proc, born, muHeld, mechanism, listening, forgotten, parked, lost,
                 events, worker, reporting, writer, verdict, told>>

Stopped ==
  /\ control = "waiting" /\ worker = "off" /\ control' = "off" /\ muHeld' = FALSE
  /\ UNCHANGED <<reads, proc, born, source, queue, worker, reporting, stopClosed, writer,
                 verdict, told>>
-----------------------------------------------------------------------------
(***************************************************************************)
(* The worker.                                                             *)
(***************************************************************************)

\* (a slip: whoever has the id now is taken for the reader)
IdentityNow(r) == IF mechanism = "sacl" THEN reads[r] ELSE proc

\* Event 4663 says who read.  For a trace, processIdentity asks who has the id, and
\* refuses a process that has exited or that started after the read.
Identity(r) ==
  CASE mechanism = "sacl" -> reads[r]
    [] mechanism = "etw" /\ proc # 0 /\ proc <= reads[r] -> proc
    [] OTHER -> 0

\* onError waits for w.mu like any report.
Free == "worker" \notin reporting
ReportIf(failed) == reporting' = IF failed THEN reporting \cup {"worker"} ELSE reporting

\* A read of this process, outside the folders, or of a directory is not wanted, and an
\* excluded process is not shown.  Write puts the others into the buffer, unless the
\* file has failed before: bufio keeps the error.  Viewers see the event either way.
Handle ==
  /\ worker \in {"run", "drain"} /\ Free /\ events # <<>>
  /\ events' = Tail(events)
  /\ LET r == Head(events) who == Identity(r)
     IN \/ hidden' = hidden \cup {r} /\ UNCHANGED <<named, buffered, armed, reporting>>
        \/ /\ named' = [named EXCEPT ![r] = who]
           /\ \/ /\ who \in Excluded /\ hidden' = hidden \cup {r}
                 /\ UNCHANGED <<buffered, armed, reporting>>
              \/ /\ who \notin Excluded /\ UNCHANGED hidden
                 /\ armed' = (armed \/ worker = "run")
                 /\ buffered' = IF broken THEN buffered ELSE buffered \cup {r}
                 /\ ReportIf(broken)
  /\ UNCHANGED <<reads, proc, born, control, muHeld, source, silent, worker, stopClosed,
                 seen, log, bufferedGaps, gaps, broken, told>>

Losses == IF forgotten THEN {} ELSE lost

\* recordGaps: what is new is noted whether or not it can be written.
News == Losses \ seen
Note == seen' = seen \cup Losses

\* recordGaps and Flush: all goes to the file, or the file fails.
ToFile ==
  /\ Note
  /\ \/ /\ ~broken /\ UNCHANGED <<broken, reporting>>
        /\ log' = log \cup buffered /\ buffered' = {}
        /\ gaps' = gaps \cup bufferedGaps \cup News /\ bufferedGaps' = {}
     \/ /\ broken \/ buffered \cup bufferedGaps \cup News # {}
        /\ broken' = TRUE /\ ReportIf(TRUE)
        /\ UNCHANGED <<log, buffered, gaps, bufferedGaps>>

Flush ==
  /\ worker = "run" /\ Free /\ armed /\ armed' = FALSE
  /\ ToFile
  /\ UNCHANGED <<reads, proc, born, control, muHeld, source, queue, worker, stopClosed,
                 verdict, told>>

\* (a slip: a gap waits for the next event to be flushed with)
GapTickUnarmed ==
  /\ worker = "run" /\ Free /\ News # {}
  /\ Note /\ ReportIf(broken)
  /\ bufferedGaps' = IF broken THEN bufferedGaps ELSE bufferedGaps \cup News
  /\ UNCHANGED <<reads, proc, born, control, muHeld, source, queue, worker, stopClosed,
                 armed, buffered, log, gaps, broken, verdict, told>>

\* The ticker: a gap reaches the log when nothing else is written.
GapTick ==
  /\ worker = "run" /\ Free /\ News # {}
  /\ Note /\ ReportIf(broken)
  /\ bufferedGaps' = IF broken THEN bufferedGaps ELSE bufferedGaps \cup News
  /\ armed' = (armed \/ ~broken)
  /\ UNCHANGED <<reads, proc, born, control, muHeld, source, queue, worker, stopClosed,
                 buffered, log, gaps, broken, verdict, told>>

\* The worker's select has come to the closed stop.
SeesStop ==
  /\ worker = "run" /\ Free /\ stopClosed
  /\ worker' = "drain" /\ armed' = FALSE
  /\ UNCHANGED <<reads, proc, born, control, muHeld, source, queue, reporting, stopClosed,
                 seen, buffered, log, bufferedGaps, gaps, broken, verdict, told>>

\* (a slip: what is still queued is left there)
LastPassUndrained ==
  /\ worker = "drain" /\ Free /\ worker' = "last"
  /\ ToFile
  /\ UNCHANGED <<reads, proc, born, control, muHeld, source, queue, stopClosed, armed,
                 verdict, told>>

\* The queue is empty: the last gaps and the last flush.
LastPass ==
  /\ worker = "drain" /\ Free /\ events = <<>> /\ worker' = "last"
  /\ ToFile
  /\ UNCHANGED <<reads, proc, born, control, muHeld, source, queue, stopClosed, armed,
                 verdict, told>>

\* writer.Close: what a failed flush left in the buffer is gone.
WorkerEnds ==
  /\ worker = "last" /\ Free /\ worker' = "off"
  /\ buffered' = {} /\ bufferedGaps' = {}
  /\ UNCHANGED <<reads, proc, born, control, muHeld, source, queue, reporting, stopClosed,
                 armed, seen, log, gaps, broken, verdict, told>>
-----------------------------------------------------------------------------
Starting == (\E m \in {"sacl", "etw"} : Start(m)) \/ StartSource \/ Started

Stopping == Stop \/ SourceCloses \/ SourceStopped \/ Stopped

Working == Handle \/ Flush \/ GapTick \/ SeesStop \/ LastPass \/ WorkerEnds

Next ==
  \/ Exit \/ Reuse
  \/ Read \/ Parse \/ \E r \in Happened : Sweep(r)
  \/ Starting \/ Stopping \/ Working
  \/ \E who \in {"control", "worker"} : Report(who)

Spec == Init /\ [][Next]_vars

\* Goroutines run, what Start and Stop call returns, and timers fire.  A drain waits 30
\* seconds and closes the consumer, so the final sweep comes.
Fairness ==
  /\ WF_vars(StartSource) /\ WF_vars(Started)
  /\ WF_vars(SourceCloses) /\ WF_vars(SourceStopped) /\ WF_vars(Stopped)
  /\ WF_vars(Parse) /\ WF_vars(control = "draining" /\ \E r \in Happened : Sweep(r))
  /\ WF_vars(Handle) /\ WF_vars(Flush) /\ WF_vars(GapTick) /\ WF_vars(SeesStop)
  /\ WF_vars(LastPass) /\ WF_vars(WorkerEnds)
  /\ \A who \in {"control", "worker"} : WF_vars(Report(who))

FairSpec == Spec /\ Fairness
-----------------------------------------------------------------------------
(***************************************************************************)
(* Properties.                                                             *)
(***************************************************************************)

\* When monitoring is off, every read the owner asked about is in the log, or in a
\* gap the log tells of, or was hidden because the owner wanted it, or is one of those
\* the sources lose silently; or else the owner has been told that the log cannot be
\* written (EventWatcher.Stop, worker, recordGaps, Writer.Close).
NothingElseIsSilent ==
  control = "off" => Happened \subseteq log \cup gaps \cup hidden \cup silent \cup 1..told

\* Nobody is blamed for what another process read with the same id (processIdentity,
\* startedBefore), and so nothing is hidden under another's name.
NobodyIsBlamed == \A r \in Happened : named[r] \in {0, reads[r]}

\* What the source has counted reaches the log although nothing else happens, or the
\* owner is told of a broken log (the gap ticker of the worker).
Untold == ~(lost \subseteq gaps \cup silent \cup 1..told)
GapsReachTheLog == Untold ~> ~Untold

\* Stop returns, whatever the worker and the source have to report meanwhile.
StopReturns == control = "stopping" ~> control = "off"

\* Start returns ("That is a degraded start, not a failure to monitor").
StartReturns == control = "starting" ~> control \in {"on", "off"}
=============================================================================
