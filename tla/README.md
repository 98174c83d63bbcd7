# ReadWatch: a verification project

ReadWatch (`src/`) is a Windows service and a viewer that log which process reads the files of chosen folders. This
directory holds TLA+ models of its service, the TLC runs that check them and proofs checked by TLAPS. File names below
are relative to `src/cmd/readwatch/` unless a directory is given.

1. [The system](#1-the-system)
2. [Plan](#2-plan)
3. [The monitoring transaction](#3-the-monitoring-transaction-monitoringtla)
4. [The lease](#4-the-lease-leasetla-sessiontla)
5. [From a read to the log](#5-from-a-read-to-the-log-pipelinetla)
6. [How a trace names a read](#6-how-a-trace-names-a-read-correlationtla)
7. [The desktop](#7-the-desktop-viewertla-installationtla)
8. [From paths to handles](#8-from-paths-to-handles-bindingtla)
9. [Runs](#9-runs)
10. [Disagreements found](#10-disagreements-found)
11. [Proofs](#11-proofs)
12. [What is not modelled](#12-what-is-not-modelled)

## 1. The system

### Components

**Monitoring transaction** (`service_windows.go`, `transaction_windows.go`). The `ServiceEngine`. State: the
configuration in memory (`cfg`, which is also the recovery journal), the handles held (`active`), the watcher, the rules
it could not withdraw (`pendingRules`), the last error. One mutex, `opMu`, serialises its operations: the hello of a
viewer, Start, Stop/Cleanup, Apply (an owner's Save, a preference, or a refresh after a device change) and Shutdown.
Each changes three stores one step at a time: the machine (audit rules, audit policy), the configuration file and the
memory. Hard: crashes and failures between any two steps, rollback, returning to the old configuration, drives that
leave. Correct when everything ReadWatch did to the machine is recorded where a fresh process finds it, when only
objects the owner chose are touched, and when a reported success is true.

**Audit policy and auditing rules** (`audit_windows.go`). Reads, writes and compares the machine-wide File System audit
policy and the SACL of a folder. Correct when only the exact value ReadWatch applied is ever taken back.

**Capabilities** (`capability_windows.go`). Opens the configured folders and the log under the owner's token, pins them
against renaming and deletion, records their identity, and reopens an object by identity. Correct when a path that
now names another object is never watched unless the owner saves, and when an absent drive is told from a deleted folder.

**Configuration and journal** (`internal/settings/config.go`, `mechanism.go`). The file's schema, its atomic
replacement, normalisation, migration, and the choice between audit rules ("markers") and event tracing ("etw").

**IPC and leases** (`ipc_windows.go`, `internal/protocol`). A named pipe: one accept loop, a reader and a writer per
client. Viewers hold the service's lease; a startup timer, an orphan timer and the operations in flight decide when the
service stops. Hard: a timer racing a hello, a close racing a hello, stop requests that are deferred.

**Event pipeline** (`eventwatch_windows.go`, `etwsource_windows.go`, `internal/logsink`). A source (event log
subscription or trace) delivers into a bounded queue; one worker filters, writes the log and reports gaps. Correct when
every read that was lost is counted and said in the log, when what was delivered before a stop is written, and when
starting and stopping never wait on each other.

**ETW watcher** (`internal/etw`). Correlates read starts, completions and file names of a kernel trace. Bounded maps of
names with two generations, a snapshot of names at startup, parked reads, a session that outlives the process. Correct
when a read is never attributed to the wrong file and everything unresolved is counted.

**Install and uninstall** (`install_windows.go`). Copies files, creates the service, and on removal stops the service,
cleans up through it or directly, and asks before forgetting records it cannot resolve.

**Viewer** (`ui_windows.go`, `settings_windows.go`, `hint_windows.go`). A window, a dialog, one command in flight,
coalesced device refreshes, a ring of recent events.

### How they interact

The viewer sends commands over the pipe; a reader goroutine calls the engine and the reply carries the state. The engine
binds the owner's folders through the pipe client's token, changes the machine, saves the file and starts the watcher
with duplicated handles. The watcher's worker calls back into the engine (`onEvent`, `onWatcherError`), which broadcasts
through IPC. The lease asks the service manager for a stop; the control handler's shutdown runs the same transaction as Stop.
Drives, other administrators and the service manager act at any moment.

## 2. Plan

The most important behaviour first. All steps are done.

| Step | Modules | Contents |
| --- | --- | --- |
| 1 | `Monitoring`, `MCMonitoring` | The transaction with the journal, the policy, the bind, crashes and drives. |
| 2 | `Session`, `Lease` | What the lease promises, and the connections, timers, operations and stop that implement it. |
| 3 | `Pipeline` | Source, queue, worker, log and gaps; the mutex of Start and Stop. |
| 4 | `Correlation`, `MCCorrelation` | Names, the snapshot, pending and parked reads. |
| 5 | `Viewer`, `Installation`, `MCInstallation` | The window's mailbox, command and device timer, composed with the two programs that install and remove. |
| 6 | `Binding`, `MCBinding` | The walk to each folder and the log, call by call, under renames and drives that leave; the choice of the mechanism; the rules' roots. |
| 7 | `MonitoringProofs`, `PolicyProofs`, `RulesProofs`, `LeaseProofs`, `BindingProofs`, `PipelineProofs`, `CorrelationProofs`, `InstallationProofs` | Every safety property of steps 1 to 6 and the lease's refinement. Liveness is left to TLC. |

## 3. The monitoring transaction (`Monitoring.tla`)

### State

| Variable | Code |
| --- | --- |
| `sacl`, `policy` | the SACL of every folder and the audit policy: a set of entries, a set of flags |
| `owned`, `polOwned` | ghosts: what ReadWatch added and nobody has edited since |
| `names`, `there`, `gone` | what a path refers to, which volumes are attached, which folders were deleted |
| `disk` | the configuration file: `audit_snapshots`, `audit_policy`, `enabled`, `folders`, `mechanism`, `folder_bindings` |
| `service`, `running`, `mem`, `active`, `pending`, `result` | the process, `watcher.Running()`, `e.cfg`, `e.active`, `e.pendingRules`, what the last operation returned |
| `pc`, `op`, `stage` | the point reached in the operation that holds `opMu`, which one it is and in which part of it |
| `cfg`, `bnd` | its local configuration and its `BoundConfig` |
| `todo`, `deferred`, `done`, `cur`, `hand` | records left to withdraw, those on absent drives, folders marked so far (`applied`), the one in progress, the object behind the handle being undone |
| `failed`, `restoring` | an error has been met; `restoreRunning` is under way |
| `events` | faults and outside events so far |

### Actions

One action per system call or save, because a crash or a drive may fall between any two. An operation begins with
`BeginHello`, `BeginStart`, `BeginSave`, `BeginApply`, `BeginStop` or `BeginShutdown` and goes through the shared
sections of the code: `Bind`; `removeAuditRule` (`WithdrawRule`, `SettleWithdrawal`, `DropRecord`, `DeferRecord`,
`WithdrawFails`, `Withdrawn`); `restoreFileSystemAuditPolicy` (`RestorePolicy`, `ForgetPolicy` and the two that end it
early); `startWithCapabilities` (`BeginRun`, the three policy steps, the five marking steps, `Commit`, `Launch`,
`LaunchFails`, `Disable`); and the ends (`Failed`, `HelloDone`, `RecordBound`, `StopSave`). `stage` says for whom a
section runs, and `Resume` where it goes on. Save succeeds or leaves the file alone, as the rename at the end of
`settings.Save` does. The process: `RequestStop`, `Crash`, `Boot`. The world: `Detach`, `Attach`, `Reassign` (renaming
on one volume, or a letter taken by another), `Delete`, `EditRules`, `EditPolicy`; a held handle prevents renaming
and deletion and dies with its volume.

### Abstractions

The header of the module lists them. Two more are worth a reader's attention.

*Bounds.* `MaxEvents` bounds the faults and outside events of a behaviour, nothing else is bounded: operations may
follow each other for ever. Two events are enough for the interesting combinations (a crash after a failure, a drive
that leaves with a folder replaced meanwhile). `monitoring_replace` with three events and markers only has 2 million
states and no violation either, and what section 11 proves is proved for any number.

*Gaps.* There are windows in which the code, as written, does not survive a fault. They are named, and a fault strikes
in one only when the constant `Gaps` has its name: `unconfirmed` (a fault or a departing drive once a start has changed
an object the engine's own copy does not know), `reenabled` (a crash or failed save after the policy was set from a
record that is no longer on disk) and `raced` (another administrator's edit between ReadWatch's read and its write). The
first two are the disagreements of section 10, each with a run that opens only its window. `raced` is the operating
system's missing lock. What must hold in spite of all three is proved for any `Gaps`
(section 11, authority).

### Properties

| Property | Says |
| --- | --- |
| `TypeOK` | the type invariant |
| `RulesAreJournalled` | every rule that is ReadWatch's has a record *on disk* from which a fresh process can take it away |
| `PolicyIsJournalled` | the same of the audit policy |
| `NothingUnnamed` | after an operation that returned success, what is left on the machine is what is being watched and what is named as pending |
| `OnlyAuthorised` | a rule only appears on the object bound to its path, or on the one found by an owner's Save, or on the first one |
| `BindingsSurvive` | only a Save changes which object a configured path stands for |
| `ActiveIsBound` | what is watched is configured, under the recorded identity, through every failed change and return |
| `LaunchIsBacked` | when the watcher starts on audit rules, every folder it is given has one and the policy is on |

No fairness is assumed and no liveness checked in this module yet: the properties are about what a step may do. Deadlock
is not checked: a service that is down, with no event left, may stay so.

## 4. The lease (`Lease.tla`, `Session.tla`)

`Lease` is `ipc_windows.go` with the end of the service from `service_windows.go`. Each section of code under `leaseMu`
is an operator (`ViewerHello`, `ClientClosed`, `OperationStarted`, `OperationFinished`, `LeaseExpired`), and the steps
around them are actions of the goroutine that takes them: the accept loop (`Connect`, `Register`, `AcceptEnds`), a
connection's reader (`ReadHello` and `TakeLease` apart, because `greeted` is set before the lease is taken; `ReadCommand`,
`Begin`, `Work`, `Finish`, `ReaderEnds`) and its writer (`WriterCloses`), the timers (`Fire` starts a goroutine that may
run `LeaseExpired` much later), the lease's stop (`LeaseStops`), the control handler, and `serviceMain` (`Shutdown`,
`Cleanup`, `Stopped`). `at[c]` is the reader's place, `open[c]` says `close()` has not run; `close()` may come first from
either goroutine or from the stop. `Wedge` is the operation that never ends (disagreement 4 of section 10): it holds `opMu`,
and with it every other operation and the `Cleanup` of a stop wait for ever.

*A connection closed between hello and lease.* Nothing keeps the writer from closing a connection after its reader has
decoded the hello and before `viewerHello` has run (`ipc_windows.go:395-398` against `:431-434`). `clientClosed` then gives
back a lease that is still to be taken, or another viewer's, or none, depending on what of `greeted` and `role` the writer
sees; and `viewerHello` takes one that nobody returns. `WriterCloses` does all three. The history `cut` counts such
connections and `Early` has those whose lease is still to come, and the properties say exactly what they may spoil.

| Property | Says |
| --- | --- |
| `CountersAreTrue` | until Stop, operations in flight are counted exactly, and the viewers that hold the service are no more than are counted, but for one overlooked for each connection in `Early`, and no fewer, but for one too many for each connection ever cut |
| `ImplementsSession` | the refinement: `Session` is what the comments promise. The service lets itself go only when nobody holds it and nothing is in flight, or while a connection is in `Early`; when it has ended monitoring is off |
| `AbandonedStops` | if from some time on no client is there, the service stops, unless it is wedged or for ever counts a lease that nobody holds, and then a connection was cut |

Who holds the service and what is in flight (`Holders`, `Busy`) is told from where the goroutines *are*, never from the
counters. The second exception of `AbandonedStops` is a disagreement with the comment at `ipc_windows.go:57-58` (section 10):
without it TLC refutes the property within seconds.

*Fairness.* Weak, for goroutines that can go on, for timers, and for the mutexes of Go, which let a waiter in. `Work`, an
operation, is fair while `opMu` can be had; whether an operation hangs is `Wedge`'s choice. A client owes
nothing: one that is connected may never read, and then the answer to a command waits (`Finish` is only fair for a hello,
whose answer goes through a queue that is empty, or once the connection is closed). A writer is fair only when there is an
answer to deliver to a client that has gone.

*Bounds.* Two connections, so that one viewer's close meets another's hello; one connection cut (`MaxCut`), which with the
other is enough for a lease overlooked and for one left behind; one timer that has fired and not yet run
(`MaxFired`); connections and commands are unlimited.

## 5. From a read to the log (`Pipeline.tla`)

A read is a number; `reads` says which process made it. It is delivered by the Security log (through `raw` and `Parse`)
or by a trace (at once, or from `parked` by `Sweep`), waits in `events`, and is handled by the worker (`Handle`), which
puts it down to a process (`Identity`), hides it or buffers it. `Flush`, `GapTick`, `LastPass` and `WorkerEnds` move the
buffer to the file, or meet a file that fails: `bufio` keeps its first error. The goroutine that starts and stops is at
`control`, and holds `w.mu` for the whole of a start but in a stop only briefly. `Report` is a report to the owner, which
needs `w.mu`.

`NothingElseIsSilent`: once monitoring is off, each read is in the log, in a gap, hidden on purpose, covered by an error the
owner has been told of, or one of three losses the code is silent about. Those three are the ghost `silent`, filled only
where they happen: an event that finds `w.events` full is counted in a number no gap reads (`eventwatch_windows.go:269`);
what is in `raw` when `parse` stops is not counted (`:105`); and what a trace counts after `etwSource.Stop` has forgotten
its watcher (`etwsource_windows.go:79`). The property says there is no fourth. `NobodyIsBlamed`: a read is never put down
to a process that got the id later. `GapsReachTheLog` and `StopReturns` are liveness.

*Fairness.* Weak, for the worker, the source's goroutines, timers, and what Start and Stop call. Nothing is assumed of
the owner (who need not stop), of the readers, or of the file. A sweep is fair while a trace is being drained, because the
drain is cut off after thirty seconds.

*Bounds.* Queues of one place, so that each can be full while another read arrives; three reads; two processes with the
same id, one of them excluded; starts and stops follow each other as long as reads are left.

## 6. How a trace names a read (`Correlation.tla`)

The kernel's side (`file`, `key`, `busy`) and the watcher's are one module, because its records arrive in order: `Open`,
`Close`, `GiveUp` (the last name of a key), `Rundown`, `Read`, `Write` and `OperationEnds` are each what the kernel does
and `onEvent`'s handling of the records. Any of them may lack records, at up to `MaxMissed` steps: the session lost them, or
they do not decode. An open has two (name and object) and so has a key that is given up (`evNameDelete` and
`fileIoFileDelete`, which retire different maps); each can be lost without the other. An answer to the rundown that is lost is
one that does not come; a read whose start is lost is a `Write`. `names` has the two
generations with the three maps each; `Learned`, `Forgotten`, `Lookup` and `Promoted` are the methods on them. `Sweep`,
`Try` and `Repark` are the three parts of `sweepDeferred`, between which records are handled. `Start`, `TakeSnapshot`,
`MergeBegins`, `MergeName`, `EnableReads`, `Stop`, `FinalSweep` and `Stopped` are the watcher's life. The names of the snapshot
are merged one at a time, in any order, because each may rotate the generations and what the next is compared with is
the current one; the lock is held over all of it, so no record is handled meanwhile (`Going`).

`NamesAreTrue` is the point of the component: what is published carries the name of the file that was read, although
object, key and IRP all mean something else a moment later. It has two exceptions, which the code cannot tell from the rest and
which are in `stale`.

- A read that had no name when its object or key was given to another file. A comment (`watcher_windows.go:998`) says such a read
  "becomes a counted gap rather than a guess"; in fact a later sweep looks its object and key up again, and may find the new file.
  Only a lost record or a file opened before the session makes a read nameless.
- A read that started with a name that should have been taken back. When a `Close` is lost, or a `NameDelete` or `FileDelete`,
  the entry it would have removed stays (`lingering`) until another record takes it back or replaces it; if the address is given to
  another file whose own record is lost too, or that carries the name only in another map, the old name is found. The same happens
  through the snapshot: a key that both records of its deletion fail to note in `retiredDuringInit` is merged under its old name
  (`watcher_windows.go:507-516`); the instance reaches it in twelve steps.

The property says that these are all: with every loss allowed, a wrong name needs a nameless read or an entry that lingers.

`OutcomesAreTrue` says the same of success and failure. `misled` has the reads judged by the end of another operation whose *start*
is in the trace, and is always empty: an open that takes the IRP condemns the read that waits on it (`quarantine`), and so does another
read (`pend`). `guessed` has those judged by the end of an operation that was not seen to start: a write, or an open or read whose own
record was lost. That can happen, and the property says when: only to a read that was waiting when its own end was lost (`orphaned`).
`ReadsAreAccounted`: every read is at one place, and what was given up is in the counters; a read whose end was lost and which has not
expired by the end stays `pending`, and is in no counter.

*Bounds.* One object, one key, so that every reuse happens; two files; two IRPs; every table of size one, so that each
rotation, drop and crowding happens; two reads; two opens, one of which may have been before the session; one step with lost
records, any of them. Files and IRPs are symmetric. Two such steps were explored in part only (2 million states, no
violation); the proofs of section 11 are for any number. Objects and keys
of size two, with a single read, were too large to add as a run of its own. No liveness: a watcher need not be stopped.

## 7. The desktop (`Viewer.tla`, `Installation.tla`)

`Viewer` is the process with the window. `Put` and `Post` are the two halves of `queueState`, `Take`, `Lower` and
`LookAgain` the three of `drainState`: slot and flag have no common lock. One command is in flight (`command`, `stage`),
begun by the owner (`Press`) or by the window itself when a device change has settled (`DeviceChange`, `DevicesChanged`),
carried out by a goroutine (`Dispatch`), ended by the reply (`Receive`) or by giving up (`GiveUp`). The service is what a
viewer sees of it: it may be started, say anything in `Told`, answer or not, and end.

`Installation` extends it with the two programs. `tool` is the next step of the one that runs; each may `Fail`, be killed
(the same) or be cut off by `Restart`. What the service has left by the time a program begins is any combination that
`Monitoring` permits: every rule has a record, perhaps a record has no rule, a trace session may be left from a kill. Drives
move while a program runs (`Move`).

| Property | Says |
| --- | --- |
| `RulesAreNamed` | a rule on a drive has its record in the configuration, or the owner has agreed to leave that one, however a removal ends |
| `InstallationStays` | an installation that succeeds is not deleted at the next restart by an older removal's order |
| `NothingIsLeftRunning` | a removal that succeeds leaves neither service nor trace session |
| `StatesReachTheWindow` | a state in the slot is fetched, or a drain returned early just then (`woken`) |
| `CommandsEnd` | a command does not stay in flight for ever |
| `DrivesAreAskedFor` | after a device change a folder that waits is asked for, unless it stops waiting or monitoring is off |

`woken` is the one interleaving of slot and flag in which a state stays: a message left over from before finds the slot
empty, the next state is put in while the flag is still up, and the drain lowers the flag and returns without looking
again (`ui_windows.go:723`). It is shown when the next state comes. `drainError` (784) never looks again either; it is not
in the model.

*Fairness.* Weak for the goroutines (`Post`, a command's end, which has a timeout) and for a drain that has begun; strong
for the window's taking of a message and of a timer, because the window thread does other things between and handles
messages in order. Nothing is assumed of the service or the owner.

*Bounds.* One drive and two moves in the run that holds: with two drives `RulesAreNamed` is violated (section 10), by the
absence of one during the return of the other, which one drive cannot do. Three things for the service to say.

## 8. From paths to handles (`Binding.tla`)

`Monitoring` takes a bind as one step; here it is what `capability_windows.go` makes of it, a step for each call that looks at
the disk, while other programs move (`Move`), delete and replace what the path leads through, drives leave and come back,
and letters change hands (`Reassign`).

| Variable | Code |
| --- | --- |
| `place`, `plugged`, `letter` | the name space: where each thing is, which volumes are there, what a letter names |
| `at`, `i` | the call reached in `mechanismFor` and `bindOnLockedThread`, and the path it is about |
| `use`, `client` | the preference and then the mechanism; whether the thread carries the client's token |
| `traits`, `volume`, `guards`, `leaf` | locals of a walk: what `volumeTraits` said, the volume's GUID, `walkAncestors`' handles, the leaf's |
| `folders`, `away` | `BoundConfig.Folders` and `Unavailable`, with `waiting` for a transient reason |
| `identity`, `owner`, `secure`, `log` | a capability's identity, its pinning handle, the handle the service opened by identity, the log |
| `roots` | the folders that carry a rule (`effectiveAuditRoots`) |

`Survey` asks each letter what its volume can carry; `Impersonate` takes on the token; `Locate`, `Name`, `OpenRoot`, `OpenDir`,
`OpenLeaf` and `Confirm` are the walk to a folder, the last with `requireFinalPath`; `OpenLog` ends the walk to the log, which
it may create, and drops the token; `Upgrade` opens every folder again by its identity, backwards; `Changed` is the comparison
with what was recorded, whose rule is `Monitoring`'s; `Accept` starts the session, `End` closes everything. `Busy` is another
program that holds what is to be opened.

| Property | Says |
| --- | --- |
| `AdmittedWhereItStands` | a folder or log that is admitted is what its path names on its volume at that moment, through ordinary directories, although it was reached one call at a time |
| `WatchedStayWhereTheyAre` | from then to the end of the session it stays there, unless its drive leaves |
| `OnlyTheOwners` | nothing is held that the owner's own token may not open, whoever opened it |
| `SecondHandleIsTheFirst` | the service's handle is the object the client opened and whose identity is recorded |
| `EveryFolderAnswered` | each configured folder is open, twice where it has an identity, or reported with a reason |
| `ChoiceAndBindAgree` | markers are never chosen for folders that are then bound without identity, although a letter may change hands between the two: the refusal its comment calls impossible to reach is so |
| `RulesCover` | each folder watched by markers lies under exactly one rule, on a folder that is open |
| `NothingStaysOpen` | no guard outlives its walk, no handle a folder that was given up, none a bind that failed |

*Assumptions.* The configured folders are distinct (`Config.Normalize` removes repetitions), a directory's entries have distinct
names, each thing stays on its volume, and a file that is created on the way is the client's (`PathAssumption`, `PlaceAssumption`):
but for the first these are the file system's. `MarkAssumption` only keeps the values that stand for nothing apart from the rest.

*What it rests on.* A handle without `FILE_SHARE_DELETE` keeps its object from being renamed or deleted; one without data
access (the second) keeps nothing. Windows also refuses to rename a directory with an open descendant; the model does not,
so the guards must do it. With the guards, nothing reaches `Confirm`'s refusal in the instance: `requireFinalPath` is a second
line of defence. The log has none; for it `AdmittedWhereItStands` needs its volume to stay during the walk, and the
instance has it on a fixed one.

*Bounds.* Two nested folders, a junction to one of them, a folder that is not the owner's and the log's directory on a fixed
volume, and a letter that an NTFS and an exFAT drive share: each check of the walk has something to refuse. Four events, which
is enough to move a directory out, another in and both back, or to change drives twice.

## 9. Runs

The five runs of the transaction. All use `MCMonitoring`, where `o1` and `o2` are reached under path `p1` and `o3` under `p2` on a drive of its own; `o1`
already has somebody else's audit rule and failures were already audited, so that restoring is not the same as clearing.

| Run | Instance | Shows |
| --- | --- | --- |
| `monitoring_replace` | `o1`, `o2` on one volume under one path, automatic mechanism, 2 events | all but `LaunchIsBacked`, when a folder is replaced, deleted or edited, with crashes and failing saves |
| `monitoring_two` | `o1` and `o3` on two drives, markers, 2 events | `RulesAreJournalled`, `NothingUnnamed`, `LaunchIsBacked` when one operation withdraws, defers and rolls back |
| `monitoring_unconfirmed`, `monitoring_reenabled`, `monitoring_reuse` | one path, one or two folders | expected violations, section 10 |

Two folders under one path are needed for replacement and for a letter that changes hands; two paths for an operation
that succeeds on one folder and fails on the other. Objects are not symmetric (they differ in path, volume and initial
SACL), so no symmetry is used.

The others:

| Run | Instance | Shows |
| --- | --- | --- |
| `lease_serves` | 2 connections, 1 of them cut, 680,000 states | types, `CountersAreTrue`, `ImplementsSession`, `AbandonedStops` |
| `pipeline_accounts` | 3 reads, 2 processes, queues of 1, 254,000 states | types, `NothingElseIsSilent`, `NobodyIsBlamed`, `GapsReachTheLog`, `StopReturns` |
| `pipeline_degraded` | the same | expected violation of `StartReturns` |
| `correlation_names` | section 6, 1.2 million states | types, `NamesAreTrue`, `OutcomesAreTrue`, `ReadsAreAccounted` |
| `desktop_holds` | 1 drive, 2 moves, 117,000 states | the six properties of section 7 and types |
| `desktop_abandoned` | 2 drives, 1 move | expected violation of `RulesAreNamed` |
| `binding_walks` | section 8, 4 events, 448,000 states | types and the eight properties of section 8 |

Deadlock is checked in `binding_walks` only: elsewhere a service that has stopped, a watcher that has ended, or a pipeline whose reads are used up
stays as it is.

## 10. Disagreements found

Each is what a comment of the source promises and the code does not do; the first five are shown by a run of their own.

1. **An unconfirmed rule** (`monitoring_unconfirmed`). The confirming save at the end of `applyAuditRule` fails. The rule
   is on the folder, the prepared record is on disk. The rollback covers only the folders in `applied`, and
   `startWithCapabilities` returns without updating `e.cfg`. The next save that starts from `e.cfg` writes a file
   without the record. (`transaction_windows.go:17-21`: "a crash anywhere leaves a record of what to undo".)
2. **A policy set again** (`monitoring_reenabled`). A failed change rolls the policy back and saves a file without its
   record. `restoreRunning` starts from `oldCfg`, which still has one, and `ensureFileSystemAuditPolicy` sets the policy
   before it saves. A crash between the two leaves success auditing on, with nothing on disk to say so.
   (`audit_windows.go:50-52`: "writing its intent to the journal before the change".)
3. **A letter that changed hands** (`monitoring_reuse`). Stop and Apply choose the handle a record is undone through by
   the record's *path*. With the record's drive out and another drive's folder held under that path, the record is
   compared with the wrong folder and dropped, and the rule stays on the absent one. (`transaction_windows.go:20-21`:
   "The record identifies objects by identity, never by the pathname that was used to reach them.")
4. **A degraded start that never returns** (`pipeline_degraded`). A rundown, snapshot or barrier that fails is reported
   through `onError` from inside `Watcher.Start` (`internal/etw/watcher_windows.go:452-480`). `EventWatcher.Start` holds
   `w.mu` over that call (`eventwatch_windows.go:221`); `onError` is `onWatcherError` (`service_windows.go:326`), which
   broadcasts a state, for which `CurrentState` asks `Running()`, which locks `w.mu`. The goroutine waits for itself, and
   the operation holds `opMu` for ever. (`internal/etw/snapshot_windows.go:126`: "That is a degraded start, not a failure to
   monitor.")
5. **A rule abandoned without a question** (`desktop_abandoned`). The cleanup leaves two records, their drives being out.
   One drive returns before `confirmUnresolvedAuditState` looks. `classifySnapshots` puts its record into neither list, the
   owner is asked about the other, and on a yes the configuration is erased with both. (`install_windows.go:445`: "Only the
   first kind may be abandoned, and only with the owner's say-so".)

6. **A lease nobody gives back** (the second exception of `AbandonedStops` in `lease_serves`; no run of its own). A viewer says hello
   and is killed; a broadcast to it fails, and its writer closes the connection before the reader has taken the lease. The lease
   is taken for a connection that is closed, both timers are cancelled, and no close will give it back: `viewerClients` stays
   above zero with nobody there. (`ipc_windows.go:57-58`: "Losing the last one stops it, so a killed viewer cannot strand a LocalSystem
   process".) The window is microseconds wide.

Noticed while modelling, without a run: a full queue's count is never made a gap, and the closing counters of a trace are gone before the final gap pass
(`eventwatch_windows.go:269`, `:301-304` against `etwsource_windows.go:79`), both exempted by name in `NothingElseIsSilent` (section 5); `retiredDuringInit` is never dropped when the snapshot fails, so it grows with every
file given up (`watcher_windows.go:498-523`); a device change that settles while the service is away is dropped
(`ui_windows.go:1105`); a comment in the viewer's shutdown (`ui_windows.go:1433`) says "The configured Enabled
flag is untouched, so relaunching resumes monitoring", while the service's `Shutdown` clears it and says so
(`service_windows.go:214`); installing from the installed copy does not close a running viewer; a failed `unregister` after the deletion has been ordered leaves an
entry in Installed apps that cannot be used after the restart; `nameMapMax` "bounds each generation of the name maps"
(`internal/etw/watcher_windows.go:83`), but `lookup` promotes a name into the current generation without asking whether
there is room (`:706-740`), so a generation may hold as many names more as the previous one had.

## 11. Proofs

Every safety property that section 9 checks of `Monitoring`, `Lease`, `Binding`, `Pipeline`, `Correlation` and `Installation` is a
theorem, for any values of the constants; where a theorem has a hypothesis, it is named below and the reason is a disagreement of section 10
or a fact about the machine. Each follows from an inductive invariant, which TLC checked first, in the instances of section 9.

The first four groups are about `Monitoring`'s `Spec`, for any sets of folders, paths and volumes, any initial
machine and any number of faults and events. The assumptions are the module's: what `Home`, `Vol`, `Modes` and `Gaps` range
over, that nothing carries ReadWatch's rule before its first run, that a path leads to an object reached under it, and that
`None` is neither a folder nor a record.

**Types** (`MonitoringProofs`). `TypeOKCorrect`. `TypeOK` is not inductive: an action that works on "the record of `cur`"
is only well typed when there is one. `Shape` says which locals each program point has set;
`TypeInv == TypeOK /\ Shape` is inductive (`TypeCorrect`). One lemma per section of an operation.

**Authority** (`MonitoringProofs`), whatever strikes in whatever window. `ActiveIsBoundCorrect`, `OnlyAuthorisedCorrect` and
`BindingsSurviveCorrect` follow from `AuthorityInv` (`AuthorityCorrect`). The three properties are about the bindings the engine
*has*, while an operation works with a copy of them over many steps and returns to the old ones through handles opened
long before; the invariant carries the agreement across. `Chosen`: what a bind opened is what was bound, or nothing was,
or the owner is deciding. `Settled`: until it commits, and unless it is being rolled back, the copy has the engine's
bindings. `Committed`: after it, the copy agrees with what was opened. `HeldIsBound`: the handles kept after a failed
change are still what the configuration names, which is why putting the old configuration back needs no new bind.
`Proper` (one object per path) makes the choice in `MergeBindings` unique. `Flow` is the little control the rest needs.

**The policy's journal** (`PolicyProofs`). `PolicyIsJournalledCorrect`, under `NoGaps == Gaps = {}`: with a window open the
property is false, as `monitoring_reenabled` shows. `PolicyInv` (`PolicyCorrect`) relates three copies of the record. While the policy is ReadWatch's,
the file tells what it is (`OnDisk`), and so do the operation's copy (`InHand`) and the engine's (`InMemory`),
except that during a start, and in the rollback of one, only the first two do. `TakenBack` says a rollback passes on only
once the policy is no longer ReadWatch's. The hard case is the policy that is set again when a change returns to the old
configuration: `Source` says the record it is set from is the engine's, and `Paired` that the file, if it still has a
record, has one of the same change, so that a kill right after the call finds it. `Course` lists the steps each stage passes through.

**The rules' journal** (`RulesProofs`). `RulesAreJournalledCorrect`, under `NoGaps` and `OneVolumePerPath`, which says that the
objects of one path are on one volume: a letter does not pass from one drive to another. Without it the property is false, as
`monitoring_reuse` shows; the code compares a record with the wrong folder. `RulesInv` (`RulesCorrect`) follows each
folder through the four places that know of it: the machine, the file, the engine and the operation's copy. `RuleInHand`: during an
operation, its copy can undo every rule that is ReadWatch's. `RuleInMemory`: so can the engine's, but for the folders marked since
(`Exposed`), which the rollback therefore has to reach (`GivenBack`). `Copied` and `Undone` bound the records of the copy while the
old rules are withdrawn, so that none is lost on the way. The hard step is a withdrawal that finds nothing to take away
and drops the record: that is right because the handle it looked through is of the record's own folder, found by identity or
the only one under its path (`HeldAlone`, `OutOfReach`), and that folder is there (`Standing`). The next hard one is a record that is prepared
a second time: `MarkedOnce` says a folder that is held and marked has a confirmed record, so that the rule of an
earlier run is never taken for somebody else's and put back later. `Underway` has the folder in progress: between two calls it is known what is on it and what its record says.

**Reported success** (`RulesProofs`). `NothingUnnamedCorrect` and `LaunchIsBackedCorrect`, under the same hypotheses, from `SuccessInv`
(`SuccessCorrect`) beside `RulesInv`. `Intents`: what a record says was applied includes ReadWatch's own rule, or success auditing for the policy's, in
all three stores, so that a folder that is found as its record says does carry the rule. `Kept` and `Named`: what a withdrawal puts off stays in the records, and is in `pending` from the moment the
operation can no longer fail before saying so. `Forgotten`: the policy's record goes with the policy. `Audible`: once a start on audit
rules is past the policy, success auditing is on, and every folder it has passed carries its mark; a fault that could undo
it in between is one of the windows.

**The lease** (`LeaseProofs`), about `Lease`'s `Spec`, for any finite set of connections and any bounds on timers that have fired
and not run and on connections cut. `TypeOKCorrect`, `CountersAreTrueCorrect` and `ImplementsSessionCorrect`, without hypotheses.
`LeaseInv` (`LeaseCorrect`) adds four things to `CountersAreTrue`, which
compares two counters with sets of connections: `Seated`, what the place of a reader says of its connection, so that a new one
adds to no set; `OnTheWay`, that only a viewer is about to take a lease; `CutsCounted`, that every connection in `Early` has been
counted as cut, which is what keeps the count of viewers from being too low once `Early` is empty again; and `Ending`, that the lease is over
and monitoring off by the time the service is where it is. One lemma
per step says what it does to `Holders`, `Busy` and `Early` (`Sets...`), and the preservation of the counters follows from that and the
cardinality of finite sets. The refinement takes each step in turn: `TakeLease`, `Begin`, `Finish`, `LeaseExpired` and the
closing of a connection are the steps of `Session` of the same meaning, the rest stutters; `LeaseExpired` is where the counters are
needed, because the code decides by them and `Session` by the sets.

**The bind** (`BindingProofs`), about `Binding`'s `Spec`, for any name space of that shape, any folders and log, any drives and any
number of moves. `BindingInv` (`BindingCorrect`) ties the locals of a walk to the call reached. `Position`: the
token is on exactly for the walks, the index points at the path in work, the guards of a walk are there while it lasts and
not after. `Ordinary`: what pins a place is a directory, and what the client opened is the owner's. `Captures` and `Capable`: an identity
is its leaf's, and a folder in the result is open. `Answered`: the folders before the index have their answer, which is the loop's
invariant. `Named`: the name space stays one under every move. `OnlyTheOwnersCorrect`, `SecondHandleIsTheFirstCorrect`,
`EveryFolderAnsweredCorrect`, `ChoiceAndBindAgreeCorrect`, `NothingStaysOpenCorrect` and `RulesCoverCorrect` follow; the
last needs that paths are two names deep, so that the outermost configured folder around another exists and is one.
The two action properties are about what the disk is at one moment against what calls found at earlier ones.
`WatchedStayWhereTheyAreCorrect`: a handle that pins its object refuses every move. `FoldersAdmittedCorrect`: each folder is, when its capability is made,
what its path names. `AdmittedWhereItStandsCorrect` says it of the log as well, under `FixedLog` (the log's letter names
a volume that cannot leave): nothing checks the log's final path, so the proof has to carry, through the walk, that the letter
still means the volume and that the directory is held (`OnTheWay`), which a drive that leaves in the middle would break.

**From a read to the log** (`PipelineProofs`), about `Pipeline`'s `Spec`, for queues of any size and any processes.
`NothingElseIsSilentCorrect` and `NobodyIsBlamedCorrect`. The first says something only of a pipeline that is off;
`PipelineInv` (`PipelineCorrect`) says where each read is at every step (`Accounted`: under way in a queue, a set or the buffer, or ended, except
while the worker is about to report an error, after which all that has happened is covered by it). `Emptied` says which of the queues
is empty once the source or the worker has passed a point, and `Phases` ties those points to the goroutine that starts and stops, so that
off means nothing is under way. `Closing` is the buffer a failed flush leaves, which is let go only after the report, and
`Forgets` the trace's counters, which nobody reads once the source has forgotten it. `Youngest` is all `NobodyIsBlamed`
needs: no reader is younger than the process that has the id.

**The names of reads** (`CorrelationProofs`), about `Correlation`'s `Spec`, for any files, addresses, IRPs (finitely many), caps, and any
number of steps whose records are lost, of whatever kind. `CorrelationInv` (`CorrelationCorrect`) has four parts. `NamingInv`: both generations
agree with what the kernel's addresses mean *now*, but for the entries in `lingering` (`Honest`), which is why `forget` must clear both, and
rotation, promotion and the merge are harmless; a name of the snapshot is true, or its key has been noted as given up, or nothing that
would have noted it was handled (`Snapped`); a key is one file's. `AccountInv`: each read is at exactly one
place, each IRP has one read, and the counters are between the reads given up and twice the collisions; `pend` on a full table
needs that as many reads wait as IRPs are held (`AsMany`). `TellInv`: the name a read carries is its file's, and whatever its
object or key may name later is still its file's (`Fresh`), or the read is stale. `Heard`: a read that waits on an IRP that is not busy
with it has lost its own end, and no operation that was seen to start has that IRP. `TypeOKCorrect`, `NamesAreTrueCorrect`,
`OutcomesAreTrueCorrect` and `ReadsAreAccountedCorrect` follow, without hypotheses.

**Installing and removing** (`InstallationProofs`), about `Installation`'s `Spec`, for any drives and moves and anything the service may
say. `TypeOKCorrect`, `InstallationStaysCorrect` and `NothingIsLeftRunningCorrect` from `InstallationInv` (`InstallationCorrect`):
`Draining`, that the window's thread is in the middle of a drain only under a flag that announces it and with the message taken, without
which a second message could be posted; `Withdrawn` and `Halted`, what the steps a program has passed have done, which nothing that
happens meanwhile undoes, because no viewer is open to start the service. `RulesAreNamedCorrect` is under `Steady`: one
drive, or drives that stay as they are while a program runs; otherwise `desktop_abandoned` refutes it. `RulesAreNamed` is not
inductive: at the gate the owner's consent is replaced, so that each rule must still have its record there (`Recorded`), and
the consent must be to all that is left (`Agreed`), which for several drives needs that the cleanup has left none that is attached (`Cleaned`).

**Only model-checked**: all liveness
(`AbandonedStops`, `GapsReachTheLog`, `StopReturns`, `StatesReachTheWindow`, `CommandsEnd`, `DrivesAreAskedFor`): it rests on
`ENABLED` and fairness, which TLAPS 1.4.5 cannot reason about. The slot and flag of the window are in the model for its sake.

## 12. What is not modelled

Listed in `PROJECT.json` with the reason; in short: decoding of kernel records and XML, drawing, Windows API
declarations, the measurement probe and the build tools have no state worth a model.

- `Monitoring`: nested roots (in `Binding`), an absent SACL, SACL equality byte by byte, the log's identity beyond a reason to refuse,
  records without an identity, preferences.
- `Binding`: the lexical checks of a path, the texts of refusals, how a token is obtained, more than one directory above a
  leaf, folders that are a drive's root, a volume with file identities but without access control (which the bind refuses where it matters), the resolution of device names for tracing, records of folders (compared in `Monitoring`).
- `Lease`: contents of messages, the queue of 256 messages of a connection, a pipe that cannot be created, and the accept loop's second
  look at the stop before it registers a connection (without which more can happen, not less).
- `Pipeline`: the log's format, folder matching, a log that cannot be opened (a source that does not start).
- `Correlation`: directory opens, a barrier that times out, a `ProcessTrace` that does
  not return even when its consumer is closed, in which case reads parked after the final sweep are in no counter.
- `Viewer`: the mailboxes of events and errors, the ring of events, menus, dialogs and drawing; a server that closes one connection
  while it runs, two posters at once, and the sending of a command, which has no deadline of its own but fits the pipe's buffer.
- `Installation`: elevation and accounts, shortcuts, preferences, icons, logs, version 1's configuration, two programs at
  once. Between the programs' runs the drives are not followed.
