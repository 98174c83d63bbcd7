----------------------------- MODULE Monitoring -----------------------------
(***************************************************************************)
(* The monitoring transaction of the ReadWatch service                     *)
(* (cmd/readwatch/transaction_windows.go, service_windows.go,              *)
(* audit_windows.go, capability_windows.go, internal/settings/config.go).  *)
(*                                                                         *)
(* Watching a folder changes the machine: an audit rule (an ACE in the     *)
(* SACL) on every watched folder and one bit of the machine-wide audit     *)
(* policy.  Every change is written to the configuration file before it is *)
(* made and confirmed after, so that whatever happens ReadWatch can find   *)
(* and undo what it did.  The module models the operations of the engine   *)
(* (hello, Start, Stop, Save, Apply/refresh, shutdown) one system call or  *)
(* one save at a time, with drives that leave and return, folders that are *)
(* renamed, replaced or deleted, other administrators, saves and calls     *)
(* that fail, and a service that is killed between any two steps.          *)
(*                                                                         *)
(* What is left out, and why the properties do not notice:                 *)
(*  - an object is reached under one path only (Home), and one attached    *)
(*    object per configured path is a root: nested roots and inheritance   *)
(*    (effectiveAuditRoots, addReadAuditRule's protected case) change      *)
(*    which handles are marked, never the order of the steps;              *)
(*  - a SACL is a set of entries and the policy a set of flags: only       *)
(*    equality with the journalled values matters to the code;             *)
(*  - the log and its identity are a reason for a bind to be refused;      *)
(*  - records without an identity, key collisions, and failures of the     *)
(*    privilege and of the SDDL parser.                                    *)
(***************************************************************************)
EXTENDS Naturals, FiniteSets

CONSTANTS Objects,    \* folders, as objects with an identity
          Paths,      \* configured pathnames
          Volumes,    \* what a drive holds
          Home,       \* the path an object is reached under
          Vol,        \* the volume an object is on
          Modes,      \* the mechanism settings an owner may choose
          None,       \* no object, no record
          Gaps,       \* windows of the code in which faults may strike too (below)
          Sacl0, Policy0, Names0, \* the machine and the paths before ReadWatch
          MaxEvents   \* bound on faults and outside events of one behaviour

ASSUME HomeAssumption == Home \in [Objects -> Paths]
ASSUME VolAssumption == Vol \in [Objects -> Volumes]
ASSUME ModesAssumption == Modes \subseteq {"markers", "etw", "auto"} /\ Modes # {}
ASSUME GapsAssumption == Gaps \subseteq {"unconfirmed", "reenabled", "raced"}
ASSUME MaxEventsAssumption == MaxEvents \in Nat

VARIABLES
  sacl,       \* machine: the audit entries on every object
  policy,     \* machine: the File System audit policy
  owned,      \* ghost: objects whose rule ReadWatch added and nobody has edited since
  polOwned,   \* ghost: the success bit is ReadWatch's and nobody has edited it since
  names,      \* the object a path refers to
  there,      \* the volumes that are attached
  gone,       \* objects that were deleted
  disk,       \* the configuration file
  service,    \* the process: up, asked to stop, or not running
  running,    \* the watcher runs
  mem,        \* e.cfg
  active,     \* e.active
  pending,    \* e.pendingRules
  result,     \* what the last operation returned
  pc, op, stage,     \* where the operation under opMu is
  cfg, bnd,          \* its configuration and its bound handles
  todo, deferred,    \* records still to withdraw, and those whose disk is out
  done, cur,         \* folders marked so far, and the one in progress
  hand,              \* the object behind the handle a record is undone through
  failed, restoring, \* it has met an error; it is putting the old one back
  events             \* faults and outside events so far

machine == <<sacl, policy, owned, polOwned>>
world   == <<names, there, gone>>
engine  == <<service, running, mem, active, pending, result>>
work    == <<todo, deferred, done, cur, hand>>
local   == <<pc, op, stage, cfg, bnd, work, failed, restoring>>
vars    == <<machine, world, disk, engine, local, events>>

Aces  == {"rule", "other"}
Flags == {"success", "failure"}

Record(S) == [orig : SUBSET S, applied : SUBSET S, phase : {"prepared", "applied"}]

ASSUME MachineAssumption ==
  /\ Sacl0 \in [Objects -> SUBSET {"other"}] /\ Policy0 \in SUBSET Flags
  /\ Names0 \in [Paths -> Objects \cup {None}]
  /\ \A p \in Paths : Names0[p] # None => Home[Names0[p]] = p
ASSUME NoneAssumption == None \notin Objects \cup Record(Aces) \cup Record(Flags)

Config == [snaps   : [Objects -> Record(Aces) \cup {None}],
           pol     : Record(Flags) \cup {None},
           enabled : BOOLEAN,
           folders : SUBSET Paths,
           mode    : Modes,
           bind    : [Paths -> Objects \cup {None}]]

\* att are the objects a bind opened, live those whose handle still works: a
\* handle dies when its volume leaves and does not come back with it.
Bound == [folders : SUBSET Paths, mode : Modes, mech : {"markers", "etw"},
          att : SUBSET Objects, live : SUBSET Objects]

DefaultMode == CHOOSE m \in Modes : TRUE

BlankConfig == [snaps |-> [o \in Objects |-> None], pol |-> None, enabled |-> FALSE,
                folders |-> {}, mode |-> DefaultMode, bind |-> [p \in Paths |-> None]]

NoBound == [folders |-> {}, mode |-> DefaultMode, mech |-> "markers", att |-> {}, live |-> {}]

\* ChooseMechanism: an automatic choice follows what the volumes can carry.
Choices(mode) == IF mode = "auto" THEN {"markers", "etw"} ELSE {mode}

Records(c) == {o \in Objects : c.snaps[o] # None}

OpKinds == {"none", "hello", "start", "stop", "shutdown", "save", "apply"}
Stages  == {"none", "hello", "start", "applyIdle", "swap", "run", "stop",
            "giveback", "goIdle", "rollback", "rollbackOff"}
Steps   == {"idle", "helloDone", "bind", "withdraw", "settle", "restore", "forget",
            "begin", "ensure", "enable", "confirmPolicy", "notePolicy", "mark", "add",
            "confirm", "commit", "launch", "disable", "record", "stopSave", "failed"}

TypeOK ==
  /\ sacl \in [Objects -> SUBSET Aces] /\ policy \in SUBSET Flags
  /\ owned \in SUBSET Objects /\ polOwned \in BOOLEAN
  /\ names \in [Paths -> Objects \cup {None}]
  /\ there \in SUBSET Volumes /\ gone \in SUBSET Objects
  /\ disk \in Config /\ mem \in Config /\ cfg \in Config
  /\ service \in {"up", "stopping", "down"} /\ running \in BOOLEAN
  /\ active \in Bound /\ bnd \in Bound
  /\ pending \in SUBSET Objects /\ result \in {"none", "ok", "error"}
  /\ pc \in Steps /\ op \in OpKinds /\ stage \in Stages
  /\ todo \in SUBSET Objects /\ deferred \in SUBSET Objects
  /\ done \in SUBSET Objects
  /\ cur \in Objects \cup {None} /\ hand \in Objects \cup {None}
  /\ failed \in BOOLEAN /\ restoring \in BOOLEAN
  /\ events \in 0..MaxEvents
-----------------------------------------------------------------------------
(***************************************************************************)
(* Helpers.                                                                *)
(***************************************************************************)

\* Every fault and every outside event spends one of MaxEvents.
Spend == events < MaxEvents /\ events' = events + 1
Quiet == UNCHANGED events

\* settings.Save replaces the file in one step, or leaves it as it was.
Save(c)   == disk' = c /\ Quiet
SaveFails == Spend /\ UNCHANGED disk

Goto(step) == pc' = step

\* The operation returns and gives up opMu.
Finish(res) ==
  /\ pc' = "idle" /\ op' = "none" /\ stage' = "none" /\ result' = res
  /\ cfg' = BlankConfig /\ bnd' = NoBound
  /\ todo' = {} /\ deferred' = {} /\ done' = {} /\ cur' = None /\ hand' = None
  /\ failed' = FALSE /\ restoring' = FALSE

Present(o) == Vol[o] \in there /\ o \notin gone

\* Windows the code survives nothing in.  Once a start has changed an object the
\* engine's own configuration does not know it until the start succeeds
\* (unconfirmed); the policy is set again from a record that is not on disk any
\* more (reenabled); and between reading a value, changing it and reading it back
\* another administrator's edit is overwritten or mistaken for ReadWatch's
\* (raced).  Something strikes there only in an instance whose Gaps say so.
Unconfirmed == "unconfirmed" \in Gaps
Reenabled   == "reenabled" \in Gaps
Raced       == "raced" \in Gaps
Exposed == done \cup (IF pc = "confirm" THEN {cur} ELSE {})
StartWindow == pc \in {"enable", "confirmPolicy", "notePolicy", "mark", "add", "confirm",
                       "commit", "launch"}
Unrecorded == pc = "notePolicy" /\ disk.pol = None
RollingBack == stage \in {"rollback", "rollbackOff"}
Init ==
  /\ sacl = Sacl0 /\ policy = Policy0 /\ owned = {} /\ polOwned = FALSE
  /\ names = Names0
  /\ there = Volumes /\ gone = {}
  /\ disk = BlankConfig /\ mem = BlankConfig
  /\ service = "up" /\ running = FALSE /\ active = NoBound
  /\ pending = {} /\ result = "none"
  /\ pc = "idle" /\ op = "none" /\ stage = "none"
  /\ cfg = BlankConfig /\ bnd = NoBound
  /\ todo = {} /\ deferred = {} /\ done = {} /\ cur = None /\ hand = None
  /\ failed = FALSE /\ restoring = FALSE
  /\ events = 0
-----------------------------------------------------------------------------
(***************************************************************************)
(* An operation begins once it holds opMu (pc = "idle").  All but shutdown *)
(* are refused when the service is stopping.                               *)
(***************************************************************************)

\* What every beginning leaves alone.
Beginning(kind) ==
  /\ pc = "idle" /\ op' = kind /\ Quiet
  /\ UNCHANGED <<machine, world, disk, service, mem, active, pending, result,
                 deferred, done, cur, hand, failed, restoring>>

\* (a slip: only the rules are looked for)
HasRulesOnly(c) == Records(c) # {}

HasRecords(c) == Records(c) # {} \/ c.pol # None

\* OnViewerHello: with nothing running, first undo what the journal still lists.
BeginHello ==
  /\ service = "up" /\ ~running
  /\ Beginning("hello") /\ stage' = "hello" /\ cfg' = mem
  /\ IF HasRecords(mem) THEN Goto("withdraw") /\ todo' = Records(mem)
                        ELSE Goto("helloDone") /\ todo' = {}
  /\ UNCHANGED <<running, bnd>>

\* What a bind is asked to open, and the mechanism it is opened for.
Request(folders, mode, mech) ==
  [NoBound EXCEPT !.folders = folders, !.mode = mode, !.mech = mech]

\* startMonitoringBound: the mechanism is decided before anything is opened.
BeginStart ==
  /\ service = "up" /\ ~running /\ mem.folders # {}
  /\ Beginning("start") /\ Goto("bind") /\ cfg' = mem
  /\ \E mech \in Choices(mem.mode) : bnd' = Request(mem.folders, mem.mode, mech)
  /\ UNCHANGED <<running, stage, todo>>

\* applyBound with authorise: the owner pressed Save on a folder list.
BeginSave ==
  /\ service = "up"
  /\ Beginning("save") /\ Goto("bind") /\ cfg' = mem
  /\ \E folders \in SUBSET Paths, mode \in Modes : \E mech \in Choices(mode) :
       bnd' = Request(folders, mode, mech)
  /\ UNCHANGED <<running, stage, todo>>

\* applyBound without authorise: a preference or a device event.  One that names
\* other folders than the current ones is refused before anything is opened.
BeginApply ==
  /\ service = "up"
  /\ Beginning("apply") /\ Goto("bind") /\ cfg' = mem
  /\ \E mode \in Modes : \E mech \in Choices(mode) : bnd' = Request(mem.folders, mode, mech)
  /\ UNCHANGED <<running, stage, todo>>

\* stopMonitoringLocked(true, true), for the viewer's Stop and for Shutdown.
Stopping(kind) ==
  /\ Beginning(kind) /\ Goto("withdraw") /\ stage' = "stop"
  /\ running' = FALSE /\ cfg' = mem /\ todo' = Records(mem)
  /\ UNCHANGED bnd
BeginStop     == service = "up" /\ Stopping("stop")
BeginShutdown == service = "stopping" /\ Stopping("shutdown")

Begin == BeginHello \/ BeginStart \/ BeginSave \/ BeginApply \/ BeginStop \/ BeginShutdown
-----------------------------------------------------------------------------
(***************************************************************************)
(* Binding: bindPublicConfigAsPipeClient opens every configured folder     *)
(* that can be opened, in the owner's name, and pins it; one that cannot   *)
(* be opened, or (refuseChangedIdentities) is not the one the owner chose, *)
(* is left out without failing the others.                                 *)
(***************************************************************************)
Openable(o) == o # None /\ Present(o)

\* (a slip: whatever is found under the path will do)
AuthorisedByPath(p, o) == cfg.bind[p] \in Objects \cup {None}

Authorised(p, o) == op = "save" \/ cfg.bind[p] \in {None, o}

Opened(refused) ==
  {names[p] : p \in {q \in bnd.folders \ refused :
                       Openable(names[q]) /\ Authorised(q, names[q])}}

\* What follows a bind: a start undoes the journal first; a change to a stopped
\* engine does so if there is a journal; a change to a running one stops the
\* watcher and withdraws the old rules through the old handles.
AfterBind ==
  IF op \in {"hello", "start"}
    THEN Goto("withdraw") /\ stage' = "start" /\ todo' = Records(cfg) /\ UNCHANGED running
  ELSE IF running
    THEN Goto("withdraw") /\ stage' = "swap" /\ todo' = Records(cfg) /\ running' = FALSE
  ELSE IF HasRecords(cfg)
    THEN Goto("withdraw") /\ stage' = "applyIdle" /\ todo' = Records(cfg) /\ UNCHANGED running
  ELSE Goto("record") /\ UNCHANGED <<stage, todo, running>>

Bind ==
  /\ pc = "bind"
  /\ \E refused \in SUBSET bnd.folders :
       /\ IF refused = {} THEN Quiet ELSE Spend
       /\ bnd' = [bnd EXCEPT !.att = Opened(refused), !.live = Opened(refused)]
  /\ AfterBind
  /\ UNCHANGED <<machine, world, disk, service, mem, active, pending, result,
                 op, cfg, deferred, done, cur, hand, failed, restoring>>

\* The log cannot be opened, or is not the log the owner chose.
BindFails ==
  /\ pc = "bind" /\ Spend /\ Finish("error")
  /\ UNCHANGED <<machine, world, disk, service, running, mem, active, pending>>
-----------------------------------------------------------------------------
(***************************************************************************)
(* removeAuditRule over the records in todo.                               *)
(***************************************************************************)

\* The handle a record is undone through: the one held under the record's path
\* (folderByPath), when it still works; none during recovery.
HeldFrom == CASE stage \in {"swap", "stop"} -> active.live
              [] RollingBack                -> bnd.live
              [] OTHER                      -> {}
Held(k) == {o \in HeldFrom : Home[o] = Home[k]}

\* (a slip: nothing held is taken for nothing there)
ReachedByHandle(k) == Held(k)

\* The object reached for record k: the held one, or k reopened by identity.
Reached(k) == IF Held(k) # {} THEN Held(k) ELSE IF Present(k) THEN {k} ELSE {}

Dropped(c, k) == [c EXCEPT !.snaps[k] = None]

KeepLocals == UNCHANGED <<op, stage, bnd, done, restoring>>

\* delete(cfg.Snapshots, key) and save: the local record goes even if the save fails.
Forgets(k) ==
  /\ cfg' = Dropped(cfg, k) /\ todo' = todo \ {k} /\ Goto("withdraw")
  /\ \/ Save(Dropped(cfg, k)) /\ UNCHANGED failed
     \/ SaveFails /\ failed' = TRUE

\* The object carries what ReadWatch applied: put back what it found.
WithdrawRule ==
  /\ pc = "withdraw"
  /\ \E k \in todo : \E o \in Reached(k) :
       /\ sacl[o] = cfg.snaps[k].applied
       /\ sacl' = [sacl EXCEPT ![o] = cfg.snaps[k].orig]
       /\ owned' = owned \ {o} /\ cur' = k /\ hand' = o
  /\ Goto("settle") /\ Quiet /\ KeepLocals
  /\ UNCHANGED <<policy, polOwned, world, disk, engine, cfg, todo, deferred, failed>>

\* The read-back: anything but the original is an error and keeps the record.
SettleWithdrawal ==
  /\ pc = "settle" /\ cur' = None /\ hand' = None
  /\ \/ /\ hand # None /\ sacl[hand] = cfg.snaps[cur].orig
        /\ Forgets(cur)
     \/ /\ hand # None => sacl[hand] # cfg.snaps[cur].orig
        /\ failed' = TRUE /\ todo' = todo \ {cur} /\ Goto("withdraw")
        /\ Quiet /\ UNCHANGED <<disk, cfg>>
  /\ KeepLocals /\ UNCHANGED <<machine, world, engine, deferred>>

\* (a slip: a volume that is out is taken for a folder that is gone)
DropUnreachable ==
  /\ pc = "withdraw"
  /\ \E k \in todo : Reached(k) = {} /\ Forgets(k)
  /\ KeepLocals /\ UNCHANGED <<machine, world, engine, deferred, cur, hand>>

\* Already the original, changed by somebody else, or deleted with its folder:
\* the record is dropped and nothing is touched.
DropRecord ==
  /\ pc = "withdraw"
  /\ \E k \in todo :
       /\ \/ \E o \in Reached(k) : sacl[o] # cfg.snaps[k].applied
          \/ Reached(k) = {} /\ Vol[k] \in there
       /\ Forgets(k)
  /\ KeepLocals /\ UNCHANGED <<machine, world, engine, deferred, cur, hand>>

\* The disk is out: the record is kept and named (deferredRemoval).
DeferRecord ==
  /\ pc = "withdraw"
  /\ \E k \in todo :
       /\ Reached(k) = {} /\ Vol[k] \notin there
       /\ todo' = todo \ {k}
       /\ deferred' = IF RollingBack THEN deferred ELSE deferred \cup {k}
  /\ Quiet /\ KeepLocals /\ UNCHANGED <<machine, world, disk, engine, pc, cfg, cur, hand, failed>>

\* The object could not be reopened for a reason that proves nothing, or the
\* original could not be written back: an error, and the record is kept.
WithdrawFails ==
  /\ pc = "withdraw" /\ Spend /\ (RollingBack => Unconfirmed)
  /\ \E k \in todo : todo' = todo \ {k}
  /\ failed' = TRUE
  /\ KeepLocals /\ UNCHANGED <<machine, world, disk, engine, pc, cfg, deferred, cur, hand>>

\* The loop is over.  A swap keeps the audit policy for the rules about to come.
Withdrawn ==
  /\ pc = "withdraw" /\ todo = {}
  /\ pending' = IF RollingBack \/ stage = "stop" THEN pending ELSE deferred
  /\ Goto(IF stage # "swap" THEN "restore" ELSE IF failed THEN "failed" ELSE "begin")
  /\ Quiet /\ KeepLocals
  /\ UNCHANGED <<machine, world, disk, service, running, mem, active, result, cfg,
                 todo, deferred, cur, hand, failed>>
-----------------------------------------------------------------------------
(***************************************************************************)
(* restoreFileSystemAuditPolicy, and where each caller goes on from it.    *)
(***************************************************************************)
Resume(err) ==
  CASE stage = "hello"       -> "helloDone"
    [] stage = "start"       -> IF err THEN "failed" ELSE "begin"
    [] stage = "giveback"    -> IF err THEN "failed" ELSE "commit"
    [] stage \in {"applyIdle", "goIdle"} -> "record"
    [] stage = "stop"        -> "stopSave"
    [] stage = "rollbackOff" -> "disable"
    [] OTHER                 -> "failed"

Restoring == pc = "restore" /\ KeepLocals /\ UNCHANGED <<world, disk, engine, cfg, work>>

NothingToRestore ==
  /\ Restoring /\ cfg.pol = None
  /\ Goto(Resume(failed)) /\ Quiet /\ UNCHANGED <<machine, failed>>

\* (a slip: the current value is compared with the wrong side of the record)
RestoreUnlessApplied ==
  /\ Restoring /\ cfg.pol # None
  /\ IF policy = cfg.pol.orig THEN policy' = cfg.pol.orig /\ polOwned' = FALSE
                               ELSE UNCHANGED <<policy, polOwned>>
  /\ Goto("forget") /\ Quiet /\ UNCHANGED <<sacl, owned, failed>>

\* Only the exact value ReadWatch applied is taken back.
RestorePolicy ==
  /\ Restoring /\ cfg.pol # None
  /\ IF policy = cfg.pol.applied
       THEN policy' = cfg.pol.orig /\ polOwned' = FALSE
       ELSE UNCHANGED <<policy, polOwned>>
  /\ Goto("forget") /\ Quiet /\ UNCHANGED <<sacl, owned, failed>>

RestorePolicyFails ==
  /\ Restoring /\ cfg.pol # None /\ policy = cfg.pol.applied
  /\ Spend /\ (RollingBack => Unconfirmed)
  /\ failed' = TRUE /\ Goto(Resume(TRUE)) /\ UNCHANGED machine

ForgetPolicy ==
  LET c == [cfg EXCEPT !.pol = None] IN
  /\ pc = "forget" /\ cfg' = c
  /\ \/ Save(c) /\ Goto(Resume(failed)) /\ UNCHANGED failed
     \/ SaveFails /\ Goto(Resume(TRUE)) /\ failed' = TRUE
  /\ KeepLocals /\ UNCHANGED <<machine, world, engine, work>>
-----------------------------------------------------------------------------
(***************************************************************************)
(* startWithCapabilities.                                                  *)
(***************************************************************************)
KeepAll == UNCHANGED <<world, engine, op, deferred, hand, restoring>>

\* The rollback undoes the folders marked so far, and only those, through the
\* handles they were marked with; then the policy.
RollBack(kind, c) ==
  /\ stage' = kind /\ Goto("withdraw") /\ todo' = done \cap Records(c)
  /\ failed' = TRUE /\ cur' = None /\ UNCHANGED <<bnd, done>>

\* Nothing reachable: a start ends there, a change to a running engine goes idle.
BeginRun ==
  /\ pc = "begin" /\ Quiet
  /\ UNCHANGED <<machine, world, disk, service, running, mem, active, pending>>
  /\ \/ /\ bnd.att = {} /\ op \in {"hello", "start"}
        /\ Finish(IF op = "hello" THEN "ok" ELSE "error")
     \/ /\ bnd.att = {} /\ op \notin {"hello", "start"}
        /\ stage' = "goIdle" /\ Goto("restore")
        /\ UNCHANGED <<result, op, cfg, bnd, work, failed, restoring>>
     \/ /\ bnd.att # {}
        /\ IF bnd.mech = "etw" THEN stage' = "giveback" /\ Goto("restore")
                               ELSE stage' = "run" /\ Goto("ensure")
        /\ UNCHANGED <<result, op, cfg, bnd, work, failed, restoring>>

Ensuring(step) == pc = step /\ KeepAll /\ UNCHANGED <<sacl, owned, stage, bnd, todo, done, cur>>

\* ensureFileSystemAuditPolicy: the intent is written before the bit is set.
\* An error here is returned without a rollback.
EnsurePolicy ==
  /\ Ensuring("ensure")
  /\ \/ /\ IF cfg.pol # None THEN policy = cfg.pol.applied ELSE "success" \in policy
        /\ Goto(IF cfg.pol # None => cfg.pol.phase = "applied" THEN "mark" ELSE "notePolicy")
        /\ Quiet /\ UNCHANGED <<policy, polOwned, disk, cfg, failed>>
     \/ /\ cfg.pol # None /\ policy = cfg.pol.orig /\ policy # cfg.pol.applied
        /\ \/ /\ policy' = cfg.pol.applied /\ polOwned' = TRUE /\ Goto("notePolicy")
              /\ Quiet /\ UNCHANGED <<disk, cfg, failed>>
           \/ /\ Spend /\ failed' = TRUE /\ Goto("failed")
              /\ UNCHANGED <<policy, polOwned, disk, cfg>>
     \/ /\ cfg.pol # None /\ policy \notin {cfg.pol.orig, cfg.pol.applied}
        /\ UNCHANGED <<policy, polOwned>>
        /\ IF "success" \in policy
             THEN /\ cfg' = [cfg EXCEPT !.pol = None]
                  /\ \/ Save(cfg') /\ Goto("mark") /\ UNCHANGED failed
                     \/ SaveFails /\ Goto("failed") /\ failed' = TRUE
             ELSE Goto("failed") /\ failed' = TRUE /\ Quiet /\ UNCHANGED <<disk, cfg>>
     \/ /\ cfg.pol = None /\ "success" \notin policy
        /\ UNCHANGED <<policy, polOwned>>
        /\ LET c == [cfg EXCEPT !.pol = [orig |-> policy, applied |-> policy \cup {"success"},
                                         phase |-> "prepared"]] IN
           \/ cfg' = c /\ Save(c) /\ Goto("enable") /\ UNCHANGED failed
           \/ SaveFails /\ Goto("failed") /\ failed' = TRUE /\ UNCHANGED cfg

EnablePolicy ==
  /\ Ensuring("enable")
  /\ \/ /\ policy' = cfg.pol.applied /\ polOwned' = TRUE
        /\ Goto("confirmPolicy") /\ Quiet /\ UNCHANGED <<disk, cfg, failed>>
     \/ /\ Spend /\ cfg' = [cfg EXCEPT !.pol = None]
        /\ disk' \in {cfg', disk}
        /\ failed' = TRUE /\ Goto("failed") /\ UNCHANGED <<policy, polOwned>>

\* A policy that is read back different, or whose confirmation cannot be saved,
\* fails the start.
ConfirmPolicy ==
  /\ pc \in {"confirmPolicy", "notePolicy"} /\ Ensuring(pc) /\ UNCHANGED <<policy, polOwned>>
  /\ LET c == [cfg EXCEPT !.pol.phase = "applied"] IN
     IF pc = "confirmPolicy" /\ policy # cfg.pol.applied
       THEN failed' = TRUE /\ Goto("failed") /\ Quiet /\ UNCHANGED <<disk, cfg>>
       ELSE /\ cfg' = c
            /\ \/ Save(c) /\ Goto("mark") /\ UNCHANGED failed
               \/ /\ IF pc = "confirmPolicy" THEN Unconfirmed ELSE ~Unrecorded \/ Reenabled
                  /\ SaveFails /\ Goto("failed") /\ failed' = TRUE
-----------------------------------------------------------------------------
(***************************************************************************)
(* applyAuditRule on every attached folder.                                *)
(***************************************************************************)
Marked(o) == cfg.snaps[o] # None /\ cfg.snaps[o].phase = "applied"

\* (a slip: a phase the journal does not know)
IntentWithoutPhase(o) == [orig |-> sacl[o], applied |-> sacl[o] \cup {"rule"}, phase |-> ""]

\* The intent: what is there, and what will be there.
Intent(o) == [orig |-> IF Marked(o) THEN cfg.snaps[o].orig ELSE sacl[o],
              applied |-> sacl[o] \cup {"rule"}, phase |-> "prepared"]

Marking(step) == pc = step /\ KeepAll /\ UNCHANGED <<policy, polOwned>>

\* (a slip: the record is believed without looking at the folder)
BelievedMarked ==
  /\ Marking("mark")
  /\ \E o \in bnd.live \ done : Marked(o) /\ done' = done \cup {o}
  /\ Quiet /\ UNCHANGED <<sacl, owned, disk, stage, pc, cfg, bnd, todo, cur, failed>>

\* A folder whose journalled rule is still exactly there needs no change.
AlreadyMarked ==
  /\ Marking("mark")
  /\ \E o \in bnd.live \ done :
       /\ Marked(o) /\ sacl[o] = cfg.snaps[o].applied /\ done' = done \cup {o}
  /\ Quiet /\ UNCHANGED <<sacl, owned, disk, stage, pc, cfg, bnd, todo, cur, failed>>

PrepareMark ==
  /\ Marking("mark")
  /\ \E o \in bnd.live \ done :
       /\ Marked(o) => sacl[o] = cfg.snaps[o].orig /\ sacl[o] # cfg.snaps[o].applied
       /\ LET c == [cfg EXCEPT !.snaps[o] = Intent(o)] IN
          \/ /\ cfg' = c /\ Save(c) /\ cur' = o /\ Goto("add")
             /\ UNCHANGED <<stage, todo, failed, done, bnd>>
          \/ SaveFails /\ cfg' = Dropped(cfg, o) /\ RollBack("rollback", cfg')
  /\ UNCHANGED <<sacl, owned>>

\* A handle that has died, or a folder somebody else has edited since.
MarkRefused ==
  /\ Marking("mark")
  /\ \E o \in bnd.att \ done :
       \/ o \notin bnd.live
       \/ Marked(o) /\ sacl[o] \notin {cfg.snaps[o].orig, cfg.snaps[o].applied}
  /\ RollBack("rollback", cfg) /\ Quiet /\ UNCHANGED <<sacl, owned, disk, cfg>>

AddRule ==
  /\ Marking("add") /\ UNCHANGED <<disk, cfg>>
  /\ \/ /\ cur \in bnd.live
        /\ sacl' = [sacl EXCEPT ![cur] = @ \cup {"rule"}]
        /\ owned' = IF "rule" \in sacl[cur] THEN owned ELSE owned \cup {cur}
        /\ Goto("confirm") /\ Quiet /\ UNCHANGED <<stage, bnd, todo, done, cur, failed>>
     \/ /\ IF cur \in bnd.live THEN Spend ELSE Quiet
        /\ RollBack("rollback", cfg) /\ UNCHANGED <<sacl, owned>>

\* The folder is read back; only the value that was journalled is confirmed.
ConfirmMark ==
  /\ Marking("confirm") /\ UNCHANGED <<sacl, owned>>
  /\ LET c == [cfg EXCEPT !.snaps[cur].phase = "applied"] IN
     IF cur \in bnd.live /\ sacl[cur] = cfg.snaps[cur].applied
       THEN /\ cfg' = c
            /\ \/ /\ Save(c) /\ done' = done \cup {cur} /\ cur' = None /\ Goto("mark")
                  /\ UNCHANGED <<stage, bnd, todo, failed>>
               \/ Unconfirmed /\ SaveFails /\ RollBack("rollback", c)
       ELSE RollBack("rollback", cfg) /\ Quiet /\ UNCHANGED <<disk, cfg>>
-----------------------------------------------------------------------------
(***************************************************************************)
(* The ends of an operation.                                               *)
(***************************************************************************)

\* (a slip: bindings are replaced by what was opened)
ReplaceBindings(bind, b) ==
  [p \in Paths |-> LET o == {x \in b.att : Home[x] = p} IN
     IF p \in b.folders /\ o # {} THEN CHOOSE x \in o : TRUE ELSE None]

\* MergeBindings: what was opened is recorded, what could not be keeps what it
\* had, and only a path that is no longer configured loses its binding.
MergeBindings(bind, b) ==
  [p \in Paths |-> LET o == {x \in b.att : Home[x] = p} IN
     IF p \notin b.folders THEN None
     ELSE IF o # {} THEN CHOOSE x \in o : TRUE ELSE bind[p]]

\* (a slip: the new folders keep the old bindings)
AdoptPublic(c, b) == [c EXCEPT !.folders = b.folders, !.mode = b.mode]

\* ApplyPublic and MergeBindings.
Adopt(c, b) == [c EXCEPT !.folders = b.folders, !.mode = b.mode,
                         !.bind = MergeBindings(c.bind, b)]

\* Everything is marked (or nothing has to be): the new configuration is written.
Commit ==
  /\ \/ pc = "commit"
     \/ pc = "mark" /\ bnd.att \subseteq done
  /\ KeepAll /\ UNCHANGED machine
  /\ LET c == [Adopt(cfg, bnd) EXCEPT !.enabled = TRUE] IN
     /\ cfg' = c
     /\ \/ Save(c) /\ Goto("launch") /\ UNCHANGED <<stage, bnd, todo, done, cur, failed>>
        \/ SaveFails /\ RollBack("rollback", c)

\* The watcher runs, and the engine takes over the configuration and the handles.
Launch ==
  /\ pc = "launch" /\ Quiet
  /\ running' = TRUE /\ mem' = cfg /\ active' = bnd
  /\ Finish(IF restoring THEN "error" ELSE "ok")
  /\ UNCHANGED <<machine, world, disk, service, pending>>

\* The log cannot be duplicated, or the watcher does not start; only after the
\* latter is the desired state taken back on disk.
LaunchFails ==
  /\ pc = "launch" /\ Spend /\ KeepAll /\ UNCHANGED <<machine, disk, cfg>>
  /\ \E kind \in {"rollback", "rollbackOff"} : RollBack(kind, cfg)

Disable ==
  /\ pc = "disable" /\ cfg' = [cfg EXCEPT !.enabled = FALSE]
  /\ Save(cfg') \/ SaveFails
  /\ Goto("failed") /\ KeepLocals /\ UNCHANGED <<machine, world, engine, work, failed>>

\* A failed start returns.  A failed change puts the old configuration back
\* through the handles it still holds (restoreRunning): oldCfg has lost the
\* records the withdrawal resolved and nothing else.
OldConfig == IF stage = "swap" THEN cfg
             ELSE [mem EXCEPT !.snaps = [o \in Objects |-> IF o \in deferred THEN mem.snaps[o]
                                                                              ELSE None]]
Failed ==
  /\ pc = "failed" /\ Quiet
  /\ UNCHANGED <<machine, world, disk, service, running, mem, active, pending>>
  /\ IF restoring \/ op \in {"hello", "start"} THEN Finish("error")
     ELSE /\ restoring' = TRUE /\ failed' = FALSE /\ Goto("begin") /\ stage' = "run"
          /\ cfg' = OldConfig
          /\ \E mech \in Choices(active.mode) : bnd' = [active EXCEPT !.mech = mech]
          /\ done' = {} /\ todo' = {} /\ UNCHANGED <<result, op, deferred, cur, hand>>

\* OnViewerHello has recovered, keeps the result even when that failed, and goes
\* on to resume what was left enabled.
HelloDone ==
  /\ pc = "helloDone" /\ mem' = cfg /\ Quiet
  /\ UNCHANGED <<machine, world, disk, service, running, active, pending>>
  /\ IF failed \/ ~cfg.enabled \/ cfg.folders = {}
       THEN Finish(IF failed THEN "error" ELSE "ok")
       ELSE /\ Goto("bind")
            /\ \E mech \in Choices(cfg.mode) : bnd' = Request(cfg.folders, cfg.mode, mech)
            /\ deferred' = {}
            /\ UNCHANGED <<result, op, stage, cfg, todo, done, cur, hand, failed, restoring>>

\* recordBound: the configuration is kept, the handles are released, whatever
\* the save says.
RecordBound ==
  /\ pc = "record" /\ mem' = Adopt(cfg, bnd) /\ active' = NoBound
  /\ \/ Save(mem') /\ Finish(IF failed \/ restoring THEN "error" ELSE "ok")
     \/ SaveFails /\ Finish("error")
  /\ UNCHANGED <<machine, world, service, running, pending>>

StopSave ==
  /\ pc = "stopSave" /\ mem' = [cfg EXCEPT !.enabled = FALSE]
  /\ \/ Save(mem') /\ Finish(IF failed THEN "error" ELSE "ok")
     \/ SaveFails /\ Finish("error")
  /\ active' = NoBound /\ pending' = deferred
  /\ service' = IF op = "shutdown" THEN "down" ELSE service
  /\ UNCHANGED <<machine, world, running>>
-----------------------------------------------------------------------------
(***************************************************************************)
(* The process: the service manager asks it to stop, it is killed between  *)
(* any two steps, and it starts again with nothing but the file.           *)
(***************************************************************************)
RequestStop ==
  /\ service = "up" /\ service' = "stopping" /\ Quiet
  /\ UNCHANGED <<machine, world, disk, running, mem, active, pending, result, local>>

Crash ==
  /\ service # "down" /\ service' = "down" /\ Spend /\ (Unrecorded => Reenabled)
  /\ running' = FALSE /\ active' = NoBound /\ pending' = {} /\ mem' = BlankConfig
  /\ Finish("none") /\ UNCHANGED <<machine, world, disk>>

\* loadServiceConfig
Boot ==
  /\ service = "down" /\ service' = "up" /\ mem' = disk /\ result' = "none" /\ pending' = {}
  /\ Quiet /\ UNCHANGED <<machine, world, disk, running, active, local>>
-----------------------------------------------------------------------------
(***************************************************************************)
(* The world.  A folder that is held open cannot be renamed or deleted; a  *)
(* handle dies with its volume.                                            *)
(***************************************************************************)
Pinned(o) == o \in active.live \cup bnd.live \/ hand = o

InVolume(v) == {o \in Objects : Vol[o] = v}

Outside == UNCHANGED <<disk, service, running, mem, pending, result, pc, op, stage, cfg,
                       todo, deferred, done, cur, failed, restoring>>

Detach(v) ==
  /\ v \in there /\ there' = there \ {v} /\ Spend
  /\ Unconfirmed \/ InVolume(v) \cap Exposed = {}
  /\ active' = [active EXCEPT !.live = @ \ InVolume(v)]
  /\ bnd' = [bnd EXCEPT !.live = @ \ InVolume(v)]
  /\ hand' = IF hand \in InVolume(v) THEN None ELSE hand
  /\ Outside /\ UNCHANGED <<machine, names, gone>>

Attach(v) ==
  /\ v \notin there /\ there' = there \cup {v}
  /\ Quiet /\ Outside /\ UNCHANGED <<machine, names, gone, active, bnd, hand>>

\* The path is given to another object: by renaming on the same volume, or
\* because another volume takes the letter of one that is out.
Reassign(p, x) ==
  LET o == names[p] IN
  /\ Home[x] = p /\ x # o /\ Present(x)
  /\ \/ o = None \/ o \in gone
     \/ o # None /\ Vol[o] = Vol[x] /\ ~Pinned(o)
     \/ o # None /\ Vol[o] \notin there
  /\ names' = [names EXCEPT ![p] = x] /\ Spend
  /\ Outside /\ UNCHANGED <<machine, there, gone, active, bnd, hand>>

Delete(o) ==
  /\ Present(o) /\ ~Pinned(o) /\ gone' = gone \cup {o} /\ Spend
  /\ owned' = owned \ {o}
  /\ Outside /\ UNCHANGED <<sacl, policy, polOwned, names, there, active, bnd, hand>>

\* Another administrator edits a folder's auditing rules, or the policy: from
\* then on they are not ReadWatch's.
EditRules(o) ==
  /\ Present(o) /\ Spend
  /\ Raced \/ o \notin Exposed \cup (IF pc = "add" THEN {cur} ELSE {})
  /\ \E s \in SUBSET Aces \ {sacl[o]} :
       /\ "rule" \in s => "rule" \in sacl[o]
       /\ sacl' = [sacl EXCEPT ![o] = s]
  /\ owned' = owned \ {o}
  /\ Outside /\ UNCHANGED <<policy, polOwned, world, active, bnd, hand>>

EditPolicy ==
  /\ Spend /\ (Raced \/ ~StartWindow)
  /\ policy' \in SUBSET Flags \ {policy} /\ polOwned' = FALSE
  /\ Outside /\ UNCHANGED <<sacl, owned, world, active, bnd, hand>>

World == \/ \E v \in Volumes : Detach(v) \/ Attach(v)
         \/ \E p \in Paths, x \in Objects : Reassign(p, x)
         \/ \E o \in Objects : Delete(o) \/ EditRules(o)
         \/ EditPolicy

Operation ==
  \/ Bind \/ BindFails
  \/ WithdrawRule \/ SettleWithdrawal \/ DropRecord \/ DeferRecord \/ WithdrawFails \/ Withdrawn
  \/ NothingToRestore \/ RestorePolicy \/ RestorePolicyFails \/ ForgetPolicy
  \/ BeginRun \/ EnsurePolicy \/ EnablePolicy \/ ConfirmPolicy
  \/ AlreadyMarked \/ PrepareMark \/ MarkRefused \/ AddRule \/ ConfirmMark
  \/ Commit \/ Launch \/ LaunchFails \/ Disable \/ Failed
  \/ HelloDone \/ RecordBound \/ StopSave

Next == Begin \/ Operation \/ RequestStop \/ Crash \/ Boot \/ World

Spec == Init /\ [][Next]_vars
-----------------------------------------------------------------------------
(***************************************************************************)
(* Properties.                                                             *)
(***************************************************************************)

\* A record a fresh process could act on: it says what ReadWatch made of the
\* object, and putting back what it found takes the rule away.
Undoes(r, entries, mark) == r # None /\ r.applied = entries /\ mark \notin r.orig

\* However an operation was interrupted, failed or was killed, every audit rule
\* ReadWatch put on a folder that nobody else has edited since is recorded in
\* the configuration file, well enough to be withdrawn from it alone.
RulesAreJournalled == \A o \in owned : Undoes(disk.snaps[o], sacl[o], "rule")

\* The same of the machine-wide audit policy, once the call that set it is noted.
PolicyIsJournalled ==
  polOwned /\ pc # "notePolicy" => Undoes(disk.pol, policy, "success")

\* An operation that reports success leaves nothing of ReadWatch's behind but
\* the marks of the folders it watches and the rules it names as pending.
NothingUnnamed ==
  pc = "idle" /\ result = "ok" =>
    /\ owned \subseteq pending \cup (IF running /\ active.mech = "markers" THEN active.att ELSE {})
    /\ polOwned => running /\ active.mech = "markers"

\* The mark is only ever put on an object the owner chose under its path, or on
\* the first one found there.
OnlyAuthorised ==
  [][\A o \in owned' \ owned :
       \/ op = "save" /\ ~restoring
       \/ mem.bind[Home[o]] \in {None, o}]_vars

\* Which object a configured path stands for is only changed by the owner's
\* Save: no device event, failed change or restart makes ReadWatch forget it.
BindingsSurvive ==
  [][\A p \in Paths :
       service = "up" /\ service' = "up" /\ mem.bind[p] # None /\ p \in mem'.folders
         => \/ mem'.bind[p] = mem.bind[p]
            \/ op = "save" /\ ~restoring]_vars

\* What is watched is what the configuration says is watched, under the identity
\* recorded for it, through every failed change and the return to the old one.
ActiveIsBound ==
  running => \A o \in active.att : Home[o] \in mem.folders /\ mem.bind[Home[o]] = o

\* When the watcher is started on audit rules, every folder it is told to watch
\* carries one and the policy lets it be heard.
LaunchIsBacked ==
  [][running' /\ ~running /\ active'.mech = "markers"
       => "success" \in policy /\ \A o \in active'.att : "rule" \in sacl[o]]_vars
=============================================================================
