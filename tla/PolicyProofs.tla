---------------------------- MODULE PolicyProofs ----------------------------
(***************************************************************************)
(* The audit policy is journalled: whatever fails and wherever the service *)
(* is killed, success auditing that ReadWatch switched on can be taken     *)
(* back by a process that has nothing but the configuration file.  Proved  *)
(* outside the windows in which the code does not promise it (Gaps = {}).  *)
(***************************************************************************)
EXTENDS MonitoringProofs

NoGaps == Gaps = {}

\* A record that tells what the policy is now, because ReadWatch made it so.
Tells(r) == r # None /\ r.applied = policy

Sound(r) == r # None => "success" \notin r.orig

\* Two records of one change, confirmed or not.
Alike(r, s) == r # None /\ s # None /\ r.applied = s.applied

\* What one record says of the other while both may be acted on.
Agree(r, s) == r # None /\ s # None => r.applied = s.applied

Resuming == op \in {"hello", "start"}

\* The stages of a change to an engine that was running.
Changing == ~Resuming /\ stage \in {"swap", "run", "giveback", "goIdle", "rollback", "rollbackOff"}

\* Steps of a start that may have set the policy; one that fails there rolls back.
Entered == {"confirmPolicy", "mark", "add", "confirm", "commit", "launch"}

SoundRecords == Sound(mem.pol) /\ Sound(cfg.pol) /\ Sound(disk.pol)

OnDisk == polOwned /\ pc # "notePolicy" => Tells(disk.pol)
InHand == polOwned /\ pc # "idle" => Tells(cfg.pol)

\* What the engine falls back on when an operation ends early.
InMemory ==
  polOwned /\ service # "down" /\ ~RollingBack /\ pc \notin Entered => Tells(mem.pol)

\* A rollback has taken the policy back once it has passed it; it is never
\* ReadWatch's when it is about to be set for the first time, or forgotten.
TakenBack ==
  pc \in {"forget", "enable"} \/ (RollingBack /\ pc \in {"disable", "failed"}) => ~polOwned

\* The intent is on disk before the change, the configuration before the launch.
Written == /\ pc = "enable" => cfg.pol # None /\ disk.pol = cfg.pol
           /\ pc = "confirmPolicy" => Tells(cfg.pol)
           /\ pc = "launch" => disk.pol = cfg.pol

\* The record a start sets the policy from: none after a recovery, otherwise
\* the engine's own.
Source ==
  /\ Resuming /\ pc \in {"begin", "ensure"} => cfg.pol = None
  /\ ~Resuming /\ (pc \in {"bind", "begin", "ensure"} \/ stage = "swap") => cfg.pol = mem.pol
  /\ pc = "notePolicy" => ~Resuming /\ Alike(cfg.pol, mem.pol)

\* While an engine runs, or is being changed, file and memory speak of one change.
Paired == /\ running \/ Changing => Agree(disk.pol, mem.pol)
          /\ Changing => Agree(cfg.pol, mem.pol)

Removing == {"withdraw", "settle", "restore", "forget"}

\* Which steps a stage passes through, and on whose behalf.
Course ==
  /\ stage = "none"        => pc \in {"idle", "bind", "record"}
  /\ stage = "hello"       => op = "hello" /\ pc \in Removing \cup {"helloDone", "bind"}
  /\ stage = "start"       => Resuming /\ pc \in Removing \cup {"begin", "failed"}
  /\ stage = "applyIdle"   => ~Resuming /\ pc \in Removing \cup {"record"}
  /\ stage = "swap"        => ~Resuming /\ pc \in {"withdraw", "settle", "begin", "failed"}
  /\ stage = "run"         => pc \in {"begin", "ensure", "enable", "confirmPolicy", "notePolicy",
                                      "mark", "add", "confirm", "launch", "failed"}
  /\ stage = "stop"        => ~Resuming /\ pc \in Removing \cup {"stopSave"}
  /\ stage = "giveback"    => pc \in {"restore", "forget", "commit", "launch", "failed"}
  /\ stage = "goIdle"      => ~Resuming /\ pc \in {"restore", "forget", "record"}
  /\ stage = "rollback"    => pc \in Removing \cup {"failed"}
  /\ stage = "rollbackOff" => pc \in Removing \cup {"disable", "failed"}
  /\ running => pc \in {"idle", "bind"} /\ (pc = "idle" \/ ~Resuming)
  /\ service = "down" => pc = "idle" /\ ~running

PolicyInv == /\ SoundRecords /\ OnDisk /\ InHand /\ InMemory /\ TakenBack
             /\ Written /\ Source /\ Paired /\ Course
-----------------------------------------------------------------------------
(***************************************************************************)
(* Steps that change neither the policy nor what is recorded of it.        *)
(***************************************************************************)

\* A step inside an operation, away from the policy, that may save what is in
\* hand; a rollback may begin.
LEMMA PolicySteady ==
  ASSUME PolicyInv, UNCHANGED <<policy, polOwned, mem, service, op, running>>,
         cfg'.pol = cfg.pol, disk'.pol \in {disk.pol, cfg.pol},
         pc \in {"withdraw", "settle", "mark", "add", "confirm", "commit", "launch", "disable"},
         \/ UNCHANGED stage
         \/ pc \in Entered /\ RollingBack' /\ (Changing' => Changing),
         \/ pc' \in Entered \cup {"withdraw", "settle", "restore"}
         \/ stage = "swap" /\ pc' \in {"begin", "failed"}
         \/ pc = "disable" /\ pc' = "failed",
         pc' # "confirmPolicy",
         pc' \in {"withdraw", "settle", "restore"} => RollingBack' \/ pc \notin Entered,
         pc' = "launch" => disk'.pol = cfg.pol,
         Course'
  PROVE  PolicyInv'
  <1> USE DEF PolicyInv
  <1>1. SoundRecords' /\ OnDisk' /\ InHand' /\ Written'
    BY DEF SoundRecords, Sound, OnDisk, InHand, Written, Tells, Entered
  <1>2. InMemory'
    BY DEF InMemory, Tells, RollingBack, Entered, Course
  <1>3. TakenBack'
    BY DEF TakenBack, RollingBack, Entered, Course
  <1>4. Source' /\ Paired'
    BY DEF Source, Paired, Agree, Resuming, Changing, RollingBack, Entered, Course
  <1> QED BY <1>1, <1>2, <1>3, <1>4

\* An operation that returns.
LEMMA PolicyReturned ==
  ASSUME PolicyInv, UNCHANGED <<policy, polOwned, disk, mem, service, running>>,
         NEW res, Finish(res), pc \notin Entered, pc # "notePolicy", RollingBack => pc = "failed"
  PROVE  PolicyInv'
  <1> USE DEF PolicyInv
  <1>1. cfg'.pol = None /\ pc' = "idle" /\ stage' = "none" /\ op' = "none"
    BY DEF Finish, BlankConfig
  <1>2. SoundRecords' /\ OnDisk' /\ InHand' /\ TakenBack' /\ Written' /\ Source' /\ Course'
    BY <1>1 DEF SoundRecords, Sound, OnDisk, InHand, TakenBack, Written, Source, Course, Tells,
                RollingBack
  <1>3. InMemory'
    BY <1>1 DEF InMemory, TakenBack, Tells
  <1>4. Paired'
    BY <1>1 DEF Paired, Changing, Agree
  <1> QED BY <1>2, <1>3, <1>4

\* An operation that leaves the configuration in hand to the engine, and, if the
\* save succeeds, to the file; the engine runs only if it does.
LEMMA PolicyTaken ==
  ASSUME PolicyInv, UNCHANGED <<policy, polOwned>>, mem'.pol = cfg.pol,
         disk'.pol \in {disk.pol, cfg.pol}, NEW res, Finish(res),
         pc \notin {"idle", "notePolicy"}, running' => disk'.pol = cfg.pol,
         service' = "down" => ~running'
  PROVE  PolicyInv'
  <1> USE DEF PolicyInv
  <1>1. cfg'.pol = None /\ pc' = "idle" /\ stage' = "none" /\ op' = "none"
    BY DEF Finish, BlankConfig
  <1>2. SoundRecords' /\ OnDisk' /\ InHand' /\ TakenBack' /\ Written' /\ Source' /\ Course'
    BY <1>1 DEF SoundRecords, Sound, OnDisk, InHand, TakenBack, Written, Source, Course, Tells,
                RollingBack
  <1>3. InMemory'
    BY <1>1 DEF InMemory, InHand, Tells
  <1>4. Paired'
    BY <1>1 DEF Paired, Changing, Agree
  <1> QED BY <1>2, <1>3, <1>4

LEMMA PolicyInit == Init => PolicyInv
  BY DEF Init, BlankConfig, PolicyInv, SoundRecords, Sound, OnDisk, InHand, InMemory, TakenBack,
         Written, Source, Paired, Agree, Changing, Course, RollingBack

LEMMA PolicyBegin == ASSUME TypeInv, PolicyInv, Begin PROVE PolicyInv'
  <1> USE DEF PolicyInv
  <1>1. /\ UNCHANGED <<policy, polOwned, disk, mem, service>> /\ pc = "idle" /\ stage = "none"
        /\ cfg' = mem /\ service # "down"
    BY DEF Begin, BeginHello, BeginStart, BeginSave, BeginApply, BeginStop, BeginShutdown,
           Stopping, Beginning, machine, Course, Removing, TypeInv, TypeOK, Stages
  <1>2. \/ /\ op' = "hello" /\ stage' = "hello" /\ pc' \in {"withdraw", "helloDone"} /\ ~running'
        \/ op' = "start" /\ stage' = "none" /\ pc' = "bind" /\ ~running'
        \/ /\ op' \in {"save", "apply"} /\ stage' = "none" /\ pc' = "bind"
           /\ UNCHANGED running
        \/ op' \in {"stop", "shutdown"} /\ stage' = "stop" /\ pc' = "withdraw" /\ ~running'
    BY <1>1 DEF Begin, BeginHello, BeginStart, BeginSave, BeginApply, BeginStop, BeginShutdown,
                Stopping, Beginning, Goto
  <1>3. SoundRecords' /\ OnDisk' /\ TakenBack' /\ Written'
    BY <1>1, <1>2 DEF SoundRecords, Sound, OnDisk, TakenBack, Written, Tells, RollingBack
  <1>4. InHand' /\ InMemory'
    BY <1>1, <1>2 DEF InHand, InMemory, Tells, RollingBack, Entered
  <1>5. Source' /\ Paired' /\ Course'
    BY <1>1, <1>2 DEF Source, Paired, Course, Agree, Resuming, Changing, Removing
  <1> QED BY <1>3, <1>4, <1>5

LEMMA PolicyBind == ASSUME TypeInv, PolicyInv, Bind \/ BindFails PROVE PolicyInv'
  <1> USE DEF PolicyInv
  <1>1. CASE Bind
    <2>1. /\ UNCHANGED <<policy, polOwned, disk, mem, service, cfg, op>> /\ pc = "bind"
      BY <1>1 DEF Bind, machine
    <2>2. \/ /\ Resuming /\ stage' = "start" /\ pc' = "withdraw" /\ ~running'
          \/ ~Resuming /\ running /\ stage' = "swap" /\ pc' = "withdraw" /\ ~running'
          \/ ~Resuming /\ stage' = "applyIdle" /\ pc' = "withdraw" /\ ~running'
          \/ ~Resuming /\ stage' = stage /\ pc' = "record" /\ ~running'
      BY <1>1, <2>1 DEF Bind, AfterBind, Goto, Resuming, Course
    <2>3. stage \in {"none", "hello"} /\ (~Resuming => stage = "none")
      BY <2>1 DEF Course, Removing, Resuming, TypeInv, TypeOK, Stages
    <2>4. SoundRecords' /\ OnDisk' /\ InHand' /\ TakenBack' /\ Written'
      BY <2>1, <2>2, <2>3 DEF SoundRecords, Sound, OnDisk, InHand, TakenBack, Written, Tells,
                              RollingBack
    <2>5. InMemory'
      BY <2>1, <2>2, <2>3 DEF InMemory, Tells, RollingBack, Entered
    <2>6. Source' /\ Paired' /\ Course'
      BY <2>1, <2>2, <2>3 DEF Source, Paired, Course, Agree, Resuming, Changing, Removing
    <2> QED BY <2>4, <2>5, <2>6
  <1>2. CASE BindFails
    <2>1. UNCHANGED <<policy, polOwned, disk, mem, service, running>> /\ Finish("error")
          /\ pc = "bind"
      BY <1>2 DEF BindFails, machine
    <2>2. ~RollingBack
      BY <2>1 DEF Course, RollingBack, Removing
    <2> QED BY <2>1, <2>2, PolicyReturned DEF Entered
  <1> QED BY <1>1, <1>2
-----------------------------------------------------------------------------
LEMMA PolicyWithdraw ==
  ASSUME TypeInv, PolicyInv,
         \/ WithdrawRule \/ SettleWithdrawal \/ DropRecord \/ DeferRecord
         \/ WithdrawFails \/ Withdrawn
  PROVE  PolicyInv'
  <1>1. /\ UNCHANGED <<policy, polOwned, mem, service, op, running, stage>>
        /\ pc \in {"withdraw", "settle"}
        /\ \/ pc' \in {"withdraw", "settle"}
           \/ pc = "withdraw" /\ stage # "swap" /\ pc' = "restore"
           \/ pc = "withdraw" /\ stage = "swap" /\ pc' \in {"begin", "failed"}
    BY DEF WithdrawRule, SettleWithdrawal, DropRecord, DeferRecord, WithdrawFails, Withdrawn,
           Forgets, KeepLocals, Goto, machine, engine
  <1>2. cfg'.pol = cfg.pol /\ disk' \in {disk, cfg'}
    <2>1. CASE \E k \in Objects : cfg' = Dropped(cfg, k) /\ disk' \in {disk, cfg'}
      BY <2>1 DEF Dropped, TypeInv, TypeOK, Config
    <2>2. CASE UNCHANGED <<cfg, disk>>
      BY <2>2
    <2>3. pc = "settle" => cur \in Objects
      BY DEF TypeInv, Shape, Records
    <2>4. todo \subseteq Objects
      BY DEF TypeInv, TypeOK
    <2> QED BY <2>1, <2>2, <2>3, <2>4
            DEF WithdrawRule, SettleWithdrawal, DropRecord, DeferRecord, WithdrawFails, Withdrawn,
                Forgets, Save, SaveFails
  <1>3. Course'
    BY <1>1 DEF PolicyInv, Course, Removing, Resuming
  <1> QED BY <1>1, <1>2, <1>3, PolicySteady DEF Entered

\* A policy that is ReadWatch's is taken back, or an error is met and the
\* record kept; one that is not is left, and the record forgotten.
LEMMA PolicyRestore ==
  ASSUME NoGaps, TypeInv, PolicyInv,
         NothingToRestore \/ RestorePolicy \/ RestorePolicyFails \/ ForgetPolicy
  PROVE  PolicyInv'
  <1> USE DEF PolicyInv
  <1>1. UNCHANGED <<mem, service, op, running, stage>>
    BY DEF NothingToRestore, RestorePolicy, RestorePolicyFails, ForgetPolicy, Restoring,
           KeepLocals, engine
  <1>2. \/ /\ pc = "restore" /\ UNCHANGED <<cfg, disk, policy, polOwned>>
           /\ cfg.pol = None \/ ~RollingBack
           /\ \E err \in BOOLEAN : pc' = Resume(err) /\ (~err => cfg.pol = None)
        \/ /\ pc = "restore" /\ UNCHANGED <<cfg, disk>> /\ pc' = "forget"
           /\ ~polOwned'
        \/ /\ pc = "forget" /\ UNCHANGED <<policy, polOwned>>
           /\ cfg'.pol = None /\ disk' \in {disk, cfg'} /\ \E err \in BOOLEAN : pc' = Resume(err)
    <2>1. CASE NothingToRestore
      BY <2>1 DEF NothingToRestore, Restoring, Goto, machine, TypeInv, TypeOK
    <2>2. CASE RestorePolicy
      BY <2>2 DEF RestorePolicy, Restoring, Goto, InHand, Tells
    <2>3. CASE RestorePolicyFails
      BY <2>3 DEF RestorePolicyFails, Restoring, Goto, machine, NoGaps, Unconfirmed
    <2>4. CASE ForgetPolicy
      BY <2>4 DEF ForgetPolicy, Goto, machine, TypeInv, TypeOK, Config, Save, SaveFails
    <2> QED BY <2>1, <2>2, <2>3, <2>4
  <1>3. pc \in {"restore", "forget"}
        /\ stage \in {"hello", "start", "applyIdle", "stop", "giveback", "goIdle", "rollback",
                      "rollbackOff"}
    BY <1>2 DEF Course, TypeInv, TypeOK, Stages
  <1>4. pc' \in {"forget", "helloDone", "failed", "begin", "commit", "record", "stopSave", "disable"}
        /\ Course'
    BY <1>1, <1>2, <1>3 DEF Resume, Course, Removing, Resuming
  <1>5. SoundRecords'
    BY <1>1, <1>2 DEF SoundRecords, Sound
  <1>6. OnDisk' /\ InHand'
    BY <1>1, <1>2, <1>4 DEF OnDisk, InHand, TakenBack, Tells
  <1>7. InMemory'
    BY <1>1, <1>2, <1>3, <1>4 DEF InMemory, TakenBack, Tells, RollingBack, Entered
  <1>8. TakenBack'
    BY <1>1, <1>2, <1>3, <1>4 DEF TakenBack, InHand, Tells, RollingBack, Resume
  <1>9. Written' /\ Source'
    BY <1>1, <1>2, <1>3, <1>4 DEF Written, Source, Resume, Resuming, Course
  <1>10. Paired'
    BY <1>1, <1>2, <1>3 DEF Paired, Agree, Changing, Resuming
  <1> QED BY <1>4, <1>5, <1>6, <1>7, <1>8, <1>9, <1>10
-----------------------------------------------------------------------------
LEMMA PolicyMark ==
  ASSUME TypeInv, PolicyInv, AlreadyMarked \/ PrepareMark \/ MarkRefused \/ AddRule \/ ConfirmMark
  PROVE  PolicyInv'
  <1>1. /\ UNCHANGED <<policy, polOwned, mem, service, op, running>>
        /\ pc \in {"mark", "add", "confirm"}
        /\ \/ UNCHANGED stage /\ pc' \in {"mark", "add", "confirm"}
           \/ stage' = "rollback" /\ pc' = "withdraw"
    BY DEF AlreadyMarked, PrepareMark, MarkRefused, AddRule, ConfirmMark, Marking, RollBack,
           KeepAll, Goto, engine
  <1>2. cfg'.pol = cfg.pol /\ disk' \in {disk, cfg'}
    <2>1. cfg \in Config /\ bnd.live \subseteq Objects
      BY DEF TypeInv, TypeOK, Bound
    <2>2. pc = "confirm" => cur \in Objects
      BY DEF TypeInv, Shape, Records
    <2>3. CASE PrepareMark
      <3>1. PICK o \in bnd.live :
              /\ cfg' = [cfg EXCEPT !.snaps[o] = Intent(o)] \/ cfg' = Dropped(cfg, o)
              /\ disk' \in {disk, cfg'}
        BY <2>3 DEF PrepareMark, Save, SaveFails
      <3> QED BY <2>1, <3>1 DEF Config, Dropped
    <2>4. CASE ConfirmMark
      <3>1. cfg' \in {cfg, [cfg EXCEPT !.snaps[cur].phase = "applied"]} /\ disk' \in {disk, cfg'}
        BY <2>4 DEF ConfirmMark, Save, SaveFails
      <3> QED BY <2>1, <3>1 DEF Config
    <2> QED BY <2>3, <2>4 DEF AlreadyMarked, MarkRefused, AddRule
  <1>3. stage \in {"run"}
    BY <1>1 DEF PolicyInv, Course, Removing, TypeInv, TypeOK, Stages
  <1>4. Course' /\ (Changing' => Changing)
    BY <1>1, <1>3 DEF PolicyInv, Course, Removing, Resuming, Changing
  <1> QED BY <1>1, <1>2, <1>3, <1>4, PolicySteady DEF Entered, RollingBack

LEMMA PolicyLaunch ==
  ASSUME TypeInv, PolicyInv, Commit \/ Launch \/ LaunchFails \/ Disable
  PROVE  PolicyInv'
  <1>1. stage \in {"run", "giveback", "rollbackOff"}
    BY DEF Commit, Launch, LaunchFails, Disable, PolicyInv, Course, Removing, TypeInv, TypeOK, Stages
  <1>2. CASE Launch
    <2>1. /\ UNCHANGED <<policy, polOwned, disk, service>> /\ pc = "launch" /\ mem' = cfg
          /\ \E res : Finish(res)
      BY <1>2 DEF Launch, machine
    <2>2. disk.pol = cfg.pol /\ service # "down"
      BY <2>1 DEF PolicyInv, Written, Course
    <2> QED BY <2>1, <2>2, PolicyTaken
  <1>3. CASE Commit \/ LaunchFails
    <2>1. /\ UNCHANGED <<policy, polOwned, mem, service, op, running>>
          /\ pc \in {"mark", "commit", "launch"}
          /\ \/ UNCHANGED stage /\ pc' = "launch" /\ disk' = cfg'
             \/ stage' \in {"rollback", "rollbackOff"} /\ pc' = "withdraw"
      BY <1>3 DEF Commit, LaunchFails, RollBack, KeepAll, Goto, machine, engine, Save
    <2>2. cfg'.pol = cfg.pol /\ disk' \in {disk, cfg'}
      <3>1. \/ cfg' = cfg
            \/ cfg' = [Adopt(cfg, bnd) EXCEPT !.enabled = TRUE]
        BY <1>3 DEF Commit, LaunchFails
      <3>2. disk' \in {disk, cfg'}
        BY <1>3 DEF Commit, LaunchFails, Save, SaveFails
      <3> QED BY <3>1, <3>2 DEF Adopt, TypeInv, TypeOK, Config
    <2>3. stage \in {"run", "giveback"}
      BY <1>1, <2>1 DEF PolicyInv, Course, Removing
    <2>4. Course' /\ (Changing' => Changing)
      BY <2>1, <2>3 DEF PolicyInv, Course, Removing, Resuming, Changing
    <2> QED BY <2>1, <2>2, <2>3, <2>4, PolicySteady DEF Entered, RollingBack
  <1>4. CASE Disable
    <2>1. /\ UNCHANGED <<policy, polOwned, mem, service, op, running, stage>>
          /\ pc = "disable" /\ pc' = "failed" /\ disk' \in {disk, cfg'}
      BY <1>4 DEF Disable, KeepLocals, Goto, machine, engine, Save, SaveFails
    <2>2. cfg'.pol = cfg.pol
      BY <1>4 DEF Disable, TypeInv, TypeOK, Config
    <2>3. Course'
      BY <1>1, <2>1 DEF PolicyInv, Course, Removing
    <2> QED BY <2>1, <2>2, <2>3, PolicySteady DEF Entered
  <1> QED BY <1>2, <1>3, <1>4
-----------------------------------------------------------------------------
(***************************************************************************)
(* The steps that set the policy.                                          *)
(***************************************************************************)

\* The intent is written while the policy is still as it was found, so it is
\* not ReadWatch's then; a policy that is set again is set from the engine's
\* own record.
LEMMA PolicyEnsure == ASSUME TypeInv, PolicyInv, EnsurePolicy PROVE PolicyInv'
  <1> USE DEF PolicyInv
  <1>1. /\ UNCHANGED <<mem, service, op, running, stage>> /\ pc = "ensure"
        /\ stage = "run" /\ ~running
    BY DEF EnsurePolicy, Ensuring, KeepAll, engine, Course, Removing, TypeInv, TypeOK, Stages
  <1>2. \/ /\ UNCHANGED <<policy, polOwned, disk, cfg>> /\ pc' \in {"mark", "notePolicy"}
           /\ pc' = "notePolicy" => cfg.pol # None
        \/ /\ cfg.pol # None /\ policy' = cfg.pol.applied /\ pc' = "notePolicy"
           /\ UNCHANGED <<disk, cfg>>
        \/ UNCHANGED <<policy, polOwned, disk, cfg>> /\ pc' = "failed"
        \/ /\ UNCHANGED <<policy, polOwned>> /\ cfg'.pol = None /\ disk' \in {disk, cfg'}
           /\ ~polOwned /\ pc' \in {"mark", "failed"}
        \/ /\ UNCHANGED <<policy, polOwned>> /\ ~polOwned /\ disk' = cfg' /\ pc' = "enable"
           /\ cfg.pol = None /\ cfg'.pol # None /\ cfg'.pol.orig = policy /\ "success" \notin policy
    <2>1. ASSUME cfg.pol = None, "success" \notin policy,
                 cfg' = [cfg EXCEPT !.pol = [orig |-> policy, applied |-> policy \cup {"success"},
                                             phase |-> "prepared"]]
          PROVE  cfg'.pol # None /\ cfg'.pol.orig = policy
      <3>1. cfg'.pol = [orig |-> policy, applied |-> policy \cup {"success"}, phase |-> "prepared"]
        BY <2>1 DEF TypeInv, TypeOK, Config
      <3>2. cfg'.pol \in Record(Flags)
        BY <3>1 DEF Record, TypeInv, TypeOK, Flags
      <3> QED BY <3>1, <3>2, NoneAssumption
    <2>2. ASSUME cfg' = [cfg EXCEPT !.pol = None] PROVE cfg'.pol = None
      BY <2>2 DEF TypeInv, TypeOK, Config
    <2>3. polOwned => cfg.pol # None /\ policy = cfg.pol.applied
      BY <1>1 DEF InHand, Tells
    <2> QED BY <2>1, <2>2, <2>3 DEF EnsurePolicy, Ensuring, Goto, Save, SaveFails
  <1>3. Course'
    BY <1>1, <1>2 DEF Course
  <1>4. SoundRecords'
    BY <1>1, <1>2 DEF SoundRecords, Sound
  <1>5. OnDisk' /\ InHand'
    BY <1>1, <1>2 DEF OnDisk, InHand, Tells
  <1>6. ~Resuming \/ cfg.pol = None
    BY <1>1 DEF Source
  <1>7. ~Resuming => cfg.pol = mem.pol
    BY <1>1 DEF Source
  <1>8. InMemory'
    BY <1>1, <1>2, <1>6, <1>7 DEF InMemory, Tells, RollingBack, Entered
  <1>9. TakenBack' /\ Written' /\ Source'
    BY <1>1, <1>2, <1>6, <1>7 DEF TakenBack, Written, Source, Resuming, Alike, RollingBack
  <1>10. Paired'
    BY <1>1, <1>2, <1>7 DEF Paired, Agree, Changing, Resuming
  <1> QED BY <1>3, <1>4, <1>5, <1>8, <1>9, <1>10

LEMMA PolicyEnable ==
  ASSUME NoGaps, TypeInv, PolicyInv, EnablePolicy \/ ConfirmPolicy PROVE PolicyInv'
  <1> USE DEF PolicyInv
  <1>1. /\ UNCHANGED <<mem, service, op, running, stage>>
        /\ pc \in {"enable", "confirmPolicy", "notePolicy"} /\ stage = "run" /\ ~running
    BY DEF EnablePolicy, ConfirmPolicy, Ensuring, KeepAll, engine, Course, Removing, TypeInv,
           TypeOK, Stages
  <1>2. CASE EnablePolicy
    <2>1. \/ policy' = cfg.pol.applied /\ pc' = "confirmPolicy" /\ UNCHANGED <<disk, cfg>>
          \/ /\ UNCHANGED <<policy, polOwned>> /\ cfg'.pol = None /\ disk' \in {disk, cfg'}
             /\ pc' = "failed"
      BY <1>2 DEF EnablePolicy, Ensuring, Goto, TypeInv, TypeOK, Config
    <2>2. pc = "enable" /\ ~polOwned /\ cfg.pol # None /\ disk.pol = cfg.pol
      BY <1>2 DEF EnablePolicy, Ensuring, TakenBack, Written
    <2>3. Course' /\ SoundRecords' /\ OnDisk' /\ InHand'
      BY <1>1, <2>1, <2>2 DEF Course, SoundRecords, Sound, OnDisk, InHand, Tells
    <2>4. InMemory' /\ TakenBack' /\ Written' /\ Source' /\ Paired'
      BY <1>1, <2>1, <2>2 DEF InMemory, TakenBack, Written, Source, Paired, Agree, Changing,
                              Resuming, Tells, RollingBack, Entered
    <2> QED BY <2>3, <2>4
  <1>3. CASE ConfirmPolicy
    <2>1. cfg.pol # None /\ (pc = "confirmPolicy" => Tells(cfg.pol))
      BY <1>3 DEF ConfirmPolicy, Written, Source, Alike, Tells
    <2>2. /\ UNCHANGED <<policy, polOwned>> /\ disk' \in {disk, cfg'}
          /\ cfg'.pol = [cfg.pol EXCEPT !.phase = "applied"]
          /\ \/ pc' = "mark" /\ disk' = cfg'
             \/ pc' = "failed" /\ disk' = disk /\ pc = "notePolicy" /\ disk.pol # None
      BY <1>1, <1>3, <2>1 DEF ConfirmPolicy, Ensuring, Goto, Save, SaveFails, Tells, NoGaps,
           Unconfirmed, Reenabled, Unrecorded, TypeInv, TypeOK, Config
    <2>3. cfg'.pol # None /\ cfg'.pol.applied = cfg.pol.applied /\ cfg'.pol.orig = cfg.pol.orig
      <3>1. cfg.pol \in Record(Flags)
        BY <2>1 DEF TypeInv, TypeOK, Config
      <3>2. cfg'.pol \in Record(Flags)
        BY <2>2, <3>1 DEF Record
      <3> QED BY <2>2, <3>1, <3>2, NoneAssumption DEF Record
    <2>4. Course' /\ SoundRecords' /\ InHand'
      BY <1>1, <2>1, <2>2, <2>3 DEF Course, SoundRecords, Sound, InHand, Tells
    <2>5. OnDisk'
      BY <1>1, <2>1, <2>2, <2>3 DEF OnDisk, InHand, Tells, Paired, Agree, Source, Alike, Changing
    <2>6. InMemory' /\ TakenBack' /\ Written' /\ Source'
      BY <1>1, <2>1, <2>2, <2>3 DEF InMemory, TakenBack, Written, Source, Resuming, Tells,
                                    RollingBack, Entered
    <2>7. Paired'
      BY <1>1, <2>1, <2>2, <2>3 DEF Paired, Agree, Changing, Resuming
    <2> QED BY <2>4, <2>5, <2>6, <2>7
  <1> QED BY <1>2, <1>3
-----------------------------------------------------------------------------
(***************************************************************************)
(* Where an operation begins to run, fails, resumes and ends.              *)
(***************************************************************************)
LEMMA PolicyBeginRun == ASSUME TypeInv, PolicyInv, BeginRun PROVE PolicyInv'
  <1> USE DEF PolicyInv
  <1>1. UNCHANGED <<policy, polOwned, disk, mem, service, running>> /\ pc = "begin"
    BY DEF BeginRun, machine
  <1>2. CASE Finish("ok") \/ Finish("error")
    <2>1. ~RollingBack
      BY <1>1 DEF Course, RollingBack, Removing
    <2> QED BY <1>1, <1>2, <2>1, PolicyReturned DEF Entered
  <1>3. CASE ~(Finish("ok") \/ Finish("error"))
    <2>1. /\ UNCHANGED <<op, cfg>>
          /\ \/ stage' = "goIdle" /\ pc' = "restore" /\ ~Resuming
             \/ stage' = "giveback" /\ pc' = "restore"
             \/ stage' = "run" /\ pc' = "ensure"
      BY <1>3 DEF BeginRun, Goto, Resuming
    <2>2. stage \in {"start", "swap", "run"}
      BY <1>1 DEF Course, Removing, TypeInv, TypeOK, Stages
    <2>3. Course' /\ SoundRecords' /\ OnDisk' /\ InHand'
      BY <1>1, <2>1, <2>2 DEF Course, Resuming, Removing, SoundRecords, Sound, OnDisk, InHand, Tells
    <2>4. InMemory' /\ TakenBack' /\ Written' /\ Source'
      BY <1>1, <2>1, <2>2 DEF InMemory, TakenBack, Written, Source, Resuming, Tells, RollingBack,
                              Entered
    <2>5. Paired'
      BY <1>1, <2>1, <2>2 DEF Paired, Agree, Changing, Course, Resuming, Removing
    <2> QED BY <2>3, <2>4, <2>5
  <1> QED BY <1>2, <1>3

\* The old configuration goes on with the engine's own record.
LEMMA PolicyFailed == ASSUME TypeInv, PolicyInv, Failed PROVE PolicyInv'
  <1> USE DEF PolicyInv
  <1>1. UNCHANGED <<policy, polOwned, disk, mem, service, running>> /\ pc = "failed"
    BY DEF Failed, machine
  <1>2. CASE Finish("error")
    BY <1>1, <1>2, PolicyReturned DEF Entered
  <1>3. CASE ~Finish("error")
    <2>1. /\ UNCHANGED op /\ ~Resuming /\ stage' = "run" /\ pc' = "begin" /\ cfg' = OldConfig
      BY <1>3 DEF Failed, Goto, Resuming
    <2>2. stage \in {"swap", "run", "giveback", "rollback", "rollbackOff"}
      BY <1>1, <2>1 DEF Course, Removing, TypeInv, TypeOK, Stages
    <2>3. cfg'.pol = mem.pol
      <3>1. CASE stage = "swap"
        BY <2>1, <3>1 DEF OldConfig, Source
      <3>2. CASE stage # "swap"
        BY <2>1, <3>2 DEF OldConfig, TypeInv, TypeOK, Config
      <3> QED BY <3>1, <3>2
    <2>4. polOwned => Tells(mem.pol)
      BY <1>1 DEF InMemory, TakenBack, Course, Entered, RollingBack
    <2>5. Course' /\ SoundRecords' /\ OnDisk' /\ InHand' /\ InMemory'
      BY <1>1, <2>1, <2>3, <2>4 DEF Course, SoundRecords, Sound, OnDisk, InHand, InMemory, Tells
    <2>6. TakenBack' /\ Written' /\ Source'
      BY <1>1, <2>1, <2>3 DEF TakenBack, Written, Source, Resuming, RollingBack
    <2>7. Paired'
      BY <1>1, <2>1, <2>2, <2>3 DEF Paired, Agree, Changing, Resuming
    <2> QED BY <2>5, <2>6, <2>7
  <1> QED BY <1>2, <1>3

LEMMA PolicyEnds ==
  ASSUME TypeInv, PolicyInv, HelloDone \/ RecordBound \/ StopSave PROVE PolicyInv'
  <1> USE DEF PolicyInv
  <1>1. /\ UNCHANGED <<policy, polOwned, running>>
        /\ pc \in {"helloDone", "record", "stopSave"} /\ ~running
    BY DEF HelloDone, RecordBound, StopSave, machine, Course
  <1>2. mem'.pol = cfg.pol /\ disk'.pol \in {disk.pol, cfg.pol}
    <2>1. CASE HelloDone
      BY <2>1 DEF HelloDone
    <2>2. CASE RecordBound
      BY <2>2 DEF RecordBound, Adopt, Save, SaveFails, TypeInv, TypeOK, Config
    <2>3. CASE StopSave
      BY <2>3 DEF StopSave, Save, SaveFails, TypeInv, TypeOK, Config
    <2> QED BY <2>1, <2>2, <2>3
  <1>3. CASE \E res : Finish(res)
    BY <1>1, <1>2, <1>3, PolicyTaken
  <1>4. CASE ~ \E res : Finish(res)
    <2>1. /\ pc = "helloDone" /\ pc' = "bind" /\ UNCHANGED <<disk, service, op, stage, cfg>>
      BY <1>4 DEF HelloDone, RecordBound, StopSave, Goto
    <2>2. stage = "hello" /\ Resuming
      BY <2>1 DEF Course, Removing, Resuming, TypeInv, TypeOK, Stages
    <2>3. Course' /\ SoundRecords' /\ OnDisk' /\ InHand' /\ InMemory'
      BY <1>1, <1>2, <2>1, <2>2 DEF Course, SoundRecords, Sound, OnDisk, InHand, InMemory, Tells
    <2>4. TakenBack' /\ Written' /\ Source' /\ Paired'
      BY <1>1, <1>2, <2>1, <2>2 DEF TakenBack, Written, Source, Resuming, RollingBack, Paired,
                                    Changing
    <2> QED BY <2>3, <2>4
  <1> QED BY <1>3, <1>4

\* A process that is killed leaves a file that tells what the policy is: when
\* it was being set again, the record it was set from is still there.
LEMMA PolicyProcess ==
  ASSUME NoGaps, TypeInv, PolicyInv, RequestStop \/ Crash \/ Boot PROVE PolicyInv'
  <1> USE DEF PolicyInv
  <1>1. CASE RequestStop
    <2>1. /\ UNCHANGED <<policy, polOwned, disk, mem, cfg, pc, op, stage, running>>
          /\ service # "down" /\ service' # "down"
      BY <1>1 DEF RequestStop, machine, local
    <2> QED BY <2>1 DEF SoundRecords, Sound, OnDisk, InHand, InMemory, TakenBack, Written, Source,
                        Paired, Agree, Alike, Changing, Resuming, Course, RollingBack, Tells
  <1>2. CASE Crash
    <2>1. /\ UNCHANGED <<policy, polOwned, disk>> /\ service' = "down" /\ ~running'
          /\ mem'.pol = None /\ cfg'.pol = None /\ pc' = "idle" /\ stage' = "none"
          /\ pc = "notePolicy" => disk.pol # None
      BY <1>2 DEF Crash, Finish, BlankConfig, machine, NoGaps, Reenabled, Unrecorded
    <2>2. polOwned => Tells(disk.pol)
      <3>1. CASE pc = "notePolicy"
        <4>1. stage = "run" /\ Changing
          BY <3>1 DEF Source, Changing, Course, Removing, TypeInv, TypeOK, Stages
        <4> QED BY <2>1, <3>1, <4>1 DEF InHand, Tells, Paired, Agree, Source, Alike
      <3>2. CASE pc # "notePolicy"
        BY <3>2 DEF OnDisk
      <3> QED BY <3>1, <3>2
    <2>3. Course' /\ SoundRecords' /\ OnDisk' /\ InHand' /\ InMemory'
      BY <2>1, <2>2 DEF Course, SoundRecords, Sound, OnDisk, InHand, InMemory, Tells
    <2>4. TakenBack' /\ Written' /\ Source' /\ Paired'
      BY <2>1 DEF TakenBack, Written, Source, RollingBack, Paired, Changing, Agree
    <2> QED BY <2>3, <2>4
  <1>3. CASE Boot
    <2>1. /\ UNCHANGED <<policy, polOwned, disk, running, cfg, pc, op, stage>>
          /\ service = "down" /\ service' = "up" /\ mem' = disk
      BY <1>3 DEF Boot, machine, local
    <2>2. pc = "idle" /\ stage = "none" /\ ~running
      BY <2>1 DEF Course, Removing, TypeInv, TypeOK, Stages
    <2>3. Course' /\ SoundRecords' /\ OnDisk' /\ InHand' /\ InMemory'
      BY <2>1, <2>2 DEF Course, SoundRecords, Sound, OnDisk, InHand, InMemory, Tells
    <2>4. TakenBack' /\ Written' /\ Source' /\ Paired'
      BY <2>1, <2>2 DEF TakenBack, Written, Source, RollingBack, Paired, Changing
    <2> QED BY <2>3, <2>4
  <1> QED BY <1>1, <1>2, <1>3

\* Another administrator who edits the policy takes it over.
LEMMA PolicyWorld == ASSUME NoGaps, TypeInv, PolicyInv, World PROVE PolicyInv'
  <1> USE DEF PolicyInv
  <1>1. /\ UNCHANGED <<disk, mem, cfg, pc, op, stage, running, service>>
        /\ \/ UNCHANGED <<policy, polOwned>>
           \/ ~polOwned' /\ pc # "confirmPolicy"
    BY DEF World, Detach, Attach, Reassign, Delete, EditRules, EditPolicy, Outside, machine,
           NoGaps, Raced, StartWindow
  <1>2. SoundRecords' /\ OnDisk' /\ InHand' /\ InMemory' /\ TakenBack'
    BY <1>1 DEF SoundRecords, Sound, OnDisk, InHand, InMemory, TakenBack, Tells, RollingBack
  <1>3. Written' /\ Source' /\ Paired' /\ Course'
    BY <1>1 DEF Written, Source, Paired, Agree, Alike, Changing, Resuming, Course, Tells
  <1> QED BY <1>2, <1>3

LEMMA PolicyNext == ASSUME NoGaps, TypeInv, PolicyInv, Next PROVE PolicyInv'
  BY PolicyBegin, PolicyBind, PolicyWithdraw, PolicyRestore, PolicyEnsure, PolicyEnable,
     PolicyMark, PolicyLaunch, PolicyBeginRun, PolicyFailed, PolicyEnds, PolicyProcess, PolicyWorld
  DEF Next, Operation

LEMMA PolicyStutter == ASSUME PolicyInv, UNCHANGED vars PROVE PolicyInv'
  BY DEF vars, machine, engine, local, PolicyInv, SoundRecords, Sound, OnDisk, InHand, InMemory,
         TakenBack, Written, Source, Paired, Agree, Alike, Changing, Resuming, Course,
         RollingBack, Tells

\* What the three records say of the policy at every point of every operation
\* (PolicyInv), for an instance without the windows.
THEOREM PolicyCorrect == NoGaps /\ Spec => []PolicyInv
  <1>1. NoGaps /\ TypeInv /\ PolicyInv /\ [Next]_vars => PolicyInv'
    BY PolicyNext, PolicyStutter
  <1>2. NoGaps => NoGaps'
    BY DEF NoGaps
  <1> QED BY <1>1, <1>2, PolicyInit, TypeCorrect, PTL DEF Spec

\* Success auditing that ReadWatch switched on and nobody has changed since is
\* recorded in the configuration file, with the value it was applied as and one
\* to put back that clears it (ensureFileSystemAuditPolicy and
\* restoreFileSystemAuditPolicy, through every failure, rollback and kill).
THEOREM PolicyIsJournalledCorrect == NoGaps /\ Spec => []PolicyIsJournalled
  <1>1. PolicyInv => PolicyIsJournalled
    BY DEF PolicyInv, SoundRecords, Sound, OnDisk, Tells, PolicyIsJournalled, Undoes
  <1> QED BY <1>1, PolicyCorrect, PTL
=============================================================================
