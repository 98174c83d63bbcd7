-------------------------- MODULE MonitoringProofs --------------------------
(***************************************************************************)
(* Theorems about the monitoring transaction, for every set of objects,    *)
(* paths and volumes and every bound on faults.                            *)
(***************************************************************************)
EXTENDS Monitoring, TLAPS

\* What the steps of an operation need to be able to rely on to be well defined:
\* a record that is being undone or confirmed is there.
Shape ==
  /\ pc \in {"withdraw", "settle"} => todo \subseteq Records(cfg)
  /\ pc \in {"settle", "add", "confirm"} => cur \in Records(cfg)
  /\ pc \in {"enable", "confirmPolicy", "notePolicy"} => cfg.pol # None

TypeInv == TypeOK /\ Shape
-----------------------------------------------------------------------------
(***************************************************************************)
(* The operators on configurations stay in the types.                      *)
(***************************************************************************)

LEMMA DefaultModeType == DefaultMode \in Modes
  BY ModesAssumption DEF DefaultMode

LEMMA BlankConfigType == BlankConfig \in Config
  BY DefaultModeType DEF BlankConfig, Config

LEMMA NoBoundType == NoBound \in Bound
  BY DefaultModeType DEF NoBound, Bound

LEMMA RequestType ==
  ASSUME NEW folders \in SUBSET Paths, NEW mode \in Modes, NEW mech \in Choices(mode)
  PROVE  Request(folders, mode, mech) \in Bound
  BY NoBoundType, ModesAssumption DEF Request, Bound, Choices

\* A record put under a key, and nothing else changed.
LEMMA SnapType ==
  ASSUME NEW c \in Config, NEW o \in Objects, NEW r \in Record(Aces) \cup {None}
  PROVE  /\ [c EXCEPT !.snaps[o] = r] \in Config
         /\ [c EXCEPT !.snaps[o] = r].snaps[o] = r
         /\ \A x \in Objects \ {o} : [c EXCEPT !.snaps[o] = r].snaps[x] = c.snaps[x]
         /\ [c EXCEPT !.snaps[o] = r].pol = c.pol
  BY DEF Config

LEMMA DroppedType ==
  ASSUME NEW c \in Config, NEW k \in Objects
  PROVE  /\ Dropped(c, k) \in Config
         /\ Records(Dropped(c, k)) = Records(c) \ {k}
         /\ Dropped(c, k).pol = c.pol
  BY SnapType DEF Dropped, Records

LEMMA PolType ==
  ASSUME NEW c \in Config, NEW r \in Record(Flags) \cup {None}
  PROVE  /\ [c EXCEPT !.pol = r] \in Config
         /\ [c EXCEPT !.pol = r].pol = r
         /\ Records([c EXCEPT !.pol = r]) = Records(c)
  BY DEF Config, Records

\* The confirmation of a record that is there.
LEMMA ConfirmSnapType ==
  ASSUME NEW c \in Config, NEW o \in Records(c)
  PROVE  /\ [c EXCEPT !.snaps[o].phase = "applied"] \in Config
         /\ Records([c EXCEPT !.snaps[o].phase = "applied"]) = Records(c)
  <1>1. c.snaps[o] \in Record(Aces)
    BY DEF Records, Config
  <1>2. [c.snaps[o] EXCEPT !.phase = "applied"] \in Record(Aces)
    BY <1>1 DEF Record
  <1>3. [c.snaps[o] EXCEPT !.phase = "applied"] # None
    BY <1>2, NoneAssumption
  <1>4. [c EXCEPT !.snaps[o].phase = "applied"]
          = [c EXCEPT !.snaps[o] = [c.snaps[o] EXCEPT !.phase = "applied"]]
    BY DEF Config, Records
  <1> QED BY <1>2, <1>3, <1>4, SnapType DEF Records

LEMMA ConfirmPolType ==
  ASSUME NEW c \in Config, c.pol # None
  PROVE  /\ [c EXCEPT !.pol.phase = "applied"] \in Config
         /\ Records([c EXCEPT !.pol.phase = "applied"]) = Records(c)
         /\ [c EXCEPT !.pol.phase = "applied"].pol # None
  <1>1. c.pol \in Record(Flags)
    BY DEF Config
  <1>2. [c.pol EXCEPT !.phase = "applied"] \in Record(Flags)
    BY <1>1 DEF Record
  <1>3. [c EXCEPT !.pol.phase = "applied"] = [c EXCEPT !.pol = [c.pol EXCEPT !.phase = "applied"]]
    BY DEF Config
  <1> QED BY <1>2, <1>3, PolType, NoneAssumption

LEMMA MergeType ==
  ASSUME NEW bind \in [Paths -> Objects \cup {None}], NEW b \in Bound
  PROVE  MergeBindings(bind, b) \in [Paths -> Objects \cup {None}]
  <1> SUFFICES ASSUME NEW x \in Paths
               PROVE  MergeBindings(bind, b)[x] \in Objects \cup {None}
    BY DEF MergeBindings
  <1> DEFINE o == {y \in b.att : Home[y] = x}
  <1>1. o \subseteq Objects
    BY DEF Bound
  <1>2. o # {} => (CHOOSE y \in o : TRUE) \in Objects
    BY <1>1
  <1> QED BY <1>2 DEF MergeBindings

LEMMA AdoptType ==
  ASSUME NEW c \in Config, NEW b \in Bound
  PROVE  /\ Adopt(c, b) \in Config
         /\ [Adopt(c, b) EXCEPT !.enabled = TRUE] \in Config
         /\ Adopt(c, b).snaps = c.snaps
         /\ [Adopt(c, b) EXCEPT !.enabled = TRUE].snaps = c.snaps
  <1>1. MergeBindings(c.bind, b) \in [Paths -> Objects \cup {None}]
    BY MergeType DEF Config
  <1> QED BY <1>1 DEF Adopt, Config, Bound

LEMMA EnabledType ==
  ASSUME NEW c \in Config
  PROVE  [c EXCEPT !.enabled = FALSE] \in Config
  BY DEF Config

LEMMA OldConfigType ==
  ASSUME TypeOK PROVE OldConfig \in Config
  BY DEF TypeOK, OldConfig, Config
-----------------------------------------------------------------------------
(***************************************************************************)
(* Type correctness.                                                       *)
(***************************************************************************)

LEMMA InitType == Init => TypeInv
  <1> SUFFICES ASSUME Init PROVE TypeInv
    OBVIOUS
  <1>1. /\ sacl \in [Objects -> SUBSET Aces] /\ policy \in SUBSET Flags
        /\ names \in [Paths -> Objects \cup {None}]
    BY MachineAssumption DEF Init, Aces
  <1>2. disk \in Config /\ mem \in Config /\ cfg \in Config
    BY BlankConfigType DEF Init
  <1>3. active \in Bound /\ bnd \in Bound
    BY NoBoundType DEF Init
  <1>4. Shape
    BY DEF Init, Shape
  <1>5. events \in 0..MaxEvents
    BY MaxEventsAssumption DEF Init
  <1>6. pc \in Steps /\ op \in OpKinds /\ stage \in Stages
    BY DEF Init, Steps, OpKinds, Stages
  <1>7. TypeOK
    BY <1>1, <1>2, <1>3, <1>5, <1>6 DEF Init, TypeOK
  <1> QED BY <1>4, <1>7 DEF TypeInv

\* The types of what an operation leaves behind when it returns.
LEMMA FinishType ==
  ASSUME NEW res \in {"none", "ok", "error"}, Finish(res)
  PROVE  /\ cfg' \in Config /\ bnd' \in Bound /\ result' \in {"none", "ok", "error"}
         /\ pc' \in Steps /\ op' \in OpKinds /\ stage' \in Stages
         /\ todo' \in SUBSET Objects /\ deferred' \in SUBSET Objects
         /\ done' \in SUBSET Objects
         /\ cur' \in Objects \cup {None} /\ hand' \in Objects \cup {None}
         /\ failed' \in BOOLEAN /\ restoring' \in BOOLEAN
         /\ Shape'
  BY BlankConfigType, NoBoundType DEF Finish, Steps, OpKinds, Stages, Shape

LEMMA BeginStep == TypeInv /\ Begin => TypeInv'
  <1> SUFFICES ASSUME TypeInv, Begin PROVE TypeInv'
    OBVIOUS
  <1> USE DEF TypeInv, TypeOK, Beginning, Goto, Quiet, machine, world
  <1>1. CASE BeginHello
    BY <1>1 DEF BeginHello, Shape, Records, Steps, OpKinds, Stages
  <1>2. CASE BeginStart
    BY <1>2, RequestType DEF BeginStart, Shape, Steps, OpKinds, Config
  <1>3. CASE BeginSave
    BY <1>3, RequestType DEF BeginSave, Shape, Steps, OpKinds
  <1>4. CASE BeginApply
    BY <1>4, RequestType DEF BeginApply, Shape, Steps, OpKinds, Config
  <1>5. CASE BeginStop
    BY <1>5 DEF BeginStop, Stopping, Shape, Records, Steps, OpKinds, Stages
  <1>6. CASE BeginShutdown
    BY <1>6 DEF BeginShutdown, Stopping, Shape, Records, Steps, OpKinds, Stages
  <1> QED BY <1>1, <1>2, <1>3, <1>4, <1>5, <1>6 DEF Begin

LEMMA BindStep == TypeInv /\ (Bind \/ BindFails) => TypeInv'
  <1> SUFFICES ASSUME TypeInv, Bind \/ BindFails PROVE TypeInv'
    OBVIOUS
  <1>1. CASE Bind
    <2>1. PICK refused \in SUBSET bnd.folders :
            /\ IF refused = {} THEN Quiet ELSE Spend
            /\ bnd' = [bnd EXCEPT !.att = Opened(refused), !.live = Opened(refused)]
      BY <1>1 DEF Bind
    <2>2. Opened(refused) \subseteq Objects
      BY DEF Opened, Openable, TypeInv, TypeOK, Bound
    <2>3. bnd' \in Bound
      BY <2>1, <2>2 DEF TypeInv, TypeOK, Bound
    <2>4. events' \in 0..MaxEvents
      BY <2>1, MaxEventsAssumption DEF TypeInv, TypeOK, Spend, Quiet
    <2>5. /\ pc' \in Steps /\ stage' \in Stages /\ todo' \in SUBSET Objects
          /\ running' \in BOOLEAN /\ Shape'
      BY <1>1 DEF Bind, AfterBind, Goto, TypeInv, TypeOK, Shape, Records, Steps, Stages
    <2> QED BY <1>1, <2>3, <2>4, <2>5 DEF Bind, TypeInv, TypeOK, machine, world
  <1>2. CASE BindFails
    BY <1>2, FinishType, MaxEventsAssumption DEF BindFails, TypeInv, TypeOK, Spend, machine, world
  <1> QED BY <1>1, <1>2

\* What the save of a configuration does to the file and to the count of faults.
LEMMA SaveType ==
  ASSUME TypeOK, NEW c \in Config, Save(c) \/ SaveFails
  PROVE  disk' \in Config /\ events' \in 0..MaxEvents
  BY MaxEventsAssumption DEF TypeOK, Save, SaveFails, Spend, Quiet

LEMMA EventsType ==
  ASSUME TypeOK, Spend \/ Quiet
  PROVE  events' \in 0..MaxEvents
  BY MaxEventsAssumption DEF TypeOK, Spend, Quiet

LEMMA WithdrawStep ==
  ASSUME TypeInv,
         \/ WithdrawRule \/ SettleWithdrawal \/ DropRecord \/ DeferRecord
         \/ WithdrawFails \/ Withdrawn
  PROVE  TypeInv'
  <1>1. CASE WithdrawRule
    <2>0. PICK k \in todo : \E o \in Reached(k) :
            /\ sacl' = [sacl EXCEPT ![o] = cfg.snaps[k].orig]
            /\ owned' = owned \ {o} /\ cur' = k /\ hand' = o
      BY <1>1 DEF WithdrawRule
    <2>1. PICK o \in Reached(k) :
            /\ sacl' = [sacl EXCEPT ![o] = cfg.snaps[k].orig]
            /\ owned' = owned \ {o} /\ cur' = k /\ hand' = o
      BY <2>0
    <2>2. k \in Records(cfg) /\ k \in Objects
      BY <1>1 DEF TypeInv, Shape, Records, WithdrawRule
    <2>3. o \in Objects
      BY <2>2 DEF Reached, Held, HeldFrom, TypeInv, TypeOK, Bound
    <2>4. cfg.snaps[k].orig \in SUBSET Aces
      BY <2>2 DEF Records, TypeInv, TypeOK, Config, Record
    <2>5. sacl' \in [Objects -> SUBSET Aces]
      BY <2>1, <2>4 DEF TypeInv, TypeOK
    <2>6. Shape'
      BY <1>1, <2>1, <2>2 DEF WithdrawRule, Shape, Records, Goto, TypeInv
    <2> QED BY <1>1, <2>1, <2>2, <2>3, <2>5, <2>6
            DEF WithdrawRule, KeepLocals, Quiet, Goto, TypeInv, TypeOK, world, engine, Steps
  <1>2. CASE SettleWithdrawal
    <2>1. cur \in Records(cfg) /\ cur \in Objects
      BY <1>2 DEF SettleWithdrawal, TypeInv, Shape, Records
    <2>2. /\ cfg' \in Config /\ disk' \in Config /\ events' \in 0..MaxEvents
          /\ failed' \in BOOLEAN /\ pc' = "withdraw"
          /\ todo' \subseteq Objects /\ todo' \subseteq Records(cfg')
      BY <1>2, <2>1, DroppedType, SaveType, EventsType
      DEF SettleWithdrawal, Forgets, Goto, TypeInv, TypeOK, Shape
    <2> QED BY <1>2, <2>2
            DEF SettleWithdrawal, KeepLocals, TypeInv, TypeOK, Shape, machine, world, engine, Steps
  <1>3. CASE DropRecord
    <2>1. PICK k \in todo : Forgets(k)
      BY <1>3 DEF DropRecord
    <2>2. k \in Objects
      BY DEF TypeInv, TypeOK
    <2>3. /\ cfg' \in Config /\ disk' \in Config /\ events' \in 0..MaxEvents
          /\ failed' \in BOOLEAN /\ pc' = "withdraw"
          /\ todo' \subseteq Objects /\ todo' \subseteq Records(cfg')
      BY <1>3, <2>1, <2>2, DroppedType, SaveType
      DEF DropRecord, Forgets, Goto, TypeInv, TypeOK, Shape
    <2> QED BY <1>3, <2>3
            DEF DropRecord, KeepLocals, TypeInv, TypeOK, Shape, machine, world, engine, Steps
  <1>4. CASE DeferRecord
    BY <1>4 DEF DeferRecord, KeepLocals, Quiet, TypeInv, TypeOK, Shape, machine, world, engine, Records
  <1>5. CASE WithdrawFails
    BY <1>5, EventsType
    DEF WithdrawFails, KeepLocals, TypeInv, TypeOK, Shape, machine, world, engine, Records
  <1>6. CASE Withdrawn
    BY <1>6 DEF Withdrawn, KeepLocals, Quiet, Goto, TypeInv, TypeOK, Shape, machine, world, Steps
  <1> QED BY <1>1, <1>2, <1>3, <1>4, <1>5, <1>6

LEMMA ResumeType ==
  ASSUME NEW err
  PROVE  /\ Resume(err) \in Steps
         /\ Resume(err) \notin {"withdraw", "settle", "add", "confirm", "enable",
                                "confirmPolicy", "notePolicy"}
  BY DEF Resume, Steps

LEMMA PolicyStep ==
  ASSUME TypeInv, NothingToRestore \/ RestorePolicy \/ RestorePolicyFails \/ ForgetPolicy
  PROVE  TypeInv'
  <1>1. CASE NothingToRestore
    BY <1>1, ResumeType
    DEF NothingToRestore, Restoring, KeepLocals, Quiet, Goto, TypeInv, TypeOK, Shape,
        machine, world, engine, work
  <1>2. CASE RestorePolicy
    <2>1. policy' \in SUBSET Flags /\ polOwned' \in BOOLEAN
      BY <1>2 DEF RestorePolicy, TypeInv, TypeOK, Config, Record
    <2> QED BY <1>2, <2>1
            DEF RestorePolicy, Restoring, KeepLocals, Quiet, Goto, TypeInv, TypeOK, Shape,
                world, engine, work, Steps
  <1>3. CASE RestorePolicyFails
    BY <1>3, ResumeType, EventsType
    DEF RestorePolicyFails, Restoring, KeepLocals, Goto, TypeInv, TypeOK, Shape,
        machine, world, engine, work
  <1>4. CASE ForgetPolicy
    <2>1. [cfg EXCEPT !.pol = None] \in Config
      BY PolType DEF TypeInv, TypeOK
    <2>2. disk' \in Config /\ events' \in 0..MaxEvents
      BY <1>4, <2>1, SaveType DEF ForgetPolicy, TypeInv
    <2>3. /\ pc' \in Steps /\ failed' \in BOOLEAN
          /\ pc' \notin {"withdraw", "settle", "add", "confirm", "enable",
                         "confirmPolicy", "notePolicy"}
      BY <1>4, ResumeType DEF ForgetPolicy, Goto, TypeInv, TypeOK
    <2> QED BY <1>4, <2>1, <2>2, <2>3
            DEF ForgetPolicy, KeepLocals, TypeInv, TypeOK, Shape, machine, world, engine, work
  <1> QED BY <1>1, <1>2, <1>3, <1>4

\* A rollback has only records to undo that are there.
LEMMA RollBackType ==
  ASSUME NEW kind \in {"rollback", "rollbackOff"}, NEW c \in Config, TypeOK,
         RollBack(kind, c), cfg' = c
  PROVE  /\ stage' \in Stages /\ pc' \in Steps /\ todo' \in SUBSET Objects
         /\ failed' \in BOOLEAN /\ cur' \in Objects \cup {None}
         /\ bnd' \in Bound /\ done' \in SUBSET Objects
         /\ Shape'
  BY DEF RollBack, Goto, TypeOK, Shape, Records, Stages, Steps

LEMMA EnsureStep ==
  ASSUME TypeInv, BeginRun \/ EnsurePolicy \/ EnablePolicy \/ ConfirmPolicy
  PROVE  TypeInv'
  <1>1. CASE BeginRun
    <2>1. CASE Finish("ok") \/ Finish("error")
      BY <1>1, <2>1, FinishType DEF BeginRun, Quiet, TypeInv, TypeOK, machine, world
    <2>2. CASE ~(Finish("ok") \/ Finish("error"))
      BY <1>1, <2>2 DEF BeginRun, Quiet, Goto, TypeInv, TypeOK, Shape, machine, world, work,
                        Steps, Stages
    <2> QED BY <2>1, <2>2
  <1>2. CASE EnsurePolicy
    <2>1. /\ policy' \in SUBSET Flags /\ polOwned' \in BOOLEAN
      BY <1>2 DEF EnsurePolicy, TypeInv, TypeOK, Config, Record
    <2> DEFINE r == [orig |-> policy, applied |-> policy \cup {"success"}, phase |-> "prepared"]
    <2>2. r \in Record(Flags)
      BY DEF TypeInv, TypeOK, Record, Flags
    <2>3. r \in Record(Flags) /\ r # None
      BY <2>2, NoneAssumption
    <2>4. /\ [cfg EXCEPT !.pol = None] \in Config
          /\ [cfg EXCEPT !.pol = r] \in Config /\ [cfg EXCEPT !.pol = r].pol = r
      BY <2>3, PolType DEF TypeInv, TypeOK
    <2>5. /\ cfg' \in Config /\ disk' \in Config /\ events' \in 0..MaxEvents
          /\ failed' \in BOOLEAN
      BY <1>2, <2>4, SaveType, EventsType DEF EnsurePolicy, TypeInv, TypeOK
    <2>6. pc' \in {"mark", "notePolicy", "failed", "enable"}
      BY <1>2 DEF EnsurePolicy, Goto
    <2>7. pc' \in {"notePolicy", "enable"} => cfg'.pol # None
      BY <1>2, <2>3, <2>4 DEF EnsurePolicy, Goto
    <2> QED BY <1>2, <2>1, <2>5, <2>6, <2>7
            DEF EnsurePolicy, Ensuring, KeepAll, TypeInv, TypeOK, Shape, world, engine, Steps
  <1>3. CASE EnablePolicy
    <2>1. cfg.pol # None
      BY <1>3 DEF EnablePolicy, Ensuring, TypeInv, Shape
    <2>2. policy' \in SUBSET Flags /\ polOwned' \in BOOLEAN
      BY <1>3, <2>1 DEF EnablePolicy, TypeInv, TypeOK, Config, Record
    <2>3. [cfg EXCEPT !.pol = None] \in Config
      BY PolType DEF TypeInv, TypeOK
    <2>4. /\ cfg' \in Config /\ disk' \in Config /\ events' \in 0..MaxEvents
          /\ failed' \in BOOLEAN
      BY <1>3, <2>3, EventsType DEF EnablePolicy, TypeInv, TypeOK
    <2>5. \/ pc' = "confirmPolicy" /\ cfg'.pol # None
          \/ pc' = "failed"
      BY <1>3, <2>1 DEF EnablePolicy, Goto
    <2> QED BY <1>3, <2>2, <2>4, <2>5
            DEF EnablePolicy, Ensuring, KeepAll, TypeInv, TypeOK, Shape, world, engine, Steps
  <1>4. CASE ConfirmPolicy
    <2>1. cfg.pol # None
      BY <1>4 DEF ConfirmPolicy, TypeInv, Shape
    <2>2. [cfg EXCEPT !.pol.phase = "applied"] \in Config
      BY <2>1, ConfirmPolType DEF TypeInv, TypeOK
    <2>3. /\ cfg' \in Config /\ disk' \in Config /\ events' \in 0..MaxEvents
          /\ failed' \in BOOLEAN /\ pc' \in {"mark", "failed"}
      BY <1>4, <2>2, SaveType, EventsType DEF ConfirmPolicy, Goto, TypeInv, TypeOK
    <2> QED BY <1>4, <2>3
            DEF ConfirmPolicy, Ensuring, KeepAll, TypeInv, TypeOK, Shape, world, engine, Steps
  <1> QED BY <1>1, <1>2, <1>3, <1>4

LEMMA IntentType ==
  ASSUME TypeOK, NEW o \in Objects
  PROVE  Intent(o) \in Record(Aces) /\ Intent(o) # None
  <1>1. Marked(o) => cfg.snaps[o] \in Record(Aces)
    BY DEF Marked, TypeOK, Config
  <1>2. Intent(o) \in Record(Aces)
    BY <1>1 DEF Intent, TypeOK, Record, Aces
  <1> QED BY <1>2, NoneAssumption

LEMMA MarkStep ==
  ASSUME TypeInv, AlreadyMarked \/ PrepareMark \/ MarkRefused \/ AddRule \/ ConfirmMark
  PROVE  TypeInv'
  <1> USE DEF TypeInv, Marking, KeepAll
  <1>1. CASE AlreadyMarked
    BY <1>1 DEF AlreadyMarked, Quiet, TypeOK, Shape, Records, Bound, world, engine
  <1>2. CASE PrepareMark
    <2>1. PICK o \in bnd.live \ done :
            LET c == [cfg EXCEPT !.snaps[o] = Intent(o)] IN
            \/ /\ cfg' = c /\ Save(c) /\ cur' = o /\ Goto("add")
               /\ UNCHANGED <<stage, todo, failed, done, bnd>>
            \/ SaveFails /\ cfg' = Dropped(cfg, o) /\ RollBack("rollback", cfg')
      BY <1>2 DEF PrepareMark
    <2>2. o \in Objects
      BY DEF TypeOK, Bound
    <2> DEFINE c == [cfg EXCEPT !.snaps[o] = Intent(o)]
    <2>3. c \in Config /\ c.snaps[o] # None
      BY <2>2, IntentType, SnapType DEF TypeOK
    <2>4. Dropped(cfg, o) \in Config
      BY <2>2, DroppedType DEF TypeOK
    <2>5. CASE cfg' = c /\ Save(c) /\ cur' = o /\ Goto("add")
                 /\ UNCHANGED <<stage, todo, failed, done, bnd>>
      <3>1. disk' \in Config /\ events' \in 0..MaxEvents
        BY <2>3, <2>5, SaveType
      <3>2. Shape'
        BY <2>2, <2>3, <2>5 DEF Shape, Goto, Records
      <3> QED BY <1>2, <2>2, <2>3, <2>5, <3>1, <3>2
              DEF PrepareMark, Goto, TypeOK, world, engine, Steps
    <2>6. CASE SaveFails /\ cfg' = Dropped(cfg, o) /\ RollBack("rollback", cfg')
      <3>1. disk' \in Config /\ events' \in 0..MaxEvents
        BY <2>6, <2>4, SaveType
      <3>2. RollBack("rollback", Dropped(cfg, o))
        BY <2>6
      <3> QED BY <1>2, <2>4, <2>6, <3>1, <3>2, RollBackType DEF PrepareMark, TypeOK, world, engine
    <2> QED BY <2>1, <2>5, <2>6
  <1>3. CASE MarkRefused
    <2>1. RollBack("rollback", cfg) /\ cfg' = cfg
      BY <1>3 DEF MarkRefused
    <2> QED BY <1>3, <2>1, RollBackType DEF MarkRefused, Quiet, TypeOK, world, engine
  <1>4. CASE AddRule
    <2>1. cur \in Records(cfg) /\ cur \in Objects
      BY <1>4 DEF AddRule, Shape, Records
    <2>2. CASE Goto("confirm") /\ sacl' = [sacl EXCEPT ![cur] = @ \cup {"rule"}]
                 /\ owned' = (IF "rule" \in sacl[cur] THEN owned ELSE owned \cup {cur})
                 /\ Quiet /\ UNCHANGED <<stage, bnd, todo, done, cur, failed>>
      BY <1>4, <2>1, <2>2
      DEF AddRule, Quiet, Goto, TypeOK, Shape, Records, world, engine, Steps, Aces
    <2>3. CASE RollBack("rollback", cfg) /\ (Spend \/ Quiet) /\ UNCHANGED <<sacl, owned>>
      <3>1. cfg' = cfg
        BY <1>4 DEF AddRule
      <3>2. events' \in 0..MaxEvents
        BY <2>3, EventsType
      <3> QED BY <1>4, <2>3, <3>1, <3>2, RollBackType DEF AddRule, TypeOK, world, engine
    <2> QED BY <1>4, <2>2, <2>3 DEF AddRule
  <1>5. CASE ConfirmMark
    <2> DEFINE c == [cfg EXCEPT !.snaps[cur].phase = "applied"]
    <2>1. cur \in Records(cfg) /\ cur \in Objects
      BY <1>5 DEF ConfirmMark, Shape, Records
    <2>2. c \in Config
      BY <2>1, ConfirmSnapType DEF TypeOK
    <2>3. CASE cfg' = c /\ Save(c) /\ done' = done \cup {cur} /\ cur' = None /\ Goto("mark")
                 /\ UNCHANGED <<stage, bnd, todo, failed>>
      <3>1. disk' \in Config /\ events' \in 0..MaxEvents
        BY <2>2, <2>3, SaveType
      <3> QED BY <1>5, <2>1, <2>2, <2>3, <3>1
              DEF ConfirmMark, Goto, TypeOK, Shape, world, engine, Steps
    <2>4. CASE cfg' = c /\ SaveFails /\ RollBack("rollback", c)
      <3>1. disk' \in Config /\ events' \in 0..MaxEvents
        BY <2>2, <2>4, SaveType
      <3> QED BY <1>5, <2>2, <2>4, <3>1, RollBackType DEF ConfirmMark, TypeOK, world, engine
    <2>5. CASE RollBack("rollback", cfg) /\ Quiet /\ UNCHANGED <<disk, cfg>>
      BY <1>5, <2>5, RollBackType DEF ConfirmMark, Quiet, TypeOK, world, engine
    <2> QED BY <1>5, <2>3, <2>4, <2>5 DEF ConfirmMark
  <1> QED BY <1>1, <1>2, <1>3, <1>4, <1>5

LEMMA EndStep ==
  ASSUME TypeInv,
         \/ Commit \/ Launch \/ LaunchFails \/ Disable \/ Failed
         \/ HelloDone \/ RecordBound \/ StopSave
  PROVE  TypeInv'
  <1> USE DEF TypeInv
  <1>1. CASE Commit
    <2> DEFINE c == [Adopt(cfg, bnd) EXCEPT !.enabled = TRUE]
    <2>1. c \in Config
      BY AdoptType DEF TypeOK
    <2>2. cfg' = c /\ disk' \in Config /\ events' \in 0..MaxEvents
      BY <1>1, <2>1, SaveType DEF Commit
    <2>3. CASE RollBack("rollback", c)
      BY <1>1, <2>1, <2>2, <2>3, RollBackType DEF Commit, KeepAll, TypeOK, machine, world, engine
    <2>4. CASE Goto("launch") /\ UNCHANGED <<stage, bnd, todo, done, cur, failed>>
      BY <1>1, <2>1, <2>2, <2>4
      DEF Commit, KeepAll, Goto, TypeOK, Shape, machine, world, engine, Steps
    <2> QED BY <1>1, <2>3, <2>4 DEF Commit
  <1>2. CASE Launch
    <2>1. Finish("ok") \/ Finish("error")
      BY <1>2 DEF Launch
    <2> QED BY <1>2, <2>1, FinishType DEF Launch, Quiet, TypeOK, machine, world
  <1>3. CASE LaunchFails
    <2>1. PICK kind \in {"rollback", "rollbackOff"} : RollBack(kind, cfg)
      BY <1>3 DEF LaunchFails
    <2>2. cfg' = cfg /\ events' \in 0..MaxEvents
      BY <1>3, EventsType DEF LaunchFails
    <2> QED BY <1>3, <2>1, <2>2, RollBackType DEF LaunchFails, KeepAll, TypeOK, machine, world, engine
  <1>4. CASE Disable
    <2>1. cfg' \in Config
      BY <1>4, EnabledType DEF Disable, TypeOK
    <2>2. disk' \in Config /\ events' \in 0..MaxEvents
      BY <1>4, <2>1, SaveType DEF Disable
    <2> QED BY <1>4, <2>1, <2>2
            DEF Disable, Goto, KeepLocals, TypeOK, Shape, machine, world, engine, work, Steps
  <1>5. CASE Failed
    <2>1. CASE Finish("error")
      BY <1>5, <2>1, FinishType DEF Failed, Quiet, TypeOK, machine, world
    <2>2. CASE ~Finish("error")
      <3>1. PICK mech \in Choices(active.mode) : bnd' = [active EXCEPT !.mech = mech]
        BY <1>5, <2>2 DEF Failed
      <3>2. mech \in {"markers", "etw"}
        BY ModesAssumption DEF Choices, TypeOK, Bound
      <3>3. bnd' \in Bound
        BY <3>1, <3>2 DEF TypeOK, Bound
      <3>4. cfg' \in Config
        BY <1>5, <2>2, OldConfigType DEF Failed
      <3> QED BY <1>5, <2>2, <3>3, <3>4
              DEF Failed, Quiet, Goto, TypeOK, Shape, machine, world, Steps, Stages
    <2> QED BY <2>1, <2>2
  <1>6. CASE HelloDone
    <2>1. CASE Finish("ok") \/ Finish("error")
      BY <1>6, <2>1, FinishType DEF HelloDone, Quiet, TypeOK, machine, world
    <2>2. CASE ~(Finish("ok") \/ Finish("error"))
      <3>1. PICK mech \in Choices(cfg.mode) : bnd' = Request(cfg.folders, cfg.mode, mech)
        BY <1>6, <2>2 DEF HelloDone
      <3>2. bnd' \in Bound
        BY <3>1, RequestType DEF TypeOK, Config
      <3> QED BY <1>6, <2>2, <3>2
              DEF HelloDone, Quiet, Goto, TypeOK, Shape, machine, world, Steps
    <2> QED BY <2>1, <2>2
  <1>7. CASE RecordBound
    <2>1. mem' \in Config
      BY <1>7, AdoptType DEF RecordBound, TypeOK
    <2>2. disk' \in Config /\ events' \in 0..MaxEvents
      BY <1>7, <2>1, SaveType DEF RecordBound
    <2>3. Finish("ok") \/ Finish("error")
      BY <1>7 DEF RecordBound
    <2>4. active' \in Bound
      BY <1>7, NoBoundType DEF RecordBound
    <2> QED BY <1>7, <2>1, <2>2, <2>3, <2>4, FinishType DEF RecordBound, TypeOK, machine, world
  <1>8. CASE StopSave
    <2>1. mem' \in Config
      BY <1>8, EnabledType DEF StopSave, TypeOK
    <2>2. disk' \in Config /\ events' \in 0..MaxEvents
      BY <1>8, <2>1, SaveType DEF StopSave
    <2>3. Finish("ok") \/ Finish("error")
      BY <1>8 DEF StopSave
    <2>4. active' \in Bound /\ pending' \in SUBSET Objects
      BY <1>8, NoBoundType DEF StopSave, TypeOK
    <2> QED BY <1>8, <2>1, <2>2, <2>3, <2>4, FinishType DEF StopSave, TypeOK, machine, world
  <1> QED BY <1>1, <1>2, <1>3, <1>4, <1>5, <1>6, <1>7, <1>8

LEMMA ProcessStep == ASSUME TypeInv, RequestStop \/ Crash \/ Boot PROVE TypeInv'
  <1> USE DEF TypeInv
  <1>1. CASE RequestStop
    BY <1>1 DEF RequestStop, Quiet, TypeOK, Shape, Records, machine, world, local, work
  <1>2. CASE Crash
    BY <1>2, FinishType, BlankConfigType, NoBoundType, EventsType
    DEF Crash, TypeOK, machine, world
  <1>3. CASE Boot
    BY <1>3 DEF Boot, Quiet, TypeOK, Shape, Records, machine, world, local, work
  <1> QED BY <1>1, <1>2, <1>3

LEMMA WorldStep == ASSUME TypeInv, World PROVE TypeInv'
  <1> USE DEF TypeInv
  <1>1. Outside => Shape'
    BY DEF Outside, Shape, Records
  <1>2. ASSUME NEW x \in Volumes, Detach(x) PROVE TypeInv'
    <2>1. active' \in Bound /\ bnd' \in Bound
      BY <1>2 DEF Detach, TypeOK, Bound
    <2> QED BY <1>1, <1>2, <2>1, EventsType DEF Detach, Outside, TypeOK, machine
  <1>3. ASSUME NEW x \in Volumes, Attach(x) PROVE TypeInv'
    BY <1>1, <1>3 DEF Attach, Outside, Quiet, TypeOK, machine
  <1>4. ASSUME NEW path \in Paths, NEW x \in Objects, Reassign(path, x) PROVE TypeInv'
    <2>1. names' \in [Paths -> Objects \cup {None}]
      BY <1>4 DEF Reassign, TypeOK
    <2> QED BY <1>1, <1>4, <2>1, EventsType DEF Reassign, Outside, TypeOK, machine
  <1>5. ASSUME NEW o \in Objects, Delete(o) PROVE TypeInv'
    BY <1>1, <1>5, EventsType DEF Delete, Outside, TypeOK
  <1>6. ASSUME NEW o \in Objects, EditRules(o) PROVE TypeInv'
    <2>1. sacl' \in [Objects -> SUBSET Aces]
      BY <1>6 DEF EditRules, TypeOK
    <2> QED BY <1>1, <1>6, <2>1, EventsType DEF EditRules, Outside, TypeOK, world
  <1>7. CASE EditPolicy
    BY <1>1, <1>7, EventsType DEF EditPolicy, Outside, TypeOK, world
  <1> QED BY <1>2, <1>3, <1>4, <1>5, <1>6, <1>7 DEF World

\* TypeOK with Shape is preserved by every step.
LEMMA TypeStep == TypeInv /\ [Next]_vars => TypeInv'
  <1>1. ASSUME TypeInv, UNCHANGED vars PROVE TypeInv'
    BY <1>1 DEF TypeInv, TypeOK, Shape, Records, vars, machine, world, engine, local, work
  <1> QED BY <1>1, BeginStep, BindStep, WithdrawStep, PolicyStep, EnsureStep, MarkStep, EndStep,
             ProcessStep, WorldStep
          DEF Next, Operation

\* Every variable keeps its type, and no step undoes or confirms a record that
\* is not there (removeAuditRule and applyAuditRule index the journal by key).
THEOREM TypeCorrect == Spec => []TypeInv
  BY InitType, TypeStep, PTL DEF Spec

\* The type invariant the runs check.
THEOREM TypeOKCorrect == Spec => []TypeOK
  BY TypeCorrect, PTL DEF TypeInv
-----------------------------------------------------------------------------
(***************************************************************************)
(* Authority: what is watched and what is marked are the objects the owner *)
(* chose, and what the owner chose is only changed by the owner.  This     *)
(* holds whatever fails, leaves, is edited or is killed, in every window:  *)
(* Gaps is any set.                                                        *)
(***************************************************************************)

\* A bind holds at most one object per configured path, and works through
\* handles of nothing else.
Proper(b) ==
  /\ b.live \subseteq b.att
  /\ \A o \in b.att : Home[o] \in b.folders
  /\ \A o, x \in b.att : Home[o] = Home[x] => o = x

\* What is held is what the engine's configuration binds the paths to; after a
\* failed change nobody could undo, too, although nothing is watched then.
HeldIsBound == \A o \in active.att : Home[o] \in mem.folders /\ mem.bind[Home[o]] = o

\* An owner's decision is being carried out, and not taken back.
Deciding == op = "save" /\ ~restoring

\* What a bind holds may be watched.
Chosen == \A o \in bnd.att : Deciding \/ mem.bind[Home[o]] \in {None, o}

\* Until it commits, an operation has the bindings it started from.
Settled == pc \notin {"idle", "launch"} /\ ~RollingBack
             => cfg.bind = mem.bind /\ cfg.folders = mem.folders

\* What is about to be taken over agrees with what was opened, and, unless the
\* owner decides, with what was bound before.
Committed ==
  pc = "launch" =>
    /\ cfg.folders = bnd.folders
    /\ \A o \in bnd.att : cfg.bind[Home[o]] = o
    /\ \A p \in bnd.folders : mem.bind[p] # None => cfg.bind[p] = mem.bind[p] \/ Deciding

\* Where the operation may be: a rollback is at the undoing steps, and nothing
\* is bound while the old configuration is being put back.
Flow ==
  /\ RollingBack => pc \in {"withdraw", "settle", "restore", "forget", "disable", "failed"}
  /\ pc \in {"idle", "bind", "helloDone"} \/ stage = "hello" => ~restoring
  /\ pc = "idle" => bnd.att = {}
  /\ service = "down" => pc = "idle" /\ active.att = {}

NamesAreHomes == \A p \in Paths : names[p] # None => Home[names[p]] = p

AuthorityInv ==
  /\ NamesAreHomes /\ Proper(active) /\ Proper(bnd)
  /\ HeldIsBound /\ Chosen /\ Settled /\ Committed /\ Flow
-----------------------------------------------------------------------------
(***************************************************************************)
(* Most steps leave authority alone: they go on inside an operation, with  *)
(* the same handles and the same bindings.                                 *)
(***************************************************************************)
Undoing == {"withdraw", "settle", "restore", "forget", "disable", "failed"}

LEMMA Steady ==
  ASSUME AuthorityInv,
         UNCHANGED <<names, active, bnd, mem, op, restoring, service>>,
         pc \notin {"idle", "launch"}, pc' \notin {"idle", "launch", "bind"},
         cfg'.bind = cfg.bind, cfg'.folders = cfg.folders,
         RollingBack' => pc' \in Undoing,
         RollingBack => RollingBack',
         pc' = "helloDone" => ~restoring,
         stage' = "hello" => stage = "hello"
  PROVE  AuthorityInv'
  <1> USE DEF AuthorityInv
  <1>1. NamesAreHomes' /\ Proper(active)' /\ Proper(bnd)' /\ HeldIsBound' /\ Chosen'
    BY DEF NamesAreHomes, Proper, HeldIsBound, Chosen, Deciding
  <1>2. Settled'
    BY DEF Settled
  <1>3. Committed'
    BY DEF Committed
  <1>4. Flow'
    BY DEF Flow, Undoing
  <1> QED BY <1>1, <1>2, <1>3, <1>4

\* An operation that returns gives up its handles and its configuration.
LEMMA Returned ==
  ASSUME AuthorityInv, NEW res, Finish(res),
         NamesAreHomes', Proper(active)', HeldIsBound',
         service' = "down" => active'.att = {}
  PROVE  AuthorityInv'
  <1>1. bnd'.att = {} /\ bnd'.live = {} /\ pc' = "idle" /\ stage' = "none" /\ restoring' = FALSE
    BY DEF Finish, NoBound
  <1>2. Proper(bnd)' /\ Chosen'
    BY <1>1 DEF Proper, Chosen
  <1>3. Settled' /\ Committed' /\ Flow'
    BY <1>1 DEF Settled, Committed, Flow, RollingBack
  <1> QED BY <1>2, <1>3 DEF AuthorityInv

LEMMA AuthorityInit == Init => AuthorityInv
  <1> SUFFICES ASSUME Init PROVE AuthorityInv
    OBVIOUS
  <1>1. NamesAreHomes
    BY MachineAssumption DEF Init, NamesAreHomes
  <1>2. Proper(active) /\ Proper(bnd) /\ HeldIsBound /\ Chosen
    BY DEF Init, NoBound, Proper, HeldIsBound, Chosen
  <1>3. Settled /\ Committed /\ Flow
    BY DEF Init, NoBound, Settled, Committed, Flow, RollingBack
  <1> QED BY <1>1, <1>2, <1>3 DEF AuthorityInv

LEMMA AuthorityBegin == ASSUME TypeInv, AuthorityInv, Begin PROVE AuthorityInv'
  <1> USE DEF AuthorityInv, Beginning, world, Goto
  <1>1. /\ UNCHANGED <<names, active, mem, service, restoring>> /\ pc = "idle"
        /\ cfg' = mem /\ pc' \in {"bind", "withdraw", "helloDone"}
        /\ stage' \in {"hello", "stop", stage}
        /\ service # "down"
    BY DEF Begin, BeginHello, BeginStart, BeginSave, BeginApply, BeginStop, BeginShutdown, Stopping
  <1>2. bnd'.att = {} /\ bnd'.live = {}
    <2>1. bnd.att = {} /\ bnd.live = {}
      BY <1>1 DEF Flow, Proper
    <2> QED BY <2>1 DEF Begin, BeginHello, BeginStart, BeginSave, BeginApply, BeginStop,
                        BeginShutdown, Stopping, Request, NoBound
  <1>3. NamesAreHomes' /\ Proper(active)' /\ Proper(bnd)' /\ HeldIsBound' /\ Chosen'
    BY <1>1, <1>2 DEF NamesAreHomes, Proper, HeldIsBound, Chosen
  <1>4. Settled' /\ Committed'
    BY <1>1 DEF Settled, Committed
  <1>5. ~RollingBack' /\ ~restoring'
    BY <1>1 DEF Flow, RollingBack
  <1>6. Flow'
    BY <1>1, <1>5 DEF Flow
  <1> QED BY <1>3, <1>4, <1>6

\* A path that is opened leads to its own object, and a bind that is not the
\* owner's decision only keeps what was bound before.
LEMMA OpenedIsChosen ==
  ASSUME TypeInv, AuthorityInv, pc = "bind", NEW refused \in SUBSET bnd.folders,
         NEW o \in Opened(refused)
  PROVE  /\ o \in Objects /\ Home[o] \in bnd.folders /\ names[Home[o]] = o
         /\ Deciding \/ mem.bind[Home[o]] \in {None, o}
  <1>1. PICK p \in bnd.folders \ refused : /\ Openable(names[p]) /\ Authorised(p, names[p])
                                           /\ o = names[p]
    BY DEF Opened
  <1>2. p \in Paths /\ o # None /\ Home[o] = p /\ o \in Objects
    BY <1>1 DEF Openable, TypeInv, TypeOK, Bound, AuthorityInv, NamesAreHomes
  <1>3. cfg.bind = mem.bind /\ ~restoring
    BY DEF AuthorityInv, Settled, Flow
  <1> QED BY <1>1, <1>2, <1>3 DEF Authorised, Deciding

LEMMA AuthorityBind == ASSUME TypeInv, AuthorityInv, Bind \/ BindFails PROVE AuthorityInv'
  <1>1. CASE Bind
    <2>1. PICK refused \in SUBSET bnd.folders :
            bnd' = [bnd EXCEPT !.att = Opened(refused), !.live = Opened(refused)]
      BY <1>1 DEF Bind
    <2>2. /\ pc = "bind" /\ pc' \in {"withdraw", "record"}
          /\ stage' \in {"start", "swap", "applyIdle", stage}
          /\ UNCHANGED <<names, active, mem, cfg, op, restoring, service>>
      BY <1>1 DEF Bind, AfterBind, Goto, world
    <2>3. /\ bnd'.att = Opened(refused) /\ bnd'.live = Opened(refused)
          /\ bnd'.folders = bnd.folders
      BY <2>1 DEF TypeInv, TypeOK, Bound
    <2>4. NamesAreHomes' /\ Proper(active)' /\ HeldIsBound'
      BY <2>2 DEF AuthorityInv, NamesAreHomes, Proper, HeldIsBound
    <2>5. Proper(bnd)'
      BY <2>2, <2>3, OpenedIsChosen DEF Proper
    <2>6. Chosen'
      BY <2>2, <2>3, OpenedIsChosen DEF Chosen, Deciding
    <2>7. ~RollingBack /\ ~RollingBack' /\ ~restoring
      BY <2>2 DEF AuthorityInv, Flow, RollingBack
    <2>8. Settled' /\ Committed' /\ Flow'
      BY <2>2, <2>7 DEF AuthorityInv, Settled, Committed, Flow
    <2> QED BY <2>4, <2>5, <2>6, <2>8 DEF AuthorityInv
  <1>2. CASE BindFails
    <2>1. UNCHANGED <<names, active, mem, service>> /\ Finish("error")
      BY <1>2 DEF BindFails, world
    <2>2. NamesAreHomes' /\ Proper(active)' /\ HeldIsBound' /\ (service' = "down" => active'.att = {})
      BY <2>1 DEF AuthorityInv, NamesAreHomes, Proper, HeldIsBound, Flow
    <2> QED BY <2>1, <2>2, Returned
  <1> QED BY <1>1, <1>2

-----------------------------------------------------------------------------
\* Changes to the journal are not changes to the bindings.
LEMMA JournalKeepsBindings ==
  ASSUME NEW c \in Config, NEW k \in Objects
  PROVE  /\ Dropped(c, k).bind = c.bind /\ Dropped(c, k).folders = c.folders
         /\ [c EXCEPT !.snaps[k].phase = "applied"].bind = c.bind
         /\ [c EXCEPT !.snaps[k].phase = "applied"].folders = c.folders
  BY DEF Config, Dropped

LEMMA AuthorityUndo ==
  ASSUME TypeInv, AuthorityInv,
         \/ WithdrawRule \/ SettleWithdrawal \/ DropRecord \/ DeferRecord
         \/ WithdrawFails \/ Withdrawn
  PROVE  AuthorityInv'
  <1>1. /\ UNCHANGED <<names, active, bnd, mem, op, restoring, service, stage>>
        /\ pc \in {"withdraw", "settle"}
        /\ pc' \in {"withdraw", "settle", "restore", "failed", "begin"}
        /\ pc' = "begin" => stage = "swap"
    BY DEF WithdrawRule, SettleWithdrawal, DropRecord, DeferRecord, WithdrawFails, Withdrawn,
           Forgets, KeepLocals, Goto, world, engine
  <1>2. cfg'.bind = cfg.bind /\ cfg'.folders = cfg.folders
    <2>1. cfg \in Config /\ todo \subseteq Objects
      BY DEF TypeInv, TypeOK
    <2>2. CASE \E k \in Objects : cfg' = Dropped(cfg, k)
      BY <2>1, <2>2, JournalKeepsBindings
    <2>3. CASE UNCHANGED cfg
      BY <2>3
    <2>4. pc = "settle" => cur \in Objects
      BY DEF TypeInv, Shape, Records
    <2> QED BY <2>1, <2>2, <2>3, <2>4
            DEF WithdrawRule, SettleWithdrawal, DropRecord, DeferRecord, WithdrawFails, Withdrawn,
                Forgets
  <1> QED BY <1>1, <1>2, Steady DEF Undoing, RollingBack

LEMMA ResumeSteps ==
  ASSUME NEW err
  PROVE  /\ Resume(err) \notin {"idle", "launch", "bind"}
         /\ Resume(err) = "helloDone" => stage = "hello"
         /\ RollingBack => Resume(err) \in Undoing
  BY DEF Resume, RollingBack, Undoing

LEMMA AuthorityPolicy ==
  ASSUME TypeInv, AuthorityInv,
         NothingToRestore \/ RestorePolicy \/ RestorePolicyFails \/ ForgetPolicy
  PROVE  AuthorityInv'
  <1>1. /\ UNCHANGED <<names, active, bnd, mem, op, restoring, service, stage>>
        /\ pc \in {"restore", "forget"}
    BY DEF NothingToRestore, RestorePolicy, RestorePolicyFails, ForgetPolicy, Restoring,
           KeepLocals, world, engine
  <1>2. pc' = "forget" \/ \E err \in BOOLEAN : pc' = Resume(err)
    BY DEF NothingToRestore, RestorePolicy, RestorePolicyFails, ForgetPolicy, Goto, TypeInv, TypeOK
  <1>3. cfg'.bind = cfg.bind /\ cfg'.folders = cfg.folders
    <2>1. cfg' \in {cfg, [cfg EXCEPT !.pol = None]}
      BY DEF NothingToRestore, RestorePolicy, RestorePolicyFails, ForgetPolicy, Restoring
    <2> QED BY <2>1 DEF TypeInv, TypeOK, Config
  <1>4. /\ pc' \notin {"idle", "launch", "bind"} /\ (pc' = "helloDone" => stage = "hello")
        /\ RollingBack => pc' \in Undoing
    BY <1>2, ResumeSteps DEF Undoing
  <1>5. stage = "hello" => ~restoring
    BY DEF AuthorityInv, Flow
  <1> QED BY <1>1, <1>3, <1>4, <1>5, Steady DEF RollingBack
-----------------------------------------------------------------------------
\* What the steps of a start have in common: they end in a rollback, in a
\* failure or further on.
LEMMA AuthorityEnsure ==
  ASSUME TypeInv, AuthorityInv, EnsurePolicy \/ EnablePolicy \/ ConfirmPolicy
  PROVE  AuthorityInv'
  <1>1. /\ UNCHANGED <<names, active, bnd, mem, op, restoring, service, stage>>
        /\ pc \in {"ensure", "enable", "confirmPolicy", "notePolicy"}
        /\ pc' \in {"enable", "confirmPolicy", "notePolicy", "mark", "failed"}
    BY DEF EnsurePolicy, EnablePolicy, ConfirmPolicy, Ensuring, KeepAll, Goto, world, engine
  <1>2. cfg'.bind = cfg.bind /\ cfg'.folders = cfg.folders
    <2>1. \/ cfg' \in {cfg, [cfg EXCEPT !.pol.phase = "applied"]}
          \/ \E r : cfg' = [cfg EXCEPT !.pol = r]
      BY DEF EnsurePolicy, EnablePolicy, ConfirmPolicy
    <2> QED BY <2>1 DEF TypeInv, TypeOK, Config
  <1>3. ~RollingBack
    BY <1>1 DEF AuthorityInv, Flow
  <1> QED BY <1>1, <1>2, <1>3, Steady DEF RollingBack

LEMMA AuthorityMark ==
  ASSUME TypeInv, AuthorityInv,
         AlreadyMarked \/ PrepareMark \/ MarkRefused \/ AddRule \/ ConfirmMark
  PROVE  AuthorityInv'
  <1>1. /\ UNCHANGED <<names, active, bnd, mem, op, restoring, service>>
        /\ pc \in {"mark", "add", "confirm"}
        /\ \/ UNCHANGED stage /\ pc' \in {"mark", "add", "confirm"}
           \/ stage' = "rollback" /\ pc' = "withdraw"
    BY DEF AlreadyMarked, PrepareMark, MarkRefused, AddRule, ConfirmMark, Marking, RollBack,
           KeepAll, Goto, world, engine
  <1>2. cfg'.bind = cfg.bind /\ cfg'.folders = cfg.folders
    <2>1. cfg \in Config /\ bnd.live \subseteq Objects
      BY DEF TypeInv, TypeOK, Bound
    <2>2. pc = "confirm" => cur \in Objects
      BY DEF TypeInv, Shape, Records
    <2>3. CASE PrepareMark
      <3>1. PICK o \in bnd.live :
              cfg' = [cfg EXCEPT !.snaps[o] = Intent(o)] \/ cfg' = Dropped(cfg, o)
        BY <2>3 DEF PrepareMark
      <3> QED BY <2>1, <3>1 DEF Config, Dropped
    <2>4. CASE ConfirmMark
      BY <2>1, <2>2, <2>4, JournalKeepsBindings DEF ConfirmMark, Marking
    <2> QED BY <2>3, <2>4 DEF AlreadyMarked, MarkRefused, AddRule
  <1>3. ~RollingBack
    BY <1>1 DEF AuthorityInv, Flow
  <1> QED BY <1>1, <1>2, <1>3, Steady DEF RollingBack, Undoing

LEMMA AuthorityBeginRun == ASSUME TypeInv, AuthorityInv, BeginRun PROVE AuthorityInv'
  <1>1. UNCHANGED <<names, active, mem, service>> /\ pc = "begin"
    BY DEF BeginRun, world
  <1>2. CASE Finish("ok") \/ Finish("error")
    <2>1. NamesAreHomes' /\ Proper(active)' /\ HeldIsBound' /\ (service' = "down" => active'.att = {})
      BY <1>1 DEF AuthorityInv, NamesAreHomes, Proper, HeldIsBound, Flow
    <2> QED BY <1>2, <2>1, Returned
  <1>3. CASE ~(Finish("ok") \/ Finish("error"))
    <2>1. /\ UNCHANGED <<op, cfg, bnd, restoring>>
          /\ pc' \in {"restore", "ensure"} /\ stage' \in {"goIdle", "giveback", "run"}
      BY <1>3 DEF BeginRun, Goto
    <2>2. ~RollingBack
      BY <1>1 DEF AuthorityInv, Flow
    <2> QED BY <1>1, <2>1, <2>2, Steady DEF RollingBack
  <1> QED BY <1>2, <1>3

-----------------------------------------------------------------------------
(***************************************************************************)
(* Taking over what a bind opened.                                         *)
(***************************************************************************)

\* A path that was opened is bound to its object, any other configured path
\* keeps what it had.
LEMMA AdoptedBindings ==
  ASSUME NEW c \in Config, NEW b \in Bound, Proper(b), NEW d \in Config,
         d.folders = b.folders, d.bind = MergeBindings(c.bind, b)
  PROVE  /\ \A o \in b.att : d.bind[Home[o]] = o
         /\ \A p \in b.folders : (\A o \in b.att : Home[o] # p) => d.bind[p] = c.bind[p]
  <1>1. b.folders \subseteq Paths /\ b.att \subseteq Objects
    BY DEF Bound
  <1>2. ASSUME NEW o \in b.att PROVE d.bind[Home[o]] = o
    <2>1. {x \in b.att : Home[x] = Home[o]} = {o}
      BY DEF Proper
    <2>2. Home[o] \in b.folders /\ Home[o] \in Paths
      BY <1>1 DEF Proper
    <2>3. (CHOOSE x \in {o} : TRUE) = o
      OBVIOUS
    <2> QED BY <2>1, <2>2, <2>3 DEF MergeBindings
  <1>3. ASSUME NEW p \in b.folders, \A o \in b.att : Home[o] # p
        PROVE  d.bind[p] = c.bind[p]
    <2>1. {x \in b.att : Home[x] = p} = {} /\ p \in Paths
      BY <1>1, <1>3
    <2> QED BY <2>1 DEF MergeBindings
  <1> QED BY <1>2, <1>3

LEMMA AdoptShape ==
  ASSUME NEW c \in Config, NEW b \in Bound
  PROVE  /\ Adopt(c, b).folders = b.folders
         /\ Adopt(c, b).bind = MergeBindings(c.bind, b)
         /\ \A x : /\ [Adopt(c, b) EXCEPT !.enabled = x].folders = b.folders
                   /\ [Adopt(c, b) EXCEPT !.enabled = x].bind = MergeBindings(c.bind, b)
  BY DEF Adopt, Config

\* What an operation that has not committed would adopt agrees with what the
\* engine had, unless the owner decides.
LEMMA AdoptedIsChosen ==
  ASSUME TypeInv, AuthorityInv, pc \notin {"idle", "launch"}, ~RollingBack,
         NEW d \in Config, d.folders = bnd.folders, d.bind = MergeBindings(cfg.bind, bnd)
  PROVE  /\ \A o \in bnd.att : d.bind[Home[o]] = o
         /\ \A p \in bnd.folders : mem.bind[p] # None => d.bind[p] = mem.bind[p] \/ Deciding
  <1>1. /\ \A o \in bnd.att : d.bind[Home[o]] = o
        /\ \A p \in bnd.folders : (\A o \in bnd.att : Home[o] # p) => d.bind[p] = cfg.bind[p]
    BY AdoptedBindings DEF TypeInv, TypeOK, AuthorityInv
  <1>2. cfg.bind = mem.bind
    BY DEF AuthorityInv, Settled
  <1>3. \A o \in bnd.att : Deciding \/ mem.bind[Home[o]] \in {None, o}
    BY DEF AuthorityInv, Chosen
  <1> QED BY <1>1, <1>2, <1>3

\* A start that has to be undone goes on with the handles it has.
LEMMA AuthorityRollBack ==
  ASSUME AuthorityInv, UNCHANGED <<names, active, bnd, mem, op, restoring, service>>,
         pc # "idle", NEW kind \in {"rollback", "rollbackOff"}, NEW c, RollBack(kind, c)
  PROVE  AuthorityInv'
  <1>1. pc' = "withdraw" /\ stage' = kind
    BY DEF RollBack, Goto
  <1>2. NamesAreHomes' /\ Proper(active)' /\ Proper(bnd)' /\ HeldIsBound' /\ Chosen'
    BY DEF AuthorityInv, NamesAreHomes, Proper, HeldIsBound, Chosen, Deciding
  <1>3. Settled' /\ Committed' /\ Flow'
    BY <1>1 DEF AuthorityInv, Settled, Committed, Flow, RollingBack
  <1> QED BY <1>2, <1>3 DEF AuthorityInv

LEMMA AuthorityCommit == ASSUME TypeInv, AuthorityInv, Commit PROVE AuthorityInv'
  <1>1. /\ UNCHANGED <<names, active, mem, op, restoring, service>>
        /\ pc \in {"commit", "mark"} /\ cfg' = [Adopt(cfg, bnd) EXCEPT !.enabled = TRUE]
    BY DEF Commit, KeepAll, world, engine
  <1>2. CASE RollBack("rollback", cfg')
    BY <1>1, <1>2, AuthorityRollBack DEF RollBack
  <1>3. CASE Goto("launch") /\ UNCHANGED <<stage, bnd>>
    <2>1. cfg' \in Config /\ cfg'.folders = bnd.folders /\ cfg'.bind = MergeBindings(cfg.bind, bnd)
      BY <1>1, AdoptType, AdoptShape DEF TypeInv, TypeOK
    <2>2. ~RollingBack
      BY <1>1 DEF AuthorityInv, Flow
    <2>3. Committed'
      BY <1>1, <1>3, <2>1, <2>2, AdoptedIsChosen DEF Committed, Deciding
    <2>4. NamesAreHomes' /\ Proper(active)' /\ Proper(bnd)' /\ HeldIsBound' /\ Chosen'
      BY <1>1, <1>3 DEF AuthorityInv, NamesAreHomes, Proper, HeldIsBound, Chosen, Deciding
    <2>5. Settled' /\ Flow'
      BY <1>1, <1>3, <2>2 DEF Goto, AuthorityInv, Settled, Flow, RollingBack
    <2> QED BY <2>3, <2>4, <2>5 DEF AuthorityInv
  <1> QED BY <1>1, <1>2, <1>3 DEF Commit

LEMMA AuthorityLaunch == ASSUME TypeInv, AuthorityInv, Launch \/ LaunchFails PROVE AuthorityInv'
  <1>1. CASE Launch
    <2>1. UNCHANGED <<names, service>> /\ mem' = cfg /\ active' = bnd /\ pc = "launch"
      BY <1>1 DEF Launch, world
    <2>2. PICK res : Finish(res)
      BY <1>1 DEF Launch
    <2>3. NamesAreHomes' /\ Proper(active)'
      BY <2>1 DEF AuthorityInv, NamesAreHomes, Proper
    <2>4. HeldIsBound'
      BY <2>1 DEF AuthorityInv, Committed, Proper, HeldIsBound
    <2>5. service' # "down"
      BY <2>1 DEF AuthorityInv, Flow
    <2> QED BY <2>2, <2>3, <2>4, <2>5, Returned
  <1>2. CASE LaunchFails
    <2>1. PICK kind \in {"rollback", "rollbackOff"} : RollBack(kind, cfg)
      BY <1>2 DEF LaunchFails
    <2>2. UNCHANGED <<names, active, bnd, mem, op, restoring, service>> /\ pc # "idle"
      BY <1>2, <2>1 DEF LaunchFails, RollBack, KeepAll, world, engine
    <2> QED BY <2>1, <2>2, AuthorityRollBack
  <1> QED BY <1>1, <1>2

LEMMA AuthorityDisable == ASSUME TypeInv, AuthorityInv, Disable PROVE AuthorityInv'
  <1>1. /\ UNCHANGED <<names, active, bnd, mem, op, restoring, service, stage>>
        /\ pc = "disable" /\ pc' = "failed"
    BY DEF Disable, KeepLocals, Goto, world, engine
  <1>2. cfg'.bind = cfg.bind /\ cfg'.folders = cfg.folders
    BY DEF Disable, TypeInv, TypeOK, Config
  <1> QED BY <1>1, <1>2, Steady DEF RollingBack, Undoing

\* The old configuration goes back on with the handles the engine still holds,
\* which are what it binds the paths to.
LEMMA AuthorityFailed == ASSUME TypeInv, AuthorityInv, Failed PROVE AuthorityInv'
  <1>1. UNCHANGED <<names, active, mem, service>> /\ pc = "failed"
    BY DEF Failed, world
  <1>2. NamesAreHomes' /\ Proper(active)' /\ HeldIsBound' /\ (service' = "down" => active'.att = {})
    BY <1>1 DEF AuthorityInv, NamesAreHomes, Proper, HeldIsBound, Flow
  <1>3. CASE Finish("error")
    BY <1>2, <1>3, Returned
  <1>4. CASE ~Finish("error")
    <2>1. /\ pc' = "begin" /\ stage' = "run" /\ cfg' = OldConfig
          /\ \E mech : bnd' = [active EXCEPT !.mech = mech]
      BY <1>4 DEF Failed, Goto
    <2>2. bnd'.att = active.att /\ bnd'.live = active.live /\ bnd'.folders = active.folders
      BY <2>1 DEF TypeInv, TypeOK, Bound
    <2>3. Proper(bnd)'
      BY <2>2 DEF AuthorityInv, Proper
    <2>4. Chosen'
      BY <1>1, <2>2 DEF AuthorityInv, HeldIsBound, Chosen
    <2>5. cfg'.bind = mem.bind /\ cfg'.folders = mem.folders
      <3>1. CASE stage = "swap"
        BY <1>1, <2>1, <3>1 DEF OldConfig, AuthorityInv, Settled, RollingBack
      <3>2. CASE stage # "swap"
        BY <2>1, <3>2 DEF OldConfig, TypeInv, TypeOK, Config
      <3> QED BY <3>1, <3>2
    <2>6. Settled' /\ Committed' /\ Flow'
      BY <1>1, <2>1, <2>5 DEF AuthorityInv, Settled, Committed, Flow, RollingBack
    <2> QED BY <1>2, <2>3, <2>4, <2>6 DEF AuthorityInv
  <1> QED BY <1>3, <1>4

LEMMA AuthorityHelloDone == ASSUME TypeInv, AuthorityInv, HelloDone PROVE AuthorityInv'
  <1>1. UNCHANGED <<names, active, service>> /\ pc = "helloDone" /\ mem' = cfg
    BY DEF HelloDone, world
  <1>2. ~RollingBack /\ ~restoring /\ cfg.bind = mem.bind /\ cfg.folders = mem.folders
    BY <1>1 DEF AuthorityInv, Settled, Flow
  <1>3. NamesAreHomes' /\ Proper(active)' /\ HeldIsBound' /\ (service' = "down" => active'.att = {})
    BY <1>1, <1>2 DEF AuthorityInv, NamesAreHomes, Proper, HeldIsBound, Flow
  <1>4. CASE Finish("error") \/ Finish("ok")
    BY <1>3, <1>4, Returned
  <1>5. CASE ~(Finish("error") \/ Finish("ok"))
    <2>1. /\ pc' = "bind" /\ UNCHANGED <<stage, cfg, restoring>>
          /\ \E mech : bnd' = Request(cfg.folders, cfg.mode, mech)
      BY <1>5 DEF HelloDone, Goto
    <2>2. bnd'.att = {} /\ bnd'.live = {}
      BY <2>1 DEF Request, NoBound
    <2>3. Proper(bnd)' /\ Chosen'
      BY <2>2 DEF Proper, Chosen
    <2>4. Settled' /\ Committed' /\ Flow'
      BY <1>1, <1>2, <2>1 DEF AuthorityInv, Settled, Committed, Flow, RollingBack
    <2> QED BY <1>3, <2>3, <2>4 DEF AuthorityInv
  <1> QED BY <1>4, <1>5

\* An engine that holds nothing cannot hold the wrong thing.
LEMMA AuthorityReleased ==
  ASSUME AuthorityInv, UNCHANGED names, active' = NoBound, NEW res, Finish(res)
  PROVE  AuthorityInv'
  <1>1. NamesAreHomes' /\ Proper(active)' /\ HeldIsBound' /\ active'.att = {}
    BY DEF AuthorityInv, NamesAreHomes, NoBound, Proper, HeldIsBound
  <1> QED BY <1>1, Returned

LEMMA AuthorityProcess ==
  ASSUME TypeInv, AuthorityInv, RecordBound \/ StopSave \/ RequestStop \/ Crash \/ Boot
  PROVE  AuthorityInv'
  <1>1. CASE RecordBound \/ StopSave \/ Crash
    <2>1. UNCHANGED names /\ active' = NoBound /\ \E res : Finish(res)
      BY <1>1 DEF RecordBound, StopSave, Crash, world
    <2> QED BY <2>1, AuthorityReleased
  <1>2. CASE RequestStop
    <2>1. UNCHANGED <<names, active, bnd, mem, cfg, pc, op, stage, restoring>>
          /\ service' = "stopping"
      BY <1>2 DEF RequestStop, world, local
    <2> QED BY <2>1 DEF AuthorityInv, NamesAreHomes, Proper, HeldIsBound, Chosen, Deciding,
                        Settled, Committed, Flow, RollingBack
  <1>3. CASE Boot
    <2>1. /\ UNCHANGED <<names, active, bnd, cfg, pc, op, stage, restoring>>
          /\ service = "down" /\ service' = "up"
      BY <1>3 DEF Boot, world, local
    <2>2. pc = "idle" /\ active.att = {} /\ bnd.att = {}
      BY <2>1 DEF AuthorityInv, Flow
    <2>3. NamesAreHomes' /\ Proper(active)' /\ Proper(bnd)' /\ HeldIsBound' /\ Chosen'
      BY <2>1, <2>2 DEF AuthorityInv, NamesAreHomes, Proper, HeldIsBound, Chosen
    <2>4. Settled' /\ Committed' /\ Flow'
      BY <2>1, <2>2 DEF AuthorityInv, Settled, Committed, Flow, RollingBack
    <2> QED BY <2>3, <2>4 DEF AuthorityInv
  <1> QED BY <1>1, <1>2, <1>3

\* Nothing outside gives ReadWatch a folder it had not opened.
LEMMA AuthorityWorld == ASSUME TypeInv, AuthorityInv, World PROVE AuthorityInv'
  <1>1. UNCHANGED <<service, mem, cfg, pc, op, stage, restoring>>
    BY DEF World, Detach, Attach, Reassign, Delete, EditRules, EditPolicy, Outside
  <1>2. /\ active'.att = active.att /\ active'.folders = active.folders
        /\ active'.live \subseteq active.live
        /\ bnd'.att = bnd.att /\ bnd'.folders = bnd.folders /\ bnd'.live \subseteq bnd.live
    <2>1. CASE UNCHANGED <<active, bnd>>
      BY <2>1
    <2>2. ASSUME NEW v \in Volumes, active' = [active EXCEPT !.live = @ \ InVolume(v)],
                 bnd' = [bnd EXCEPT !.live = @ \ InVolume(v)]
          PROVE  /\ active'.att = active.att /\ active'.folders = active.folders
                 /\ active'.live \subseteq active.live
                 /\ bnd'.att = bnd.att /\ bnd'.folders = bnd.folders
                 /\ bnd'.live \subseteq bnd.live
      BY <2>2 DEF TypeInv, TypeOK, Bound
    <2> QED BY <2>1, <2>2
            DEF World, Detach, Attach, Reassign, Delete, EditRules, EditPolicy, world
  <1>3. NamesAreHomes'
    <2>1. CASE UNCHANGED names
      BY <2>1 DEF AuthorityInv, NamesAreHomes
    <2>2. ASSUME NEW q \in Paths, NEW x \in Objects, Home[x] = q,
                 names' = [names EXCEPT ![q] = x]
          PROVE  NamesAreHomes'
      BY <2>2 DEF AuthorityInv, NamesAreHomes, TypeInv, TypeOK
    <2> QED BY <2>1, <2>2
            DEF World, Detach, Attach, Reassign, Delete, EditRules, EditPolicy, world
  <1>4. Proper(active)' /\ Proper(bnd)'
    BY <1>2 DEF AuthorityInv, Proper
  <1>5. HeldIsBound' /\ Chosen' /\ Settled' /\ Committed' /\ Flow'
    BY <1>1, <1>2 DEF AuthorityInv, HeldIsBound, Chosen, Deciding, Settled, Committed, Flow,
                      RollingBack
  <1> QED BY <1>3, <1>4, <1>5 DEF AuthorityInv

LEMMA AuthorityStep == ASSUME TypeInv, AuthorityInv, Next PROVE AuthorityInv'
  BY AuthorityBegin, AuthorityBind, AuthorityUndo, AuthorityPolicy, AuthorityEnsure,
     AuthorityMark, AuthorityBeginRun, AuthorityCommit, AuthorityLaunch, AuthorityDisable,
     AuthorityFailed, AuthorityHelloDone, AuthorityProcess, AuthorityWorld
  DEF Next, Operation

LEMMA AuthorityStutter == ASSUME AuthorityInv, UNCHANGED vars PROVE AuthorityInv'
  BY DEF vars, world, engine, local, AuthorityInv, NamesAreHomes, Proper, HeldIsBound, Chosen,
         Deciding, Settled, Committed, Flow, RollingBack

\* In every reachable state, what is held, opened and about to be taken over
\* agrees with the bindings (AuthorityInv).
THEOREM AuthorityCorrect == Spec => []AuthorityInv
  <1>1. TypeInv /\ AuthorityInv /\ [Next]_vars => AuthorityInv'
    BY AuthorityStep, AuthorityStutter
  <1> QED BY <1>1, AuthorityInit, TypeCorrect, PTL DEF Spec

-----------------------------------------------------------------------------
(***************************************************************************)
(* The theorems.                                                           *)
(***************************************************************************)

\* What a running watcher watches is what the engine's configuration says is
\* watched, under the identity recorded for it (Launch, Failed, HelloDone).
THEOREM ActiveIsBoundCorrect == Spec => []ActiveIsBound
  <1>1. AuthorityInv => ActiveIsBound
    BY DEF AuthorityInv, HeldIsBound, ActiveIsBound
  <1> QED BY <1>1, AuthorityCorrect, PTL

LEMMA OnlyAddRuleOwns ==
  ASSUME Next, NEW o \in owned' \ owned PROVE AddRule /\ o = cur
  <1>1. CASE AddRule
    BY <1>1 DEF AddRule
  <1>2. CASE Begin
    BY <1>2 DEF Begin, BeginHello, BeginStart, BeginSave, BeginApply, BeginStop, BeginShutdown,
                Stopping, Beginning, machine
  <1>3. CASE Bind \/ BindFails \/ BeginRun \/ Commit \/ Launch \/ LaunchFails \/ Disable \/ Failed
    BY <1>3 DEF Bind, BindFails, BeginRun, Commit, Launch, LaunchFails, Disable, Failed, machine
  <1>4. CASE HelloDone \/ RecordBound \/ StopSave \/ RequestStop \/ Crash \/ Boot
    BY <1>4 DEF HelloDone, RecordBound, StopSave, RequestStop, Crash, Boot, machine
  <1>5. CASE \/ WithdrawRule \/ SettleWithdrawal \/ DropRecord \/ DeferRecord
             \/ WithdrawFails \/ Withdrawn
    BY <1>5 DEF WithdrawRule, SettleWithdrawal, DropRecord, DeferRecord, WithdrawFails, Withdrawn,
                machine
  <1>6. CASE NothingToRestore \/ RestorePolicy \/ RestorePolicyFails \/ ForgetPolicy
    BY <1>6 DEF NothingToRestore, RestorePolicy, RestorePolicyFails, ForgetPolicy, machine
  <1>7. CASE EnsurePolicy \/ EnablePolicy \/ ConfirmPolicy
    BY <1>7 DEF EnsurePolicy, EnablePolicy, ConfirmPolicy, Ensuring
  <1>8. CASE AlreadyMarked \/ PrepareMark \/ MarkRefused \/ ConfirmMark
    BY <1>8 DEF AlreadyMarked, PrepareMark, MarkRefused, ConfirmMark
  <1>9. CASE World
    BY <1>9 DEF World, Detach, Attach, Reassign, Delete, EditRules, EditPolicy, machine
  <1> QED BY <1>1, <1>2, <1>3, <1>4, <1>5, <1>6, <1>7, <1>8, <1>9 DEF Next, Operation

\* A rule is only ever added to a folder that the owner is choosing now, chose
\* before, or never chose another one for (AddRule after Bind or Failed).
THEOREM OnlyAuthorisedCorrect == Spec => OnlyAuthorised
  <1>1. ASSUME TypeInv, AuthorityInv, [Next]_vars
        PROVE  [\A o \in owned' \ owned :
                  \/ op = "save" /\ ~restoring
                  \/ mem.bind[Home[o]] \in {None, o}]_vars
    <2>1. SUFFICES ASSUME Next, NEW o \in owned' \ owned
                   PROVE  Deciding \/ mem.bind[Home[o]] \in {None, o}
      BY <1>1 DEF Deciding
    <2>2. o \in bnd.att
      BY <1>1, <2>1, OnlyAddRuleOwns DEF AddRule, AuthorityInv, Proper
    <2> QED BY <1>1, <2>2 DEF AuthorityInv, Chosen
  <1> QED BY <1>1, AuthorityCorrect, TypeCorrect, PTL DEF Spec, OnlyAuthorised

\* Where the engine's configuration is replaced.
LEMMA WhoReplaces ==
  ASSUME Next, service = "up", service' = "up"
  PROVE  UNCHANGED mem \/ Launch \/ HelloDone \/ RecordBound \/ StopSave
  <1>1. CASE Begin
    BY <1>1 DEF Begin, BeginHello, BeginStart, BeginSave, BeginApply, BeginStop, BeginShutdown,
                Stopping, Beginning
  <1>2. CASE Bind \/ BindFails \/ BeginRun \/ Commit \/ LaunchFails \/ Disable \/ Failed
    BY <1>2 DEF Bind, BindFails, BeginRun, Commit, LaunchFails, Disable, Failed, KeepAll, engine
  <1>3. CASE RequestStop \/ Crash \/ Boot
    BY <1>3 DEF RequestStop, Crash, Boot
  <1>4. CASE \/ WithdrawRule \/ SettleWithdrawal \/ DropRecord \/ DeferRecord
             \/ WithdrawFails \/ Withdrawn
    BY <1>4 DEF WithdrawRule, SettleWithdrawal, DropRecord, DeferRecord, WithdrawFails, Withdrawn,
                engine
  <1>5. CASE NothingToRestore \/ RestorePolicy \/ RestorePolicyFails \/ ForgetPolicy
    BY <1>5 DEF NothingToRestore, RestorePolicy, RestorePolicyFails, ForgetPolicy, Restoring, engine
  <1>6. CASE EnsurePolicy \/ EnablePolicy \/ ConfirmPolicy
    BY <1>6 DEF EnsurePolicy, EnablePolicy, ConfirmPolicy, Ensuring, KeepAll, engine
  <1>7. CASE AlreadyMarked \/ PrepareMark \/ MarkRefused \/ AddRule \/ ConfirmMark
    BY <1>7 DEF AlreadyMarked, PrepareMark, MarkRefused, AddRule, ConfirmMark, Marking, KeepAll,
                engine
  <1>8. CASE World
    BY <1>8 DEF World, Detach, Attach, Reassign, Delete, EditRules, EditPolicy, Outside
  <1> QED BY <1>1, <1>2, <1>3, <1>4, <1>5, <1>6, <1>7, <1>8 DEF Next, Operation

\* Which object a path stands for is only changed by the owner's Save: not by
\* an operation that fails, by a return to the old configuration or by a resume
\* (Launch, HelloDone, RecordBound, StopSave).
THEOREM BindingsSurviveCorrect == Spec => BindingsSurvive
  <1>1. ASSUME TypeInv, AuthorityInv, Next, service = "up", service' = "up",
               NEW p \in Paths, mem.bind[p] # None, p \in mem'.folders
        PROVE  mem'.bind[p] = mem.bind[p] \/ Deciding
    <2>1. CASE UNCHANGED mem
      BY <2>1
    <2>2. CASE Launch
      BY <1>1, <2>2 DEF Launch, AuthorityInv, Committed
    <2>3. CASE HelloDone
      BY <2>3, <1>1 DEF HelloDone, AuthorityInv, Settled, Flow
    <2>4. CASE StopSave
      <3>1. mem'.bind = cfg.bind
        BY <1>1, <2>4 DEF StopSave, TypeInv, TypeOK, Config
      <3>2. pc = "stopSave"
        BY <2>4 DEF StopSave
      <3> QED BY <1>1, <3>1, <3>2 DEF AuthorityInv, Settled, Flow
    <2>5. CASE RecordBound
      <3>1. pc = "record" /\ mem' = Adopt(cfg, bnd)
        BY <2>5 DEF RecordBound
      <3>2. mem' \in Config /\ mem'.folders = bnd.folders /\ mem'.bind = MergeBindings(cfg.bind, bnd)
        BY <1>1, <3>1, AdoptType, AdoptShape DEF TypeInv, TypeOK
      <3>3. ~RollingBack
        BY <1>1, <3>1 DEF AuthorityInv, Flow
      <3> QED BY <1>1, <3>1, <3>2, <3>3, AdoptedIsChosen
    <2> QED BY <1>1, <2>1, <2>2, <2>3, <2>4, <2>5, WhoReplaces
  <1>2. ASSUME TypeInv, AuthorityInv, [Next]_vars
        PROVE  [\A p \in Paths :
                  service = "up" /\ service' = "up" /\ mem.bind[p] # None /\ p \in mem'.folders
                    => \/ mem'.bind[p] = mem.bind[p]
                       \/ op = "save" /\ ~restoring]_vars
    BY <1>1, <1>2 DEF Deciding
  <1> QED BY <1>2, AuthorityCorrect, TypeCorrect, PTL DEF Spec, BindingsSurvive
=============================================================================
