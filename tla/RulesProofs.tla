---------------------------- MODULE RulesProofs ----------------------------
(***************************************************************************)
(* The auditing rules are journalled: every rule ReadWatch put on a folder *)
(* and nobody has edited since can be taken away by a process that has     *)
(* nothing but the configuration file; and a success that is reported is   *)
(* true.  Proved outside the windows in which the code does not promise it *)
(* (Gaps = {}), and while no path is passed from one volume to another,    *)
(* which Stop and Apply do not survive (folderByPath).                     *)
(***************************************************************************)
EXTENDS PolicyProofs

\* A letter does not change hands.
OneVolumePerPath == \A o, x \in Objects : Home[o] = Home[x] => Vol[o] = Vol[x]

\* A record that can take away the rule o has now.
Backs(r, o) == Undoes(r, sacl[o], "rule")

Confirmed(r) == r.phase = "applied"

\* No handle reaches another object than the one recorded for its path.
Alone(c, b) == \A k \in Records(c), o \in b.live : Home[o] = Home[k] => o = k

\* A handle that works is of a folder that is there; nothing is owned of one that
\* was deleted.
Standing == /\ \A o \in active.live \cup bnd.live : Present(o)
            /\ owned \cap gone = {}

RuleInHand == pc # "idle" => \A o \in owned : Backs(cfg.snaps[o], o)

\* What the engine falls back on, for all but the folders marked since.  What it
\* holds and has marked is confirmed.
RuleInMemory ==
  service # "down" => \A o \in owned \ Exposed :
    Backs(mem.snaps[o], o) /\ (o \in active.live => Confirmed(mem.snaps[o]))

\* While old rules are withdrawn, the copy has the engine's records or none.
Copied == pc = "bind" \/ stage \in {"hello", "start", "applyIdle", "swap", "stop"} =>
            \A k \in Objects : cfg.snaps[k] \in {None, mem.snaps[k]}

HeldAlone == Alone(mem, active) /\ (stage \in {"run", "giveback"} => Alone(cfg, bnd))

\* A record that was put off is of a volume no handle is left on.
OutOfReach == \A k \in deferred, o \in active.live \cup bnd.live : Vol[o] # Vol[k]

InProgress(steps) == IF pc \in steps THEN {cur} ELSE {}

\* A withdrawal that met no error leaves only what it put off; what a start has
\* recorded besides is what it marked.
Undone ==
  /\ stage \in {"hello", "start", "applyIdle", "swap", "stop"} /\ pc # "bind" /\ ~failed =>
       Records(cfg) \subseteq todo \cup deferred \cup InProgress({"settle"})
  /\ stage \in {"run", "giveback", "goIdle"} /\ ~restoring =>
       Records(cfg) \subseteq deferred \cup done \cup InProgress({"add", "confirm"})

\* A folder that is held and marked is confirmed, so that its record is never
\* prepared anew from what ReadWatch itself put there.
MarkedOnce ==
  stage \in {"run", "giveback"} =>
    \A o \in (owned \cap bnd.live) \ InProgress({"confirm"}) : Confirmed(cfg.snaps[o])

\* A rollback reaches everything that was marked since.
GivenBack ==
  RollingBack => /\ owned \cap done \subseteq todo /\ todo \subseteq done
                 /\ ~restoring /\ ~Resuming => owned \subseteq deferred \cup todo

\* The folder in progress.
Underway ==
  /\ pc = "settle" => cur \notin owned
  /\ pc = "add" => /\ cur \notin owned /\ cur \in bnd.att
                   /\ disk.snaps[cur] = cfg.snaps[cur] /\ cfg.snaps[cur].orig = sacl[cur]
                   /\ cfg.snaps[cur].applied = sacl[cur] \cup {"rule"}
  /\ pc = "confirm" => cur \in bnd.live /\ sacl[cur] = cfg.snaps[cur].applied

\* When the locals of an operation are in use.
Locals ==
  /\ done \subseteq bnd.live
  /\ done # {} => RollingBack \/ (stage = "run" /\ pc \in {"mark", "add", "confirm", "launch"})
  /\ pc \notin {"withdraw", "settle"} => todo = {}
  /\ pc \in {"idle", "bind"} => deferred = {}
  /\ pc \in {"idle", "bind", "begin"} => ~failed

RulesInv == /\ Standing /\ RulesAreJournalled /\ RuleInHand /\ RuleInMemory /\ Copied /\ HeldAlone
            /\ OutOfReach /\ Undone /\ MarkedOnce /\ GivenBack /\ Underway /\ Locals
-----------------------------------------------------------------------------
(***************************************************************************)
(* What the steps have in common.                                          *)
(***************************************************************************)

\* What the theorems about types, authority and the policy say of every state.
Known == TypeInv /\ AuthorityInv /\ PolicyInv

\* The stages a step belongs to.
LEMMA StageOf ==
  ASSUME Known
  PROVE  /\ pc = "idle" => stage = "none"
         /\ pc = "bind" => stage \in {"none", "hello"} /\ (stage = "hello" => op = "hello")
         /\ pc \in {"withdraw", "settle"} =>
              stage \in {"hello", "start", "applyIdle", "swap", "stop", "rollback", "rollbackOff"}
         /\ pc \in {"restore", "forget"} =>
              stage \in {"hello", "start", "applyIdle", "stop", "giveback", "goIdle", "rollback",
                         "rollbackOff"}
         /\ pc = "begin" => stage \in {"start", "swap", "run"}
         /\ pc \in {"ensure", "enable", "confirmPolicy", "notePolicy", "mark", "add", "confirm"} =>
              stage = "run"
         /\ pc = "commit" => stage = "giveback"
         /\ pc = "launch" => stage \in {"run", "giveback"}
         /\ pc = "disable" => stage = "rollbackOff"
         /\ pc = "failed" =>
              /\ stage \in {"start", "swap", "run", "giveback", "rollback", "rollbackOff"}
              /\ stage = "start" => Resuming
         /\ pc = "helloDone" => stage = "hello"
         /\ pc = "record" => stage \in {"none", "applyIdle", "goIdle"}
         /\ pc = "stopSave" => stage = "stop"
  BY DEF Known, TypeInv, TypeOK, Stages, PolicyInv, Course, Removing

\* Before the first folder is marked, and outside a start, nothing is exposed.
LEMMA NothingDone ==
  ASSUME Known, Locals
  PROVE  pc \notin {"withdraw", "settle", "restore", "forget", "disable", "failed", "mark", "add",
                    "confirm", "launch"}
           => done = {} /\ Exposed = {}
  <1>1. pc \in Steps
    BY DEF Known, TypeInv, TypeOK
  <1> QED BY <1>1, StageOf DEF Locals, Exposed, RollingBack, Steps

\* A step inside an operation that changes no rule and no record of one, and
\* goes on with the same folders.
LEMMA RulesSteady ==
  ASSUME Known, RulesInv,
         UNCHANGED <<sacl, owned, there, gone, active, bnd, mem, service, op, stage, restoring,
                     todo, deferred, done, cur>>,
         cfg'.snaps = cfg.snaps, disk'.snaps \in {disk.snaps, cfg.snaps},
         pc \notin {"idle", "bind", "settle", "add", "confirm"},
         pc' \notin {"idle", "bind", "settle", "add", "confirm"},
         failed => failed', pc' = "begin" => ~failed',
         pc' = "withdraw" \/ todo = {},
         done # {} => RollingBack \/ (stage = "run" /\ pc' \in {"mark", "launch"})
  PROVE  RulesInv'
  <1> USE DEF RulesInv
  <1>1. Records(cfg)' = Records(cfg) /\ Records(mem)' = Records(mem)
    BY DEF Records
  <1>2. Standing' /\ RulesAreJournalled' /\ RuleInHand'
    BY DEF Standing, Present, RulesAreJournalled, RuleInHand, Backs, Undoes
  <1>3. RuleInMemory'
    BY DEF RuleInMemory, Exposed, Backs, Undoes, Confirmed
  <1>4. Copied' /\ HeldAlone' /\ OutOfReach'
    BY <1>1 DEF Copied, HeldAlone, Alone, OutOfReach
  <1>5. Undone'
    BY <1>1 DEF Undone, InProgress
  <1>6. MarkedOnce'
    BY DEF MarkedOnce, InProgress, Confirmed
  <1>7. GivenBack' /\ Underway' /\ Locals'
    BY DEF GivenBack, Underway, Locals, RollingBack, Resuming
  <1> QED BY <1>2, <1>3, <1>4, <1>5, <1>6, <1>7

\* An operation that returns with nothing exposed.
LEMMA RulesReturned ==
  ASSUME RulesInv, UNCHANGED <<sacl, owned, there, gone, disk, active, mem, service>>,
         NEW res, Finish(res), owned \cap Exposed = {}
  PROVE  RulesInv'
  <1> USE DEF RulesInv
  <1>1. /\ pc' = "idle" /\ stage' = "none" /\ bnd'.live = {} /\ done' = {} /\ todo' = {}
        /\ deferred' = {} /\ failed' = FALSE
    BY DEF Finish, NoBound
  <1>2. Standing' /\ RulesAreJournalled' /\ RuleInHand'
    BY <1>1 DEF Standing, Present, RulesAreJournalled, RuleInHand, Undoes
  <1>3. RuleInMemory'
    BY <1>1 DEF RuleInMemory, Exposed, Backs, Undoes, Confirmed
  <1>4. Copied' /\ HeldAlone' /\ OutOfReach' /\ Undone' /\ MarkedOnce' /\ GivenBack'
    BY <1>1 DEF Copied, HeldAlone, Alone, Records, OutOfReach, Undone, MarkedOnce, GivenBack,
                RollingBack
  <1>5. Underway' /\ Locals'
    BY <1>1 DEF Underway, Locals
  <1> QED BY <1>2, <1>3, <1>4, <1>5

\* An operation that leaves its records to the engine and, if the save
\* succeeds, to the file.
LEMMA RulesTaken ==
  ASSUME RulesInv, UNCHANGED <<sacl, owned, there, gone>>, mem'.snaps = cfg.snaps, pc # "idle",
         disk'.snaps \in {disk.snaps, cfg.snaps},
         NEW res, Finish(res), \A o \in active'.live : Present(o), Alone(mem', active'),
         \A o \in owned \cap active'.live : Confirmed(cfg.snaps[o])
  PROVE  RulesInv'
  <1> USE DEF RulesInv
  <1>1. /\ pc' = "idle" /\ stage' = "none" /\ bnd'.live = {} /\ done' = {} /\ todo' = {}
        /\ deferred' = {} /\ failed' = FALSE
    BY DEF Finish, NoBound
  <1>2. Standing' /\ RulesAreJournalled' /\ RuleInHand'
    BY <1>1 DEF Standing, Present, RulesAreJournalled, RuleInHand, Backs, Undoes
  <1>3. RuleInMemory'
    BY <1>1 DEF RuleInMemory, RuleInHand, Exposed, Backs, Undoes, Confirmed
  <1>4. Copied' /\ HeldAlone' /\ OutOfReach' /\ Undone' /\ MarkedOnce' /\ GivenBack'
    BY <1>1 DEF Copied, HeldAlone, Alone, Records, OutOfReach, Undone, MarkedOnce, GivenBack,
                RollingBack
  <1>5. Underway' /\ Locals'
    BY <1>1 DEF Underway, Locals
  <1> QED BY <1>2, <1>3, <1>4, <1>5
-----------------------------------------------------------------------------
(***************************************************************************)
(* Where an operation begins and binds.                                    *)
(***************************************************************************)
LEMMA RulesInit == Init => RulesInv
  BY DEF Init, NoBound, BlankConfig, RulesInv, Standing, RulesAreJournalled, RuleInHand,
         RuleInMemory, Copied, HeldAlone, Alone, Records, OutOfReach, Undone, MarkedOnce, GivenBack,
         RollingBack, Underway, Locals

LEMMA RulesBegin == ASSUME Known, RulesInv, Begin PROVE RulesInv'
  <1> USE DEF RulesInv
  <1>1. /\ UNCHANGED <<sacl, owned, there, gone, disk, mem, active, service, deferred, done, cur,
                       failed>>
        /\ pc = "idle" /\ cfg' = mem /\ service # "down"
    BY DEF Begin, BeginHello, BeginStart, BeginSave, BeginApply, BeginStop, BeginShutdown,
           Stopping, Beginning, machine, world, Known, PolicyInv, Course
  <1>2. \/ stage' \in {"hello", "stop"} /\ pc' = "withdraw" /\ todo' = Records(mem)
        \/ stage' = "hello" /\ pc' = "helloDone" /\ todo' = {} /\ Records(mem) = {}
        \/ stage' = "none" /\ pc' = "bind" /\ todo' = todo
    BY <1>1, StageOf
    DEF Begin, BeginHello, BeginStart, BeginSave, BeginApply, BeginStop, BeginShutdown,
        Stopping, Beginning, Goto, HasRecords
  <1>3. bnd.live = {} /\ bnd'.live = {}
    <2>1. bnd.live = {}
      BY <1>1 DEF Known, AuthorityInv, Flow, Proper
    <2> QED BY <2>1 DEF Begin, BeginHello, BeginStart, BeginSave, BeginApply, BeginStop,
                        BeginShutdown, Stopping, Request, NoBound
  <1>4. done = {} /\ Exposed = {} /\ Exposed' = {} /\ todo = {} /\ deferred = {} /\ ~failed
    BY <1>1, <1>2, NothingDone DEF Locals, Exposed
  <1>5. Standing' /\ RulesAreJournalled'
    BY <1>1, <1>3 DEF Standing, Present, RulesAreJournalled, Undoes
  <1>6. RuleInHand' /\ RuleInMemory'
    BY <1>1, <1>4 DEF RuleInHand, RuleInMemory, Backs, Undoes, Confirmed
  <1>7. Copied' /\ HeldAlone' /\ OutOfReach'
    BY <1>1, <1>2, <1>3, <1>4 DEF Copied, HeldAlone, Alone, Records, OutOfReach
  <1>8. Undone' /\ MarkedOnce' /\ GivenBack'
    BY <1>1, <1>2 DEF Undone, Records, MarkedOnce, GivenBack, RollingBack
  <1>9. Underway' /\ Locals'
    BY <1>1, <1>2, <1>4 DEF Underway, Locals
  <1> QED BY <1>5, <1>6, <1>7, <1>8, <1>9

LEMMA RulesBind == ASSUME Known, RulesInv, Bind \/ BindFails PROVE RulesInv'
  <1> USE DEF RulesInv
  <1>0. pc = "bind" /\ done = {} /\ Exposed = {} /\ todo = {} /\ deferred = {} /\ ~failed
    <2>1. pc = "bind"
      BY DEF Bind, BindFails
    <2> QED BY <2>1, NothingDone DEF Locals
  <1>1. CASE Bind
    <2>1. PICK refused \in SUBSET bnd.folders :
            bnd' = [bnd EXCEPT !.att = Opened(refused), !.live = Opened(refused)]
      BY <1>1 DEF Bind
    <2>2. \A o \in bnd'.live : Present(o)
      BY <2>1 DEF Opened, Openable, Known, TypeInv, TypeOK, Bound
    <2>3. UNCHANGED <<sacl, owned, there, gone, disk, mem, active, service, op, cfg, deferred, done,
                      cur, failed>>
      BY <1>1 DEF Bind, machine, world
    <2>4. \/ stage' \in {"start", "swap", "applyIdle"} /\ pc' = "withdraw" /\ todo' = Records(cfg)
          \/ stage' = "none" /\ pc' = "record" /\ todo' = todo
      BY <1>0, <1>1, StageOf DEF Bind, AfterBind, Goto
    <2>5. Exposed' = {}
      BY <1>0, <2>3, <2>4 DEF Exposed
    <2>6. Standing' /\ RulesAreJournalled'
      BY <2>2, <2>3 DEF Standing, Present, RulesAreJournalled, Undoes
    <2>7. RuleInHand' /\ RuleInMemory'
      BY <1>0, <2>3, <2>5 DEF RuleInHand, RuleInMemory, Backs, Undoes, Confirmed
    <2>8. Copied' /\ HeldAlone' /\ OutOfReach'
      BY <1>0, <2>3, <2>4 DEF Copied, HeldAlone, Alone, Records, OutOfReach
    <2>9. Undone' /\ MarkedOnce' /\ GivenBack'
      BY <2>3, <2>4 DEF Undone, Records, MarkedOnce, GivenBack, RollingBack
    <2>10. Underway' /\ Locals'
      BY <1>0, <2>3, <2>4 DEF Underway, Locals
    <2> QED BY <2>6, <2>7, <2>8, <2>9, <2>10
  <1>2. CASE BindFails
    BY <1>0, <1>2, RulesReturned DEF BindFails, machine, world
  <1> QED BY <1>1, <1>2
-----------------------------------------------------------------------------
(***************************************************************************)
(* Withdrawing the rules of the records in todo.                           *)
(***************************************************************************)

\* The object a record is withdrawn from is its own: it is reached by its
\* identity, or by the one handle held under its path.
LEMMA ReachedIsItself ==
  ASSUME Known, RulesInv, pc = "withdraw", NEW k \in todo, NEW o \in Reached(k)
  PROVE  o = k
  <1> USE DEF RulesInv
  <1>1. CASE o \notin Held(k)
    BY <1>1 DEF Reached
  <1>2. CASE o \in Held(k)
    <2>1. o \in HeldFrom /\ Home[o] = Home[k] /\ k \in Records(cfg)
      BY <1>2 DEF Held, Known, TypeInv, Shape
    <2>2. CASE stage \in {"swap", "stop"}
      <3>1. cfg.snaps[k] = mem.snaps[k] /\ k \in Records(mem)
        BY <2>1, <2>2 DEF Copied, Records
      <3>2. o \in active.live
        BY <2>1, <2>2 DEF HeldFrom, RollingBack
      <3> QED BY <2>1, <3>1, <3>2 DEF HeldAlone, Alone
    <2>3. CASE RollingBack
      <3>1. o \in bnd.live /\ k \in bnd.live
        BY <2>1, <2>3 DEF HeldFrom, RollingBack, GivenBack, Locals
      <3> QED BY <2>1, <3>1 DEF Known, AuthorityInv, Proper
    <2> QED BY <2>1, <2>2, <2>3 DEF HeldFrom
  <1> QED BY <1>1, <1>2

\* A record of a folder whose rule is not ReadWatch's is dropped.
LEMMA RulesForget ==
  ASSUME Known, RulesInv, NEW k \in Objects, k \notin owned, pc \in {"withdraw", "settle"},
         pc = "settle" => k = cur,
         Forgets(k),
         UNCHANGED <<sacl, owned, there, gone, active, bnd, mem, service, op, stage, restoring,
                     deferred, done>>
  PROVE  RulesInv'
  <1> USE DEF RulesInv
  <1>1. /\ cfg' = Dropped(cfg, k) /\ todo' = todo \ {k} /\ pc' = "withdraw"
        /\ disk' \in {disk, Dropped(cfg, k)} /\ (failed => failed')
    BY DEF Forgets, Goto, Save, SaveFails, Known, TypeInv, TypeOK
  <1>2. /\ Records(cfg') = Records(cfg) \ {k} /\ cfg'.snaps[k] = None
        /\ \A x \in Objects \ {k} : cfg'.snaps[x] = cfg.snaps[x]
    BY <1>1, DroppedType, SnapType DEF Dropped, Known, TypeInv, TypeOK
  <1>3. owned \subseteq Objects \ {k}
    BY DEF Known, TypeInv, TypeOK
  <1>4. stage \notin {"run", "giveback", "goIdle"}
    BY StageOf
  <1>5. Standing' /\ RulesAreJournalled' /\ RuleInHand'
    BY <1>1, <1>2, <1>3 DEF Standing, Present, RulesAreJournalled, RuleInHand, Backs, Undoes
  <1>6. RuleInMemory'
    BY <1>1 DEF RuleInMemory, Exposed, Backs, Undoes, Confirmed
  <1>7. Copied' /\ HeldAlone' /\ OutOfReach'
    BY <1>1, <1>2, <1>4 DEF Copied, HeldAlone, Alone, Records, OutOfReach
  <1>8. Undone' /\ MarkedOnce'
    BY <1>1, <1>2, <1>4 DEF Undone, InProgress, MarkedOnce
  <1>9. GivenBack' /\ Underway' /\ Locals'
    BY <1>1 DEF GivenBack, Underway, Locals, RollingBack, Resuming
  <1> QED BY <1>5, <1>6, <1>7, <1>8, <1>9

LEMMA RulesWithdraw ==
  ASSUME Known, RulesInv, WithdrawRule PROVE RulesInv'
  <1> USE DEF RulesInv
  <1>1. PICK k \in todo : \E o \in Reached(k) :
          /\ sacl[o] = cfg.snaps[k].applied
          /\ sacl' = [sacl EXCEPT ![o] = cfg.snaps[k].orig]
          /\ owned' = owned \ {o} /\ cur' = k
    BY DEF WithdrawRule
  <1>2. sacl' = [sacl EXCEPT ![k] = cfg.snaps[k].orig] /\ owned' = owned \ {k} /\ cur' = k
    BY <1>1, ReachedIsItself DEF WithdrawRule
  <1>3. /\ UNCHANGED <<there, gone, disk, active, bnd, mem, service, op, stage, restoring, cfg,
                       todo, deferred, done, failed>>
        /\ pc = "withdraw" /\ pc' = "settle"
    BY DEF WithdrawRule, Goto, KeepLocals, world, engine
  <1>4. \A o \in owned' : o \in owned /\ o \in Objects /\ sacl'[o] = sacl[o]
    BY <1>2 DEF Known, TypeInv, TypeOK
  <1>5. stage \notin {"run", "giveback", "goIdle"}
    BY <1>3, StageOf
  <1>6. Standing' /\ RulesAreJournalled' /\ RuleInHand'
    BY <1>2, <1>3, <1>4 DEF Standing, Present, RulesAreJournalled, RuleInHand, Backs, Undoes
  <1>7. RuleInMemory'
    BY <1>3, <1>4 DEF RuleInMemory, Exposed, Backs, Undoes, Confirmed
  <1>8. Copied' /\ HeldAlone' /\ OutOfReach'
    BY <1>3 DEF Copied, HeldAlone, Alone, Records, OutOfReach
  <1>9. Undone' /\ MarkedOnce'
    BY <1>3, <1>5 DEF Undone, Records, InProgress, MarkedOnce
  <1>10. GivenBack' /\ Underway' /\ Locals'
    BY <1>2, <1>3 DEF GivenBack, Underway, Locals, RollingBack, Resuming
  <1> QED BY <1>6, <1>7, <1>8, <1>9, <1>10

LEMMA RulesSettle == ASSUME Known, RulesInv, SettleWithdrawal PROVE RulesInv'
  <1>1. /\ UNCHANGED <<sacl, owned, there, gone, active, bnd, mem, service, op, stage, restoring,
                       deferred, done>>
        /\ pc = "settle"
    BY DEF SettleWithdrawal, KeepLocals, machine, world, engine
  <1>2. cur \in Objects /\ cur \notin owned
    BY <1>1 DEF Known, TypeInv, Shape, Records, RulesInv, Underway
  <1>3. CASE Forgets(cur)
    BY <1>1, <1>2, <1>3, RulesForget
  <1>4. CASE ~Forgets(cur)
    <2> USE DEF RulesInv
    <2>1. /\ UNCHANGED <<disk, cfg>> /\ failed' /\ todo' = todo \ {cur} /\ pc' = "withdraw"
      BY <1>4 DEF SettleWithdrawal, Goto
    <2>2. stage \notin {"run", "giveback", "goIdle"}
      BY <1>1, StageOf
    <2>3. Standing' /\ RulesAreJournalled' /\ RuleInHand'
      BY <1>1, <2>1 DEF Standing, Present, RulesAreJournalled, RuleInHand, Backs, Undoes
    <2>4. RuleInMemory' /\ Copied' /\ HeldAlone' /\ OutOfReach'
      BY <1>1, <2>1 DEF RuleInMemory, Exposed, Backs, Undoes, Confirmed, Copied, HeldAlone, Alone,
                        Records, OutOfReach
    <2>5. Undone' /\ MarkedOnce'
      BY <1>1, <2>1, <2>2 DEF Undone, MarkedOnce
    <2>6. GivenBack' /\ Underway' /\ Locals'
      BY <1>1, <1>2, <2>1 DEF GivenBack, Underway, Locals, RollingBack, Resuming
    <2> QED BY <2>3, <2>4, <2>5, <2>6
  <1> QED BY <1>3, <1>4

\* A record is dropped when the folder no longer carries what it says, or is gone.
LEMMA RulesDrop == ASSUME Known, RulesInv, DropRecord PROVE RulesInv'
  <1>1. PICK k \in todo :
          /\ \/ \E o \in Reached(k) : sacl[o] # cfg.snaps[k].applied
             \/ Reached(k) = {} /\ Vol[k] \in there
          /\ Forgets(k)
    BY DEF DropRecord
  <1>2. /\ UNCHANGED <<sacl, owned, there, gone, active, bnd, mem, service, op, stage, restoring,
                       deferred, done>>
        /\ pc = "withdraw" /\ k \in Objects
    BY DEF DropRecord, KeepLocals, machine, world, engine, Known, TypeInv, TypeOK
  <1>3. k \notin owned
    <2>1. CASE \E o \in Reached(k) : sacl[o] # cfg.snaps[k].applied
      BY <1>2, <2>1, ReachedIsItself DEF RulesInv, RuleInHand, Backs, Undoes
    <2>2. CASE Reached(k) = {} /\ Vol[k] \in there
      BY <2>2 DEF Reached, Present, RulesInv, Standing
    <2> QED BY <1>1, <2>1, <2>2
  <1> QED BY <1>1, <1>2, <1>3, RulesForget

\* A record that is put off, or that an error leaves, is of a volume that is
\* out or keeps its operation from going on; a rollback meets neither.
LEMMA RulesKept == ASSUME NoGaps, Known, RulesInv, DeferRecord \/ WithdrawFails PROVE RulesInv'
  <1> USE DEF RulesInv
  <1>1. PICK k \in todo :
          /\ todo' = todo \ {k}
          /\ \/ /\ Reached(k) = {} /\ Vol[k] \notin there /\ failed' = failed
                /\ deferred' = IF RollingBack THEN deferred ELSE deferred \cup {k}
             \/ failed' /\ ~RollingBack /\ deferred' = deferred
    BY DEF DeferRecord, WithdrawFails, NoGaps, Unconfirmed
  <1>2. /\ UNCHANGED <<sacl, owned, there, gone, disk, active, bnd, mem, service, op, stage, pc,
                       restoring, cfg, done, cur>>
        /\ pc = "withdraw"
    BY DEF DeferRecord, WithdrawFails, KeepLocals, machine, world, engine
  <1>3. ~RollingBack
    <2>1. ASSUME RollingBack PROVE FALSE
      <3>1. k \in bnd.live
        BY <2>1 DEF GivenBack, Locals
      <3>2. Vol[k] \in there
        BY <3>1 DEF Standing, Present
      <3> QED BY <1>1, <2>1, <3>2
    <2> QED BY <2>1
  <1>4. stage \notin {"run", "giveback", "goIdle"}
    BY <1>2, StageOf
  <1>5. Standing' /\ RulesAreJournalled' /\ RuleInHand'
    BY <1>2 DEF Standing, Present, RulesAreJournalled, RuleInHand, Backs, Undoes
  <1>6. RuleInMemory' /\ Copied' /\ HeldAlone'
    BY <1>2 DEF RuleInMemory, Exposed, Backs, Undoes, Confirmed, Copied, HeldAlone, Alone, Records
  <1>7. OutOfReach'
    BY <1>1, <1>2 DEF OutOfReach, Standing, Present
  <1>8. Undone' /\ MarkedOnce'
    BY <1>1, <1>2, <1>3, <1>4 DEF Undone, Records, InProgress, MarkedOnce
  <1>9. GivenBack' /\ Underway' /\ Locals'
    BY <1>1, <1>2, <1>3 DEF GivenBack, Underway, Locals, RollingBack, Resuming
  <1> QED BY <1>5, <1>6, <1>7, <1>8, <1>9

LEMMA RulesWithdrawn == ASSUME Known, RulesInv, Withdrawn PROVE RulesInv'
  <1>1. /\ UNCHANGED <<sacl, owned, there, gone, disk, active, bnd, mem, service, op, stage,
                       restoring, cfg, todo, deferred, done, cur, failed>>
        /\ pc = "withdraw" /\ todo = {} /\ pc' \in {"restore", "begin", "failed"}
        /\ pc' = "begin" => ~failed
    BY DEF Withdrawn, KeepLocals, Goto, machine, world
  <1>2. stage # "run"
    BY <1>1, StageOf
  <1>3. done # {} => RollingBack
    BY <1>1, <1>2 DEF RulesInv, Locals
  <1> QED BY <1>1, <1>3, RulesSteady

LEMMA RulesUndo ==
  ASSUME NoGaps, Known, RulesInv,
         \/ WithdrawRule \/ SettleWithdrawal \/ DropRecord \/ DeferRecord
         \/ WithdrawFails \/ Withdrawn
  PROVE  RulesInv'
  BY RulesWithdraw, RulesSettle, RulesDrop, RulesKept, RulesWithdrawn
-----------------------------------------------------------------------------
(***************************************************************************)
(* The policy steps touch no rule and no record of one.                    *)
(***************************************************************************)
LEMMA ResumeGoesOn ==
  ASSUME NEW err
  PROVE  /\ Resume(err) \notin {"idle", "bind", "settle", "add", "confirm"}
         /\ Resume(err) = "begin" => stage = "start" /\ ~err
  BY DEF Resume

LEMMA RulesRestore ==
  ASSUME Known, RulesInv,
         NothingToRestore \/ RestorePolicy \/ RestorePolicyFails \/ ForgetPolicy
  PROVE  RulesInv'
  <1>1. /\ UNCHANGED <<sacl, owned, there, gone, active, bnd, mem, service, op, stage, restoring,
                       todo, deferred, done, cur>>
        /\ pc \in {"restore", "forget"}
    BY DEF NothingToRestore, RestorePolicy, RestorePolicyFails, ForgetPolicy, Restoring,
           KeepLocals, machine, world, engine, work
  <1>2. \/ pc' = "forget" /\ failed' = failed
        \/ pc' = Resume(failed') /\ (failed => failed')
    <2>1. failed \in BOOLEAN
      BY DEF Known, TypeInv, TypeOK
    <2> QED BY <2>1 DEF NothingToRestore, RestorePolicy, RestorePolicyFails, ForgetPolicy, Goto
  <1>3. cfg'.snaps = cfg.snaps /\ disk'.snaps \in {disk.snaps, cfg.snaps}
    <2>1. cfg' \in {cfg, [cfg EXCEPT !.pol = None]} /\ disk' \in {disk, [cfg EXCEPT !.pol = None]}
      BY DEF NothingToRestore, RestorePolicy, RestorePolicyFails, ForgetPolicy, Restoring, Save,
             SaveFails
    <2> QED BY <2>1 DEF Known, TypeInv, TypeOK, Config
  <1>4. /\ pc' \notin {"idle", "bind", "settle", "add", "confirm"} /\ (failed => failed')
        /\ pc' = "begin" => ~failed'
    BY <1>2, ResumeGoesOn
  <1>5. todo = {} /\ (done # {} => RollingBack)
    BY <1>1 DEF RulesInv, Locals
  <1> QED BY <1>1, <1>3, <1>4, <1>5, RulesSteady

LEMMA RulesEnsure ==
  ASSUME Known, RulesInv, EnsurePolicy \/ EnablePolicy \/ ConfirmPolicy PROVE RulesInv'
  <1>1. /\ UNCHANGED <<sacl, owned, there, gone, active, bnd, mem, service, op, stage, restoring,
                       todo, deferred, done, cur>>
        /\ pc \in {"ensure", "enable", "confirmPolicy", "notePolicy"}
        /\ pc' \in {"enable", "confirmPolicy", "notePolicy", "mark", "failed"}
        /\ failed => failed'
    BY DEF EnsurePolicy, EnablePolicy, ConfirmPolicy, Ensuring, KeepAll, Goto, world, engine
  <1>2. cfg'.snaps = cfg.snaps /\ disk'.snaps \in {disk.snaps, cfg.snaps}
    <2>1. /\ disk' \in {disk, cfg'}
          /\ \/ cfg' \in {cfg, [cfg EXCEPT !.pol.phase = "applied"]}
             \/ \E r : cfg' = [cfg EXCEPT !.pol = r]
      BY DEF EnsurePolicy, EnablePolicy, ConfirmPolicy, Save, SaveFails
    <2> QED BY <2>1 DEF Known, TypeInv, TypeOK, Config
  <1>3. todo = {} /\ done = {}
    BY <1>1, StageOf DEF RulesInv, Locals, RollingBack
  <1> QED BY <1>1, <1>2, <1>3, RulesSteady
-----------------------------------------------------------------------------
(***************************************************************************)
(* Marking the folders, and giving the marks back.                         *)
(***************************************************************************)

\* A rollback begins with what was marked, which covers everything that is
\* ReadWatch's but what was put off.
LEMMA RulesRollBack ==
  ASSUME Known, RulesInv, NEW kind \in {"rollback", "rollbackOff"}, NEW c \in Config,
         RollBack(kind, c), cfg' = c,
         UNCHANGED <<sacl, owned, there, gone, active, mem, service, op, restoring, deferred>>,
         disk'.snaps \in {disk.snaps, c.snaps},
         pc \in {"mark", "add", "commit", "launch"},
         \A o \in owned : c.snaps[o] = cfg.snaps[o]
  PROVE  RulesInv'
  <1> USE DEF RulesInv
  <1>1. /\ UNCHANGED <<bnd, done>> /\ RollingBack' /\ pc' = "withdraw" /\ failed'
        /\ todo' = done \cap Records(c) /\ stage' \in {"rollback", "rollbackOff"}
    BY DEF RollBack, Goto, RollingBack
  <1>2. owned \subseteq Records(c) /\ owned \subseteq Records(cfg)
    BY DEF RuleInHand, Backs, Undoes, Records, Known, TypeInv, TypeOK
  <1>3. ~restoring => owned \subseteq deferred \cup done
    BY <1>2, StageOf DEF Undone, InProgress, Underway
  <1>4. Standing' /\ RulesAreJournalled' /\ RuleInHand'
    BY <1>1 DEF Standing, Present, RulesAreJournalled, RuleInHand, Backs, Undoes
  <1>5. RuleInMemory'
    BY <1>1 DEF RuleInMemory, Exposed, Backs, Undoes, Confirmed
  <1>6. Copied' /\ HeldAlone' /\ OutOfReach' /\ Undone' /\ MarkedOnce'
    BY <1>1 DEF Copied, HeldAlone, Alone, Records, OutOfReach, Undone, MarkedOnce
  <1>7. GivenBack'
    BY <1>1, <1>2, <1>3 DEF GivenBack
  <1>8. Underway' /\ Locals'
    BY <1>1 DEF Underway, Locals
  <1> QED BY <1>4, <1>5, <1>6, <1>7, <1>8

LEMMA RulesAlready == ASSUME Known, RulesInv, AlreadyMarked PROVE RulesInv'
  <1> USE DEF RulesInv
  <1>1. /\ UNCHANGED <<sacl, owned, there, gone, disk, active, bnd, mem, service, op, stage, pc,
                       restoring, cfg, todo, deferred, cur, failed>>
        /\ pc = "mark" /\ stage = "run" /\ done \subseteq done' /\ done' \subseteq bnd.live
    BY StageOf DEF AlreadyMarked, Marking, KeepAll, world, engine, Locals
  <1>2. Standing' /\ RulesAreJournalled' /\ RuleInHand'
    BY <1>1 DEF Standing, Present, RulesAreJournalled, RuleInHand, Backs, Undoes
  <1>3. RuleInMemory' /\ Copied' /\ HeldAlone' /\ OutOfReach'
    BY <1>1 DEF RuleInMemory, Exposed, Backs, Undoes, Confirmed, Copied, HeldAlone, Alone, Records,
                OutOfReach
  <1>4. Undone' /\ MarkedOnce'
    BY <1>1 DEF Undone, Records, InProgress, MarkedOnce, Confirmed
  <1>5. GivenBack' /\ Underway' /\ Locals'
    BY <1>1 DEF GivenBack, Underway, Locals, RollingBack, Resuming
  <1> QED BY <1>2, <1>3, <1>4, <1>5

\* A record is only prepared for a folder that does not carry ReadWatch's rule.
LEMMA PreparedIsNotOwned ==
  ASSUME Known, RulesInv, pc = "mark", NEW o \in bnd.live,
         Marked(o) => sacl[o] = cfg.snaps[o].orig /\ sacl[o] # cfg.snaps[o].applied
  PROVE  o \notin owned
  <1>1. stage = "run"
    BY StageOf
  <1>2. o \in owned => Confirmed(cfg.snaps[o]) /\ Backs(cfg.snaps[o], o)
    BY <1>1 DEF RulesInv, MarkedOnce, InProgress, RuleInHand
  <1> QED BY <1>2 DEF Confirmed, Backs, Undoes, Marked

LEMMA RulesPrepare == ASSUME Known, RulesInv, PrepareMark PROVE RulesInv'
  <1> USE DEF RulesInv
  <1>1. PICK o \in bnd.live \ done :
          /\ Marked(o) => sacl[o] = cfg.snaps[o].orig /\ sacl[o] # cfg.snaps[o].applied
          /\ LET c == [cfg EXCEPT !.snaps[o] = Intent(o)] IN
             \/ /\ cfg' = c /\ Save(c) /\ cur' = o /\ Goto("add")
                /\ UNCHANGED <<stage, todo, failed, done, bnd>>
             \/ SaveFails /\ cfg' = Dropped(cfg, o) /\ RollBack("rollback", cfg')
    BY DEF PrepareMark
  <1>2. /\ UNCHANGED <<sacl, owned, there, gone, active, mem, service, op, restoring, deferred>>
        /\ pc = "mark" /\ stage = "run"
    BY StageOf DEF PrepareMark, Marking, KeepAll, world, engine
  <1>3. o \notin owned
    BY <1>1, <1>2, PreparedIsNotOwned
  <1>4. /\ o \in Objects /\ o \in bnd.att /\ owned \subseteq Objects \ {o}
        /\ cfg \in Config
    BY <1>3 DEF Known, TypeInv, TypeOK, Bound, AuthorityInv, Proper
  <1>5. CASE SaveFails /\ cfg' = Dropped(cfg, o) /\ RollBack("rollback", cfg')
    <2>1. /\ Dropped(cfg, o) \in Config /\ \A x \in owned : Dropped(cfg, o).snaps[x] = cfg.snaps[x]
      BY <1>4, SnapType DEF Dropped
    <2>2. disk' = disk
      BY <1>5 DEF SaveFails
    <2> QED BY <1>2, <1>5, <2>1, <2>2, RulesRollBack
  <1>6. CASE /\ cfg' = [cfg EXCEPT !.snaps[o] = Intent(o)] /\ Save([cfg EXCEPT !.snaps[o] = Intent(o)])
             /\ cur' = o /\ Goto("add") /\ UNCHANGED <<stage, todo, failed, done, bnd>>
    <2>1. Intent(o) \in Record(Aces) /\ Intent(o) # None
      BY <1>4, IntentType DEF Known, TypeInv
    <2>2. /\ disk' = cfg' /\ pc' = "add" /\ cfg'.snaps[o] = Intent(o)
          /\ \A x \in Objects \ {o} : cfg'.snaps[x] = cfg.snaps[x]
      BY <1>4, <1>6, <2>1, SnapType DEF Save, Goto
    <2>3. /\ Records(cfg)' = Records(cfg) \cup {o}
          /\ cfg'.snaps[o].orig = sacl[o] /\ cfg'.snaps[o].applied = sacl[o] \cup {"rule"}
      BY <1>1, <1>4, <2>1, <2>2 DEF Records, Intent
    <2>4. Standing' /\ RulesAreJournalled' /\ RuleInHand'
      BY <1>2, <1>4, <1>6, <2>2 DEF Standing, Present, RulesAreJournalled, RuleInHand, Backs, Undoes
    <2>5. RuleInMemory' /\ Copied' /\ OutOfReach'
      BY <1>2, <1>6, <2>2 DEF RuleInMemory, Exposed, Backs, Undoes, Confirmed, Copied, OutOfReach
    <2>6. HeldAlone'
      <3>1. \A x \in bnd.live : Home[x] = Home[o] => x = o
        BY <1>4 DEF Known, AuthorityInv, Proper
      <3>2. Alone(mem, active)'
        BY <1>2 DEF HeldAlone, Alone, Records
      <3>3. Alone(cfg, bnd)'
        BY <1>2, <1>6, <2>3, <3>1 DEF HeldAlone, Alone
      <3> QED BY <3>2, <3>3 DEF HeldAlone
    <2>7. Undone' /\ MarkedOnce'
      BY <1>2, <1>4, <1>6, <2>2, <2>3 DEF Undone, InProgress, MarkedOnce, Confirmed
    <2>8. GivenBack' /\ Underway' /\ Locals'
      BY <1>2, <1>3, <1>4, <1>6, <2>2, <2>3 DEF GivenBack, Underway, Locals, RollingBack
    <2> QED BY <2>4, <2>5, <2>6, <2>7, <2>8
  <1> QED BY <1>1, <1>5, <1>6

\* The rule is added where the file says it will be, and not where it already is.
LEMMA RulesAdd == ASSUME Known, RulesInv, AddRule PROVE RulesInv'
  <1> USE DEF RulesInv
  <1>1. /\ UNCHANGED <<there, gone, disk, active, mem, service, op, restoring, cfg, deferred>>
        /\ pc = "add" /\ stage = "run"
    BY StageOf DEF AddRule, Marking, KeepAll, world, engine
  <1>2. CASE RollBack("rollback", cfg) /\ UNCHANGED <<sacl, owned>>
    BY <1>1, <1>2, RulesRollBack DEF Known, TypeInv, TypeOK
  <1>3. CASE /\ cur \in bnd.live /\ sacl' = [sacl EXCEPT ![cur] = @ \cup {"rule"}]
             /\ owned' = (IF "rule" \in sacl[cur] THEN owned ELSE owned \cup {cur})
             /\ Goto("confirm") /\ UNCHANGED <<stage, bnd, todo, done, cur, failed>>
    <2>1. /\ cur \in Objects /\ cur \notin owned /\ owned \subseteq Objects /\ pc' = "confirm"
          /\ cfg.snaps[cur] # None /\ disk.snaps[cur] = cfg.snaps[cur]
          /\ cfg.snaps[cur].orig = sacl[cur] /\ cfg.snaps[cur].applied = sacl[cur] \cup {"rule"}
      BY <1>1, <1>3 DEF Underway, Goto, Known, TypeInv, TypeOK, Shape, Records
    <2>2. /\ sacl'[cur] = sacl[cur] \cup {"rule"} /\ \A o \in owned : sacl'[o] = sacl[o]
          /\ owned' \subseteq owned \cup {cur} /\ (cur \in owned' => "rule" \notin sacl[cur])
      BY <1>3, <2>1 DEF Known, TypeInv, TypeOK
    <2>3. Standing'
      BY <1>1, <1>3, <2>2 DEF Standing, Present
    <2>4. RulesAreJournalled' /\ RuleInHand'
      BY <1>1, <2>1, <2>2 DEF RulesAreJournalled, RuleInHand, Backs, Undoes
    <2>5. RuleInMemory'
      BY <1>1, <1>3, <2>1, <2>2 DEF RuleInMemory, Exposed, Backs, Undoes, Confirmed
    <2>6. Copied' /\ HeldAlone' /\ OutOfReach'
      BY <1>1, <1>3, <2>1 DEF Copied, HeldAlone, Alone, Records, OutOfReach
    <2>7. Undone' /\ MarkedOnce'
      BY <1>1, <1>3, <2>1, <2>2 DEF Undone, Records, InProgress, MarkedOnce, Confirmed
    <2>8. GivenBack' /\ Underway' /\ Locals'
      BY <1>1, <1>3, <2>1, <2>2 DEF GivenBack, Underway, Locals, RollingBack
    <2> QED BY <2>3, <2>4, <2>5, <2>6, <2>7, <2>8
  <1> QED BY <1>2, <1>3 DEF AddRule

\* Nothing can come between the rule and its confirmation: the handle is held,
\* and the windows of the code are left out.
LEMMA RulesConfirm == ASSUME NoGaps, Known, RulesInv, ConfirmMark PROVE RulesInv'
  <1> USE DEF RulesInv
  <1>1. /\ UNCHANGED <<sacl, owned, there, gone, active, mem, service, op, restoring, deferred>>
        /\ pc = "confirm" /\ stage = "run" /\ cur \in bnd.live /\ sacl[cur] = cfg.snaps[cur].applied
    BY StageOf DEF ConfirmMark, Marking, KeepAll, world, engine, Underway
  <1>2. /\ cfg' = [cfg EXCEPT !.snaps[cur].phase = "applied"] /\ disk' = cfg' /\ pc' = "mark"
        /\ done' = done \cup {cur} /\ UNCHANGED <<stage, bnd, todo, failed>>
    BY <1>1 DEF ConfirmMark, Goto, Save, NoGaps, Unconfirmed
  <1>3. cur \in Records(cfg) /\ cur \in Objects /\ cfg \in Config
    BY <1>1 DEF Known, TypeInv, TypeOK, Shape, Records
  <1>4. Records(cfg)' = Records(cfg)
    BY <1>2, <1>3, ConfirmSnapType
  <1>5. /\ \A o \in Objects \ {cur} : cfg'.snaps[o] = cfg.snaps[o]
        /\ cfg'.snaps[cur] = [cfg.snaps[cur] EXCEPT !.phase = "applied"]
    BY <1>2, <1>3 DEF Config
  <1>6. cfg.snaps[cur] \in Record(Aces) /\ cfg'.snaps[cur] # None
    BY <1>3, <1>4 DEF Config, Records
  <1>7. /\ cfg'.snaps[cur].orig = cfg.snaps[cur].orig
        /\ cfg'.snaps[cur].applied = cfg.snaps[cur].applied
        /\ Confirmed(cfg'.snaps[cur])
    BY <1>5, <1>6 DEF Record, Confirmed
  <1>8. owned \subseteq Objects
    BY DEF Known, TypeInv, TypeOK
  <1>9. RuleInHand'
    BY <1>1, <1>5, <1>6, <1>7, <1>8 DEF RuleInHand, Backs, Undoes
  <1>10. Standing' /\ RulesAreJournalled'
    BY <1>1, <1>2, <1>9 DEF Standing, Present, RulesAreJournalled, RuleInHand, Backs
  <1>11. RuleInMemory' /\ Copied' /\ HeldAlone' /\ OutOfReach'
    BY <1>1, <1>2, <1>4 DEF RuleInMemory, Exposed, Backs, Undoes, Confirmed, Copied, HeldAlone, Alone,
                            Records, OutOfReach
  <1>12. Undone'
    BY <1>1, <1>2, <1>4 DEF Undone, InProgress
  <1>13. MarkedOnce'
    BY <1>1, <1>2, <1>5, <1>7, <1>8 DEF MarkedOnce, InProgress
  <1>14. GivenBack' /\ Underway' /\ Locals'
    BY <1>1, <1>2 DEF GivenBack, Underway, Locals, RollingBack
  <1> QED BY <1>9, <1>10, <1>11, <1>12, <1>13, <1>14

LEMMA RulesMark ==
  ASSUME NoGaps, Known, RulesInv,
         AlreadyMarked \/ PrepareMark \/ MarkRefused \/ AddRule \/ ConfirmMark
  PROVE  RulesInv'
  <1>1. CASE MarkRefused
    <2>1. /\ RollBack("rollback", cfg) /\ pc = "mark"
          /\ UNCHANGED <<sacl, owned, there, gone, active, mem, service, op, restoring, deferred, disk,
                         cfg>>
      BY <1>1 DEF MarkRefused, Marking, KeepAll, world, engine
    <2> QED BY <2>1, RulesRollBack DEF Known, TypeInv, TypeOK
  <1> QED BY <1>1, RulesAlready, RulesPrepare, RulesAdd, RulesConfirm
-----------------------------------------------------------------------------
(***************************************************************************)
(* Where an operation begins to run, commits, fails and ends.              *)
(***************************************************************************)

\* What is bound anew has no records left, so nothing stands between a record
\* and its folder when the marking begins.
LEMMA RulesBeginRun == ASSUME OneVolumePerPath, Known, RulesInv, BeginRun PROVE RulesInv'
  <1> USE DEF RulesInv
  <1>1. /\ UNCHANGED <<sacl, owned, there, gone, disk, mem, active, service>> /\ pc = "begin"
        /\ done = {} /\ Exposed = {} /\ todo = {} /\ ~failed
        /\ stage \in {"start", "swap", "run"}
    BY NothingDone, StageOf DEF BeginRun, machine, world, Locals
  <1>2. CASE Finish("ok") \/ Finish("error")
    BY <1>1, <1>2, RulesReturned
  <1>3. CASE ~(Finish("ok") \/ Finish("error"))
    <2>1. /\ UNCHANGED <<op, cfg, bnd, todo, deferred, done, cur, failed, restoring>>
          /\ pc' \in {"restore", "ensure"} /\ stage' \in {"goIdle", "giveback", "run"}
      BY <1>3 DEF BeginRun, Goto, work
    <2>2. stage # "run" => Records(cfg) \subseteq deferred
      BY <1>1 DEF Undone, InProgress
    <2>3. Alone(cfg, bnd)
      <3>1. CASE stage = "run"
        BY <3>1 DEF HeldAlone
      <3>2. CASE stage # "run"
        <4> SUFFICES ASSUME NEW k \in Records(cfg), NEW o \in bnd.live, Home[o] = Home[k]
                     PROVE  FALSE
          BY DEF Alone
        <4>1. k \in Objects /\ o \in Objects
          BY DEF Records, Known, TypeInv, TypeOK, Bound
        <4>2. Vol[o] = Vol[k]
          BY <4>1 DEF OneVolumePerPath
        <4> QED BY <2>2, <3>2, <4>2 DEF OutOfReach
      <3> QED BY <3>1, <3>2
    <2>4. \A o \in owned \cap bnd.live : Confirmed(cfg.snaps[o])
      <3>1. CASE stage = "run"
        BY <1>1, <3>1 DEF MarkedOnce, InProgress
      <3>2. CASE stage # "run"
        <4>1. owned \subseteq deferred
          BY <1>1, <2>2, <3>2 DEF RuleInHand, Backs, Undoes, Records, Known, TypeInv, TypeOK
        <4> QED BY <4>1 DEF OutOfReach
      <3> QED BY <3>1, <3>2
    <2>5. Standing' /\ RulesAreJournalled' /\ RuleInHand'
      BY <1>1, <2>1 DEF Standing, Present, RulesAreJournalled, RuleInHand, Backs, Undoes
    <2>6. RuleInMemory' /\ Copied'
      BY <1>1, <2>1 DEF RuleInMemory, Exposed, Backs, Undoes, Confirmed, Copied
    <2>7. HeldAlone' /\ OutOfReach'
      BY <1>1, <2>1, <2>3 DEF HeldAlone, Alone, Records, OutOfReach
    <2>8. Undone'
      <3>1. ~restoring => Records(cfg) \subseteq deferred
        BY <1>1, <2>2 DEF Undone, InProgress
      <3> QED BY <2>1, <3>1 DEF Undone, Records
    <2>9. MarkedOnce'
      BY <1>1, <2>1, <2>4 DEF MarkedOnce, Confirmed
    <2>10. GivenBack' /\ Underway' /\ Locals'
      BY <1>1, <2>1 DEF GivenBack, Underway, Locals, RollingBack
    <2> QED BY <2>5, <2>6, <2>7, <2>8, <2>9, <2>10
  <1> QED BY <1>2, <1>3

LEMMA RulesCommit == ASSUME Known, RulesInv, Commit \/ LaunchFails \/ Disable PROVE RulesInv'
  <1>1. CASE Commit
    <2> DEFINE c == [Adopt(cfg, bnd) EXCEPT !.enabled = TRUE]
    <2>1. c \in Config /\ c.snaps = cfg.snaps
      BY AdoptType DEF Known, TypeInv, TypeOK
    <2>2. /\ UNCHANGED <<sacl, owned, there, gone, active, mem, service, op, restoring, deferred>>
          /\ pc \in {"commit", "mark"} /\ cfg' = c
      BY <1>1 DEF Commit, KeepAll, machine, world, engine
    <2>3. CASE SaveFails /\ RollBack("rollback", c)
      BY <2>1, <2>2, <2>3, RulesRollBack DEF SaveFails
    <2>4. CASE Save(c) /\ Goto("launch") /\ UNCHANGED <<stage, bnd, todo, done, cur, failed>>
      <3>1. todo = {} /\ (done # {} => RollingBack \/ stage = "run")
        BY <2>2 DEF RulesInv, Locals
      <3>2. pc' = "launch" /\ disk' = c
        BY <2>4 DEF Save, Goto
      <3> QED BY <2>1, <2>2, <2>4, <3>1, <3>2, RulesSteady
    <2> QED BY <1>1, <2>3, <2>4 DEF Commit
  <1>2. CASE LaunchFails
    <2>1. PICK kind \in {"rollback", "rollbackOff"} : RollBack(kind, cfg)
      BY <1>2 DEF LaunchFails
    <2>2. /\ UNCHANGED <<sacl, owned, there, gone, active, mem, service, op, restoring, deferred, disk,
                         cfg>>
          /\ pc = "launch"
      BY <1>2 DEF LaunchFails, KeepAll, machine, world, engine
    <2> QED BY <2>1, <2>2, RulesRollBack DEF Known, TypeInv, TypeOK
  <1>3. CASE Disable
    <2>1. /\ UNCHANGED <<sacl, owned, there, gone, active, bnd, mem, service, op, stage, restoring,
                         todo, deferred, done, cur, failed>>
          /\ pc = "disable" /\ pc' = "failed" /\ disk' \in {disk, cfg'}
      BY <1>3 DEF Disable, KeepLocals, Goto, Save, SaveFails, machine, world, engine, work
    <2>2. cfg'.snaps = cfg.snaps
      BY <1>3 DEF Disable, Known, TypeInv, TypeOK, Config
    <2>3. todo = {} /\ RollingBack
      BY <2>1, StageOf DEF RulesInv, Locals, RollingBack
    <2> QED BY <2>1, <2>2, <2>3, RulesSteady
  <1> QED BY <1>1, <1>2, <1>3

\* The engine takes over what was marked and the handles it was marked through.
LEMMA RulesLaunch == ASSUME Known, RulesInv, Launch PROVE RulesInv'
  <1>1. /\ UNCHANGED <<sacl, owned, there, gone, disk>> /\ mem' = cfg /\ active' = bnd
        /\ pc = "launch" /\ stage \in {"run", "giveback"}
        /\ \E res : Finish(res)
    BY StageOf DEF Launch, machine, world
  <1>2. \A o \in active'.live : Present(o)
    BY <1>1 DEF RulesInv, Standing
  <1>3. Alone(mem', active')
    BY <1>1 DEF RulesInv, HeldAlone
  <1>4. \A o \in owned \cap active'.live : Confirmed(cfg.snaps[o])
    BY <1>1 DEF RulesInv, MarkedOnce, InProgress
  <1> QED BY <1>1, <1>2, <1>3, <1>4, RulesTaken

\* A change that failed has put nothing of its own out of the reach of the old
\* configuration: what is still ReadWatch's was put off, or is held.
LEMMA RulesFailed == ASSUME Known, RulesInv, Failed PROVE RulesInv'
  <1> USE DEF RulesInv
  <1>1. /\ UNCHANGED <<sacl, owned, there, gone, disk, mem, active, service>> /\ pc = "failed"
        /\ service # "down" /\ todo = {} /\ (stage = "start" => Resuming)
        /\ stage \in {"start", "swap", "run", "giveback", "rollback", "rollbackOff"}
    BY StageOf DEF Failed, machine, world, Locals, Known, PolicyInv, Course
  <1>2. done # {} => RollingBack
    BY <1>1 DEF Locals
  <1>3. owned \cap Exposed = {}
    BY <1>1, <1>2 DEF Exposed, GivenBack
  <1>4. CASE Finish("error")
    BY <1>1, <1>3, <1>4, RulesReturned
  <1>5. CASE ~Finish("error")
    <2>1. /\ ~restoring /\ ~Resuming /\ restoring' /\ ~failed' /\ pc' = "begin" /\ stage' = "run"
          /\ cfg' = OldConfig /\ done' = {} /\ todo' = {} /\ UNCHANGED <<deferred, op>>
      BY <1>5 DEF Failed, Goto, Resuming
    <2>2. bnd'.live = active.live
      <3>1. PICK mech \in Choices(active.mode) : bnd' = [active EXCEPT !.mech = mech]
        BY <1>5 DEF Failed
      <3> QED BY <3>1 DEF Known, TypeInv, TypeOK, Bound
    <2>3. \A o \in Objects : cfg'.snaps[o] \in {None, mem.snaps[o]}
      <3>1. CASE stage = "swap"
        BY <2>1, <3>1 DEF OldConfig, Copied
      <3>2. CASE stage # "swap"
        BY <2>1, <3>2 DEF OldConfig, Known, TypeInv, TypeOK, Config
      <3> QED BY <3>1, <3>2
    <2>4. \A o \in owned : Backs(cfg'.snaps[o], o)
      <3>1. CASE stage = "swap"
        BY <1>1, <2>1, <3>1 DEF OldConfig, RuleInHand
      <3>2. CASE stage # "swap"
        <4>1. owned \subseteq deferred
          <5>1. CASE RollingBack
            BY <1>1, <2>1, <5>1 DEF GivenBack
          <5>2. CASE ~RollingBack
            <6>1. stage \in {"run", "giveback"} /\ done = {}
              BY <1>1, <1>2, <2>1, <3>2, <5>2 DEF RollingBack
            <6>2. Records(cfg) \subseteq deferred
              BY <1>1, <2>1, <6>1 DEF Undone, InProgress
            <6> QED BY <1>1, <6>2 DEF RuleInHand, Backs, Undoes, Records, Known, TypeInv, TypeOK
          <5> QED BY <5>1, <5>2
        <4>2. \A o \in deferred : cfg'.snaps[o] = mem.snaps[o]
          BY <2>1, <3>2 DEF OldConfig, Known, TypeInv, TypeOK, Config
        <4>3. \A o \in owned : Backs(mem.snaps[o], o)
          BY <1>1, <1>3 DEF RuleInMemory
        <4> QED BY <4>1, <4>2, <4>3
      <3> QED BY <3>1, <3>2
    <2>5. \A o \in owned \cap active.live : Confirmed(cfg'.snaps[o])
      <3>1. \A o \in owned : o \in Objects /\ cfg'.snaps[o] = mem.snaps[o]
        BY <2>3, <2>4 DEF Backs, Undoes, Known, TypeInv, TypeOK
      <3> QED BY <1>1, <1>3, <3>1 DEF RuleInMemory
    <2>6. Standing' /\ RulesAreJournalled' /\ RuleInHand'
      BY <1>1, <2>2, <2>4 DEF Standing, Present, RulesAreJournalled, RuleInHand, Backs, Undoes
    <2>7. RuleInMemory'
      <3>1. \A o \in owned : Backs(mem.snaps[o], o) /\ (o \in active.live => Confirmed(mem.snaps[o]))
        BY <1>1, <1>3 DEF RuleInMemory
      <3> QED BY <1>1, <3>1 DEF RuleInMemory, Backs, Undoes, Confirmed
    <2>8. HeldAlone' /\ OutOfReach'
      <3>1. Records(cfg') \subseteq Records(mem)
        BY <2>3 DEF Records
      <3> QED BY <1>1, <2>1, <2>2, <3>1 DEF HeldAlone, Alone, Records, OutOfReach
    <2>9. Copied' /\ Undone'
      BY <2>1 DEF Copied, Undone
    <2>10. MarkedOnce'
      BY <1>1, <2>1, <2>2, <2>5 DEF MarkedOnce, Confirmed
    <2>11. GivenBack' /\ Underway' /\ Locals'
      BY <2>1 DEF GivenBack, Underway, Locals, RollingBack
    <2> QED BY <2>6, <2>7, <2>8, <2>9, <2>10, <2>11
  <1> QED BY <1>4, <1>5

LEMMA RulesHelloDone == ASSUME Known, RulesInv, HelloDone PROVE RulesInv'
  <1> USE DEF RulesInv
  <1>1. /\ UNCHANGED <<sacl, owned, there, gone, disk, active, service>> /\ pc = "helloDone"
        /\ stage = "hello" /\ mem' = cfg /\ service # "down" /\ todo = {} /\ done = {}
        /\ owned \cap Exposed = {}
    BY StageOf, NothingDone DEF HelloDone, machine, world, Locals, Known, PolicyInv, Course
  <1>2. \A k \in Objects : cfg.snaps[k] \in {None, mem.snaps[k]}
    BY <1>1 DEF Copied
  <1>3. Alone(mem', active')
    <2>1. Records(cfg) \subseteq Records(mem)
      BY <1>2 DEF Records
    <2> QED BY <1>1, <2>1 DEF HeldAlone, Alone
  <1>4. \A o \in owned : Backs(cfg.snaps[o], o) /\ (o \in active.live => Confirmed(cfg.snaps[o]))
    <2>1. \A o \in owned : cfg.snaps[o] = mem.snaps[o] /\ Backs(cfg.snaps[o], o)
      BY <1>1, <1>2 DEF RuleInHand, Backs, Undoes, Known, TypeInv, TypeOK
    <2> QED BY <1>1, <2>1 DEF RuleInMemory
  <1>5. CASE Finish("ok") \/ Finish("error")
    <2>1. \A o \in active'.live : Present(o)
      BY <1>1 DEF Standing
    <2> QED BY <1>1, <1>3, <1>4, <1>5, <2>1, RulesTaken
  <1>6. CASE ~(Finish("ok") \/ Finish("error"))
    <2>1. /\ pc' = "bind" /\ deferred' = {} /\ bnd'.live = {} /\ ~failed'
          /\ UNCHANGED <<op, stage, cfg, todo, done, cur, restoring>>
      BY <1>6 DEF HelloDone, Goto, Request, NoBound
    <2>2. Standing' /\ RulesAreJournalled' /\ RuleInHand'
      BY <1>1, <2>1 DEF Standing, Present, RulesAreJournalled, RuleInHand, Backs, Undoes
    <2>3. RuleInMemory' /\ Copied'
      BY <1>1, <1>4, <2>1 DEF RuleInMemory, Backs, Undoes, Confirmed, Copied
    <2>4. HeldAlone' /\ OutOfReach' /\ Undone'
      BY <1>1, <1>3, <2>1 DEF HeldAlone, OutOfReach, Undone
    <2>5. MarkedOnce' /\ GivenBack' /\ Underway' /\ Locals'
      BY <1>1, <2>1 DEF MarkedOnce, GivenBack, Underway, Locals, RollingBack
    <2> QED BY <2>2, <2>3, <2>4, <2>5
  <1> QED BY <1>5, <1>6

\* Handles that are released hold nothing to a record.
LEMMA RulesReleased == ASSUME Known, RulesInv, RecordBound \/ StopSave PROVE RulesInv'
  <1>1. /\ UNCHANGED <<sacl, owned, there, gone>> /\ active'.live = {}
        /\ pc \in {"record", "stopSave"} /\ disk' \in {disk, mem'}
        /\ \E res : Finish(res)
    BY DEF RecordBound, StopSave, NoBound, Save, SaveFails, machine, world
  <1>2. mem'.snaps = cfg.snaps
    <2>1. RecordBound => mem'.snaps = cfg.snaps
      BY AdoptType DEF RecordBound, Known, TypeInv, TypeOK
    <2>2. StopSave => mem'.snaps = cfg.snaps
      BY DEF StopSave, Known, TypeInv, TypeOK, Config
    <2> QED BY <2>1, <2>2
  <1>3. Alone(mem', active')
    BY <1>1 DEF Alone
  <1> QED BY <1>1, <1>2, <1>3, RulesTaken
-----------------------------------------------------------------------------
(***************************************************************************)
(* The process and the world.                                              *)
(***************************************************************************)
LEMMA RulesProcess == ASSUME Known, RulesInv, RequestStop \/ Crash \/ Boot PROVE RulesInv'
  <1> USE DEF RulesInv
  <1>1. CASE RequestStop
    <2>1. /\ UNCHANGED <<sacl, owned, there, gone, disk, mem, active, bnd, cfg, pc, op, stage, todo,
                         deferred, done, cur, failed, restoring>>
          /\ service # "down"
      BY <1>1 DEF RequestStop, machine, world, local, work
    <2>2. Standing' /\ RulesAreJournalled' /\ RuleInHand' /\ RuleInMemory'
      BY <2>1 DEF Standing, Present, RulesAreJournalled, RuleInHand, RuleInMemory, Exposed, Backs,
                  Undoes, Confirmed
    <2>3. Copied' /\ HeldAlone' /\ OutOfReach' /\ Undone'
      BY <2>1 DEF Copied, HeldAlone, Alone, Records, OutOfReach, Undone, InProgress
    <2>4. MarkedOnce' /\ GivenBack' /\ Underway' /\ Locals'
      BY <2>1 DEF MarkedOnce, InProgress, Confirmed, GivenBack, RollingBack, Resuming, Underway, Locals
    <2> QED BY <2>2, <2>3, <2>4
  <1>2. CASE Crash
    <2>1. /\ UNCHANGED <<sacl, owned, there, gone, disk>> /\ service' = "down"
          /\ mem'.snaps = [o \in Objects |-> None] /\ active'.live = {} /\ bnd'.live = {}
          /\ pc' = "idle" /\ stage' = "none" /\ done' = {} /\ todo' = {} /\ deferred' = {}
          /\ failed' = FALSE
      BY <1>2 DEF Crash, Finish, BlankConfig, NoBound, machine, world
    <2>2. Standing' /\ RulesAreJournalled' /\ RuleInHand' /\ RuleInMemory'
      BY <2>1 DEF Standing, Present, RulesAreJournalled, RuleInHand, RuleInMemory, Undoes
    <2>3. Copied' /\ HeldAlone' /\ OutOfReach' /\ Undone'
      BY <2>1 DEF Copied, HeldAlone, Alone, OutOfReach, Undone
    <2>4. MarkedOnce' /\ GivenBack' /\ Underway' /\ Locals'
      BY <2>1 DEF MarkedOnce, GivenBack, RollingBack, Underway, Locals
    <2> QED BY <2>2, <2>3, <2>4
  <1>3. CASE Boot
    <2>1. /\ UNCHANGED <<sacl, owned, there, gone, disk, active, bnd, cfg, pc, op, stage, todo,
                         deferred, done, cur, failed, restoring>>
          /\ mem' = disk /\ service = "down"
      BY <1>3 DEF Boot, machine, world, local, work
    <2>2. pc = "idle" /\ stage = "none" /\ active.live = {}
      BY <2>1, StageOf DEF Known, AuthorityInv, Flow, Proper
    <2>3. Standing' /\ RulesAreJournalled' /\ RuleInHand' /\ RuleInMemory'
      BY <2>1, <2>2 DEF Standing, Present, RulesAreJournalled, RuleInHand, RuleInMemory, Backs, Undoes
    <2>4. Copied' /\ HeldAlone' /\ OutOfReach' /\ Undone'
      BY <2>1, <2>2 DEF Copied, HeldAlone, Alone, OutOfReach, Undone
    <2>5. MarkedOnce' /\ GivenBack' /\ Underway' /\ Locals'
      BY <2>1, <2>2 DEF MarkedOnce, GivenBack, RollingBack, Underway, Locals
    <2> QED BY <2>3, <2>4, <2>5
  <1> QED BY <1>1, <1>2, <1>3

\* What is left of the handles is still of folders that are there; what somebody
\* else edits or deletes is not ReadWatch's any more.
LEMMA RulesWorld == ASSUME NoGaps, Known, RulesInv, World PROVE RulesInv'
  <1> USE DEF RulesInv
  <1>1. /\ UNCHANGED <<disk, mem, cfg, service, pc, op, stage, todo, deferred, done, cur, failed,
                       restoring>>
        /\ \A o \in owned' : o \in owned /\ sacl'[o] = sacl[o]
    <2>1. /\ Outside
          /\ UNCHANGED <<owned, sacl>> \/ \E o \in Objects : Delete(o) \/ EditRules(o)
      BY DEF World, Detach, Attach, Reassign, Delete, EditRules, EditPolicy, machine
    <2>2. ASSUME NEW o \in Objects, Delete(o)
          PROVE  \A x \in owned' : x \in owned /\ sacl'[x] = sacl[x]
      BY <2>2 DEF Delete
    <2>3. ASSUME NEW o \in Objects, EditRules(o)
          PROVE  \A x \in owned' : x \in owned /\ sacl'[x] = sacl[x]
      BY <2>3 DEF EditRules, Known, TypeInv, TypeOK
    <2> QED BY <2>1, <2>2, <2>3 DEF Outside
  <1>2. /\ active'.live \subseteq active.live /\ bnd'.live \subseteq bnd.live
        /\ bnd'.att = bnd.att /\ Exposed \cap bnd.live \subseteq bnd'.live
    <2>1. ASSUME NEW v \in Volumes, Detach(v)
          PROVE  /\ active'.live \subseteq active.live /\ bnd'.live \subseteq bnd.live
                 /\ bnd'.att = bnd.att /\ Exposed \cap bnd.live \subseteq bnd'.live
      BY <2>1 DEF Detach, NoGaps, Unconfirmed, Known, TypeInv, TypeOK, Bound
    <2>2. UNCHANGED <<active, bnd>> \/ \E v \in Volumes : Detach(v)
      BY DEF World, Attach, Reassign, Delete, EditRules, EditPolicy
    <2> QED BY <2>1, <2>2
  <1>3. Standing'
    <2>1. ASSUME NEW v \in Volumes, Detach(v) PROVE Standing'
      <3>1. /\ active'.live = active.live \ InVolume(v) /\ bnd'.live = bnd.live \ InVolume(v)
            /\ active.live \cup bnd.live \subseteq Objects
        BY <2>1 DEF Detach, Known, TypeInv, TypeOK, Bound
      <3> QED BY <2>1, <3>1 DEF Detach, machine, Standing, Present, InVolume
    <2>2. ASSUME NEW v \in Volumes, Attach(v) PROVE Standing'
      BY <2>2 DEF Attach, machine, Standing, Present
    <2>3. ASSUME NEW o \in Objects, Delete(o) PROVE Standing'
      BY <2>3 DEF Delete, Pinned, Standing, Present
    <2>4. UNCHANGED <<there, gone, active, bnd>> /\ owned' \subseteq owned => Standing'
      BY DEF Standing, Present
    <2> QED BY <1>1, <2>1, <2>2, <2>3, <2>4 DEF World, Reassign, EditRules, EditPolicy, world
  <1>4. RulesAreJournalled' /\ RuleInHand' /\ RuleInMemory'
    BY <1>1, <1>2 DEF RulesAreJournalled, RuleInHand, RuleInMemory, Exposed, Backs, Undoes, Confirmed
  <1>5. Copied' /\ HeldAlone' /\ OutOfReach' /\ Undone'
    BY <1>1, <1>2 DEF Copied, HeldAlone, Alone, Records, OutOfReach, Undone, InProgress
  <1>6. MarkedOnce' /\ GivenBack' /\ Locals'
    BY <1>1, <1>2 DEF MarkedOnce, InProgress, Confirmed, GivenBack, RollingBack, Resuming, Locals,
                      Exposed
  <1>7. pc \in {"add", "confirm"} => sacl'[cur] = sacl[cur]
    <2>1. ASSUME NEW o \in Objects, EditRules(o), pc \in {"add", "confirm"}
          PROVE  sacl'[cur] = sacl[cur]
      <3>1. o # cur
        BY <2>1 DEF EditRules, NoGaps, Raced, Exposed
      <3>2. cur \in Objects
        BY <2>1 DEF Known, TypeInv, Shape, Records
      <3> QED BY <2>1, <3>1, <3>2 DEF EditRules, Known, TypeInv, TypeOK
    <2>2. UNCHANGED sacl \/ \E o \in Objects : EditRules(o)
      BY DEF World, Detach, Attach, Reassign, Delete, EditPolicy, machine
    <2> QED BY <2>1, <2>2
  <1>8. Underway'
    BY <1>1, <1>2, <1>7 DEF Underway, Exposed
  <1> QED BY <1>3, <1>4, <1>5, <1>6, <1>8
-----------------------------------------------------------------------------
LEMMA RulesNext == ASSUME NoGaps, OneVolumePerPath, Known, RulesInv, Next PROVE RulesInv'
  BY RulesBegin, RulesBind, RulesUndo, RulesRestore, RulesEnsure, RulesMark, RulesBeginRun,
     RulesCommit, RulesLaunch, RulesFailed, RulesHelloDone, RulesReleased, RulesProcess, RulesWorld
  DEF Next, Operation

LEMMA RulesStutter == ASSUME RulesInv, UNCHANGED vars PROVE RulesInv'
  <1>1. UNCHANGED <<sacl, owned, there, gone, disk, mem, active, bnd, cfg, service, pc, op, stage,
                    todo, deferred, done, cur, failed, restoring>>
    BY DEF vars, machine, world, engine, local, work
  <1> USE DEF RulesInv
  <1>2. Standing' /\ RulesAreJournalled' /\ RuleInHand' /\ RuleInMemory'
    BY <1>1 DEF Standing, Present, RulesAreJournalled, RuleInHand, RuleInMemory, Exposed, Backs,
                Undoes, Confirmed
  <1>3. Copied' /\ HeldAlone' /\ OutOfReach' /\ Undone'
    BY <1>1 DEF Copied, HeldAlone, Alone, Records, OutOfReach, Undone, InProgress
  <1>4. MarkedOnce' /\ GivenBack' /\ Underway' /\ Locals'
    BY <1>1 DEF MarkedOnce, InProgress, Confirmed, GivenBack, RollingBack, Resuming, Underway, Locals
  <1> QED BY <1>2, <1>3, <1>4

\* What the three stores say of every rule at every point of every operation
\* (RulesInv), for an instance without the windows and without paths that change
\* volumes.
THEOREM RulesCorrect == NoGaps /\ OneVolumePerPath /\ Spec => []RulesInv
  <1>1. NoGaps /\ Spec => []Known
    BY TypeCorrect, AuthorityCorrect, PolicyCorrect, PTL DEF Known
  <1>2. NoGaps /\ OneVolumePerPath /\ Known /\ RulesInv /\ [Next]_vars => RulesInv'
    BY RulesNext, RulesStutter
  <1>3. NoGaps /\ OneVolumePerPath => (NoGaps /\ OneVolumePerPath)'
    BY DEF NoGaps, OneVolumePerPath
  <1> QED BY <1>1, <1>2, <1>3, RulesInit, PTL DEF Spec

\* Every audit rule ReadWatch put on a folder and nobody has edited since is
\* recorded in the configuration file, as it is and with one to put back that
\* takes it away (applyAuditRule and removeAuditRule, through every failure,
\* rollback, change and kill).
THEOREM RulesAreJournalledCorrect ==
  NoGaps /\ OneVolumePerPath /\ Spec => []RulesAreJournalled
  <1>1. RulesInv => RulesAreJournalled
    BY DEF RulesInv
  <1> QED BY <1>1, RulesCorrect, PTL
-----------------------------------------------------------------------------
(***************************************************************************)
(* What a reported success promises: nothing is left behind but what is    *)
(* watched or named, and what is watched can be heard.                     *)
(***************************************************************************)

\* What every record says ReadWatch was about to do.
Intends(c) == /\ \A k \in Records(c) : "rule" \in c.snaps[k].applied
              /\ c.pol # None => "success" \in c.pol.applied
Intents == Intends(mem) /\ Intends(cfg) /\ Intends(disk)

\* A record that is put off is kept, by the engine and by its operation.
Kept ==
  /\ pending \subseteq Records(mem)
  /\ deferred \subseteq Records(mem) \cap Records(cfg)
  /\ todo \cap deferred = {} /\ (pc = "settle" => cur \in todo)
  /\ pc = "bind" \/ (pc = "record" /\ stage = "none") => cfg.snaps = mem.snaps

\* From the moment the old rules are withdrawn, what was put off is named.
Naming == \/ stage \in {"hello", "start", "applyIdle", "swap"} /\ pc \notin {"bind", "withdraw", "settle"}
          \/ stage \in {"run", "giveback", "goIdle", "rollback", "rollbackOff"}
Named == (Naming => pending = deferred) /\ (restoring => ~Resuming)

\* A policy that has been taken back without an error is forgotten.
Forgotten ==
  /\ pc \in {"helloDone", "record", "stopSave"} /\ ~failed => cfg.pol = None
  /\ pc = "commit" \/ (pc = "launch" /\ stage = "giveback") => cfg.pol = None
  /\ pc = "record" /\ stage = "none" => Records(cfg) = {}

\* A start on audit rules has the policy on, and every folder it has passed marked.
Audible ==
  /\ stage = "run" /\ pc # "begin" => bnd.mech = "markers"
  /\ stage = "giveback" => bnd.mech = "etw"
  /\ stage = "run" => \A o \in done : "rule" \in sacl[o]
  /\ pc \in {"confirmPolicy", "notePolicy"} => policy = cfg.pol.applied
  /\ pc \in {"mark", "add", "confirm"} \/ (pc = "launch" /\ stage = "run") => "success" \in policy
  /\ pc = "launch" /\ stage = "run" => bnd.att \subseteq done

SuccessInv == NothingUnnamed /\ Intents /\ Kept /\ Named /\ Forgotten /\ Audible

\* An edit of the journal that adds no record and changes no record's intent.
LEMMA IntendsStill ==
  ASSUME NEW c, NEW d, Intends(c),
         \A k \in Objects : d.snaps[k] # None => /\ c.snaps[k] # None
                                              /\ d.snaps[k].applied = c.snaps[k].applied,
         d.pol # None => c.pol # None /\ d.pol.applied = c.pol.applied
  PROVE  Intends(d)
  BY DEF Intends, Records

LEMMA IntendsEdits ==
  ASSUME NEW c \in Config, Intends(c)
  PROVE  /\ \A k \in Objects : Intends(Dropped(c, k))
         /\ Intends([c EXCEPT !.pol = None])
         /\ Intends([c EXCEPT !.enabled = FALSE])
         /\ \A b \in Bound : Intends(Adopt(c, b)) /\ Intends([Adopt(c, b) EXCEPT !.enabled = TRUE])
         /\ \A k \in Records(c) : Intends([c EXCEPT !.snaps[k].phase = "applied"])
         /\ c.pol # None => Intends([c EXCEPT !.pol.phase = "applied"])
  <1>1. ASSUME NEW k \in Objects PROVE Intends(Dropped(c, k))
    BY SnapType, IntendsStill DEF Dropped, Config
  <1>2. Intends([c EXCEPT !.pol = None]) /\ Intends([c EXCEPT !.enabled = FALSE])
    BY DEF Intends, Records, Config
  <1>3. ASSUME NEW b \in Bound
        PROVE  Intends(Adopt(c, b)) /\ Intends([Adopt(c, b) EXCEPT !.enabled = TRUE])
    <2>1. Adopt(c, b).pol = c.pol /\ [Adopt(c, b) EXCEPT !.enabled = TRUE].pol = c.pol
      BY DEF Adopt, Config
    <2> QED BY <2>1, AdoptType DEF Intends, Records
  <1>4. ASSUME NEW k \in Records(c) PROVE Intends([c EXCEPT !.snaps[k].phase = "applied"])
    <2> DEFINE d == [c EXCEPT !.snaps[k].phase = "applied"]
    <2>1. k \in Objects /\ c.snaps[k] \in Record(Aces) /\ d.pol = c.pol
      BY DEF Records, Config
    <2>2. /\ \A x \in Objects \ {k} : d.snaps[x] = c.snaps[x]
          /\ d.snaps[k] = [c.snaps[k] EXCEPT !.phase = "applied"]
      BY <2>1 DEF Config
    <2>3. d.snaps[k].applied = c.snaps[k].applied
      BY <2>1, <2>2 DEF Record
    <2>4. \A x \in Objects : d.snaps[x] # None => /\ c.snaps[x] # None
                                               /\ d.snaps[x].applied = c.snaps[x].applied
      BY <2>1, <2>2, <2>3 DEF Records
    <2> HIDE DEF d
    <2> QED BY <2>1, <2>4, IntendsStill DEF d
  <1>5. ASSUME c.pol # None PROVE Intends([c EXCEPT !.pol.phase = "applied"])
    <2>1. c.pol \in Record(Flags)
      BY <1>5 DEF Config
    <2>2. /\ [c EXCEPT !.pol.phase = "applied"].pol = [c.pol EXCEPT !.phase = "applied"]
          /\ [c EXCEPT !.pol.phase = "applied"].snaps = c.snaps
      BY DEF Config
    <2>3. [c EXCEPT !.pol.phase = "applied"].pol.applied = c.pol.applied
      BY <2>1, <2>2 DEF Record
    <2> QED BY <1>5, <2>2, <2>3 DEF Intends, Records
  <1> QED BY <1>1, <1>2, <1>3, <1>4, <1>5

LEMMA BlankIntends == Intends(BlankConfig)
  BY DEF BlankConfig, Intends, Records

LEMMA SuccessInit == Init => SuccessInv
  BY BlankIntends DEF Init, SuccessInv, NothingUnnamed, Intents, Kept, Named, Naming, Forgotten,
     Audible, Resuming

\* An operation that returns, and either reports no success or what it reports
\* is true.
LEMMA SuccessReturned ==
  ASSUME SuccessInv, NEW res, Finish(res), res = "ok" => NothingUnnamed', Intends(mem'),
         disk' \in {disk, mem'}, pending' \subseteq Records(mem')
  PROVE  SuccessInv'
  <1>1. /\ pc' = "idle" /\ stage' = "none" /\ cfg' = BlankConfig /\ todo' = {} /\ deferred' = {}
        /\ restoring' = FALSE /\ result' = res
    BY DEF Finish
  <1>2. NothingUnnamed' /\ Intents'
    BY <1>1, BlankIntends DEF SuccessInv, NothingUnnamed, Intents, Intends, Records
  <1>3. Kept'
    BY <1>1 DEF Kept, Records
  <1>4. Named' /\ Forgotten' /\ Audible'
    BY <1>1 DEF Named, Naming, Forgotten, Audible
  <1> QED BY <1>2, <1>3, <1>4 DEF SuccessInv

LEMMA SuccessBegin == ASSUME Known, RulesInv, SuccessInv, Begin PROVE SuccessInv'
  <1> USE DEF SuccessInv
  <1>1. /\ UNCHANGED <<sacl, disk, mem, pending, deferred, done, failed, restoring>>
        /\ pc = "idle" /\ cfg' = mem
    BY DEF Begin, BeginHello, BeginStart, BeginSave, BeginApply, BeginStop, BeginShutdown,
           Stopping, Beginning, machine
  <1>2. \/ stage' \in {"hello", "stop"} /\ pc' = "withdraw"
        \/ stage' = "hello" /\ pc' = "helloDone" /\ Records(mem) = {} /\ mem.pol = None
        \/ stage' = "none" /\ pc' = "bind"
    BY <1>1, StageOf
    DEF Begin, BeginHello, BeginStart, BeginSave, BeginApply, BeginStop, BeginShutdown,
        Stopping, Beginning, Goto, HasRecords
  <1>3. deferred = {} /\ ~restoring
    BY <1>1 DEF RulesInv, Locals, Known, AuthorityInv, Flow
  <1>4. NothingUnnamed' /\ Intents'
    BY <1>1, <1>2 DEF NothingUnnamed, Intents, Intends, Records
  <1>5. Kept' /\ Named' /\ Forgotten' /\ Audible'
    BY <1>1, <1>2, <1>3 DEF Kept, Records, Named, Naming, Forgotten, Audible
  <1> QED BY <1>4, <1>5

LEMMA SuccessBind == ASSUME Known, RulesInv, SuccessInv, Bind \/ BindFails PROVE SuccessInv'
  <1> USE DEF SuccessInv
  <1>1. CASE Bind
    <2>1. /\ UNCHANGED <<disk, mem, pending, op, cfg, deferred, failed, restoring>>
          /\ pc = "bind"
      BY <1>1 DEF Bind
    <2>2. \/ stage' \in {"start", "swap", "applyIdle"} /\ pc' = "withdraw" /\ todo' = Records(cfg)
          \/ /\ stage' = "none" /\ pc' = "record" /\ todo' = todo
             /\ Records(cfg) = {} /\ cfg.pol = None
      BY <1>1, <2>1, StageOf DEF Bind, AfterBind, Goto, HasRecords
    <2>3. deferred = {} /\ ~restoring
      BY <2>1 DEF RulesInv, Locals, Known, AuthorityInv, Flow
    <2>4. NothingUnnamed' /\ Intents'
      BY <2>1, <2>2 DEF NothingUnnamed, Intents, Intends, Records
    <2>5. Kept' /\ Named' /\ Forgotten' /\ Audible'
      BY <2>1, <2>2, <2>3 DEF Kept, Records, Named, Naming, Forgotten, Audible
    <2> QED BY <2>4, <2>5
  <1>2. CASE BindFails
    BY <1>2, SuccessReturned DEF BindFails, Intents, Intends, Kept, Records
  <1> QED BY <1>1, <1>2

LEMMA SuccessUndo ==
  ASSUME Known, RulesInv, SuccessInv,
         \/ WithdrawRule \/ SettleWithdrawal \/ DropRecord \/ DeferRecord
         \/ WithdrawFails \/ Withdrawn
  PROVE  SuccessInv'
  <1> USE DEF SuccessInv
  <1>1. /\ UNCHANGED <<mem, op, stage, restoring, done>> /\ pc \in {"withdraw", "settle"}
        /\ pc' \in {"withdraw", "settle", "restore", "begin", "failed"}
    BY DEF WithdrawRule, SettleWithdrawal, DropRecord, DeferRecord, WithdrawFails, Withdrawn,
           KeepLocals, Forgets, Goto, engine
  <1>2. stage \in {"hello", "start", "applyIdle", "swap", "stop", "rollback", "rollbackOff"}
    BY <1>1, StageOf
  <1>3. /\ todo \subseteq Objects /\ todo \subseteq Records(cfg) /\ cfg \in Config
        /\ pc = "settle" => cur \in todo
    BY <1>1 DEF Known, TypeInv, TypeOK, Shape, Kept
  <1>4. /\ \/ cfg' = cfg
           \/ \E k \in todo : cfg' = Dropped(cfg, k) /\ todo' = todo \ {k} /\ deferred' = deferred
        /\ disk' \in {disk, cfg'}
    BY <1>3 DEF WithdrawRule, SettleWithdrawal, DropRecord, DeferRecord, WithdrawFails, Withdrawn,
                Forgets, Save, SaveFails
  <1>5. /\ \/ deferred' = deferred
           \/ ~RollingBack /\ pc' = "withdraw" /\ \E k \in todo : deferred' = deferred \cup {k} /\ todo' = todo \ {k}
        /\ todo' \subseteq todo
    BY DEF WithdrawRule, SettleWithdrawal, DropRecord, DeferRecord, WithdrawFails, Withdrawn,
           Forgets, KeepLocals
  <1>6. pc' = "settle" => cur' \in todo'
    BY DEF WithdrawRule, SettleWithdrawal, DropRecord, DeferRecord, WithdrawFails, Withdrawn,
           Forgets, Goto
  <1>7. \/ UNCHANGED pending
        \/ pending' = deferred /\ UNCHANGED <<deferred, cfg>>
    BY DEF WithdrawRule, SettleWithdrawal, DropRecord, DeferRecord, WithdrawFails, Withdrawn, engine
  <1>8. NothingUnnamed'
    BY <1>1 DEF NothingUnnamed
  <1>9. Intents'
    BY <1>1, <1>3, <1>4, IntendsEdits DEF Intents, Intends, Records
  <1>10. Kept'
    <2>1. pending' \subseteq Records(mem)'
      BY <1>1, <1>7 DEF Kept, Records
    <2>2. ASSUME NEW k \in todo, ~RollingBack PROVE k \in Records(mem)
      BY <1>2, <1>3, <2>2 DEF RulesInv, Copied, Records, RollingBack
    <2>3. deferred' \subseteq Records(mem)'
      BY <1>1, <1>5, <2>2 DEF Kept, Records
    <2>4. deferred' \subseteq Records(cfg') /\ todo' \cap deferred' = {}
      BY <1>3, <1>4, <1>5, DroppedType DEF Kept
    <2> QED BY <1>1, <1>6, <2>1, <2>3, <2>4 DEF Kept, Records
  <1>11. Named'
    <2>1. pc' \notin {"withdraw", "settle"} => Withdrawn
      BY DEF WithdrawRule, SettleWithdrawal, DropRecord, DeferRecord, WithdrawFails, Forgets, Goto
    <2>2. Withdrawn /\ stage # "stop" /\ ~RollingBack => pending' = deferred'
      BY DEF Withdrawn
    <2>3. RollingBack => UNCHANGED <<pending, deferred>>
      BY DEF WithdrawRule, SettleWithdrawal, DropRecord, DeferRecord, WithdrawFails, Withdrawn, engine
    <2> QED BY <1>1, <1>2, <2>1, <2>2, <2>3 DEF Named, Naming, RollingBack, Resuming
  <1>12. Forgotten' /\ Audible'
    BY <1>1, <1>2 DEF Forgotten, Audible
  <1> QED BY <1>8, <1>9, <1>10, <1>11, <1>12

LEMMA SuccessRestore ==
  ASSUME Known, RulesInv, SuccessInv,
         NothingToRestore \/ RestorePolicy \/ RestorePolicyFails \/ ForgetPolicy
  PROVE  SuccessInv'
  <1> USE DEF SuccessInv
  <1>1. /\ UNCHANGED <<mem, pending, op, stage, bnd, restoring, todo, deferred, done>>
        /\ pc \in {"restore", "forget"}
    BY DEF NothingToRestore, RestorePolicy, RestorePolicyFails, ForgetPolicy, Restoring,
           KeepLocals, engine, work
  <1>2. \/ pc' = "forget"
        \/ /\ cfg'.pol = None \/ failed'
           /\ \E err : pc' = Resume(err) /\ (~err => cfg'.pol = None)
    <2>1. failed \in BOOLEAN /\ cfg \in Config
      BY DEF Known, TypeInv, TypeOK
    <2>2. CASE NothingToRestore
      BY <2>1, <2>2 DEF NothingToRestore, Restoring, Goto
    <2>3. CASE RestorePolicy
      BY <2>3 DEF RestorePolicy, Goto
    <2>4. CASE RestorePolicyFails
      BY <2>4 DEF RestorePolicyFails, Goto
    <2>5. CASE ForgetPolicy
      BY <2>1, <2>5 DEF ForgetPolicy, Goto, Config
    <2> QED BY <2>2, <2>3, <2>4, <2>5
  <1>3. stage \notin {"none", "run", "swap"}
    BY <1>1, StageOf
  <1>4. /\ pc' \notin {"idle", "bind", "settle", "confirmPolicy", "notePolicy", "mark", "add",
                      "confirm", "launch"}
        /\ pc' = "commit" => cfg'.pol = None
        /\ pc' \in {"helloDone", "record", "stopSave"} /\ ~failed' => cfg'.pol = None
    BY <1>2 DEF Resume
  <1>5. /\ cfg' \in {cfg, [cfg EXCEPT !.pol = None]} /\ disk' \in {disk, cfg'} /\ cfg \in Config
    BY DEF NothingToRestore, RestorePolicy, RestorePolicyFails, ForgetPolicy, Restoring, Save,
           SaveFails, Known, TypeInv, TypeOK
  <1>6. NothingUnnamed' /\ Intents'
    BY <1>1, <1>4, <1>5, IntendsEdits DEF NothingUnnamed, Intents, Intends, Records
  <1>7. Kept'
    <2>1. cfg'.snaps = cfg.snaps
      BY <1>5 DEF Config
    <2> QED BY <1>1, <1>3, <1>4, <2>1 DEF Kept, Records
  <1>8. Named'
    BY <1>1, <1>4 DEF Named, Naming, Resuming
  <1>9. Forgotten' /\ Audible'
    BY <1>1, <1>3, <1>4 DEF Forgotten, Audible
  <1> QED BY <1>6, <1>7, <1>8, <1>9

\* The marking begins when the policy lets it be heard.
LEMMA SuccessEnsure ==
  ASSUME Known, RulesInv, SuccessInv, EnsurePolicy \/ EnablePolicy \/ ConfirmPolicy
  PROVE  SuccessInv'
  <1> USE DEF SuccessInv
  <1>1. /\ UNCHANGED <<mem, pending, op, stage, bnd, restoring, todo, deferred, done>>
        /\ pc \in {"ensure", "enable", "confirmPolicy", "notePolicy"}
        /\ pc' \in {"enable", "confirmPolicy", "notePolicy", "mark", "failed"}
    BY DEF EnsurePolicy, EnablePolicy, ConfirmPolicy, Ensuring, KeepAll, Goto, engine
  <1>2. stage = "run" /\ done = {} /\ cfg \in Config
    BY <1>1, StageOf, NothingDone DEF RulesInv, Known, TypeInv, TypeOK
  <1> DEFINE r == [orig |-> policy, applied |-> policy \cup {"success"}, phase |-> "prepared"]
  <1>3. /\ disk' \in {disk, cfg'}
        /\ \/ cfg' \in {cfg, [cfg EXCEPT !.pol = None], [cfg EXCEPT !.pol = r]}
           \/ cfg' = [cfg EXCEPT !.pol.phase = "applied"] /\ cfg.pol # None
    BY DEF EnsurePolicy, EnablePolicy, ConfirmPolicy, Save, SaveFails, Known, TypeInv, Shape
  <1>4. Intends([cfg EXCEPT !.pol = r])
    BY <1>2 DEF Intents, Intends, Records, Config
  <1>5. NothingUnnamed' /\ Intents'
    <2>1. Intends(cfg')
      BY <1>2, <1>3, <1>4, IntendsEdits DEF Intents
    <2> QED BY <1>1, <1>3, <2>1 DEF NothingUnnamed, Intents, Intends, Records
  <1>6. Kept'
    <2>1. cfg'.snaps = cfg.snaps
      BY <1>2, <1>3 DEF Config
    <2> QED BY <1>1, <1>2, <2>1 DEF Kept, Records
  <1>7. Named' /\ Forgotten'
    BY <1>1, <1>2 DEF Named, Naming, Resuming, Forgotten
  <1>8. pc' \in {"confirmPolicy", "notePolicy"} => policy' = cfg'.pol.applied
    BY DEF EnsurePolicy, EnablePolicy, ConfirmPolicy, Ensuring, Goto
  <1>9. pc' = "mark" => "success" \in policy'
    <2>1. cfg.pol # None => "success" \in cfg.pol.applied
      BY DEF Intents, Intends
    <2>2. CASE EnsurePolicy
      BY <2>1, <2>2 DEF EnsurePolicy, Goto
    <2>3. CASE EnablePolicy
      BY <2>3 DEF EnablePolicy, Goto
    <2>4. CASE ConfirmPolicy
      BY <2>1, <2>4 DEF ConfirmPolicy, Audible, Known, TypeInv, Shape
    <2> QED BY <2>2, <2>3, <2>4
  <1>10. Audible'
    BY <1>1, <1>2, <1>8, <1>9 DEF Audible
  <1> QED BY <1>5, <1>6, <1>7, <1>10

LEMMA SuccessRollBack ==
  ASSUME Known, RulesInv, SuccessInv, NEW kind \in {"rollback", "rollbackOff"}, NEW c \in Config,
         RollBack(kind, c), cfg' = c, Intends(c), deferred \subseteq Records(c),
         UNCHANGED <<mem, pending, op, restoring, deferred>>, disk' \in {disk, c},
         pc \in {"mark", "add", "commit", "launch"}
  PROVE  SuccessInv'
  <1> USE DEF SuccessInv
  <1>1. /\ stage' \in {"rollback", "rollbackOff"} /\ pc' = "withdraw" /\ done' = done
        /\ todo' = done \cap Records(c)
    BY DEF RollBack, Goto
  <1>2. stage \in {"run", "giveback"}
    BY StageOf
  <1>3. done \cap deferred = {}
    BY DEF RulesInv, Locals, OutOfReach
  <1>4. NothingUnnamed' /\ Intents'
    BY <1>1 DEF NothingUnnamed, Intents, Intends, Records
  <1>5. Kept'
    BY <1>1, <1>3 DEF Kept, Records
  <1>6. Named' /\ Forgotten' /\ Audible'
    BY <1>1, <1>2 DEF Named, Naming, Resuming, Forgotten, Audible
  <1> QED BY <1>4, <1>5, <1>6

LEMMA SuccessMark ==
  ASSUME NoGaps, Known, RulesInv, SuccessInv,
         AlreadyMarked \/ PrepareMark \/ MarkRefused \/ AddRule \/ ConfirmMark
  PROVE  SuccessInv'
  <1> USE DEF SuccessInv
  <1>1. /\ UNCHANGED <<mem, pending, op, restoring, deferred, policy>>
        /\ pc \in {"mark", "add", "confirm"} /\ stage = "run" /\ cfg \in Config
        /\ bnd.live \subseteq Objects
    BY StageOf DEF AlreadyMarked, PrepareMark, MarkRefused, AddRule, ConfirmMark, Marking, KeepAll,
                   engine, Known, TypeInv, TypeOK, Bound
  <1>2. deferred \cap bnd.live = {}
    BY DEF RulesInv, OutOfReach
  \* A step of the marking that goes on.
  <1>3. ASSUME UNCHANGED <<stage, bnd, todo>>, pc' \in {"mark", "add", "confirm"},
               Intends(cfg'), Records(cfg) \subseteq Records(cfg'), disk' \in {disk, cfg'},
               \A o \in done' : "rule" \in sacl'[o]
        PROVE  SuccessInv'
    <2>1. NothingUnnamed' /\ Intents'
      BY <1>1, <1>3 DEF NothingUnnamed, Intents, Intends, Records
    <2>2. Kept'
      BY <1>1, <1>3 DEF Kept, Records
    <2>3. Named' /\ Forgotten' /\ Audible'
      BY <1>1, <1>3 DEF Named, Naming, Resuming, Forgotten, Audible
    <2> QED BY <2>1, <2>2, <2>3
  <1>4. CASE AlreadyMarked
    <2>1. PICK o \in bnd.live : Marked(o) /\ sacl[o] = cfg.snaps[o].applied /\ done' = done \cup {o}
      BY <1>4 DEF AlreadyMarked
    <2>2. "rule" \in sacl[o]
      BY <1>1, <2>1 DEF Marked, Intents, Intends, Records
    <2>3. \A x \in done' : "rule" \in sacl'[x]
      BY <1>1, <1>4, <2>1, <2>2 DEF AlreadyMarked, Audible
    <2> QED BY <1>1, <1>3, <1>4, <2>3 DEF AlreadyMarked, Intents
  <1>5. CASE PrepareMark
    <2>1. PICK o \in bnd.live \ done :
            LET c == [cfg EXCEPT !.snaps[o] = Intent(o)] IN
            \/ /\ cfg' = c /\ Save(c) /\ cur' = o /\ Goto("add")
               /\ UNCHANGED <<stage, todo, failed, done, bnd>>
            \/ SaveFails /\ cfg' = Dropped(cfg, o) /\ RollBack("rollback", cfg')
      BY <1>5 DEF PrepareMark
    <2>2. o \in Objects /\ o \notin deferred
      BY <1>1, <1>2
    <2>3. CASE SaveFails /\ cfg' = Dropped(cfg, o) /\ RollBack("rollback", cfg')
      <3>1. Intends(Dropped(cfg, o)) /\ Dropped(cfg, o) \in Config
        BY <1>1, <2>2, DroppedType, IntendsEdits DEF Intents
      <3>2. deferred \subseteq Records(Dropped(cfg, o))
        BY <1>1, <2>2, DroppedType DEF Kept
      <3> QED BY <1>1, <1>5, <2>3, <3>1, <3>2, SuccessRollBack DEF SaveFails, PrepareMark, Marking
    <2>4. CASE ~(SaveFails /\ cfg' = Dropped(cfg, o) /\ RollBack("rollback", cfg'))
      <3>1. /\ cfg' = [cfg EXCEPT !.snaps[o] = Intent(o)] /\ disk' = cfg' /\ pc' = "add"
            /\ UNCHANGED <<stage, todo, done, bnd>>
        BY <2>1, <2>4 DEF Save, Goto
      <3>2. Intent(o) \in Record(Aces) /\ Intent(o) # None /\ "rule" \in Intent(o).applied
        BY <2>2, IntentType DEF Known, TypeInv, Intent
      <3>3. Intends(cfg') /\ Records(cfg) \subseteq Records(cfg')
        BY <1>1, <2>2, <3>1, <3>2, SnapType DEF Intents, Intends, Records
      <3>4. \A x \in done' : "rule" \in sacl'[x]
        BY <1>1, <1>5, <3>1 DEF PrepareMark, Audible
      <3> QED BY <1>3, <3>1, <3>3, <3>4
    <2> QED BY <2>3, <2>4
  <1>6. CASE MarkRefused
    <2>1. RollBack("rollback", cfg) /\ UNCHANGED <<disk, cfg>> /\ pc = "mark"
      BY <1>6 DEF MarkRefused, Marking
    <2> QED BY <1>1, <2>1, SuccessRollBack DEF Intents, Kept
  <1>7. CASE AddRule
    <2>1. pc = "add" /\ UNCHANGED <<disk, cfg>>
      BY <1>7 DEF AddRule, Marking
    <2>2. CASE RollBack("rollback", cfg)
      BY <1>1, <2>1, <2>2, SuccessRollBack DEF Intents, Kept
    <2>3. CASE ~RollBack("rollback", cfg)
      <3>1. /\ sacl' = [sacl EXCEPT ![cur] = @ \cup {"rule"}] /\ pc' = "confirm"
            /\ UNCHANGED <<stage, bnd, todo, done>>
        BY <1>7, <2>3 DEF AddRule, Goto
      <3>2. \A x \in done' : "rule" \in sacl'[x]
        <4>1. done \subseteq Objects
          BY DEF Known, TypeInv, TypeOK
        <4> QED BY <1>1, <3>1, <4>1 DEF Audible, Known, TypeInv, TypeOK
      <3> QED BY <1>3, <2>1, <3>1, <3>2 DEF Intents
    <2> QED BY <2>2, <2>3
  <1>8. CASE ConfirmMark
    <2>1. /\ pc = "confirm" /\ sacl' = sacl /\ cur \in Records(cfg)
          /\ cur \in bnd.live /\ sacl[cur] = cfg.snaps[cur].applied
      BY <1>8 DEF ConfirmMark, Marking, RulesInv, Underway, Known, TypeInv, Shape
    <2>2. /\ cfg' = [cfg EXCEPT !.snaps[cur].phase = "applied"] /\ disk' = cfg' /\ pc' = "mark"
          /\ done' = done \cup {cur} /\ UNCHANGED <<stage, bnd, todo>>
      BY <1>8, <2>1 DEF ConfirmMark, Goto, Save, NoGaps, Unconfirmed
    <2>3. Intends(cfg') /\ Records(cfg') = Records(cfg)
      BY <1>1, <2>1, <2>2, IntendsEdits, ConfirmSnapType DEF Intents
    <2>4. \A x \in done' : "rule" \in sacl'[x]
      BY <1>1, <2>1, <2>2 DEF Audible, Intents, Intends
    <2> QED BY <1>3, <2>2, <2>3, <2>4
  <1> QED BY <1>4, <1>5, <1>6, <1>7, <1>8

\* A resumption with nothing left to watch leaves nothing but what it names.
LEMMA SuccessBeginRun == ASSUME Known, RulesInv, SuccessInv, BeginRun PROVE SuccessInv'
  <1> USE DEF SuccessInv
  <1>1. /\ UNCHANGED <<sacl, policy, owned, polOwned, disk, mem, pending, running, active>>
        /\ pc = "begin" /\ done = {} /\ todo = {} /\ ~failed /\ stage \in {"start", "swap", "run"}
    BY NothingDone, StageOf DEF BeginRun, machine, RulesInv, Locals
  <1>2. CASE Finish("ok") /\ op = "hello"
    <2>1. ~restoring /\ pending = deferred
      BY <1>1, <1>2 DEF Named, Naming, Resuming
    <2>2. Records(cfg) \subseteq deferred
      BY <1>1, <2>1 DEF RulesInv, Undone, InProgress
    <2>3. owned \subseteq pending
      BY <1>1, <2>1, <2>2
      DEF RulesInv, RuleInHand, Backs, Undoes, Records, Known, TypeInv, TypeOK
    <2>4. ~polOwned
      BY <1>1, <1>2 DEF Known, PolicyInv, Source, Resuming, InHand, Tells
    <2>5. NothingUnnamed'
      BY <1>1, <2>3, <2>4 DEF NothingUnnamed
    <2> QED BY <1>1, <1>2, <2>5, SuccessReturned DEF Intents, Intends, Kept, Records
  <1>3. CASE Finish("error")
    BY <1>1, <1>3, SuccessReturned DEF Intents, Intends, Kept, Records
  <1>4. CASE ~(Finish("ok") \/ Finish("error"))
    <2>1. /\ UNCHANGED <<op, cfg, bnd, todo, deferred, done, failed, restoring>>
          /\ \/ stage' = "goIdle" /\ pc' = "restore"
             \/ stage' = "giveback" /\ pc' = "restore" /\ bnd.mech = "etw"
             \/ stage' = "run" /\ pc' = "ensure" /\ bnd.mech # "etw"
      BY <1>4 DEF BeginRun, Goto, work
    <2>2. bnd.mech \in {"markers", "etw"}
      BY DEF Known, TypeInv, TypeOK, Bound
    <2>3. NothingUnnamed' /\ Intents'
      BY <1>1, <2>1 DEF NothingUnnamed, Intents, Intends, Records
    <2>4. Kept' /\ Named'
      BY <1>1, <2>1 DEF Kept, Records, Named, Naming, Resuming
    <2>5. Forgotten' /\ Audible'
      BY <1>1, <2>1, <2>2 DEF Forgotten, Audible
    <2> QED BY <2>3, <2>4, <2>5
  <1>5. Finish("ok") => op = "hello"
    BY DEF BeginRun, Finish, Goto
  <1> QED BY <1>2, <1>3, <1>4, <1>5

LEMMA SuccessCommit ==
  ASSUME Known, RulesInv, SuccessInv, Commit \/ LaunchFails \/ Disable PROVE SuccessInv'
  <1> USE DEF SuccessInv
  <1>1. CASE Commit
    <2> DEFINE c == [Adopt(cfg, bnd) EXCEPT !.enabled = TRUE]
    <2>1. c \in Config /\ c.snaps = cfg.snaps /\ c.pol = cfg.pol /\ Intends(c)
      BY AdoptType, IntendsEdits DEF Known, TypeInv, TypeOK, Intents, Adopt, Config
    <2>2. /\ UNCHANGED <<sacl, policy, mem, pending, op, restoring, deferred>> /\ cfg' = c
          /\ \/ pc = "commit" /\ stage = "giveback"
             \/ pc = "mark" /\ stage = "run" /\ bnd.att \subseteq done
      BY <1>1, StageOf DEF Commit, KeepAll, machine, engine
    <2>3. CASE SaveFails /\ RollBack("rollback", c)
      <3>1. deferred \subseteq Records(c)
        BY <2>1 DEF Kept, Records
      <3> QED BY <2>1, <2>2, <2>3, <3>1, SuccessRollBack DEF SaveFails
    <2>4. CASE Save(c) /\ Goto("launch") /\ UNCHANGED <<stage, bnd, todo, done, cur, failed>>
      <3>1. disk' = c /\ pc' = "launch"
        BY <2>4 DEF Save, Goto
      <3>2. NothingUnnamed' /\ Intents'
        BY <2>1, <2>2, <3>1 DEF NothingUnnamed, Intents, Intends, Records
      <3>3. Kept'
        BY <2>1, <2>2, <2>4, <3>1 DEF Kept, Records
      <3>4. Named' /\ Forgotten'
        BY <2>1, <2>2, <2>4, <3>1 DEF Named, Naming, Resuming, Forgotten
      <3>5. Audible'
        BY <2>2, <2>4, <3>1 DEF Audible
      <3> QED BY <3>2, <3>3, <3>4, <3>5
    <2> QED BY <1>1, <2>3, <2>4 DEF Commit
  <1>2. CASE LaunchFails
    <2>1. PICK kind \in {"rollback", "rollbackOff"} : RollBack(kind, cfg)
      BY <1>2 DEF LaunchFails
    <2>2. /\ UNCHANGED <<mem, pending, op, restoring, deferred, disk, cfg>> /\ pc = "launch"
      BY <1>2 DEF LaunchFails, KeepAll, engine
    <2> QED BY <2>1, <2>2, SuccessRollBack DEF Known, TypeInv, TypeOK, Intents, Kept
  <1>3. CASE Disable
    <2>1. /\ UNCHANGED <<mem, pending, op, stage, bnd, restoring, todo, deferred, done>>
          /\ stage = "rollbackOff" /\ pc' = "failed" /\ disk' \in {disk, cfg'}
          /\ cfg' = [cfg EXCEPT !.enabled = FALSE] /\ cfg \in Config
      BY <1>3, StageOf DEF Disable, KeepLocals, Goto, Save, SaveFails, engine, work, Known, TypeInv,
                           TypeOK
    <2>2. cfg'.snaps = cfg.snaps /\ Intends(cfg')
      BY <2>1, IntendsEdits DEF Intents, Config
    <2>3. NothingUnnamed' /\ Intents'
      BY <2>1, <2>2 DEF NothingUnnamed, Intents, Intends, Records
    <2>4. Kept' /\ Named'
      BY <2>1, <2>2 DEF Kept, Records, Named, Naming, Resuming
    <2>5. Forgotten' /\ Audible'
      BY <2>1 DEF Forgotten, Audible
    <2> QED BY <2>3, <2>4, <2>5
  <1> QED BY <1>1, <1>2, <1>3

\* What is owned when the watcher starts is marked, or was put off; on the other
\* mechanism the policy is given back.
LEMMA SuccessLaunch == ASSUME Known, RulesInv, SuccessInv, Launch PROVE SuccessInv'
  <1> USE DEF SuccessInv
  <1>1. /\ UNCHANGED <<owned, polOwned, disk, pending>> /\ running' = TRUE /\ mem' = cfg
        /\ active' = bnd /\ pc = "launch" /\ stage \in {"run", "giveback"}
        /\ Finish(IF restoring THEN "error" ELSE "ok")
    BY StageOf DEF Launch, machine
  <1>2. pending = deferred
    BY <1>1 DEF Named, Naming
  <1>3. ~restoring => NothingUnnamed'
    <2> SUFFICES ASSUME ~restoring PROVE NothingUnnamed'
      OBVIOUS
    <2>1. owned \subseteq deferred \cup done
      BY <1>1 DEF RulesInv, Undone, InProgress, RuleInHand, Backs, Undoes, Records, Known, TypeInv,
                  TypeOK
    <2>2. CASE stage = "run"
      <3>1. bnd.mech = "markers" /\ done \subseteq bnd.att
        BY <1>1, <2>2 DEF Audible, RulesInv, Locals, Known, AuthorityInv, Proper
      <3> QED BY <1>1, <1>2, <2>1, <3>1 DEF NothingUnnamed
    <2>3. CASE stage = "giveback"
      <3>1. done = {} /\ ~polOwned
        BY <1>1, <2>3 DEF RulesInv, Locals, RollingBack, Forgotten, Known, PolicyInv, InHand, Tells
      <3> QED BY <1>1, <1>2, <2>1, <3>1 DEF NothingUnnamed
    <2> QED BY <1>1, <2>2, <2>3
  <1>4. Intends(mem') /\ pending' \subseteq Records(mem')
    BY <1>1, <1>2 DEF Intents, Kept
  <1> QED BY <1>1, <1>3, <1>4, SuccessReturned

LEMMA SuccessFailed == ASSUME Known, RulesInv, SuccessInv, Failed PROVE SuccessInv'
  <1> USE DEF SuccessInv
  <1>1. UNCHANGED <<disk, mem, pending>> /\ pc = "failed"
        /\ stage \in {"start", "swap", "run", "giveback", "rollback", "rollbackOff"}
    BY StageOf DEF Failed
  <1>2. CASE Finish("error")
    BY <1>1, <1>2, SuccessReturned DEF Intents, Intends, Kept, Records
  <1>3. CASE ~Finish("error")
    <2>1. /\ ~Resuming /\ UNCHANGED <<op, deferred>> /\ pc' = "begin" /\ stage' = "run"
          /\ cfg' = OldConfig /\ done' = {} /\ todo' = {}
      BY <1>3 DEF Failed, Goto, Resuming
    <2>2. Intends(OldConfig)
      <3>1. CASE stage = "swap"
        BY <3>1 DEF OldConfig, Intents
      <3>2. CASE stage # "swap"
        BY <3>2 DEF OldConfig, Intents, Intends, Records, Known, TypeInv, TypeOK, Config
      <3> QED BY <3>1, <3>2
    <2>3. deferred \subseteq Records(OldConfig)
      <3>1. CASE stage = "swap"
        BY <3>1 DEF OldConfig, Kept
      <3>2. CASE stage # "swap"
        BY <3>2 DEF OldConfig, Kept, Records, Known, TypeInv, TypeOK, Config
      <3> QED BY <3>1, <3>2
    <2>4. stage # "start" /\ pending = deferred
      BY <1>1, <2>1, StageOf DEF Named, Naming
    <2>5. NothingUnnamed' /\ Intents'
      BY <1>1, <2>1, <2>2 DEF NothingUnnamed, Intents, Intends, Records
    <2>6. Kept' /\ Named'
      BY <1>1, <2>1, <2>3, <2>4 DEF Kept, Records, Named, Naming, Resuming
    <2>7. Forgotten' /\ Audible'
      BY <2>1 DEF Forgotten, Audible
    <2> QED BY <2>5, <2>6, <2>7
  <1> QED BY <1>2, <1>3

\* What a withdrawal that met no error leaves is what it put off, and no policy.
LEMMA NothingLeft ==
  ASSUME Known, RulesInv, SuccessInv, pc \in {"helloDone", "record", "stopSave"}, ~failed,
         pc = "record" => ~restoring
  PROVE  owned \subseteq deferred /\ ~polOwned
  <1>1. todo = {} /\ done = {}
    BY NothingDone DEF RulesInv, Locals
  <1>2. Records(cfg) \subseteq deferred
    BY <1>1, StageOf DEF RulesInv, Undone, InProgress, SuccessInv, Forgotten
  <1>3. owned \subseteq deferred
    BY <1>2 DEF RulesInv, RuleInHand, Backs, Undoes, Records, Known, TypeInv, TypeOK
  <1>4. ~polOwned
    BY DEF SuccessInv, Forgotten, Known, PolicyInv, InHand, Tells
  <1> QED BY <1>3, <1>4

LEMMA SuccessEnds ==
  ASSUME Known, RulesInv, SuccessInv, HelloDone \/ RecordBound \/ StopSave PROVE SuccessInv'
  <1> USE DEF SuccessInv
  <1>1. /\ UNCHANGED <<owned, polOwned, running>> /\ pc \in {"helloDone", "record", "stopSave"}
        /\ ~running /\ mem'.snaps = cfg.snaps /\ Intends(mem') /\ disk' \in {disk, mem'}
    <2>1. cfg \in Config /\ bnd \in Bound
      BY DEF Known, TypeInv, TypeOK
    <2>2. RecordBound => mem'.snaps = cfg.snaps /\ Intends(mem')
      BY <2>1, AdoptType, IntendsEdits DEF RecordBound, Intents
    <2>3. StopSave => mem'.snaps = cfg.snaps /\ Intends(mem')
      BY <2>1, IntendsEdits DEF StopSave, Intents, Config
    <2>4. pc \in {"helloDone", "record", "stopSave"}
      BY DEF HelloDone, RecordBound, StopSave
    <2> QED BY <2>2, <2>3, <2>4 DEF HelloDone, RecordBound, StopSave, Save, SaveFails, machine, Intents,
                               Known, PolicyInv, Course
  <1>2. pending' = deferred \/ (pending' = pending /\ Records(cfg) = {} /\ stage = "none" /\ pc = "record")
    BY <1>1, StageOf DEF HelloDone, RecordBound, StopSave, Named, Naming, Forgotten
  <1>3. pending' \subseteq Records(mem')
    BY <1>1, <1>2 DEF Kept, Records
  <1>4. owned \cap Records(cfg) = owned
    BY <1>1 DEF RulesInv, RuleInHand, Backs, Undoes, Records, Known, TypeInv, TypeOK
  <1>5. ~failed /\ (pc = "record" => ~restoring) => NothingUnnamed'
    <2>1. ASSUME ~failed, pc = "record" => ~restoring PROVE owned \subseteq pending'
      BY <1>1, <1>2, <1>4, <2>1, NothingLeft
    <2> QED BY <1>1, <2>1, NothingLeft DEF NothingUnnamed
  <1>6. CASE \E res : Finish(res)
    <2>1. PICK res : Finish(res) /\ (res = "ok" => ~failed /\ (pc = "record" => ~restoring))
      BY <1>6 DEF HelloDone, RecordBound, StopSave, Finish
    <2> QED BY <1>1, <1>3, <1>5, <2>1, SuccessReturned
  <1>7. CASE ~ \E res : Finish(res)
    <2>1. /\ pc = "helloDone" /\ pc' = "bind" /\ deferred' = {} /\ mem' = cfg
          /\ UNCHANGED <<op, stage, cfg, todo, restoring>>
      BY <1>7 DEF HelloDone, RecordBound, StopSave, Goto
    <2>2. NothingUnnamed' /\ Intents'
      BY <1>1, <2>1 DEF NothingUnnamed, Intents, Intends, Records
    <2>3. Kept'
      BY <1>3, <2>1 DEF Kept, Records
    <2>4. Named' /\ Forgotten' /\ Audible'
      BY <2>1, StageOf DEF Named, Naming, Resuming, Forgotten, Audible
    <2> QED BY <2>2, <2>3, <2>4
  <1> QED BY <1>6, <1>7

LEMMA SuccessProcess ==
  ASSUME Known, RulesInv, SuccessInv, RequestStop \/ Crash \/ Boot PROVE SuccessInv'
  <1> USE DEF SuccessInv
  <1>1. CASE RequestStop
    <2>1. UNCHANGED <<sacl, policy, owned, polOwned, disk, mem, cfg, bnd, active, running, pending,
                      result, pc, op, stage, todo, deferred, done, cur, failed, restoring>>
      BY <1>1 DEF RequestStop, machine, local, work
    <2>2. NothingUnnamed' /\ Intents' /\ Kept'
      BY <2>1 DEF NothingUnnamed, Intents, Intends, Kept, Records
    <2>3. Named' /\ Forgotten' /\ Audible'
      BY <2>1 DEF Named, Naming, Resuming, Forgotten, Records, Audible
    <2> QED BY <2>2, <2>3
  <1>2. CASE Crash
    <2>1. /\ Finish("none") /\ Intends(mem') /\ disk' = disk /\ pending' = {}
      BY <1>2, BlankIntends DEF Crash
    <2> QED BY <2>1, SuccessReturned
  <1>3. CASE Boot
    <2>1. /\ UNCHANGED <<disk, cfg, bnd, pc, op, stage, todo, deferred, done, cur, failed, restoring>>
          /\ mem' = disk /\ pending' = {} /\ result' = "none" /\ service = "down"
      BY <1>3 DEF Boot, local, work
    <2>2. pc = "idle" /\ stage = "none" /\ deferred = {}
      BY <2>1, StageOf DEF Known, AuthorityInv, Flow, RulesInv, Locals
    <2>3. NothingUnnamed' /\ Intents' /\ Kept'
      BY <2>1, <2>2 DEF NothingUnnamed, Intents, Intends, Kept, Records
    <2>4. Named' /\ Forgotten' /\ Audible'
      BY <2>1, <2>2 DEF Named, Naming, Resuming, Forgotten, Audible
    <2> QED BY <2>3, <2>4
  <1> QED BY <1>1, <1>2, <1>3

\* Outside the windows, the policy and the marks of a start are left alone until
\* it has ended.
LEMMA SuccessWorld == ASSUME NoGaps, Known, SuccessInv, World PROVE SuccessInv'
  <1> USE DEF SuccessInv
  <1>1. /\ UNCHANGED <<disk, mem, cfg, running, pending, result, pc, op, stage, todo, deferred, done,
                       cur, failed, restoring>>
        /\ owned' \subseteq owned /\ (polOwned' => polOwned)
        /\ StartWindow => policy' = policy
    BY DEF World, Detach, Attach, Reassign, Delete, EditRules, EditPolicy, Outside, machine, NoGaps,
           Raced
  <1>2. active'.mech = active.mech /\ active'.att = active.att
        /\ bnd'.mech = bnd.mech /\ bnd'.att = bnd.att
    <2>1. ASSUME NEW v \in Volumes, Detach(v)
          PROVE  /\ active'.mech = active.mech /\ active'.att = active.att
                 /\ bnd'.mech = bnd.mech /\ bnd'.att = bnd.att
      BY <2>1 DEF Detach, Known, TypeInv, TypeOK, Bound
    <2>2. UNCHANGED <<active, bnd>> \/ \E v \in Volumes : Detach(v)
      BY DEF World, Attach, Reassign, Delete, EditRules, EditPolicy
    <2> QED BY <2>1, <2>2
  <1>3. \A o \in done : sacl'[o] = sacl[o]
    <2>1. ASSUME NEW o \in Objects, EditRules(o) PROVE \A x \in done : sacl'[x] = sacl[x]
      BY <2>1 DEF EditRules, NoGaps, Raced, Exposed, Known, TypeInv, TypeOK
    <2>2. UNCHANGED sacl \/ \E o \in Objects : EditRules(o)
      BY DEF World, Detach, Attach, Reassign, Delete, EditPolicy, machine
    <2> QED BY <2>1, <2>2
  <1>4. NothingUnnamed'
    BY <1>1, <1>2 DEF NothingUnnamed
  <1>5. Intents' /\ Kept' /\ Named' /\ Forgotten'
    BY <1>1 DEF Intents, Intends, Kept, Records, Named, Naming, Resuming, Forgotten
  <1>6. Audible'
    BY <1>1, <1>2, <1>3 DEF Audible, StartWindow
  <1> QED BY <1>4, <1>5, <1>6
-----------------------------------------------------------------------------
LEMMA SuccessNext == ASSUME NoGaps, Known, RulesInv, SuccessInv, Next PROVE SuccessInv'
  BY SuccessBegin, SuccessBind, SuccessUndo, SuccessRestore, SuccessEnsure, SuccessMark,
     SuccessBeginRun, SuccessCommit, SuccessLaunch, SuccessFailed, SuccessEnds, SuccessProcess,
     SuccessWorld
  DEF Next, Operation

LEMMA SuccessStutter == ASSUME SuccessInv, UNCHANGED vars PROVE SuccessInv'
  <1>1. UNCHANGED <<sacl, policy, owned, polOwned, disk, mem, cfg, bnd, active, running, pending,
                    result, pc, op, stage, todo, deferred, done, cur, failed, restoring>>
    BY DEF vars, machine, engine, local, work
  <1>2. NothingUnnamed' /\ Intents' /\ Kept'
    BY <1>1 DEF SuccessInv, NothingUnnamed, Intents, Intends, Kept, Records
  <1>3. Named' /\ Forgotten' /\ Audible'
    BY <1>1 DEF SuccessInv, Named, Naming, Resuming, Forgotten, Records, Audible
  <1> QED BY <1>2, <1>3 DEF SuccessInv

\* What has to hold inside an operation for its success to be true (SuccessInv).
THEOREM SuccessCorrect == NoGaps /\ OneVolumePerPath /\ Spec => []SuccessInv
  <1>1. NoGaps /\ Spec => []Known
    BY TypeCorrect, AuthorityCorrect, PolicyCorrect, PTL DEF Known
  <1>2. NoGaps /\ Known /\ RulesInv /\ SuccessInv /\ [Next]_vars => SuccessInv'
    BY SuccessNext, SuccessStutter
  <1>3. NoGaps => NoGaps'
    BY DEF NoGaps
  <1> QED BY <1>1, <1>2, <1>3, RulesCorrect, SuccessInit, PTL DEF Spec

\* An operation that reports success leaves nothing of ReadWatch's behind but
\* the marks of the folders it watches and the rules it names as pending (the
\* results of OnViewerHello, startMonitoringBound, applyBound and
\* stopMonitoringLocked).
THEOREM NothingUnnamedCorrect == NoGaps /\ OneVolumePerPath /\ Spec => []NothingUnnamed
  <1>1. SuccessInv => NothingUnnamed
    BY DEF SuccessInv
  <1> QED BY <1>1, SuccessCorrect, PTL

\* The watcher is only started on audit rules when every folder it is told to
\* watch carries one and the policy lets it be heard (startWithCapabilities).
THEOREM LaunchIsBackedCorrect == NoGaps /\ OneVolumePerPath /\ Spec => LaunchIsBacked
  <1> DEFINE Backed == running' /\ ~running /\ active'.mech = "markers"
                         => "success" \in policy /\ \A o \in active'.att : "rule" \in sacl[o]
  <1>1. ASSUME Known, SuccessInv, Next PROVE Backed
    <2>1. CASE Launch
      <3>1. /\ active' = bnd /\ pc = "launch" /\ stage \in {"run", "giveback"}
        BY <1>1, <2>1, StageOf DEF Launch
      <3> QED BY <1>1, <3>1 DEF SuccessInv, Audible
    <2>2. CASE ~Launch
      <3>1. running' => running
        BY <1>1, <2>2
        DEF Next, Operation, Begin, BeginHello, BeginStart, BeginSave, BeginApply, BeginStop,
            BeginShutdown, Stopping, Bind, BindFails, AfterBind, WithdrawRule, SettleWithdrawal,
            DropRecord, DeferRecord, WithdrawFails, Withdrawn, NothingToRestore, RestorePolicy,
            RestorePolicyFails, ForgetPolicy, Restoring, BeginRun, EnsurePolicy, EnablePolicy,
            ConfirmPolicy, Ensuring, AlreadyMarked, PrepareMark, MarkRefused, AddRule, ConfirmMark,
            Marking, KeepAll, Commit, LaunchFails, Disable, Failed, HelloDone, RecordBound, StopSave,
            RequestStop, Crash, Boot, World, Detach, Attach, Reassign, Delete, EditRules, EditPolicy,
            Outside, engine
      <3> QED BY <3>1
    <2> QED BY <2>1, <2>2
  <1>2. Known /\ SuccessInv /\ [Next]_vars => [Backed]_vars
    BY <1>1
  <1>3. NoGaps /\ Spec => []Known
    BY TypeCorrect, AuthorityCorrect, PolicyCorrect, PTL DEF Known
  <1> QED BY <1>2, <1>3, SuccessCorrect, PTL DEF Spec, LaunchIsBacked
=============================================================================
