------------------------- MODULE InstallationProofs -------------------------
(***************************************************************************)
(* Installing and removing, wherever a program fails, is killed or is cut  *)
(* off by a restart: what a removal leaves is named, what has been         *)
(* installed stays, and what has been removed does not run.                *)
(***************************************************************************)
EXTENDS Installation, TLAPS

\* What the window's thread is draining has been announced, and the announcement taken.
Draining == at \in {"took", "empty"} => posted /\ ~message

(***************************************************************************)
(* The viewer.                                                             *)
(***************************************************************************)

Shown(x) == \E s \in Told \cup {Down}, e \in BOOLEAN : x = [s EXCEPT !.enabled = e]

ViewerInv == ViewerTypeOK /\ Draining

\* ViewerTypeOK in two parts: the flags, and the rest.
Flags == /\ client \in BOOLEAN /\ posted \in BOOLEAN /\ message \in BOOLEAN /\ posting \in BOOLEAN
         /\ woken \in BOOLEAN /\ timer \in BOOLEAN /\ removal \in BOOLEAN

Others ==
  /\ service \in {"none", "stopped", "running"} /\ viewer \in {"on", "off"}
  /\ slot \in Told \cup {Down, Nothing} /\ (message => posted)
  /\ at \in {"idle", "took", "empty", "cleared"}
  /\ Shown(shown)
  /\ command \in Commands \cup {Nothing}
  /\ stage \in {"none", "begun", "attaching", "waiting"} /\ (stage = "none" <=> command = Nothing)
  /\ (removal => timer)
  /\ viewer = "off" => ~client /\ ~posting /\ stage = "none"

LEMMA ReportIs ==
  /\ Nothing \notin Told \cup {Down}
  /\ \A s \in Told \cup {Down} : Shown(s) /\ \A e \in BOOLEAN : Shown([s EXCEPT !.enabled = e])
  /\ \A s : Shown(s) => s.enabled \in BOOLEAN
  <1> DEFINE State == [ready : BOOLEAN, running : BOOLEAN, enabled : BOOLEAN, waiting : BOOLEAN,
                       pending : BOOLEAN]
  <1>1. \A s \in Told \cup {Down} : s \in State
    <2>1. Reports \subseteq State
      BY DEF Reports
    <2>2. Down \in State
      BY DEF Down
    <2> HIDE DEF State
    <2> QED BY <2>1, <2>2, ToldAssumption
  <1>2. \A s \in State : s.enabled \in BOOLEAN /\ s = [s EXCEPT !.enabled = s.enabled]
    OBVIOUS
  <1>3. \A s \in State : \A e \in BOOLEAN : [s EXCEPT !.enabled = e].enabled = e
    OBVIOUS
  <1> HIDE DEF State
  <1>4. \A s \in Told \cup {Down} : Shown(s) /\ \A e \in BOOLEAN : Shown([s EXCEPT !.enabled = e])
    BY <1>1, <1>2 DEF Shown
  <1>5. \A s : Shown(s) => s.enabled \in BOOLEAN
    BY <1>1, <1>3 DEF Shown
  <1> QED BY <1>4, <1>5, NothingAssumption, ToldAssumption

LEMMA NothingIs == \A c \in Commands : c # Nothing
  BY NothingAssumption

LEMMA ViewerParts == ViewerTypeOK <=> Flags /\ Others
  BY DEF ViewerTypeOK, Flags, Others, Shown

LEMMA ViewerPartsNext == ViewerTypeOK' <=> Flags' /\ Others'
  BY DEF ViewerTypeOK, Flags, Others, Shown

LEMMA ViewerStarts == ViewerInit /\ service \in {"none", "stopped"} => ViewerInv
  <1> SUFFICES ASSUME ViewerInit, service \in {"none", "stopped"} PROVE ViewerInv
    OBVIOUS
  <1>1. Flags
    BY DEF ViewerInit, Flags
  <1>2. Others /\ Draining
    BY ReportIs DEF ViewerInit, Others, Draining
  <1> QED BY <1>1, <1>2, ViewerParts DEF ViewerInv

LEMMA ViewerStays == ASSUME ViewerInv, UNCHANGED viewerVars PROVE ViewerInv'
  BY DEF ViewerInv, ViewerTypeOK, Draining, viewerVars, mail, work

\* Only the service changes.
LEMMA ViewerServed ==
  ASSUME ViewerInv, UNCHANGED <<viewer, client, mail, work>>, service' \in {"none", "stopped", "running"}
  PROVE  ViewerInv'
  BY DEF ViewerInv, ViewerTypeOK, Draining, mail, work

LEMMA ViewerOpens == ASSUME ViewerInv, Launch PROVE ViewerInv'
  BY DEF ViewerInv, ViewerTypeOK, Draining, Launch, mail, work

LEMMA ViewerGoes ==
  ASSUME WindowGone, service' \in {"none", "stopped", "running"}
  PROVE  ViewerInv'
  <1>1. Flags'
    BY DEF WindowGone, Flags
  <1>2. Others' /\ Draining'
    BY ReportIs DEF WindowGone, Others, Draining
  <1> QED BY <1>1, <1>2, ViewerPartsNext DEF ViewerInv

\* What reaches the slot, and the flag that goes with it.
LEMMA ViewerMail ==
  ASSUME ViewerInv,
         Post \/ (\E s \in Told : Receive(s)) \/ Disconnect \/ LoopStarts \/ Connect \/ ServiceEnds
  PROVE  ViewerInv'
  <1> USE ViewerParts DEF ViewerInv
  <1>1. CASE Post
    <2>1. Flags'
      BY <1>1, Zenon DEF Flags, Post, work
    <2>2. Others' /\ Draining'
      BY <1>1 DEF Others, Draining, Post, work
    <2> QED BY <2>1, <2>2, ViewerPartsNext
  <1>2. CASE \E s \in Told : Receive(s)
    <2>1. PICK s \in Told : Receive(s)
      BY <1>2
    <2>2. /\ client /\ slot' = s /\ posting' = TRUE
          /\ UNCHANGED <<service, viewer, client, posted, message, at, woken, shown, timer, removal>>
          /\ \/ UNCHANGED <<command, stage>>
             \/ command' = Nothing /\ stage' = "none"
             \/ stage = "waiting" /\ command = "apply" /\ command' = "rollback" /\ UNCHANGED stage
      BY <2>1 DEF Receive, Put, Ended, SignInFails
    <2>3. command' \in Commands \cup {Nothing} /\ (stage' = "none" <=> command' = Nothing)
          /\ stage' \in {"none", "begun", "attaching", "waiting"}
      BY <2>2, NothingIs DEF Others, Commands
    <2>4. Flags'
      BY <2>2 DEF Flags
    <2>5. Others' /\ Draining'
      BY <2>2, <2>3 DEF Others, Draining
    <2> QED BY <2>4, <2>5, ViewerPartsNext
  <1>3. CASE Disconnect \/ Connect
    <2>1. /\ UNCHANGED <<service, viewer, posted, message, at, woken, shown, work>>
          /\ client' \in BOOLEAN /\ posting' \in {posting, TRUE} /\ slot' \in {slot, Down}
          /\ (client' => viewer = "on" \/ client) /\ (posting' => viewer = "on" \/ client \/ posting)
      BY <1>3 DEF Disconnect, Connect, Put, Flags
    <2>2. Flags'
      BY <2>1, Zenon DEF Flags, work
    <2>3. Others' /\ Draining'
      BY <2>1 DEF Others, Draining, work
    <2> QED BY <2>2, <2>3, ViewerPartsNext
  <1>4. CASE LoopStarts \/ ServiceEnds
    BY <1>4, ViewerServed DEF LoopStarts, ServiceEnds
  <1> QED BY <1>1, <1>2, <1>3, <1>4

\* The window's thread takes it.
LEMMA ViewerDrains == ASSUME ViewerInv, Take \/ Lower \/ LookAgain PROVE ViewerInv'
  <1> USE ViewerParts DEF ViewerInv
  <1>1. CASE Take
    <2>1. /\ at = "idle" /\ message /\ message' = FALSE /\ slot' = Nothing /\ at' \in {"took", "empty"}
          /\ UNCHANGED <<service, viewer, client, posted, posting, woken, command, stage, timer, removal>>
          /\ \/ UNCHANGED shown
             \/ slot # Nothing /\ shown' = IF slot.ready THEN slot ELSE [slot EXCEPT !.enabled = shown.enabled]
      BY <1>1 DEF Take, work
    <2>2. Shown(shown')
      BY <2>1, ReportIs DEF Others
    <2>3. Flags'
      BY <2>1 DEF Flags
    <2>4. Others' /\ Draining'
      BY <2>1, <2>2 DEF Others, Draining
    <2> QED BY <2>3, <2>4, ViewerPartsNext
  <1>2. CASE Lower
    <2>1. Flags'
      BY <1>2, Zenon DEF Flags, Lower, work
    <2>2. Others' /\ Draining'
      BY <1>2 DEF Others, Draining, Lower, work
    <2> QED BY <2>1, <2>2, ViewerPartsNext
  <1>3. CASE LookAgain
    <2>1. Flags'
      BY <1>3, Zenon DEF Flags, LookAgain, work
    <2>2. Others' /\ Draining'
      BY <1>3 DEF Others, Draining, LookAgain, work
    <2> QED BY <2>1, <2>2, ViewerPartsNext
  <1> QED BY <1>1, <1>2, <1>3

\* A command and its end.
LEMMA ViewerWorks ==
  ASSUME ViewerInv,
         \/ (\E c \in {"start", "stop", "apply"} : Press(c)) \/ (\E gone \in BOOLEAN : DeviceChange(gone))
         \/ DevicesChanged \/ CommandSteps
  PROVE  ViewerInv'
  <1> USE ViewerParts DEF ViewerInv
  <1>1. UNCHANGED <<viewer, client, mail>> /\ service' \in {service, "running"}
    BY DEF Press, DeviceChange, DevicesChanged, CommandSteps, Dispatch, GiveUp
  <1>2. \/ UNCHANGED <<command, stage>>
        \/ command' \in Commands /\ stage' = "begun" /\ viewer = "on"
        \/ command' = Nothing /\ stage' = "none"
        \/ stage # "none" /\ stage' \in {"waiting", "attaching"} /\ UNCHANGED command
    BY DEF Press, DeviceChange, DevicesChanged, CommandSteps, Dispatch, GiveUp, Begin, Wanted, Commands, Ended
  <1>3. timer' \in BOOLEAN /\ removal' \in BOOLEAN
    BY Zenon DEF Flags, Press, DeviceChange, DevicesChanged, CommandSteps, Dispatch, GiveUp
  <1>4. removal' => timer'
    BY DEF Others, Press, DeviceChange, DevicesChanged, CommandSteps, Dispatch, GiveUp
  <1>5. /\ command' \in Commands \cup {Nothing} /\ stage' \in {"none", "begun", "attaching", "waiting"}
        /\ (stage' = "none" <=> command' = Nothing) /\ (viewer = "off" => stage' = "none")
    BY <1>2, NothingIs DEF Others
  <1>6. Flags'
    BY <1>1, <1>3 DEF Flags, mail
  <1>7. Others' /\ Draining'
    BY <1>1, <1>4, <1>5 DEF Others, Draining, mail
  <1> QED BY <1>6, <1>7, ViewerPartsNext

LEMMA ViewerStep == ASSUME ViewerInv, ViewerNext PROVE ViewerInv'
  <1>1. CASE Exit
    <2>1. WindowGone /\ service' \in {"none", "stopped", "running"}
      BY <1>1 DEF Exit
    <2> QED BY <2>1, ViewerGoes
  <1> QED BY <1>1, ViewerMail, ViewerDrains, ViewerWorks DEF ViewerNext

(***************************************************************************)
(* The programs.                                                           *)
(***************************************************************************)

\* One drive, or drives that stay as they are while a program runs: none comes back between
\* the cleanup and the question.
Steady == (\A d, e \in Drives : d = e) \/ MaxMoves = 0

\* What the cleanup has left is on drives that are not there.
Cleaned == tool \in {"halt", "gate"} /\ MaxMoves = 0 => journal \cap present = {}

\* Up to the gate every rule has a record.
Recorded == tool \notin {"traces", "delete", "erase", "schedule", "unregister"} => rules \subseteq journal

\* Past the gate the owner has agreed to every record that is left.
Agreed == tool \in {"traces", "delete", "erase"} => journal \subseteq consented

\* No order to delete what is being installed, and nothing runs of what is being removed.
Withdrawn == tool \in {"copy", "save", "create", "register"} => order # "sound"
Halted == /\ tool \in {"delete", "erase", "schedule", "unregister"} => ~session
          /\ tool \in {"erase", "schedule", "unregister"} => service = "none"

InstallationInv == TypeOK /\ Draining /\ Withdrawn /\ Halted

RemovalInv == RulesAreNamed /\ Recorded /\ Cleaned /\ Agreed

\* TypeOK but for the viewer's part.
Machine ==
  /\ tool \in InstallSteps \cup RemoveSteps \cup {"idle"}
  /\ config \in BOOLEAN /\ exe \in BOOLEAN /\ registered \in BOOLEAN
  /\ order \in {"none", "sound", "odd"}
  /\ present \subseteq Drives /\ moves \in 0..MaxMoves
  /\ rules \subseteq Drives /\ journal \subseteq Drives /\ session \in BOOLEAN
  /\ consented \subseteq Drives
  /\ tool # "idle" => viewer = "off"

LEMMA TypeIs == InstallationInv <=> ViewerInv /\ Machine /\ Withdrawn /\ Halted
  BY DEF InstallationInv, TypeOK, ViewerInv, Machine

LEMMA TypeIsNext == InstallationInv' <=> ViewerInv' /\ Machine' /\ Withdrawn' /\ Halted'
  BY DEF InstallationInv, TypeOK, ViewerInv, Machine

\* A step of a program leaves the viewer alone, but for the service it may stop, make or
\* remove.
LEMMA ViewerUnderTool ==
  ASSUME InstallationInv, Fail \/ (Install /\ tool # "register") \/ (Remove /\ tool # "register")
                          \/ \E d \in Drives : Move(d)
  PROVE  ViewerInv'
  <1>1. /\ UNCHANGED <<viewer, client, mail, work>>
        /\ service' \in {service, "none", "stopped"}
    BY DEF Fail, Install, Remove, Move, InstallBegins, RemoveBegins, Begins, Stopped, CancelPendingDeletion,
           Copy, SaveConfig, CreateService, Register, CleanByService, CleanDirectly, Gate, StopTraces,
           DeleteService, Erase, Schedule, Unregister, AtStep, viewerVars
  <1>2. service \in {"none", "stopped", "running"}
    BY DEF InstallationInv, TypeOK, ViewerTypeOK
  <1> QED BY <1>1, <1>2, ViewerServed, TypeIs

\* What every step of a program that goes on leaves alone.
LEMMA Booleans ==
  ASSUME Machine, Install \/ Remove \/ Fail \/ Restart \/ OwnerLaunches \/ \E d \in Drives : Move(d)
  PROVE  config' \in BOOLEAN /\ exe' \in BOOLEAN /\ registered' \in BOOLEAN /\ session' \in BOOLEAN
  <1>1. CASE Install
    BY <1>1, Zenon DEF Machine, Install, InstallBegins, Begins, Stopped, CancelPendingDeletion, Copy, SaveConfig,
                CreateService, Register, Ends, NotFollowed, files, drives
  <1>2. CASE Remove
    BY <1>2, Zenon DEF Machine, Remove, RemoveBegins, Begins, Stopped, CleanByService, CleanDirectly, Gate,
                StopTraces, DeleteService, Erase, Schedule, Unregister, Ends, NotFollowed, files, drives
  <1>3. CASE Fail \/ Restart \/ OwnerLaunches \/ \E d \in Drives : Move(d)
    BY <1>3, Zenon DEF Machine, Fail, Restart, OwnerLaunches, Move, Ends, NotFollowed, files, drives
  <1> QED BY <1>1, <1>2, <1>3

\* A program ends, well or not.
LEMMA EndsKeep ==
  ASSUME InstallationInv, Ends, ViewerInv', order' \in {"none", "sound", "odd"},
         config' \in BOOLEAN, exe' \in BOOLEAN, registered' \in BOOLEAN, session' \in BOOLEAN
  PROVE  InstallationInv'
  <1>1. Machine' /\ Withdrawn' /\ Halted'
    BY MovesAssumption DEF Ends, NotFollowed, Machine, Withdrawn, Halted, InstallSteps, RemoveSteps
  <1> QED BY <1>1, TypeIsNext

LEMMA EndsInstallation ==
  ASSUME InstallationInv, Fail \/ Register \/ Unregister \/ Restart
  PROVE  InstallationInv'
  <1>1. Ends /\ order' \in {"none", "sound", "odd"}
    BY DEF Fail, Register, Unregister, Restart, files, InstallationInv, TypeOK
  <1>2. config' \in BOOLEAN /\ exe' \in BOOLEAN /\ registered' \in BOOLEAN /\ session' \in BOOLEAN
    BY Booleans, TypeIs DEF Install, Remove
  <1>3. ViewerInv'
    <2>1. CASE Fail
      BY <2>1, ViewerUnderTool
    <2>2. CASE Register
      BY <2>2, ViewerOpens, TypeIs DEF Register
    <2>3. CASE Unregister
      <3>1. tool = "unregister"
        BY <2>3 DEF Unregister
      <3> QED BY <2>3, <3>1, ViewerUnderTool DEF Remove
    <2>4. CASE Restart
      <3>1. WindowGone /\ service' \in {"none", "stopped", "running"}
        BY <2>4 DEF Restart
      <3> QED BY <3>1, ViewerGoes
    <2> QED BY <2>1, <2>2, <2>3, <2>4
  <1> QED BY <1>1, <1>2, <1>3, EndsKeep

LEMMA BeginsInstallation == ASSUME InstallationInv, InstallBegins \/ RemoveBegins PROVE InstallationInv'
  <1>1. /\ tool' \in {"stop", "clean", "halt"} /\ Begins
    BY DEF InstallBegins, RemoveBegins
  <1>2. config' \in BOOLEAN /\ exe' \in BOOLEAN /\ registered' \in BOOLEAN /\ session' \in BOOLEAN
    BY Booleans, TypeIs DEF Install, Remove
  <1>3. ViewerInv'
    <2>1. tool # "register"
      BY <1>1 DEF Begins
    <2> QED BY <2>1, ViewerUnderTool DEF Install, Remove
  <1>4. Machine'
    <2>1. UNCHANGED <<viewer, order>> /\ viewer = "off" /\ moves' = 0 /\ consented' = {}
      BY <1>1 DEF Begins, viewerVars, files
    <2>2. present' \subseteq Drives /\ journal' \subseteq Drives /\ rules' \subseteq Drives
      BY <1>1 DEF Begins
    <2>3. order \in {"none", "sound", "odd"}
      BY TypeIs DEF Machine
    <2> QED BY <1>1, <1>2, <2>1, <2>2, <2>3, MovesAssumption DEF Machine, InstallSteps, RemoveSteps
  <1>5. Withdrawn' /\ Halted'
    BY <1>1 DEF Withdrawn, Halted
  <1> QED BY <1>3, <1>4, <1>5, TypeIsNext

\* The steps between.
LEMMA StepsInstallation ==
  ASSUME InstallationInv,
         \/ Stopped("stop", "cancel") \/ CancelPendingDeletion \/ Copy \/ SaveConfig \/ CreateService
         \/ CleanByService \/ Stopped("clean", "recover") \/ CleanDirectly \/ Stopped("halt", "gate")
         \/ Gate \/ StopTraces \/ DeleteService \/ Erase \/ Schedule
         \/ \E d \in Drives : Move(d)
  PROVE  InstallationInv'
  <1>1. /\ config' \in BOOLEAN /\ exe' \in BOOLEAN /\ registered' \in BOOLEAN /\ session' \in BOOLEAN
        /\ Machine /\ Withdrawn /\ Halted
    BY Booleans, TypeIs DEF Install, Remove
  <1>2. /\ UNCHANGED viewer /\ tool # "idle" /\ tool' \in (InstallSteps \cup RemoveSteps) \ {"idle"}
        /\ tool = "register" => \E d \in Drives : Move(d)
    <2>1. CASE \E d \in Drives : Move(d)
      <3>1. UNCHANGED <<viewer, tool>> /\ tool # "idle"
        BY <2>1 DEF Move, viewerVars
      <3> QED BY <1>1, <2>1, <3>1 DEF Machine
    <2>2. CASE ~\E d \in Drives : Move(d)
      <3>1. CASE Stopped("stop", "cancel") \/ Stopped("clean", "recover") \/ Stopped("halt", "gate")
        BY <3>1 DEF Stopped, AtStep, InstallSteps, RemoveSteps
      <3>2. CASE CancelPendingDeletion \/ Copy \/ SaveConfig \/ CreateService
        BY <3>2 DEF CancelPendingDeletion, Copy, SaveConfig, CreateService, AtStep, viewerVars, InstallSteps
      <3>3. CASE CleanByService \/ CleanDirectly \/ Gate \/ StopTraces
        BY <3>3 DEF CleanByService, CleanDirectly, Gate, StopTraces, AtStep, viewerVars, RemoveSteps
      <3>4. CASE DeleteService \/ Erase \/ Schedule
        BY <3>4 DEF DeleteService, Erase, Schedule, AtStep, viewerVars, RemoveSteps
      <3> QED BY <2>2, <3>1, <3>2, <3>3, <3>4
    <2> QED BY <2>1, <2>2
  <1>3. ViewerInv'
    BY <1>2, ViewerUnderTool DEF Install, Remove
  <1>4. /\ rules' \subseteq rules /\ journal' \subseteq journal
        /\ consented' \in {consented, journal \ present}
        /\ order' \in {"none", "sound", "odd"}
    BY <1>1 DEF Stopped, Withdraws, CancelPendingDeletion, Copy, SaveConfig, CreateService, CleanByService,
           CleanDirectly, Gate, StopTraces, DeleteService, Erase, Schedule, Move, files, drives, Machine
  <1>5. present' \subseteq Drives /\ moves' \in 0..MaxMoves
    <2>1. CASE \E d \in Drives : Move(d)
      BY <1>1, <2>1, MovesAssumption DEF Move, Machine
    <2>2. CASE UNCHANGED <<present, moves>>
      BY <1>1, <2>2 DEF Machine
    <2> QED BY <2>1, <2>2 DEF Stopped, CancelPendingDeletion, Copy, SaveConfig, CreateService, CleanByService,
           CleanDirectly, Gate, StopTraces, DeleteService, Erase, Schedule, drives
  <1>6. Machine'
    BY <1>1, <1>2, <1>4, <1>5 DEF Machine
  <1>7. Withdrawn'
    BY <1>1, <1>2 DEF Withdrawn, Stopped, CancelPendingDeletion, Copy, SaveConfig, CreateService, CleanByService,
           CleanDirectly, Gate, StopTraces, DeleteService, Erase, Schedule, Move, AtStep, files, drives
  <1>8. Halted'
    BY <1>1, <1>2 DEF Halted, Stopped, CancelPendingDeletion, Copy, SaveConfig, CreateService, CleanByService,
           CleanDirectly, Gate, StopTraces, DeleteService, Erase, Schedule, Move, AtStep, files, drives, viewerVars
  <1> QED BY <1>3, <1>6, <1>7, <1>8, TypeIsNext

\* The viewer and its service, while no program runs.
LEMMA ViewerInstallation ==
  ASSUME InstallationInv, OwnerLaunches \/ (tool = "idle" /\ ViewerNext /\ Apart)
  PROVE  InstallationInv'
  <1>1. UNCHANGED <<tool, files, drives>> /\ tool = "idle"
    BY DEF OwnerLaunches, Apart
  <1>2. ViewerInv'
    BY ViewerStep, ViewerOpens, TypeIs DEF OwnerLaunches
  <1>3. Machine' /\ Withdrawn' /\ Halted'
    BY <1>1, TypeIs DEF Machine, Withdrawn, Halted, files, drives
  <1> QED BY <1>2, <1>3, TypeIsNext

\* The inductive invariant: what is known at each step of a program of the service, the trace
\* sessions and the order to delete, and what the window's thread is about.
THEOREM InstallationCorrect == Spec => []InstallationInv
  <1>1. Init => InstallationInv
    <2> SUFFICES ASSUME Init PROVE InstallationInv
      OBVIOUS
    <2>1. ViewerInv
      BY ViewerStarts DEF Init
    <2>2. config \in BOOLEAN /\ exe \in BOOLEAN /\ registered \in BOOLEAN /\ session \in BOOLEAN
      BY Zenon DEF Init
    <2>3. /\ tool = "idle" /\ order = "none" /\ present = {} /\ moves = 0 /\ rules = {} /\ journal = {}
          /\ consented = {}
      BY DEF Init
    <2>4. Machine /\ Withdrawn /\ Halted
      BY <2>2, <2>3, MovesAssumption DEF Machine, Withdrawn, Halted
    <2> QED BY <2>1, <2>4, TypeIs
  <1>2. InstallationInv /\ [Next]_vars => InstallationInv'
    <2> SUFFICES ASSUME InstallationInv, [Next]_vars PROVE InstallationInv'
      OBVIOUS
    <2>1. CASE UNCHANGED vars
      <3>1. UNCHANGED viewerVars /\ UNCHANGED <<tool, files, drives>> /\ UNCHANGED service
        BY <2>1 DEF vars, viewerVars
      <3>2. UNCHANGED viewer
        BY <3>1 DEF viewerVars
      <3>3. ViewerInv'
        BY <3>1, ViewerStays, TypeIs
      <3>4. Machine' /\ Withdrawn' /\ Halted'
        BY <3>1, <3>2, TypeIs DEF Machine, Withdrawn, Halted, files, drives
      <3> QED BY <3>3, <3>4, TypeIsNext
    <2> QED BY <2>1, EndsInstallation, BeginsInstallation, StepsInstallation, ViewerInstallation
            DEF Next, Install, Remove
  <1> QED BY <1>1, <1>2, PTL DEF Spec

\* Every reachable state of the window, the service and the two programs is well typed: a
\* message is in the queue only while the flag says so, a command in flight has its stage,
\* and no viewer is open while a program runs.
THEOREM TypeOKCorrect == Spec => []TypeOK
  BY InstallationCorrect, PTL DEF InstallationInv

\* An installation that succeeds is not deleted at the next restart by an older removal's
\* order (cancelPendingDeletion), unless the order is in a list nobody may touch.
THEOREM InstallationStaysCorrect == Spec => InstallationStays
  <1>1. InstallationInv /\ [Next]_vars =>
          [tool = "register" /\ tool' = "idle" /\ registered' => order # "sound"]_vars
    BY DEF InstallationInv, Withdrawn
  <1> QED BY <1>1, InstallationCorrect, PTL DEF Spec, InstallationStays

\* A removal that succeeds leaves neither service nor trace session (stopInstalledService,
\* StopStale, deleteInstalledService), whatever was killed before.
THEOREM NothingIsLeftRunningCorrect == Spec => NothingIsLeftRunning
  <1>1. InstallationInv /\ [Next]_vars =>
          [tool = "unregister" /\ ~registered' => service = "none" /\ ~session]_vars
    BY DEF InstallationInv, Halted
  <1> QED BY <1>1, InstallationCorrect, PTL DEF Spec, NothingIsLeftRunning

(***************************************************************************)
(* The records a removal leaves.                                           *)
(***************************************************************************)

LEMMA RemovalStep ==
  ASSUME Steady, InstallationInv, RemovalInv, Next
  PROVE  RemovalInv'
  <1>1. Machine
    BY TypeIs
  <1>2. CASE Fail \/ Register \/ Unregister \/ Restart
    BY <1>2 DEF Fail, Register, Unregister, Restart, Ends, NotFollowed, RemovalInv, RulesAreNamed, Recorded, Cleaned, Agreed
  <1>3. CASE InstallBegins \/ RemoveBegins
    BY <1>1, <1>3, Zenon DEF InstallBegins, RemoveBegins, Begins, RemovalInv, RulesAreNamed, Recorded, Cleaned, Agreed, Machine
  <1>4. CASE \/ Stopped("stop", "cancel") \/ CancelPendingDeletion \/ Copy \/ SaveConfig \/ CreateService
    BY <1>4 DEF Stopped, Withdraws, CancelPendingDeletion, Copy, SaveConfig, CreateService, AtStep, files, drives,
                RemovalInv, RulesAreNamed, Recorded, Cleaned, Agreed
  <1>5. CASE CleanByService \/ CleanDirectly
    BY <1>5 DEF CleanByService, CleanDirectly, AtStep, RemovalInv, RulesAreNamed, Recorded, Cleaned, Agreed
  <1>6. CASE Stopped("clean", "recover") \/ Stopped("halt", "gate")
    BY <1>6 DEF Stopped, Withdraws, AtStep, RemovalInv, RulesAreNamed, Recorded, Cleaned, Agreed
  <1>7. CASE Gate
    <2>1. /\ tool = "gate" /\ tool' = "traces" /\ UNCHANGED <<present, rules, journal>>
          /\ \/ journal = {} /\ UNCHANGED consented
             \/ journal \ present # {} /\ consented' = journal \ present
      BY <1>7 DEF Gate, AtStep
    <2>2. journal \ present # {} => journal \subseteq journal \ present
      <3>1. CASE MaxMoves = 0
        BY <2>1, <3>1 DEF RemovalInv, Cleaned
      <3>2. CASE \A d, e \in Drives : d = e
        BY <1>1, <3>2 DEF Machine
      <3> QED BY <3>1, <3>2 DEF Steady
    <2>3. RulesAreNamed' /\ Recorded'
      BY <2>1 DEF RemovalInv, RulesAreNamed, Recorded
    <2>4. Cleaned' /\ Agreed'
      BY <2>1, <2>2 DEF Cleaned, Agreed
    <2> QED BY <2>3, <2>4 DEF RemovalInv
  <1>8. CASE StopTraces \/ DeleteService \/ Erase \/ Schedule
    BY <1>8 DEF StopTraces, DeleteService, Erase, Schedule, AtStep, drives, RemovalInv, RulesAreNamed, Recorded, Cleaned, Agreed
  <1>9. CASE \E d \in Drives : Move(d)
    <2>1. MaxMoves # 0 /\ UNCHANGED <<tool, rules, journal, consented>>
      BY <1>1, <1>9 DEF Move, Machine, files
    <2> QED BY <2>1 DEF RemovalInv, RulesAreNamed, Recorded, Cleaned, Agreed
  <1>10. CASE OwnerLaunches \/ (tool = "idle" /\ ViewerNext /\ Apart)
    BY <1>10 DEF OwnerLaunches, Apart, drives, RemovalInv, RulesAreNamed, Recorded, Cleaned, Agreed
  <1> QED BY <1>2, <1>3, <1>4, <1>5, <1>6, <1>7, <1>8, <1>9, <1>10 DEF Next, Install, Remove

\* Every audit rule on a drive has its record in the configuration, or the owner has agreed to
\* leave that one, wherever a removal fails or ends (confirmUnresolvedAuditState), if there is one
\* drive, or the drives stay as they are while a program runs.
THEOREM RulesAreNamedCorrect == Steady /\ Spec => []RulesAreNamed
  <1>1. Steady /\ InstallationInv /\ RemovalInv /\ [Next]_vars => RemovalInv'
    <2> SUFFICES ASSUME Steady, InstallationInv, RemovalInv, [Next]_vars PROVE RemovalInv'
      OBVIOUS
    <2>1. CASE UNCHANGED vars
      BY <2>1 DEF vars, drives, RemovalInv, RulesAreNamed, Recorded, Cleaned, Agreed
    <2> QED BY <2>1, RemovalStep
  <1>2. Init => RemovalInv
    BY DEF Init, RemovalInv, RulesAreNamed, Recorded, Cleaned, Agreed
  <1>3. Steady => Steady'
    BY DEF Steady
  <1>4. RemovalInv => RulesAreNamed
    BY DEF RemovalInv
  <1> QED BY <1>1, <1>2, <1>3, <1>4, InstallationCorrect, PTL DEF Spec
=============================================================================
