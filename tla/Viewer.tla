------------------------------ MODULE Viewer ------------------------------
(***************************************************************************)
(* The viewer (ui_windows.go, IPCClient in ipc_windows.go, applySettings   *)
(* in settings_windows.go).                                                *)
(*                                                                         *)
(* A state the service has sent goes into a slot, and a message is posted  *)
(* to the window unless a flag says that one is under way already.  Slot,  *)
(* flag and message are steps of their own here, since the two sides meet  *)
(* between them.  Commands go to the service one at a time.  A drive that  *)
(* comes or goes arms a timer; when it is over the window looks at the     *)
(* state it shows, and may send a command of its own.                      *)
(*                                                                         *)
(* The service is what the viewer sees of it: it is there or not, says     *)
(* anything it may say at any time, and answers a command at any time or   *)
(* never (Monitoring and Lease have the rest).                             *)
(*                                                                         *)
(* What is left out: events and error messages, which have slots of their  *)
(* own; drawing, menus, dialogs, the list; timers and messages Windows     *)
(* refuses to make.                                                        *)
(***************************************************************************)
EXTENDS Integers

CONSTANTS Told,     \* the states the service may report
          Nothing   \* an empty slot, or no command

Reports == [ready : {TRUE}, running : BOOLEAN, enabled : BOOLEAN, waiting : BOOLEAN,
            pending : BOOLEAN]  \* folders that wait, rules that could not be removed
Down == [ready |-> FALSE, running |-> FALSE, enabled |-> FALSE, waiting |-> FALSE,
         pending |-> FALSE]

Commands == {"start", "stop", "apply", "rollback", "refresh", "resume"}

ASSUME ToldAssumption == Told \subseteq Reports
ASSUME NothingAssumption == Nothing \notin Reports \cup {Down} /\ Nothing \notin Commands

VARIABLES
  service,         \* of the Service Control Manager: none, stopped, running
  viewer,          \* on, off
  client,          \* u.client: the viewer is connected
  slot, posted,    \* pendingState, statePosted
  message,         \* wmAppState is in the window's queue
  posting,         \* the slot has been filled by a goroutine that has not posted yet
  at,              \* what drainState does: idle, took, empty, cleared
  woken,           \* it has returned early with something in the slot
  shown,           \* u.state
  command, stage,  \* the command in flight (commandBusy)
  timer, removal   \* idDeviceTimer, deviceRemoval

mail == <<slot, posted, message, posting, at, woken, shown>>
work == <<command, stage, timer, removal>>
viewerVars == <<service, viewer, client, mail, work>>

Quiet == {"refresh", "resume"}  \* runQuietCommand; "resume" is its CmdStart

ViewerTypeOK ==
  /\ service \in {"none", "stopped", "running"} /\ viewer \in {"on", "off"}
  /\ client \in BOOLEAN
  /\ slot \in Told \cup {Down, Nothing}
  /\ posted \in BOOLEAN /\ message \in BOOLEAN /\ (message => posted)
  /\ posting \in BOOLEAN /\ at \in {"idle", "took", "empty", "cleared"} /\ woken \in BOOLEAN
  /\ \E s \in Told \cup {Down}, e \in BOOLEAN : shown = [s EXCEPT !.enabled = e]
  /\ command \in Commands \cup {Nothing}
  /\ stage \in {"none", "begun", "attaching", "waiting"}
  /\ (stage = "none" <=> command = Nothing)
  /\ timer \in BOOLEAN /\ removal \in BOOLEAN /\ (removal => timer)
  /\ viewer = "off" => ~client /\ ~posting /\ stage = "none"

ViewerInit ==
  /\ viewer = "off" /\ client = FALSE
  /\ slot = Nothing /\ posted = FALSE /\ message = FALSE /\ posting = FALSE
  /\ at = "idle" /\ woken = FALSE /\ shown = Down
  /\ command = Nothing /\ stage = "none" /\ timer = FALSE /\ removal = FALSE
-----------------------------------------------------------------------------
(***************************************************************************)
(* Other goroutines to the window.                                         *)
(***************************************************************************)

\* queueState: the slot, and then the message unless the flag is up.
Put(x) == ~posting /\ posting' = TRUE /\ slot' = x

Post ==
  /\ posting /\ posting' = FALSE /\ posted' = TRUE /\ message' = (message \/ ~posted)
  /\ UNCHANGED <<service, viewer, client, slot, at, woken, shown, work>>

Ended == command' = Nothing /\ stage' = "none"

\* The settings are saved and the start at sign-in cannot be changed to follow: the old
\* choice is sent after them.
SignInFails == stage = "waiting" /\ command = "apply" /\ command' = "rollback" /\ UNCHANGED stage

\* The client's reader.  A reply carries a state too; it ends the command it answers.
Receive(s) ==
  /\ client /\ service = "running" /\ Put(s)
  /\ \/ UNCHANGED <<command, stage>>
     \/ stage = "waiting" /\ Ended
     \/ SignInFails
  /\ UNCHANGED <<service, viewer, client, posted, message, at, woken, shown>>
  /\ UNCHANGED <<timer, removal>>

\* closeWithError, and queueDisconnected.
Disconnect ==
  /\ client /\ service # "running" /\ client' = FALSE /\ Put(Down)
  /\ UNCHANGED <<service, viewer, posted, message, at, woken, shown, work>>

\* startConnectionLoop: the service is started, and then the pipe opened.
LoopStarts ==
  /\ viewer = "on" /\ ~client /\ service = "stopped" /\ service' = "running"
  /\ UNCHANGED <<viewer, client, mail, work>>

Connect ==
  /\ viewer = "on" /\ ~client
  /\ \/ service = "running" /\ client' = TRUE /\ UNCHANGED <<slot, posting>>
     \/ Put(Down) /\ UNCHANGED client
  /\ UNCHANGED <<service, viewer, posted, message, at, woken, shown, work>>

\* Its lease is over, or its process dies.
ServiceEnds ==
  /\ service = "running" /\ service' = "stopped"
  /\ UNCHANGED <<viewer, client, mail, work>>
-----------------------------------------------------------------------------
(***************************************************************************)
(* The window thread.                                                      *)
(***************************************************************************)

\* drainState: the slot is emptied, the flag lowered, and if something was taken the slot
\* is looked at again.  Without a service the last configuration is kept.
Take ==
  /\ at = "idle" /\ message /\ message' = FALSE /\ slot' = Nothing
  /\ \/ slot = Nothing /\ at' = "empty" /\ UNCHANGED shown
     \/ /\ slot # Nothing /\ at' = "took"
        /\ shown' = IF slot.ready THEN slot ELSE [slot EXCEPT !.enabled = shown.enabled]
  /\ UNCHANGED <<service, viewer, client, posted, posting, woken, work>>

Lower ==
  /\ at \in {"took", "empty"} /\ posted' = FALSE
  /\ at' = IF at = "took" THEN "cleared" ELSE "idle"
  /\ woken' = (woken \/ (at = "empty" /\ slot # Nothing))
  /\ UNCHANGED <<service, viewer, client, slot, message, posting, shown, work>>

\* (a slip: what came in meanwhile is left to a later message)
LookNot ==
  /\ at = "cleared" /\ at' = "idle"
  /\ UNCHANGED <<service, viewer, client, slot, posted, message, posting, woken>>
  /\ UNCHANGED <<shown, work>>

LookAgain ==
  /\ at = "cleared" /\ at' = "idle"
  /\ LET more == slot # Nothing /\ ~posted
     IN message' = (message \/ more) /\ posted' = (posted \/ more)
  /\ UNCHANGED <<service, viewer, client, slot, posting, woken, shown, work>>
-----------------------------------------------------------------------------
(***************************************************************************)
(* Commands.                                                               *)
(***************************************************************************)

Begin(c) == stage = "none" /\ stage' = "begun" /\ command' = c

\* toggleMonitoring, a saved settings dialog, an excluded process.
Press(c) ==
  /\ viewer = "on" /\ at = "idle" /\ Begin(c)
  /\ c = "apply" \/ c = IF shown.running THEN "stop" ELSE "start"
  /\ UNCHANGED <<service, viewer, client, mail, timer, removal>>

\* (a slip: a removal is noted, and no timer made to look at it)
DeviceUnarmed(gone) ==
  /\ viewer = "on" /\ removal' = (removal \/ gone) /\ UNCHANGED timer
  /\ UNCHANGED <<service, viewer, client, mail, command, stage>>

\* WM_DEVICECHANGE: armDeviceRefresh.
DeviceChange(gone) ==
  /\ viewer = "on" /\ timer' = TRUE /\ removal' = (removal \/ gone)
  /\ UNCHANGED <<service, viewer, client, mail, command, stage>>

\* What the window asks for by itself.
Wanted ==
  IF ~shown.ready THEN {}
  ELSE IF shown.running
       THEN IF removal \/ shown.waiting \/ shown.pending THEN {"refresh"} ELSE {}
       ELSE IF shown.enabled /\ shown.waiting THEN {"resume"}
            ELSE IF shown.pending THEN {"refresh"} ELSE {}

\* (a slip: a change that settles while a command is in flight is dropped)
DevicesDropped ==
  /\ viewer = "on" /\ timer /\ at = "idle" /\ timer' = FALSE /\ removal' = FALSE
  /\ IF stage = "none" /\ Wanted # {} THEN \E c \in Wanted : Begin(c)
                                      ELSE UNCHANGED <<command, stage>>
  /\ UNCHANGED <<service, viewer, client, mail>>

\* WM_TIMER and devicesChanged.  A timer that finds a command in flight is armed again.
DevicesChanged ==
  /\ viewer = "on" /\ timer /\ at = "idle" /\ timer' = FALSE /\ removal' = FALSE
  /\ ~shown.ready \/ stage = "none"
  /\ \/ \E c \in Wanted : Begin(c)
     \/ Wanted = {} /\ UNCHANGED <<command, stage>>
  /\ UNCHANGED <<service, viewer, client, mail>>

\* dispatchCommand and applySettings: without a connection only a Start the owner asked
\* for starts the service and waits for one.
Dispatch ==
  /\ \/ /\ stage \in {"begun", "attaching"} /\ client /\ stage' = "waiting"
        /\ UNCHANGED <<service, command>>
     \/ /\ stage = "begun" /\ ~client /\ command = "start" /\ service # "none"
        /\ stage' = "attaching" /\ service' = "running" /\ UNCHANGED command
     \/ /\ stage = "begun" /\ ~client /\ (command # "start" \/ service = "none") /\ Ended
        /\ UNCHANGED service
  /\ UNCHANGED <<viewer, client, mail, timer, removal>>

\* (a slip: a command whose connection is gone goes on waiting)
GiveUpConnected ==
  /\ stage \in {"attaching", "waiting"} /\ client /\ Ended
  /\ UNCHANGED <<service, viewer, client, mail, timer, removal>>

\* The service refuses, the connection is lost, or the time is over.  The reply to a
\* command that was given up finds nobody waiting for its id.
GiveUp ==
  /\ stage \in {"attaching", "waiting"} /\ Ended
  /\ UNCHANGED <<service, viewer, client, mail, timer, removal>>
-----------------------------------------------------------------------------
(***************************************************************************)
(* The process.                                                            *)
(***************************************************************************)

Launch ==
  /\ viewer = "off" /\ viewer' = "on" /\ UNCHANGED <<service, client, mail, work>>

\* What is left of the window when its process is gone.
WindowGone ==
  /\ viewer' = "off" /\ client' = FALSE
  /\ slot' = Nothing /\ posted' = FALSE /\ message' = FALSE /\ posting' = FALSE
  /\ at' = "idle" /\ woken' = FALSE /\ shown' = Down
  /\ command' = Nothing /\ stage' = "none" /\ timer' = FALSE /\ removal' = FALSE

\* shutdown: the pipe is closed, and the service stopped, if it stops in time and the
\* connection loop is not just starting it.
Exit ==
  /\ viewer = "on" /\ at = "idle" /\ WindowGone
  /\ service' \in IF service = "none" THEN {"none"} ELSE {"stopped", "running"}

CommandSteps == Dispatch \/ GiveUp

ViewerNext ==
  \/ Post \/ (\E s \in Told : Receive(s)) \/ Disconnect \/ LoopStarts \/ Connect
  \/ ServiceEnds
  \/ Take \/ Lower \/ LookAgain
  \/ (\E c \in {"start", "stop", "apply"} : Press(c))
  \/ (\E gone \in BOOLEAN : DeviceChange(gone)) \/ DevicesChanged
  \/ CommandSteps \/ Exit
-----------------------------------------------------------------------------
(***************************************************************************)
(* Properties.                                                             *)
(***************************************************************************)

\* A state that has come in is shown, whatever the window was doing when it came, unless a
\* drain that was woken for an empty slot returned at that moment (queueState, drainState).
StatesReachTheWindow == slot # Nothing ~> (slot = Nothing \/ woken)

\* A command does not keep the buttons gray for ever, whatever becomes of the service and
\* of the connection (dispatchCommand, applySettings, endCommand).
CommandsEnd == stage # "none" ~> stage = "none"

\* A drive that has come is answered by a command if the window goes on showing a folder
\* that waits, even if a command was in flight when it came (devicesChanged).
DrivesAreAskedFor ==
  (timer /\ shown.ready /\ shown.waiting) ~>
    (\/ command \in Quiet
     \/ ~(shown.ready /\ shown.waiting)
     \/ ~shown.running /\ ~shown.enabled)
=============================================================================
