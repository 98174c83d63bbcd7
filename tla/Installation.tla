--------------------------- MODULE Installation ---------------------------
(***************************************************************************)
(* Installing and removing (install_windows.go), with the viewer and the   *)
(* service of Viewer.  One of the two programs runs at a time; it has the  *)
(* viewer closed first, and nobody starts another one while it runs.  It   *)
(* may fail at each step, or be killed, or the machine restarted, between  *)
(* any two.                                                                *)
(*                                                                         *)
(* What the service has left on the drives by the time the program looks   *)
(* is anything Monitoring allows: every rule has a record, and a record    *)
(* may have no rule.  Between the programs' runs it is not followed.       *)
(*                                                                         *)
(* What is left out: whose account it is; shortcuts, preferences, icons    *)
(* and logs; configurations of version 1; the audit policy, which is       *)
(* restored with the rules.                                                *)
(***************************************************************************)
EXTENDS Viewer

CONSTANTS Drives,   \* each with a watched folder
          MaxMoves  \* bound on how often a drive comes or goes while a program runs

ASSUME MovesAssumption == MaxMoves \in Nat

VARIABLES
  tool,            \* the next step of the program that runs, or idle
  config,          \* the configuration file is there
  exe,             \* the installed executable is there
  order,           \* to delete it at the next restart: none, sound, odd (in a list that
                   \* cannot be read as pairs)
  registered,      \* the entry in Installed apps
  present, moves,  \* the drives that are attached
  rules,           \* the drives whose folder carries an audit rule
  journal,         \* those the configuration has a record of
  session,         \* a trace session runs that no service owns
  consented        \* the drives whose rule the owner has agreed to leave

files == <<config, exe, order, registered>>
drives == <<present, moves, rules, journal, session, consented>>
vars == <<viewerVars, tool, files, drives>>

InstallSteps == {"stop", "cancel", "copy", "save", "create", "register"}
RemoveSteps == {"clean", "recover", "halt", "gate", "traces", "delete", "erase",
                "schedule", "unregister"}

TypeOK ==
  /\ ViewerTypeOK
  /\ tool \in InstallSteps \cup RemoveSteps \cup {"idle"}
  /\ config \in BOOLEAN /\ exe \in BOOLEAN /\ registered \in BOOLEAN
  /\ order \in {"none", "sound", "odd"}
  /\ present \subseteq Drives /\ moves \in 0..MaxMoves
  /\ rules \subseteq Drives /\ journal \subseteq Drives /\ session \in BOOLEAN
  /\ consented \subseteq Drives
  /\ tool # "idle" => viewer = "off"

NotFollowed ==
  /\ present' = {} /\ moves' = 0 /\ rules' = {} /\ journal' = {} /\ session' = FALSE
  /\ consented' = {}

Init ==
  /\ ViewerInit /\ tool = "idle" /\ order = "none"
  /\ present = {} /\ moves = 0 /\ rules = {} /\ journal = {} /\ session = FALSE
  /\ consented = {}
  /\ \/ service = "none" /\ config = FALSE /\ exe = FALSE /\ registered = FALSE
     \/ service = "stopped" /\ config = TRUE /\ exe = TRUE /\ registered = TRUE

\* signalExit and waitForUIExit: the viewer exits, on its own or because it is told to.  The
\* program goes on when it has, or fails.  Then it looks: this is what there is.
Begins ==
  /\ tool = "idle" /\ viewer = "off" /\ moves' = 0 /\ consented' = {}
  /\ present' \in SUBSET Drives /\ journal' \in (IF config THEN SUBSET Drives ELSE {{}})
  /\ rules' \in SUBSET journal' /\ session' \in BOOLEAN
  /\ UNCHANGED <<viewerVars, files>>

AtStep(s, next) == tool = s /\ tool' = next
Ends == tool' = "idle" /\ NotFollowed

Fail == tool # "idle" /\ Ends /\ UNCHANGED <<viewerVars, files>>

\* A service that stops withdraws what it can reach, or fails to.
Withdraws ==
  \/ rules' = rules \ present /\ journal' = journal \ present
  \/ UNCHANGED <<rules, journal>>

\* stopInstalledService.
Stopped(s, next) ==
  /\ AtStep(s, next)
  /\ \/ service = "running" /\ service' = "stopped" /\ Withdraws
     \/ service # "running" /\ UNCHANGED <<service, rules, journal>>
  /\ UNCHANGED <<viewer, client, mail, work, files, present, moves, session, consented>>
-----------------------------------------------------------------------------
(***************************************************************************)
(* installApp.                                                             *)
(***************************************************************************)

InstallBegins == Begins /\ tool' = "stop"

\* (a slip: an order an earlier removal left is not withdrawn)
CancelNot == AtStep("cancel", "copy") /\ UNCHANGED <<viewerVars, files, drives>>

\* cancelPendingDeletion: a list that cannot be read as pairs is left alone.
CancelPendingDeletion ==
  /\ AtStep("cancel", "copy") /\ order' = IF order = "sound" THEN "none" ELSE order
  /\ UNCHANGED <<viewerVars, config, exe, registered, drives>>

Copy ==
  /\ AtStep("copy", "save") /\ exe' = TRUE
  /\ UNCHANGED <<viewerVars, config, order, registered, drives>>

\* What an earlier installation has recorded is kept.
SaveConfig ==
  /\ AtStep("save", "create") /\ config' = TRUE
  /\ UNCHANGED <<viewerVars, exe, order, registered, drives>>

\* createOrUpdateService.
CreateService ==
  /\ AtStep("create", "register")
  /\ service' = IF service = "none" THEN "stopped" ELSE service
  /\ UNCHANGED <<viewer, client, mail, work, files, drives>>

\* registerUninstaller, and the viewer is launched.
Register ==
  /\ tool = "register" /\ Ends /\ registered' = TRUE /\ Launch
  /\ UNCHANGED <<config, exe, order>>
-----------------------------------------------------------------------------
(***************************************************************************)
(* uninstallElevated.                                                      *)
(***************************************************************************)

RemoveBegins == exe /\ Begins /\ tool' = IF config THEN "clean" ELSE "halt"

\* CmdCleanup over a maintenance connection.
CleanByService ==
  /\ AtStep("clean", "halt") /\ service = "running"
  /\ rules' = rules \ present /\ journal' = journal \ present
  /\ UNCHANGED <<viewerVars, files, present, moves, session, consented>>

\* directAuditCleanup.
CleanDirectly ==
  /\ AtStep("recover", "halt")
  /\ rules' = rules \ present /\ journal' = journal \ present
  /\ UNCHANGED <<viewerVars, files, present, moves, session, consented>>

\* (a slip: records that are left do not stop the removal)
GatePassed == AtStep("gate", "traces") /\ UNCHANGED <<viewerVars, files, drives>>

\* confirmUnresolvedAuditState and classifySnapshots: with records left the removal goes on
\* only if some are on drives that are not there, and the owner agrees to leave those.  (A
\* drive that cannot be classified, or an uninstallation without questions, is a failure.)
Gate ==
  /\ AtStep("gate", "traces")
  /\ \/ journal = {} /\ UNCHANGED consented
     \/ journal \ present # {} /\ consented' = journal \ present
  /\ UNCHANGED <<viewerVars, files, present, moves, rules, journal, session>>

\* (a slip: a session that could not be stopped is walked past)
TracesLeft == AtStep("traces", "delete") /\ UNCHANGED <<viewerVars, files, drives>>

\* StopStale.
StopTraces ==
  /\ AtStep("traces", "delete") /\ session' = FALSE
  /\ UNCHANGED <<viewerVars, files, present, moves, rules, journal, consented>>

\* deleteInstalledService.
DeleteService ==
  /\ AtStep("delete", "erase") /\ service' = "none"
  /\ UNCHANGED <<viewer, client, mail, work, files, drives>>

\* The configuration is removed, and nobody looks whether that worked.
Erase ==
  /\ AtStep("erase", "schedule")
  /\ \/ config' = FALSE /\ journal' = {}
     \/ UNCHANGED <<config, journal>>
  /\ UNCHANGED <<viewerVars, exe, order, registered>>
  /\ UNCHANGED <<present, moves, rules, session, consented>>

\* The executable is in use, so it is deleted at the next restart, if Windows takes the
\* order.
Schedule ==
  /\ AtStep("schedule", "unregister")
  /\ order' \in {order} \cup (IF order = "odd" THEN {} ELSE {"sound", "odd"})
  /\ UNCHANGED <<viewerVars, config, exe, registered, drives>>

Unregister ==
  /\ tool = "unregister" /\ Ends /\ registered' = FALSE
  /\ UNCHANGED <<viewerVars, config, exe, order>>
-----------------------------------------------------------------------------
(***************************************************************************)
(* The machine.                                                            *)
(***************************************************************************)

Move(d) ==
  /\ tool # "idle" /\ moves < MaxMoves /\ moves' = moves + 1
  /\ present' = (present \ {d}) \cup ({d} \ present)
  /\ UNCHANGED <<viewerVars, tool, files, rules, journal, session, consented>>

\* Everything that runs is gone, and so is what was to be deleted.
Restart ==
  /\ Ends /\ WindowGone /\ service' = IF service = "none" THEN "none" ELSE "stopped"
  /\ exe' = (exe /\ order = "none") /\ order' = "none"
  /\ UNCHANGED <<config, registered>>

OwnerLaunches ==
  /\ tool = "idle" /\ exe /\ registered /\ Launch
  /\ UNCHANGED <<tool, files, drives>>

Install ==
  \/ InstallBegins \/ Stopped("stop", "cancel")
  \/ CancelPendingDeletion \/ Copy \/ SaveConfig \/ CreateService \/ Register

Remove ==
  \/ RemoveBegins \/ CleanByService \/ Stopped("clean", "recover") \/ CleanDirectly
  \/ Stopped("halt", "gate") \/ Gate \/ StopTraces \/ DeleteService
  \/ Erase \/ Schedule \/ Unregister

Apart == UNCHANGED <<tool, files, drives>>

Next ==
  \/ Install \/ Remove \/ Fail \/ Restart \/ OwnerLaunches
  \/ \E d \in Drives : Move(d)
  \/ tool = "idle" /\ ViewerNext /\ Apart

Spec == Init /\ [][Next]_vars

\* A goroutine that can go on does, a command's time is over at last, and the window
\* thread takes its messages in the order they were posted, timers included.
FairSpec ==
  /\ Spec
  /\ WF_vars(Post /\ Apart) /\ WF_vars(Lower /\ Apart) /\ WF_vars(LookAgain /\ Apart)
  /\ WF_vars(CommandSteps /\ Apart)
  /\ SF_vars(Take /\ Apart) /\ SF_vars(DevicesChanged /\ Apart)
-----------------------------------------------------------------------------
(***************************************************************************)
(* Properties.                                                             *)
(***************************************************************************)

\* Every audit rule is named in the configuration, or the owner has agreed to leave it,
\* whichever step of a removal fails or is the last (Gate, Erase).
RulesAreNamed == rules \subseteq journal \cup consented

\* An installation that finishes is not deleted by the next restart because of an earlier
\* removal, unless the order is in a list nobody may touch (cancelPendingDeletion).
InstallationStays ==
  [][tool = "register" /\ tool' = "idle" /\ registered' => order # "sound"]_vars

\* A removal that finishes leaves neither a service nor a trace session, even if a service
\* was killed at some time (stopInstalledService, StopStale, deleteInstalledService).
NothingIsLeftRunning ==
  [][tool = "unregister" /\ ~registered' => service = "none" /\ ~session]_vars
=============================================================================
