------------------------------ MODULE Binding ------------------------------
(***************************************************************************)
(* From configured paths to open handles (capability_windows.go,           *)
(* mechanism.go): which mechanism the volumes allow, the walk to each      *)
(* folder and to the log under the client's token, the second opening of   *)
(* each folder by identity, and the rules' roots.                          *)
(*                                                                         *)
(* A path is resolved in many calls while other programs rename, delete    *)
(* and replace what it leads through, drives leave and letters change      *)
(* hands.  Each call that looks at the disk is a step here.                *)
(*                                                                         *)
(* What is abstracted: at most one directory stands for all those between  *)
(* a volume's root and a leaf; a path is lexically valid and is no drive   *)
(* root; an identity is the object itself, as Equal compares the whole     *)
(* tuple, or the volume where there is none; one BoundConfig at a time.    *)
(* Which recorded object a path must still be is in Monitoring.            *)
(***************************************************************************)
EXTENDS Integers, Sequences

CONSTANTS Volumes, Letters, Things, Names,
          Kind,       \* of a thing: folder, junction, file
          Vol,        \* the volume it is on
          Leads,      \* the folder a junction leads to
          Allowed,    \* the things the owner's account may open
          Format,     \* of a volume: ntfs, exfat
          Removable,  \* the volumes that can leave and change letters
          Place0, Letter0,
          Spots,      \* where a thing may be moved
          Folders,    \* the configured folders, a sequence of paths
          Log,        \* the path of the log
          None, New, Dead,  \* nothing, a thing not created yet, a handle that lost its volume
          MaxEvents   \* bound on what other programs and drives do

Spot(d, n) == [in |-> d, as |-> n]
Places == [in : Volumes \cup Things, as : Names]
PathType == [letter : Letters, dir : Names \cup {None}, name : Names]

ASSUME KindAssumption == Kind \in [Things -> {"folder", "junction", "file"}]
ASSUME VolAssumption == Vol \in [Things -> Volumes] /\ Format \in [Volumes -> {"ntfs", "exfat"}]
ASSUME LeadsAssumption ==
  \A t \in Things : Kind[t] = "junction" => Leads[t] \in Things /\ Kind[Leads[t]] = "folder"
ASSUME StartAssumption ==
  /\ Place0 \in [Things -> Places \cup {None, New}] /\ Letter0 \in [Letters -> Volumes \cup {None}]
  /\ Allowed \subseteq Things /\ Removable \subseteq Volumes
  /\ Spots \in [Things -> SUBSET Places]
\* Config.Normalize names every folder once.
ASSUME PathAssumption ==
  /\ Folders \in Seq(PathType) /\ Log \in PathType
  /\ \A k, m \in 1..Len(Folders) : Folders[k] = Folders[m] => k = m
\* A directory entry is one thing's, a rename stays on its volume, and a file that is not
\* there yet will be the client's, who creates it.
ASSUME PlaceAssumption ==
  /\ \A t, u \in Things : Place0[t] \in Places /\ Place0[t] = Place0[u] => t = u
  /\ \A t \in Things, v \in Volumes, n \in Names :
       Place0[t] = Spot(v, n) \/ Spot(v, n) \in Spots[t] => v = Vol[t]
  /\ \A t \in Things : Place0[t] = New => t \in Allowed
ASSUME MarkAssumption ==
  /\ None # New /\ None # Dead /\ New # Dead /\ None \notin Names
  /\ {None, New, Dead} \cap (Volumes \cup Things \cup Places) = {} /\ Volumes \cap Things = {}
ASSUME MaxEventsAssumption == MaxEvents \in Nat

N == Len(Folders)
Path(k) == IF k <= N THEN Folders[k] ELSE Log

VARIABLES
  place, plugged, letter,  \* the namespace, the volumes that are there, what letters name
  at, i,                   \* the point reached, and the path it is about
  use,                     \* the preference, and then the mechanism chosen
  client,                  \* the thread carries the client's token
  traits, volume,          \* what the volume of the path can do, its GUID
  guards, leaf,            \* the handles of a walk
  folders, away,           \* BoundConfig.Folders, Unavailable
  identity, owner, secure, \* of each FolderCapability
  log,                     \* LogCapability
  roots,                   \* the folders that carry a rule
  events

world == <<place, plugged, letter>>
walk == <<traits, volume, guards, leaf>>
result == <<folders, away, identity, owner, secure, log, roots>>
vars == <<world, at, i, use, client, walk, result, events>>

Handles == Things \cup {None, Dead}

TypeOK ==
  /\ place \in [Things -> Places \cup {None, New}]
  /\ plugged \subseteq Volumes /\ letter \in [Letters -> plugged \cup {None}]
  /\ at \in {"idle", "survey", "token", "locate", "name", "root", "dir", "leaf",
             "confirm", "upgrade", "held", "session"}
  /\ i \in 0..N + 1
  /\ use \in {"markers", "etw"} /\ client \in BOOLEAN
  /\ traits \in {"ntfs", "exfat", "none"} /\ volume \in Volumes \cup {None}
  /\ guards \subseteq Volumes \cup Things \cup {Dead} /\ leaf \in Handles
  /\ folders \subseteq 1..N /\ roots \subseteq 1..N
  /\ away \in [1..N -> {"no", "waiting", "refused"}]
  /\ identity \in [1..N -> Volumes \cup Things \cup {None}]
  /\ owner \in [1..N -> Handles] /\ secure \in [1..N -> Handles] /\ log \in Handles
  /\ events \in 0..MaxEvents
  /\ client => at \in {"locate", "name", "root", "dir", "leaf", "confirm"}

Nothing == [k \in 1..N |-> None]

Init ==
  /\ place = Place0 /\ plugged = Volumes /\ letter = Letter0
  /\ at = "idle" /\ i = 0 /\ use = "markers" /\ client = FALSE
  /\ traits = "none" /\ volume = None /\ guards = {} /\ leaf = None
  /\ folders = {} /\ away = [k \in 1..N |-> "no"] /\ roots = {}
  /\ identity = Nothing /\ owner = Nothing /\ secure = Nothing /\ log = None
  /\ events = 0
-----------------------------------------------------------------------------
(***************************************************************************)
(* The file system as the calls see it.                                    *)
(***************************************************************************)

There(t) == place[t] \notin {None, New}
Entry(d, n) == IF \E t \in Things : place[t] = Spot(d, n)
               THEN CHOOSE t \in Things : place[t] = Spot(d, n) ELSE None

\* The directory a path's leaf is looked up in: a junction on the way is followed.
Parent(p, v) ==
  IF p.dir = None THEN v
  ELSE LET d == Entry(v, p.dir)
       IN IF d \in Things /\ Kind[d] = "junction" THEN Leads[d] ELSE d

Reached(p, v) == IF Parent(p, v) = None THEN None ELSE Entry(Parent(p, v), p.name)

\* Where an object really is (GetFinalPathNameByHandle).
Stands(t, p, v) ==
  IF p.dir = None THEN place[t] = Spot(v, p.name)
  ELSE \E d \in Things : place[d] = Spot(v, p.dir) /\ place[t] = Spot(d, p.name)

\* FILE_PERSISTENT_ACLS and FILE_SUPPORTS_OPEN_BY_FILE_ID, which NTFS has.
MarkerCapable(v) == Format[v] = "ntfs"
IdentityCapable(format) == format = "ntfs"

\* Mutant: a folder's leaf is opened with FILE_SHARE_DELETE.
PinnedOnTheWay(t) == t \in guards

\* A handle without FILE_SHARE_DELETE keeps its object where it is.  The handle
\* opened by identity asks for no data and keeps nothing.
Pinned(t) == t \in guards \/ t = leaf \/ \E k \in 1..N : owner[k] = t
-----------------------------------------------------------------------------
(***************************************************************************)
(* Other programs, and drives.                                             *)
(***************************************************************************)

Event == events < MaxEvents /\ events' = events + 1

Service == <<at, i, use, client, walk, result>>

Move(t, s) ==
  /\ Event /\ There(t) /\ ~Pinned(t)
  /\ s \in Spots[t] /\ \A u \in Things : place[u] # s
  /\ s.in \in Things => There(s.in)
  /\ place' = [place EXCEPT ![t] = s]
  /\ UNCHANGED <<plugged, letter, Service>>

Delete(t) ==
  /\ Event /\ There(t) /\ ~Pinned(t)
  /\ \A u \in Things : There(u) => place[u].in # t
  /\ place' = [place EXCEPT ![t] = None]
  /\ UNCHANGED <<plugged, letter, Service>>

\* Handles to a volume that has left stay open and refer to nothing.
Detach(v) ==
  LET Lost(h) == IF h = v \/ (h \in Things /\ Vol[h] = v) THEN Dead ELSE h
  IN /\ Event /\ v \in Removable \cap plugged
     /\ plugged' = plugged \ {v}
     /\ letter' = [l \in Letters |-> IF letter[l] = v THEN None ELSE letter[l]]
     /\ guards' = {Lost(h) : h \in guards} /\ leaf' = Lost(leaf) /\ log' = Lost(log)
     /\ owner' = [k \in 1..N |-> Lost(owner[k])]
     /\ secure' = [k \in 1..N |-> Lost(secure[k])]
     /\ UNCHANGED <<place, at, i, use, client, traits, volume, folders, away, identity, roots>>

Attach(v, l) ==
  /\ Event /\ v \in Volumes \ plugged /\ letter[l] = None
  /\ plugged' = plugged \cup {v} /\ letter' = [letter EXCEPT ![l] = v]
  /\ UNCHANGED <<place, Service>>

\* A letter is given to another volume, which may have had one.
Reassign(v, l) ==
  /\ Event /\ v \in Removable \cap plugged /\ letter[l] \in (Removable \cup {None}) \ {v}
  /\ letter' = [k \in Letters |-> IF k = l THEN v ELSE IF letter[k] = v THEN None ELSE letter[k]]
  /\ UNCHANGED <<place, plugged, Service>>
-----------------------------------------------------------------------------
(***************************************************************************)
(* The mechanism: mechanismFor.                                            *)
(***************************************************************************)

Begin(preference) ==
  /\ at = "idle" /\ at' = "survey" /\ i' = 1 /\ use' = preference
  /\ UNCHANGED <<world, client, walk, result, events>>

\* ChooseMechanism, one folder after the other: the first that cannot carry a marker
\* overrides the preference; one whose letter cannot answer decides nothing.
Chosen(preference, v) == IF v # None /\ ~MarkerCapable(v) THEN "etw" ELSE preference

\* markerCapability asks each folder's letter.
Survey ==
  /\ at = "survey" /\ use' = Chosen(use, letter[Path(i).letter])
  /\ IF i < N THEN i' = i + 1 /\ UNCHANGED at ELSE i' = 1 /\ at' = "token"
  /\ UNCHANGED <<world, client, walk, result, events>>
-----------------------------------------------------------------------------
(***************************************************************************)
(* The bind: bindOnLockedThread.                                           *)
(***************************************************************************)

\* BoundConfig.Close, with releaseGuards and the drop of the client's token.
Close ==
  /\ at' = "idle" /\ i' = 0 /\ use' = "markers" /\ client' = FALSE
  /\ traits' = "none" /\ volume' = None /\ guards' = {} /\ leaf' = None
  /\ folders' = {} /\ away' = [k \in 1..N |-> "no"] /\ roots' = {}
  /\ identity' = Nothing /\ owner' = Nothing /\ secure' = Nothing /\ log' = None

Abandon == Close /\ UNCHANGED <<world, events>>

\* Mutant: the client's token is dropped when the folders are open, before the log is.
ProceedReverted ==
  /\ at' = "locate" /\ i' = i + 1 /\ guards' = {} /\ leaf' = None
  /\ client' = (i < N) /\ UNCHANGED use

\* On to the next folder, and after the folders to the log.
Proceed ==
  /\ at' = "locate" /\ i' = i + 1 /\ guards' = {} /\ leaf' = None
  /\ UNCHANGED <<use, client>>

\* A folder that cannot be opened is noted; without a log there is nothing to run.
Missed(why) ==
  IF i > N THEN Abandon
  ELSE /\ away' = [away EXCEPT ![i] = why] /\ identity' = [identity EXCEPT ![i] = None]
       /\ Proceed
       /\ UNCHANGED <<world, traits, volume, folders, owner, secure, log, roots, events>>

\* The token may be another account's, or there may be none to take on, or the settings
\* be out of bounds.
Impersonate ==
  /\ at = "token"
  /\ \/ Abandon
     \/ /\ at' = "locate" /\ client' = TRUE
        /\ UNCHANGED <<world, i, use, walk, result, events>>

\* volumeGUIDPath asks the letter twice: for its traits and for its name.
Locate ==
  /\ at = "locate"
  /\ LET v == letter[Path(i).letter]
     IN \/ v = None /\ Missed("waiting")
        \/ /\ v # None /\ traits' = Format[v] /\ at' = "name"
           /\ UNCHANGED <<world, i, use, client, volume, guards, leaf, result, events>>

Name ==
  /\ at = "name"
  /\ LET v == letter[Path(i).letter]
     IN \/ v = None /\ Missed("waiting")
        \/ /\ v # None /\ volume' = v /\ at' = "root"
           /\ UNCHANGED <<world, i, use, client, traits, guards, leaf, result, events>>

\* What is wrong with opening x as a directory: absent, or not the client's to open,
\* or no ordinary directory (requireOrdinaryDirectory).
Trouble(x) ==
  CASE volume \notin plugged \/ x = None -> "waiting"
    [] x \in Things /\ (Kind[x] # "folder" \/ (client /\ x \notin Allowed)) -> "refused"
    [] OTHER -> "no"

\* Mutant: a component's handle is closed once it has been looked at.
ComponentReleased(x, next) ==
  \/ Trouble(x) # "no" /\ Missed(Trouble(x))
  \/ /\ Trouble(x) = "no" /\ at' = next
     /\ UNCHANGED <<world, i, use, client, traits, volume, guards, leaf, result, events>>

\* walkAncestors: each component is opened by its whole path, and kept.
Component(x, next) ==
  \/ Trouble(x) # "no" /\ Missed(Trouble(x))
  \/ /\ Trouble(x) = "no" /\ guards' = guards \cup {x} /\ at' = next
     /\ UNCHANGED <<world, i, use, client, traits, volume, leaf, result, events>>

OpenRoot == at = "root" /\ Component(volume, IF Path(i).dir = None THEN "leaf" ELSE "dir")
OpenDir == at = "dir" /\ Component(Entry(volume, Path(i).dir), "leaf")

\* Mutant: a folder without an identity is admitted whatever the mechanism.
CapturedAnyway(t, allowVolumeOnly) ==
  IF ~IdentityCapable(traits) THEN volume ELSE IF Format[Vol[t]] = "ntfs" THEN t ELSE None

\* captureIdentity: the traits decide whether there is one, and then the handle's own
\* file system whether it will do.
Captured(t, allowVolumeOnly) ==
  IF ~IdentityCapable(traits) THEN IF allowVolumeOnly THEN volume ELSE None
  ELSE IF Format[Vol[t]] = "ntfs" THEN t ELSE None

OpenLeaf ==
  /\ at = "leaf" /\ i <= N
  /\ LET t == Reached(Path(i), volume)
     IN \/ Trouble(t) # "no" /\ Missed(Trouble(t))
        \/ /\ Trouble(t) = "no"
           /\ LET id == Captured(t, use = "etw")
              IN \/ id = None /\ Missed("refused")
                 \/ /\ id # None /\ leaf' = t /\ at' = "confirm"
                    /\ identity' = [identity EXCEPT ![i] = id]
                    /\ UNCHANGED <<world, i, use, client, traits, volume, guards, folders,
                                   away, owner, secure, log, roots, events>>

\* requireFinalPath, and the capability is made.
Confirm ==
  /\ at = "confirm"
  /\ \/ leaf = Dead /\ Missed("waiting")
     \/ leaf # Dead /\ ~Stands(leaf, Path(i), volume) /\ Missed("refused")
     \/ /\ leaf # Dead /\ Stands(leaf, Path(i), volume)
        /\ folders' = folders \cup {i} /\ owner' = [owner EXCEPT ![i] = leaf]
        /\ Proceed
        /\ UNCHANGED <<world, traits, volume, away, identity, secure, log, roots, events>>

\* Mutant: the client's token stays on.
LogOpenedAsClient(t) ==
  /\ Captured(t, FALSE) # None
  /\ log' = t /\ guards' = {} /\ at' = "upgrade" /\ i' = N
  /\ UNCHANGED <<plugged, letter, use, client, traits, volume, leaf, folders, away, identity,
                 owner, secure, roots, events>>

\* The log is open: the guards go, and the client's token.
LogOpened(t) ==
  /\ Captured(t, FALSE) # None
  /\ log' = t /\ guards' = {} /\ client' = FALSE
  /\ at' = "upgrade" /\ i' = N
  /\ UNCHANGED <<plugged, letter, use, traits, volume, leaf, folders, away, identity, owner,
                 secure, roots, events>>

\* openLogAsClient: OPEN_ALWAYS, in a directory the client may write to.
OpenLog ==
  /\ at = "leaf" /\ i = N + 1
  /\ LET d == Parent(Log, volume)
         t == Reached(Log, volume)
     IN \/ /\ t # None /\ volume \in plugged
           /\ Kind[t] = "file" /\ (client => t \in Allowed)
           /\ LogOpened(t) /\ UNCHANGED place
        \/ /\ t = None /\ d # None /\ volume \in plugged
           /\ d \in Things => There(d) /\ (client => d \in Allowed)
           /\ \E x \in Things : /\ place[x] = New /\ Kind[x] = "file" /\ Vol[x] = volume
                                /\ place' = [place EXCEPT ![x] = Spot(d, Log.name)]
                                /\ LogOpened(x)
        \/ Abandon

\* Mutant: only the service's own handle is closed.
UnavailableKept(k, why) ==
  /\ secure' = [secure EXCEPT ![k] = None] /\ UNCHANGED owner
  /\ identity' = [identity EXCEPT ![k] = None]
  /\ away' = [away EXCEPT ![k] = why] /\ folders' = folders \ {k}

\* markUnavailable.
Unavailable(k, why) ==
  /\ owner' = [owner EXCEPT ![k] = None] /\ secure' = [secure EXCEPT ![k] = None]
  /\ identity' = [identity EXCEPT ![k] = None]
  /\ away' = [away EXCEPT ![k] = why] /\ folders' = folders \ {k}

\* Mutant: the configured path is resolved again.
OpenByPath(t) ==
  LET v == letter[Path(i).letter] IN IF v = None THEN None ELSE Reached(Path(i), v)

\* openByIdentity, as the service itself: the volume is there and the object on it.
OpenById(t) == IF Vol[t] \in plugged /\ There(t) THEN t ELSE None

\* Mutant: the folder after one that was taken out is passed over.
DownwardsPastTheNext == i' = IF folders' # folders /\ i > 1 THEN i - 2 ELSE i - 1

Downwards == i' = i - 1

\* Backwards through the folders that were opened.
Upgrade ==
  /\ at = "upgrade" /\ i > 0
  /\ \/ /\ i \notin folders \/ identity[i] \in Volumes
        /\ UNCHANGED <<folders, away, identity, owner, secure>>
     \/ /\ i \in folders /\ identity[i] \in Things /\ OpenById(identity[i]) # None
        /\ secure' = [secure EXCEPT ![i] = OpenById(identity[i])]
        /\ UNCHANGED <<folders, away, identity, owner>>
     \/ /\ i \in folders /\ identity[i] \in Things /\ OpenById(identity[i]) = None
        /\ Unavailable(i, IF Vol[identity[i]] \in plugged THEN "refused" ELSE "waiting")
  /\ Downwards
  /\ UNCHANGED <<world, at, use, client, walk, log, roots, events>>

Upgraded ==
  /\ at = "upgrade" /\ i = 0 /\ at' = "held"
  /\ UNCHANGED <<world, i, use, client, walk, result, events>>

\* The token cannot be dropped, or the privilege not be had.
PrivilegeFails == at = "upgrade" /\ i = N /\ Abandon

\* Another program holds what is about to be opened.
Busy ==
  /\ Event
  /\ \/ /\ at \in {"root", "dir", "leaf"} /\ i <= N
        /\ away' = [away EXCEPT ![i] = "waiting"] /\ Proceed
        /\ UNCHANGED <<world, traits, volume, folders, identity, owner, secure, log, roots>>
     \/ /\ at = "upgrade" /\ i \in folders /\ identity[i] \in Things
        /\ Unavailable(i, "waiting") /\ Downwards
        /\ UNCHANGED <<world, at, use, client, walk, log, roots>>
-----------------------------------------------------------------------------
(***************************************************************************)
(* What is made of it: startMonitoringBound and startWithCapabilities.     *)
(***************************************************************************)

\* refuseChangedIdentities, as far as the handles go.
Changed(k) ==
  /\ at = "held" /\ k \in folders /\ Unavailable(k, "refused")
  /\ UNCHANGED <<world, at, i, use, client, walk, log, roots, events>>

\* pathWithin.
Within(p, q) == p = q \/ (p.letter = q.letter /\ q.dir = None /\ p.dir = q.name)

\* Mutant: the roots of what is configured.
ConfiguredRoots ==
  {k \in 1..N : \A m \in 1..N : m # k => ~Within(Folders[k], Folders[m])}

\* effectiveAuditRoots of AttachedPaths.
EffectiveRoots ==
  {k \in folders : \A m \in folders : m # k => ~Within(Folders[k], Folders[m])}

\* refuseMarkersWithoutIdentity.
OutOfStep == use = "markers" /\ \E k \in folders : identity[k] \in Volumes

Accept ==
  /\ at = "held" /\ folders # {} /\ ~OutOfStep
  /\ at' = "session" /\ roots' = IF use = "markers" THEN EffectiveRoots ELSE {}
  /\ UNCHANGED <<world, i, use, client, walk, folders, away, identity, owner, secure, log, events>>

\* Nothing to watch, a log that changed, a start that fails, or a stop.
End == at \in {"held", "session"} /\ Abandon
-----------------------------------------------------------------------------
Next ==
  \/ \E t \in Things : Delete(t) \/ \E s \in Spots[t] : Move(t, s)
  \/ \E v \in Volumes : Detach(v) \/ \E l \in Letters : Attach(v, l) \/ Reassign(v, l)
  \/ \E preference \in {"markers", "etw"} : Begin(preference)
  \/ Survey \/ Impersonate \/ Locate \/ Name \/ OpenRoot \/ OpenDir \/ OpenLeaf \/ Confirm
  \/ OpenLog \/ Upgrade \/ Upgraded \/ PrivilegeFails \/ Busy
  \/ \E k \in 1..N : Changed(k)
  \/ Accept \/ End

Spec == Init /\ [][Next]_vars
-----------------------------------------------------------------------------
(***************************************************************************)
(* Properties.                                                             *)
(***************************************************************************)

\* What the bind takes hold of is what its path names on its volume at that moment,
\* through ordinary directories, although it was reached one call at a time: a folder
\* when its capability is made, the log when it is opened or created.
AdmittedWhereItStands ==
  [][/\ \A k \in 1..N : owner[k] = None /\ owner'[k] # None =>
          Stands(owner[k], Folders[k], volume)'
     /\ log = None /\ log' # None => Stands(log, Log, volume)']_vars

\* Everything held during a session the owner's own token may open, whoever opened it
\* (the walk and the log as the client, the second handle as the service).
OnlyTheOwners ==
  /\ \A k \in 1..N : {owner[k], secure[k]} \ {None, Dead} \subseteq Allowed
  /\ {log} \ {None, Dead} \subseteq Allowed

\* The handle the service opens for itself is the object the client opened and whose
\* identity is recorded, whatever the letter or the path has come to mean in between.
SecondHandleIsTheFirst == \A k \in folders :
  /\ secure[k] \in Things => secure[k] = identity[k]
  /\ owner[k] \in Things /\ identity[k] \in Things => owner[k] = identity[k]

Watched(k) == IF identity[k] \in Things THEN identity[k] ELSE owner[k]

\* From its admission to the end of the session a folder stays where it was, and the
\* rule with it, unless its drive leaves.
WatchedStayWhereTheyAre ==
  [][\A k \in folders \cap folders' :
       owner[k] # Dead => place'[Watched(k)] = place[Watched(k)]]_vars

\* A bind accounts for every configured folder: it is open, with the second handle
\* unless its volume has no identities, or it is reported with a reason.
EveryFolderAnswered == at \in {"held", "session"} =>
  \A k \in 1..N : /\ k \in folders <=> away[k] = "no"
                  /\ k \in folders /\ identity[k] \in Things => secure[k] # None

\* Markers are never chosen for folders that are then bound without an identity,
\* although letters change hands between the choice and the bind: the refusal in
\* refuseMarkersWithoutIdentity, which its comment calls impossible to reach, is.
ChoiceAndBindAgree == at = "held" => ~OutOfStep

\* Every folder that is watched by markers lies under a rule, which is on a folder that
\* is open itself, and under one only: no read is reported twice and none is missed
\* because the folder around it could not be opened.
RulesCover == at = "session" /\ use = "markers" => \A k \in folders :
  \E r \in roots : /\ r \in folders /\ secure[r] # None /\ Within(Folders[k], Folders[r])
                  /\ \A m \in roots \ {r} : ~Within(Folders[k], Folders[m])

\* Nothing stays open that nobody will close: no guard outlives its walk, no handle a
\* folder that was given up, and none of them a bind that failed or a session's end.
NothingStaysOpen ==
  /\ at \in {"idle", "locate", "upgrade", "held", "session"} => guards = {} /\ leaf = None
  /\ at = "idle" => log = None
  /\ \A k \in 1..N \ folders : owner[k] = None /\ secure[k] = None
=============================================================================
