--------------------------- MODULE BindingProofs ----------------------------
(***************************************************************************)
(* The bind, for any folders, volumes, drives and programs that interfere: *)
(* what is held is the owner's, is what the paths name, stays where it is  *)
(* and is answered for, however the disk changes between two calls.        *)
(***************************************************************************)
EXTENDS Binding, TLAPS

Walking == {"locate", "name", "root", "dir", "leaf", "confirm"}
Unbound == {"idle", "survey", "token"}

(***************************************************************************)
(* Where the bind is.                                                      *)
(***************************************************************************)

\* The client's token is on for the walks and for nothing else.
Impersonating == client <=> at \in Walking

\* What the index points at.
Indexed ==
  /\ at \in {"survey", "token"} \cup Walking => i >= 1
  /\ at = "token" => i = 1
  /\ at \in {"confirm", "upgrade", "held", "session"} => i <= N
  /\ at \in {"held", "session"} => i = 0
  /\ at \in {"root", "dir", "leaf", "confirm"} => volume \in Volumes

\* The folders whose walk is over, and those that have been opened again.
Walked(k) == at \in {"upgrade", "held", "session"} \/ (at \in Walking /\ k < i)
Reopened(k) == at \in {"held", "session"} \/ (at = "upgrade" /\ k > i)

\* The handles that last for one walk only, and the log's, which is opened last.
Passing ==
  /\ at \notin {"dir", "leaf", "confirm"} => guards = {}
  /\ leaf # None <=> at = "confirm"
  /\ at \in Unbound \cup Walking => log = None

Position == Impersonating /\ Indexed /\ Passing

(***************************************************************************)
(* What is held.                                                           *)
(***************************************************************************)

\* The handles that keep a thing where it is are on folders, and what the client
\* opened is the owner's.
Ordinary ==
  /\ \A g \in guards \cap Things : Kind[g] = "folder"
  /\ leaf \in Things => Kind[leaf] = "folder" /\ leaf \in Allowed
  /\ log \in Things => log \in Allowed
  /\ \A k \in 1..N : identity[k] \in Things => identity[k] \in Allowed
  /\ \A k \in 1..N : owner[k] \in Things => Kind[owner[k]] = "folder" /\ owner[k] \in Allowed

\* The identity that was captured is the leaf's.
Captures ==
  at = "confirm" => /\ identity[i] # None
                    /\ leaf \in Things /\ identity[i] \in Things => identity[i] = leaf

\* A folder that is in the result is open and has an identity, of its own where its
\* volume has any; one that is not has no handle.
Capable ==
  \A k \in 1..N :
    /\ k \in folders => owner[k] # None /\ identity[k] # None
    /\ k \notin folders => owner[k] = None /\ secure[k] = None
    /\ k \in folders /\ secure[k] \in Things => secure[k] = identity[k]
    /\ k \in folders /\ owner[k] \in Things /\ identity[k] \in Things => owner[k] = identity[k]

\* Markers are only bound with identities.
Identified == use = "markers" => \A k \in 1..N : identity[k] \notin Volumes

\* A folder whose walk is over is in the result or is reported, and one that is opened
\* again has the second handle.
Answered ==
  \A k \in 1..N :
    /\ Walked(k) => (k \in folders <=> away[k] = "no")
    /\ ~Walked(k) => k \notin folders /\ away[k] = "no"
    /\ at \in Unbound => identity[k] = None
    /\ Reopened(k) /\ k \in folders /\ identity[k] \in Things => secure[k] # None

\* The rules are on the roots of what is open.
Rooted == at = "session" /\ use = "markers" => roots = EffectiveRoots

\* A directory entry is one thing's, and a thing is on its volume.
Named ==
  /\ \A t, u \in Things : There(t) /\ place[t] = place[u] => t = u
  /\ \A t \in Things, v \in Volumes, n \in Names : place[t] = Spot(v, n) => v = Vol[t]
  /\ \A t \in Things : place[t] = New => t \in Allowed

BindingInv ==
  /\ TypeOK /\ Named /\ Position
  /\ Ordinary /\ Captures /\ Capable /\ Identified /\ Answered /\ Rooted

(***************************************************************************)
(* Constants, paths and entries.                                           *)
(***************************************************************************)

LEMMA Sizes == N \in Nat /\ Folders \in [1..N -> PathType]
  BY PathAssumption DEF N

LEMMA PathIs == ASSUME NEW k \in 1..N + 1
                PROVE  /\ Path(k) \in PathType
                       /\ k <= N => Path(k) = Folders[k]
                       /\ k = N + 1 => Path(k) = Log
  BY Sizes, PathAssumption DEF Path

\* The values that stand for no handle and no place are none.
LEMMA Marks == /\ None # New /\ None # Dead /\ New # Dead /\ None \notin Names
               /\ \A m \in {None, New, Dead} : m \notin Volumes /\ m \notin Things /\ m \notin Places
               /\ \A t \in Things : t \notin Volumes
  BY MarkAssumption

LEMMA SpotType == ASSUME NEW d \in Volumes \cup Things, NEW n \in Names
                  PROVE  Spot(d, n) \in Places /\ Spot(d, n).in = d /\ Spot(d, n).as = n
  BY DEF Spot, Places

LEMMA EntryIs == ASSUME NEW d, NEW n
                 PROVE  \/ Entry(d, n) = None
                        \/ Entry(d, n) \in Things /\ place[Entry(d, n)] = Spot(d, n)
  BY DEF Entry

LEMMA ParentIs == ASSUME NEW p \in PathType, NEW v \in Volumes
                  PROVE  Parent(p, v) \in Volumes \cup Things \cup {None}
  BY EntryIs, LeadsAssumption DEF Parent

LEMMA ReachedIs == ASSUME NEW p, NEW v
                   PROVE  \/ Reached(p, v) = None
                          \/ Reached(p, v) \in Things /\ place[Reached(p, v)] = Spot(Parent(p, v), p.name)
  BY EntryIs DEF Reached

(***************************************************************************)
(* The initial state, and a bind that is closed.                           *)
(***************************************************************************)

LEMMA NamedInit == Init => Named
  <1> SUFFICES ASSUME Init PROVE Named
    OBVIOUS
  <1>1. \A t \in Things : Place0[t] \in Places \cup {None, New}
    BY StartAssumption
  <1>2. \A t \in Things, v \in Volumes, n \in Names : place[t] = Spot(v, n) => v = Vol[t]
    BY PlaceAssumption DEF Init
  <1> QED BY <1>1, <1>2, PlaceAssumption DEF Init, Named, There

LEMMA BindingInit == Init => BindingInv
  <1> SUFFICES ASSUME Init PROVE BindingInv
    OBVIOUS
  <1> USE DEF Init
  <1>1. /\ place \in [Things -> Places \cup {None, New}]
        /\ plugged \subseteq Volumes /\ letter \in [Letters -> plugged \cup {None}]
        /\ events \in 0..MaxEvents /\ i \in 0..N + 1
    BY StartAssumption, MaxEventsAssumption, Sizes
  <1>2. TypeOK
    BY <1>1, Sizes DEF TypeOK, Nothing, Handles
  <1>3. Position
    BY DEF Position, Impersonating, Indexed, Passing, Walking, Unbound
  <1>4. Ordinary /\ Captures /\ Capable /\ Identified
    BY Marks, Sizes DEF Ordinary, Captures, Capable, Identified, Nothing
  <1>5. Answered /\ Rooted
    BY Sizes DEF Answered, Rooted, Walked, Reopened, Walking, Unbound, Nothing
  <1> QED BY <1>2, <1>3, <1>4, <1>5, NamedInit DEF BindingInv

LEMMA NamedSteady == ASSUME Named, UNCHANGED place PROVE Named'
  BY DEF Named, There

LEMMA BindingAbandon == ASSUME BindingInv, Abandon PROVE BindingInv'
  <1> USE DEF Abandon, Close
  <1>1. i' \in 0..N + 1 /\ UNCHANGED <<place, plugged, letter, events>>
    BY Sizes DEF world
  <1>2. TypeOK'
    BY <1>1, Sizes DEF BindingInv, TypeOK, Nothing, Handles
  <1>3. Position'
    BY DEF Position, Impersonating, Indexed, Passing, Walking, Unbound
  <1>4. Ordinary' /\ Captures' /\ Capable' /\ Identified'
    BY Marks, Sizes DEF Ordinary, Captures, Capable, Identified, Nothing
  <1>5. Answered' /\ Rooted'
    BY Sizes DEF Answered, Rooted, Walked, Reopened, Walking, Unbound, Nothing
  <1> QED BY <1>1, <1>2, <1>3, <1>4, <1>5, NamedSteady DEF BindingInv

(***************************************************************************)
(* Other programs, and drives.                                             *)
(***************************************************************************)

\* What the bind knows does not depend on what the disk has come to be.
LEMMA ServiceKeeps ==
  ASSUME BindingInv, UNCHANGED Service,
         place' \in [Things -> Places \cup {None, New}], plugged' \subseteq Volumes,
         letter' \in [Letters -> plugged' \cup {None}], events' \in 0..MaxEvents, Named'
  PROVE  BindingInv'
  <1> USE DEF Service, walk, result
  <1>1. TypeOK'
    BY DEF BindingInv, TypeOK, Handles
  <1>2. Position'
    BY DEF BindingInv, Position, Impersonating, Indexed, Passing
  <1>3. Ordinary' /\ Captures' /\ Capable' /\ Identified'
    BY DEF BindingInv, Ordinary, Captures, Capable, Identified
  <1>4. Answered' /\ Rooted'
    BY DEF BindingInv, Answered, Rooted, Walked, Reopened, EffectiveRoots
  <1> QED BY <1>1, <1>2, <1>3, <1>4 DEF BindingInv

LEMMA EventType == ASSUME events \in 0..MaxEvents, Event PROVE events' \in 0..MaxEvents
  BY MaxEventsAssumption DEF Event

LEMMA NamedMove ==
  ASSUME BindingInv, NEW t \in Things, NEW s \in Spots[t], Move(t, s)
  PROVE  place' \in [Things -> Places \cup {None, New}] /\ Named'
  <1>1. /\ place \in [Things -> Places \cup {None, New}] /\ Named
        /\ place' = [place EXCEPT ![t] = s] /\ s \in Places /\ \A u \in Things : place[u] # s
    BY StartAssumption DEF BindingInv, TypeOK, Move
  <1>2. \A u \in Things : place'[u] = IF u = t THEN s ELSE place[u]
    BY <1>1
  <1>3. \A v \in Volumes, n \in Names : s = Spot(v, n) => v = Vol[t]
    BY PlaceAssumption
  <1>4. s # New /\ s # None
    BY <1>1, Marks
  <1>5. \A u, w \in Things : There(u)' /\ place'[u] = place'[w] => u = w
    BY <1>1, <1>2 DEF Named, There
  <1>6. \A u \in Things, v \in Volumes, n \in Names : place'[u] = Spot(v, n) => v = Vol[u]
    BY <1>1, <1>2, <1>3 DEF Named
  <1>7. \A u \in Things : place'[u] = New => u \in Allowed
    BY <1>1, <1>2, <1>4 DEF Named
  <1> QED BY <1>1, <1>5, <1>6, <1>7 DEF Named

LEMMA NamedDelete ==
  ASSUME BindingInv, NEW t \in Things, Delete(t)
  PROVE  place' \in [Things -> Places \cup {None, New}] /\ Named'
  <1>1. /\ place \in [Things -> Places \cup {None, New}] /\ Named
        /\ place' = [place EXCEPT ![t] = None]
    BY DEF BindingInv, TypeOK, Delete
  <1>2. \A u \in Things : place'[u] = IF u = t THEN None ELSE place[u]
    BY <1>1
  <1>3. \A v \in Volumes, n \in Names : Spot(v, n) # None
    BY SpotType, Marks
  <1>4. \A u, w \in Things : There(u)' /\ place'[u] = place'[w] => u = w
    BY <1>1, <1>2 DEF Named, There
  <1>5. \A u \in Things, v \in Volumes, n \in Names : place'[u] = Spot(v, n) => v = Vol[u]
    BY <1>1, <1>2, <1>3 DEF Named
  <1>6. \A u \in Things : place'[u] = New => u \in Allowed
    BY <1>1, <1>2, Marks DEF Named
  <1> QED BY <1>1, <1>4, <1>5, <1>6 DEF Named

LEMMA BindingPrograms ==
  ASSUME BindingInv, NEW t \in Things, Delete(t) \/ \E s \in Spots[t] : Move(t, s)
  PROVE  BindingInv'
  <1>1. place' \in [Things -> Places \cup {None, New}] /\ Named'
    BY NamedMove, NamedDelete
  <1>2. UNCHANGED <<plugged, letter, Service>> /\ events' \in 0..MaxEvents
    BY EventType DEF Delete, Move, BindingInv, TypeOK
  <1> QED BY <1>1, <1>2, ServiceKeeps DEF BindingInv, TypeOK

LEMMA BindingDrives ==
  ASSUME BindingInv, NEW v \in Volumes, NEW l \in Letters, Attach(v, l) \/ Reassign(v, l)
  PROVE  BindingInv'
  <1>1. /\ UNCHANGED <<place, Service>> /\ events' \in 0..MaxEvents
        /\ place \in [Things -> Places \cup {None, New}]
    BY EventType DEF Attach, Reassign, BindingInv, TypeOK
  <1>2. plugged' \subseteq Volumes /\ letter' \in [Letters -> plugged' \cup {None}]
    BY DEF Attach, Reassign, BindingInv, TypeOK
  <1> QED BY <1>1, <1>2, ServiceKeeps, NamedSteady DEF BindingInv

\* What becomes of a handle when the volume leaves.
Lost(v, h) == IF h = v \/ (h \in Things /\ Vol[h] = v) THEN Dead ELSE h

LEMMA LostIs ==
  ASSUME NEW v \in Volumes, NEW h
  PROVE  /\ h = None <=> Lost(v, h) = None
         /\ h \in Handles => Lost(v, h) \in Handles
         /\ Lost(v, h) \in Things => h \in Things /\ Lost(v, h) = h
  BY Marks DEF Lost, Handles

LEMMA Lose ==
  ASSUME BindingInv, NEW v \in Volumes, Detach(v)
  PROVE  /\ guards' = {Lost(v, h) : h \in guards}
         /\ leaf' = Lost(v, leaf) /\ log' = Lost(v, log)
         /\ \A k \in 1..N : owner'[k] = Lost(v, owner[k]) /\ secure'[k] = Lost(v, secure[k])
         /\ owner' \in [1..N -> Handles] /\ secure' \in [1..N -> Handles]
         /\ \A g \in guards' \cap Things : g \in guards
         /\ UNCHANGED <<place, at, i, use, client, traits, volume, folders, away, identity, roots>>
  <1>1. /\ guards' = {Lost(v, h) : h \in guards}
        /\ leaf' = Lost(v, leaf) /\ log' = Lost(v, log)
        /\ owner' = [k \in 1..N |-> Lost(v, owner[k])]
        /\ secure' = [k \in 1..N |-> Lost(v, secure[k])]
        /\ UNCHANGED <<place, at, i, use, client, traits, volume, folders, away, identity, roots>>
    BY DEF Detach, Lost
  <1>2. owner' \in [1..N -> Handles] /\ secure' \in [1..N -> Handles]
    BY <1>1, LostIs DEF BindingInv, TypeOK
  <1> QED BY <1>1, <1>2, LostIs

LEMMA BindingDetach == ASSUME BindingInv, NEW v \in Volumes, Detach(v) PROVE BindingInv'
  <1>1. /\ plugged' = plugged \ {v} /\ events' \in 0..MaxEvents
        /\ letter' = [l \in Letters |-> IF letter[l] = v THEN None ELSE letter[l]]
    BY EventType DEF Detach, BindingInv, TypeOK
  <1>2. letter' \in [Letters -> plugged' \cup {None}]
    BY <1>1 DEF BindingInv, TypeOK
  <1>3. /\ guards' \subseteq Volumes \cup Things \cup {Dead}
        /\ leaf' \in Handles /\ log' \in Handles
    BY Lose, LostIs DEF BindingInv, TypeOK, Lost
  <1>4. TypeOK'
    BY <1>1, <1>2, <1>3, Lose DEF BindingInv, TypeOK
  <1>5. Position'
    BY Lose, LostIs DEF BindingInv, Position, Impersonating, Indexed, Passing
  <1>6. Ordinary'
    BY Lose, LostIs DEF BindingInv, Ordinary
  <1>7. Captures' /\ Capable' /\ Identified'
    BY Lose, LostIs DEF BindingInv, Captures, Capable, Identified
  <1>8. Answered' /\ Rooted'
    BY Lose, LostIs DEF BindingInv, Answered, Rooted, Walked, Reopened, EffectiveRoots
  <1> QED BY <1>4, <1>5, <1>6, <1>7, <1>8, Lose, NamedSteady DEF BindingInv

(***************************************************************************)
(* The mechanism, and the walk to a folder.                                *)
(***************************************************************************)

LEMMA BindingSurvey ==
  ASSUME BindingInv,
         Survey \/ Impersonate \/ \E preference \in {"markers", "etw"} : Begin(preference)
  PROVE  BindingInv'
  <1>1. CASE Abandon
    BY <1>1, BindingAbandon
  <1>2. CASE ~Abandon
    <2>1. /\ UNCHANGED <<world, walk, result, events>>
          /\ \/ at = "idle" /\ at' = "survey" /\ i' = 1 /\ use' \in {"markers", "etw"} /\ ~client'
             \/ at = "survey" /\ at' = "survey" /\ i' = i + 1 /\ i < N /\ use' \in {"markers", "etw"} /\ ~client'
             \/ at = "survey" /\ at' = "token" /\ i' = 1 /\ use' \in {"markers", "etw"} /\ ~client'
             \/ at = "token" /\ at' = "locate" /\ i' = i /\ client' /\ use' = use
      BY <1>2 DEF Survey, Impersonate, Begin, Chosen, BindingInv, TypeOK, Position, Impersonating, Walking
    <2> USE <2>1 DEF walk, result
    <2>2. client' \in BOOLEAN /\ i' \in 0..N + 1
      <3>1. client' \in BOOLEAN
        BY <1>2 DEF BindingInv, TypeOK, Begin, Survey, Impersonate
      <3>2. i' \in 0..N + 1
        BY Sizes DEF BindingInv, TypeOK
      <3> QED BY <3>1, <3>2
    <2>3. TypeOK'
      BY <2>2 DEF BindingInv, TypeOK, world
    <2>4. Position'
      BY Sizes DEF BindingInv, Position, Impersonating, Indexed, Passing, Walking, Unbound, TypeOK
    <2>5. Ordinary' /\ Captures' /\ Capable'
      BY DEF BindingInv, Ordinary, Captures, Capable
    <2>6. Identified'
      BY Marks DEF BindingInv, Identified, Answered, Unbound
    <2>7. Answered' /\ Rooted'
      BY Sizes DEF BindingInv, Answered, Rooted, Walked, Reopened, Walking, Unbound, Position, Indexed, TypeOK
    <2> QED BY <2>3, <2>4, <2>5, <2>6, <2>7, NamedSteady DEF BindingInv, world
  <1> QED BY <1>1, <1>2

\* The walk is over, and its folder is not in the result.
LEMMA Passed ==
  ASSUME BindingInv, at \in Walking, i <= N, Proceed,
         NEW why \in {"waiting", "refused"}, away' = [away EXCEPT ![i] = why],
         identity' \in {identity, [identity EXCEPT ![i] = None]},
         UNCHANGED <<world, traits, volume, folders, owner, secure, log, roots>>,
         events' \in 0..MaxEvents
  PROVE  BindingInv'
  <1> USE DEF Proceed
  <1>1. i \in 1..N /\ client /\ i \notin folders
    BY Sizes DEF BindingInv, TypeOK, Position, Indexed, Impersonating, Answered, Walked, Walking
  <1>2. \A k \in 1..N : /\ identity'[k] \in {identity[k], None}
                        /\ k # i => identity'[k] = identity[k]
                        /\ away'[k] = IF k = i THEN why ELSE away[k]
    BY <1>1 DEF BindingInv, TypeOK
  <1>3. identity' \in [1..N -> Volumes \cup Things \cup {None}]
        /\ away' \in [1..N -> {"no", "waiting", "refused"}]
    BY <1>1 DEF BindingInv, TypeOK
  <1>4. TypeOK'
    BY <1>1, <1>3, Sizes DEF BindingInv, TypeOK, world, Handles
  <1>5. Position'
    BY <1>1, Sizes DEF BindingInv, Position, Impersonating, Indexed, Passing, Walking, Unbound
  <1>6. Ordinary' /\ Captures' /\ Capable' /\ Identified'
    BY <1>1, <1>2, Marks DEF BindingInv, Ordinary, Captures, Capable, Identified
  <1>7. Answered'
    BY <1>1, <1>2, Sizes DEF BindingInv, Answered, Walked, Reopened, Walking, Unbound
  <1>8. Rooted'
    BY DEF Rooted
  <1> QED BY <1>4, <1>5, <1>6, <1>7, <1>8, NamedSteady DEF BindingInv, world

LEMMA BindingMissed ==
  ASSUME BindingInv, at \in Walking, NEW why \in {"waiting", "refused"}, Missed(why)
  PROVE  BindingInv'
  <1>1. i > N \/ i <= N
    BY Sizes DEF BindingInv, TypeOK
  <1> QED BY <1>1, Passed, BindingAbandon DEF Missed, BindingInv, TypeOK

\* One more call of the walk: the handles of what is held stay as they are.
LEMMA Onwards ==
  ASSUME BindingInv, at \in Walking, at' \in Walking \ {"confirm"}, at # "confirm",
         UNCHANGED <<world, i, use, client, leaf, result, events>>,
         traits' \in {"ntfs", "exfat", "none"}, volume' \in Volumes \cup {None},
         at' \in {"root", "dir", "leaf"} => volume' \in Volumes,
         guards' \subseteq Volumes \cup Things \cup {Dead},
         at' \in {"dir", "leaf"} \/ guards' = {},
         \A g \in guards' \cap Things : g \in guards \/ Kind[g] = "folder"
  PROVE  BindingInv'
  <1> USE DEF result
  <1>1. TypeOK'
    BY DEF BindingInv, TypeOK, world, Walking
  <1>2. Position'
    BY DEF BindingInv, Position, Impersonating, Indexed, Passing, Walking, Unbound
  <1>3. Ordinary' /\ Captures' /\ Capable' /\ Identified'
    BY DEF BindingInv, Ordinary, Captures, Capable, Identified, Walking
  <1>4. Answered' /\ Rooted'
    BY DEF BindingInv, Answered, Rooted, Walked, Reopened, Walking, Unbound
  <1> QED BY <1>1, <1>2, <1>3, <1>4, NamedSteady DEF BindingInv, world

LEMMA BindingLocate == ASSUME BindingInv, Locate \/ Name PROVE BindingInv'
  <1>1. at \in {"locate", "name"} /\ at \in Walking /\ Path(i) \in PathType /\ guards = {}
    BY Sizes, PathIs DEF Locate, Name, Walking, BindingInv, TypeOK, Position, Indexed, Passing
  <1>2. letter[Path(i).letter] \in Volumes \cup {None}
    BY <1>1 DEF PathType, BindingInv, TypeOK
  <1>3. CASE Missed("waiting")
    BY <1>1, <1>3, BindingMissed
  <1>4. CASE ~Missed("waiting")
    <2>1. /\ UNCHANGED <<world, i, use, client, guards, leaf, result, events>>
          /\ at' \in {"name", "root"} /\ traits' \in {"ntfs", "exfat", "none"}
          /\ volume' \in Volumes \cup {None} /\ (at' = "root" => volume' \in Volumes)
      BY <1>2, <1>4, VolAssumption DEF Locate, Name, BindingInv, TypeOK
    <2> QED BY <1>1, <2>1, Onwards DEF Walking
  <1> QED BY <1>3, <1>4

LEMMA TroubleIs ==
  ASSUME NEW x \in Volumes \cup Things \cup {None}
  PROVE  /\ Trouble(x) \in {"waiting", "refused", "no"}
         /\ Trouble(x) = "no" => volume \in plugged /\ x # None
         /\ Trouble(x) = "no" /\ x \in Things => Kind[x] = "folder" /\ (client => x \in Allowed)
  BY DEF Trouble

LEMMA BindingComponent == ASSUME BindingInv, OpenRoot \/ OpenDir PROVE BindingInv'
  <1>1. PICK x \in Volumes \cup Things \cup {None}, next \in {"dir", "leaf"} : Component(x, next)
    <2>1. CASE OpenRoot
      BY <2>1 DEF OpenRoot, BindingInv, Position, Indexed
    <2>2. CASE OpenDir
      BY <2>2, EntryIs DEF OpenDir
    <2> QED BY <2>1, <2>2
  <1>2. at \in {"root", "dir"} /\ at \in Walking
    BY DEF OpenRoot, OpenDir, Walking
  <1>3. CASE Trouble(x) # "no" /\ Missed(Trouble(x))
    BY <1>2, <1>3, TroubleIs, BindingMissed
  <1>4. CASE Trouble(x) = "no"
    <2>1. /\ guards' = guards \cup {x} /\ at' = next /\ x # None
          /\ UNCHANGED <<world, i, use, client, traits, volume, leaf, result, events>>
          /\ x \in Things => Kind[x] = "folder"
      BY <1>1, <1>4, TroubleIs DEF Component
    <2>2. /\ guards \subseteq Volumes \cup Things \cup {Dead} /\ volume \in Volumes
          /\ traits \in {"ntfs", "exfat", "none"}
      BY <1>2 DEF BindingInv, TypeOK, Position, Indexed
    <2> QED BY <1>2, <2>1, <2>2, Onwards DEF Walking
  <1> QED BY <1>1, <1>3, <1>4 DEF Component

LEMMA CapturedIs ==
  ASSUME NEW t \in Things, NEW b \in BOOLEAN, volume \in Volumes
  PROVE  /\ Captured(t, b) \in {t, volume, None}
         /\ Captured(t, b) = volume => b
  BY Marks DEF Captured

LEMMA BindingOpenLeaf == ASSUME BindingInv, OpenLeaf PROVE BindingInv'
  <1> DEFINE t == Reached(Path(i), volume)
             id == Captured(t, use = "etw")
  <1>1. /\ at = "leaf" /\ at \in Walking /\ i \in 1..N /\ volume \in Volumes /\ client
        /\ Path(i) \in PathType /\ i \notin folders
    BY Sizes, PathIs DEF OpenLeaf, Walking, BindingInv, TypeOK, Position, Indexed, Impersonating,
                        Answered, Walked
  <1>2. t \in Things \cup {None}
    BY ReachedIs
  <1>3. CASE Trouble(t) # "no" /\ Missed(Trouble(t))
    BY <1>1, <1>2, <1>3, TroubleIs, BindingMissed
  <1>4. CASE Missed("refused")
    BY <1>1, <1>4, BindingMissed
  <1>5. CASE /\ Trouble(t) = "no" /\ id # None /\ leaf' = t /\ at' = "confirm"
             /\ identity' = [identity EXCEPT ![i] = id]
             /\ UNCHANGED <<world, i, use, client, traits, volume, guards, folders,
                            away, owner, secure, log, roots, events>>
    <2>1. t \in Things /\ Kind[t] = "folder" /\ t \in Allowed
      BY <1>1, <1>2, <1>5, TroubleIs
    <2>2. id \in {t, volume} /\ (use = "markers" => id = t)
      BY <1>1, <1>5, <2>1, CapturedIs
    <2>3. \A k \in 1..N : identity'[k] = IF k = i THEN id ELSE identity[k]
      BY <1>1, <1>5 DEF BindingInv, TypeOK
    <2>4. identity' \in [1..N -> Volumes \cup Things \cup {None}]
      BY <1>1, <1>5, <2>1, <2>2 DEF BindingInv, TypeOK
    <2>5. TypeOK'
      BY <1>5, <2>1, <2>4 DEF BindingInv, TypeOK, world, Handles
    <2>6. Position'
      BY <1>1, <1>5, <2>1, Marks DEF BindingInv, Position, Impersonating, Indexed, Passing, Walking, Unbound
    <2>7. Ordinary' /\ Captures'
      BY <1>1, <1>5, <2>1, <2>2, <2>3, Marks DEF BindingInv, Ordinary, Captures
    <2>8. Capable' /\ Identified'
      BY <1>1, <1>5, <2>1, <2>2, <2>3, Marks DEF BindingInv, Capable, Identified
    <2>9. Answered' /\ Rooted'
      BY <1>1, <1>5, <2>3 DEF BindingInv, Answered, Rooted, Walked, Reopened, Walking, Unbound
    <2> QED BY <1>5, <2>5, <2>6, <2>7, <2>8, <2>9, NamedSteady DEF BindingInv, world
  <1> QED BY <1>3, <1>4, <1>5 DEF OpenLeaf

LEMMA BindingConfirm == ASSUME BindingInv, Confirm PROVE BindingInv'
  <1>1. /\ at = "confirm" /\ at \in Walking /\ i \in 1..N /\ client /\ i \notin folders
        /\ away[i] = "no" /\ owner[i] = None /\ secure[i] = None
    BY Sizes DEF Confirm, Walking, BindingInv, TypeOK, Position, Indexed, Impersonating,
                 Answered, Walked, Capable
  <1>2. CASE Missed("waiting") \/ Missed("refused")
    BY <1>1, <1>2, BindingMissed
  <1>3. CASE /\ leaf # Dead /\ folders' = folders \cup {i} /\ owner' = [owner EXCEPT ![i] = leaf]
             /\ Proceed
             /\ UNCHANGED <<world, traits, volume, away, identity, secure, log, roots, events>>
    <2> USE DEF Proceed
    <2>1. leaf \in Things /\ Kind[leaf] = "folder" /\ leaf \in Allowed /\ identity[i] # None
      BY <1>1, <1>3 DEF BindingInv, TypeOK, Handles, Position, Passing, Ordinary, Captures
    <2>2. \A k \in 1..N : owner'[k] = IF k = i THEN leaf ELSE owner[k]
      BY <1>1, <1>3 DEF BindingInv, TypeOK
    <2>3. TypeOK'
      BY <1>1, <1>3, <2>1, Sizes DEF BindingInv, TypeOK, world, Handles
    <2>4. Position'
      BY <1>1, <1>3, Sizes DEF BindingInv, Position, Impersonating, Indexed, Passing, Walking, Unbound
    <2>5. Ordinary' /\ Captures' /\ Identified'
      BY <1>1, <1>3, <2>1, <2>2, Marks DEF BindingInv, Ordinary, Captures, Identified
    <2>6. Capable'
      BY <1>1, <1>3, <2>1, <2>2, Marks DEF BindingInv, Capable, Captures
    <2>7. Answered'
      BY <1>1, <1>3, Sizes DEF BindingInv, Answered, Walked, Reopened, Walking, Unbound
    <2>8. Rooted'
      BY <1>3 DEF Rooted
    <2> QED BY <1>3, <2>3, <2>4, <2>5, <2>6, <2>7, <2>8, NamedSteady DEF BindingInv, world
  <1> QED BY <1>2, <1>3 DEF Confirm

LEMMA BindingLogOpened ==
  ASSUME BindingInv, at = "leaf", i = N + 1, NEW t \in Things, t \in Allowed, LogOpened(t),
         place' \in [Things -> Places \cup {None, New}], Named', UNCHANGED events
  PROVE  BindingInv'
  <1> USE DEF LogOpened
  <1>1. leaf = None /\ N \in Nat /\ \A k \in 1..N : Walked(k) /\ Walked(k)'
    BY Sizes DEF BindingInv, Position, Passing, Walked, Walking
  <1>2. i' \in 0..N + 1 /\ log' \in Handles
    BY <1>1 DEF Handles
  <1>3. TypeOK'
    BY <1>2 DEF BindingInv, TypeOK
  <1>4. Position'
    BY <1>1 DEF BindingInv, Position, Impersonating, Indexed, Passing, Walking, Unbound
  <1>5. Ordinary' /\ Captures' /\ Capable' /\ Identified'
    BY DEF BindingInv, Ordinary, Captures, Capable, Identified
  <1>6. Answered' /\ Rooted'
    BY <1>1 DEF BindingInv, Answered, Rooted, Reopened, Unbound
  <1> QED BY <1>3, <1>4, <1>5, <1>6 DEF BindingInv

LEMMA NamedCreate ==
  ASSUME BindingInv, at = "leaf", NEW d \in Volumes \cup Things, NEW x \in Things,
         Entry(d, Log.name) = None, place[x] = New, Vol[x] = volume,
         d \in Volumes => d = volume, place' = [place EXCEPT ![x] = Spot(d, Log.name)]
  PROVE  place' \in [Things -> Places \cup {None, New}] /\ Named'
  <1> DEFINE s == Spot(d, Log.name)
  <1>1. /\ s \in Places /\ s.in = d /\ \A u \in Things : place[u] # s
        /\ place \in [Things -> Places \cup {None, New}] /\ Named
    BY PathAssumption, SpotType, Marks DEF BindingInv, TypeOK, PathType, Entry
  <1>2. \A u \in Things : place'[u] = IF u = x THEN s ELSE place[u]
    BY <1>1
  <1>3. \A v \in Volumes, n \in Names : s = Spot(v, n) => v = Vol[x]
    BY <1>1, SpotType
  <1>4. \A u, w \in Things : There(u)' /\ place'[u] = place'[w] => u = w
    BY <1>1, <1>2 DEF Named, There
  <1>5. \A u \in Things, v \in Volumes, n \in Names : place'[u] = Spot(v, n) => v = Vol[u]
    BY <1>1, <1>2, <1>3 DEF Named
  <1>6. \A u \in Things : place'[u] = New => u \in Allowed
    BY <1>1, <1>2, Marks DEF Named
  <1> QED BY <1>1, <1>4, <1>5, <1>6 DEF Named

LEMMA BindingOpenLog == ASSUME BindingInv, OpenLog PROVE BindingInv'
  <1>1. /\ at = "leaf" /\ i = N + 1 /\ client /\ volume \in Volumes
        /\ Named /\ place \in [Things -> Places \cup {None, New}]
    BY DEF OpenLog, BindingInv, TypeOK, Position, Impersonating, Indexed, Walking
  <1>2. UNCHANGED events \/ Abandon
    BY DEF OpenLog, LogOpened, Abandon
  <1>3. CASE Abandon
    BY <1>3, BindingAbandon
  <1> DEFINE d == Parent(Log, volume)
             t == Reached(Log, volume)
  <1>4. d \in Volumes \cup Things \cup {None} /\ t \in Things \cup {None}
    BY <1>1, PathAssumption, ParentIs, ReachedIs
  <1>5. CASE t # None /\ (client => t \in Allowed) /\ LogOpened(t) /\ UNCHANGED place /\ UNCHANGED events
    BY <1>1, <1>4, <1>5, NamedSteady, BindingLogOpened
  <1>6. CASE /\ t = None /\ d # None /\ UNCHANGED events
             /\ \E x \in Things : /\ place[x] = New /\ Kind[x] = "file" /\ Vol[x] = volume
                                  /\ place' = [place EXCEPT ![x] = Spot(d, Log.name)]
                                  /\ LogOpened(x)
    <2>1. PICK x \in Things : /\ place[x] = New /\ Vol[x] = volume
                              /\ place' = [place EXCEPT ![x] = Spot(d, Log.name)]
                              /\ LogOpened(x)
      BY <1>6
    <2>2. d \in Volumes => d = volume
      BY <1>1, EntryIs, LeadsAssumption, Marks DEF Parent
    <2>3. Entry(d, Log.name) = None
      BY <1>6 DEF Reached
    <2>4. place' \in [Things -> Places \cup {None, New}] /\ Named'
      BY <1>1, <1>4, <1>6, <2>1, <2>2, <2>3, NamedCreate
    <2>5. x \in Allowed
      BY <1>1, <2>1 DEF Named
    <2> QED BY <1>1, <1>6, <2>1, <2>4, <2>5, BindingLogOpened
  <1> QED BY <1>2, <1>3, <1>5, <1>6 DEF OpenLog

(***************************************************************************)
(* The second opening, and the session.                                    *)
(***************************************************************************)

\* A folder that was open is given up, with both handles, and reported.
LEMMA GivenUp ==
  ASSUME BindingInv, at \in {"upgrade", "held"}, NEW k \in folders,
         NEW why \in {"waiting", "refused"}, Unavailable(k, why),
         i' = i \/ (at = "upgrade" /\ i > 0 /\ i' = i - 1 /\ k = i),
         UNCHANGED <<world, at, use, client, walk, log, roots>>, events' \in 0..MaxEvents
  PROVE  BindingInv'
  <1> USE DEF Unavailable, walk
  <1>1. k \in 1..N /\ N \in Nat /\ i \in 0..N
    BY Sizes DEF BindingInv, TypeOK, Position, Indexed
  <1>2. \A m \in 1..N : /\ m # k => owner'[m] = owner[m] /\ secure'[m] = secure[m]
                                    /\ identity'[m] = identity[m] /\ away'[m] = away[m]
                        /\ m = k => owner'[m] = None /\ secure'[m] = None
                                    /\ identity'[m] = None /\ away'[m] = why
    BY <1>1 DEF BindingInv, TypeOK
  <1>3. /\ owner' \in [1..N -> Handles] /\ secure' \in [1..N -> Handles]
        /\ identity' \in [1..N -> Volumes \cup Things \cup {None}]
        /\ away' \in [1..N -> {"no", "waiting", "refused"}]
    BY <1>1 DEF BindingInv, TypeOK, Handles
  <1>4. TypeOK'
    BY <1>1, <1>3 DEF BindingInv, TypeOK, world
  <1>5. Position'
    BY <1>1 DEF BindingInv, Position, Impersonating, Indexed, Passing, Walking, Unbound
  <1>6. Ordinary' /\ Captures' /\ Capable' /\ Identified'
    BY <1>2, Marks DEF BindingInv, Ordinary, Captures, Capable, Identified
  <1>7. Answered'
    BY <1>1, <1>2, Marks DEF BindingInv, Answered, Walked, Reopened, Unbound
  <1>8. Rooted'
    BY DEF Rooted
  <1> QED BY <1>4, <1>5, <1>6, <1>7, <1>8, NamedSteady DEF BindingInv, world

LEMMA BindingUpgrade == ASSUME BindingInv, Upgrade PROVE BindingInv'
  <1>1. /\ at = "upgrade" /\ i \in 1..N /\ i' = i - 1 /\ N \in Nat
        /\ UNCHANGED <<world, at, use, client, walk, log, roots, events>>
        /\ events' \in 0..MaxEvents
    BY Sizes DEF Upgrade, Downwards, BindingInv, TypeOK, Position, Indexed
  <1>2. CASE \E why \in {"waiting", "refused"} : i \in folders /\ Unavailable(i, why)
    BY <1>1, <1>2, GivenUp
  <1>3. CASE /\ i \notin folders \/ identity[i] \in Volumes
             /\ UNCHANGED <<folders, away, identity, owner, secure>>
    <2> USE DEF walk
    <2>1. TypeOK'
      BY <1>1, <1>3 DEF BindingInv, TypeOK, world
    <2>2. Position'
      BY <1>1 DEF BindingInv, Position, Impersonating, Indexed, Passing, Walking, Unbound
    <2>3. Ordinary' /\ Captures' /\ Capable' /\ Identified'
      BY <1>1, <1>3 DEF BindingInv, Ordinary, Captures, Capable, Identified
    <2>4. Answered' /\ Rooted'
      BY <1>1, <1>3, Marks DEF BindingInv, Answered, Walked, Reopened, Unbound, Rooted
    <2> QED BY <1>1, <2>1, <2>2, <2>3, <2>4, NamedSteady DEF BindingInv, world
  <1>4. CASE /\ i \in folders /\ identity[i] \in Things /\ OpenById(identity[i]) # None
             /\ secure' = [secure EXCEPT ![i] = OpenById(identity[i])]
             /\ UNCHANGED <<folders, away, identity, owner>>
    <2> USE DEF walk
    <2>1. \A k \in 1..N : secure'[k] = IF k = i THEN identity[i] ELSE secure[k]
      BY <1>1, <1>4 DEF BindingInv, TypeOK, OpenById
    <2>2. secure' \in [1..N -> Handles]
      BY <1>1, <1>4 DEF BindingInv, TypeOK, OpenById, Handles
    <2>3. TypeOK'
      BY <1>1, <1>4, <2>2 DEF BindingInv, TypeOK, world
    <2>4. Position'
      BY <1>1 DEF BindingInv, Position, Impersonating, Indexed, Passing, Walking, Unbound
    <2>5. Ordinary' /\ Captures' /\ Capable' /\ Identified'
      BY <1>1, <1>4, <2>1 DEF BindingInv, Ordinary, Captures, Capable, Identified
    <2>6. Answered' /\ Rooted'
      BY <1>1, <1>4, <2>1, Marks DEF BindingInv, Answered, Walked, Reopened, Unbound, Rooted
    <2> QED BY <1>1, <2>3, <2>4, <2>5, <2>6, NamedSteady DEF BindingInv, world
  <1> QED BY <1>2, <1>3, <1>4 DEF Upgrade

LEMMA BindingUpgraded == ASSUME BindingInv, Upgraded PROVE BindingInv'
  <1> USE DEF Upgraded, walk, result
  <1>1. N \in Nat /\ UNCHANGED place
    BY Sizes DEF world
  <1>2. TypeOK'
    BY DEF BindingInv, TypeOK, world
  <1>3. Position'
    BY <1>1 DEF BindingInv, Position, Impersonating, Indexed, Passing, Walking, Unbound
  <1>4. Ordinary' /\ Captures' /\ Capable' /\ Identified'
    BY DEF BindingInv, Ordinary, Captures, Capable, Identified
  <1>5. Answered' /\ Rooted'
    BY <1>1 DEF BindingInv, Answered, Walked, Reopened, Unbound, Walking, Rooted
  <1> QED BY <1>1, <1>2, <1>3, <1>4, <1>5, NamedSteady DEF BindingInv

LEMMA BindingAccept == ASSUME BindingInv, Accept PROVE BindingInv'
  <1> USE DEF Accept, walk
  <1>1. UNCHANGED place /\ roots' \subseteq 1..N
    BY DEF world, EffectiveRoots, BindingInv, TypeOK
  <1>2. TypeOK'
    BY <1>1 DEF BindingInv, TypeOK, world
  <1>3. Position'
    BY DEF BindingInv, Position, Impersonating, Indexed, Passing, Walking, Unbound
  <1>4. Ordinary' /\ Captures' /\ Capable' /\ Identified'
    BY DEF BindingInv, Ordinary, Captures, Capable, Identified
  <1>5. Answered' /\ Rooted'
    BY DEF BindingInv, Answered, Walked, Reopened, Unbound, Walking, Rooted, EffectiveRoots
  <1> QED BY <1>1, <1>2, <1>3, <1>4, <1>5, NamedSteady DEF BindingInv

LEMMA BindingBusy == ASSUME BindingInv, Busy PROVE BindingInv'
  <1>1. events' \in 0..MaxEvents
    BY EventType DEF Busy, BindingInv, TypeOK
  <1>2. CASE at \in {"root", "dir", "leaf"}
    BY <1>1, <1>2, Passed DEF Busy, Walking
  <1>3. CASE at = "upgrade"
    <2>1. i \in folders /\ Unavailable(i, "waiting") /\ i' = i - 1 /\ i > 0
      BY <1>3 DEF Busy, Downwards, BindingInv, TypeOK
    <2> QED BY <1>1, <1>3, <2>1, GivenUp DEF Busy
  <1> QED BY <1>2, <1>3 DEF Busy

LEMMA BindingChanged == ASSUME BindingInv, NEW k \in 1..N, Changed(k) PROVE BindingInv'
  <1>1. events' \in 0..MaxEvents
    BY DEF Changed, BindingInv, TypeOK
  <1> QED BY <1>1, GivenUp DEF Changed

LEMMA BindingStep == ASSUME BindingInv, [Next]_vars PROVE BindingInv'
  <1>1. CASE UNCHANGED vars
    <2>1. UNCHANGED <<place, plugged, letter, Service, events>>
      BY <1>1 DEF vars, world, Service
    <2> QED BY <2>1, ServiceKeeps, NamedSteady DEF BindingInv, TypeOK
  <1>2. CASE Next
    BY <1>2, BindingPrograms, BindingDetach, BindingDrives, BindingSurvey, BindingLocate,
       BindingComponent, BindingOpenLeaf, BindingConfirm, BindingOpenLog, BindingUpgrade,
       BindingUpgraded, BindingBusy, BindingChanged, BindingAccept, BindingAbandon
    DEF Next, PrivilegeFails, End
  <1> QED BY <1>1, <1>2

(***************************************************************************)
(* The theorems.                                                           *)
(***************************************************************************)

\* The inductive invariant: what each handle, identity and report has to do with the
\* others at every call of the bind, for any folders, drives and interference.
THEOREM BindingCorrect == Spec => []BindingInv
  BY BindingInit, BindingStep, PTL DEF Spec

\* Every reachable state of the bind is well typed.
THEOREM TypeOKCorrect == Spec => []TypeOK
  BY BindingCorrect, PTL DEF BindingInv

\* Everything held during a session the owner's own token may open.
THEOREM OnlyTheOwnersCorrect == Spec => []OnlyTheOwners
  <1>1. ASSUME BindingInv PROVE OnlyTheOwners
    <2>1. ASSUME NEW k \in 1..N PROVE {owner[k], secure[k]} \ {None, Dead} \subseteq Allowed
      <3>1. owner[k] \in Handles /\ secure[k] \in Handles
        BY <1>1 DEF BindingInv, TypeOK
      <3>2. secure[k] \in Things => secure[k] = identity[k]
        BY <1>1, Marks DEF BindingInv, Capable
      <3> QED BY <1>1, <3>1, <3>2 DEF BindingInv, Ordinary, Handles
    <2>2. {log} \ {None, Dead} \subseteq Allowed
      BY <1>1 DEF BindingInv, TypeOK, Ordinary, Handles
    <2> QED BY <2>1, <2>2 DEF OnlyTheOwners
  <1> QED BY <1>1, BindingCorrect, PTL

\* The handle the service opens for itself is the object the client opened.
THEOREM SecondHandleIsTheFirstCorrect == Spec => []SecondHandleIsTheFirst
  <1>1. BindingInv => SecondHandleIsTheFirst
    BY DEF BindingInv, TypeOK, Capable, SecondHandleIsTheFirst
  <1> QED BY <1>1, BindingCorrect, PTL

\* A bind accounts for every configured folder: it is open, twice where it has an
\* identity, or it is reported.
THEOREM EveryFolderAnsweredCorrect == Spec => []EveryFolderAnswered
  <1>1. BindingInv => EveryFolderAnswered
    BY DEF BindingInv, Answered, Walked, Reopened, EveryFolderAnswered
  <1> QED BY <1>1, BindingCorrect, PTL

\* Markers are never chosen for folders that are then bound without an identity,
\* although letters change hands between the choice and the bind.
THEOREM ChoiceAndBindAgreeCorrect == Spec => []ChoiceAndBindAgree
  <1>1. BindingInv => ChoiceAndBindAgree
    BY DEF BindingInv, TypeOK, Identified, ChoiceAndBindAgree, OutOfStep
  <1> QED BY <1>1, BindingCorrect, PTL

\* Nothing stays open that nobody will close.
THEOREM NothingStaysOpenCorrect == Spec => []NothingStaysOpen
  <1>1. BindingInv => NothingStaysOpen
    BY DEF BindingInv, Position, Passing, Capable, Unbound, NothingStaysOpen
  <1> QED BY <1>1, BindingCorrect, PTL

\* Of distinct paths, the one around another has nothing around itself: paths are two
\* names deep.
LEMMA Around ==
  ASSUME NEW k \in 1..N, NEW m \in 1..N, k # m, Within(Folders[k], Folders[m])
  PROVE  /\ Folders[k].letter = Folders[m].letter /\ Folders[k].dir = Folders[m].name
         /\ Folders[m].dir = None
         /\ \A n \in 1..N \ {m} : ~Within(Folders[m], Folders[n])
  <1>1. /\ \A n \in 1..N : Folders[n] \in PathType
        /\ \A n, o \in 1..N : Folders[n] = Folders[o] => n = o
    BY Sizes, PathAssumption DEF N
  <1>2. Folders[k].letter = Folders[m].letter /\ Folders[k].dir = Folders[m].name /\ Folders[m].dir = None
    BY <1>1 DEF Within
  <1>3. \A n \in 1..N : Folders[n].name # None
    BY <1>1, Marks DEF PathType
  <1> QED BY <1>1, <1>2, <1>3 DEF Within

\* Two folders around the same one are the same.
LEMMA OneAround ==
  ASSUME NEW k \in 1..N, NEW m \in 1..N, NEW n \in 1..N, k # m, k # n,
         Within(Folders[k], Folders[m]), Within(Folders[k], Folders[n])
  PROVE  m = n
  <1>1. Folders[m] \in PathType /\ Folders[n] \in PathType
    BY Sizes
  <1>2. /\ Folders[m].letter = Folders[n].letter /\ Folders[m].dir = Folders[n].dir
        /\ Folders[m].name = Folders[n].name
    BY Around
  <1>3. Folders[m] = Folders[n]
    BY <1>1, <1>2 DEF PathType
  <1> QED BY <1>3, PathAssumption DEF N

\* Every folder watched by markers lies under exactly one rule, on a folder that is open.
THEOREM RulesCoverCorrect == Spec => []RulesCover
  <1>1. ASSUME BindingInv, at = "session", use = "markers", NEW k \in folders
        PROVE  \E r \in roots : /\ r \in folders /\ secure[r] # None /\ Within(Folders[k], Folders[r])
                                /\ \A m \in roots \ {r} : ~Within(Folders[k], Folders[m])
    <2>1. folders \subseteq 1..N /\ roots = EffectiveRoots /\ \A m \in folders : secure[m] # None
      <3>1. folders \subseteq 1..N /\ roots = EffectiveRoots
        BY <1>1 DEF BindingInv, TypeOK, Rooted
      <3>2. \A m \in folders : identity[m] \in Things
        BY <1>1, <3>1 DEF BindingInv, TypeOK, Identified, Capable
      <3> QED BY <1>1, <3>1, <3>2 DEF BindingInv, Answered, Reopened
    <2>2. CASE k \in EffectiveRoots
      BY <1>1, <2>1, <2>2 DEF EffectiveRoots, Within
    <2>3. CASE k \notin EffectiveRoots
      <3>1. PICK r \in folders : r # k /\ Within(Folders[k], Folders[r])
        BY <1>1, <2>3 DEF EffectiveRoots
      <3>2. r \in EffectiveRoots
        BY <1>1, <2>1, <3>1, Around DEF EffectiveRoots
      <3>3. \A m \in roots \ {r} : ~Within(Folders[k], Folders[m])
        BY <1>1, <2>1, <2>3, <3>1, OneAround DEF EffectiveRoots
      <3> QED BY <2>1, <3>1, <3>2, <3>3
    <2> QED BY <2>2, <2>3
  <1>2. BindingInv => RulesCover
    BY <1>1 DEF RulesCover
  <1> QED BY <1>2, BindingCorrect, PTL

(***************************************************************************)
(* The way to the log.                                                     *)
(***************************************************************************)

\* The log is on a drive that stays.
FixedLog == Letter0[Log.letter] \in Volumes \ Removable

\* The log's letter keeps its meaning, and the log's directory is held until the log is open.
OnTheWay ==
  /\ letter[Log.letter] = Letter0[Log.letter] /\ letter[Log.letter] \in plugged
  /\ i = N + 1 /\ at \in {"root", "dir", "leaf"} => volume = Letter0[Log.letter]
  /\ i = N + 1 /\ at = "leaf" /\ Log.dir # None =>
       \E d \in guards \cap Things : Kind[d] = "folder" /\ place[d] = Spot(volume, Log.dir)

\* A step of the bind is one of the walk's to a capability, the opening of the log, or
\* neither opens a handle nor moves anything.
LEMMA Opening ==
  ASSUME BindingInv, [Next]_vars
  PROVE  \/ Confirm
         \/ OpenLog
         \/ \E t \in Things : Delete(t) \/ \E s \in Spots[t] : Move(t, s)
         \/ /\ UNCHANGED place /\ (log = None => log' = None)
            /\ \A k \in 1..N : owner[k] = None => owner'[k] = None
  <1> USE Sizes DEF BindingInv, TypeOK
  <1>1. CASE UNCHANGED vars
    BY <1>1 DEF vars, world, result
  <1>2. CASE \E v \in Volumes : Detach(v)
    BY <1>2, Lose, LostIs
  <1>3. CASE Abandon
    BY <1>3 DEF Abandon, Close, world, Nothing
  <1>4. CASE \E v \in Volumes, l \in Letters : Attach(v, l) \/ Reassign(v, l)
    BY <1>4 DEF Attach, Reassign, Service, result
  <1>5. CASE \/ Survey \/ Locate \/ Name \/ OpenRoot \/ OpenDir \/ Upgraded \/ OpenLeaf
             \/ (Impersonate /\ ~Abandon)
             \/ \E preference \in {"markers", "etw"} : Begin(preference)
    <2>1. \/ UNCHANGED <<place, log, owner>>
          \/ Abandon
      BY <1>5 DEF Survey, Locate, Name, OpenRoot, OpenDir, Component, Upgraded, OpenLeaf, Missed,
                  Impersonate, Begin, world, result
    <2> QED BY <2>1, <1>3
  <1>6. CASE Upgrade \/ Busy \/ Accept \/ \E k \in 1..N : Changed(k)
    BY <1>6 DEF Upgrade, Busy, Accept, Changed, Unavailable, world
  <1> QED BY <1>1, <1>2, <1>3, <1>4, <1>5, <1>6 DEF Next, PrivilegeFails, End

LEMMA ConfirmStands ==
  ASSUME BindingInv, Confirm, NEW k \in 1..N, owner[k] = None, owner'[k] # None
  PROVE  Stands(owner[k], Folders[k], volume)'
  <1>1. i \in 1..N
    BY Sizes DEF Confirm, BindingInv, TypeOK, Position, Indexed, Walking
  <1>2. CASE Missed("waiting") \/ Missed("refused")
    BY <1>1, <1>2, Sizes DEF Missed
  <1>3. CASE /\ Stands(leaf, Path(i), volume) /\ owner' = [owner EXCEPT ![i] = leaf]
             /\ UNCHANGED <<world, volume>>
    <2>1. k = i /\ owner'[k] = leaf /\ Path(i) = Folders[k]
      BY <1>1, <1>3, PathIs DEF BindingInv, TypeOK
    <2> QED BY <1>3, <2>1 DEF Stands, world
  <1> QED BY <1>2, <1>3 DEF Confirm

LEMMA OpenLogKeeps == ASSUME OpenLog, NEW k \in 1..N PROVE owner'[k] \in {owner[k], None}
  BY DEF OpenLog, LogOpened, Abandon, Close, Nothing

\* A folder is what its path names on its volume at the moment its capability is made,
\* whatever drives come and go: the half of AdmittedWhereItStands that needs no fixed log.
THEOREM FoldersAdmittedCorrect ==
  Spec => [][\A k \in 1..N : owner[k] = None /\ owner'[k] # None =>
               Stands(owner[k], Folders[k], volume)']_vars
  <1>1. ASSUME BindingInv, [Next]_vars, NEW k \in 1..N, owner[k] = None, owner'[k] # None
        PROVE  Stands(owner[k], Folders[k], volume)'
    <2>1. CASE \E t \in Things : Delete(t) \/ \E s \in Spots[t] : Move(t, s)
      BY <1>1, <2>1 DEF Delete, Move, Service, result
    <2> QED BY <1>1, <2>1, Opening, ConfirmStands, OpenLogKeeps
  <1>2. BindingInv /\ [Next]_vars =>
          \A k \in 1..N : owner[k] = None /\ owner'[k] # None => Stands(owner[k], Folders[k], volume)'
    BY <1>1
  <1> QED BY <1>2, BindingCorrect, PTL DEF Spec

\* From its admission to the end of the session a folder stays where it was, and the
\* rule with it, unless its drive leaves.
THEOREM WatchedStayWhereTheyAreCorrect == Spec => WatchedStayWhereTheyAre
  <1>1. ASSUME BindingInv, [Next]_vars, NEW k \in folders, k \in folders', owner[k] # Dead
        PROVE  place'[Watched(k)] = place[Watched(k)]
    <2>1. /\ k \in 1..N /\ owner[k] \in Things /\ Watched(k) = owner[k]
          /\ Kind[owner[k]] = "folder"
      BY <1>1, Marks DEF BindingInv, TypeOK, Handles, Capable, Ordinary, Watched
    <2>2. Pinned(Watched(k)) /\ place \in [Things -> Places \cup {None, New}]
      BY <1>1, <2>1 DEF Pinned, BindingInv, TypeOK
    <2>3. CASE \E t \in Things : Delete(t) \/ \E s \in Spots[t] : Move(t, s)
      BY <2>1, <2>2, <2>3 DEF Delete, Move
    <2>4. CASE OpenLog
      BY <2>1, <2>2, <2>4 DEF OpenLog, Abandon, world
    <2>5. CASE Confirm
      BY <2>5 DEF Confirm, Missed, Abandon, world
    <2> QED BY <1>1, <2>3, <2>4, <2>5, Opening
  <1>2. BindingInv /\ [Next]_vars =>
          \A k \in folders \cap folders' : owner[k] # Dead => place'[Watched(k)] = place[Watched(k)]
    BY <1>1
  <1> QED BY <1>2, BindingCorrect, PTL DEF Spec, WatchedStayWhereTheyAre

LEMMA WayInit == ASSUME FixedLog, Init PROVE OnTheWay
  BY Sizes, PathAssumption DEF FixedLog, Init, OnTheWay

\* The letter of a drive that stays cannot be taken from it.
LEMMA LetterStays ==
  ASSUME FixedLog, BindingInv, OnTheWay, [Next]_vars
  PROVE  letter'[Log.letter] = Letter0[Log.letter] /\ letter'[Log.letter] \in plugged'
  <1>1. /\ Log.letter \in Letters /\ letter[Log.letter] = Letter0[Log.letter]
        /\ letter[Log.letter] \in plugged /\ letter[Log.letter] \in Volumes \ Removable
        /\ letter \in [Letters -> plugged \cup {None}]
    BY PathAssumption DEF FixedLog, OnTheWay, PathType, BindingInv, TypeOK
  <1>2. CASE \E v \in Volumes : Detach(v)
    BY <1>1, <1>2 DEF Detach
  <1>3. CASE \E v \in Volumes, l \in Letters : Attach(v, l) \/ Reassign(v, l)
    BY <1>1, <1>3, Marks DEF Attach, Reassign
  <1>4. CASE UNCHANGED <<letter, plugged>>
    BY <1>1, <1>4
  <1>5. \/ \E v \in Volumes : Detach(v)
        \/ \E v \in Volumes, l \in Letters : Attach(v, l) \/ Reassign(v, l)
        \/ UNCHANGED <<letter, plugged>>
    BY DEF Next, vars, world, Delete, Move, Begin, Survey, Impersonate, Abandon, Locate, Name, OpenRoot,
       OpenDir, Component, OpenLeaf, Confirm, OpenLog, LogOpened, Upgrade, Upgraded, PrivilegeFails,
       Busy, Changed, Accept, End, Missed
  <1> QED BY <1>2, <1>3, <1>4, <1>5

\* How a walk comes to be where the disk is opened.
LEMMA WayPoints ==
  ASSUME BindingInv, [Next]_vars, at' \in {"root", "dir", "leaf"}
  PROVE  \/ Name /\ i' = i /\ volume' = letter[Path(i).letter] /\ at' = "root"
         \/ OpenRoot /\ UNCHANGED <<i, volume, place>>
            /\ at' = IF Path(i).dir = None THEN "leaf" ELSE "dir"
         \/ OpenDir /\ UNCHANGED <<i, volume, place>> /\ at' = "leaf"
            /\ Trouble(Entry(volume, Path(i).dir)) = "no"
            /\ guards' = guards \cup {Entry(volume, Path(i).dir)}
         \/ \E v \in Volumes : Detach(v)
         \/ UNCHANGED <<at, i, volume, guards>>
            /\ \/ UNCHANGED place
               \/ \E t \in Things : Delete(t) \/ \E s \in Spots[t] : Move(t, s)
  <1>1. CASE \E t \in Things : Delete(t) \/ \E s \in Spots[t] : Move(t, s)
    BY <1>1 DEF Delete, Move, Service, walk
  <1>2. CASE \E v \in Volumes, l \in Letters : Attach(v, l) \/ Reassign(v, l)
    BY <1>2 DEF Attach, Reassign, Service, walk
  <1>3. CASE UNCHANGED vars
    BY <1>3 DEF vars, world, walk
  <1>4. CASE Locate \/ Name \/ OpenRoot \/ OpenDir
    BY <1>4 DEF Locate, Name, OpenRoot, OpenDir, Component, Missed, Proceed, Abandon, Close, world
  <1>5. CASE OpenLeaf \/ Confirm \/ OpenLog \/ Impersonate
    BY <1>5 DEF OpenLeaf, Confirm, OpenLog, LogOpened, Impersonate, Missed, Proceed, Abandon, Close
  <1>6. CASE \/ Survey \/ Upgrade \/ Upgraded \/ PrivilegeFails \/ Busy \/ Accept \/ End
             \/ \E k \in 1..N : Changed(k)
             \/ \E preference \in {"markers", "etw"} : Begin(preference)
    BY <1>6 DEF Survey, Upgrade, Upgraded, PrivilegeFails, Busy, Accept, End, Changed, Begin, Abandon,
                Close, Proceed
  <1> QED BY <1>1, <1>2, <1>3, <1>4, <1>5, <1>6 DEF Next

LEMMA WayStep == ASSUME FixedLog, BindingInv, OnTheWay, [Next]_vars PROVE OnTheWay'
  <1>1. N + 1 \in 1..N + 1 /\ Path(N + 1) = Log /\ Log \in PathType
    BY Sizes, PathIs, PathAssumption
  <1>2. SUFFICES ASSUME i' = N + 1, at' \in {"root", "dir", "leaf"}
        PROVE  /\ volume' = Letter0[Log.letter]
               /\ at' = "leaf" /\ Log.dir # None =>
                    \E d \in guards' \cap Things : Kind[d] = "folder" /\ place'[d] = Spot(volume', Log.dir)
    BY LetterStays DEF OnTheWay, Spot
  <1>3. CASE Name /\ i' = i /\ volume' = letter[Path(i).letter] /\ at' = "root"
    BY <1>1, <1>2, <1>3 DEF OnTheWay
  <1>4. CASE /\ OpenRoot /\ UNCHANGED <<i, volume, place>>
             /\ at' = IF Path(i).dir = None THEN "leaf" ELSE "dir"
    BY <1>1, <1>2, <1>4 DEF OnTheWay, OpenRoot
  <1>5. CASE /\ OpenDir /\ UNCHANGED <<i, volume, place>> /\ at' = "leaf"
             /\ Trouble(Entry(volume, Path(i).dir)) = "no"
             /\ guards' = guards \cup {Entry(volume, Path(i).dir)}
    <2>1. /\ UNCHANGED <<i, volume, place>> /\ volume = Letter0[Log.letter]
          /\ Trouble(Entry(volume, Log.dir)) = "no"
          /\ guards' = guards \cup {Entry(volume, Log.dir)}
      BY <1>1, <1>2, <1>5 DEF OnTheWay, OpenDir
    <2>2. /\ Entry(volume, Log.dir) \in Things /\ Kind[Entry(volume, Log.dir)] = "folder"
          /\ place[Entry(volume, Log.dir)] = Spot(volume, Log.dir)
      BY <2>1, EntryIs, TroubleIs
    <2> QED BY <2>1, <2>2
  <1>6. CASE \E v \in Volumes : Detach(v)
    <2>1. PICK v \in Volumes : Detach(v)
      BY <1>6
    <2>2. /\ UNCHANGED <<at, i, volume, place>> /\ guards' = {Lost(v, h) : h \in guards}
          /\ v \in Removable /\ volume = Letter0[Log.letter] /\ volume # v /\ volume \in Volumes
      BY <1>2, <2>1, Lose DEF Detach, OnTheWay, FixedLog
    <2>3. SUFFICES ASSUME at = "leaf", Log.dir # None
          PROVE \E d \in guards' \cap Things : Kind[d] = "folder" /\ place'[d] = Spot(volume', Log.dir)
      BY <2>2
    <2>4. PICK d \in guards \cap Things : Kind[d] = "folder" /\ place[d] = Spot(volume, Log.dir)
      BY <1>2, <2>2, <2>3 DEF OnTheWay
    <2>5. Vol[d] = volume
      BY <1>1, <2>2, <2>3, <2>4 DEF BindingInv, Named, PathType
    <2>6. Lost(v, d) = d
      BY <2>2, <2>4, <2>5, Marks DEF Lost
    <2> QED BY <2>2, <2>4, <2>6
  <1>7. CASE UNCHANGED <<at, i, volume, guards, place>>
    BY <1>2, <1>7 DEF OnTheWay
  <1>8. CASE /\ UNCHANGED <<at, i, volume, guards>>
             /\ \E t \in Things : Delete(t) \/ \E s \in Spots[t] : Move(t, s)
    <2>1. \A d \in guards \cap Things : place'[d] = place[d]
      BY <1>8 DEF Delete, Move, Pinned, BindingInv, TypeOK
    <2> QED BY <1>2, <1>8, <2>1 DEF OnTheWay
  <1> QED BY <1>2, <1>3, <1>4, <1>5, <1>6, <1>7, <1>8, WayPoints

LEMMA LogStands ==
  ASSUME BindingInv, OnTheWay, OpenLog, log' # None
  PROVE  Stands(log, Log, volume)'
  <1> DEFINE d == Parent(Log, volume)
             t == Reached(Log, volume)
  <1>1. /\ at = "leaf" /\ i = N + 1 /\ volume \in Volumes /\ Log \in PathType
        /\ place \in [Things -> Places \cup {None, New}]
    BY PathAssumption DEF OpenLog, BindingInv, TypeOK, Position, Indexed
  <1>2. ~Abandon
    BY DEF Abandon, Close
  <1>3. UNCHANGED volume
    BY <1>2 DEF OpenLog, LogOpened
  <1>4. \/ d = volume /\ Log.dir = None
        \/ d \in Things /\ Log.dir # None /\ place[d] = Spot(volume, Log.dir)
    <2>1. CASE Log.dir = None
      BY <2>1 DEF Parent
    <2>2. CASE Log.dir # None
      <3>1. PICK e \in guards \cap Things : Kind[e] = "folder" /\ place[e] = Spot(volume, Log.dir)
        BY <1>1, <2>2 DEF OnTheWay
      <3>2. There(e)
        BY <1>1, <2>2, <3>1, SpotType, Marks DEF There, PathType
      <3>3. Entry(volume, Log.dir) = e
        BY <3>1, <3>2 DEF Entry, BindingInv, Named
      <3> QED BY <2>2, <3>1, <3>3 DEF Parent
    <2> QED BY <2>1, <2>2
  <1>5. CASE t # None /\ log' = t /\ UNCHANGED place
    <2>1. t \in Things /\ place[t] = Spot(d, Log.name)
      BY <1>5, ReachedIs
    <2> QED BY <1>3, <1>4, <1>5, <2>1 DEF Stands, Spot
  <1>6. CASE \E x \in Things : place[x] = New /\ log' = x /\ place' = [place EXCEPT ![x] = Spot(d, Log.name)]
    <2>1. PICK x \in Things : place[x] = New /\ log' = x /\ place' = [place EXCEPT ![x] = Spot(d, Log.name)]
      BY <1>6
    <2>2. place'[x] = Spot(d, Log.name) /\ \A y \in Things \ {x} : place'[y] = place[y]
      BY <1>1, <2>1
    <2>3. d \in Things => d # x
      BY <1>1, <1>4, <2>1, SpotType, Marks DEF PathType
    <2> QED BY <1>3, <1>4, <2>1, <2>2, <2>3 DEF Stands, Spot
  <1> QED BY <1>2, <1>5, <1>6 DEF OpenLog, LogOpened

\* The way to a log on a drive that stays is held from its letter to its directory until
\* the log is open.
THEOREM OnTheWayCorrect == FixedLog /\ Spec => []OnTheWay
  <1>1. FixedLog => FixedLog'
    BY DEF FixedLog
  <1>2. FixedLog /\ BindingInv /\ OnTheWay /\ [Next]_vars => OnTheWay'
    BY WayStep
  <1>3. FixedLog /\ Init => OnTheWay
    BY WayInit
  <1> QED BY <1>1, <1>2, <1>3, BindingCorrect, PTL DEF Spec

\* What the bind takes hold of is what its path names on its volume at that moment,
\* through ordinary directories: each folder, and a log on a drive that stays.
THEOREM AdmittedWhereItStandsCorrect == FixedLog /\ Spec => AdmittedWhereItStands
  <1>1. ASSUME BindingInv, OnTheWay, [Next]_vars, log = None, log' # None
        PROVE  Stands(log, Log, volume)'
    <2>1. CASE Confirm
      BY <1>1, <2>1 DEF Confirm, Missed, Abandon, Close
    <2>2. CASE \E t \in Things : Delete(t) \/ \E s \in Spots[t] : Move(t, s)
      BY <1>1, <2>2 DEF Delete, Move, Service, result
    <2> QED BY <1>1, <2>1, <2>2, Opening, LogStands
  <1> QED BY <1>1, FoldersAdmittedCorrect, OnTheWayCorrect, BindingCorrect, PTL
      DEF Spec, AdmittedWhereItStands
=============================================================================
