---------------------------- MODULE Correlation ----------------------------
(***************************************************************************)
(* How the trace watcher names a read (internal/etw/watcher_windows.go,    *)
(* session_windows.go, snapshot_windows.go).                               *)
(*                                                                         *)
(* The kernel's records carry addresses: a file object for each open file, *)
(* a file key for the stream behind it, an IRP for each operation under    *)
(* way.  All three are used again for something else.  The watcher learns  *)
(* names from the records that carry them, copies a name into a read when  *)
(* the read starts, publishes the read when the end of the operation says  *)
(* that it succeeded, and parks a read nothing has named yet.              *)
(*                                                                         *)
(* The records of a session are delivered in order, so what the kernel     *)
(* does and onEvent's handling of its records are one step, and a record   *)
(* that the session loses, or whose payload does not decode, is one that   *)
(* is not handled.  Any record may be: one that names or takes back an     *)
(* object or a key, the start of an operation, its end.  Housekeeping      *)
(* comes at any moment between two records.                                *)
(*                                                                         *)
(* What is left out: folders and the service's own process id (every read  *)
(* here is wanted); time (a read may expire at any moment); the caps'      *)
(* sizes; who is told of errors (Pipeline).                                *)
(***************************************************************************)
EXTENDS Integers, Sequences, FiniteSets

CONSTANTS Files, Objects, Keys, Irps, \* files, and the addresses the kernel uses
          None,                       \* no file, or no key
          NameMax,                    \* nameMapMax
          PendingMax,                 \* pendingReadMax
          ParkedMax, ShareMax,        \* deferredMax, deferredPerIdentity
          MaxReads, MaxOpens,         \* bounds on what the kernel does
          MaxMissed                   \* bound on the steps whose records are lost

ASSUME NoneAssumption == None \notin Files \cup Keys
ASSUME FiniteAssumption == IsFiniteSet(Irps)
ASSUME CapsAssumption == {NameMax, PendingMax, ParkedMax, ShareMax} \subseteq Nat \ {0}
ASSUME BoundsAssumption == {MaxReads, MaxOpens, MaxMissed} \subseteq Nat

VARIABLES
  file,      \* the file each file object is open on
  key,       \* the key each file has
  busy,      \* the operation each IRP belongs to: a read, Opening, Idle, or Untraced
             \* if the watcher has not seen it start
  opens,     \* how many times a file has been opened
  missed,    \* at how many steps a record was lost
  lingering, \* the entries of the maps and of the snapshot whose name a lost record was to
             \* take back
  orphaned,  \* the reads that were waiting when their own end was lost
  reads,     \* [file, obj, key] of each read the watcher has seen start
  phase,     \* of the watcher
  names,     \* [cur, prev], and in each generation the maps [obj, key, run]
  retired,   \* retiredDuringInit: the keys given up while the snapshot is taken
  noting,    \* retiredDuringInit is there
  snapshot,  \* the names the helper session has collected, by key
  path,      \* the path each read carries
  pending,   \* the read waiting for the end of each IRP, 0 if none
  deferred,  \* the parked reads
  detached,  \* those a sweep is trying
  readd,     \* those it could not name
  shown,     \* the reads published
  failed,    \* the reads that failed or transferred nothing
  gone,      \* the reads given up
  losses,    \* Dropped + NeverNamed + Expired + Crowded
  collisions,
  misled,    \* reads judged by the end of another operation that was seen to start
  guessed,   \* reads judged by the end of an operation that was not
  stale      \* reads without a name whose object or key now is another file's, or that
             \* started with a name that lingers

\* The last three of these and of the variables above are histories: no step reads them
\* but missed, which is bounded.
lost    == <<missed, lingering, orphaned>>
kernel  == <<file, key, busy, opens, lost>>
naming  == <<names, retired, noting, snapshot>>
counts  == <<losses, collisions>>
waiting == <<pending, deferred, detached, readd>>
judged  == <<misled, guessed>>
fates   == <<shown, failed, gone, judged, stale>>
vars == <<kernel, reads, phase, naming, path, waiting, fates,
                 counts>>

Idle == 0
Opening == -1
Untraced == -2
Ids == 1..Len(reads)
Named == Files \cup {None}
Entries == ({"obj"} \X Objects) \cup ({"key", "run", "snapshot"} \X Keys)
Generation == [obj : [Objects -> Named], key : [Keys -> Named], run : [Keys -> Named]]
Waiting == {pending[i] : i \in Irps} \ {0}
Unnamed == {r \in Waiting \cup deferred \cup detached \cup readd : path[r] = None}

TypeOK ==
  /\ file \in [Objects -> Named] /\ key \in [Files -> Keys \cup {None}]
  /\ busy \in [Irps -> {Opening, Untraced, Idle} \cup Ids]
  /\ opens \in 0..MaxOpens /\ missed \in 0..MaxMissed
  /\ reads \in Seq([file : Files, obj : Objects, key : Keys]) /\ Len(reads) <= MaxReads
  /\ phase \in {"ready", "init", "merge", "merging", "unmerged", "on", "stopping", "final",
                "ended"}
  /\ names \in [cur : Generation, prev : Generation]
  /\ retired \subseteq Keys /\ noting \in BOOLEAN /\ snapshot \in [Keys -> Named]
  /\ path \in [Ids -> Named]
  /\ pending \in [Irps -> {0} \cup Ids]
  /\ Cardinality({i \in Irps : pending[i] # 0}) <= PendingMax
  /\ deferred \subseteq Ids /\ Cardinality(deferred) <= ParkedMax
  /\ detached \subseteq Ids /\ readd \subseteq Ids
  /\ shown \subseteq Ids /\ failed \subseteq Ids /\ gone \subseteq Ids
  /\ losses \in Nat /\ collisions \in Nat
  /\ misled \subseteq Ids /\ guessed \subseteq Ids /\ stale \subseteq Ids
  /\ lingering \subseteq Entries /\ orphaned \subseteq Ids

NoNames == [obj |-> [o \in Objects |-> None], key |-> [k \in Keys |-> None],
            run |-> [k \in Keys |-> None]]

\* A file may be open already, and counts as one that has been opened.
Init ==
  /\ \E f \in Files, k \in Keys, o \in Objects :
       /\ key = [[x \in Files |-> None] EXCEPT ![f] = k]
       /\ \/ file = [x \in Objects |-> None] /\ opens = 0
          \/ /\ MaxOpens > 0 /\ opens = 1
             /\ file = [[x \in Objects |-> None] EXCEPT ![o] = f]
  /\ busy = [i \in Irps |-> Idle] /\ missed = 0 /\ reads = <<>>
  /\ phase = "ready"
  /\ names = [cur |-> NoNames, prev |-> NoNames]
  /\ retired = {} /\ noting = FALSE /\ snapshot = [k \in Keys |-> None] /\ path = <<>>
  /\ pending = [i \in Irps |-> 0] /\ deferred = {} /\ detached = {} /\ readd = {}
  /\ shown = {} /\ failed = {} /\ gone = {} /\ losses = 0 /\ collisions = 0
  /\ misled = {} /\ guessed = {} /\ stale = {} /\ lingering = {} /\ orphaned = {}
-----------------------------------------------------------------------------
(***************************************************************************)
(* The names.                                                              *)
(***************************************************************************)

Rotated(n) == [cur |-> NoNames, prev |-> n.cur]

Full(names1) == Cardinality({x \in DOMAIN names1 : names1[x] # None}) >= NameMax

\* learn and learnLocked: a full generation is rotated to make room, all maps with it.
Learned(n, m, x, f) == [IF Full(n.cur[m]) THEN Rotated(n) ELSE n EXCEPT !.cur[m][x] = f]

\* forget: both generations, or promotion would bring the name back.
Forgotten(n, m, x) == [n EXCEPT !.cur[m][x] = None, !.prev[m][x] = None]

\* lookup: where a name is looked for, for the object or else for the key.
Places(o, k) == <<<<"cur", "obj", o>>, <<"prev", "obj", o>>, <<"cur", "key", k>>,
                  <<"cur", "run", k>>, <<"prev", "key", k>>, <<"prev", "run", k>>>>
At(n, p) == n[p[1]][p[2]][p[3]]
Hits(n, o, k) == {i \in 1..6 : At(n, Places(o, k)[i]) # None}
Hit(n, o, k) == Places(o, k)[CHOOSE i \in Hits(n, o, k) : \A j \in Hits(n, o, k) : i <= j]

Lookup(n, o, k) == IF Hits(n, o, k) = {} THEN None ELSE At(n, Hit(n, o, k))

\* A hit in the older generation is put into the current one, which need not have room.
Promoted(n, o, k) ==
  IF Hits(n, o, k) = {} THEN n
  ELSE [n EXCEPT !.cur[Hit(n, o, k)[2]][Hit(n, o, k)[3]] = Lookup(n, o, k)]

\* forget notes what it takes back while the snapshot is taken.
Retire(k) == retired' = IF noting THEN retired \cup {k} ELSE retired
-----------------------------------------------------------------------------
(***************************************************************************)
(* Reads.                                                                  *)
(***************************************************************************)

\* (a slip: an IRP in flight is taken for the new read's)
PendOver(i, r) ==
  /\ pending' = [pending EXCEPT ![i] = r]
  /\ UNCHANGED <<gone, losses, collisions>>

\* pend: an IRP already in flight condemns both reads, a full table everything in it.
Pend(i, r) ==
  \/ /\ pending[i] # 0 /\ pending' = [pending EXCEPT ![i] = 0]
     /\ gone' = gone \cup {pending[i], r} /\ collisions' = collisions + 1
     /\ UNCHANGED losses
  \/ LET held == {j \in Irps : pending[j] # 0}
     IN /\ pending[i] = 0 /\ Cardinality(held) < PendingMax
        /\ pending' = [pending EXCEPT ![i] = r]
        /\ UNCHANGED <<gone, losses, collisions>>
  \/ LET held == {j \in Irps : pending[j] # 0}
     IN /\ pending[i] = 0 /\ Cardinality(held) >= PendingMax
        /\ pending' = [j \in Irps |-> IF j = i THEN r ELSE 0]
        /\ gone' = gone \cup {pending[j] : j \in held}
        /\ losses' = losses + Cardinality(held) /\ UNCHANGED collisions

\* (a slip: an open that uses the IRP of a read leaves the read waiting)
QuarantineNot(i) == UNCHANGED <<pending, gone, collisions>>

Quarantine(i) ==
  \/ /\ pending[i] # 0 /\ pending' = [pending EXCEPT ![i] = 0]
     /\ gone' = gone \cup {pending[i]} /\ collisions' = collisions + 1
  \/ pending[i] = 0 /\ UNCHANGED <<pending, gone, collisions>>

\* parkLocked: each file has its share, and all have room together.
HasRoom(held, r) ==
  /\ Cardinality({x \in held : reads[x].key = reads[r].key}) < ShareMax
  /\ Cardinality(held) < ParkedMax

Park(held, r) ==
  \/ HasRoom(held, r) /\ deferred' = held \cup {r} /\ UNCHANGED <<gone, losses>>
  \/ /\ ~HasRoom(held, r) /\ deferred' = held
     /\ gone' = gone \cup {r} /\ losses' = losses + 1
-----------------------------------------------------------------------------
(***************************************************************************)
(* The kernel, and onEvent.                                                *)
(***************************************************************************)

Consuming == phase \in {"init", "merge", "unmerged", "on", "stopping"}

\* The records of a step are handled but for those in away.
Missing(away) ==
  /\ away = {} \/ (Consuming /\ missed < MaxMissed)
  /\ missed' = IF away = {} THEN missed ELSE missed + 1

\* The entries that hold a name, of those that should be taken back.
Left(entries) == {e \in entries :
  IF e[1] = "snapshot" THEN snapshot[e[2]] # None
  ELSE names.cur[e[1]][e[2]] # None \/ names.prev[e[1]][e[2]] # None}

\* While the snapshot is merged the names are locked, and what happens meanwhile waits.
Going == phase \notin {"merging", "final", "ended"}

\* Opening a file tells what its object is, and its key if that is new.
Telling(f, away) == {m \in {"obj", "key"} : Consuming /\ m \notin away
                                            /\ (m = "obj" \/ key[f] = None)}

\* evNameCreate and evCreate.  A file is opened with an object and an IRP that are free,
\* and has a key from then on.
Open(o, f, i, away) ==
  /\ Going /\ opens < MaxOpens /\ opens' = opens + 1
  /\ file[o] = None /\ busy[i] = Idle /\ Missing(away)
  /\ file' = [file EXCEPT ![o] = f]
  /\ busy' = [busy EXCEPT ![i] = IF Consuming /\ "obj" \notin away THEN Opening ELSE Untraced]
  /\ \E k \in Keys :
       /\ \/ key[f] = k /\ "key" \notin away
          \/ key[f] = None /\ \A g \in Files : key[g] # k
       /\ key' = [key EXCEPT ![f] = k]
       /\ stale' = stale \cup {r \in Unnamed : reads[r].file # f
                                             /\ (reads[r].obj = o \/ reads[r].key = k)}
       /\ LET told == Telling(f, away)
              n == IF "key" \in told THEN Learned(names, "key", k, f) ELSE names
          IN /\ names' = IF "obj" \in told THEN Learned(n, "obj", o, f) ELSE n
             /\ lingering' = lingering \ {e \in {<<"obj", o>>, <<"key", k>>} : e[1] \in told}
             /\ \/ "obj" \in told /\ Quarantine(i)
                \/ "obj" \notin told /\ UNCHANGED <<pending, gone, collisions>>
  /\ UNCHANGED <<orphaned, reads, phase, retired, noting, snapshot, path, deferred, detached,
                 readd, shown, failed, losses, judged>>

\* evCleanup and evClose retire the object, not the key; either is enough.
Close(o, away) ==
  /\ Going /\ file[o] # None /\ Missing(away)
  /\ \A i \in Irps : busy[i] \in Ids => reads[busy[i]].obj # o
  /\ file' = [file EXCEPT ![o] = None]
  /\ names' = IF Consuming /\ away = {} THEN Forgotten(names, "obj", o) ELSE names
  /\ lingering' = (lingering \ {<<"obj", o>>}) \cup Left(away \X {o})
  /\ UNCHANGED <<key, busy, opens, orphaned, reads, phase, retired, noting, snapshot, path,
                 waiting, fates, counts>>

\* evNameDelete retires the key in one map, fileIoFileDelete in the other: a file nobody
\* has open gives up its key.
GiveUp(f, away) ==
  /\ Going /\ key[f] # None /\ (\A o \in Objects : file[o] # f) /\ Missing(away)
  /\ key' = [key EXCEPT ![f] = None] /\ UNCHANGED noting
  /\ LET k == key[f]
         n == IF Consuming /\ "key" \notin away THEN Forgotten(names, "key", k) ELSE names
         both == away = {"key", "run"}
     IN /\ names' = IF Consuming /\ "run" \notin away THEN Forgotten(n, "run", k) ELSE n
        /\ lingering' = (lingering \ ({"key", "run"} \X {k}))
                          \cup Left((away \cup IF both THEN {"snapshot"} ELSE {}) \X {k})
        /\ IF both THEN UNCHANGED retired ELSE Retire(k)
  /\ UNCHANGED <<file, busy, opens, orphaned, reads, phase, snapshot, path, waiting,
                 fates, counts>>

\* fileIoFileRundown: the answer to requestRundown, file by file, whenever it comes.
Rundown(f) ==
  /\ Consuming /\ key[f] # None
  /\ names' = Learned(names, "run", key[f], f)
  /\ lingering' = lingering \ {<<"run", key[f]>>}
  /\ UNCHANGED <<file, key, busy, opens, missed, orphaned, reads, phase, retired, noting,
                 snapshot, path, waiting, fates, counts>>

\* A read or a write may be in the trace once reads have been enabled.
Reading == phase \in {"on", "stopping"}

\* evRead.
Read(o, i) ==
  /\ Reading /\ file[o] # None /\ busy[i] = Idle /\ Len(reads) < MaxReads
  /\ LET k == key[file[o]] r == Len(reads) + 1 hit == Hit(names, o, k)
     IN /\ reads' = Append(reads, [file |-> file[o], obj |-> o, key |-> k])
        /\ path' = Append(path, Lookup(names, o, k))
        /\ names' = Promoted(names, o, k)
        /\ stale' = IF Hits(names, o, k) # {} /\ <<hit[2], hit[3]>> \in lingering
                    THEN stale \cup {r} ELSE stale
        /\ busy' = [busy EXCEPT ![i] = r]
        /\ Pend(i, r)
  /\ UNCHANGED <<file, key, opens, lost, phase, retired, noting, snapshot, deferred,
                 detached, readd, shown, failed, judged>>

\* A write, another operation whose start is not in the trace, or a read whose start is
\* lost.  Its end is in the trace.
Write(i) ==
  /\ Reading /\ busy[i] = Idle /\ busy' = [busy EXCEPT ![i] = Untraced]
  /\ UNCHANGED <<file, key, opens, lost, reads, phase, naming, path, waiting, fates,
                 counts>>

\* evOperationEnd: a read that succeeded is published under the name it has carried since
\* it started, or under the one it can be given now, or parked.
Completed(r, ok) ==
  \/ /\ ~ok /\ failed' = failed \cup {r}
     /\ UNCHANGED <<names, path, shown, deferred, gone, losses>>
  \/ /\ ok /\ UNCHANGED failed
     /\ LET found == IF path[r] # None THEN path[r]
                     ELSE Lookup(names, reads[r].obj, reads[r].key)
        IN /\ names' = IF path[r] # None THEN names
                       ELSE Promoted(names, reads[r].obj, reads[r].key)
           /\ path' = [path EXCEPT ![r] = found]
           /\ \/ /\ found # None /\ shown' = shown \cup {r}
                 /\ UNCHANGED <<deferred, gone, losses>>
              \/ found = None /\ UNCHANGED shown /\ Park(deferred, r)

OperationEnds(i, ok, away) ==
  /\ Consuming /\ busy[i] # Idle /\ busy' = [busy EXCEPT ![i] = Idle]
  /\ Missing(away)
  /\ orphaned' = IF away = {} THEN orphaned ELSE orphaned \cup ({busy[i]} \cap {pending[i]})
  /\ \/ /\ away = {} /\ pending[i] # 0
        /\ pending' = [pending EXCEPT ![i] = 0]
        /\ misled' = IF busy[i] \in {pending[i], Untraced} THEN misled
                                                         ELSE misled \cup {pending[i]}
        /\ guessed' = IF busy[i] = Untraced THEN guessed \cup {pending[i]} ELSE guessed
        /\ Completed(pending[i], ok)
     \/ /\ away # {} \/ pending[i] = 0
        /\ UNCHANGED <<pending, judged, names, path, shown, failed, deferred, gone, losses>>
  /\ UNCHANGED <<file, key, opens, lingering, reads, phase, retired, noting, snapshot,
                 detached, readd, collisions, stale>>
-----------------------------------------------------------------------------
(***************************************************************************)
(* Housekeeping, between two records or while they are delivered.          *)
(***************************************************************************)

\* sweepDeferred: the parked reads are detached, tried one by one, and those that are
\* still without a name parked again, as far as there is room by then.
Sweep ==
  /\ phase \in {"on", "stopping"} /\ detached = {} /\ readd = {} /\ deferred # {}
  /\ detached' = deferred /\ deferred' = {}
  /\ UNCHANGED <<kernel, reads, phase, naming, path, pending, readd, fates, counts>>

\* final says that this is the last chance.
Try(r, final) ==
  LET found == Lookup(names, reads[r].obj, reads[r].key)
  IN /\ r \in detached /\ detached' = detached \ {r}
     /\ names' = Promoted(names, reads[r].obj, reads[r].key)
     /\ path' = [path EXCEPT ![r] = found]
     /\ \/ found # None /\ shown' = shown \cup {r} /\ UNCHANGED <<readd, gone, losses>>
        \/ /\ found = None /\ ~final /\ readd' = readd \cup {r}
           /\ UNCHANGED <<shown, gone, losses>>
        \/ /\ found = None /\ final /\ UNCHANGED <<shown, readd>>
           /\ gone' = gone \cup {r} /\ losses' = losses + 1
     /\ UNCHANGED <<kernel, reads, phase, retired, noting, snapshot, pending, deferred,
                    failed, judged, stale, collisions>>

\* (a slip: what was parked during the sweep is not looked at)
ReparkOver ==
  /\ detached = {} /\ readd # {} /\ phase \in {"on", "stopping"}
  /\ deferred' = readd /\ readd' = {}
  /\ UNCHANGED <<kernel, reads, phase, naming, path, pending, detached, shown,
                 failed, gone, judged, stale, counts>>

Repark ==
  /\ detached = {} /\ phase \in {"on", "stopping"}
  /\ \E r \in readd : Park(deferred, r) /\ readd' = readd \ {r}
  /\ UNCHANGED <<kernel, reads, phase, naming, path, pending, detached, shown,
                 failed, judged, stale, collisions>>

\* expirePending and rotateNames.
Expire(i) ==
  /\ phase = "on" /\ pending[i] # 0
  /\ pending' = [pending EXCEPT ![i] = 0]
  /\ gone' = gone \cup {pending[i]} /\ losses' = losses + 1
  /\ UNCHANGED <<kernel, reads, phase, naming, path, deferred, detached, readd,
                 shown, failed, judged, stale, collisions>>

RotateNames ==
  /\ phase = "on" /\ \E m \in {"obj", "key", "run"} : Full(names.cur[m])
  /\ names' = Rotated(names)
  /\ UNCHANGED <<kernel, reads, phase, retired, noting, snapshot, path, waiting, fates,
                 counts>>
-----------------------------------------------------------------------------
(***************************************************************************)
(* Start and Stop.                                                         *)
(***************************************************************************)

\* A session is started and its consumer is ready, or Start fails and nothing is left.
Start ==
  /\ phase = "ready" /\ phase' \in {"init", "ended"} /\ noting' = TRUE
  /\ UNCHANGED <<kernel, reads, names, retired, snapshot, path, waiting, fates, counts>>

\* snapshotOpenFiles: the end of a second session names every file that is open.  When it
\* fails nothing is merged, and what is given up goes on being noted.
TakeSnapshot ==
  /\ phase = "init"
  /\ \/ /\ phase' = "merge"
        /\ snapshot' = [k \in Keys |->
             IF \E o \in Objects : file[o] # None /\ key[file[o]] = k
             THEN CHOOSE f \in Files : key[f] = k ELSE None]
     \/ phase' = "unmerged" /\ UNCHANGED snapshot
  /\ UNCHANGED <<kernel, reads, names, retired, noting, path, waiting, fates, counts>>

\* The barrier has been passed.  (That it times out, which the owner is told, is left out.)
MergeBegins ==
  /\ phase = "merge" /\ phase' = "merging"
  /\ UNCHANGED <<kernel, reads, naming, path, waiting, fates, counts>>

\* (a slip: what was given up meanwhile is merged too)
OutdatedLive(k) == names.cur.key[k] # None

\* Neither what was given up nor what the live stream has named is merged.
Outdated(k) == k \in retired \/ names.cur.key[k] # None

\* mergeSnapshot: one name after the other, in any order.
MergeName(k) ==
  /\ phase = "merging" /\ snapshot[k] # None
  /\ names' = IF Outdated(k) THEN names ELSE Learned(names, "run", k, snapshot[k])
  /\ lingering' = IF Outdated(k) \/ <<"snapshot", k>> \notin lingering THEN lingering
                   ELSE lingering \cup {<<"run", k>>}
  /\ snapshot' = [snapshot EXCEPT ![k] = None]
  /\ UNCHANGED <<file, key, busy, opens, missed, orphaned, reads, phase, retired, noting,
                 path, waiting, fates, counts>>

\* Then reads are enabled; if they cannot be, the session is stopped and Start fails.
EnableReads ==
  /\ phase' \in {"on", "ended"}
  /\ \/ /\ phase = "merging" /\ \A k \in Keys : snapshot[k] = None
        /\ retired' = {} /\ noting' = FALSE
     \/ phase = "unmerged" /\ UNCHANGED <<retired, noting>>
  /\ UNCHANGED <<kernel, reads, names, snapshot, path, waiting, fates, counts>>

\* The session is stopped, and records go on arriving.
Stop ==
  /\ phase = "on" /\ phase' = "stopping"
  /\ UNCHANGED <<kernel, reads, naming, path, waiting, fates, counts>>

\* ProcessTrace has returned, by itself or because the consumer was closed after thirty
\* seconds: the last sweep.  (That it does not even return then is left out.)
FinalSweep ==
  /\ phase = "stopping" /\ detached = {} /\ readd = {} /\ phase' = "final"
  /\ detached' = deferred /\ deferred' = {}
  /\ UNCHANGED <<kernel, reads, naming, path, pending, readd, fates, counts>>

Stopped ==
  /\ phase = "final" /\ detached = {} /\ phase' = "ended"
  /\ UNCHANGED <<kernel, reads, naming, path, waiting, fates, counts>>
-----------------------------------------------------------------------------
Kernel ==
  \/ \E o \in Objects, f \in Files, i \in Irps, away \in SUBSET {"obj", "key"} :
       Open(o, f, i, away)
  \/ \E o \in Objects : \/ \E away \in SUBSET {"obj"} : Close(o, away)
                        \/ \E i \in Irps : Read(o, i)
  \/ \E i \in Irps : Write(i)
  \/ \E f \in Files : Rundown(f) \/ \E away \in SUBSET {"key", "run"} : GiveUp(f, away)
  \/ \E i \in Irps, ok \in BOOLEAN, away \in SUBSET {"end"} : OperationEnds(i, ok, away)

Housekeeping ==
  \/ Sweep \/ Repark \/ RotateNames
  \/ \E r \in detached : Try(r, phase = "final")
  \/ \E i \in Irps : Expire(i)

Next ==
  \/ Kernel \/ Housekeeping
  \/ Start \/ TakeSnapshot \/ MergeBegins \/ (\E k \in Keys : MergeName(k)) \/ EnableReads
  \/ Stop \/ FinalSweep \/ Stopped

Spec == Init /\ [][Next]_vars
-----------------------------------------------------------------------------
(***************************************************************************)
(* Properties.                                                             *)
(***************************************************************************)

\* Whatever addresses are used again, and whichever records are lost, a read is published
\* under the name of the file that was read (lookup, forget, mergeSnapshot), with two
\* exceptions: a read that had no name when its object or key was given to another file,
\* and one that started with a name, learned or from the snapshot, that a lost record was
\* to take back and that no later record had taken back or replaced.
NamesAreTrue == \A r \in shown : path[r] = reads[r].file \/ r \in stale

\* No read is published, or taken for a failed one, because of the end of another
\* operation that was seen to start (pend, quarantine, expirePending), whichever records
\* are lost.  By the end of one that was not (a write, say) it is only if the read's own
\* end was lost: there the code has nothing to tell them apart.
OutcomesAreTrue == misled = {} /\ guessed \subseteq orphaned

\* A read that has been seen to start is waiting, published, a failure, or given up, in one
\* of these ways only, and what is given up is in the counters; a collision of two reads is
\* counted once.  When all is over only reads that never ended are left.
Fates == <<Waiting, deferred, detached, readd, shown, failed, gone>>
ReadsAreAccounted ==
  /\ UNION {Fates[x] : x \in DOMAIN Fates} = Ids
  /\ \A x, y \in DOMAIN Fates : x # y => Fates[x] \cap Fates[y] = {}
  /\ Cardinality(gone) \in (losses + collisions)..(losses + 2 * collisions)
  /\ phase = "ended" => deferred \cup detached \cup readd = {}
=============================================================================
