------------------------- MODULE CorrelationProofs --------------------------
(***************************************************************************)
(* How a trace names a read, for any files, addresses and tables: what is  *)
(* published carries the name of the file that was read, is judged by its  *)
(* own end, and every read is accounted for.                               *)
(***************************************************************************)
EXTENDS Correlation, FiniteSetTheorems, SequenceTheorems, TLAPS

(***************************************************************************)
(* Names that are true.                                                    *)
(***************************************************************************)

Maps == {"obj", "key", "run"}
Addresses(m) == IF m = "obj" THEN Objects ELSE Keys
Typed(n) == n \in [cur : Generation, prev : Generation]

\* What an entry of a map says: the older generation only where the current one is silent.
Now(n, m, x) == IF n.cur[m][x] # None THEN n.cur[m][x] ELSE n.prev[m][x]

\* An object is f's while it is open on f, a key while it is f's.
Means(m, x, f, fl, ky) == IF m = "obj" THEN f = fl[x] ELSE ky[f] = x

\* The names agree with what the kernel's addresses mean, but for the entries in L.
Honest(n, fl, ky, L) ==
  /\ Typed(n)
  /\ \A m \in Maps : \A x \in Addresses(m) :
       <<m, x>> \notin L => Now(n, m, x) = None \/ Means(m, x, Now(n, m, x), fl, ky)

\* A key is one file's, and a file that is open has one.
OneKey ==
  /\ \A f, g \in Files : key[f] = key[g] /\ key[f] # None => f = g
  /\ \A o \in Objects : file[o] # None => key[file[o]] # None

\* What the snapshot says of a key is true, or the key has been given up since, or would
\* have been had no record been lost.
Snapped ==
  /\ phase \in {"init", "merge", "merging"} => noting
  /\ phase \notin {"merge", "merging"} => \A k \in Keys : snapshot[k] = None
  /\ \A k \in Keys : snapshot[k] # None =>
       k \in retired \/ <<"snapshot", k>> \in lingering \/ key[snapshot[k]] = k

NamingType ==
  /\ file \in [Objects -> Named] /\ key \in [Files -> Keys \cup {None}]
  /\ retired \subseteq Keys /\ noting \in BOOLEAN /\ snapshot \in [Keys -> Named]
  /\ lingering \subseteq Entries
  /\ phase \in {"ready", "init", "merge", "merging", "unmerged", "on", "stopping", "final",
                "ended"}

\* Nothing is known before the watcher listens.
Blank == phase = "ready" => names = [cur |-> NoNames, prev |-> NoNames]

NamingInv == NamingType /\ Honest(names, file, key, lingering) /\ OneKey /\ Snapped /\ Blank

LEMMA NamedIs == None \in Named /\ (\A f \in Files : f \in Named /\ f # None) /\ None \notin Keys
  BY NoneAssumption DEF Named

LEMMA NowIn ==
  ASSUME NEW n, Typed(n), NEW m \in Maps, NEW x \in Addresses(m)
  PROVE  n.cur[m][x] \in Named /\ n.prev[m][x] \in Named /\ Now(n, m, x) \in Named
  <1>1. n.cur \in Generation /\ n.prev \in Generation
    BY DEF Typed
  <1>2. n.cur[m] \in [Addresses(m) -> Named] /\ n.prev[m] \in [Addresses(m) -> Named]
    <2>1. CASE m = "obj"
      BY <1>1, <2>1 DEF Generation, Addresses
    <2>2. CASE m = "key"
      BY <1>1, <2>2 DEF Generation, Addresses
    <2>3. CASE m = "run"
      BY <1>1, <2>3 DEF Generation, Addresses
    <2> QED BY <2>1, <2>2, <2>3 DEF Maps
  <1> QED BY <1>2 DEF Now

LEMMA EmptyIs ==
  /\ NoNames \in Generation
  /\ \A m \in Maps : \A x \in Addresses(m) : NoNames[m][x] = None
  <1>1. NoNames \in Generation
    BY NamedIs DEF NoNames, Generation
  <1>2. /\ \A x \in Objects : NoNames["obj"][x] = None
        /\ \A x \in Keys : NoNames["key"][x] = None /\ NoNames["run"][x] = None
    BY DEF NoNames
  <1> QED BY <1>1, <1>2 DEF Maps, Addresses

LEMMA BlankHonest ==
  ASSUME NEW fl, NEW ky, NEW L
  PROVE  Honest([cur |-> NoNames, prev |-> NoNames], fl, ky, L)
  <1> DEFINE n == [cur |-> NoNames, prev |-> NoNames]
  <1>1. Typed(n) /\ n.cur = NoNames /\ n.prev = NoNames
    BY EmptyIs DEF Typed
  <1> HIDE DEF n
  <1>2. \A m \in Maps : \A x \in Addresses(m) : Now(n, m, x) = None
    BY <1>1, EmptyIs DEF Now
  <1>3. Honest(n, fl, ky, L)
    BY <1>1, <1>2 DEF Honest
  <1> QED BY <1>3 DEF n

\* No entry says anything new.
Kept(n, q) ==
  Typed(q) /\ \A m \in Maps : \A x \in Addresses(m) : Now(q, m, x) \in {None, Now(n, m, x)}

LEMMA KeptHonest ==
  ASSUME NEW n, NEW q, NEW fl, NEW ky, NEW L, Honest(n, fl, ky, L), Kept(n, q)
  PROVE  Honest(q, fl, ky, L)
  <1>1. ASSUME NEW m \in Maps, NEW x \in Addresses(m), <<m, x>> \notin L, Now(q, m, x) # None
        PROVE  Means(m, x, Now(q, m, x), fl, ky)
    <2>1. Now(q, m, x) = Now(n, m, x)
      BY <1>1 DEF Kept
    <2> QED BY <1>1, <2>1 DEF Honest
  <1> QED BY <1>1 DEF Honest, Kept

LEMMA RotatedKept == ASSUME NEW n, Typed(n) PROVE Kept(n, Rotated(n))
  <1> DEFINE q == Rotated(n)
  <1>1. Typed(q) /\ q.cur = NoNames /\ q.prev = n.cur
    BY EmptyIs DEF Rotated, Typed
  <1> HIDE DEF q
  <1>2. ASSUME NEW m \in Maps, NEW x \in Addresses(m)
        PROVE  Now(q, m, x) \in {None, Now(n, m, x)}
    <2>1. Now(q, m, x) = n.cur[m][x]
      BY <1>1, EmptyIs DEF Now
    <2> QED BY <2>1 DEF Now
  <1>3. Kept(n, q)
    BY <1>1, <1>2 DEF Kept
  <1> QED BY <1>3 DEF q

\* A name is put into the current generation.
Put(n, m, x, f) == [n EXCEPT !.cur[m][x] = f]

LEMMA PutNow ==
  ASSUME NEW n, Typed(n), NEW m \in Maps, NEW x \in Addresses(m), NEW f \in Files
  PROVE  /\ Typed(Put(n, m, x, f)) /\ Now(Put(n, m, x, f), m, x) = f
         /\ \A m2 \in Maps : \A x2 \in Addresses(m2) :
              <<m2, x2>> # <<m, x>> => Now(Put(n, m, x, f), m2, x2) = Now(n, m2, x2)
  <1> DEFINE q == Put(n, m, x, f)
  <1>1. /\ Typed(q) /\ q.prev = n.prev
        /\ q.cur[m] = [n.cur[m] EXCEPT ![x] = f]
        /\ \A m2 \in Maps \ {m} : q.cur[m2] = n.cur[m2]
    <2>1. CASE m = "obj"
      BY <2>1, NamedIs DEF Put, Typed, Generation, Maps, Addresses
    <2>2. CASE m = "key"
      BY <2>2, NamedIs DEF Put, Typed, Generation, Maps, Addresses
    <2>3. CASE m = "run"
      BY <2>3, NamedIs DEF Put, Typed, Generation, Maps, Addresses
    <2> QED BY <2>1, <2>2, <2>3 DEF Maps
  <1>2. DOMAIN n.cur[m] = Addresses(m)
    <2>1. n.cur \in Generation
      BY DEF Typed
    <2> QED BY <2>1 DEF Maps, Generation, Addresses
  <1> HIDE DEF q
  <1>3. Now(q, m, x) = f
    BY <1>1, <1>2, NamedIs DEF Now
  <1>4. ASSUME NEW m2 \in Maps, NEW x2 \in Addresses(m2), <<m2, x2>> # <<m, x>>
        PROVE  Now(q, m2, x2) = Now(n, m2, x2)
    <2>1. q.cur[m2][x2] = n.cur[m2][x2]
      BY <1>1, <1>2, <1>4
    <2> QED BY <1>1, <2>1 DEF Now
  <1>5. Typed(q)
    BY <1>1
  <1> QED BY <1>3, <1>4, <1>5 DEF q

\* What is learned is what the entry says, and the others say nothing new.
LEMMA LearnedNow ==
  ASSUME NEW n, Typed(n), NEW m \in Maps, NEW x \in Addresses(m), NEW f \in Files
  PROVE  /\ Typed(Learned(n, m, x, f)) /\ Now(Learned(n, m, x, f), m, x) = f
         /\ \A m2 \in Maps : \A x2 \in Addresses(m2) :
              <<m2, x2>> # <<m, x>> => Now(Learned(n, m, x, f), m2, x2) \in {None, Now(n, m2, x2)}
  <1> DEFINE room == IF Full(n.cur[m]) THEN Rotated(n) ELSE n
             q == Put(room, m, x, f)
  <1>1. Learned(n, m, x, f) = q
    BY DEF Learned, Put
  <1>2. Kept(n, room)
    BY RotatedKept DEF Kept
  <1>3. Typed(room)
    BY <1>2 DEF Kept
  <1> HIDE DEF room
  <1>4. /\ Typed(q) /\ Now(q, m, x) = f
        /\ \A m2 \in Maps : \A x2 \in Addresses(m2) :
             <<m2, x2>> # <<m, x>> => Now(q, m2, x2) = Now(room, m2, x2)
    BY <1>3, PutNow
  <1> HIDE DEF q
  <1> QED BY <1>1, <1>2, <1>4 DEF Kept

LEMMA LearnedHonest ==
  ASSUME NEW n, NEW fl, NEW ky, NEW L, NEW M, NEW m \in Maps, NEW x \in Addresses(m), NEW f \in Files,
         Honest(n, fl, ky, L \cup {<<m, x>>}), L \ {<<m, x>>} \subseteq M,
         <<m, x>> \in M \/ Means(m, x, f, fl, ky)
  PROVE  Honest(Learned(n, m, x, f), fl, ky, M)
  <1> DEFINE q == Learned(n, m, x, f)
  <1>1. /\ Typed(q) /\ Now(q, m, x) = f
        /\ \A m2 \in Maps : \A x2 \in Addresses(m2) :
             <<m2, x2>> # <<m, x>> => Now(q, m2, x2) \in {None, Now(n, m2, x2)}
    BY LearnedNow DEF Honest
  <1> HIDE DEF q
  <1>2. ASSUME NEW m2 \in Maps, NEW x2 \in Addresses(m2), <<m2, x2>> \notin M, Now(q, m2, x2) # None
        PROVE  Means(m2, x2, Now(q, m2, x2), fl, ky)
    <2>1. CASE <<m2, x2>> = <<m, x>>
      <3>1. m2 = m /\ x2 = x
        BY <2>1
      <3> QED BY <1>1, <1>2, <2>1, <3>1
    <2>2. CASE <<m2, x2>> # <<m, x>>
      <3>1. Now(q, m2, x2) = Now(n, m2, x2)
        BY <1>1, <1>2, <2>2
      <3>2. <<m2, x2>> \notin L \cup {<<m, x>>}
        BY <1>2, <2>2
      <3> QED BY <1>2, <3>1, <3>2 DEF Honest
    <2> QED BY <2>1, <2>2
  <1>3. Honest(q, fl, ky, M)
    BY <1>1, <1>2 DEF Honest
  <1> QED BY <1>3 DEF q

\* What is forgotten says nothing, and the others say what they said.
LEMMA ForgottenNow ==
  ASSUME NEW n, Typed(n), NEW m \in Maps, NEW x \in Addresses(m)
  PROVE  /\ Typed(Forgotten(n, m, x)) /\ Now(Forgotten(n, m, x), m, x) = None
         /\ \A m2 \in Maps : \A x2 \in Addresses(m2) :
              <<m2, x2>> # <<m, x>> => Now(Forgotten(n, m, x), m2, x2) = Now(n, m2, x2)
  <1> DEFINE q == Forgotten(n, m, x)
  <1>1. /\ Typed(q)
        /\ q.cur[m] = [n.cur[m] EXCEPT ![x] = None] /\ q.prev[m] = [n.prev[m] EXCEPT ![x] = None]
        /\ \A m2 \in Maps \ {m} : q.cur[m2] = n.cur[m2] /\ q.prev[m2] = n.prev[m2]
    <2>1. CASE m = "obj"
      BY <2>1, NamedIs DEF Typed, Generation, Maps, Addresses, Forgotten
    <2>2. CASE m = "key"
      BY <2>2, NamedIs DEF Typed, Generation, Maps, Addresses, Forgotten
    <2>3. CASE m = "run"
      BY <2>3, NamedIs DEF Typed, Generation, Maps, Addresses, Forgotten
    <2> QED BY <2>1, <2>2, <2>3 DEF Maps
  <1>2. DOMAIN n.cur[m] = Addresses(m) /\ DOMAIN n.prev[m] = Addresses(m)
    <2>1. n.cur \in Generation /\ n.prev \in Generation
      BY DEF Typed
    <2> QED BY <2>1 DEF Maps, Generation, Addresses
  <1> HIDE DEF q
  <1>3. Now(q, m, x) = None
    BY <1>1, <1>2 DEF Now
  <1>4. ASSUME NEW m2 \in Maps, NEW x2 \in Addresses(m2), <<m2, x2>> # <<m, x>>
        PROVE  Now(q, m2, x2) = Now(n, m2, x2)
    <2>1. q.cur[m2][x2] = n.cur[m2][x2] /\ q.prev[m2][x2] = n.prev[m2][x2]
      BY <1>1, <1>2, <1>4
    <2> QED BY <2>1 DEF Now
  <1>5. Typed(q)
    BY <1>1
  <1> QED BY <1>3, <1>4, <1>5 DEF q

LEMMA ForgottenHonest ==
  ASSUME NEW n, NEW fl, NEW ky, NEW L, NEW M, NEW m \in Maps, NEW x \in Addresses(m),
         Honest(n, fl, ky, L \cup {<<m, x>>}), L \ {<<m, x>>} \subseteq M
  PROVE  Honest(Forgotten(n, m, x), fl, ky, M)
  <1> DEFINE q == Forgotten(n, m, x)
  <1>1. /\ Typed(q) /\ Now(q, m, x) = None
        /\ \A m2 \in Maps : \A x2 \in Addresses(m2) :
             <<m2, x2>> # <<m, x>> => Now(q, m2, x2) = Now(n, m2, x2)
    BY ForgottenNow DEF Honest
  <1> HIDE DEF q
  <1>2. ASSUME NEW m2 \in Maps, NEW x2 \in Addresses(m2), <<m2, x2>> \notin M, Now(q, m2, x2) # None
        PROVE  Means(m2, x2, Now(q, m2, x2), fl, ky)
    <2>1. <<m2, x2>> # <<m, x>>
      BY <1>1, <1>2
    <2>2. <<m2, x2>> \notin L \cup {<<m, x>>}
      BY <1>2, <2>1
    <2> QED BY <1>1, <1>2, <2>1, <2>2 DEF Honest
  <1>3. Honest(q, fl, ky, M)
    BY <1>1, <1>2 DEF Honest
  <1> QED BY <1>3 DEF q

LEMMA HonestBut ==
  ASSUME NEW n, NEW fl, NEW ky, NEW L, NEW M, Honest(n, fl, ky, L), L \subseteq M
  PROVE  Honest(n, fl, ky, M)
  BY DEF Honest

\* An entry that was to be taken back and says nothing needs no exception.
LEMMA LeftHonest ==
  ASSUME NEW fl, NEW ky, NEW L, NEW S, NEW M, Honest(names, fl, ky, L \cup S), S \subseteq Maps \X UNION {Addresses(m) : m \in Maps},
         (L \ S) \cup Left(S) \subseteq M
  PROVE  Honest(names, fl, ky, M)
  <1>1. ASSUME NEW m \in Maps, NEW x \in Addresses(m), <<m, x>> \notin M, Now(names, m, x) # None
        PROVE  Means(m, x, Now(names, m, x), fl, ky)
    <2>1. <<m, x>> \notin S
      <3>1. SUFFICES ASSUME <<m, x>> \in S PROVE <<m, x>> \in Left(S)
        BY <1>1
      <3>2. m # "snapshot"
        BY DEF Maps
      <3>3. names.cur[m][x] # None \/ names.prev[m][x] # None
        BY <1>1 DEF Now
      <3> QED BY <3>1, <3>2, <3>3 DEF Left
    <2> QED BY <1>1, <2>1 DEF Honest
  <1> QED BY <1>1 DEF Honest

\* The place of a hit is one of the six, there is a name there, and none at an earlier one.
LEMMA HitIs ==
  ASSUME NEW n, NEW o, NEW k, Hits(n, o, k) # {}
  PROVE  /\ \E c \in 1..6 : /\ Hit(n, o, k) = Places(o, k)[c]
                            /\ \A j \in 1..6 : j < c => At(n, Places(o, k)[j]) = None
         /\ Lookup(n, o, k) = At(n, Hit(n, o, k)) /\ Lookup(n, o, k) # None
  <1> DEFINE H == Hits(n, o, k)
  <1>1. H \subseteq 1..6
    BY DEF Hits
  <1>2. \E i \in H : \A j \in H : i <= j
    <2>1. \A j \in H : j \in {1, 2, 3, 4, 5, 6}
      BY <1>1
    <2> HIDE DEF H
    <2>2. CASE 1 \in H
      BY <2>1, <2>2
    <2>3. CASE 1 \notin H /\ 2 \in H
      BY <2>1, <2>3
    <2>4. CASE {1, 2} \cap H = {} /\ 3 \in H
      BY <2>1, <2>4
    <2>5. CASE {1, 2, 3} \cap H = {} /\ 4 \in H
      BY <2>1, <2>5
    <2>6. CASE {1, 2, 3, 4} \cap H = {} /\ 5 \in H
      BY <2>1, <2>6
    <2>7. CASE {1, 2, 3, 4, 5} \cap H = {} /\ 6 \in H
      BY <2>1, <2>7
    <2>8. H # {}
      BY DEF H
    <2> QED BY <2>1, <2>2, <2>3, <2>4, <2>5, <2>6, <2>7, <2>8
  <1> DEFINE c == CHOOSE i \in H : \A j \in H : i <= j
  <1>3. c \in H /\ \A j \in H : c <= j
    BY <1>2
  <1>4. Hit(n, o, k) = Places(o, k)[c]
    BY DEF Hit
  <1> HIDE DEF c
  <1>5. c \in 1..6 /\ At(n, Places(o, k)[c]) # None
    BY <1>3 DEF Hits
  <1>6. \A j \in 1..6 : j < c => At(n, Places(o, k)[j]) = None
    <2>1. \A j \in 1..6 : j < c => j \notin H
      BY <1>3, <1>5
    <2> QED BY <2>1 DEF Hits
  <1> QED BY <1>4, <1>5, <1>6 DEF Lookup

\* What is found is what the entry of the object or of the key says, and promoting it
\* changes what none of them says.
LEMMA LookupIs ==
  ASSUME NEW n, Typed(n), NEW o \in Objects, NEW k \in Keys
  PROVE  LET f == Lookup(n, o, k) p == Hit(n, o, k)
         IN /\ f \in Named /\ Kept(n, Promoted(n, o, k))
            /\ Hits(n, o, k) = {} =>
                 f = None /\ Now(n, "obj", o) = None /\ Now(n, "key", k) = None /\ Now(n, "run", k) = None
            /\ Hits(n, o, k) # {} =>
                 /\ f # None
                 /\ \/ p[2] = "obj" /\ p[3] = o /\ f = Now(n, "obj", o)
                    \/ p[2] = "key" /\ p[3] = k /\ f = Now(n, "key", k)
                    \/ p[2] = "run" /\ p[3] = k /\ f = Now(n, "run", k)
  <1> DEFINE f == Lookup(n, o, k)
             p == Hit(n, o, k)
  <1>1. /\ "obj" \in Maps /\ "key" \in Maps /\ "run" \in Maps
        /\ o \in Addresses("obj") /\ k \in Addresses("key") /\ k \in Addresses("run")
    BY DEF Maps, Addresses
  <1>2. CASE Hits(n, o, k) = {}
    <2>1. f = None /\ Promoted(n, o, k) = n
      BY <1>2 DEF Lookup, Promoted
    <2>2. \A i \in {1, 2, 3, 4, 5, 6} : At(n, Places(o, k)[i]) = None
      BY <1>2 DEF Hits
    <2>3. /\ n.cur.obj[o] = None /\ n.prev.obj[o] = None /\ n.cur.key[k] = None
          /\ n.cur.run[k] = None /\ n.prev.key[k] = None /\ n.prev.run[k] = None
      BY <2>2 DEF At, Places
    <2>4. Now(n, "obj", o) = None /\ Now(n, "key", k) = None /\ Now(n, "run", k) = None
      BY <2>3 DEF Now
    <2>5. Kept(n, n)
      BY DEF Kept
    <2> QED BY <1>2, <2>1, <2>4, <2>5, NamedIs
  <1>3. CASE Hits(n, o, k) # {}
    <2>1. /\ f = At(n, p) /\ f # None
          /\ Promoted(n, o, k) = [n EXCEPT !.cur[p[2]][p[3]] = f]
      BY <1>3, HitIs DEF Promoted
    <2>2. PICK c \in 1..6 : /\ p = Places(o, k)[c]
                            /\ \A j \in 1..6 : j < c => At(n, Places(o, k)[j]) = None
      BY <1>3, HitIs
    <2>3. c \in {1, 2, 3, 4, 5, 6}
      OBVIOUS
    <2>4. /\ c = 2 => n.cur.obj[o] = None
          /\ c = 5 => n.cur.key[k] = None
          /\ c = 6 => n.cur.run[k] = None
      BY <2>2 DEF At, Places
    <2>5. \/ p = <<"cur", "obj", o>>
          \/ p = <<"cur", "key", k>>
          \/ p = <<"cur", "run", k>>
          \/ p = <<"prev", "obj", o>> /\ n.cur.obj[o] = None
          \/ p = <<"prev", "key", k>> /\ n.cur.key[k] = None
          \/ p = <<"prev", "run", k>> /\ n.cur.run[k] = None
      BY <2>2, <2>3, <2>4 DEF Places
    <2> HIDE DEF f, p
    <2>6. \/ p[2] = "obj" /\ p[3] = o /\ f = Now(n, "obj", o)
          \/ p[2] = "key" /\ p[3] = k /\ f = Now(n, "key", k)
          \/ p[2] = "run" /\ p[3] = k /\ f = Now(n, "run", k)
      BY <2>1, <2>5 DEF At, Now
    <2>7. PICK m \in Maps, x \in Objects \cup Keys :
            x \in Addresses(m) /\ p[2] = m /\ p[3] = x /\ f = Now(n, m, x)
      BY <1>1, <2>6
    <2>8. f \in Named /\ f \in Files
      <3>1. f \in Named
        BY <2>7, NowIn
      <3> QED BY <2>1, <3>1 DEF Named
    <2> DEFINE q == Put(n, m, x, f)
    <2>9. Promoted(n, o, k) = q
      BY <2>1, <2>7 DEF Put
    <2>10. /\ Typed(q) /\ Now(q, m, x) = f
           /\ \A m2 \in Maps : \A x2 \in Addresses(m2) :
                <<m2, x2>> # <<m, x>> => Now(q, m2, x2) = Now(n, m2, x2)
      BY <2>7, <2>8, PutNow
    <2> HIDE DEF q
    <2>11. ASSUME NEW m2 \in Maps, NEW x2 \in Addresses(m2) PROVE Now(q, m2, x2) = Now(n, m2, x2)
      <3>1. CASE <<m2, x2>> = <<m, x>>
        <4>1. m2 = m /\ x2 = x
          BY <3>1
        <4> QED BY <2>7, <2>10, <4>1
      <3> QED BY <2>10, <3>1
    <2>12. Kept(n, q)
      BY <2>10, <2>11 DEF Kept
    <2> QED BY <1>3, <2>1, <2>6, <2>8, <2>9, <2>12 DEF f, p
  <1> QED BY <1>2, <1>3

(***************************************************************************)
(* The kernel gives addresses away, and the names follow.                  *)
(***************************************************************************)

LEMMA NamingInit == Init => NamingInv
  <1> SUFFICES ASSUME Init PROVE NamingInv
    OBVIOUS
  <1>1. PICK f \in Files, k \in Keys, o \in Objects :
          /\ file \in {[x \in Objects |-> None], [[x \in Objects |-> None] EXCEPT ![o] = f]}
          /\ key = [[x \in Files |-> None] EXCEPT ![f] = k]
    BY DEF Init
  <1>2. names = [cur |-> NoNames, prev |-> NoNames]
    BY DEF Init
  <1>3. Honest(names, file, key, lingering)
    BY <1>2, BlankHonest
  <1>4. NamingType /\ Snapped /\ Blank
    <2>1. file \in [Objects -> Named] /\ key \in [Files -> Keys \cup {None}]
      BY <1>1, NamedIs
    <2>2. snapshot \in [Keys -> Named] /\ \A x \in Keys : snapshot[x] = None
      BY NamedIs DEF Init
    <2> QED BY <2>1, <2>2 DEF Init, NamingType, Snapped, Blank
  <1>5. OneKey
    BY <1>1, NamedIs DEF OneKey
  <1> QED BY <1>3, <1>4, <1>5 DEF NamingInv

LEMMA MapsAre ==
  /\ "obj" \in Maps /\ "key" \in Maps /\ "run" \in Maps /\ "snapshot" \notin Maps
  /\ Addresses("obj") = Objects /\ Addresses("key") = Keys /\ Addresses("run") = Keys
  BY DEF Maps, Addresses

\* The exceptions a step with a lost record makes are entries.
LEMMA EntriesAre ==
  /\ \A o \in Objects : <<"obj", o>> \in Entries
  /\ \A k \in Keys : <<"key", k>> \in Entries /\ <<"run", k>> \in Entries /\ <<"snapshot", k>> \in Entries
  /\ \A S : Left(S) \subseteq S
  BY DEF Entries, Left

\* The names of the open in the order they are learned.
LEMMA NamingOpen ==
  ASSUME NamingInv, NEW o \in Objects, NEW f \in Files, NEW i \in Irps, NEW away, Open(o, f, i, away)
  PROVE  NamingInv'
  <1> DEFINE told == Telling(f, away)
             n(k) == IF "key" \in told THEN Learned(names, "key", k, f) ELSE names
             rest(k) == IF "key" \in told THEN lingering \ {<<"key", k>>} ELSE lingering
  <1>1. PICK k \in Keys :
          /\ key[f] = k \/ (key[f] = None /\ \A g \in Files : key[g] # k)
          /\ key' = [key EXCEPT ![f] = k]
          /\ names' = IF "obj" \in told THEN Learned(n(k), "obj", o, f) ELSE n(k)
          /\ lingering' = lingering \ {e \in {<<"obj", o>>, <<"key", k>>} : e[1] \in told}
    BY DEF Open
  <1>2. /\ names' = IF "obj" \in told THEN Learned(n(k), "obj", o, f) ELSE n(k)
        /\ lingering' = IF "obj" \in told THEN rest(k) \ {<<"obj", o>>} ELSE rest(k)
        /\ told # {} => Consuming
    <2>1. told # {} => Consuming
      BY DEF Telling
    <2> HIDE DEF told
    <2> QED BY <1>1, <2>1
  <1> HIDE DEF told
  <1>3. /\ file[o] = None /\ file' = [file EXCEPT ![o] = f]
        /\ UNCHANGED <<phase, noting, snapshot, retired>>
    BY DEF Open
  <1>4. /\ file'[o] = f /\ (\A x \in Objects : x # o => file'[x] = file[x])
        /\ key'[f] = k /\ (\A g \in Files : g # f => key'[g] = key[g])
        /\ key[f] \in {None, k}
        /\ file' \in [Objects -> Named] /\ key' \in [Files -> Keys \cup {None}]
    BY <1>1, <1>3, NamedIs DEF NamingInv, NamingType
  <1>5. \A g \in Files, x \in Keys : key[g] = x => key'[g] = x
    BY <1>1, <1>4, NamedIs
  <1>6. Honest(names, file', key', lingering)
    <2>1. ASSUME NEW m \in Maps, NEW x \in Addresses(m), <<m, x>> \notin lingering, Now(names, m, x) # None
          PROVE  Means(m, x, Now(names, m, x), file', key')
      <3> DEFINE g == Now(names, m, x)
      <3>1. g \in Files /\ Means(m, x, g, file, key)
        <4>1. g \in Named
          BY NowIn DEF NamingInv, Honest
        <4> QED BY <2>1, <4>1 DEF NamingInv, Honest, Named
      <3> HIDE DEF g
      <3>2. CASE m = "obj"
        BY <1>3, <1>4, <3>1, <3>2, NamedIs DEF Means, Addresses, g
      <3>3. CASE m # "obj"
        BY <1>5, <3>1, <3>3 DEF Means, Addresses, g
      <3> QED BY <3>2, <3>3 DEF g
    <2> QED BY <2>1 DEF NamingInv, Honest
  <1>7. Honest(n(k), file', key', rest(k))
    <2>1. CASE "key" \in told
      <3>1. Honest(names, file', key', lingering \cup {<<"key", k>>})
        BY <1>6, HonestBut
      <3>2. Means("key", k, f, file', key')
        BY <1>4 DEF Means
      <3>3. Honest(Learned(names, "key", k, f), file', key', lingering \ {<<"key", k>>})
        BY <3>1, <3>2, LearnedHonest, MapsAre
      <3> QED BY <2>1, <3>3
    <2> QED BY <1>6, <2>1
  <1>8. Honest(names', file', key', lingering')
    <2> HIDE DEF n, rest
    <2>1. CASE "obj" \in told
      <3>1. Honest(n(k), file', key', rest(k) \cup {<<"obj", o>>})
        BY <1>7, HonestBut
      <3>2. Means("obj", o, f, file', key')
        BY <1>4 DEF Means
      <3>3. Honest(Learned(n(k), "obj", o, f), file', key', rest(k) \ {<<"obj", o>>})
        BY <3>1, <3>2, LearnedHonest, MapsAre
      <3> QED BY <1>2, <2>1, <3>3
    <2> QED BY <1>2, <1>7, <2>1
  <1>9. OneKey' /\ Blank' /\ lingering' \subseteq Entries
    <2>1. OneKey'
      BY <1>1, <1>3, <1>4, NamedIs DEF NamingInv, OneKey, NamingType, Named
    <2>2. phase = "ready" => names' = names
      BY <1>2 DEF Consuming
    <2>3. lingering' \subseteq lingering
      BY <1>2
    <2> QED BY <1>3, <2>1, <2>2, <2>3 DEF NamingInv, NamingType, Blank
  <1>10. Snapped'
    <2>1. \A x \in Keys : snapshot[x] # None => snapshot[x] \in Files
      BY DEF NamingInv, NamingType, Named
    <2>2. \A x \in Keys : <<"snapshot", x>> \in lingering => <<"snapshot", x>> \in lingering'
      BY <1>2
    <2> QED BY <1>3, <1>5, <2>1, <2>2 DEF NamingInv, Snapped
  <1> QED BY <1>3, <1>4, <1>8, <1>9, <1>10 DEF NamingInv, NamingType

LEMMA NamingClose ==
  ASSUME NamingInv, NEW o \in Objects, NEW away \in SUBSET {"obj"}, Close(o, away)
  PROVE  NamingInv'
  <1> DEFINE e == <<"obj", o>>
             rest == lingering \ {e}
  <1>1. /\ file' = [file EXCEPT ![o] = None] /\ UNCHANGED <<key, phase, retired, noting, snapshot>>
        /\ names' = IF Consuming /\ away = {} THEN Forgotten(names, "obj", o) ELSE names
        /\ lingering' = rest \cup Left(away \X {o})
        /\ Going /\ file[o] # None /\ Missing(away)
    BY DEF Close
  <1>2. /\ file' \in [Objects -> Named] /\ file'[o] = None
        /\ \A x \in Objects \ {o} : file'[x] = file[x]
    BY <1>1, NamedIs DEF NamingInv, NamingType
  <1>3. away = {} \/ away = {"obj"}
    OBVIOUS
  <1>4. /\ away = {} => lingering' = rest
        /\ away = {"obj"} => lingering' = rest \cup Left({e})
    <2>1. Left({}) = {} /\ {"obj"} \X {o} = {e} /\ {} \X {o} = {}
      BY DEF Left
    <2> QED BY <1>1, <2>1
  <1> HIDE DEF e, rest
  <1>5. Honest(names, file', key, lingering \cup {e})
    <2>1. ASSUME NEW m \in Maps, NEW x \in Addresses(m), <<m, x>> \notin lingering \cup {e},
                 Now(names, m, x) # None
          PROVE  Means(m, x, Now(names, m, x), file', key)
      <3>1. Means(m, x, Now(names, m, x), file, key)
        BY <2>1 DEF NamingInv, Honest
      <3>2. m = "obj" => x \in Objects \ {o}
        BY <2>1 DEF e, Addresses
      <3> QED BY <1>2, <3>1, <3>2 DEF Means
    <2> QED BY <2>1 DEF NamingInv, Honest
  <1>6. Honest(names', file', key, lingering')
    <2>1. CASE ~Consuming
      <3>1. phase = "ready" /\ names' = names
        BY <1>1, <2>1 DEF NamingInv, NamingType, Going, Consuming
      <3> QED BY <3>1, BlankHonest DEF NamingInv, Blank
    <2>2. CASE Consuming /\ away = {}
      <3>1. Honest(Forgotten(names, "obj", o), file', key, rest)
        BY <1>5, ForgottenHonest, MapsAre DEF e, rest
      <3> QED BY <1>1, <1>4, <2>2, <3>1
    <2>3. CASE away = {"obj"}
      <3>1. {e} \subseteq Maps \X UNION {Addresses(m) : m \in Maps}
        BY MapsAre DEF e
      <3>2. Honest(names, file', key, rest \cup Left({e}))
        BY <1>5, <3>1, LeftHonest DEF rest
      <3> QED BY <1>1, <1>4, <2>3, <3>2
    <2> QED BY <1>3, <2>1, <2>2, <2>3
  <1>7. lingering' \subseteq Entries /\ \A x \in Keys : <<"snapshot", x>> \in lingering => <<"snapshot", x>> \in lingering'
    <2>1. rest \subseteq lingering' /\ lingering' \subseteq lingering \cup {e}
      BY <1>3, <1>4, EntriesAre DEF rest
    <2>2. \A x \in Keys : <<"snapshot", x>> \in lingering => <<"snapshot", x>> \in rest
      BY DEF rest, e
    <2>3. e \in Entries
      BY EntriesAre DEF e
    <2> QED BY <2>1, <2>2, <2>3 DEF NamingInv, NamingType
  <1>8. Snapped' /\ Blank' /\ OneKey'
    <2>1. phase = "ready" => names' = names
      BY <1>1 DEF Consuming
    <2> QED BY <1>1, <1>2, <1>7, <2>1 DEF NamingInv, NamingType, OneKey, Snapped, Blank
  <1> QED BY <1>1, <1>2, <1>6, <1>7, <1>8 DEF NamingInv, NamingType

LEMMA NamingGiveUp ==
  ASSUME NamingInv, NEW f \in Files, NEW away \in SUBSET {"key", "run"}, GiveUp(f, away)
  PROVE  NamingInv'
  <1> DEFINE k == key[f]
             K == <<"key", k>>
             R == <<"run", k>>
             S == <<"snapshot", k>>
             rest == lingering \ {K, R}
  <1>1. /\ key' = [key EXCEPT ![f] = None] /\ UNCHANGED <<file, phase, noting, snapshot>>
        /\ IF away = {"key", "run"} THEN UNCHANGED retired
                                    ELSE retired' = IF noting THEN retired \cup {k} ELSE retired
        /\ k # None /\ (\A o \in Objects : file[o] # f) /\ Going
    BY DEF GiveUp, Retire
  <1>2. /\ k \in Keys /\ key' \in [Files -> Keys \cup {None}] /\ key'[f] = None
        /\ \A g \in Files \ {f} : key'[g] = key[g] /\ key[g] # k
    BY <1>1 DEF NamingInv, NamingType, OneKey
  <1>3. \/ away = {} \/ away = {"key"} \/ away = {"run"} \/ away = {"key", "run"}
    OBVIOUS
  <1>4. /\ away = {} => lingering' = rest
        /\ away = {"key"} => lingering' = rest \cup Left({K})
        /\ away = {"run"} => lingering' = rest \cup Left({R})
        /\ away = {"key", "run"} => lingering' = rest \cup Left({K, R, S})
    <2>1. lingering' = rest \cup Left((away \cup IF away = {"key", "run"} THEN {"snapshot"} ELSE {}) \X {k})
      <3>1. {"key", "run"} \X {k} = {K, R}
        OBVIOUS
      <3> QED BY <3>1 DEF GiveUp
    <2>2. Left({}) = {}
      BY DEF Left
    <2> HIDE DEF k
    <2>3. /\ {} \X {k} = {} /\ {"key"} \X {k} = {K} /\ {"run"} \X {k} = {R}
          /\ ({"key", "run"} \cup {"snapshot"}) \X {k} = {K, R, S}
      OBVIOUS
    <2>4. CASE away = {}
      <3>1. away # {"key", "run"}
        BY <2>4
      <3> QED BY <2>1, <2>2, <2>3, <2>4, <3>1
    <2>5. CASE away = {"key"}
      <3>1. away # {"key", "run"} /\ away # {} /\ away # {"run"} /\ away \cup {} = {"key"}
        BY <2>5
      <3> QED BY <2>1, <2>3, <2>5, <3>1
    <2>6. CASE away = {"run"}
      <3>1. away # {"key", "run"} /\ away # {} /\ away # {"key"} /\ away \cup {} = {"run"}
        BY <2>6
      <3> QED BY <2>1, <2>3, <2>6, <3>1
    <2>7. CASE away = {"key", "run"}
      <3>1. away # {"key"} /\ away # {} /\ away # {"run"}
        BY <2>7
      <3> QED BY <2>1, <2>3, <2>7, <3>1
    <2> QED BY <1>3, <2>4, <2>5, <2>6, <2>7
  <1>5. /\ Consuming /\ away = {} => names' = Forgotten(Forgotten(names, "key", k), "run", k)
        /\ Consuming /\ away = {"key"} => names' = Forgotten(names, "run", k)
        /\ Consuming /\ away = {"run"} => names' = Forgotten(names, "key", k)
        /\ ~Consuming \/ away = {"key", "run"} => names' = names
    <2>1. LET n == IF Consuming /\ "key" \notin away THEN Forgotten(names, "key", k) ELSE names
          IN names' = IF Consuming /\ "run" \notin away THEN Forgotten(n, "run", k) ELSE n
      BY DEF GiveUp
    <2> HIDE DEF k
    <2> QED BY <2>1
  <1> HIDE DEF K, R, S, rest
  <1>6. Honest(names, file, key', lingering \cup {K, R})
    <2>1. ASSUME NEW m \in Maps, NEW x \in Addresses(m), <<m, x>> \notin lingering \cup {K, R},
                 Now(names, m, x) # None
          PROVE  Means(m, x, Now(names, m, x), file, key')
      <3> DEFINE g == Now(names, m, x)
      <3>1. Means(m, x, g, file, key)
        BY <2>1 DEF NamingInv, Honest
      <3>2. g \in Files
        <4>1. g \in Named
          BY NowIn DEF NamingInv, Honest
        <4> QED BY <2>1, <4>1 DEF Named
      <3>3. CASE m = "obj"
        BY <3>1, <3>3 DEF Means
      <3>4. CASE m # "obj"
        <4>1. x # k
          BY <2>1, <3>4 DEF K, R, Maps
        <4> HIDE DEF g
        <4>2. key[g] = x
          BY <3>1, <3>4 DEF Means
        <4>3. g # f
          BY <4>1, <4>2
        <4> QED BY <1>2, <3>2, <3>4, <4>2, <4>3 DEF Means, g
      <3> QED BY <3>3, <3>4
    <2> QED BY <2>1 DEF NamingInv, Honest
  <1> HIDE DEF k
  <1>7. Honest(names', file, key', lingering')
    <2>1. {K} \subseteq Maps \X UNION {Addresses(m) : m \in Maps} /\ {R} \subseteq Maps \X UNION {Addresses(m) : m \in Maps}
      BY <1>2, MapsAre DEF K, R
    <2>2. K # R
      BY DEF K, R
    <2>3. CASE ~Consuming
      <3>1. phase = "ready" /\ names' = names
        BY <1>1, <1>5, <2>3 DEF NamingInv, NamingType, Going, Consuming
      <3> QED BY <3>1, BlankHonest DEF NamingInv, Blank
    <2>4. CASE Consuming /\ away = {}
      <3>1. Honest(names, file, key', (lingering \cup {R}) \cup {K})
        BY <1>6, HonestBut
      <3>2. Honest(Forgotten(names, "key", k), file, key', (lingering \ {K}) \cup {R})
        BY <1>2, <3>1, ForgottenHonest, MapsAre DEF K
      <3>3. Honest(Forgotten(Forgotten(names, "key", k), "run", k), file, key', rest)
        BY <1>2, <3>2, ForgottenHonest, MapsAre DEF R, rest
      <3> QED BY <1>4, <1>5, <2>4, <3>3
    <2>5. CASE Consuming /\ away = {"key"}
      <3>1. Honest(names, file, key', (lingering \cup {R}) \cup {K})
        BY <1>6, HonestBut
      <3>2. Honest(names, file, key', (rest \cup Left({K})) \cup {R})
        <4>1. ((lingering \cup {R}) \ {K}) \cup Left({K}) \subseteq (rest \cup Left({K})) \cup {R}
          BY DEF rest
        <4> QED BY <2>1, <3>1, <4>1, LeftHonest
      <3>3. Honest(Forgotten(names, "run", k), file, key', rest \cup Left({K}))
        BY <1>2, <3>2, ForgottenHonest, MapsAre DEF R
      <3> QED BY <1>4, <1>5, <2>5, <3>3
    <2>6. CASE Consuming /\ away = {"run"}
      <3>1. Honest(names, file, key', (lingering \cup {K}) \cup {R})
        BY <1>6, HonestBut
      <3>2. Honest(names, file, key', (rest \cup Left({R})) \cup {K})
        <4>1. ((lingering \cup {K}) \ {R}) \cup Left({R}) \subseteq (rest \cup Left({R})) \cup {K}
          BY DEF rest
        <4> QED BY <2>1, <3>1, <4>1, LeftHonest
      <3>3. Honest(Forgotten(names, "key", k), file, key', rest \cup Left({R}))
        BY <1>2, <3>2, ForgottenHonest, MapsAre DEF K
      <3> QED BY <1>4, <1>5, <2>6, <3>3
    <2>7. CASE Consuming /\ away = {"key", "run"}
      <3>1. Left({K, R}) \subseteq Left({K, R, S})
        BY DEF Left
      <3>2. Honest(names, file, key', rest \cup Left({K, R, S}))
        <4>1. (lingering \ {K, R}) \cup Left({K, R}) \subseteq rest \cup Left({K, R, S})
          BY <3>1 DEF rest
        <4>2. {K, R} \subseteq Maps \X UNION {Addresses(m) : m \in Maps}
          BY <2>1
        <4> QED BY <1>6, <4>1, <4>2, LeftHonest
      <3> QED BY <1>4, <1>5, <2>7, <3>2
    <2> QED BY <1>3, <2>3, <2>4, <2>5, <2>6, <2>7
  <1>8. /\ lingering' \subseteq Entries
        /\ \A x \in Keys : <<"snapshot", x>> \in lingering => <<"snapshot", x>> \in lingering'
        /\ away = {"key", "run"} /\ snapshot[k] # None => S \in lingering'
    <2>1. rest \subseteq lingering' /\ lingering' \subseteq lingering \cup {K, R, S}
      BY <1>3, <1>4, EntriesAre DEF rest
    <2>2. \A x \in Keys : <<"snapshot", x>> \in lingering => <<"snapshot", x>> \in rest
      BY DEF rest, K, R
    <2>3. {K, R, S} \subseteq Entries
      BY <1>2, EntriesAre DEF K, R, S
    <2>4. snapshot[k] # None => S \in Left({K, R, S})
      BY DEF Left, S
    <2> QED BY <1>4, <2>1, <2>2, <2>3, <2>4 DEF NamingInv, NamingType
  <1>9. OneKey'
    <2>1. \A o \in Objects : file[o] # None => file[o] \in Files \ {f}
      BY <1>1 DEF NamingInv, NamingType, Named
    <2> QED BY <1>1, <1>2, <2>1 DEF NamingInv, OneKey
  <1>10. Snapped'
    <2>1. \A x \in Keys : snapshot[x] # None => snapshot[x] \in Files
      BY DEF NamingInv, NamingType, Named
    <2>2. retired \subseteq retired' /\ (snapshot[k] # None => S \in lingering' \/ k \in retired')
      <3>1. snapshot[k] # None => noting
        BY <1>2 DEF NamingInv, Snapped
      <3> QED BY <1>1, <1>8, <3>1
    <2>3. ASSUME NEW x \in Keys, snapshot[x] # None
          PROVE  x \in retired' \/ <<"snapshot", x>> \in lingering' \/ key'[snapshot[x]] = x
      <3>1. CASE x = k
        BY <2>2, <2>3, <3>1 DEF S
      <3>2. CASE x # k
        <4>1. snapshot[x] = f => key[snapshot[x]] # x
          BY <3>2 DEF k
        <4> QED BY <1>2, <1>8, <2>1, <2>2, <2>3, <4>1 DEF NamingInv, Snapped
      <3> QED BY <3>1, <3>2
    <2> QED BY <1>1, <2>3 DEF NamingInv, Snapped
  <1>11. Blank'
    BY <1>1, <1>5 DEF NamingInv, Blank, Consuming
  <1>12. retired' \subseteq Keys
    BY <1>1, <1>2 DEF NamingInv, NamingType
  <1> QED BY <1>1, <1>2, <1>7, <1>8, <1>9, <1>10, <1>11, <1>12 DEF NamingInv, NamingType

\* What leaves the addresses alone and keeps the names true.
LEMMA NamingSteady ==
  ASSUME NamingInv, UNCHANGED <<file, key, phase, retired, noting, snapshot, lingering>>,
         Honest(names', file, key, lingering), phase # "ready" \/ UNCHANGED names
  PROVE  NamingInv'
  <1>1. Honest(names', file', key', lingering')
    OBVIOUS
  <1> QED BY <1>1 DEF NamingInv, NamingType, OneKey, Snapped, Blank

LEMMA NamingRundown == ASSUME NamingInv, NEW f \in Files, Rundown(f) PROVE NamingInv'
  <1> DEFINE k == key[f]
  <1>1. /\ k \in Keys /\ Consuming /\ names' = Learned(names, "run", k, f)
        /\ lingering' = lingering \ {<<"run", k>>}
        /\ UNCHANGED <<file, key, phase, retired, noting, snapshot>>
    BY DEF Rundown, NamingInv, NamingType
  <1>2. Means("run", k, f, file, key)
    BY DEF Means
  <1> HIDE DEF k
  <1>3. Honest(names, file, key, lingering \cup {<<"run", k>>})
    BY HonestBut DEF NamingInv
  <1>4. Honest(names', file, key, lingering \ {<<"run", k>>})
    <2>1. Honest(Learned(names, "run", k, f), file, key, lingering \ {<<"run", k>>})
      BY <1>1, <1>2, <1>3, LearnedHonest, MapsAre
    <2> QED BY <1>1, <2>1
  <1>5. Honest(names', file', key', lingering')
    BY <1>1, <1>4
  <1>6. Snapped' /\ lingering' \subseteq Entries
    <2>1. \A x \in Keys : <<"snapshot", x>> \in lingering => <<"snapshot", x>> \in lingering'
      BY <1>1
    <2> QED BY <1>1, <2>1 DEF NamingInv, NamingType, Snapped
  <1> QED BY <1>1, <1>5, <1>6 DEF NamingInv, NamingType, OneKey, Blank, Consuming

LEMMA NamingRotates == ASSUME NamingInv, RotateNames PROVE NamingInv'
  <1>1. Kept(names, Rotated(names))
    BY RotatedKept DEF NamingInv, Honest
  <1>2. Honest(names', file, key, lingering)
    BY <1>1, KeptHonest DEF RotateNames, NamingInv
  <1> QED BY <1>2, NamingSteady DEF RotateNames, kernel, lost

LEMMA NamingMerge == ASSUME NamingInv, NEW k \in Keys, MergeName(k) PROVE NamingInv'
  <1>1. /\ UNCHANGED <<file, key, phase, retired, noting>> /\ phase = "merging"
        /\ snapshot' = [snapshot EXCEPT ![k] = None] /\ snapshot[k] # None
        /\ names' = IF Outdated(k) THEN names ELSE Learned(names, "run", k, snapshot[k])
        /\ lingering' = IF Outdated(k) \/ <<"snapshot", k>> \notin lingering THEN lingering
                        ELSE lingering \cup {<<"run", k>>}
    BY DEF MergeName
  <1>2. /\ snapshot' \in [Keys -> Named] /\ snapshot[k] \in Files
        /\ \A x \in Keys : snapshot'[x] \in {snapshot[x], None}
    BY <1>1, NamedIs DEF NamingInv, NamingType, Named
  <1>3. lingering \subseteq lingering' /\ lingering' \subseteq Entries
    BY <1>1, EntriesAre DEF NamingInv, NamingType
  <1>4. Honest(names', file, key, lingering')
    <2>1. CASE Outdated(k)
      BY <1>1, <2>1 DEF NamingInv
    <2>2. CASE ~Outdated(k)
      <3>1. <<"run", k>> \in lingering' \/ key[snapshot[k]] = k
        BY <1>1, <2>2 DEF Outdated, NamingInv, Snapped
      <3>2. Honest(names, file, key, lingering \cup {<<"run", k>>})
        BY HonestBut DEF NamingInv
      <3>3. <<"run", k>> \in lingering' \/ Means("run", k, snapshot[k], file, key)
        BY <3>1 DEF Means
      <3>4. lingering \ {<<"run", k>>} \subseteq lingering'
        BY <1>3
      <3>5. Honest(Learned(names, "run", k, snapshot[k]), file, key, lingering')
        BY <1>2, <3>2, <3>3, <3>4, LearnedHonest, MapsAre
      <3> QED BY <1>1, <2>2, <3>5
    <2> QED BY <2>1, <2>2
  <1>5. Honest(names', file', key', lingering')
    BY <1>1, <1>4
  <1> QED BY <1>1, <1>2, <1>3, <1>5 DEF NamingInv, NamingType, OneKey, Snapped, Blank

LEMMA NamingSnapshot == ASSUME NamingInv, TakeSnapshot PROVE NamingInv'
  <1>1. /\ UNCHANGED <<file, key, names, retired, noting, lingering>> /\ phase = "init"
        /\ phase' \in {"merge", "unmerged"}
        /\ phase' = "unmerged" => UNCHANGED snapshot
    BY DEF TakeSnapshot, kernel, lost
  <1>2. Honest(names', file', key', lingering')
    BY <1>1 DEF NamingInv
  <1>3. CASE phase' = "merge"
    <2> DEFINE open(k) == \E o \in Objects : file[o] # None /\ key[file[o]] = k
               who(k) == CHOOSE f \in Files : key[f] = k
    <2>1. snapshot' = [k \in Keys |-> IF open(k) THEN who(k) ELSE None]
      BY <1>3 DEF TakeSnapshot
    <2>2. \A k \in Keys : open(k) => who(k) \in Files /\ key[who(k)] = k
      BY DEF NamingInv, NamingType, Named
    <2> HIDE DEF open, who
    <2>3. snapshot' \in [Keys -> Named] /\ \A k \in Keys : snapshot'[k] # None => key[snapshot'[k]] = k
      BY <2>1, <2>2, NamedIs
    <2> QED BY <1>1, <1>2, <1>3, <2>3 DEF NamingInv, NamingType, OneKey, Snapped, Blank
  <1>4. CASE phase' = "unmerged"
    BY <1>1, <1>2, <1>4 DEF NamingInv, NamingType, OneKey, Snapped, Blank
  <1> QED BY <1>1, <1>3, <1>4

LEMMA NamingPhases ==
  ASSUME NamingInv, Start \/ MergeBegins \/ EnableReads \/ Stop \/ FinalSweep \/ Stopped
  PROVE  NamingInv'
  <1>1. UNCHANGED <<file, key, names, snapshot, lingering>>
    BY DEF Start, MergeBegins, EnableReads, Stop, FinalSweep, Stopped, kernel, lost, naming
  <1>2. Honest(names', file', key', lingering')
    BY <1>1 DEF NamingInv
  <1>3. NamingType' /\ Snapped' /\ Blank'
    BY <1>1 DEF NamingInv, NamingType, Snapped, Blank, Start, MergeBegins, EnableReads, Stop, FinalSweep,
                Stopped, kernel, naming
  <1> QED BY <1>1, <1>2, <1>3 DEF NamingInv, OneKey

\* A lookup for a read: it promotes, and changes nothing else.
LEMMA NamingLookup ==
  ASSUME NamingInv, NEW o \in Objects, NEW k \in Keys, names' \in {names, Promoted(names, o, k)},
         UNCHANGED <<file, key, phase, retired, noting, snapshot, lingering>>, phase # "ready"
  PROVE  NamingInv'
  <1>1. Kept(names, Promoted(names, o, k))
    BY LookupIs DEF NamingInv, Honest
  <1>2. Honest(Promoted(names, o, k), file, key, lingering)
    BY <1>1, KeptHonest DEF NamingInv
  <1>3. Honest(names', file, key, lingering)
    BY <1>2 DEF NamingInv
  <1> QED BY <1>3, NamingSteady

(***************************************************************************)
(* Where every read is.                                                    *)
(***************************************************************************)

ReadType ==
  /\ reads \in Seq([file : Files, obj : Objects, key : Keys]) /\ Len(reads) <= MaxReads
  /\ busy \in [Irps -> {Opening, Untraced, Idle} \cup Ids]
  /\ opens \in 0..MaxOpens /\ missed \in 0..MaxMissed
  /\ path \in [Ids -> Named]

FateType ==
  /\ pending \in [Irps -> {0} \cup Ids]
  /\ deferred \subseteq Ids /\ detached \subseteq Ids /\ readd \subseteq Ids
  /\ shown \subseteq Ids /\ failed \subseteq Ids /\ gone \subseteq Ids
  /\ misled \subseteq Ids /\ guessed \subseteq Ids /\ stale \subseteq Ids /\ orphaned \subseteq Ids

\* The IRPs a read waits on.
Held == {i \in Irps : pending[i] # 0}

InRoom == Cardinality(Held) <= PendingMax /\ Cardinality(deferred) <= ParkedMax

LEMMA TypeParts ==
  ASSUME NamingInv, ReadType, FateType, InRoom, losses \in Nat, collisions \in Nat
  PROVE  TypeOK
  BY DEF NamingInv, NamingType, Honest, Typed, ReadType, FateType, InRoom, Held, TypeOK

\* A read waits on one IRP only, and is at one place.
Apart ==
  /\ \A i, j \in Irps : pending[i] = pending[j] /\ pending[i] # 0 => i = j
  /\ Waiting \cap (deferred \cup detached \cup readd \cup shown \cup failed \cup gone) = {}
  /\ deferred \cap (detached \cup readd \cup shown \cup failed \cup gone) = {}
  /\ detached \cap (readd \cup shown \cup failed \cup gone) = {}
  /\ readd \cap (shown \cup failed \cup gone) = {}
  /\ shown \cap (failed \cup gone) = {}
  /\ failed \cap gone = {}

Whole == Waiting \cup deferred \cup detached \cup readd \cup shown \cup failed \cup gone = Ids

\* What is given up is in the counters, two reads for a collision.
Counted ==
  /\ IsFiniteSet(gone) /\ losses \in Nat /\ collisions \in Nat
  /\ Cardinality(gone) \in (losses + collisions)..(losses + 2 * collisions)

\* When there are reads, and when none is parked any more.
Course ==
  /\ phase \notin {"on", "stopping", "final", "ended"} => reads = <<>>
  /\ phase \in {"final", "ended"} => deferred = {} /\ readd = {}
  /\ phase = "ended" => detached = {}

AccountInv == ReadType /\ FateType /\ InRoom /\ Apart /\ Whole /\ Counted /\ Course

LEMMA IdsAre == ASSUME ReadType
                PROVE  /\ Len(reads) \in Nat /\ Ids = 1..Len(reads) /\ 0 \notin Ids /\ Ids \subseteq Nat
                       /\ \A r \in Ids : reads[r] \in [file : Files, obj : Objects, key : Keys]
  <1> DEFINE S == [file : Files, obj : Objects, key : Keys]
  <1>1. reads \in Seq(S)
    BY DEF ReadType
  <1> HIDE DEF S
  <1>2. Len(reads) \in Nat /\ reads \in [1..Len(reads) -> S]
    BY <1>1, LenProperties
  <1> QED BY <1>2 DEF Ids, S

LEMMA CapsAre == PendingMax \in Nat /\ ParkedMax \in Nat /\ ShareMax \in Nat /\ PendingMax >= 1
  BY CapsAssumption

LEMMA OneMore ==
  ASSUME NEW S, NEW x, IsFiniteSet(S), x \notin S
  PROVE  /\ IsFiniteSet(S \cup {x}) /\ Cardinality(S) \in Nat
         /\ Cardinality(S \cup {x}) = Cardinality(S) + 1
  BY FS_AddElement, FS_CardinalityType

LEMMA TwoMore ==
  ASSUME NEW S, NEW x, NEW y, IsFiniteSet(S), x \notin S, y \notin S, x # y
  PROVE  /\ IsFiniteSet(S \cup {x, y}) /\ Cardinality(S) \in Nat
         /\ Cardinality(S \cup {x, y}) = Cardinality(S) + 2
  <1> DEFINE T == S \cup {x}
  <1>1. IsFiniteSet(T) /\ Cardinality(T) = Cardinality(S) + 1 /\ Cardinality(S) \in Nat /\ y \notin T
    BY OneMore
  <1>2. S \cup {x, y} = T \cup {y}
    OBVIOUS
  <1> HIDE DEF T
  <1>3. IsFiniteSet(T \cup {y}) /\ Cardinality(T \cup {y}) = Cardinality(T) + 1
    BY <1>1, OneMore
  <1> QED BY <1>1, <1>2, <1>3

LEMMA HeldFinite == IsFiniteSet(Held) /\ Cardinality(Held) \in Nat
  BY FiniteAssumption, FS_Subset, FS_CardinalityType DEF Held

LEMMA HeldIs == ASSUME FateType, ReadType PROVE Waiting = {pending[i] : i \in Held} /\ Waiting \subseteq Ids
  BY IdsAre DEF FateType, Waiting, Held

\* An IRP is let go.
LEMMA LetGo ==
  ASSUME FateType, ReadType, Apart, InRoom, NEW i \in Irps, pending[i] # 0,
         pending' = [pending EXCEPT ![i] = 0]
  PROVE  /\ pending[i] \in Waiting /\ Waiting' = Waiting \ {pending[i]}
         /\ pending' \in [Irps -> {0} \cup Ids] /\ Cardinality(Held)' <= PendingMax
         /\ \A j, k \in Irps : pending'[j] = pending'[k] /\ pending'[j] # 0 => j = k
  <1>1. \A j \in Irps : pending'[j] = IF j = i THEN 0 ELSE pending[j]
    BY DEF FateType
  <1>2. \A j, k \in Irps : pending'[j] = pending'[k] /\ pending'[j] # 0 => j = k
    BY <1>1 DEF Apart
  <1>3. pending[i] \in Waiting /\ Waiting' = Waiting \ {pending[i]}
    BY <1>1 DEF Apart, Waiting
  <1>4. Held' \subseteq Held
    BY <1>1 DEF Held
  <1>5. Cardinality(Held') <= Cardinality(Held) /\ Cardinality(Held') \in Nat
    BY <1>4, HeldFinite, FS_Subset, FS_CardinalityType
  <1> QED BY <1>2, <1>3, <1>5, HeldFinite, CapsAssumption DEF InRoom, FateType

\* As many reads wait as there are IRPs that are waited on.
LEMMA AsMany ==
  ASSUME FateType, ReadType, Apart
  PROVE  IsFiniteSet(Waiting) /\ Cardinality(Waiting) = Cardinality(Held)
  <1> DEFINE f == [i \in Held |-> pending[i]]
  <1>1. f \in Bijection(Held, Waiting)
    <2>1. f \in [Held -> Waiting] /\ \A t \in Waiting : \E i \in Held : f[i] = t
      BY HeldIs
    <2>2. \A i, j \in DOMAIN f : f[i] = f[j] => i = j
      BY DEF Held, Apart
    <2> QED BY <2>1, <2>2 DEF Bijection, Injection, Surjection, IsInjective
  <1>2. ExistsBijection(Held, Waiting)
    BY <1>1 DEF ExistsBijection
  <1> QED BY <1>2, HeldFinite, FS_Bijection

(***************************************************************************)
(* What pend, quarantine and parkLocked do with a read.                    *)
(***************************************************************************)

\* A read is given up, and counted.
LEMMA GivenUp ==
  ASSUME Counted, NEW r, r \notin gone, gone' = gone \cup {r},
         \/ losses' = losses + 1 /\ UNCHANGED collisions
         \/ collisions' = collisions + 1 /\ UNCHANGED losses
  PROVE  Counted'
  <1>1. IsFiniteSet(gone') /\ Cardinality(gone') = Cardinality(gone) + 1 /\ Cardinality(gone) \in Nat
    BY FS_AddElement, FS_CardinalityType DEF Counted
  <1> QED BY <1>1 DEF Counted

\* A new read waits on its IRP, or is given up, and whoever waited before waits on, or is
\* given up.
LEMMA PendIs ==
  ASSUME FateType, ReadType, Apart, InRoom, Counted, NEW i \in Irps, NEW r, r # 0, r \notin Ids,
         Pend(i, r)
  PROVE  /\ Waiting' \cup gone' = Waiting \cup gone \cup {r} /\ Waiting' \cap gone' = {}
         /\ gone \subseteq gone' /\ Waiting' \subseteq Waiting \cup {r}
         /\ pending' \in [Irps -> {0, r} \cup Ids] /\ Cardinality(Held)' <= PendingMax
         /\ \A j, k \in Irps : pending'[j] = pending'[k] /\ pending'[j] # 0 => j = k
         /\ Counted'
         /\ \A j \in Irps : pending'[j] \in {0, pending[j]} \/ (j = i /\ pending'[j] = r)
  <1> DEFINE Single(q) == \A j, k \in Irps : q[j] = q[k] /\ q[j] # 0 => j = k
  <1>1. /\ Waiting \subseteq Ids /\ gone \subseteq Ids /\ r # 0 /\ r \notin Waiting \cup gone
        /\ Waiting \cap gone = {} /\ 0 \notin Ids
    <2>1. Waiting \subseteq Ids /\ 0 \notin Ids
      BY HeldIs, IdsAre
    <2>2. gone \subseteq Ids /\ r # 0
      BY DEF FateType
    <2> QED BY <2>1, <2>2 DEF Apart
  <1>2. CASE pending[i] # 0
    <2>1. /\ pending' = [pending EXCEPT ![i] = 0] /\ gone' = gone \cup {pending[i], r}
          /\ collisions' = collisions + 1 /\ losses' = losses
      BY <1>2 DEF Pend
    <2>2. /\ pending[i] \in Waiting /\ Waiting' = Waiting \ {pending[i]}
          /\ pending' \in [Irps -> {0} \cup Ids] /\ Cardinality(Held)' <= PendingMax
          /\ Single(pending')
      BY <1>2, <2>1, LetGo
    <2>3. IsFiniteSet(gone) /\ Cardinality(gone) \in Nat
      BY FS_CardinalityType DEF Counted
    <2>4. pending[i] \notin gone /\ r \notin gone /\ pending[i] # r
      BY <1>1, <2>2
    <2>5. IsFiniteSet(gone') /\ Cardinality(gone') = Cardinality(gone) + 2
      BY <2>1, <2>3, <2>4, TwoMore
    <2>6. Cardinality(gone) \in (losses + collisions)..(losses + 2 * collisions)
      BY DEF Counted
    <2>7. Counted'
      BY <2>1, <2>3, <2>5, <2>6 DEF Counted
    <2>8. \A j \in Irps : pending'[j] \in {0, pending[j]}
      BY <2>1 DEF FateType
    <2> QED BY <1>1, <2>1, <2>2, <2>7, <2>8
  <1>3. CASE pending[i] = 0 /\ Cardinality(Held) < PendingMax
    <2>1. pending' = [pending EXCEPT ![i] = r] /\ UNCHANGED <<gone, losses, collisions>>
      BY <1>3, HeldFinite, CapsAssumption DEF Pend, Held
    <2>2. \A j \in Irps : pending'[j] = IF j = i THEN r ELSE pending[j]
      BY <2>1 DEF FateType
    <2>3. Waiting' = Waiting \cup {r}
      BY <1>1, <1>3, <2>2 DEF Waiting
    <2>4. Single(pending')
      <3>1. \A j \in Irps : pending[j] # r
        BY <1>1 DEF FateType
      <3> QED BY <2>2, <3>1 DEF Apart
    <2>5. Held' = Held \cup {i}
      BY <1>1, <2>2 DEF Held
    <2>6. Cardinality(Held') <= PendingMax
      <3>1. i \notin Held /\ Cardinality(Held) \in Nat /\ Cardinality(Held) < PendingMax
        BY <1>3, HeldFinite DEF Held
      <3>2. Cardinality(Held \cup {i}) = Cardinality(Held) + 1
        BY <3>1, HeldFinite, OneMore
      <3> QED BY <2>5, <3>1, <3>2, CapsAre
    <2> QED BY <1>1, <2>1, <2>2, <2>3, <2>4, <2>6 DEF Counted, FateType
  <1>4. CASE pending[i] = 0 /\ Cardinality(Held) >= PendingMax
    <2>1. /\ pending' = [j \in Irps |-> IF j = i THEN r ELSE 0]
          /\ gone' = gone \cup {pending[j] : j \in Held}
          /\ losses' = losses + Cardinality(Held) /\ collisions' = collisions
      BY <1>4, HeldFinite, CapsAssumption DEF Pend, Held
    <2>2. gone' = gone \cup Waiting /\ Waiting' = {r} /\ Held' = {i}
      BY <1>1, <2>1, HeldIs DEF Waiting, Held
    <2>3. Counted'
      <3>1. IsFiniteSet(gone) /\ Cardinality(gone) \in Nat /\ Cardinality(Held) \in Nat
        BY HeldFinite, FS_CardinalityType DEF Counted
      <3>2. gone \cap Waiting = {} /\ Cardinality({}) = 0
        BY <1>1, FS_EmptySet
      <3>3. IsFiniteSet(gone') /\ Cardinality(gone') = Cardinality(gone) + Cardinality(Held)
          <4>1. IsFiniteSet(Waiting) /\ Cardinality(Waiting) = Cardinality(Held)
          BY AsMany
        <4>2. /\ IsFiniteSet(gone \cup Waiting)
              /\ Cardinality(gone \cup Waiting)
                   = Cardinality(gone) + Cardinality(Waiting) - Cardinality(gone \cap Waiting)
          BY <3>1, <4>1, FS_Union
        <4>3. Cardinality(gone \cap Waiting) = 0
          BY <3>2
        <4>4. IsFiniteSet(gone') /\ Cardinality(gone') = Cardinality(gone \cup Waiting)
          BY <2>2, <4>2
        <4> QED BY <3>1, <4>1, <4>2, <4>3, <4>4
      <3> QED BY <2>1, <3>1, <3>3 DEF Counted
    <2>4. Cardinality(Held') <= PendingMax
      BY <2>2, FS_Singleton, CapsAssumption
    <2> QED BY <1>1, <2>1, <2>2, <2>3, <2>4
  <1>5. Cardinality(Held) < PendingMax \/ Cardinality(Held) >= PendingMax
    BY HeldFinite, CapsAssumption
  <1> QED BY <1>2, <1>3, <1>4, <1>5

LEMMA QuarantineIs ==
  ASSUME FateType, ReadType, Apart, InRoom, Counted, UNCHANGED losses, NEW i \in Irps, Quarantine(i)
  PROVE  /\ Waiting' \cup gone' = Waiting \cup gone /\ Waiting' \cap gone' = {}
         /\ gone \subseteq gone' /\ Waiting' \subseteq Waiting
         /\ pending' \in [Irps -> {0} \cup Ids] /\ Cardinality(Held)' <= PendingMax
         /\ \A j, k \in Irps : pending'[j] = pending'[k] /\ pending'[j] # 0 => j = k
         /\ Counted'
         /\ pending' = [pending EXCEPT ![i] = 0]
  <1>1. CASE pending[i] # 0
    <2>1. /\ pending' = [pending EXCEPT ![i] = 0] /\ gone' = gone \cup {pending[i]}
          /\ collisions' = collisions + 1
      BY <1>1 DEF Quarantine
    <2>2. /\ pending[i] \in Waiting /\ Waiting' = Waiting \ {pending[i]}
          /\ pending' \in [Irps -> {0} \cup Ids] /\ Cardinality(Held)' <= PendingMax
          /\ \A j, k \in Irps : pending'[j] = pending'[k] /\ pending'[j] # 0 => j = k
      BY <1>1, <2>1, LetGo
    <2>3. Counted'
      BY <2>1, <2>2, GivenUp DEF Apart
    <2> QED BY <2>1, <2>2, <2>3 DEF Apart
  <1>2. CASE pending[i] = 0
    <2>1. UNCHANGED <<pending, gone, collisions>>
      BY <1>2 DEF Quarantine
    <2>2. Waiting' = Waiting /\ Held' = Held
      BY <2>1 DEF Waiting, Held
    <2>3. pending = [pending EXCEPT ![i] = 0]
      BY <1>2 DEF FateType
    <2> QED BY <2>1, <2>2, <2>3 DEF FateType, Apart, InRoom, Counted
  <1> QED BY <1>1, <1>2

LEMMA ParkIs ==
  ASSUME FateType, ReadType, InRoom, Counted, UNCHANGED <<reads, collisions>>, NEW r \in Ids,
         r \notin deferred \cup gone, Park(deferred, r)
  PROVE  /\ deferred' \cup gone' = deferred \cup gone \cup {r}
         /\ \/ deferred' = deferred \cup {r} /\ gone' = gone
            \/ deferred' = deferred /\ gone' = gone \cup {r}
         /\ Cardinality(deferred') <= ParkedMax /\ Counted'
  <1>1. IsFiniteSet(deferred) /\ Cardinality(deferred) \in Nat
    <2>1. IsFiniteSet(Ids)
      BY IdsAre, FS_Interval
    <2> QED BY <2>1, FS_Subset, FS_CardinalityType DEF FateType
  <1>2. CASE HasRoom(deferred, r) /\ deferred' = deferred \cup {r} /\ UNCHANGED <<gone, losses>>
    <2>1. Cardinality(deferred) < ParkedMax
      BY <1>2 DEF HasRoom
    <2>2. Cardinality(deferred \cup {r}) = Cardinality(deferred) + 1
      BY <1>1, OneMore
    <2>3. Cardinality(deferred') <= ParkedMax
      BY <1>1, <1>2, <2>1, <2>2, CapsAre
    <2> QED BY <1>2, <2>3 DEF Counted
  <1>3. CASE deferred' = deferred /\ gone' = gone \cup {r} /\ losses' = losses + 1
    BY <1>3, GivenUp DEF InRoom
  <1> QED BY <1>2, <1>3 DEF Park

(***************************************************************************)
(* The reads' names and their ends.                                        *)
(***************************************************************************)

Parking == deferred \cup detached \cup readd

\* A name is the file's, unless the read is stale.
Told == \A r \in Ids : path[r] # None => path[r] = reads[r].file \/ r \in stale

\* A parked read has no name, and a published one has.
Addressed == (\A r \in Parking : path[r] = None) /\ (\A r \in shown : path[r] # None)

\* Whatever the entries of a read without a name say is the read's file, and its key is
\* nobody else's.
Says(n, r) ==
  /\ Now(n, "obj", reads[r].obj) \in {None, reads[r].file}
  /\ Now(n, "key", reads[r].key) \in {None, reads[r].file}
  /\ Now(n, "run", reads[r].key) \in {None, reads[r].file}

Fresh ==
  \A r \in Unnamed \ stale :
    /\ Says(names, r)
    /\ \A f \in Files : key[f] = reads[r].key => f = reads[r].file

TellInv == Told /\ Addressed /\ Fresh

\* A read waits for an end that is not its own only when its own was lost, and never while
\* an operation that was seen to start has its IRP.
Heard ==
  /\ \A i \in Irps : pending[i] # 0 /\ busy[i] # pending[i] =>
       pending[i] \in orphaned /\ busy[i] \in {Idle, Untraced}
  /\ misled = {} /\ guessed \subseteq orphaned

(***************************************************************************)
(* Every step keeps every read in its place.                               *)
(***************************************************************************)

\* The places and the counters, and all that the account depends on but the phase and how
\* often records were lost.
places == <<reads, busy, opens, orphaned, path, waiting, fates, counts>>

LEMMA AccountSteady ==
  ASSUME AccountInv, UNCHANGED <<phase, places>>, missed' \in 0..MaxMissed
  PROVE  AccountInv'
  <1>1. /\ UNCHANGED <<phase, reads, busy, opens, orphaned, path, pending, deferred, detached, readd>>
        /\ UNCHANGED <<shown, failed, gone, misled, guessed, stale, losses, collisions>>
    BY DEF places, waiting, fates, judged, counts
  <1>2. Ids' = Ids /\ Waiting' = Waiting /\ Held' = Held
    BY <1>1 DEF Ids, Waiting, Held
  <1>3. ReadType' /\ FateType' /\ InRoom'
    BY <1>1, <1>2 DEF AccountInv, ReadType, FateType, InRoom
  <1>4. Apart' /\ Whole' /\ Counted' /\ Course'
    BY <1>1, <1>2 DEF AccountInv, Apart, Whole, Counted, Course
  <1> QED BY <1>3, <1>4 DEF AccountInv

\* Only the phase changes.
LEMMA AccountPhase ==
  ASSUME AccountInv, UNCHANGED <<places, missed>>, Course'
  PROVE  AccountInv'
  <1>1. /\ UNCHANGED <<reads, busy, opens, missed, orphaned, path, pending, deferred, detached, readd>>
        /\ UNCHANGED <<shown, failed, gone, misled, guessed, stale, losses, collisions>>
    BY DEF places, waiting, fates, judged, counts
  <1>2. Ids' = Ids /\ Waiting' = Waiting /\ Held' = Held
    BY <1>1 DEF Ids, Waiting, Held
  <1>3. ReadType' /\ FateType' /\ InRoom'
    BY <1>1, <1>2 DEF AccountInv, ReadType, FateType, InRoom
  <1>4. Apart' /\ Whole' /\ Counted'
    BY <1>1, <1>2 DEF AccountInv, Apart, Whole, Counted
  <1> QED BY <1>3, <1>4 DEF AccountInv

LEMMA AccountPhases ==
  ASSUME AccountInv, NamingInv,
         Start \/ TakeSnapshot \/ MergeBegins \/ EnableReads \/ Stop \/ Stopped
  PROVE  AccountInv'
  <1>1. UNCHANGED <<places, missed>>
    BY DEF Start, TakeSnapshot, MergeBegins, EnableReads, Stop, Stopped, kernel, lost, places, waiting, fates, judged, counts
  <1>2. reads = <<>> => deferred = {} /\ detached = {} /\ readd = {}
    <2>1. reads = <<>> => Ids = {}
      BY DEF Ids
    <2> QED BY <2>1 DEF AccountInv, FateType
  <1>3. UNCHANGED <<reads, deferred, detached, readd>>
    BY <1>1 DEF places, waiting
  <1>4. Course'
    BY <1>2, <1>3 DEF AccountInv, Course, Start, TakeSnapshot, MergeBegins, EnableReads, Stop, Stopped
  <1> QED BY <1>1, <1>4, AccountPhase

\* An IRP is given to an operation whose start the watcher does not see.
LEMMA AccountWrite == ASSUME AccountInv, NEW i \in Irps, Write(i) PROVE AccountInv'
  <1>1. /\ UNCHANGED <<phase, reads, opens, missed, orphaned, path, pending, deferred, detached, readd>>
        /\ UNCHANGED <<shown, failed, gone, misled, guessed, stale, losses, collisions>>
        /\ busy' = [busy EXCEPT ![i] = Untraced]
    BY DEF Write, lost, waiting, fates, judged, counts
  <1>2. Ids' = Ids /\ Waiting' = Waiting /\ Held' = Held
    BY <1>1 DEF Ids, Waiting, Held
  <1>3. ReadType'
    BY <1>1, <1>2 DEF AccountInv, ReadType
  <1>4. FateType' /\ InRoom' /\ Apart' /\ Whole' /\ Counted' /\ Course'
    BY <1>1, <1>2 DEF AccountInv, FateType, InRoom, Apart, Whole, Counted, Course
  <1> QED BY <1>3, <1>4 DEF AccountInv

\* The parked reads are detached, all at once.
LEMMA AccountSweep == ASSUME AccountInv, Sweep \/ FinalSweep PROVE AccountInv'
  <1>1. /\ UNCHANGED <<reads, busy, opens, missed, orphaned, path, pending, readd>>
        /\ UNCHANGED <<shown, failed, gone, misled, guessed, stale, losses, collisions>>
        /\ detached = {} /\ readd = {} /\ detached' = deferred /\ deferred' = {}
        /\ phase \in {"on", "stopping"} /\ phase' \in {phase, "final"}
    BY DEF Sweep, FinalSweep, kernel, lost, fates, counts, judged
  <1>2. Ids' = Ids /\ Waiting' = Waiting /\ Held' = Held
    BY <1>1 DEF Ids, Waiting, Held
  <1>3. InRoom'
    BY <1>1, <1>2, FS_EmptySet, CapsAre DEF AccountInv, InRoom
  <1>4. ReadType' /\ FateType' /\ Counted' /\ Course'
    BY <1>1, <1>2 DEF AccountInv, ReadType, FateType, Counted, Course
  <1>5. Apart' /\ Whole'
    BY <1>1, <1>2 DEF AccountInv, Apart, Whole
  <1> QED BY <1>3, <1>4, <1>5 DEF AccountInv

\* A read that has waited too long.
LEMMA AccountExpire == ASSUME AccountInv, NEW i \in Irps, Expire(i) PROVE AccountInv'
  <1>1. /\ UNCHANGED <<phase, reads, busy, opens, missed, orphaned, path, deferred, detached, readd>>
        /\ UNCHANGED <<shown, failed, misled, guessed, stale, collisions>>
        /\ pending[i] # 0 /\ pending' = [pending EXCEPT ![i] = 0]
        /\ gone' = gone \cup {pending[i]} /\ losses' = losses + 1
    BY DEF Expire, kernel, lost, judged
  <1>2. /\ pending[i] \in Waiting /\ Waiting' = Waiting \ {pending[i]}
        /\ pending' \in [Irps -> {0} \cup Ids] /\ Cardinality(Held)' <= PendingMax
        /\ \A j, k \in Irps : pending'[j] = pending'[k] /\ pending'[j] # 0 => j = k
    BY <1>1, LetGo DEF AccountInv
  <1>3. Ids' = Ids /\ Waiting \subseteq Ids
    BY <1>1, HeldIs DEF Ids, AccountInv
  <1>4. Counted'
    BY <1>1, <1>2, GivenUp DEF AccountInv, Apart
  <1>5. ReadType' /\ FateType' /\ InRoom' /\ Course'
    BY <1>1, <1>2, <1>3 DEF AccountInv, ReadType, FateType, InRoom, Course
  <1>6. Apart' /\ Whole'
    BY <1>1, <1>2, <1>3 DEF AccountInv, Apart, Whole
  <1> QED BY <1>4, <1>5, <1>6 DEF AccountInv

\* A file is opened, and the read that waited on the IRP is given up.
LEMMA AccountOpen ==
  ASSUME AccountInv, NEW o \in Objects, NEW f \in Files, NEW i \in Irps, NEW away, Open(o, f, i, away)
  PROVE  AccountInv'
  <1>1. /\ UNCHANGED <<phase, reads, path, deferred, detached, readd, shown, failed, losses, misled, guessed>>
        /\ busy' \in {[busy EXCEPT ![i] = Opening], [busy EXCEPT ![i] = Untraced]}
        /\ opens' = opens + 1 /\ opens < MaxOpens /\ UNCHANGED orphaned
        /\ Missing(away)
        /\ Quarantine(i) \/ UNCHANGED <<pending, gone, collisions>>
        /\ \E k \in Keys : stale' = stale \cup {r \in Unnamed : reads[r].file # f
                                                 /\ (reads[r].obj = o \/ reads[r].key = k)}
    BY DEF Open, judged
  <1>2. Ids' = Ids /\ Waiting \subseteq Ids
    BY <1>1, HeldIs DEF Ids, AccountInv
  <1>3. /\ Waiting' \cup gone' = Waiting \cup gone /\ Waiting' \cap gone' = {}
        /\ gone \subseteq gone' /\ Waiting' \subseteq Waiting
        /\ pending' \in [Irps -> {0} \cup Ids] /\ Cardinality(Held)' <= PendingMax
        /\ \A j, k \in Irps : pending'[j] = pending'[k] /\ pending'[j] # 0 => j = k
        /\ Counted'
    <2>1. CASE Quarantine(i)
      BY <1>1, <2>1, QuarantineIs DEF AccountInv
    <2>2. CASE UNCHANGED <<pending, gone, collisions>>
      <3>1. Waiting' = Waiting /\ Held' = Held
        BY <2>2 DEF Waiting, Held
      <3> QED BY <1>1, <2>2, <3>1 DEF AccountInv, FateType, InRoom, Apart, Counted
    <2> QED BY <1>1, <2>1, <2>2
  <1>4. ReadType'
    <2>1. opens' \in 0..MaxOpens
      BY <1>1, BoundsAssumption DEF AccountInv, ReadType
    <2>2. missed' \in 0..MaxMissed
      BY <1>1, BoundsAssumption DEF AccountInv, ReadType, Missing
    <2> QED BY <1>1, <1>2, <2>1, <2>2 DEF AccountInv, ReadType
  <1>5. FateType'
    <2>1. gone' \subseteq Ids
      BY <1>2, <1>3 DEF AccountInv, FateType
    <2>2. stale' \subseteq Ids
      BY <1>1, <1>2 DEF AccountInv, FateType, Unnamed
    <2> QED BY <1>1, <1>2, <1>3, <2>1, <2>2 DEF AccountInv, FateType
  <1>6. InRoom' /\ Course'
    BY <1>1, <1>3 DEF AccountInv, InRoom, Course
  <1>7. Apart' /\ Whole'
    BY <1>1, <1>2, <1>3 DEF AccountInv, Apart, Whole
  <1> QED BY <1>3, <1>4, <1>5, <1>6, <1>7 DEF AccountInv

\* A read starts.
LEMMA ReadIs ==
  ASSUME ReadType, NamingInv, NEW o \in Objects, NEW i \in Irps, Read(o, i)
  PROVE  LET r == Len(reads) + 1 k == key[file[o]]
         IN /\ file[o] \in Files /\ k \in Keys /\ r \in Nat /\ r # 0 /\ r \notin Ids
            /\ reads' \in Seq([file : Files, obj : Objects, key : Keys])
            /\ Len(reads') = r /\ r <= MaxReads /\ Ids' = Ids \cup {r}
            /\ reads'[r] = [file |-> file[o], obj |-> o, key |-> k]
            /\ \A x \in Ids : reads'[x] = reads[x]
            /\ path' \in [Ids' -> Named] /\ path'[r] = Lookup(names, o, k)
            /\ \A x \in Ids : path'[x] = path[x]
  <1> DEFINE S == [file : Files, obj : Objects, key : Keys]
             k == key[file[o]]
             r == Len(reads) + 1
             e == [file |-> file[o], obj |-> o, key |-> k]
             p == Lookup(names, o, k)
  <1>1. /\ file[o] # None /\ Len(reads) < MaxReads /\ reads' = Append(reads, e)
        /\ path' = Append(path, p)
    BY DEF Read
  <1>2. file[o] \in Files /\ k \in Keys
    BY <1>1 DEF NamingInv, NamingType, OneKey, Named
  <1>3. e \in S /\ p \in Named
    BY <1>2, LookupIs DEF NamingInv, Honest
  <1>4. Len(reads) \in Nat /\ Ids = 1..Len(reads) /\ reads \in Seq(S) /\ Len(path) = Len(reads)
        /\ path \in Seq(Named) /\ Len(reads) <= MaxReads
    <2>1. Len(reads) \in Nat /\ Ids = 1..Len(reads)
      BY IdsAre
    <2>2. path \in [1..Len(reads) -> Named]
      BY <2>1 DEF ReadType
    <2>3. path \in Seq(Named)
      BY <2>1, <2>2, SeqDef
    <2>4. Len(path) \in Nat /\ DOMAIN path = 1..Len(path)
      BY <2>3, LenProperties
    <2>5. Len(path) = Len(reads)
      BY <2>1, <2>2, <2>4
    <2> QED BY <2>1, <2>3, <2>5 DEF ReadType
  <1> HIDE DEF S, e, p, k
  <1>5. /\ reads' \in Seq(S) /\ Len(reads') = r /\ reads'[r] = e
        /\ \A x \in 1..Len(reads) : reads'[x] = reads[x]
    BY <1>1, <1>3, <1>4, AppendProperties
  <1>6. /\ path' \in Seq(Named) /\ Len(path') = r /\ path'[r] = p
        /\ \A x \in 1..Len(reads) : path'[x] = path[x]
    BY <1>1, <1>3, <1>4, AppendProperties
  <1>7. Ids' = 1..r /\ r \in Nat /\ r # 0 /\ r \notin Ids /\ r <= MaxReads
    <2>1. Ids' = 1..r
      BY <1>5 DEF Ids
    <2> QED BY <1>1, <1>4, <2>1, BoundsAssumption
  <1>8. path' \in [Ids' -> Named]
    BY <1>6, <1>7, LenProperties, ElementOfSeq
  <1>9. Ids' = Ids \cup {r}
    BY <1>4, <1>7
  <1> QED BY <1>2, <1>4, <1>5, <1>6, <1>7, <1>8, <1>9 DEF S, e, p, k

LEMMA AccountRead ==
  ASSUME AccountInv, NamingInv, NEW o \in Objects, NEW i \in Irps, Read(o, i)
  PROVE  AccountInv'
  <1> DEFINE r == Len(reads) + 1
  <1>1. /\ UNCHANGED <<phase, opens, missed, orphaned, deferred, detached, readd, shown, failed, misled, guessed>>
        /\ busy' = [busy EXCEPT ![i] = r] /\ Pend(i, r) /\ phase \in {"on", "stopping"}
        /\ stale' \in {stale, stale \cup {r}}
    BY DEF Read, Reading, lost, judged
  <1>2. /\ r \in Nat /\ r # 0 /\ r \notin Ids /\ Ids' = Ids \cup {r}
        /\ reads' \in Seq([file : Files, obj : Objects, key : Keys])
        /\ Len(reads') = r /\ r <= MaxReads /\ path' \in [Ids' -> Named]
    BY ReadIs DEF AccountInv
  <1> HIDE DEF r
  <1>3. /\ Waiting' \cup gone' = Waiting \cup gone \cup {r} /\ Waiting' \cap gone' = {}
        /\ gone \subseteq gone' /\ Waiting' \subseteq Waiting \cup {r}
        /\ pending' \in [Irps -> {0, r} \cup Ids] /\ Cardinality(Held)' <= PendingMax
        /\ \A j, k \in Irps : pending'[j] = pending'[k] /\ pending'[j] # 0 => j = k
        /\ Counted'
    BY <1>1, <1>2, PendIs DEF AccountInv
  <1>4. ReadType'
    BY <1>1, <1>2 DEF AccountInv, ReadType
  <1>5. Waiting \subseteq Ids
    BY HeldIs DEF AccountInv
  <1>6. FateType'
    BY <1>1, <1>2, <1>3, <1>5 DEF AccountInv, FateType
  <1>7. InRoom' /\ Course'
    BY <1>1, <1>3 DEF AccountInv, InRoom, Course
  <1>8. Apart' /\ Whole'
    BY <1>1, <1>2, <1>3, <1>5 DEF AccountInv, Apart, Whole, FateType
  <1> QED BY <1>3, <1>4, <1>6, <1>7, <1>8 DEF AccountInv

\* Parked again, if there is room.
LEMMA AccountRepark == ASSUME AccountInv, Repark PROVE AccountInv'
  <1>1. PICK r \in readd : Park(deferred, r) /\ readd' = readd \ {r}
    BY DEF Repark, judged
  <1>2. /\ UNCHANGED <<phase, reads, busy, opens, missed, orphaned, path, pending, detached>>
        /\ UNCHANGED <<shown, failed, misled, guessed, stale, collisions>>
        /\ phase \in {"on", "stopping"}
    BY DEF Repark, kernel, lost, judged
  <1>3. Ids' = Ids /\ Waiting' = Waiting /\ Held' = Held
    BY <1>2 DEF Ids, Waiting, Held
  <1>4. r \in Ids /\ r \notin deferred \cup gone
    BY DEF AccountInv, FateType, Apart
  <1>5. /\ deferred' \cup gone' = deferred \cup gone \cup {r}
        /\ \/ deferred' = deferred \cup {r} /\ gone' = gone
           \/ deferred' = deferred /\ gone' = gone \cup {r}
        /\ Cardinality(deferred') <= ParkedMax /\ Counted'
    BY <1>1, <1>2, <1>4, ParkIs DEF AccountInv
  <1>6. ReadType' /\ FateType' /\ InRoom' /\ Course'
    BY <1>1, <1>2, <1>3, <1>4, <1>5 DEF AccountInv, ReadType, FateType, InRoom, Course
  <1>7. Apart' /\ Whole'
    BY <1>1, <1>2, <1>3, <1>4, <1>5 DEF AccountInv, Apart, Whole
  <1> QED BY <1>5, <1>6, <1>7 DEF AccountInv

\* A detached read is published, kept for later, or given up.
LEMMA AccountTry ==
  ASSUME AccountInv, NamingInv, NEW r, NEW final \in BOOLEAN, final <=> phase = "final", Try(r, final)
  PROVE  AccountInv'
  <1>1. /\ r \in detached /\ detached' = detached \ {r}
        /\ path' = [path EXCEPT ![r] = Lookup(names, reads[r].obj, reads[r].key)]
        /\ UNCHANGED <<phase, reads, busy, opens, missed, orphaned, pending, deferred, failed, misled, guessed, stale, collisions>>
        /\ \/ shown' = shown \cup {r} /\ UNCHANGED <<readd, gone, losses>>
           \/ ~final /\ readd' = readd \cup {r} /\ UNCHANGED <<shown, gone, losses>>
           \/ UNCHANGED <<shown, readd>> /\ gone' = gone \cup {r} /\ losses' = losses + 1
    BY DEF Try, kernel, lost, judged
  <1>2. Ids' = Ids /\ Waiting' = Waiting /\ Held' = Held
    BY <1>1 DEF Ids, Waiting, Held
  <1>3. r \in Ids /\ reads[r].obj \in Objects /\ reads[r].key \in Keys
    BY <1>1, IdsAre DEF AccountInv, FateType
  <1>4. path' \in [Ids -> Named]
    BY <1>1, <1>3, LookupIs DEF AccountInv, ReadType, NamingInv, Honest
  <1>5. Counted'
    <2>1. r \notin gone
      BY <1>1 DEF AccountInv, Apart
    <2> QED BY <1>1, <2>1, GivenUp DEF AccountInv, Counted
  <1>6. ReadType' /\ FateType' /\ InRoom' /\ Course'
    BY <1>1, <1>2, <1>3, <1>4 DEF AccountInv, ReadType, FateType, InRoom, Course
  <1>7. Apart' /\ Whole'
    BY <1>1, <1>2, <1>3 DEF AccountInv, Apart, Whole
  <1> QED BY <1>5, <1>6, <1>7 DEF AccountInv

\* A read ends, and is judged.
LEMMA AccountEnds ==
  ASSUME AccountInv, NamingInv, NEW i \in Irps, NEW ok \in BOOLEAN, NEW away, OperationEnds(i, ok, away)
  PROVE  AccountInv'
  <1>1. /\ UNCHANGED <<phase, opens, reads, detached, readd, collisions, stale>>
        /\ busy' = [busy EXCEPT ![i] = Idle] /\ Missing(away) /\ Consuming
        /\ orphaned' \subseteq orphaned \cup ({busy[i]} \cap {pending[i]}) /\ busy[i] # Idle
    BY DEF OperationEnds
  <1>2. busy' \in [Irps -> {Opening, Untraced, Idle} \cup Ids] /\ missed' \in 0..MaxMissed /\ Ids' = Ids
    <2>1. missed' \in 0..MaxMissed
      BY <1>1, BoundsAssumption DEF AccountInv, ReadType, Missing
    <2> QED BY <1>1, <2>1 DEF AccountInv, ReadType, Ids
  <1>3. orphaned' \subseteq Ids'
    BY <1>1, <1>2 DEF AccountInv, FateType, Idle
  <1>5. CASE away = {} /\ pending[i] # 0
    <2> DEFINE r == pending[i]
    <2>1. /\ pending' = [pending EXCEPT ![i] = 0] /\ misled' \subseteq misled \cup {r}
          /\ guessed' \subseteq guessed \cup {r}
          /\ Completed(r, ok)
      BY <1>5 DEF OperationEnds
    <2>2. /\ r \in Waiting /\ Waiting' = Waiting \ {r}
          /\ pending' \in [Irps -> {0} \cup Ids] /\ Cardinality(Held)' <= PendingMax
          /\ \A j, k \in Irps : pending'[j] = pending'[k] /\ pending'[j] # 0 => j = k
      BY <1>5, <2>1, LetGo DEF AccountInv
    <2> HIDE DEF r
    <2>3. /\ r \in Ids /\ Waiting \subseteq Ids /\ reads[r].obj \in Objects /\ reads[r].key \in Keys
          /\ r \notin deferred \cup gone
      BY <2>2, HeldIs, IdsAre DEF AccountInv, Apart
    <2>4. \/ failed' = failed \cup {r} /\ UNCHANGED <<path, shown, deferred, gone, losses>>
          \/ /\ UNCHANGED failed
             /\ path' = [path EXCEPT ![r] = IF path[r] # None THEN path[r]
                                            ELSE Lookup(names, reads[r].obj, reads[r].key)]
             /\ \/ shown' = shown \cup {r} /\ UNCHANGED <<deferred, gone, losses>>
                \/ UNCHANGED shown /\ Park(deferred, r)
      BY <2>1 DEF Completed
    <2>5. path' \in [Ids -> Named]
      BY <2>3, <2>4, LookupIs DEF AccountInv, ReadType, NamingInv, Honest
    <2>6. ReadType' /\ Course'
      BY <1>1, <1>2, <2>4, <2>5 DEF AccountInv, ReadType, Course, Consuming
    <2>7. CASE UNCHANGED <<deferred, gone, losses>>
      <3>1. \/ failed' = failed \cup {r} /\ UNCHANGED shown
            \/ shown' = shown \cup {r} /\ UNCHANGED failed
            \/ deferred' = deferred \cup {r} \/ gone' = gone \cup {r}
        BY <2>4 DEF Park
      <3>2. \/ failed' = failed \cup {r} /\ UNCHANGED shown
            \/ shown' = shown \cup {r} /\ UNCHANGED failed
        BY <2>3, <2>7, <3>1
      <3>3. FateType' /\ InRoom' /\ Counted'
        BY <1>1, <1>2, <1>3, <2>1, <2>2, <2>3, <2>7, <3>2 DEF AccountInv, FateType, InRoom, Counted
      <3>4. Apart' /\ Whole'
        BY <1>1, <1>2, <2>2, <2>3, <2>7, <3>2 DEF AccountInv, Apart, Whole
      <3> QED BY <2>6, <3>3, <3>4 DEF AccountInv
    <2>8. CASE UNCHANGED <<failed, shown>> /\ Park(deferred, r)
      <3>1. /\ deferred' \cup gone' = deferred \cup gone \cup {r}
            /\ \/ deferred' = deferred \cup {r} /\ gone' = gone
               \/ deferred' = deferred /\ gone' = gone \cup {r}
            /\ Cardinality(deferred') <= ParkedMax /\ Counted'
        BY <1>1, <2>3, <2>8, ParkIs DEF AccountInv
      <3>2. FateType' /\ InRoom'
        BY <1>1, <1>2, <1>3, <2>1, <2>2, <2>3, <2>8, <3>1 DEF AccountInv, FateType, InRoom
      <3>3. Apart' /\ Whole'
        BY <1>1, <1>2, <2>2, <2>3, <2>8, <3>1 DEF AccountInv, Apart, Whole
      <3> QED BY <2>6, <3>1, <3>2, <3>3 DEF AccountInv
    <2> QED BY <2>4, <2>7, <2>8
  <1>4. CASE ~(away = {} /\ pending[i] # 0)
    <2>1. UNCHANGED <<pending, misled, guessed, path, shown, failed, deferred, gone, losses>>
      BY <1>4 DEF OperationEnds, judged
    <2>2. Waiting' = Waiting /\ Held' = Held
      BY <2>1 DEF Waiting, Held
    <2>3. ReadType'
      BY <1>1, <1>2, <2>1 DEF AccountInv, ReadType
    <2>4. FateType' /\ InRoom' /\ Apart' /\ Whole' /\ Counted' /\ Course'
      BY <1>1, <1>2, <1>3, <2>1, <2>2 DEF AccountInv, FateType, InRoom, Apart, Whole, Counted, Course
    <2> QED BY <2>3, <2>4 DEF AccountInv
  <1> QED BY <1>5, <1>4

LEMMA AccountInit == Init => AccountInv
  <1> SUFFICES ASSUME Init PROVE AccountInv
    OBVIOUS
  <1>1. Ids = {} /\ Waiting = {} /\ Held = {}
    BY DEF Init, Ids, Waiting, Held
  <1>2. ReadType
    <2>1. path \in [Ids -> Named]
      BY <1>1 DEF Init
    <2>2. reads \in Seq([file : Files, obj : Objects, key : Keys]) /\ Len(reads) = 0
      BY EmptySeq DEF Init
    <2> QED BY <2>1, <2>2, BoundsAssumption DEF Init, ReadType
  <1>3. InRoom /\ Counted
    BY <1>1, FS_EmptySet, CapsAre DEF Init, InRoom, Counted
  <1>4. FateType /\ Apart /\ Whole /\ Course
    BY <1>1 DEF Init, FateType, Apart, Whole, Course
  <1> QED BY <1>2, <1>3, <1>4 DEF AccountInv

(***************************************************************************)
(* Every step leaves the names of the reads true.                          *)
(***************************************************************************)

LEMMA TellInit == Init => TellInv
  BY DEF Init, TellInv, Told, Addressed, Fresh, Ids, Parking, Unnamed, Waiting

\* The addresses of a read, as entries of the maps.
LEMMA EntriesOf ==
  ASSUME AccountInv, NEW r \in Unnamed
  PROVE  /\ r \in Ids /\ reads[r].file \in Files
         /\ reads[r].obj \in Objects /\ reads[r].key \in Keys
         /\ reads[r].obj \in Addresses("obj") /\ reads[r].key \in Addresses("key")
         /\ reads[r].key \in Addresses("run")
  <1>1. r \in Ids
    BY HeldIs DEF Unnamed, AccountInv, FateType
  <1> QED BY <1>1, IdsAre, MapsAre DEF AccountInv

\* Names that say nothing new say nothing new of a read.
LEMMA KeptSays ==
  ASSUME AccountInv, NEW r \in Unnamed, NEW n, NEW q, Kept(n, q), Says(n, r)
  PROVE  Says(q, r)
  BY EntriesOf, MapsAre DEF Kept, Says

\* No address changes hands, and the names say nothing new.
LEMMA FreshStill ==
  ASSUME AccountInv, TellInv, UNCHANGED <<reads, stale>>, Unnamed' \subseteq Unnamed,
         Kept(names, names'), \A f \in Files : key'[f] \in {key[f], None}
  PROVE  Fresh'
  <1>1. ASSUME NEW r \in (Unnamed \ stale)'
        PROVE  Says(names', r) /\ \A f \in Files : key'[f] = reads[r].key => f = reads[r].file
    <2>1. r \in Unnamed \ stale
      BY <1>1
    <2>2. Says(names, r) /\ \A f \in Files : key[f] = reads[r].key => f = reads[r].file
      BY <2>1 DEF TellInv, Fresh
    <2>3. Says(names', r)
      BY <2>1, <2>2, KeptSays
    <2>4. reads[r].key # None
      BY <2>1, EntriesOf, NamedIs
    <2> QED BY <2>2, <2>3, <2>4
  <1> QED BY <1>1 DEF Fresh, Says

\* No name is given either.
LEMMA TellStill ==
  ASSUME AccountInv, TellInv, UNCHANGED <<reads, path, stale, shown>>, Parking' \subseteq Parking,
         Waiting' \subseteq Waiting, Kept(names, names'), \A f \in Files : key'[f] \in {key[f], None}
  PROVE  TellInv'
  <1>1. Unnamed' \subseteq Unnamed
    BY DEF Unnamed, Parking
  <1>2. Fresh'
    BY <1>1, FreshStill
  <1> QED BY <1>2 DEF TellInv, Told, Addressed, Ids

LEMMA KeptItself == ASSUME NEW n, Typed(n) PROVE Kept(n, n)
  BY DEF Kept

LEMMA ForgottenKept ==
  ASSUME NEW n, Typed(n), NEW m \in Maps, NEW x \in Addresses(m)
  PROVE  Kept(n, Forgotten(n, m, x))
  <1> DEFINE q == Forgotten(n, m, x)
  <1>1. /\ Typed(q) /\ Now(q, m, x) = None
        /\ \A m2 \in Maps : \A x2 \in Addresses(m2) :
             <<m2, x2>> # <<m, x>> => Now(q, m2, x2) = Now(n, m2, x2)
    BY ForgottenNow
  <1> HIDE DEF q
  <1>2. ASSUME NEW m2 \in Maps, NEW x2 \in Addresses(m2)
        PROVE  Now(q, m2, x2) \in {None, Now(n, m2, x2)}
    <2>1. CASE <<m2, x2>> = <<m, x>>
      <3>1. m2 = m /\ x2 = x
        BY <2>1
      <3> QED BY <1>1, <3>1
    <2> QED BY <1>1, <2>1
  <1>3. Kept(n, q)
    BY <1>1, <1>2 DEF Kept
  <1> QED BY <1>3 DEF q

LEMMA KeptTwice ==
  ASSUME NEW n, NEW m, NEW q, Kept(n, m), Kept(m, q)
  PROVE  Kept(n, q)
  <1>1. ASSUME NEW x \in Maps, NEW y \in Addresses(x)
        PROVE  Now(q, x, y) \in {None, Now(n, x, y)}
    BY DEF Kept
  <1> QED BY <1>1 DEF Kept

\* An object or a key is taken back.
LEMMA TellTaken ==
  ASSUME AccountInv, TellInv, NamingInv,
         \/ \E o \in Objects, away \in SUBSET {"obj"} : Close(o, away)
         \/ \E f \in Files, away \in SUBSET {"key", "run"} : GiveUp(f, away)
  PROVE  TellInv'
  <1>1. Typed(names)
    BY DEF NamingInv, Honest
  <1>2. CASE \E o \in Objects, away \in SUBSET {"obj"} : Close(o, away)
    <2>1. PICK o \in Objects, away \in SUBSET {"obj"} : Close(o, away)
      BY <1>2
    <2>2. /\ UNCHANGED <<key, reads, path, waiting, stale, shown>>
          /\ names' \in {names, Forgotten(names, "obj", o)}
      BY <2>1 DEF Close, fates
    <2>3. Kept(names, names')
      BY <1>1, <2>2, KeptItself, ForgottenKept, MapsAre
    <2>4. Parking' = Parking /\ Waiting' = Waiting
      BY <2>2 DEF Parking, waiting, Waiting
    <2> QED BY <2>2, <2>3, <2>4, TellStill
  <1>3. CASE \E f \in Files, away \in SUBSET {"key", "run"} : GiveUp(f, away)
    <2>1. PICK f \in Files, away \in SUBSET {"key", "run"} : GiveUp(f, away)
      BY <1>3
    <2> DEFINE k == key[f]
               n == Forgotten(names, "key", k)
    <2>2. /\ UNCHANGED <<reads, path, waiting, stale, shown>>
          /\ key' = [key EXCEPT ![f] = None] /\ k # None
          /\ names' \in {names, n, Forgotten(names, "run", k), Forgotten(n, "run", k)}
      BY <2>1 DEF GiveUp, fates
    <2>3. k \in Keys /\ \A g \in Files : key'[g] \in {key[g], None}
      BY <2>2 DEF NamingInv, NamingType
    <2> HIDE DEF k
    <2>4. Kept(names, n) /\ Kept(names, Forgotten(names, "run", k)) /\ Kept(names, names)
      BY <1>1, <2>3, KeptItself, ForgottenKept, MapsAre
    <2> HIDE DEF n
    <2>5. Kept(n, Forgotten(n, "run", k))
      BY <2>3, <2>4, ForgottenKept, MapsAre DEF Kept
    <2>6. Kept(names, Forgotten(n, "run", k))
      BY <2>4, <2>5, KeptTwice
    <2>7. Kept(names, names')
      BY <2>2, <2>4, <2>6
    <2>8. Parking' = Parking /\ Waiting' = Waiting
      BY <2>2 DEF Parking, waiting, Waiting
    <2> QED BY <2>2, <2>3, <2>7, <2>8, TellStill
  <1> QED BY <1>2, <1>3

\* What is learned of a file says nothing untrue of a read of it, and nothing new of others.
LEMMA LearnedSays ==
  ASSUME AccountInv, NEW r \in Unnamed, NEW n, Typed(n), Says(n, r), NEW m \in Maps,
         NEW x \in Addresses(m), NEW f \in Files,
         (IF m = "obj" THEN reads[r].obj ELSE reads[r].key) = x => f = reads[r].file
  PROVE  Says(Learned(n, m, x, f), r)
  <1> DEFINE q == Learned(n, m, x, f)
  <1>1. /\ Now(q, m, x) = f
        /\ \A m2 \in Maps : \A x2 \in Addresses(m2) :
             <<m2, x2>> # <<m, x>> => Now(q, m2, x2) \in {None, Now(n, m2, x2)}
    BY LearnedNow
  <1> HIDE DEF q
  <1>2. Now(q, "obj", reads[r].obj) \in {None, reads[r].file}
    BY <1>1, EntriesOf, MapsAre DEF Says
  <1>3. Now(q, "key", reads[r].key) \in {None, reads[r].file}
    BY <1>1, EntriesOf, MapsAre DEF Says
  <1>4. Now(q, "run", reads[r].key) \in {None, reads[r].file}
    BY <1>1, EntriesOf, MapsAre DEF Says
  <1> QED BY <1>2, <1>3, <1>4 DEF Says, q

\* A file's key is told: it is the key of no read of another file that is not stale.
LEMMA TellRundown == ASSUME AccountInv, TellInv, NamingInv, NEW f \in Files, Rundown(f) PROVE TellInv'
  <1> DEFINE k == key[f]
  <1>1. /\ UNCHANGED <<reads, path, key, waiting, stale, shown>> /\ k \in Keys
        /\ names' = Learned(names, "run", k, f) /\ Typed(names)
    BY DEF Rundown, fates, NamingInv, NamingType, Honest
  <1>2. Unnamed' = Unnamed /\ Parking' = Parking
    BY <1>1 DEF Unnamed, Parking, waiting, Waiting
  <1>3. ASSUME NEW r \in Unnamed \ stale
        PROVE  Says(names', r) /\ \A g \in Files : key[g] = reads[r].key => g = reads[r].file
    <2>1. Says(names, r) /\ \A g \in Files : key[g] = reads[r].key => g = reads[r].file
      BY DEF TellInv, Fresh
    <2>2. reads[r].key = k => f = reads[r].file
      BY <2>1
    <2> HIDE DEF k
    <2>3. Says(Learned(names, "run", k, f), r)
      BY <1>1, <2>1, <2>2, LearnedSays, MapsAre
    <2> QED BY <1>1, <2>1, <2>3
  <1>4. Fresh'
    BY <1>1, <1>2, <1>3 DEF Fresh, Says
  <1> QED BY <1>1, <1>2, <1>4 DEF TellInv, Told, Addressed, Ids

\* An object or a key is given to a file: a read of another that has no name yet is stale.
LEMMA TellOpen ==
  ASSUME AccountInv, TellInv, NamingInv, NEW o \in Objects, NEW f \in Files, NEW i \in Irps,
         NEW away, Open(o, f, i, away)
  PROVE  TellInv'
  <1> DEFINE told == Telling(f, away)
             n(k) == IF "key" \in told THEN Learned(names, "key", k, f) ELSE names
  <1>1. PICK k \in Keys :
          /\ key' = [key EXCEPT ![f] = k]
          /\ stale' = stale \cup {r \in Unnamed : reads[r].file # f
                                                 /\ (reads[r].obj = o \/ reads[r].key = k)}
          /\ names' = IF "obj" \in told THEN Learned(n(k), "obj", o, f) ELSE n(k)
    BY DEF Open
  <1> HIDE DEF told
  <1>2. /\ UNCHANGED <<reads, path, deferred, detached, readd, shown, losses>>
        /\ Quarantine(i) \/ UNCHANGED pending
    BY DEF Open
  <1>3. Waiting' \subseteq Waiting
    <2>1. CASE Quarantine(i)
      BY <1>2, <2>1, QuarantineIs DEF AccountInv
    <2>2. CASE UNCHANGED pending
      BY <2>2 DEF Waiting
    <2> QED BY <1>2, <2>1, <2>2
  <1>4. Unnamed' \subseteq Unnamed /\ Parking' = Parking
    BY <1>2, <1>3 DEF Unnamed, Parking
  <1>5. \A g \in Files : key'[g] = IF g = f THEN k ELSE key[g]
    BY <1>1 DEF NamingInv, NamingType
  <1>6. ASSUME NEW r \in (Unnamed \ stale)'
        PROVE  Says(names', r) /\ \A g \in Files : key'[g] = reads[r].key => g = reads[r].file
    <2>1. /\ r \in Unnamed /\ r \notin stale
          /\ (reads[r].obj = o \/ reads[r].key = k) => reads[r].file = f
      BY <1>1, <1>4, <1>6
    <2>2. Says(names, r) /\ \A g \in Files : key[g] = reads[r].key => g = reads[r].file
      BY <2>1 DEF TellInv, Fresh
    <2>3. Typed(names) /\ Typed(Learned(names, "key", k, f))
      BY LearnedNow, MapsAre DEF NamingInv, Honest
    <2>4. Says(Learned(names, "key", k, f), r)
      BY <2>1, <2>2, <2>3, LearnedSays, MapsAre
    <2>5. Says(n(k), r) /\ Typed(n(k))
      BY <2>2, <2>3, <2>4
    <2> HIDE DEF n
    <2>6. Says(Learned(n(k), "obj", o, f), r)
      BY <2>1, <2>5, LearnedSays, MapsAre
    <2> QED BY <1>1, <1>5, <2>1, <2>2, <2>5, <2>6
  <1>7. Fresh'
    BY <1>2, <1>6 DEF Fresh, Says
  <1>8. stale \subseteq stale'
    BY <1>1
  <1> QED BY <1>2, <1>4, <1>7, <1>8 DEF TellInv, Told, Addressed, Ids

\* A read starts with the name of its file, or with none, or is stale.
LEMMA TellRead ==
  ASSUME AccountInv, TellInv, NamingInv, NEW o \in Objects, NEW i \in Irps, Read(o, i)
  PROVE  TellInv'
  <1> DEFINE r == Len(reads) + 1
             k == key[file[o]]
             p == Lookup(names, o, k)
             hit == Hit(names, o, k)
  <1>1. /\ UNCHANGED <<file, key, deferred, detached, readd, shown>>
        /\ Pend(i, r) /\ names' = Promoted(names, o, k)
        /\ stale' = IF Hits(names, o, k) # {} /\ <<hit[2], hit[3]>> \in lingering
                    THEN stale \cup {r} ELSE stale
    BY DEF Read
  <1>2. /\ file[o] \in Files /\ k \in Keys /\ r # 0 /\ r \notin Ids /\ Ids' = Ids \cup {r}
        /\ reads'[r].file = file[o] /\ reads'[r].obj = o /\ reads'[r].key = k
        /\ \A x \in Ids : reads'[x] = reads[x] /\ path'[x] = path[x]
        /\ path'[r] = p
    <2>1. /\ file[o] \in Files /\ k \in Keys /\ r # 0 /\ r \notin Ids /\ Ids' = Ids \cup {r}
          /\ reads'[r] = [file |-> file[o], obj |-> o, key |-> k]
          /\ (\A x \in Ids : reads'[x] = reads[x]) /\ (\A x \in Ids : path'[x] = path[x])
          /\ path'[r] = Lookup(names, o, k)
      BY ReadIs DEF AccountInv
    <2> HIDE DEF r, k
    <2> QED BY <2>1
  <1>3. Waiting' \subseteq Waiting \cup {r} /\ Waiting \subseteq Ids
    BY <1>1, <1>2, PendIs, HeldIs DEF AccountInv
  <1>4. \A g \in Files : key[g] = k => g = file[o]
    BY <1>2, NamedIs DEF NamingInv, OneKey
  <1> HIDE DEF r, k
  <1>5. /\ p \in Named /\ Kept(names, Promoted(names, o, k))
        /\ Hits(names, o, k) = {} =>
             p = None /\ Now(names, "obj", o) = None /\ Now(names, "key", k) = None /\ Now(names, "run", k) = None
        /\ Hits(names, o, k) # {} =>
             /\ p # None
             /\ \/ hit[2] = "obj" /\ hit[3] = o /\ p = Now(names, "obj", o)
                \/ hit[2] = "key" /\ hit[3] = k /\ p = Now(names, "key", k)
                \/ hit[2] = "run" /\ hit[3] = k /\ p = Now(names, "run", k)
    BY <1>2, LookupIs DEF NamingInv, Honest
  <1> HIDE DEF p, hit
  <1>6. p \in {None, file[o]} \/ r \in stale'
    <2>1. CASE Hits(names, o, k) = {}
      BY <1>5, <2>1
    <2>2. CASE Hits(names, o, k) # {} /\ <<hit[2], hit[3]>> \in lingering
      BY <1>1, <2>2
    <2>3. CASE Hits(names, o, k) # {} /\ <<hit[2], hit[3]>> \notin lingering
      <3>1. /\ <<"obj", o>> \notin lingering /\ Now(names, "obj", o) # None => Now(names, "obj", o) = file[o]
            /\ <<"key", k>> \notin lingering /\ Now(names, "key", k) # None => key[Now(names, "key", k)] = k
            /\ <<"run", k>> \notin lingering /\ Now(names, "run", k) # None => key[Now(names, "run", k)] = k
        BY <1>2, MapsAre DEF NamingInv, Honest, Means
      <3>2. p = file[o] \/ key[p] = k
        BY <1>5, <2>3, <3>1
      <3>3. p \in Files
        BY <1>5, <2>3 DEF Named
      <3> QED BY <1>4, <3>2, <3>3
    <2> QED BY <2>1, <2>2, <2>3
  <1>7. Parking' = Parking /\ Parking \subseteq Ids /\ shown \subseteq Ids
    BY <1>1 DEF Parking, AccountInv, FateType
  <1>8. Unnamed' \subseteq Unnamed \cup {r} /\ Unnamed \subseteq Ids
    BY <1>2, <1>3, <1>7 DEF Unnamed, Parking
  <1>9. Told' /\ Addressed' /\ stale \subseteq stale'
    BY <1>1, <1>2, <1>6, <1>7 DEF TellInv, Told, Addressed
  <1>10. Fresh'
    <2>1. ASSUME NEW x \in (Unnamed \ stale)', x # r
          PROVE  Says(names, x)' /\ \A f \in Files : key'[f] = reads'[x].key => f = reads'[x].file
      <3>1. x \in Unnamed \ stale /\ x \in Ids /\ reads'[x] = reads[x]
        BY <1>2, <1>8, <1>9, <2>1
      <3>2. Says(names, x) /\ \A f \in Files : key[f] = reads[x].key => f = reads[x].file
        BY <3>1 DEF TellInv, Fresh
      <3>3. Says(names', x)
        BY <1>1, <1>5, <3>1, <3>2, KeptSays
      <3>4. Says(names, x)'
        BY <3>1, <3>3 DEF Says
      <3> QED BY <1>1, <3>1, <3>2, <3>4
    <2>2. ASSUME NEW x \in Unnamed', x = r
          PROVE  Says(names, x)' /\ \A f \in Files : key'[f] = reads'[x].key => f = reads'[x].file
      <3>1. p = None
        BY <1>2, <2>2 DEF Unnamed
      <3>2. Now(names, "obj", o) = None /\ Now(names, "key", k) = None /\ Now(names, "run", k) = None
        BY <1>5, <3>1
      <3>3. Now(names', "obj", o) = None /\ Now(names', "key", k) = None /\ Now(names', "run", k) = None
        BY <1>1, <1>2, <1>5, <3>2, MapsAre DEF Kept
      <3>4. Says(names, x)'
        BY <1>2, <2>2, <3>3 DEF Says
      <3> QED BY <1>1, <1>2, <1>4, <2>2, <3>4
    <2>3. \A x \in (Unnamed \ stale)' :
            Says(names, x)' /\ \A f \in Files : key'[f] = reads'[x].key => f = reads'[x].file
      BY <2>1, <2>2
    <2> QED BY <2>3 DEF Fresh
  <1> QED BY <1>9, <1>10 DEF TellInv

\* What is found for a read that has no name, if its addresses are still its file's.
LEMMA FoundIs ==
  ASSUME AccountInv, TellInv, NamingInv, NEW r \in Unnamed
  PROVE  /\ r \in Ids
         /\ Lookup(names, reads[r].obj, reads[r].key) \in {None, reads[r].file} \/ r \in stale
  <1> DEFINE p == Lookup(names, reads[r].obj, reads[r].key)
  <1>1. \/ p = None \/ p = Now(names, "obj", reads[r].obj)
        \/ p = Now(names, "key", reads[r].key) \/ p = Now(names, "run", reads[r].key)
    BY EntriesOf, LookupIs DEF NamingInv, Honest
  <1> HIDE DEF p
  <1>2. r \notin stale => Says(names, r)
    BY DEF TellInv, Fresh
  <1>3. p \in {None, reads[r].file} \/ r \in stale
    BY <1>1, <1>2 DEF Says
  <1> QED BY <1>3, EntriesOf DEF p

\* A read is named, at the end of the operation or in a sweep.
LEMMA TellNamed ==
  ASSUME AccountInv, TellInv, NamingInv, NEW r \in Waiting \cup Parking, NEW p,
         UNCHANGED <<reads, key, stale>>,
         path' = [path EXCEPT ![r] = p],
         path[r] # None => p = path[r],
         path[r] = None => p = Lookup(names, reads[r].obj, reads[r].key),
         Waiting' \subseteq Waiting, Parking' \subseteq Parking \cup {r},
         r \in Parking' => p = None,
         shown' \subseteq shown \cup {r}, r \in shown' => p # None, Kept(names, names')
  PROVE  TellInv'
  <1>1. r \in Ids /\ Ids' = Ids /\ Waiting \cup Parking \subseteq Ids /\ shown \subseteq Ids
        /\ DOMAIN path = Ids
    BY HeldIs DEF Parking, Ids, AccountInv, FateType, ReadType
  <1>2. \A x \in Ids : path'[x] = IF x = r THEN p ELSE path[x]
    BY <1>1
  <1>3. p \in {None, reads[r].file} \/ r \in stale
    <2>1. CASE path[r] = None
      <3>1. r \in Unnamed
        BY <2>1 DEF Unnamed, Parking
      <3> QED BY <2>1, <3>1, FoundIs
    <2>2. CASE path[r] # None
      BY <1>1, <2>2 DEF TellInv, Told
    <2> QED BY <2>1, <2>2
  <1>4. Told' /\ Addressed'
    BY <1>1, <1>2, <1>3 DEF TellInv, Told, Addressed
  <1>5. Unnamed' \subseteq Unnamed
    <2>1. \A x \in Unnamed' : x \in Waiting \cup Parking /\ path'[x] = None
      BY DEF Unnamed, Parking
    <2>2. \A x \in Unnamed' : path[x] = None
      BY <1>1, <1>2, <2>1
    <2> QED BY <2>1, <2>2 DEF Unnamed, Parking
  <1>6. Fresh'
    BY <1>5, FreshStill
  <1> QED BY <1>4, <1>6 DEF TellInv

\* Promoting for a read leaves what the names say.
LEMMA PromotedKept ==
  ASSUME AccountInv, NamingInv, NEW r \in Ids
  PROVE  Kept(names, names) /\ Kept(names, Promoted(names, reads[r].obj, reads[r].key))
  <1>1. reads[r].obj \in Objects /\ reads[r].key \in Keys
    BY IdsAre DEF AccountInv
  <1> QED BY <1>1, LookupIs, KeptItself DEF NamingInv, Honest

LEMMA TellTry ==
  ASSUME AccountInv, TellInv, NamingInv, NEW r, NEW final \in BOOLEAN, Try(r, final)
  PROVE  TellInv'
  <1> DEFINE p == Lookup(names, reads[r].obj, reads[r].key)
  <1>1. /\ r \in detached /\ detached' = detached \ {r} /\ path' = [path EXCEPT ![r] = p]
        /\ UNCHANGED <<reads, key, pending, deferred, stale>>
        /\ names' = Promoted(names, reads[r].obj, reads[r].key)
        /\ \/ p # None /\ shown' = shown \cup {r} /\ UNCHANGED readd
           \/ p = None /\ shown' = shown /\ readd' \subseteq readd \cup {r}
    BY DEF Try, kernel
  <1>2. path[r] = None /\ r \in Parking /\ r \notin shown /\ r \notin deferred \cup readd
    BY <1>1 DEF TellInv, Addressed, Parking, AccountInv, Apart
  <1> HIDE DEF p
  <1>3. Waiting' = Waiting /\ Parking' \subseteq Parking
    BY <1>1 DEF Waiting, Parking
  <1>4. (r \in Parking' => p = None) /\ (r \in shown' => p # None) /\ shown' \subseteq shown \cup {r}
    BY <1>1, <1>2 DEF Parking
  <1>5. p = Lookup(names, reads[r].obj, reads[r].key)
    BY DEF p
  <1>6. r \in Ids
    BY <1>1 DEF AccountInv, FateType
  <1>7. Kept(names, names')
    BY <1>1, <1>6, PromotedKept
  <1> QED BY <1>1, <1>2, <1>3, <1>4, <1>5, <1>7, TellNamed

LEMMA TellEnds ==
  ASSUME AccountInv, TellInv, NamingInv, NEW i \in Irps, NEW ok \in BOOLEAN, NEW away,
         OperationEnds(i, ok, away)
  PROVE  TellInv'
  <1>1. UNCHANGED <<key, reads, detached, readd, stale>>
    BY DEF OperationEnds
  <1>2. CASE away = {} /\ pending[i] # 0
    <2> DEFINE r == pending[i]
               p == IF path[r] # None THEN path[r] ELSE Lookup(names, reads[r].obj, reads[r].key)
    <2>1. /\ pending' = [pending EXCEPT ![i] = 0] /\ Completed(r, ok)
      BY <1>2 DEF OperationEnds
    <2>2. r \in Waiting /\ Waiting' = Waiting \ {r}
      BY <1>2, <2>1, LetGo DEF AccountInv
    <2>3. /\ names' \in {names, Promoted(names, reads[r].obj, reads[r].key)}
          /\ \/ UNCHANGED <<path, shown, deferred>>
             \/ /\ path' = [path EXCEPT ![r] = p]
                /\ \/ p # None /\ shown' = shown \cup {r} /\ UNCHANGED deferred
                   \/ p = None /\ shown' = shown /\ deferred' \subseteq deferred \cup {r}
      BY <2>1 DEF Completed, Park
    <2>4. (path[r] # None => p = path[r]) /\ (path[r] = None => p = Lookup(names, reads[r].obj, reads[r].key))
      OBVIOUS
    <2> HIDE DEF r, p
    <2>5. Kept(names, names')
      <3>1. r \in Ids
        BY <2>2, HeldIs DEF AccountInv
      <3> QED BY <2>3, <3>1, PromotedKept
    <2>6. CASE UNCHANGED <<path, shown, deferred>>
      <3>1. Parking' = Parking
        BY <1>1, <2>6 DEF Parking
      <3> QED BY <1>1, <2>2, <2>5, <2>6, <3>1, TellStill
    <2>7. CASE /\ path' = [path EXCEPT ![r] = p]
               /\ \/ p # None /\ shown' = shown \cup {r} /\ UNCHANGED deferred
                  \/ p = None /\ shown' = shown /\ deferred' \subseteq deferred \cup {r}
      <3>1. r \notin shown /\ r \notin Parking
        BY <2>2 DEF AccountInv, Apart, Parking
      <3>2. /\ Parking' \subseteq Parking \cup {r} /\ (r \in Parking' => p = None)
            /\ shown' \subseteq shown \cup {r} /\ (r \in shown' => p # None)
        BY <1>1, <2>7, <3>1 DEF Parking
      <3>3. r \in Waiting \cup Parking /\ Waiting' \subseteq Waiting
        BY <2>2
      <3> QED BY <1>1, <2>4, <2>5, <2>7, <3>2, <3>3, TellNamed
    <2> QED BY <2>3, <2>6, <2>7
  <1>3. CASE ~(away = {} /\ pending[i] # 0)
    <2>1. UNCHANGED <<pending, names, path, shown, deferred>>
      BY <1>3 DEF OperationEnds
    <2>2. Parking' = Parking /\ Waiting' = Waiting
      BY <1>1, <2>1 DEF Parking, Waiting
    <2>3. Kept(names, names')
      BY <2>1, KeptItself DEF NamingInv, Honest
    <2> QED BY <1>1, <2>1, <2>2, <2>3, TellStill
  <1> QED BY <1>2, <1>3

\* Names of the snapshot are merged before there are reads.
LEMMA TellMerge == ASSUME AccountInv, TellInv, NEW k \in Keys, MergeName(k) PROVE TellInv'
  <1>1. UNCHANGED <<reads, path, waiting, stale, shown>> /\ phase = "merging"
    BY DEF MergeName, fates
  <1>2. Ids = {}
    BY <1>1 DEF AccountInv, Course, Ids
  <1>3. Waiting' = {} /\ Parking' = {}
    BY <1>1, <1>2, HeldIs DEF AccountInv, FateType, waiting, Waiting, Parking
  <1>4. Unnamed' = {} /\ Ids' = {} /\ shown' = {}
    BY <1>1, <1>2, <1>3 DEF Unnamed, Parking, Ids, AccountInv, FateType
  <1> QED BY <1>3, <1>4 DEF TellInv, Told, Addressed, Fresh

\* What leaves the reads, their names and the addresses alone.
LEMMA TellRest ==
  ASSUME AccountInv, TellInv, NamingInv,
         \/ Start \/ TakeSnapshot \/ MergeBegins \/ EnableReads \/ Stop \/ Stopped
         \/ Sweep \/ FinalSweep \/ Repark \/ RotateNames
         \/ (\E i \in Irps : Write(i) \/ Expire(i))
  PROVE  TellInv'
  <1>1. UNCHANGED <<reads, path, key, stale, shown>> /\ names' \in {names, Rotated(names)}
    BY DEF Start, TakeSnapshot, MergeBegins, EnableReads, Stop, Stopped, Sweep, FinalSweep, Repark,
           RotateNames, Write, Expire, kernel, naming, fates
  <1>2. Kept(names, names')
    BY <1>1, KeptItself, RotatedKept DEF NamingInv, Honest
  <1>3. CASE \E i \in Irps : Expire(i)
    <2>1. PICK i \in Irps : pending[i] # 0 /\ pending' = [pending EXCEPT ![i] = 0]
      BY <1>3 DEF Expire
    <2>2. Waiting' \subseteq Waiting
      BY <2>1, LetGo DEF AccountInv
    <2>3. Parking' = Parking
      BY <1>3 DEF Expire, Parking
    <2> QED BY <1>1, <1>2, <2>2, <2>3, TellStill
  <1>4. CASE Repark
    <2>1. Waiting' = Waiting /\ Parking' \subseteq Parking
      BY <1>4 DEF Repark, Park, Waiting, Parking
    <2> QED BY <1>1, <1>2, <2>1, TellStill
  <1>5. CASE Sweep \/ FinalSweep
    <2>1. Waiting' = Waiting /\ Parking' \subseteq Parking
      BY <1>5 DEF Sweep, FinalSweep, Waiting, Parking
    <2> QED BY <1>1, <1>2, <2>1, TellStill
  <1>6. CASE UNCHANGED waiting
    <2>1. Waiting' = Waiting /\ Parking' = Parking
      BY <1>6 DEF waiting, Waiting, Parking
    <2> QED BY <1>1, <1>2, <2>1, TellStill
  <1> QED BY <1>3, <1>4, <1>5, <1>6
        DEF Start, TakeSnapshot, MergeBegins, EnableReads, Stop, Stopped, RotateNames, Write

(***************************************************************************)
(* Whose end a read waits for.                                             *)
(***************************************************************************)

LEMMA HeardInit == Init => Heard
  BY DEF Init, Heard

LEMMA HeardStill ==
  ASSUME Heard, UNCHANGED <<busy, orphaned, misled, guessed>>,
         \A i \in Irps : pending'[i] \in {0, pending[i]}
  PROVE  Heard'
  BY DEF Heard

LEMMA HeardOpen ==
  ASSUME AccountInv, Heard, NEW o \in Objects, NEW f \in Files, NEW i \in Irps,
         NEW away, Open(o, f, i, away)
  PROVE  Heard'
  <1>1. /\ busy[i] = Idle /\ UNCHANGED <<orphaned, misled, guessed>>
        /\ \/ busy' = [busy EXCEPT ![i] = Untraced] /\ UNCHANGED pending
           \/ busy' = [busy EXCEPT ![i] = Untraced] /\ Quarantine(i)
           \/ busy' = [busy EXCEPT ![i] = Opening] /\ Quarantine(i)
    BY DEF Open, Telling, judged
  <1>2. \A j \in Irps \ {i} : busy'[j] = busy[j] /\ pending'[j] = pending[j]
    BY <1>1 DEF Quarantine, AccountInv, FateType, ReadType
  <1>3. pending'[i] = 0 \/ (pending'[i] = pending[i] /\ busy'[i] = Untraced)
    BY <1>1 DEF Quarantine, AccountInv, FateType, ReadType
  <1>4. pending[i] # 0 => pending[i] \in orphaned
    BY <1>1 DEF Heard, Idle
  <1> QED BY <1>1, <1>2, <1>3, <1>4 DEF Heard

LEMMA HeardRead ==
  ASSUME AccountInv, Heard, NEW o \in Objects, NEW i \in Irps, Read(o, i)
  PROVE  Heard'
  <1> DEFINE r == Len(reads) + 1
  <1>1. /\ busy[i] = Idle /\ busy' = [busy EXCEPT ![i] = r]
        /\ UNCHANGED <<orphaned, misled, guessed>> /\ Pend(i, r)
    BY DEF Read, lost, judged
  <1>2. r # 0 /\ r \notin Ids
    BY IdsAre DEF AccountInv
  <1> HIDE DEF r
  <1>3. \A j \in Irps : pending'[j] \in {0, pending[j]} \/ (j = i /\ pending'[j] = r)
    BY <1>1, <1>2, PendIs DEF AccountInv
  <1>4. \A j \in Irps : busy'[j] = IF j = i THEN r ELSE busy[j]
    BY <1>1 DEF AccountInv, ReadType
  <1>5. pending'[i] \in {0, r}
    BY <1>1, <1>2 DEF Pend, AccountInv, FateType
  <1> QED BY <1>1, <1>3, <1>4, <1>5 DEF Heard

LEMMA HeardWrite == ASSUME AccountInv, Heard, NEW i \in Irps, Write(i) PROVE Heard'
  <1>1. /\ busy[i] = Idle /\ UNCHANGED <<orphaned, misled, guessed, pending>>
        /\ \A j \in Irps : busy'[j] = IF j = i THEN Untraced ELSE busy[j]
    BY DEF Write, lost, waiting, fates, judged, AccountInv, ReadType
  <1> QED BY <1>1 DEF Heard, Idle

LEMMA HeardEnds ==
  ASSUME AccountInv, Heard, NEW i \in Irps, NEW ok \in BOOLEAN, NEW away, OperationEnds(i, ok, away)
  PROVE  Heard'
  <1>1. /\ busy[i] # Idle /\ orphaned \subseteq orphaned'
        /\ away # {} => orphaned' = orphaned \cup ({busy[i]} \cap {pending[i]})
        /\ \A j \in Irps : busy'[j] = IF j = i THEN Idle ELSE busy[j]
    BY DEF OperationEnds, AccountInv, ReadType
  <1>2. CASE away = {} /\ pending[i] # 0
    <2>1. /\ pending' = [pending EXCEPT ![i] = 0]
          /\ misled' = IF busy[i] \in {pending[i], Untraced} THEN misled ELSE misled \cup {pending[i]}
          /\ guessed' = IF busy[i] = Untraced THEN guessed \cup {pending[i]} ELSE guessed
      BY <1>2 DEF OperationEnds
    <2>2. \A j \in Irps : pending'[j] = IF j = i THEN 0 ELSE pending[j]
      BY <2>1 DEF AccountInv, FateType
    <2>3. pending[i] \in Ids /\ Untraced \notin Ids
      BY <1>2, IdsAre DEF AccountInv, FateType, Untraced
    <2>4. busy[i] \in {pending[i], Untraced} /\ (busy[i] = Untraced => pending[i] \in orphaned)
      BY <1>1, <1>2, <2>3 DEF Heard
    <2>5. misled' = {} /\ guessed' \subseteq orphaned'
      BY <1>1, <2>1, <2>4 DEF Heard
    <2> QED BY <1>1, <2>2, <2>5 DEF Heard
  <1>3. CASE ~(away = {} /\ pending[i] # 0)
    <2>1. UNCHANGED <<pending, misled, guessed>>
      BY <1>3 DEF OperationEnds, judged
    <2>2. pending[i] # 0 => pending[i] \in orphaned'
      BY <1>1, <1>3 DEF Heard
    <2> QED BY <1>1, <2>1, <2>2 DEF Heard
  <1> QED BY <1>2, <1>3

\* What gives no IRP and hears no end.
LEMMA HeardRest ==
  ASSUME AccountInv, Heard,
         \/ Start \/ TakeSnapshot \/ MergeBegins \/ EnableReads \/ Stop \/ Stopped
         \/ Sweep \/ FinalSweep \/ Repark \/ RotateNames
         \/ (\E i \in Irps : Expire(i)) \/ (\E f \in Files : Rundown(f))
         \/ (\E f \in Files, away \in SUBSET {"key", "run"} : GiveUp(f, away))
         \/ (\E k \in Keys : MergeName(k))
         \/ (\E o \in Objects, away \in SUBSET {"obj"} : Close(o, away))
         \/ (\E r \in detached, final \in BOOLEAN : Try(r, final))
  PROVE  Heard'
  <1>1. UNCHANGED <<busy, orphaned, misled, guessed>>
    BY DEF Start, TakeSnapshot, MergeBegins, EnableReads, Stop, Stopped, Sweep, FinalSweep, Repark,
           RotateNames, Expire, Rundown, GiveUp, MergeName, Close, Try, kernel, lost, fates, judged
  <1>2. UNCHANGED pending \/ \E i \in Irps : pending' = [pending EXCEPT ![i] = 0]
    BY DEF Start, TakeSnapshot, MergeBegins, EnableReads, Stop, Stopped, Sweep, FinalSweep, Repark,
           RotateNames, Expire, Rundown, GiveUp, MergeName, Close, Try, waiting
  <1>3. \A i \in Irps : pending'[i] \in {0, pending[i]}
    BY <1>2 DEF AccountInv, FateType
  <1> QED BY <1>1, <1>3, HeardStill

(***************************************************************************)
(* The whole, and what follows from it.                                    *)
(***************************************************************************)

CorrelationInv == NamingInv /\ AccountInv /\ TellInv /\ Heard

LEMMA NamingStep == ASSUME NamingInv, ReadType, FateType, Course, Next PROVE NamingInv'
  <1>1. CASE \E o \in Objects, f \in Files, i \in Irps, away \in SUBSET {"obj", "key"} :
                Open(o, f, i, away)
    BY <1>1, NamingOpen
  <1>2. CASE \E o \in Objects, away \in SUBSET {"obj"} : Close(o, away)
    BY <1>2, NamingClose
  <1>3. CASE \E o \in Objects, i \in Irps : Read(o, i)
    <2>1. PICK o \in Objects, i \in Irps : Read(o, i)
      BY <1>3
    <2>2. key[file[o]] \in Keys
      BY <2>1, ReadIs
    <2>3. /\ names' = Promoted(names, o, key[file[o]]) /\ phase # "ready"
          /\ UNCHANGED <<file, key, phase, retired, noting, snapshot, lingering>>
      BY <2>1 DEF Read, Reading, lost
    <2> QED BY <2>2, <2>3, NamingLookup
  <1>4. CASE \/ \E f \in Files, away \in SUBSET {"key", "run"} : GiveUp(f, away)
             \/ \E f \in Files : Rundown(f)
    BY <1>4, NamingGiveUp, NamingRundown
  <1>5. CASE \E i \in Irps, ok \in BOOLEAN, away \in SUBSET {"end"} : OperationEnds(i, ok, away)
    <2>1. PICK i \in Irps, ok \in BOOLEAN, away \in SUBSET {"end"} : OperationEnds(i, ok, away)
      BY <1>5
    <2>2. UNCHANGED <<file, key, phase, retired, noting, snapshot, lingering>> /\ phase # "ready"
      BY <2>1 DEF OperationEnds, Consuming
    <2>3. CASE away = {} /\ pending[i] # 0
      <3>1. names' \in {names, Promoted(names, reads[pending[i]].obj, reads[pending[i]].key)}
        BY <2>1, <2>3 DEF OperationEnds, Completed
      <3>2. pending[i] \in Ids
        BY <2>3 DEF FateType
      <3>3. reads[pending[i]].obj \in Objects /\ reads[pending[i]].key \in Keys
        BY <3>2, IdsAre
      <3> QED BY <2>2, <3>1, <3>3, NamingLookup
    <2>4. CASE ~(away = {} /\ pending[i] # 0)
      <3>1. UNCHANGED names
        BY <2>1, <2>4 DEF OperationEnds
      <3> QED BY <2>2, <3>1, NamingSteady DEF NamingInv
    <2> QED BY <2>3, <2>4
  <1>6. CASE \E r \in detached : Try(r, phase = "final")
    <2>1. PICK r \in detached : Try(r, phase = "final")
      BY <1>6
    <2>2. /\ UNCHANGED <<file, key, phase, retired, noting, snapshot, lingering>>
          /\ names' = Promoted(names, reads[r].obj, reads[r].key)
      BY <2>1 DEF Try, kernel, lost
    <2>3. reads[r].obj \in Objects /\ reads[r].key \in Keys
      BY IdsAre DEF FateType
    <2>4. phase # "ready"
      <3>1. reads = <<>> => Ids = {}
        BY DEF Ids
      <3> QED BY <2>1, <3>1 DEF Course, FateType, Try
    <2> QED BY <2>2, <2>3, <2>4, NamingLookup
  <1>7. CASE \E i \in Irps : Write(i) \/ Expire(i)
    <2>1. UNCHANGED <<file, key, phase, names, retired, noting, snapshot, lingering>>
      BY <1>7 DEF Write, Expire, kernel, lost, naming
    <2> QED BY <2>1, NamingSteady DEF NamingInv
  <1>8. CASE Sweep \/ Repark
    <2>1. UNCHANGED <<file, key, phase, names, retired, noting, snapshot, lingering>>
      BY <1>8 DEF Sweep, Repark, kernel, lost, naming
    <2> QED BY <2>1, NamingSteady DEF NamingInv
  <1>9. CASE RotateNames \/ (\E k \in Keys : MergeName(k)) \/ TakeSnapshot
    BY <1>9, NamingRotates, NamingMerge, NamingSnapshot
  <1>10. CASE Start \/ MergeBegins \/ EnableReads \/ Stop \/ FinalSweep \/ Stopped
    BY <1>10, NamingPhases
  <1> QED BY <1>1, <1>2, <1>3, <1>4, <1>5, <1>6, <1>7, <1>8, <1>9, <1>10 DEF Next, Kernel, Housekeeping

LEMMA AccountStep == ASSUME NamingInv, AccountInv, Next PROVE AccountInv'
  <1>1. CASE \E o \in Objects, f \in Files, i \in Irps, away \in SUBSET {"obj", "key"} :
                Open(o, f, i, away)
    BY <1>1, AccountOpen
  <1>2. CASE \/ (\E o \in Objects, away \in SUBSET {"obj"} : Close(o, away))
             \/ (\E f \in Files, away \in SUBSET {"key", "run"} : GiveUp(f, away))
             \/ (\E f \in Files : Rundown(f)) \/ RotateNames \/ (\E k \in Keys : MergeName(k))
    <2>1. UNCHANGED <<phase, reads, busy, opens, orphaned, path, waiting, fates, counts>>
      BY <1>2 DEF Close, GiveUp, Rundown, RotateNames, MergeName, kernel, lost
    <2>2. UNCHANGED missed \/ (missed < MaxMissed /\ missed' = missed + 1)
      BY <1>2 DEF Close, GiveUp, Rundown, RotateNames, MergeName, Missing, kernel, lost
    <2>3. missed' \in 0..MaxMissed
      BY <2>2, BoundsAssumption DEF AccountInv, ReadType
    <2> QED BY <2>1, <2>3, AccountSteady DEF places
  <1>3. CASE \E o \in Objects, i \in Irps : Read(o, i)
    BY <1>3, AccountRead
  <1>4. CASE \E i \in Irps, ok \in BOOLEAN, away \in SUBSET {"end"} : OperationEnds(i, ok, away)
    BY <1>4, AccountEnds
  <1>5. CASE \E r \in detached : Try(r, phase = "final")
    BY <1>5, AccountTry
  <1>6. CASE \E i \in Irps : Write(i) \/ Expire(i)
    BY <1>6, AccountWrite, AccountExpire
  <1>7. CASE Sweep \/ FinalSweep \/ Repark
    BY <1>7, AccountSweep, AccountRepark
  <1>8. CASE Start \/ TakeSnapshot \/ MergeBegins \/ EnableReads \/ Stop \/ Stopped
    BY <1>8, AccountPhases
  <1> QED BY <1>1, <1>2, <1>3, <1>4, <1>5, <1>6, <1>7, <1>8 DEF Next, Kernel, Housekeeping

LEMMA TellStep == ASSUME NamingInv, AccountInv, TellInv, Next PROVE TellInv'
  <1>1. CASE \E o \in Objects, f \in Files, i \in Irps, away \in SUBSET {"obj", "key"} :
                Open(o, f, i, away)
    BY <1>1, TellOpen
  <1>2. CASE \/ \E o \in Objects, away \in SUBSET {"obj"} : Close(o, away)
             \/ \E f \in Files, away \in SUBSET {"key", "run"} : GiveUp(f, away)
    BY <1>2, TellTaken
  <1>3. CASE (\E f \in Files : Rundown(f)) \/ (\E k \in Keys : MergeName(k))
    BY <1>3, TellRundown, TellMerge
  <1>4. CASE \E o \in Objects, i \in Irps : Read(o, i)
    BY <1>4, TellRead
  <1>5. CASE \E i \in Irps, ok \in BOOLEAN, away \in SUBSET {"end"} : OperationEnds(i, ok, away)
    BY <1>5, TellEnds
  <1>6. CASE \E r \in detached : Try(r, phase = "final")
    <2>1. \E r \in detached, final \in BOOLEAN : Try(r, final)
      BY <1>6
    <2> QED BY <2>1, TellTry
  <1>7. CASE \/ Start \/ TakeSnapshot \/ MergeBegins \/ EnableReads \/ Stop \/ Stopped
             \/ Sweep \/ FinalSweep \/ Repark \/ RotateNames
             \/ (\E i \in Irps : Write(i) \/ Expire(i))
    BY <1>7, TellRest
  <1> QED BY <1>1, <1>2, <1>3, <1>4, <1>5, <1>6, <1>7 DEF Next, Kernel, Housekeeping

LEMMA HeardStep == ASSUME AccountInv, Heard, Next PROVE Heard'
  <1>1. CASE \E o \in Objects, f \in Files, i \in Irps, away \in SUBSET {"obj", "key"} :
                Open(o, f, i, away)
    BY <1>1, HeardOpen
  <1>2. CASE \E o \in Objects, i \in Irps : Read(o, i)
    BY <1>2, HeardRead
  <1>3. CASE \E i \in Irps : Write(i)
    BY <1>3, HeardWrite
  <1>4. CASE \E i \in Irps, ok \in BOOLEAN, away \in SUBSET {"end"} : OperationEnds(i, ok, away)
    BY <1>4, HeardEnds
  <1>5. CASE \/ Start \/ TakeSnapshot \/ MergeBegins \/ EnableReads \/ Stop \/ Stopped
             \/ Sweep \/ FinalSweep \/ Repark \/ RotateNames
             \/ (\E i \in Irps : Expire(i)) \/ (\E f \in Files : Rundown(f))
             \/ (\E f \in Files, away \in SUBSET {"key", "run"} : GiveUp(f, away))
             \/ (\E k \in Keys : MergeName(k))
             \/ (\E o \in Objects, away \in SUBSET {"obj"} : Close(o, away))
    BY <1>5, HeardRest
  <1>6. CASE \E r \in detached : Try(r, phase = "final")
    <2>1. \E r \in detached, final \in BOOLEAN : Try(r, final)
      BY <1>6
    <2> QED BY <2>1, HeardRest
  <1> QED BY <1>1, <1>2, <1>3, <1>4, <1>5, <1>6 DEF Next, Kernel, Housekeeping

LEMMA CorrelationUnchanged == ASSUME CorrelationInv, UNCHANGED vars PROVE CorrelationInv'
  <1>1. /\ UNCHANGED <<file, key, busy, opens, missed, lingering, orphaned, reads, phase, names>>
        /\ UNCHANGED <<retired, noting, snapshot, path, waiting, fates, counts>>
    BY DEF vars, kernel, lost, naming
  <1>2. NamingInv'
    BY <1>1, NamingSteady DEF CorrelationInv, NamingInv
  <1>3. AccountInv'
    <2>1. missed' \in 0..MaxMissed
      BY <1>1 DEF CorrelationInv, AccountInv, ReadType
    <2> QED BY <1>1, <2>1, AccountSteady DEF CorrelationInv, places
  <1>4. Waiting' = Waiting /\ Parking' = Parking
    BY <1>1 DEF waiting, Waiting, Parking
  <1>5. TellInv'
    <2>1. Kept(names, names')
      BY <1>1, KeptItself DEF CorrelationInv, NamingInv, Honest
    <2> QED BY <1>1, <1>4, <2>1, TellStill DEF CorrelationInv, fates
  <1>6. Heard'
    BY <1>1 DEF CorrelationInv, Heard, waiting, fates, judged
  <1> QED BY <1>2, <1>3, <1>5, <1>6 DEF CorrelationInv

\* The correlation's invariant, whichever records are lost: what both generations of names
\* say agrees with the kernel's addresses but for the entries that a lost record was to take
\* back; every read is at one place; what a read carries is its file's name or the read is
\* stale; and a read that waits for an end that is not its own has lost its own, and no
\* operation that was seen to start has its IRP.
THEOREM CorrelationCorrect == Spec => []CorrelationInv
  <1>1. Init => CorrelationInv
    BY NamingInit, AccountInit, TellInit, HeardInit DEF CorrelationInv
  <1>2. CorrelationInv /\ [Next]_vars => CorrelationInv'
    <2> SUFFICES ASSUME CorrelationInv, [Next]_vars PROVE CorrelationInv'
      OBVIOUS
    <2>1. CASE Next
      <3>1. NamingInv /\ AccountInv /\ TellInv /\ Heard
        BY DEF CorrelationInv
      <3>2. NamingInv'
        BY <2>1, <3>1, NamingStep DEF AccountInv
      <3>3. AccountInv' /\ TellInv' /\ Heard'
        BY <2>1, <3>1, AccountStep, TellStep, HeardStep
      <3> QED BY <3>2, <3>3 DEF CorrelationInv
    <2>2. CASE UNCHANGED vars
      BY <2>2, CorrelationUnchanged
    <2> QED BY <2>1, <2>2
  <1> QED BY <1>1, <1>2, PTL DEF Spec

\* Type correctness, the bounds of pending and deferred with it (watcher_windows.go, pend
\* and parkLocked).
THEOREM TypeOKCorrect == Spec => []TypeOK
  <1>1. CorrelationInv => TypeOK
    BY TypeParts DEF CorrelationInv, AccountInv, Counted
  <1> QED BY <1>1, CorrelationCorrect, PTL

\* A read is published under the name of the file that was read, whatever addresses are
\* used again and whichever records are lost, with two exceptions: it had no name when its
\* object or its key was given to another file, or it started with a name that a lost record
\* was to take back (lookup, forget, mergeSnapshot, rotateNames).
THEOREM NamesAreTrueCorrect == Spec => []NamesAreTrue
  <1>1. CorrelationInv => NamesAreTrue
    BY DEF CorrelationInv, AccountInv, FateType, TellInv, Told, Addressed, NamesAreTrue
  <1> QED BY <1>1, CorrelationCorrect, PTL

\* However many records are lost, no read is judged by the end of another operation that was
\* seen to start, and by the end of one that was not only if its own end was lost (pend,
\* quarantine, onOperationEnd).
THEOREM OutcomesAreTrueCorrect == Spec => []OutcomesAreTrue
  <1>1. CorrelationInv => OutcomesAreTrue
    BY DEF CorrelationInv, Heard, OutcomesAreTrue
  <1> QED BY <1>1, CorrelationCorrect, PTL

\* Every read the watcher has seen start is waiting, parked, published, a failure or given
\* up, in one way only, and the counters cover what is given up (noteLost, pend, parkLocked,
\* sweepDeferred, expirePending).
THEOREM ReadsAreAccountedCorrect == Spec => []ReadsAreAccounted
  <1>1. CorrelationInv => ReadsAreAccounted
    <2> SUFFICES ASSUME CorrelationInv PROVE ReadsAreAccounted
      OBVIOUS
    <2>1. DOMAIN Fates = 1..7 /\ \A x \in 1..7 : x \in {1, 2, 3, 4, 5, 6, 7}
      BY DEF Fates
    <2>2. UNION {Fates[x] : x \in DOMAIN Fates}
            = Waiting \cup deferred \cup detached \cup readd \cup shown \cup failed \cup gone
      <3>1. {Fates[x] : x \in DOMAIN Fates} = {Waiting, deferred, detached, readd, shown, failed, gone}
        <4>1. {Fates[x] : x \in DOMAIN Fates}
                = {Fates[1], Fates[2], Fates[3], Fates[4], Fates[5], Fates[6], Fates[7]}
          BY <2>1
        <4> QED BY <4>1 DEF Fates
      <3> QED BY <3>1
    <2>3. \A x, y \in DOMAIN Fates : x # y => Fates[x] \cap Fates[y] = {}
      <3>1. Apart
        BY DEF CorrelationInv, AccountInv
      <3> DEFINE Disjoint(x, y) == Fates[x] \cap Fates[y] = {}
      <3>2. /\ \A x \in 2..7 : Disjoint(1, x)
            /\ \A x \in 3..7 : Disjoint(2, x)
            /\ \A x \in 4..7 : Disjoint(3, x)
            /\ \A x \in 5..7 : Disjoint(4, x)
            /\ \A x \in 6..7 : Disjoint(5, x)
            /\ Disjoint(6, 7)
        BY <3>1 DEF Apart, Fates
      <3>3. \A x, y \in 1..7 : x < y => Disjoint(x, y)
        BY <3>2
      <3>4. \A x, y \in 1..7 : x # y => x < y \/ y < x
        OBVIOUS
      <3> QED BY <2>1, <3>3, <3>4
    <2> QED BY <2>2, <2>3 DEF CorrelationInv, AccountInv, Whole, Counted, Course, ReadsAreAccounted
  <1> QED BY <1>1, CorrelationCorrect, PTL
=============================================================================
