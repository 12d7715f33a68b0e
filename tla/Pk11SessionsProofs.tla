------------------------- MODULE Pk11SessionsProofs -------------------------
(***************************************************************************)
(* Proofs about Pk11Sessions, for any number of callers, types, structures *)
(* and objects, and any depth of processes that fork.                      *)
(***************************************************************************)
EXTENDS Pk11Sessions, TLAPS, FiniteSetTheorems

Elements(s) == {s[i] : i \in DOMAIN s}
Distinct(s) == \A i, j \in DOMAIN s : s[i] = s[j] => i = j

\* Taking the first structure off a list, and putting one in front of it.
LEMMA TailElements ==
  ASSUME NEW S, NEW s \in Seq(S), s # <<>>, Distinct(s)
  PROVE  /\ Tail(s) \in Seq(S) /\ Distinct(Tail(s)) /\ Head(s) \in Elements(s)
         /\ Head(s) \in S
         /\ Elements(Tail(s)) = Elements(s) \ {Head(s)}
  <1>1. Len(s) \in Nat /\ Len(s) # 0 /\ DOMAIN s = 1 .. Len(s)
    OBVIOUS
  <1>2. /\ Tail(s) \in Seq(S) /\ DOMAIN Tail(s) = 1 .. Len(s) - 1
        /\ \A i \in 1 .. Len(s) - 1 : Tail(s)[i] = s[i + 1]
    BY <1>1
  <1>3. Head(s) = s[1] /\ Head(s) \in Elements(s) /\ Head(s) \in S
    BY <1>1 DEF Elements
  <1>4. Distinct(Tail(s))
    BY <1>1, <1>2 DEF Distinct
  <1>5. ASSUME NEW x \in Elements(Tail(s)) PROVE x \in Elements(s) \ {Head(s)}
    <2>1. PICK i \in 1 .. Len(s) - 1 : x = s[i + 1]
      BY <1>2 DEF Elements
    <2>2. i + 1 \in 1 .. Len(s) /\ i + 1 # 1
      BY <1>1
    <2> QED
      BY <1>1, <1>3, <2>1, <2>2 DEF Elements, Distinct
  <1>6. ASSUME NEW x \in Elements(s), x # Head(s) PROVE x \in Elements(Tail(s))
    <2>1. PICK i \in 1 .. Len(s) : x = s[i]
      BY <1>1 DEF Elements
    <2>2. i # 1
      BY <1>3, <1>6, <2>1
    <2>3. i - 1 \in 1 .. Len(s) - 1 /\ Tail(s)[i - 1] = s[i]
      BY <1>1, <1>2, <2>2
    <2> QED
      BY <1>2, <2>1, <2>3 DEF Elements
  <1> QED
    BY <1>2, <1>3, <1>4, <1>5, <1>6

LEMMA ConsElements ==
  ASSUME NEW S, NEW s \in Seq(S), NEW x \in S, x \notin Elements(s), Distinct(s)
  PROVE  /\ <<x>> \o s \in Seq(S) /\ Distinct(<<x>> \o s)
         /\ Elements(<<x>> \o s) = Elements(s) \cup {x}
  <1> DEFINE r == <<x>> \o s
  <1>1. Len(s) \in Nat /\ DOMAIN s = 1 .. Len(s)
    OBVIOUS
  <1>2. /\ r \in Seq(S) /\ DOMAIN r = 1 .. Len(s) + 1 /\ r[1] = x
        /\ \A i \in 1 .. Len(s) + 1 : i # 1 => r[i] = s[i - 1] /\ i - 1 \in 1 .. Len(s)
    BY <1>1
  <1> HIDE DEF r
  <1>3. \A i \in 1 .. Len(s) : r[i + 1] = s[i] /\ i + 1 \in 1 .. Len(s) + 1
    BY <1>1, <1>2
  <1>4. Distinct(r)
    <2> SUFFICES ASSUME NEW i \in 1 .. Len(s) + 1, NEW j \in 1 .. Len(s) + 1, r[i] = r[j]
                 PROVE  i = j
      BY <1>2 DEF Distinct
    <2>1. CASE i = 1 \/ j = 1
      BY <1>1, <1>2, <2>1 DEF Elements
    <2>2. CASE i # 1 /\ j # 1
      <3>1. s[i - 1] = s[j - 1] /\ i - 1 \in DOMAIN s /\ j - 1 \in DOMAIN s
        BY <1>1, <1>2, <2>2
      <3>2. i - 1 = j - 1
        BY <3>1 DEF Distinct
      <3> QED
        BY <3>2
    <2> QED
      BY <2>1, <2>2
  <1>5. Elements(r) = Elements(s) \cup {x}
    <2>1. ASSUME NEW y \in Elements(r) PROVE y \in Elements(s) \cup {x}
      <3>1. PICK i \in 1 .. Len(s) + 1 : y = r[i]
        BY <1>2 DEF Elements
      <3> QED
        BY <1>1, <1>2, <3>1 DEF Elements
    <2>2. ASSUME NEW y \in Elements(s) PROVE y \in Elements(r)
      <3>1. PICK i \in 1 .. Len(s) : y = s[i]
        BY <1>1 DEF Elements
      <3> QED
        BY <1>2, <1>3, <3>1 DEF Elements
    <2>3. x \in Elements(r)
      BY <1>1, <1>2 DEF Elements
    <2> QED
      BY <2>1, <2>2, <2>3
  <1> QED
    BY <1>2, <1>4, <1>5 DEF r
-----------------------------------------------------------------------------
\* Where a caller is tells what it has.
CallsSound ==
    \A t \in Callers :
       /\ pc[t] = "idle" => sp[t] = None /\ op[t] = None
       /\ pc[t] # "idle" => /\ sp[t] \in Structs /\ op[t] \in OpTypes
                            /\ initialized /\ ~stale
       /\ pc[t] \in {"check", "find", "use"} => op[t] \in Keyed
       /\ pc[t] = "context" => op[t] \notin Keyed
       /\ op[t] \in Keyed => want[t] \in Keys /\ pid = me

\* A process that has not begun to use PKCS#11 has no sessions and no objects.
Fresh == (\A s \in Structs : by[s] # me) /\ (\A h \in Objects : store[h] = None)
Processes ==
    /\ \A s \in alloc : by[s] # 0
    /\ ~cryptoki => Fresh /\ me # 1
    /\ pid # me => Fresh

\* The types of the variables of an action, by where they change.
TypeLib ==
    /\ me \in Pids /\ pid \in 0 .. me /\ libPid \in 0 .. me
    /\ initialized \in BOOLEAN /\ engine \in BOOLEAN /\ cryptoki \in BOOLEAN
TypeList ==
    /\ cache \in [OpTypes -> Seq(Structs)]
    /\ alloc \subseteq Structs
    /\ by \in [Structs -> 0 .. me]
TypeKey ==
    /\ obj \in [Structs -> Objects \cup {None}]
    /\ key \in [Structs -> Keys \cup {None}]
    /\ active \in [Keyed -> [Objects -> Nat]]
    /\ store \in [Objects -> (Keyed \X Keys) \cup {None}]
TypeCall ==
    /\ pc \in [Callers -> {"idle", "check", "find", "use", "context", "done"}]
    /\ sp \in [Callers -> Structs \cup {None}]
    /\ op \in [Callers -> OpTypes \cup {None}]
    /\ want \in [Callers -> Keys \cup {None}]

Typed == TypeLib /\ TypeList /\ TypeKey /\ TypeCall

LEMMA TypeParts == Typed <=> TypeLib /\ TypeList /\ TypeKey /\ TypeCall
  BY DEF Typed

LEMMA TypePartsNext == Typed' <=> TypeLib' /\ TypeList' /\ TypeKey' /\ TypeCall'
  BY DEF Typed

\* The lists.  Without the library being initialised they are not looked at.
Lists(c) ==
    \A o \in OpTypes : /\ Elements(c[o]) \subseteq alloc \ Held
                       /\ Distinct(c[o])
                       /\ \A q \in OpTypes \ {o} : Elements(c[o]) \cap Elements(c[q]) = {}
Users == /\ \A t, u \in Callers : sp[t] # None /\ sp[t] = sp[u] => t = u
         /\ Held \subseteq alloc

\* The structures: OneUser, of which each part needs the others.
Single == Users /\ (initialized /\ ~stale => Lists(cache))
Sound == Typed /\ CallsSound /\ Processes /\ Single

LEMMA OneUserParts == Single <=> Users /\ (initialized /\ ~stale => Lists(cache))
  BY DEF Single

LEMMA OneUserPartsNext == Single' <=> Users' /\ (initialized' /\ ~stale' => Lists(cache)')
  BY DEF Single
-----------------------------------------------------------------------------
LEMMA NoneApart ==
  None \notin Structs /\ None \notin Objects /\ None \notin Keys /\ None \notin OpTypes
  BY Pk11Assumption

\* A caller that takes a structure nobody has.
LEMMA GivenSound ==
  ASSUME Sound, NEW t \in Callers, NEW s \in Structs, NEW o \in OpTypes, NEW k \in Keys,
         Idle(t), Given(t, s, o, k), s \notin Held, s \in alloc', Held \subseteq alloc',
         initialized' = TRUE, stale' = stale, pid' = me, me' = me
  PROVE  TypeCall' /\ CallsSound' /\ Users' /\ Held' = Held \cup {s}
  <1>1. /\ pc' = [pc EXCEPT ![t] = IF o \in Keyed THEN "check" ELSE "context"]
        /\ sp' = [sp EXCEPT ![t] = s]
        /\ op' = [op EXCEPT ![t] = o]
        /\ want' = [want EXCEPT ![t] = IF o \in Keyed THEN k ELSE None]
    BY DEF Given
  <1>2. TypeCall /\ CallsSound /\ Users
    BY TypeParts, OneUserParts DEF Sound
  <1>3. TypeCall'
    BY <1>1, <1>2 DEF TypeCall
  <1>4. \A u \in Callers : sp'[u] = IF u = t THEN s ELSE sp[u]
    BY <1>1, <1>2 DEF TypeCall
  <1>5. sp[t] = None /\ s # None
    BY <1>2, NoneApart DEF CallsSound, Idle
  <1>6. Held' = Held \cup {s}
    BY <1>4, <1>5 DEF Held
  <1>7. \A u \in Callers : u # t => sp[u] # s
    BY <1>5 DEF Held
  <1>8. Users'
    BY <1>2, <1>4, <1>6, <1>7 DEF Users
  <1>9. CallsSound'
    <2> SUFFICES ASSUME NEW u \in Callers
                 PROVE  /\ pc'[u] = "idle" => sp'[u] = None /\ op'[u] = None
                        /\ pc'[u] # "idle" => /\ sp'[u] \in Structs /\ op'[u] \in OpTypes
                                              /\ initialized' /\ ~stale'
                        /\ pc'[u] \in {"check", "find", "use"} => op'[u] \in Keyed
                        /\ pc'[u] = "context" => op'[u] \notin Keyed
                        /\ op'[u] \in Keyed => want'[u] \in Keys /\ pid' = me'
      BY DEF CallsSound
    <2>1. CASE u = t
      BY <1>1, <1>2, <2>1 DEF TypeCall, Idle
    <2>2. CASE u # t
      BY <1>1, <1>2, <2>2 DEF TypeCall, CallsSound
    <2> QED
      BY <2>1, <2>2
  <1> QED
    BY <1>3, <1>6, <1>8, <1>9

LEMMA GetListedSound ==
  ASSUME Sound, NEW t \in Callers, NEW o \in OpTypes, NEW k \in Keys, GetListed(t, o, k)
  PROVE  Sound'
  <1>0. PICK s : s = Head(cache[o])
    OBVIOUS
  <1>1. /\ Idle(t) /\ cache[o] # <<>> /\ pid' = me
        /\ cache' = [cache EXCEPT ![o] = Tail(cache[o])]
        /\ Given(t, s, o, k)
        /\ UNCHANGED <<me, initialized, libPid, engine, cryptoki, alloc, by, keyVars, stale>>
    BY <1>0 DEF GetListed
  <1>2. TypeLib /\ TypeList /\ TypeKey /\ Users /\ Lists(cache) /\ initialized = TRUE
    BY <1>1, TypeParts, OneUserParts DEF Sound, Idle, TypeLib
  <1>3. cache[o] \in Seq(Structs) /\ Distinct(cache[o])
    BY <1>2 DEF TypeList, Lists
  <1>4. /\ Tail(cache[o]) \in Seq(Structs) /\ Distinct(Tail(cache[o]))
        /\ s \in Elements(cache[o]) /\ s \in Structs
        /\ Elements(Tail(cache[o])) = Elements(cache[o]) \ {s}
    BY <1>0, <1>1, <1>3, TailElements
  <1>5. s \in alloc /\ s \notin Held
    BY <1>2, <1>4 DEF Lists
  <1>6. TypeCall' /\ CallsSound' /\ Users' /\ Held' = Held \cup {s}
    <2>1. /\ Idle(t) /\ Given(t, s, o, k) /\ pid' = me /\ me' = me /\ alloc' = alloc
          /\ initialized' = TRUE /\ stale' = stale
      BY <1>1, <1>2
    <2>2. s \in Structs /\ s \in alloc' /\ s \notin Held /\ Held \subseteq alloc'
      BY <2>1, <1>2, <1>4, <1>5 DEF Users
    <2> QED
      BY <2>1, <2>2, GivenSound
  <1>7. TypeLib' /\ TypeList' /\ TypeKey'
    <2>1. TypeLib'
      BY <1>1, <1>2, Pk11Assumption DEF TypeLib, Pids
    <2>2. TypeList'
      BY <1>1, <1>2, <1>4 DEF TypeList
    <2>3. TypeKey'
      BY <1>1, <1>2 DEF TypeKey, keyVars
    <2> QED
      BY <2>1, <2>2, <2>3
  <1>8. Processes'
    BY <1>1 DEF Sound, Processes, Fresh, keyVars
  <1>9. Lists(cache)'
    <2>1. \A q \in OpTypes : cache'[q] = IF q = o THEN Tail(cache[o]) ELSE cache[q]
      BY <1>1, <1>2 DEF TypeList
    <2>2. alloc' = alloc
      BY <1>1
    <2>3. \A q \in OpTypes : /\ Elements(cache'[q]) \subseteq Elements(cache[q]) \ {s}
                             /\ Distinct(cache'[q])
      BY <1>2, <1>4, <2>1 DEF Lists
    <2> QED
      BY <1>2, <1>6, <2>2, <2>3 DEF Lists
  <1> QED
    BY <1>6, <1>7, <1>8, <1>9, TypePartsNext, OneUserPartsNext DEF Sound

LEMMA EmptyLists == /\ Empty \in [OpTypes -> Seq(Structs)]
                    /\ \A o \in OpTypes : Elements(Empty[o]) = {} /\ Distinct(Empty[o])
  BY DEF Empty, Elements, Distinct

LEMMA SetUpType ==
  ASSUME Typed, NEW s \in Structs, NEW gone, SetUp(s, gone), me' = me
  PROVE  /\ by' \in [Structs -> 0 .. me']
         /\ obj' \in [Structs -> Objects \cup {None}]
         /\ key' \in [Structs -> Keys \cup {None}]
  <1>1. me \in Nat /\ me # 0
    BY Pk11Assumption DEF Typed, TypeLib, Pids
  <1>2. me \in 0 .. me /\ 0 \in 0 .. me
    BY <1>1
  <1> QED
    BY <1>2 DEF Typed, TypeList, TypeKey, SetUp

LEMMA GetNewSound ==
  ASSUME Sound, NEW t \in Callers, NEW o \in OpTypes, NEW k \in Keys, GetNew(t, o, k)
  PROVE  Sound'
  <1>1. PICK s \in Structs \ alloc : /\ alloc' = alloc \cup {s}
                                     /\ SetUp(s, {}) /\ Given(t, s, o, k)
    BY DEF GetNew
  <1>2. TypeLib /\ TypeList /\ TypeKey /\ Users /\ Lists(cache) /\ initialized = TRUE
    BY TypeParts, OneUserParts DEF Sound, Idle, TypeLib, GetNew
  <1>3. Idle(t) /\ pid' = me /\ me' = me /\ store' = store /\ stale' = stale
    BY DEF GetNew
  <1>4. /\ initialized' = TRUE /\ cryptoki' = TRUE
        /\ libPid' \in 0 .. me /\ engine' \in BOOLEAN
        /\ cache' = cache \/ cache' = Empty
        /\ active' \in [Keyed -> [Objects -> Nat]]
    <2>1. me \in 0 .. me
      BY <1>2, Pk11Assumption DEF TypeLib, Pids
    <2>2. NoReferences \in [Keyed -> [Objects -> Nat]]
      BY DEF NoReferences
    <2>3. CASE cryptoki
      BY <1>2, <2>3 DEF GetNew, TypeLib, TypeKey
    <2>4. CASE ~cryptoki
      BY <1>2, <2>1, <2>2, <2>4 DEF GetNew, Restarted
    <2> QED
      BY <2>3, <2>4
  <1>5. s \notin Held /\ s \in alloc' /\ Held \subseteq alloc'
    BY <1>1, <1>2 DEF Users
  <1>6. TypeCall' /\ CallsSound' /\ Users' /\ Held' = Held \cup {s}
    BY <1>1, <1>3, <1>4, <1>5, GivenSound
  <1>7. TypeLib'
    BY <1>2, <1>3, <1>4, Pk11Assumption DEF TypeLib, Pids
  <1>8. TypeList' /\ TypeKey'
    BY <1>1, <1>2, <1>3, <1>4, SetUpType, EmptyLists DEF TypeList, TypeKey, Sound
  <1>9. Processes'
    <2>1. me # 0 /\ \A x \in alloc' : by'[x] = me \/ (x \in alloc /\ by'[x] = by[x])
      BY <1>1, <1>2, Pk11Assumption DEF SetUp, TypeLib, TypeList, Pids
    <2> QED
      BY <1>1, <1>2, <1>3, <1>4, <2>1 DEF Sound, Processes, TypeList
  <1>10. Lists(cache)'
    <2>1. alloc' \ Held' = alloc \ Held
      BY <1>1, <1>2, <1>6
    <2>2. CASE cache' = cache
      BY <1>2, <2>1, <2>2 DEF Lists
    <2>3. CASE cache' = Empty
      BY <2>3, EmptyLists DEF Lists
    <2> QED
      BY <1>4, <2>2, <2>3
  <1> QED
    BY <1>6, <1>7, <1>8, <1>9, <1>10, TypePartsNext, OneUserPartsNext DEF Sound

LEMMA GetForkedSound ==
  ASSUME Sound, NEW t \in Callers, NEW o \in OpTypes, NEW k \in Keys, GetForked(t, o, k)
  PROVE  Sound'
  <1>1. PICK s \in IF cache[o] = <<>> THEN Structs \ alloc ELSE {Head(cache[o])} :
          /\ alloc' = (alloc \ Listed(o)) \cup {s}
          /\ cache' = [cache EXCEPT ![o] = <<>>]
          /\ SetUp(s, Listed(o))
          /\ Given(t, s, o, k)
    BY DEF GetForked
  <1>2. TypeLib /\ TypeList /\ TypeKey /\ Users /\ Lists(cache) /\ initialized = TRUE
    BY TypeParts, OneUserParts DEF Sound, Idle, TypeLib, GetForked
  <1>3. /\ Idle(t) /\ pid' = me /\ cryptoki' = TRUE
        /\ active' = [a \in Keyed |-> IF a = o THEN NoReferences[o] ELSE active[a]]
        /\ UNCHANGED <<me, initialized, libPid, engine, store, stale>>
    BY DEF GetForked
  <1>4. s \in Structs /\ s \notin Held /\ \A q \in OpTypes : q # o => s \notin Elements(cache[q])
    <2>1. CASE cache[o] = <<>>
      BY <1>1, <1>2, <2>1 DEF Users, Lists
    <2>2. CASE cache[o] # <<>>
      <3>1. cache[o] \in Seq(Structs) /\ Distinct(cache[o])
        BY <1>2 DEF TypeList, Lists
      <3>2. s = Head(cache[o]) /\ s \in Elements(cache[o]) /\ s \in Structs
        BY <1>1, <2>2, <3>1, TailElements
      <3> QED
        BY <1>2, <3>2 DEF Lists
    <2> QED
      BY <2>1, <2>2
  <1>5. Listed(o) = Elements(cache[o]) /\ Listed(o) \cap Held = {}
    BY <1>2 DEF Listed, Elements, Lists
  <1>6. s \in alloc' /\ Held \subseteq alloc'
    BY <1>1, <1>2, <1>5 DEF Users
  <1>7. TypeCall' /\ CallsSound' /\ Users' /\ Held' = Held \cup {s}
    BY <1>1, <1>2, <1>3, <1>4, <1>6, GivenSound
  <1>8. TypeLib'
    BY <1>2, <1>3, Pk11Assumption DEF TypeLib, Pids
  <1>9. TypeList' /\ TypeKey'
    <2>1. active' \in [Keyed -> [Objects -> Nat]]
      BY <1>2, <1>3 DEF TypeKey, NoReferences
    <2>2. cache' \in [OpTypes -> Seq(Structs)]
      BY <1>1, <1>2 DEF TypeList
    <2> QED
      BY <1>1, <1>2, <1>3, <1>4, <2>1, <2>2, SetUpType DEF TypeList, TypeKey, Sound
  <1>10. Processes'
    <2>1. me # 0 /\ \A x \in alloc' : by'[x] = me \/ (x \in alloc /\ by'[x] = by[x])
      BY <1>1, <1>2, Pk11Assumption DEF SetUp, TypeLib, TypeList, Pids
    <2> QED
      BY <1>1, <1>2, <1>3, <1>4, <2>1 DEF Sound, Processes, TypeList
  <1>11. Lists(cache)'
    <2>1. \A q \in OpTypes : cache'[q] = IF q = o THEN <<>> ELSE cache[q]
      BY <1>1, <1>2 DEF TypeList
    <2>2. Elements(<<>>) = {} /\ Distinct(<<>>)
      BY DEF Elements, Distinct
    <2> QED
      BY <1>1, <1>2, <1>4, <1>5, <1>7, <2>1, <2>2 DEF Lists
  <1> QED
    BY <1>7, <1>8, <1>9, <1>10, <1>11, TypePartsNext, OneUserPartsNext DEF Sound

LEMMA GetForkedFailsSound ==
  ASSUME Sound, NEW t \in Callers, NEW o \in OpTypes, GetForkedFails(t, o) PROVE Sound'
  <1>1. /\ Idle(t) /\ pid' = me /\ cryptoki' \in {cryptoki, TRUE}
        /\ active' = [a \in Keyed |-> IF a = o THEN NoReferences[o] ELSE active[a]]
        /\ UNCHANGED <<me, initialized, libPid, engine, listVars, obj, key, store, callVars, stale>>
    BY DEF GetForkedFails
  <1>2. TypeLib /\ TypeList /\ TypeKey /\ TypeCall /\ Users /\ (initialized /\ ~stale => Lists(cache))
    BY TypeParts, OneUserParts DEF Sound
  <1>a. cryptoki' \in BOOLEAN /\ (~cryptoki' => ~cryptoki)
    <2>1. cryptoki' = cryptoki \/ cryptoki' = TRUE
      BY <1>1
    <2>2. cryptoki \in BOOLEAN
      BY <1>2 DEF TypeLib
    <2>3. CASE cryptoki' = cryptoki
      BY <2>2, <2>3
    <2>4. CASE cryptoki' = TRUE
      BY <2>4
    <2> QED
      BY <2>1, <2>3, <2>4
  <1>b. /\ pid' = me /\ UNCHANGED <<me, initialized, libPid, engine, stale>>
        /\ UNCHANGED <<cache, alloc, by>> /\ UNCHANGED <<obj, key, store>>
        /\ UNCHANGED <<pc, sp, op, want>>
    BY <1>1 DEF listVars, callVars
  <1>3. TypeLib'
    BY <1>a, <1>b, <1>2, Pk11Assumption DEF TypeLib, Pids
  <1>4. TypeList' /\ TypeCall'
    BY <1>b, <1>2 DEF TypeList, TypeCall
  <1>5. TypeKey'
    <2>1. active' \in [Keyed -> [Objects -> Nat]]
      BY <1>1, <1>2 DEF TypeKey, NoReferences
    <2> QED
      BY <1>b, <1>2, <2>1 DEF TypeKey
  <1>6. Processes'
    BY <1>a, <1>b DEF Sound, Processes, Fresh
  <1>7. CallsSound'
    BY <1>b DEF Sound, CallsSound
  <1>8. Users' /\ (initialized' /\ ~stale' => Lists(cache)')
    BY <1>b, <1>2 DEF Users, Lists, Held
  <1> QED
    BY <1>3, <1>4, <1>5, <1>6, <1>7, <1>8, TypePartsNext, OneUserPartsNext DEF Sound

\* A step of a caller that changes neither lists nor who has what.
LEMMA CallerSound ==
  ASSUME Sound, NEW t \in Callers, UNCHANGED <<me, libVars, listVars, sp, op, want, stale>>,
         pc[t] # "idle",
         NEW where, pc' = [pc EXCEPT ![t] = where],
         (where \in {"use", "find"} /\ pc[t] \in {"check", "find"}) \/ where = "done",
         TypeKey', Processes'
  PROVE  Sound'
  <1>1. TypeLib /\ TypeList /\ TypeCall /\ Users /\ (initialized /\ ~stale => Lists(cache))
    BY TypeParts, OneUserParts DEF Sound
  <1>2. TypeLib' /\ TypeList'
    BY <1>1 DEF TypeLib, TypeList, libVars, listVars
  <1>3. TypeCall'
    BY <1>1 DEF TypeCall
  <1>4. Users' /\ (initialized' /\ ~stale' => Lists(cache)')
    BY <1>1 DEF Users, Lists, Held, listVars, libVars
  <1>5. CallsSound'
    BY <1>1 DEF Sound, CallsSound, TypeCall, libVars
  <1> QED
    BY <1>2, <1>3, <1>4, <1>5, TypePartsNext, OneUserPartsNext DEF Sound

LEMMA DestroyedType ==
  ASSUME Sound, NEW t \in Callers, Destroyed(t)
  PROVE  TypeKey'
  <1>1. TypeKey
    BY TypeParts DEF Sound
  <1> DEFINE s == sp[t]  h == obj[s]  a == op[t]
  <1>2. active' \in [Keyed -> [Objects -> Nat]]
    <2>1. active' = [active EXCEPT ![a] = [active[a] EXCEPT ![h] =
                       IF active[a][h] = 0 THEN 0 ELSE active[a][h] - 1]]
      BY DEF Destroyed
    <2> DEFINE f == [active[a] EXCEPT ![h] = IF active[a][h] = 0 THEN 0
                                             ELSE active[a][h] - 1]
    <2>2. ASSUME a \in Keyed PROVE f \in [Objects -> Nat]
      <3>1. active[a] \in [Objects -> Nat]
        BY <1>1, <2>2 DEF TypeKey
      <3>2. CASE h \in Objects
        <4>1. active[a][h] \in Nat
          BY <3>1, <3>2
        <4>2. (IF active[a][h] = 0 THEN 0 ELSE active[a][h] - 1) \in Nat
          BY <4>1
        <4> QED
          BY <3>1, <4>2
      <3>3. CASE h \notin Objects
        BY <3>1, <3>3
      <3> QED
        BY <3>2, <3>3
    <2>3. active' = [active EXCEPT ![a] = f]
      BY <2>1
    <2> HIDE DEF a, h, f
    <2> QED
      BY <1>1, <2>2, <2>3 DEF TypeKey
  <1>3. store' \in [Objects -> (Keyed \X Keys) \cup {None}]
    <2>1. PICK c \in BOOLEAN : store' = [store EXCEPT ![h] = IF c THEN None ELSE @]
      <3>1. PICK c \in BOOLEAN : c = (active[a][h] = 1 /\ Works(t))
        OBVIOUS
      <3>2. store' = [store EXCEPT ![h] = IF c THEN None ELSE @]
        BY <3>1 DEF Destroyed
      <3> QED
        BY <3>2
    <2> HIDE DEF h
    <2>2. CASE c
      BY <1>1, <2>1, <2>2 DEF TypeKey
    <2>3. CASE ~c
      BY <1>1, <2>1, <2>3 DEF TypeKey
    <2> QED
      BY <2>2, <2>3
  <1>4. /\ obj' = [obj EXCEPT ![s] = None]
        /\ key' = [key EXCEPT ![s] = None]
    BY DEF Destroyed
  <1> HIDE DEF s
  <1> QED
    BY <1>1, <1>2, <1>3, <1>4 DEF TypeKey

\* What is destroyed is one object, or none.
LEMMA DestroyedStore ==
  ASSUME Sound, NEW t \in Callers, Destroyed(t), NEW g \in Objects
  PROVE  store'[g] = store[g] \/ store'[g] = None
  <1>1. store \in [Objects -> (Keyed \X Keys) \cup {None}]
    BY TypeParts DEF Sound, TypeKey
  <1> QED
    BY <1>1 DEF Destroyed

LEMMA CheckSound ==
  ASSUME Sound, NEW t \in Callers, Check(t) PROVE Sound'
  <1>1. TypeLib /\ TypeKey /\ TypeCall
    BY TypeParts DEF Sound
  <1>2. /\ pc[t] = "check" /\ UNCHANGED <<me, libVars, listVars, sp, op, want, stale>>
        /\ (UNCHANGED keyVars \/ Destroyed(t))
    BY DEF Check
  <1>3. PICK where \in {"use", "find"} : pc' = [pc EXCEPT ![t] = where]
    BY DEF Check
  <1>4. TypeKey'
    <2>1. CASE UNCHANGED keyVars
      BY <1>1, <2>1 DEF TypeKey, keyVars
    <2>2. CASE Destroyed(t)
      BY <2>2, DestroyedType
    <2> QED
      BY <1>2, <2>1, <2>2
  <1>5. \A g \in Objects : store'[g] = store[g] \/ store'[g] = None
    BY <1>2, DestroyedStore DEF keyVars
  <1>6. Processes'
    BY <1>2, <1>5 DEF Sound, Processes, Fresh, libVars, listVars
  <1> QED
    BY <1>2, <1>3, <1>4, <1>6, CallerSound

LEMMA FindSound ==
  ASSUME Sound, NEW t \in Callers, Find(t) PROVE Sound'
  <1>1. TypeLib /\ TypeKey /\ TypeCall
    BY TypeParts DEF Sound
  <1>2. PICK h \in Objects : /\ Refers(t, h)
                             /\ store' = [store EXCEPT ![h] = <<op[t], want[t]>>]
    BY DEF Find, NewHandles
  <1>3. /\ pc[t] = "find" /\ UNCHANGED <<me, libVars, listVars, sp, op, want, stale>>
        /\ pc' = [pc EXCEPT ![t] = "use"] /\ by[sp[t]] = me /\ cryptoki = TRUE
    BY <1>1 DEF Find, Works, TypeLib
  <1>4. op[t] \in Keyed /\ want[t] \in Keys /\ sp[t] \in Structs /\ pid = me
    BY <1>3 DEF Sound, CallsSound
  <1>5. TypeKey'
    <2>1. /\ active' = [active EXCEPT ![op[t]] = [active[op[t]] EXCEPT ![h] =
                                                    active[op[t]][h] + 1]]
          /\ obj' = [obj EXCEPT ![sp[t]] = h]
          /\ key' = [key EXCEPT ![sp[t]] = want[t]]
      BY <1>2 DEF Refers
    <2>2. [active[op[t]] EXCEPT ![h] = active[op[t]][h] + 1] \in [Objects -> Nat]
      BY <1>1, <1>4 DEF TypeKey
    <2>3. active' \in [Keyed -> [Objects -> Nat]]
      BY <1>1, <1>4, <2>1, <2>2 DEF TypeKey
    <2>4. store' \in [Objects -> (Keyed \X Keys) \cup {None}]
      BY <1>1, <1>2, <1>4 DEF TypeKey
    <2> QED
      BY <1>1, <1>4, <2>1, <2>3, <2>4 DEF TypeKey
  <1>6. Processes'
    BY <1>3, <1>4 DEF Sound, Processes, libVars, listVars
  <1> QED
    BY <1>3, <1>5, <1>6, CallerSound

LEMMA UseSound ==
  ASSUME Sound, NEW t \in Callers, FindFails(t) \/ Use(t) \/ LoadAnyway(t) PROVE Sound'
  <1>1. /\ pc[t] # "idle"
        /\ UNCHANGED <<me, libVars, listVars, sp, op, want, stale>>
        /\ UNCHANGED <<active, store>>
        /\ \/ UNCHANGED <<obj, key>>
           \/ /\ obj' = [obj EXCEPT ![sp[t]] = None]
              /\ key' = [key EXCEPT ![sp[t]] = None]
    BY DEF FindFails, Use, LoadAnyway, keyVars
  <1>2. PICK where : /\ pc' = [pc EXCEPT ![t] = where]
                     /\ where = "done" \/ (where = "find" /\ pc[t] = "check")
    BY DEF FindFails, Use, LoadAnyway
  <1>3. TypeKey'
    BY <1>1, TypeParts DEF Sound, TypeKey
  <1>4. Processes'
    BY <1>1 DEF Sound, Processes, Fresh, libVars, listVars
  <1> QED
    BY <1>1, <1>2, <1>3, <1>4, CallerSound

LEMMA ReturnSound ==
  ASSUME Sound, NEW t \in Callers, Return(t) PROVE Sound'
  <1>1. TypeLib /\ TypeList /\ TypeKey /\ TypeCall /\ Users /\ Lists(cache) /\ initialized = TRUE
    BY TypeParts, OneUserParts DEF Sound, CallsSound, Return, TypeLib
  <1>2. /\ pc[t] = "done" /\ Leaves(t)
        /\ UNCHANGED <<me, libVars, alloc, by, keyVars, stale>>
        /\ cache' = [cache EXCEPT ![op[t]] = IF by[sp[t]] = me THEN <<sp[t]>> \o @ ELSE @]
    BY DEF Return
  <1>3. PICK s \in Structs, o \in OpTypes : s = sp[t] /\ o = op[t]
    BY <1>2 DEF Sound, CallsSound
  <1>4. s \in Held /\ s \in alloc
    BY <1>1, <1>3, NoneApart DEF Users, Held
  <1>5. Held' = Held \ {s} /\ Users'
    <2>1. \A u \in Callers : sp'[u] = IF u = t THEN None ELSE sp[u]
      BY <1>1, <1>2 DEF Leaves, TypeCall
    <2>2. \A u \in Callers : u # t => sp[u] # s
      BY <1>1, <1>3, NoneApart DEF Users
    <2>3. Held' = Held \ {s}
      BY <1>3, <2>1, <2>2 DEF Held
    <2> QED
      BY <1>1, <1>2, <2>1, <2>3 DEF Users
  <1>6. TypeCall' /\ CallsSound'
    <2>1. TypeCall'
      BY <1>1, <1>2 DEF Leaves, TypeCall
    <2>2. CallsSound'
      BY <1>1, <1>2, NoneApart, Pk11Assumption DEF Leaves, TypeCall, Sound, CallsSound, libVars
    <2> QED
      BY <2>1, <2>2
  <1>7. TypeLib' /\ TypeKey'
    BY <1>1, <1>2 DEF TypeLib, TypeKey, libVars, keyVars
  <1>8. Processes'
    BY <1>2 DEF Sound, Processes, Fresh, libVars, keyVars
  <1>9. cache[o] \in Seq(Structs) /\ Distinct(cache[o]) /\ s \notin Elements(cache[o])
    BY <1>1, <1>4 DEF TypeList, Lists
  <1>10. PICK r : r = IF by[s] = me THEN <<s>> \o cache[o] ELSE cache[o]
    OBVIOUS
  <1>11. r \in Seq(Structs) /\ Distinct(r) /\ Elements(r) \subseteq Elements(cache[o]) \cup {s}
    BY <1>9, <1>10, ConsElements
  <1>12. cache' = [cache EXCEPT ![o] = r]
    BY <1>2, <1>3, <1>10
  <1>13. TypeList'
    <2>1. cache' \in [OpTypes -> Seq(Structs)]
      BY <1>1, <1>11, <1>12 DEF TypeList
    <2> QED
      BY <1>1, <1>2, <2>1 DEF TypeList
  <1>14. Lists(cache)'
    <2>1. \A q \in OpTypes : cache'[q] = IF q = o THEN r ELSE cache[q]
      BY <1>1, <1>12 DEF TypeList
    <2>2. \A q \in OpTypes : s \notin Elements(cache[q])
      BY <1>1, <1>4 DEF Lists
    <2>3. \A q \in OpTypes :
            /\ Elements(cache'[q]) \subseteq Elements(cache[q]) \cup {s}
            /\ q # o => Elements(cache'[q]) = Elements(cache[q])
            /\ Distinct(cache'[q])
      BY <1>1, <1>11, <2>1 DEF Lists
    <2>4. alloc' = alloc
      BY <1>2
    <2>5. \A q \in OpTypes : Elements(cache[q]) \subseteq alloc \ Held'
      BY <1>1, <1>5 DEF Lists
    <2>6. \A q, m \in OpTypes : q # m => Elements(cache[q]) \cap Elements(cache[m]) = {}
      BY <1>1 DEF Lists
    <2>7. s \in alloc \ Held'
      BY <1>4, <1>5
    <2>8. \A q, m \in OpTypes : q # m => Elements(cache'[q]) \cap Elements(cache'[m]) = {}
      BY <2>2, <2>3, <2>6
    <2> QED
      BY <2>3, <2>4, <2>5, <2>7, <2>8 DEF Lists
  <1> QED
    BY <1>5, <1>6, <1>7, <1>8, <1>13, <1>14, TypePartsNext, OneUserPartsNext DEF Sound

\* The caller forgets its structure.
LEMMA LeaveSound ==
  ASSUME Sound, NEW t \in Callers, LoadFails(t) \/ DigestAgain(t) PROVE Sound'
  <1>1. TypeLib /\ TypeList /\ TypeKey /\ TypeCall /\ Users /\ (initialized /\ ~stale => Lists(cache))
    BY TypeParts, OneUserParts DEF Sound
  <1>2. Leaves(t) /\ UNCHANGED <<me, libVars, listVars, keyVars, stale>>
    BY DEF LoadFails, DigestAgain
  <1>3. \A u \in Callers : sp'[u] = IF u = t THEN None ELSE sp[u]
    BY <1>1, <1>2 DEF Leaves, TypeCall
  <1>4. Held' \subseteq Held
    BY <1>3 DEF Held
  <1>5. Users'
    BY <1>1, <1>2, <1>3, <1>4 DEF Users, listVars
  <1>6. initialized' /\ ~stale' => Lists(cache)'
    BY <1>1, <1>2, <1>4 DEF Lists, listVars, libVars
  <1>7. TypeCall' /\ CallsSound'
    <2>1. TypeCall'
      BY <1>1, <1>2 DEF Leaves, TypeCall
    <2>2. CallsSound'
      BY <1>1, <1>2, NoneApart, Pk11Assumption DEF Leaves, TypeCall, Sound, CallsSound, libVars
    <2> QED
      BY <2>1, <2>2
  <1>8. TypeLib' /\ TypeKey' /\ TypeList'
    BY <1>1, <1>2 DEF TypeLib, TypeKey, TypeList, libVars, keyVars, listVars
  <1>9. Processes'
    BY <1>2 DEF Sound, Processes, Fresh, libVars, keyVars, listVars
  <1> QED
    BY <1>5, <1>6, <1>7, <1>8, <1>9, TypePartsNext, OneUserPartsNext DEF Sound

LEMMA ForkSound == ASSUME Sound, Fork PROVE Sound'
  <1>1. TypeLib /\ TypeList /\ TypeKey /\ TypeCall /\ Users /\ (initialized /\ ~stale => Lists(cache))
    BY TypeParts, OneUserParts DEF Sound
  <1>2. /\ me <= MaxForks /\ me' = me + 1 /\ cryptoki' = FALSE
        /\ store' = [h \in Objects |-> None]
        /\ UNCHANGED <<initialized, libPid, engine, pid, stale>>
        /\ UNCHANGED <<cache, alloc, by>> /\ UNCHANGED <<obj, key, active>>
    BY DEF Fork, listVars
  <1>3. /\ pc' = [t \in Callers |-> IF pc[t] = "context" THEN "context" ELSE "idle"]
        /\ sp' = [t \in Callers |-> IF pc[t] = "context" THEN sp[t] ELSE None]
        /\ op' = [t \in Callers |-> IF pc[t] = "context" THEN op[t] ELSE None]
        /\ want' = [t \in Callers |-> IF pc[t] = "context" THEN want[t] ELSE None]
    BY DEF Fork
  <1>4. me \in Nat /\ me # 0
    BY <1>1 DEF TypeLib, Pids
  <1>5. me' \in Pids /\ 0 .. me \subseteq 0 .. me' /\ me' \notin 0 .. me /\ me' # 1
    BY <1>2, <1>4, Pk11Assumption DEF Pids
  <1>6. TypeLib' /\ TypeList'
    BY <1>1, <1>2, <1>5 DEF TypeLib, TypeList
  <1>7. TypeKey' /\ TypeCall'
    BY <1>1, <1>2, <1>3 DEF TypeKey, TypeCall
  <1>8. Processes'
    BY <1>1, <1>2, <1>5 DEF Sound, Processes, Fresh, TypeList
  <1>9. CallsSound'
    <2>1. None \notin Keyed
      BY Pk11Assumption
    <2> QED
      BY <1>2, <1>3, <2>1 DEF Sound, CallsSound
  <1>10. Held' \subseteq Held /\ Users'
    <2>1. \A t \in Callers : sp'[t] = sp[t] \/ sp'[t] = None
      BY <1>3
    <2> QED
      BY <1>1, <1>2, <2>1 DEF Users, Held
  <1>11. initialized' /\ ~stale' => Lists(cache)'
    BY <1>1, <1>2, <1>10 DEF Lists
  <1> QED
    BY <1>6, <1>7, <1>8, <1>9, <1>10, <1>11, TypePartsNext, OneUserPartsNext DEF Sound

LEMMA LibraryInitSound == ASSUME Sound, LibraryInit PROVE Sound'
  <1>1. TypeLib /\ TypeList /\ TypeKey /\ TypeCall /\ Users /\ (initialized /\ ~stale => Lists(cache))
    BY TypeParts, OneUserParts DEF Sound
  <1>2. /\ UNCHANGED <<me, pid, alloc, by>> /\ UNCHANGED <<obj, key, store>>
        /\ UNCHANGED <<pc, sp, op, want>>
    BY DEF LibraryInit, callVars
  <1>3. \/ UNCHANGED <<initialized, libPid, cryptoki, cache, active, stale>>
        \/ /\ cache' = Empty /\ active' = NoReferences /\ stale' = FALSE
           /\ \/ cryptoki' = TRUE /\ libPid' = me /\ initialized' = TRUE
              \/ UNCHANGED <<initialized, libPid, cryptoki>>
    BY DEF LibraryInit, Restarted
  <1>4. engine' = TRUE /\ me \in 0 .. me
    BY <1>1, Pk11Assumption DEF LibraryInit, TypeLib, Pids
  <1>5. /\ initialized' \in BOOLEAN /\ cryptoki' \in BOOLEAN /\ libPid' \in 0 .. me
        /\ (~cryptoki' => ~cryptoki) /\ (initialized => initialized') /\ (~stale => ~stale')
    <2>1. CASE UNCHANGED <<initialized, libPid, cryptoki, cache, active, stale>>
      BY <1>1, <2>1 DEF TypeLib
    <2>2. CASE stale' = FALSE /\ cryptoki' = TRUE /\ libPid' = me /\ initialized' = TRUE
      BY <1>4, <2>2
    <2>3. CASE stale' = FALSE /\ UNCHANGED <<initialized, libPid, cryptoki>>
      BY <1>1, <2>3 DEF TypeLib
    <2> QED
      BY <1>3, <2>1, <2>2, <2>3
  <1>6. TypeLib'
    BY <1>1, <1>2, <1>4, <1>5 DEF TypeLib
  <1>7. (cache' = cache /\ initialized' = initialized /\ stale' = stale) \/ cache' = Empty
    BY <1>3
  <1>8. TypeList' /\ TypeCall'
    BY <1>1, <1>2, <1>7, EmptyLists DEF TypeList, TypeCall
  <1>9. TypeKey'
    <2>1. NoReferences \in [Keyed -> [Objects -> Nat]]
      BY DEF NoReferences
    <2> QED
      BY <1>1, <1>2, <1>3, <2>1 DEF TypeKey
  <1>10. Processes'
    BY <1>2, <1>5 DEF Sound, Processes, Fresh
  <1>11. CallsSound'
    BY <1>2, <1>5 DEF Sound, CallsSound
  <1>12. Users'
    BY <1>1, <1>2 DEF Users, Held
  <1>13. initialized' /\ ~stale' => Lists(cache)'
    <2>1. CASE cache' = cache /\ initialized' = initialized /\ stale' = stale
      BY <1>1, <1>2, <2>1 DEF Lists, Held
    <2>2. CASE cache' = Empty
      BY <2>2, EmptyLists DEF Lists
    <2> QED
      BY <1>7, <2>1, <2>2
  <1> QED
    BY <1>6, <1>8, <1>9, <1>10, <1>11, <1>12, <1>13, TypePartsNext, OneUserPartsNext DEF Sound

LEMMA NoReferencesType == NoReferences \in [Keyed -> [Objects -> Nat]]
  BY DEF NoReferences

\* Objects only go.
LEMMA ClearedStore ==
  ASSUME Sound, NEW closed, Cleared(closed)
  PROVE  /\ store' \in [Objects -> (Keyed \X Keys) \cup {None}]
         /\ \A h \in Objects : store'[h] = store[h] \/ store'[h] = None
  <1>1. store \in [Objects -> (Keyed \X Keys) \cup {None}]
    BY TypeParts DEF Sound, TypeKey
  <1>2. PICK left : store' = [h \in Objects |-> IF h \in left THEN store[h] ELSE None]
    BY DEF Cleared
  <1> QED
    BY <1>1, <1>2

LEMMA ReleasedType ==
  ASSUME Sound PROVE Released \in [Keyed -> [Objects -> Nat]]
  <1> SUFFICES ASSUME NEW o \in Keyed, NEW h \in Objects
               PROVE  Released[o][h] \in Nat
    BY DEF Released
  <1> DEFINE S == {s \in Listed(o) : obj[s] = h}  n == Cardinality(S)
  <1>1. TypeList /\ TypeKey
    BY TypeParts DEF Sound
  <1>2. o \in OpTypes /\ cache[o] \in Seq(Structs)
    BY <1>1, Pk11Assumption DEF TypeList
  <1>3. S \subseteq Structs
    BY <1>2 DEF Listed
  <1>4. n \in Nat
    BY <1>3, Pk11Assumption, FS_Subset, FS_CardinalityType
  <1>5. active[o][h] \in Nat
    BY <1>1 DEF TypeKey
  <1>6. Released[o][h] = IF active[o][h] > n THEN active[o][h] - n ELSE 0
    BY DEF Released
  <1> HIDE DEF n
  <1> QED
    BY <1>4, <1>5, <1>6

LEMMA FreedType ==
  ASSUME Sound, NEW gone, Freed(gone), me' = me, cache' = cache
  PROVE  /\ TypeList' /\ alloc' \subseteq alloc
         /\ obj' \in [Structs -> Objects \cup {None}]
         /\ key' \in [Structs -> Keys \cup {None}]
         /\ \A s \in Structs : by'[s] = by[s] \/ by'[s] = 0
         /\ \A s \in alloc' : by'[s] = by[s]
  <1>1. TypeLib /\ TypeList /\ TypeKey
    BY TypeParts DEF Sound
  <1>2. 0 \in 0 .. me
    BY <1>1, Pk11Assumption DEF TypeLib, Pids
  <1> QED
    BY <1>1, <1>2 DEF Freed, TypeList, TypeKey

LEMMA FinishSound == ASSUME Sound, Finish PROVE Sound'
  <1>1. TypeLib /\ TypeList /\ TypeKey /\ TypeCall /\ Users
    BY TypeParts, OneUserParts DEF Sound
  <1>2. /\ \A t \in Callers : pc[t] = "idle"
        /\ Freed(AllListed) /\ Cleared(LostSessions = {})
        /\ active' = NoReferences
        /\ initialized' = FALSE /\ libPid' = 0 /\ engine' = FALSE
        /\ UNCHANGED <<me, pid, cryptoki, cache, stale>>
        /\ UNCHANGED <<pc, sp, op, want>>
    BY DEF Finish, Finishing, callVars
  <1>3. /\ TypeList' /\ alloc' \subseteq alloc
        /\ obj' \in [Structs -> Objects \cup {None}]
        /\ key' \in [Structs -> Keys \cup {None}]
        /\ \A s \in Structs : by'[s] = by[s] \/ by'[s] = 0
        /\ \A s \in alloc' : by'[s] = by[s]
    BY <1>2, FreedType
  <1>4. TypeLib' /\ TypeCall'
    <2>1. me' \in Pids /\ pid' \in 0 .. me' /\ libPid' \in 0 .. me'
      BY <1>1, <1>2, Pk11Assumption DEF TypeLib, Pids
    <2>2. initialized' \in BOOLEAN /\ engine' \in BOOLEAN /\ cryptoki' \in BOOLEAN
      BY <1>1, <1>2 DEF TypeLib
    <2> QED
      BY <1>1, <1>2, <2>1, <2>2 DEF TypeLib, TypeCall
  <1>5. TypeKey' /\ \A h \in Objects : store'[h] = store[h] \/ store'[h] = None
    BY <1>2, <1>3, ClearedStore, NoReferencesType DEF TypeKey
  <1>6. Processes'
    <2>1. me # 0
      BY <1>1, Pk11Assumption DEF TypeLib, Pids
    <2> QED
      BY <1>1, <1>2, <1>3, <1>5, <2>1 DEF Sound, Processes, Fresh
  <1>7. CallsSound'
    BY <1>2 DEF Sound, CallsSound
  <1>8. Users'
    <2>1. Held = {} /\ Held' = {}
      BY <1>2 DEF Sound, CallsSound, Held
    <2> QED
      BY <1>1, <1>2, <2>1 DEF Users
  <1> QED
    BY <1>2, <1>3, <1>4, <1>5, <1>6, <1>7, <1>8, TypePartsNext, OneUserPartsNext DEF Sound

LEMMA FinishFailsSound == ASSUME Sound, FinishFails PROVE Sound'
  <1>1. /\ TypeLib /\ TypeList /\ TypeKey /\ TypeCall /\ Users
        /\ initialized /\ ~stale /\ Lists(cache)
    BY TypeParts, OneUserParts DEF Sound, FinishFails, Finishing
  <1>2. /\ \A t \in Callers : pc[t] = "idle"
        /\ alloc' \subseteq alloc /\ Cleared(FALSE) /\ stale' = (AllListed # {})
        /\ active' = Released \/ active' = NoReferences
        /\ UNCHANGED <<me, initialized, libPid, engine, pid, cryptoki>>
        /\ UNCHANGED <<cache, by, obj, key>> /\ UNCHANGED <<pc, sp, op, want>>
    BY DEF FinishFails, Finishing, callVars, libVars
  <1>3. TypeLib' /\ TypeList' /\ TypeCall'
    BY <1>1, <1>2 DEF TypeLib, TypeList, TypeCall
  <1>4. TypeKey' /\ \A h \in Objects : store'[h] = store[h] \/ store'[h] = None
    BY <1>1, <1>2, ClearedStore, NoReferencesType, ReleasedType DEF TypeKey
  <1>5. Processes'
    BY <1>2, <1>4 DEF Sound, Processes, Fresh
  <1>6. CallsSound'
    BY <1>2 DEF Sound, CallsSound
  <1>7. Held = {} /\ Held' = {}
    BY <1>2 DEF Sound, CallsSound, Held
  <1>8. Users'
    BY <1>1, <1>2, <1>7 DEF Users
  <1>9. ~stale' => Lists(cache)'
    <2> SUFFICES ASSUME AllListed = {} PROVE Lists(cache)'
      BY <1>2
    <2>1. \A o \in OpTypes : Listed(o) = {}
      BY DEF AllListed
    <2>2. \A o \in OpTypes : Elements(cache'[o]) = {}
      BY <1>2, <2>1 DEF Listed, Elements
    <2>3. \A o \in OpTypes : Distinct(cache'[o])
      BY <1>1, <1>2 DEF Lists
    <2> QED
      BY <2>2, <2>3 DEF Lists
  <1> QED
    BY <1>2, <1>3, <1>4, <1>5, <1>6, <1>8, <1>9, TypePartsNext, OneUserPartsNext DEF Sound

LEMMA SoundStep == Sound /\ [Next]_vars => Sound'
  <1> SUFFICES ASSUME Sound, [Next]_vars PROVE Sound'
    OBVIOUS
  <1>1. CASE UNCHANGED vars
    <2>1. /\ UNCHANGED <<me, initialized, libPid, engine, pid, cryptoki, stale>>
          /\ UNCHANGED <<cache, alloc, by>> /\ UNCHANGED <<obj, key, active, store>>
          /\ UNCHANGED <<pc, sp, op, want>>
      BY <1>1 DEF vars, libVars, listVars, keyVars, callVars
    <2>2. TypeLib' /\ TypeList' /\ TypeKey' /\ TypeCall'
      BY <2>1, TypeParts DEF Sound, TypeLib, TypeList, TypeKey, TypeCall
    <2>3. Users' /\ (initialized' /\ ~stale' => Lists(cache)')
      BY <2>1, OneUserParts DEF Sound, Users, Lists, Held
    <2>4. Processes' /\ CallsSound'
      BY <2>1 DEF Sound, Processes, Fresh, CallsSound
    <2> QED
      BY <2>2, <2>3, <2>4, TypePartsNext, OneUserPartsNext DEF Sound
  <1>2. CASE Fork \/ LibraryInit \/ Finish \/ FinishFails
    BY <1>2, ForkSound, LibraryInitSound, FinishSound, FinishFailsSound
  <1>3. ASSUME NEW t \in Callers, NEW o \in OpTypes, NEW k \in Keys,
               GetListed(t, o, k) \/ GetNew(t, o, k) \/ GetForked(t, o, k)
        PROVE  Sound'
    BY <1>3, GetListedSound, GetNewSound, GetForkedSound
  <1>4. ASSUME NEW t \in Callers, NEW o \in OpTypes, GetForkedFails(t, o) PROVE Sound'
    BY <1>4, GetForkedFailsSound
  <1>5. ASSUME NEW t \in Callers,
               \/ Check(t) \/ LoadAnyway(t) \/ Find(t) \/ FindFails(t) \/ LoadFails(t)
               \/ Use(t) \/ DigestAgain(t) \/ Return(t)
        PROVE  Sound'
    BY <1>5, CheckSound, FindSound, UseSound, LeaveSound, ReturnSound
  <1> QED
    BY <1>1, <1>2, <1>3, <1>4, <1>5 DEF Next

LEMMA InitSound == Init => Sound
  <1> SUFFICES ASSUME Init PROVE Sound
    OBVIOUS
  <1>1. TypeLib
    BY Pk11Assumption DEF Init, TypeLib, Pids
  <1>2. TypeList
    BY EmptyLists DEF Init, TypeList
  <1>3. TypeKey /\ TypeCall
    BY DEF Init, TypeKey, TypeCall, NoReferences
  <1>4. Held = {}
    BY DEF Init, Held
  <1>5. Users /\ Lists(cache)
    BY <1>4, EmptyLists DEF Init, Users, Lists
  <1>6. CallsSound
    BY Pk11Assumption DEF Init, CallsSound
  <1>7. Processes
    BY DEF Init, Processes, Fresh
  <1> QED
    BY <1>1, <1>2, <1>3, <1>5, <1>6, <1>7, TypeParts, OneUserParts DEF Sound
LEMMA SpecSound == Spec => []Sound
  BY InitSound, SoundStep, PTL DEF Spec

\* Every reachable state has the types of TypeOK: the refcounts of active_list
\* never go below zero (TRY_OBJ_DESTROY on an object the list does not have).
THEOREM TypeCorrect == Spec => []TypeOK
  <1> DEFINE Flags == stale \in BOOLEAN /\ over \in BOOLEAN
  <1>1. Init => Flags
    BY DEF Init
  <1>2. Flags /\ [Next]_vars => Flags'
    <2> SUFFICES ASSUME Flags, [Next]_vars PROVE Flags'
      OBVIOUS
    <2>1. ASSUME NEW t \in Callers, Find(t) \/ FindFails(t) \/ LoadFails(t) PROVE Flags'
      <3>1. stale' = stale /\ over' = (over \/ obj[sp[t]] # None)
        BY <2>1 DEF Find, FindFails, LoadFails
      <3> QED
        BY <3>1
    <2>2. CASE LibraryInit
      <3>1. over' = over /\ (stale' = stale \/ stale' = FALSE)
        BY <2>2 DEF LibraryInit
      <3> QED
        BY <3>1
    <2>3. CASE FinishFails
      <3>1. over' = over /\ stale' = (AllListed # {})
        BY <2>3 DEF FinishFails
      <3> QED
        BY <3>1
    <2>4. CASE Finish
      <3>1. over' = FALSE /\ stale' = stale
        BY <2>4 DEF Finish
      <3> QED
        BY <3>1
    <2>5. ASSUME UNCHANGED <<stale, over>> PROVE Flags'
      BY <2>5
    <2> QED
      BY <2>1, <2>2, <2>3, <2>4, <2>5
         DEF Next, vars, GetListed, GetNew, GetForked, GetForkedFails, Check, LoadAnyway,
             Use, DigestAgain, Return, Fork
  <1>3. Sound /\ Flags => TypeOK
    BY DEF Sound, Typed, TypeLib, TypeList, TypeKey, TypeCall, TypeOK
  <1> HIDE DEF Flags
  <1> QED
    BY <1>1, <1>2, <1>3, SpecSound, PTL DEF Spec

\* pk11_get_session and pk11_return_session: a structure that was taken is
\* disconnected from every free list, and no two callers have the same, until
\* a pk11_finish fails.
THEOREM OneUserCorrect == Spec => []OneUser
  <1>1. Sound => OneUser
    BY DEF Sound, Single, OneUser, Users, Lists, Listed, Elements, Distinct
  <1> QED
    BY <1>1, SpecSound, PTL
-----------------------------------------------------------------------------
\* No list gains a session of another process where lists gain only sessions
\* of this one.
LEMMA InheritedFewer ==
  ASSUME me' = me, TypeList, TypeList',
         \A s \in Structs : by'[s] \in {by[s], me, 0},
         \A o \in OpTypes : \A s \in Elements(cache'[o]) :
            s \in Elements(cache[o]) \/ by'[s] = me
  PROVE  Inherited' \subseteq Inherited
  <1> SUFFICES ASSUME NEW s \in Inherited' PROVE s \in Inherited
    OBVIOUS
  <1>1. PICK o \in OpTypes : s \in Elements(cache'[o]) /\ by'[s] # me /\ by'[s] # 0
    BY DEF Inherited, AllListed, Listed, Elements
  <1>2. s \in Elements(cache[o])
    BY <1>1
  <1>3. s \in Structs
    <2>1. cache[o] \in Seq(Structs)
      BY DEF TypeList
    <2> QED
      BY <1>2, <2>1 DEF Elements
  <1>4. by[s] # me /\ by[s] # 0
    BY <1>1, <1>3
  <1> QED
    BY <1>2, <1>4 DEF Inherited, AllListed, Listed, Elements

LEMMA InheritedStep ==
  ASSUME Sound, Sound', [Next]_vars, me' = me PROVE Inherited' \subseteq Inherited
  <1>1. TypeList /\ TypeList' /\ TypeCall
    BY TypeParts, TypePartsNext DEF Sound
  <1>2. ASSUME UNCHANGED <<cache, by>> PROVE Inherited' \subseteq Inherited
    BY <1>2 DEF Inherited, AllListed, Listed
  <1>3. ASSUME NEW s \in Structs, NEW gone, SetUp(s, gone)
        PROVE  \A r \in Structs : by'[r] \in {by[r], me, 0}
    BY <1>1, <1>3 DEF SetUp, TypeList
  <1>4. CASE UNCHANGED vars
    BY <1>2, <1>4 DEF vars, listVars
  <1>5. ASSUME NEW t \in Callers, NEW o \in OpTypes, NEW k \in Keys, GetListed(t, o, k)
        PROVE  Inherited' \subseteq Inherited
    <2>1. cache' = [cache EXCEPT ![o] = Tail(cache[o])] /\ by' = by /\ cache[o] # <<>>
      BY <1>5 DEF GetListed
    <2>2. cache[o] \in Seq(Structs) /\ Distinct(cache[o])
      BY <1>1, <1>5, OneUserParts DEF Sound, GetListed, Idle, TypeList, Lists
    <2>3. Elements(Tail(cache[o])) = Elements(cache[o]) \ {Head(cache[o])}
      BY <2>1, <2>2, TailElements
    <2>4. \A q \in OpTypes : cache'[q] = IF q = o THEN Tail(cache[o]) ELSE cache[q]
      BY <1>1, <2>1 DEF TypeList
    <2>5. \A q \in OpTypes : \A s \in Elements(cache'[q]) : s \in Elements(cache[q])
      BY <2>3, <2>4
    <2> QED
      BY <1>1, <2>1, <2>5, InheritedFewer
  <1>6. ASSUME NEW t \in Callers, NEW o \in OpTypes, NEW k \in Keys, GetNew(t, o, k)
        PROVE  Inherited' \subseteq Inherited
    <2>1. PICK s \in Structs : SetUp(s, {})
      BY <1>6 DEF GetNew
    <2>2. cache' = cache \/ cache' = Empty
      BY <1>6 DEF GetNew
    <2>3. \A q \in OpTypes : \A r \in Elements(cache'[q]) : r \in Elements(cache[q])
      BY <2>2, EmptyLists
    <2> QED
      BY <1>1, <1>3, <2>1, <2>3, InheritedFewer
  <1>7. ASSUME NEW t \in Callers, NEW o \in OpTypes, NEW k \in Keys, GetForked(t, o, k)
        PROVE  Inherited' \subseteq Inherited
    <2>1. PICK s \in IF cache[o] = <<>> THEN Structs \ alloc ELSE {Head(cache[o])} :
             SetUp(s, Listed(o)) /\ cache' = [cache EXCEPT ![o] = <<>>]
      BY <1>7 DEF GetForked
    <2>2. s \in Structs
      <3>1. cache[o] \in Seq(Structs)
        BY <1>1 DEF TypeList
      <3> QED
        BY <2>1, <3>1
    <2>3. \A q \in OpTypes : cache'[q] = IF q = o THEN <<>> ELSE cache[q]
      BY <1>1, <2>1 DEF TypeList
    <2>4. Elements(<<>>) = {}
      BY DEF Elements
    <2>5. \A q \in OpTypes : \A r \in Elements(cache'[q]) : r \in Elements(cache[q])
      BY <2>3, <2>4
    <2> QED
      BY <1>1, <1>3, <2>1, <2>2, <2>5, InheritedFewer
  <1>8. ASSUME NEW t \in Callers, Return(t) PROVE Inherited' \subseteq Inherited
    <2>1. PICK r : r = IF by[sp[t]] = me THEN <<sp[t]>> \o cache[op[t]] ELSE cache[op[t]]
      OBVIOUS
    <2>2. by' = by /\ cache' = [cache EXCEPT ![op[t]] = r] /\ pc[t] = "done"
      BY <1>8, <2>1 DEF Return
    <2>3. sp[t] \in Structs /\ op[t] \in OpTypes /\ sp[t] \in Held /\ initialized /\ ~stale
      BY <2>2, NoneApart DEF Sound, CallsSound, Held
    <2>4. /\ cache[op[t]] \in Seq(Structs) /\ Distinct(cache[op[t]])
          /\ sp[t] \notin Elements(cache[op[t]])
      BY <1>1, <2>3, OneUserParts DEF Sound, TypeList, Lists
    <2>5. \A s \in Elements(r) : s \in Elements(cache[op[t]]) \/ by'[s] = me
      BY <2>1, <2>2, <2>3, <2>4, ConsElements
    <2>6. \A q \in OpTypes : cache'[q] = IF q = op[t] THEN r ELSE cache[q]
      BY <1>1, <2>2 DEF TypeList
    <2>7. \A q \in OpTypes : \A s \in Elements(cache'[q]) : s \in Elements(cache[q]) \/ by'[s] = me
      BY <2>5, <2>6
    <2> QED
      BY <1>1, <2>2, <2>7, InheritedFewer
  <1>9. CASE LibraryInit
    <2>1. by' = by /\ (cache' = cache \/ cache' = Empty)
      BY <1>9 DEF LibraryInit
    <2>2. \A q \in OpTypes : \A r \in Elements(cache'[q]) : r \in Elements(cache[q])
      BY <2>1, EmptyLists
    <2> QED
      BY <1>1, <2>1, <2>2, InheritedFewer
  <1>10. CASE Fork
    BY <1>10, TypeParts DEF Sound, TypeLib, Pids, Fork
  <1>11. CASE Finish \/ FinishFails
    <2>1. cache' = cache /\ \A r \in Structs : by'[r] \in {by[r], me, 0}
      BY <1>1, <1>11 DEF Finish, FinishFails, Freed, TypeList
    <2> QED
      BY <1>1, <2>1, InheritedFewer
  <1>12. ASSUME NEW t \in Callers, NEW o \in OpTypes, GetForkedFails(t, o)
         PROVE  Inherited' \subseteq Inherited
    BY <1>2, <1>12 DEF GetForkedFails, listVars
  <1>13. ASSUME NEW t \in Callers,
                \/ Check(t) \/ LoadAnyway(t) \/ Find(t) \/ FindFails(t) \/ LoadFails(t)
                \/ Use(t) \/ DigestAgain(t)
         PROVE  Inherited' \subseteq Inherited
    BY <1>2, <1>13 DEF Check, LoadAnyway, Find, FindFails, LoadFails, Use, DigestAgain, listVars
  <1> QED
    BY <1>4, <1>5, <1>6, <1>7, <1>8, <1>9, <1>10, <1>11, <1>12, <1>13 DEF Next

\* pk11_return_session: no list gains a session that another process opened.
THEOREM InheritedLeaveCorrect == Spec => InheritedLeave
  <1>1. Sound /\ Sound' /\ [Next]_vars => [me' = me => Inherited' \subseteq Inherited]_vars
    BY InheritedStep
  <1> QED
    BY <1>1, SpecSound, PTL DEF Spec, InheritedLeave
-----------------------------------------------------------------------------
\* The key objects.  Own(o): the structures of a type that are this process's.
Own(o) == {s \in Listed(o) \cup InUse(o) : by[s] = me}

\* What an own structure refers to is there and is the key it says; of the
\* objects the parent had there are none.
ObjectsAreTrue ==
    /\ initialized /\ ~stale =>
         \A o \in Keyed : \A s \in Own(o) : obj[s] # None => store[obj[s]] = <<o, key[s]>>
    /\ \A s \in alloc : by[s] # me /\ obj[s] # None => store[obj[s]] = None
    /\ \A s \in Structs : key[s] = None <=> obj[s] = None

\* Where a caller is tells what its structure remembers.
CallersKeys ==
    \A t \in Callers : /\ pc[t] = "find" => obj[sp[t]] = None \/ key[sp[t]] = want[t]
                       /\ pc[t] = "use" => key[sp[t]] = want[t]

Counted(o, h) == /\ active[o][h] >= Cardinality(Referring(o, h))
                 /\ me = 1 /\ ~over => active[o][h] = Cardinality(Referring(o, h))
Counts == initialized /\ ~stale => \A o \in Keyed, h \in Objects : Counted(o, h)

LEMMA CountsParts == (CountsHold <=> Counts) /\ (CountsHold' <=> Counts')
  BY DEF CountsHold, Counts, Counted

KInv == Sound /\ ObjectsAreTrue /\ CallersKeys /\ Counts

LEMMA ReferringOwn ==
  ASSUME NEW o, NEW h
  PROVE  /\ Referring(o, h) = {s \in Own(o) : obj[s] = h}
         /\ Referring(o, h)' = {s \in Own(o)' : obj'[s] = h}
  BY DEF Referring, Own

LEMMA OwnStructs ==
  ASSUME Sound, NEW o \in OpTypes
  PROVE  /\ Own(o) \subseteq Structs
         /\ initialized /\ ~stale => Own(o) \subseteq alloc
         /\ \A h : IsFiniteSet(Referring(o, h))
  <1>1. TypeList /\ Users /\ (initialized /\ ~stale => Lists(cache))
    BY TypeParts, OneUserParts DEF Sound
  <1>2. Listed(o) = Elements(cache[o])
    BY DEF Listed, Elements
  <1>3. Elements(cache[o]) \subseteq Structs
    <2>1. cache[o] \in Seq(Structs)
      BY <1>1 DEF TypeList
    <2> QED
      BY <2>1 DEF Elements
  <1>4. Own(o) \subseteq Structs
    BY <1>2, <1>3 DEF Own, InUse
  <1>5. InUse(o) \subseteq Held
    BY NoneApart DEF InUse, Held
  <1>6. initialized /\ ~stale => Own(o) \subseteq alloc
    BY <1>1, <1>2, <1>5 DEF Own, Users, Lists
  <1>7. \A h : IsFiniteSet(Referring(o, h))
    <2> SUFFICES ASSUME NEW h PROVE IsFiniteSet(Referring(o, h))
      OBVIOUS
    <2>1. Referring(o, h) \subseteq Structs
      BY <1>4, ReferringOwn
    <2> QED
      BY <2>1, Pk11Assumption, FS_Subset
  <1> QED
    BY <1>4, <1>6, <1>7

LEMMA OwnStructsNext == ASSUME Sound', NEW o \in OpTypes PROVE Own(o)' \subseteq Structs
  <1>1. cache'[o] \in Seq(Structs)
    BY TypePartsNext DEF Sound, TypeList
  <1> QED
    BY <1>1 DEF Own, Listed, InUse

\* Structures of two types are apart.
LEMMA OwnApart ==
  ASSUME Sound, initialized, ~stale, NEW o \in OpTypes, NEW q \in OpTypes, o # q
  PROVE  Own(o) \cap Own(q) = {}
  <1>1. Users /\ Lists(cache)
    BY OneUserParts DEF Sound
  <1>2. Listed(o) = Elements(cache[o]) /\ Listed(q) = Elements(cache[q])
    BY DEF Listed, Elements
  <1>3. InUse(o) \subseteq Held /\ InUse(q) \subseteq Held
    BY NoneApart DEF InUse, Held
  <1>4. InUse(o) \cap InUse(q) = {}
    BY <1>1, NoneApart DEF InUse, Users
  <1> QED
    BY <1>1, <1>2, <1>3, <1>4 DEF Own, Lists

\* A step that changes neither objects nor which structures are whose.
LEMMA KeyFrame ==
  ASSUME KInv, initialized' = initialized, stale' = stale, over => over',
         UNCHANGED <<me, by, alloc>>, UNCHANGED <<obj, key, active, store>>,
         initialized /\ ~stale => \A o \in Keyed : Own(o)' = Own(o)
  PROVE  ObjectsAreTrue' /\ Counts'
  <1>1. ObjectsAreTrue'
    BY DEF KInv, ObjectsAreTrue
  <1>2. ASSUME initialized, ~stale, NEW o \in Keyed, NEW h \in Objects
        PROVE  Referring(o, h)' = Referring(o, h)
    BY <1>2, ReferringOwn
  <1>3. Counts'
    BY <1>2 DEF KInv, Counts, Counted
  <1> QED
    BY <1>1, <1>3
-----------------------------------------------------------------------------
LEMMA GivenInUse ==
  ASSUME Sound, NEW t \in Callers, NEW s \in Structs, NEW o \in OpTypes, NEW k \in Keys,
         Idle(t), Given(t, s, o, k), NEW q \in OpTypes
  PROVE  /\ InUse(q)' \subseteq InUse(q) \cup {s}
         /\ InUse(q) \subseteq InUse(q)'
         /\ q = o => s \in InUse(q)'
         /\ q # o => InUse(q)' \subseteq InUse(q)
  <1>1. TypeCall
    BY TypeParts DEF Sound
  <1>2. sp[t] = None
    BY DEF Sound, CallsSound, Idle
  <1>3. \A u \in Callers : /\ sp'[u] = IF u = t THEN s ELSE sp[u]
                           /\ op'[u] = IF u = t THEN o ELSE op[u]
    BY <1>1 DEF Given, TypeCall
  <1> QED
    BY <1>2, <1>3, NoneApart DEF InUse

\* A structure that was set up and given to a caller.
LEMMA NewStructKeys ==
  ASSUME KInv, Sound', NEW t \in Callers, NEW s \in Structs, NEW o \in OpTypes, NEW k \in Keys,
         Idle(t), Given(t, s, o, k), s \notin Held,
         NEW gone, SetUp(s, gone), gone \cap Held = {},
         me' = me, store' = store, alloc' \subseteq alloc \cup {s},
         \A q \in Keyed : Own(q)' \subseteq Own(q) \cup {s}
  PROVE  ObjectsAreTrue' /\ CallersKeys'
  <1>1. TypeList /\ TypeKey /\ TypeCall
    BY TypeParts DEF KInv, Sound
  <1>2. /\ by'[s] = me /\ obj'[s] = None /\ key'[s] = None
        /\ \A r \in Structs : IF r \in gone \cup {s}
                              THEN obj'[r] = None /\ key'[r] = None
                              ELSE by'[r] = by[r] /\ obj'[r] = obj[r] /\ key'[r] = key[r]
    BY <1>1 DEF SetUp, TypeList, TypeKey
  <1>3. ASSUME NEW q \in Keyed, NEW r \in Own(q)', obj'[r] # None
        PROVE  store'[obj'[r]] = <<q, key'[r]>>
    <2>1. q \in OpTypes /\ initialized /\ ~stale
      BY Pk11Assumption DEF Idle
    <2>2. r # s /\ r \in Own(q)
      BY <1>2, <1>3
    <2>3. r \in Structs /\ r \notin gone
      BY <1>2, <1>3, <2>1, <2>2, OwnStructs DEF KInv
    <2>4. obj'[r] = obj[r] /\ key'[r] = key[r] /\ obj[r] # None
      BY <1>2, <1>3, <2>2, <2>3
    <2>5. store[obj[r]] = <<q, key[r]>>
      BY <2>1, <2>2, <2>4 DEF KInv, ObjectsAreTrue
    <2> QED
      BY <2>4, <2>5
  <1>4. ASSUME NEW r \in alloc', by'[r] # me, obj'[r] # None PROVE store'[obj'[r]] = None
    <2>1. r # s /\ r \in alloc /\ r \in Structs /\ r \notin gone
      BY <1>1, <1>2, <1>4 DEF TypeList
    <2> QED
      BY <1>2, <1>4, <2>1 DEF KInv, ObjectsAreTrue
  <1>5. \A r \in Structs : key'[r] = None <=> obj'[r] = None
    BY <1>2 DEF KInv, ObjectsAreTrue
  <1>6. ObjectsAreTrue'
    BY <1>3, <1>4, <1>5 DEF ObjectsAreTrue
  <1>7. CallersKeys'
    <2>1. ASSUME NEW u \in Callers, pc'[u] \in {"find", "use"}
          PROVE  /\ pc'[u] = "find" => obj'[sp'[u]] = None \/ key'[sp'[u]] = want'[u]
                 /\ pc'[u] = "use" => key'[sp'[u]] = want'[u]
      <3>1. u # t /\ pc'[u] = pc[u] /\ sp'[u] = sp[u] /\ want'[u] = want[u]
        BY <1>1, <2>1 DEF Given, TypeCall
      <3>2. sp[u] \in Structs /\ sp[u] # s /\ sp[u] \notin gone
        BY <2>1, <3>1, NoneApart DEF KInv, Sound, CallsSound, Held
      <3> QED
        BY <1>2, <3>1, <3>2 DEF KInv, CallersKeys
    <2> QED
      BY <2>1 DEF CallersKeys
  <1> QED
    BY <1>6, <1>7

\* Where the lists were started anew there is no reference yet.
LEMMA NoneReferred ==
  ASSUME Sound, Sound', NEW s \in Structs, obj'[s] = None, me' = me, me # 1,
         \A q \in Keyed : Own(q)' \subseteq {s}
  PROVE  Counts'
  <1> SUFFICES ASSUME NEW q \in Keyed, NEW h \in Objects PROVE Counted(q, h)'
    BY DEF Counts
  <1>1. active'[q][h] \in Nat
    BY TypePartsNext DEF Sound, TypeKey
  <1>2. Referring(q, h)' = {}
    BY ReferringOwn, NoneApart
  <1>3. Cardinality(Referring(q, h)') = 0
    BY <1>2, FS_EmptySet
  <1> QED
    BY <1>1, <1>3 DEF Counted

LEMMA NotFirst == ASSUME Sound, ~cryptoki \/ ~SameProcess PROVE me # 1 /\ Fresh
  <1>1. CASE ~cryptoki
    BY <1>1 DEF Sound, Processes
  <1>2. CASE ~SameProcess
    <2>1. pid # me /\ pid # 0 /\ pid \in 0 .. me
      BY <1>2, TypeParts DEF Sound, TypeLib, SameProcess
    <2> QED
      BY <2>1 DEF Sound, Processes
  <1> QED
    BY <1>1, <1>2

LEMMA GetNewKeys ==
  ASSUME KInv, Sound', NEW t \in Callers, NEW o \in OpTypes, NEW k \in Keys, GetNew(t, o, k)
  PROVE  ObjectsAreTrue' /\ CallersKeys' /\ Counts'
  <1>1. PICK s \in Structs : /\ s \notin alloc /\ alloc' = alloc \cup {s}
                             /\ SetUp(s, {}) /\ Given(t, s, o, k)
    BY DEF GetNew
  <1>2. /\ TypeList /\ TypeKey /\ Users /\ Lists(cache) /\ initialized = TRUE /\ ~stale
        /\ initialized' = TRUE /\ Sound
    BY TypeParts, OneUserParts DEF KInv, Sound, Idle, TypeLib, GetNew, Restarted
  <1>3. /\ Idle(t) /\ me' = me /\ store' = store /\ over' = over
        /\ cryptoki => UNCHANGED <<cache, active>>
        /\ ~cryptoki => cache' = Empty
    BY DEF GetNew
  <1>4. s \notin Held
    BY <1>1, <1>2 DEF Users
  <1>5. /\ by'[s] = me /\ obj'[s] = None
        /\ \A r \in Structs : r # s => by'[r] = by[r] /\ obj'[r] = obj[r]
    BY <1>1, <1>2 DEF SetUp, TypeList, TypeKey
  <1>6. ASSUME NEW q \in Keyed
        PROVE  InUse(q)' \subseteq InUse(q) \cup {s} /\ InUse(q) \subseteq InUse(q)' /\ q \in OpTypes
    BY <1>1, <1>2, <1>3, GivenInUse, Pk11Assumption
  <1>7. CASE cryptoki
    <2>1. ASSUME NEW q \in Keyed
          PROVE  Own(q)' \subseteq Own(q) \cup {s} /\ Own(q) \subseteq Own(q)' /\ s \notin Own(q)
      <3>1. Listed(q)' = Listed(q)
        BY <1>3, <1>7 DEF Listed
      <3>2. Own(q) \subseteq Structs /\ s \notin Own(q)
        BY <1>1, <1>2, <1>6, OwnStructs
      <3>3. Own(q)' \subseteq Structs
        BY <1>6, OwnStructsNext
      <3> QED
        BY <1>3, <1>5, <1>6, <3>1, <3>2, <3>3 DEF Own
    <2>2. ObjectsAreTrue' /\ CallersKeys'
      BY <1>1, <1>2, <1>3, <1>4, <2>1, NewStructKeys
    <2>3. ASSUME NEW q \in Keyed, NEW h \in Objects PROVE Referring(q, h)' = Referring(q, h)
      <3>1. Own(q) \subseteq Structs
        BY <1>2, <1>6, OwnStructs
      <3>2. \A r \in Own(q) : obj'[r] = obj[r]
        BY <1>5, <2>1, <3>1
      <3>3. obj'[s] # h
        BY <1>5, NoneApart
      <3>4. {r \in Own(q)' : obj'[r] = h} = {r \in Own(q) : obj[r] = h}
        BY <2>1, <3>2, <3>3
      <3>5. Referring(q, h) = {r \in Own(q) : obj[r] = h}
        BY ReferringOwn
      <3>6. Referring(q, h)' = {r \in Own(q)' : obj'[r] = h}
        BY ReferringOwn
      <3> QED
        BY <3>4, <3>5, <3>6
    <2>4. Counts'
      BY <1>2, <1>3, <1>7, <2>3 DEF KInv, Counts, Counted
    <2> QED
      BY <2>2, <2>4
  <1>8. CASE ~cryptoki
    <2>1. me # 1 /\ Fresh
      BY <1>2, <1>8, NotFirst
    <2>2. ASSUME NEW q \in Keyed PROVE Own(q)' \subseteq {s}
      <3>1. Listed(q)' = {}
        BY <1>3, <1>6, <1>8 DEF Listed, Empty
      <3> QED
        BY <1>3, <1>5, <1>6, <2>1, <3>1 DEF Own, InUse, Fresh
    <2>3. ObjectsAreTrue' /\ CallersKeys'
      BY <1>1, <1>2, <1>3, <1>4, <2>2, NewStructKeys
    <2> QED
      BY <1>2, <1>3, <1>5, <2>1, <2>2, <2>3, NoneReferred
  <1> QED
    BY <1>7, <1>8

LEMMA GetForkedKeys ==
  ASSUME KInv, Sound', NEW t \in Callers, NEW o \in OpTypes, NEW k \in Keys,
         GetForked(t, o, k)
  PROVE  ObjectsAreTrue' /\ CallersKeys' /\ Counts'
  <1>1. PICK s \in IF cache[o] = <<>> THEN Structs \ alloc ELSE {Head(cache[o])} :
          /\ alloc' = (alloc \ Listed(o)) \cup {s}
          /\ cache' = [cache EXCEPT ![o] = <<>>]
          /\ SetUp(s, Listed(o))
          /\ Given(t, s, o, k)
    BY DEF GetForked
  <1>2. /\ TypeList /\ TypeKey /\ Users /\ Lists(cache) /\ Sound
        /\ initialized = TRUE /\ ~stale
    BY TypeParts, OneUserParts DEF KInv, Sound, Idle, TypeLib, GetForked
  <1>3. Idle(t) /\ ~SameProcess /\ me' = me /\ store' = store
    BY DEF GetForked
  <1>4. s \in Structs /\ s \notin Held
    <2>1. CASE cache[o] = <<>>
      BY <1>1, <1>2, <2>1 DEF Users
    <2>2. CASE cache[o] # <<>>
      <3>1. cache[o] \in Seq(Structs) /\ Distinct(cache[o])
        BY <1>2 DEF TypeList, Lists
      <3>2. s = Head(cache[o]) /\ s \in Elements(cache[o]) /\ s \in Structs
        BY <1>1, <2>2, <3>1, TailElements
      <3> QED
        BY <1>2, <3>2 DEF Lists
    <2> QED
      BY <2>1, <2>2
  <1>5. /\ obj'[s] = None /\ Listed(o) \cap Held = {}
        /\ \A r \in Structs : r # s => by'[r] = by[r] \/ by'[r] = 0
    <2>1. Listed(o) = Elements(cache[o])
      BY DEF Listed, Elements
    <2> QED
      BY <1>1, <1>2, <1>4, <2>1 DEF SetUp, TypeList, TypeKey, Lists
  <1>6. me # 1 /\ me # 0 /\ Fresh
    BY <1>2, <1>3, NotFirst, TypeParts DEF Sound, TypeLib, Pids
  <1>7. ASSUME NEW q \in Keyed PROVE Own(q)' \subseteq {s}
    <2>1. q \in OpTypes
      BY Pk11Assumption
    <2>2. Own(q)' \subseteq Structs
      BY <2>1, OwnStructsNext
    <2> QED
      BY <1>3, <1>5, <1>6, <2>2 DEF Own, Fresh
  <1>8. ObjectsAreTrue' /\ CallersKeys'
    BY <1>1, <1>2, <1>3, <1>4, <1>5, <1>7, NewStructKeys
  <1> QED
    BY <1>2, <1>3, <1>4, <1>5, <1>6, <1>7, <1>8, NoneReferred
\* In a child that only noted itself.
LEMMA GetForkedFailsKeys ==
  ASSUME KInv, Sound', NEW t \in Callers, NEW o \in OpTypes, GetForkedFails(t, o)
  PROVE  ObjectsAreTrue' /\ CallersKeys' /\ Counts'
  <1>1. /\ UNCHANGED <<me, initialized, cache, alloc, by>> /\ UNCHANGED <<obj, key, store>>
        /\ UNCHANGED <<pc, sp, op, want, stale>>
        /\ ~SameProcess
    BY DEF GetForkedFails, listVars, callVars
  <1>2. Sound /\ me # 1 /\ Fresh
    BY <1>1, NotFirst DEF KInv
  <1>3. ASSUME NEW q \in Keyed PROVE Own(q)' = Own(q)
    BY <1>1 DEF Own, Listed, InUse
  <1>4. ObjectsAreTrue' /\ CallersKeys'
    BY <1>1, <1>3 DEF KInv, ObjectsAreTrue, CallersKeys
  <1>5. ASSUME NEW q \in Keyed, NEW h \in Objects PROVE Counted(q, h)'
    <2>1. active'[q][h] \in Nat
      BY TypePartsNext DEF Sound, TypeKey
    <2>2. q \in OpTypes
      BY Pk11Assumption
    <2>3. Referring(q, h)' = {}
      BY <1>1, <1>2, <1>3, <2>2, OwnStructs, ReferringOwn DEF Own, Fresh
    <2> QED
      BY <1>1, <1>2, <2>1, <2>3, FS_EmptySet DEF Counted
  <1> QED
    BY <1>4, <1>5 DEF Counts

LEMMA GetListedKeys ==
  ASSUME KInv, Sound', NEW t \in Callers, NEW o \in OpTypes, NEW k \in Keys,
         GetListed(t, o, k)
  PROVE  ObjectsAreTrue' /\ CallersKeys' /\ Counts'
  <1>0. PICK s : s = Head(cache[o])
    OBVIOUS
  <1>1. /\ Idle(t) /\ cache[o] # <<>> /\ Given(t, s, o, k)
        /\ cache' = [cache EXCEPT ![o] = Tail(cache[o])]
        /\ UNCHANGED <<me, initialized, alloc, by>> /\ UNCHANGED <<obj, key, active, store>>
        /\ UNCHANGED <<stale, over>>
    BY <1>0 DEF GetListed, keyVars
  <1>2. TypeList /\ TypeCall /\ Lists(cache) /\ Sound
    BY <1>1, TypeParts, OneUserParts DEF KInv, Sound, Idle
  <1>3. cache[o] \in Seq(Structs) /\ Distinct(cache[o])
    BY <1>2 DEF TypeList, Lists
  <1>4. /\ s \in Elements(cache[o]) /\ s \in Structs
        /\ Elements(Tail(cache[o])) = Elements(cache[o]) \ {s}
    BY <1>0, <1>1, <1>3, TailElements
  <1>5. ASSUME NEW q \in Keyed PROVE Own(q)' = Own(q)
    <2>1. q \in OpTypes
      BY Pk11Assumption
    <2>2. /\ InUse(q)' \subseteq InUse(q) \cup {s} /\ InUse(q) \subseteq InUse(q)'
          /\ q = o => s \in InUse(q)'
          /\ q # o => InUse(q)' \subseteq InUse(q)
      BY <1>1, <1>2, <1>4, <2>1, GivenInUse
    <2>3. Listed(q) = Elements(cache[q]) /\ Listed(q)' = Elements(cache'[q])
      BY DEF Listed, Elements
    <2>4. CASE q = o
      <3>1. Listed(q)' = Listed(q) \ {s} /\ s \in Listed(q)
        BY <1>1, <1>2, <1>4, <2>1, <2>3, <2>4 DEF TypeList
      <3>2. (Listed(q) \cup InUse(q))' = Listed(q) \cup InUse(q)
        BY <2>2, <2>4, <3>1
      <3> QED
        BY <1>1, <3>2 DEF Own
    <2>5. CASE q # o
      <3>1. Listed(q)' = Listed(q)
        BY <1>1, <1>2, <2>1, <2>3, <2>5 DEF TypeList
      <3>2. InUse(q)' = InUse(q)
        BY <2>2, <2>5
      <3> QED
        BY <1>1, <3>1, <3>2 DEF Own
    <2> QED
      BY <2>4, <2>5
  <1>6. CallersKeys'
    <2>1. ASSUME NEW u \in Callers, pc'[u] \in {"find", "use"}
          PROVE  pc'[u] = pc[u] /\ sp'[u] = sp[u] /\ want'[u] = want[u]
      BY <1>1, <1>2, <2>1 DEF Given, TypeCall
    <2> QED
      BY <1>1, <2>1 DEF KInv, CallersKeys
  <1> QED
    BY <1>1, <1>5, <1>6, KeyFrame

\* A step that only moves a caller on, to where nothing is asked of its key.
LEMMA UseKeys ==
  ASSUME KInv, Sound', NEW t \in Callers, LoadAnyway(t) \/ Use(t)
  PROVE  ObjectsAreTrue' /\ CallersKeys' /\ Counts'
  <1>1. /\ \/ pc' = [pc EXCEPT ![t] = "done"]
           \/ pc' = [pc EXCEPT ![t] = "find"] /\ key[sp[t]] = want[t]
        /\ UNCHANGED <<me, initialized, cache, alloc, by>> /\ UNCHANGED <<stale, over>>
        /\ UNCHANGED <<obj, key, active, store>> /\ UNCHANGED <<sp, op, want>>
    BY DEF LoadAnyway, Use, libVars, listVars, keyVars
  <1>2. TypeCall
    BY TypeParts DEF KInv, Sound
  <1>3. \A q \in Keyed : Own(q)' = Own(q)
    BY <1>1 DEF Own, Listed, InUse
  <1>4. CallersKeys'
    BY <1>1, <1>2 DEF KInv, CallersKeys, TypeCall
  <1> QED
    BY <1>1, <1>3, <1>4, KeyFrame

\* A structure that forgets its object, or is forgotten, is one fewer to refer
\* to it, and the count is noted not to be exact.
LEMMA FewerReferring ==
  ASSUME KInv, initialized, ~stale, me' = me, active' = active, NEW q \in Keyed, NEW h \in Objects,
         over => over', Referring(q, h)' \subseteq Referring(q, h),
         ~over' => Referring(q, h)' = Referring(q, h)
  PROVE  Counted(q, h)'
  <1>1. q \in OpTypes
    BY Pk11Assumption
  <1>2. IsFiniteSet(Referring(q, h)) /\ Counted(q, h)
    BY <1>1, OwnStructs DEF KInv, Counts
  <1>3. active[q][h] \in Nat
    BY TypeParts DEF KInv, Sound, TypeKey
  <1>4. /\ Cardinality(Referring(q, h)') \in Nat /\ Cardinality(Referring(q, h)) \in Nat
        /\ Cardinality(Referring(q, h)') <= Cardinality(Referring(q, h))
    BY <1>2, FS_Subset, FS_CardinalityType
  <1> QED
    BY <1>2, <1>3, <1>4 DEF Counted

LEMMA FindFailsKeys ==
  ASSUME KInv, Sound', NEW t \in Callers, FindFails(t)
  PROVE  ObjectsAreTrue' /\ CallersKeys' /\ Counts'
  <1>1. /\ Sound /\ TypeList /\ TypeKey /\ TypeCall /\ Users /\ pc[t] = "find"
        /\ sp[t] \in Structs /\ initialized /\ ~stale
    BY TypeParts, OneUserParts DEF KInv, Sound, CallsSound, FindFails
  <1>2. PICK s \in Structs : s = sp[t]
    BY <1>1
  <1>3. /\ pc' = [pc EXCEPT ![t] = "done"] /\ over' = (over \/ obj[s] # None)
        /\ UNCHANGED <<me, initialized, cache, alloc, by>> /\ UNCHANGED <<active, store>>
        /\ UNCHANGED <<sp, op, want, stale>>
    BY <1>2 DEF FindFails, libVars, listVars
  <1>4. \A r \in Structs : /\ obj'[r] = IF r = s THEN None ELSE obj[r]
                           /\ key'[r] = IF r = s THEN None ELSE key[r]
    BY <1>1, <1>2 DEF FindFails, TypeKey
  <1>5. ASSUME NEW q \in Keyed PROVE Own(q)' = Own(q) /\ Own(q) \subseteq Structs
    BY <1>1, <1>3, OwnStructs, Pk11Assumption DEF Own, Listed, InUse
  <1>6. ObjectsAreTrue'
    <2>1. ASSUME NEW q \in Keyed, NEW r \in Own(q)', obj'[r] # None
          PROVE  store'[obj'[r]] = <<q, key'[r]>>
      <3>1. r \in Own(q) /\ obj'[r] = obj[r] /\ key'[r] = key[r]
        BY <1>4, <1>5, <2>1
      <3>2. store[obj[r]] = <<q, key[r]>>
        BY <1>1, <2>1, <3>1 DEF KInv, ObjectsAreTrue
      <3> QED
        BY <1>3, <3>1, <3>2
    <2>2. ASSUME NEW r \in alloc', by'[r] # me, obj'[r] # None PROVE store'[obj'[r]] = None
      <3>1. r \in alloc /\ obj'[r] = obj[r] /\ by[r] # me
        BY <1>1, <1>3, <1>4, <2>2 DEF TypeList
      <3>2. store[obj[r]] = None
        BY <2>2, <3>1 DEF KInv, ObjectsAreTrue
      <3> QED
        BY <1>3, <3>1, <3>2
    <2>3. \A r \in Structs : key'[r] = None <=> obj'[r] = None
      BY <1>4 DEF KInv, ObjectsAreTrue
    <2> QED
      BY <1>3, <2>1, <2>2, <2>3 DEF ObjectsAreTrue
  <1>7. ASSUME NEW u \in Callers, pc'[u] \in {"find", "use"}
        PROVE  pc'[u] = pc[u] /\ sp'[u] = sp[u] /\ want'[u] = want[u] /\ sp[u] \in Structs \ {s}
    BY <1>1, <1>2, <1>3, <1>7, NoneApart DEF TypeCall, Users, Sound, CallsSound
  <1>8. CallersKeys'
    BY <1>4, <1>7 DEF KInv, CallersKeys
  <1>9. ASSUME NEW q \in Keyed, NEW h \in Objects PROVE Counted(q, h)'
    <2>1. /\ Referring(q, h) = {r \in Own(q) : obj[r] = h}
          /\ Referring(q, h)' = {r \in Own(q) : obj'[r] = h}
      BY <1>5, ReferringOwn
    <2>2. Referring(q, h)' \subseteq Referring(q, h)
      BY <1>4, <1>5, <2>1, NoneApart
    <2>3. ~over' => Referring(q, h)' = Referring(q, h)
      BY <1>3, <1>4, <1>5, <2>1, NoneApart
    <2> QED
      BY <1>1, <1>3, <2>2, <2>3, FewerReferring
  <1> QED
    BY <1>6, <1>8, <1>9 DEF Counts

LEMMA LeaveKeys ==
  ASSUME KInv, Sound', NEW t \in Callers, LoadFails(t) \/ DigestAgain(t)
  PROVE  ObjectsAreTrue' /\ CallersKeys' /\ Counts'
  <1>1. /\ Sound /\ TypeList /\ TypeKey /\ TypeCall /\ Users /\ Lists(cache) /\ pc[t] # "idle"
        /\ sp[t] \in Structs /\ op[t] \in OpTypes /\ initialized /\ ~stale
    BY TypeParts, OneUserParts DEF KInv, Sound, CallsSound, LoadFails, DigestAgain
  <1>2. /\ Leaves(t) /\ UNCHANGED <<me, initialized, cache, alloc, by>>
        /\ UNCHANGED <<obj, key, active, store>> /\ stale' = stale /\ (over => over')
        /\ obj[sp[t]] # None /\ op[t] \in Keyed => over'
    <2>1. CASE LoadFails(t)
      BY <2>1 DEF LoadFails, libVars, listVars, keyVars
    <2>2. CASE DigestAgain(t)
      <3>1. op[t] \notin Keyed
        BY <2>2 DEF DigestAgain, KInv, Sound, CallsSound
      <3> QED
        BY <2>2, <3>1 DEF DigestAgain, libVars, listVars, keyVars
    <2> QED
      BY <2>1, <2>2
  <1>3. PICK s \in Structs, o \in OpTypes : s = sp[t] /\ o = op[t]
    BY <1>1
  <1>4. \A u \in Callers : /\ sp'[u] = IF u = t THEN None ELSE sp[u]
                           /\ op'[u] = IF u = t THEN None ELSE op[u]
    BY <1>1, <1>2 DEF Leaves, TypeCall
  <1>5. ASSUME NEW q \in Keyed
        PROVE  /\ Own(q)' \subseteq Own(q) /\ Own(q) \subseteq Own(q)' \cup {s}
               /\ q # o => Own(q)' = Own(q)
               /\ Own(q) \subseteq Structs
    <2>1. q \in OpTypes /\ Own(q) \subseteq Structs
      BY <1>1, OwnStructs, Pk11Assumption
    <2>2. /\ InUse(q)' \subseteq InUse(q) /\ InUse(q) \subseteq InUse(q)' \cup {s}
          /\ q # o => InUse(q)' = InUse(q)
      BY <1>3, <1>4, NoneApart DEF InUse
    <2>3. Listed(q)' = Listed(q)
      BY <1>2 DEF Listed
    <2> QED
      BY <1>2, <2>1, <2>2, <2>3 DEF Own
  <1>6. ObjectsAreTrue'
    BY <1>1, <1>2, <1>5 DEF KInv, ObjectsAreTrue
  <1>7. CallersKeys'
    <2>1. ASSUME NEW u \in Callers, pc'[u] \in {"find", "use"}
          PROVE  pc'[u] = pc[u] /\ sp'[u] = sp[u] /\ want'[u] = want[u]
      BY <1>1, <1>2, <2>1 DEF Leaves, TypeCall
    <2> QED
      BY <1>2, <2>1 DEF KInv, CallersKeys
  <1>8. ASSUME NEW q \in Keyed, NEW h \in Objects PROVE Counted(q, h)'
    <2>1. /\ Referring(q, h) = {r \in Own(q) : obj[r] = h}
          /\ Referring(q, h)' = {r \in Own(q)' : obj[r] = h}
      BY <1>2, ReferringOwn
    <2>2. Referring(q, h)' \subseteq Referring(q, h)
      BY <1>5, <2>1
    <2>3. ~over' => Referring(q, h)' = Referring(q, h)
      BY <1>2, <1>3, <1>5, <2>1, NoneApart
    <2> QED
      BY <1>1, <1>2, <2>2, <2>3, FewerReferring
  <1> QED
    BY <1>6, <1>7, <1>8 DEF Counts

LEMMA ReturnKeys ==
  ASSUME KInv, Sound', NEW t \in Callers, Return(t)
  PROVE  ObjectsAreTrue' /\ CallersKeys' /\ Counts'
  <1>1. /\ pc[t] = "done" /\ Leaves(t)
        /\ UNCHANGED <<me, initialized, alloc, by>> /\ UNCHANGED <<obj, key, active, store>>
        /\ UNCHANGED <<stale, over>>
        /\ cache' = [cache EXCEPT ![op[t]] = IF by[sp[t]] = me THEN <<sp[t]>> \o @ ELSE @]
    BY DEF Return, keyVars, libVars
  <1>2. TypeList /\ TypeCall /\ Users /\ Lists(cache)
    BY <1>1, TypeParts, OneUserParts DEF KInv, Sound, CallsSound
  <1>3. PICK s \in Structs, o \in OpTypes : s = sp[t] /\ o = op[t]
    BY <1>1 DEF KInv, Sound, CallsSound
  <1>4. cache[o] \in Seq(Structs) /\ Distinct(cache[o]) /\ s \notin Elements(cache[o])
    BY <1>2, <1>3, NoneApart DEF TypeList, Lists, Held
  <1>5. PICK r : r = IF by[s] = me THEN <<s>> \o cache[o] ELSE cache[o]
    OBVIOUS
  <1>6. /\ by[s] = me => Elements(r) = Elements(cache[o]) \cup {s}
        /\ by[s] # me => r = cache[o]
    BY <1>4, <1>5, ConsElements
  <1>7. \A q \in OpTypes : cache'[q] = IF q = o THEN r ELSE cache[q]
    BY <1>1, <1>2, <1>3, <1>5 DEF TypeList
  <1>8. ASSUME NEW q \in Keyed PROVE Own(q)' = Own(q)
    <2>1. q \in OpTypes
      BY Pk11Assumption
    <2>2. /\ q = o => InUse(q)' = InUse(q) \ {s} /\ s \in InUse(q)
          /\ q # o => InUse(q)' = InUse(q)
      <3>1. \A u \in Callers : /\ sp'[u] = IF u = t THEN None ELSE sp[u]
                               /\ op'[u] = IF u = t THEN None ELSE op[u]
        BY <1>1, <1>2 DEF Leaves, TypeCall
      <3>2. \A u \in Callers : u # t => sp[u] # s
        BY <1>2, <1>3, NoneApart DEF Users
      <3> QED
        BY <1>3, <3>1, <3>2, NoneApart DEF InUse
    <2>3. Listed(q) = Elements(cache[q]) /\ Listed(q)' = Elements(cache'[q])
      BY DEF Listed, Elements
    <2>4. CASE q # o
      <3>1. Listed(q)' = Listed(q)
        BY <1>7, <2>1, <2>3, <2>4
      <3> QED
        BY <1>1, <2>2, <2>4, <3>1 DEF Own
    <2>5. CASE q = o /\ by[s] = me
      <3>1. Listed(q)' = Listed(q) \cup {s}
        BY <1>6, <1>7, <2>3, <2>5
      <3>2. (Listed(q) \cup InUse(q))' = Listed(q) \cup InUse(q)
        BY <2>2, <2>5, <3>1
      <3> QED
        BY <1>1, <3>2 DEF Own
    <2>6. CASE q = o /\ by[s] # me
      <3>1. Listed(q)' = Listed(q)
        BY <1>6, <1>7, <2>3, <2>6
      <3> QED
        BY <1>1, <2>2, <2>6, <3>1 DEF Own
    <2> QED
      BY <2>4, <2>5, <2>6
  <1>9. CallersKeys'
    <2>1. ASSUME NEW u \in Callers, pc'[u] \in {"find", "use"}
          PROVE  pc'[u] = pc[u] /\ sp'[u] = sp[u] /\ want'[u] = want[u]
      BY <1>1, <1>2, <2>1 DEF Leaves, TypeCall
    <2> QED
      BY <1>1, <2>1 DEF KInv, CallersKeys
  <1> QED
    BY <1>1, <1>8, <1>9, KeyFrame
-----------------------------------------------------------------------------
\* Where no structure is this process's own, or the library is not initialised.
LEMMA NoneOwn ==
  ASSUME Sound', me' # 1 \/ active' = NoReferences,
         initialized' /\ ~stale' => \A q \in Keyed : Own(q)' = {}
  PROVE  Counts'
  <1> SUFFICES ASSUME initialized', ~stale', NEW q \in Keyed, NEW h \in Objects PROVE Counted(q, h)'
    BY DEF Counts
  <1>1. active'[q][h] \in Nat /\ (me' # 1 \/ active'[q][h] = 0)
    BY TypePartsNext DEF Sound, TypeKey, NoReferences
  <1>2. Referring(q, h)' = {}
    BY ReferringOwn
  <1>3. Cardinality(Referring(q, h)') = 0
    BY <1>2, FS_EmptySet
  <1> QED
    BY <1>1, <1>3 DEF Counted

LEMMA ForkKeys ==
  ASSUME KInv, Sound', Fork PROVE ObjectsAreTrue' /\ CallersKeys' /\ Counts'
  <1>1. /\ me' = me + 1 /\ store' = [h \in Objects |-> None]
        /\ UNCHANGED <<initialized, cache, alloc, by>> /\ UNCHANGED <<obj, key, active>>
        /\ pc' = [t \in Callers |-> IF pc[t] = "context" THEN "context" ELSE "idle"]
    BY DEF Fork, listVars
  <1>2. TypeList /\ TypeKey /\ me \in Nat /\ me # 0
    BY TypeParts DEF KInv, Sound, TypeLib, Pids
  <1>3. me' # 1 /\ me' \notin 0 .. me
    BY <1>1, <1>2
  <1>4. ASSUME NEW q \in Keyed PROVE Own(q)' = {}
    <2>1. Own(q)' \subseteq Structs
      BY OwnStructsNext, Pk11Assumption
    <2>2. \A r \in Structs : by'[r] # me'
      BY <1>1, <1>2, <1>3 DEF TypeList
    <2> QED
      BY <2>1, <2>2 DEF Own
  <1>5. \A r \in Structs : obj[r] # None => store'[obj[r]] = None
    BY <1>1, <1>2 DEF TypeKey
  <1>6. ObjectsAreTrue'
    BY <1>1, <1>2, <1>4, <1>5 DEF KInv, ObjectsAreTrue, TypeList
  <1>7. CallersKeys'
    BY <1>1 DEF CallersKeys
  <1> QED
    BY <1>3, <1>4, <1>6, <1>7, NoneOwn

LEMMA LibraryInitKeys ==
  ASSUME KInv, Sound', LibraryInit PROVE ObjectsAreTrue' /\ CallersKeys' /\ Counts'
  <1>1. /\ UNCHANGED <<me, alloc, by>> /\ UNCHANGED <<obj, key, store>>
        /\ UNCHANGED <<pc, sp, op, want>>
        /\ \A t \in Callers : pc[t] \in {"idle", "context"}
    BY DEF LibraryInit, callVars
  <1>2. \/ UNCHANGED <<initialized, cache, active, stale, over>>
        \/ cache' = Empty /\ active' = NoReferences
    BY DEF LibraryInit, Restarted
  <1>3. CallersKeys'
    BY <1>1 DEF KInv, CallersKeys
  <1>4. CASE UNCHANGED <<initialized, cache, active, stale, over>>
    <2>1. \A q \in Keyed : Own(q)' = Own(q)
      BY <1>1, <1>4 DEF Own, Listed, InUse
    <2> QED
      BY <1>1, <1>3, <1>4, <2>1, KeyFrame
  <1>5. CASE cache' = Empty /\ active' = NoReferences
    <2>1. ASSUME NEW q \in Keyed PROVE Own(q)' = {}
      <3>1. q \in OpTypes /\ q # None
        BY Pk11Assumption
      <3>2. Listed(q)' = {}
        BY <1>5, <3>1 DEF Listed, Empty
      <3>3. InUse(q)' = {}
        BY <1>1, <3>1 DEF InUse, KInv, Sound, CallsSound
      <3> QED
        BY <3>2, <3>3 DEF Own
    <2>2. ObjectsAreTrue'
      BY <1>1, <2>1 DEF KInv, ObjectsAreTrue
    <2> QED
      BY <1>3, <1>5, <2>1, <2>2, NoneOwn
  <1> QED
    BY <1>2, <1>4, <1>5

LEMMA FinishKeys ==
  ASSUME KInv, Sound', Finish PROVE ObjectsAreTrue' /\ CallersKeys' /\ Counts'
  <1>1. /\ \A t \in Callers : pc[t] = "idle"
        /\ initialized' = FALSE /\ Freed(AllListed) /\ Cleared(LostSessions = {})
        /\ UNCHANGED <<me, pc>>
    BY DEF Finish, Finishing, callVars
  <1>2. Sound /\ TypeList /\ TypeKey
    BY TypeParts DEF KInv, Sound
  <1>3. \A h \in Objects : store'[h] = store[h] \/ store'[h] = None
    BY <1>1, <1>2, ClearedStore
  <1>4. \A r \in Structs : IF r \in AllListed THEN obj'[r] = None /\ key'[r] = None
                           ELSE by'[r] = by[r] /\ obj'[r] = obj[r] /\ key'[r] = key[r]
    BY <1>1, <1>2 DEF Freed, TypeList, TypeKey
  <1>5. ASSUME NEW r \in alloc', by'[r] # me, obj'[r] # None PROVE store'[obj'[r]] = None
    <2>1. r \in alloc /\ r \in Structs /\ r \notin AllListed
      BY <1>1, <1>2, <1>5 DEF Freed, TypeList
    <2>2. obj'[r] = obj[r] /\ obj[r] \in Objects /\ store[obj[r]] = None
      BY <1>2, <1>4, <1>5, <2>1 DEF KInv, ObjectsAreTrue, TypeKey
    <2> QED
      BY <1>3, <2>2
  <1>6. \A r \in Structs : key'[r] = None <=> obj'[r] = None
    BY <1>4 DEF KInv, ObjectsAreTrue
  <1>7. ObjectsAreTrue'
    BY <1>1, <1>5, <1>6 DEF ObjectsAreTrue
  <1> QED
    BY <1>1, <1>7 DEF CallersKeys, Counts

LEMMA FinishFailsKeys ==
  ASSUME KInv, Sound', FinishFails PROVE ObjectsAreTrue' /\ CallersKeys' /\ Counts'
  <1>1. /\ \A t \in Callers : pc[t] = "idle"
        /\ alloc' = alloc \ AllListed /\ stale' = (AllListed # {}) /\ Cleared(FALSE)
        /\ UNCHANGED <<me, cache, by>> /\ UNCHANGED <<obj, key>> /\ UNCHANGED <<pc, sp, op>>
        /\ ~stale' => active' = NoReferences /\ AllListed = {}
    BY DEF FinishFails, Finishing, callVars
  <1>2. Sound /\ TypeList /\ TypeKey
    BY TypeParts DEF KInv, Sound
  <1>3. \A h \in Objects : store'[h] = store[h] \/ store'[h] = None
    BY <1>1, <1>2, ClearedStore
  <1>4. ASSUME ~stale', NEW q \in Keyed PROVE Own(q)' = {}
    <2>1. q \in OpTypes /\ q # None
      BY Pk11Assumption
    <2>2. Listed(q)' = {}
      <3>1. AllListed = {} /\ cache' = cache
        BY <1>1, <1>4
      <3>2. Listed(q) = {}
        BY <2>1, <3>1 DEF AllListed
      <3> QED
        BY <3>1, <3>2 DEF Listed
    <2>3. InUse(q)' = {}
      BY <1>1, <2>1 DEF InUse, KInv, Sound, CallsSound
    <2> QED
      BY <2>2, <2>3 DEF Own
  <1>5. ASSUME NEW r \in alloc', by'[r] # me, obj'[r] # None PROVE store'[obj'[r]] = None
    <2>1. r \in alloc /\ obj[r] \in Objects /\ store[obj[r]] = None
      BY <1>1, <1>2, <1>5 DEF KInv, ObjectsAreTrue, TypeList, TypeKey
    <2> QED
      BY <1>1, <1>3, <2>1
  <1>6. ObjectsAreTrue'
    BY <1>1, <1>4, <1>5 DEF KInv, ObjectsAreTrue
  <1>7. Counts'
    <2>1. CASE stale'
      BY <2>1 DEF Counts
    <2>2. CASE ~stale'
      BY <1>1, <1>4, <2>2, NoneOwn
    <2> QED
      BY <2>1, <2>2
  <1> QED
    BY <1>1, <1>6, <1>7 DEF CallersKeys
-----------------------------------------------------------------------------
\* One more structure that refers to an object, and one fewer.
LEMMA OneMore ==
  ASSUME NEW R, NEW s, IsFiniteSet(R), s \notin R
  PROVE  Cardinality(R \cup {s}) = Cardinality(R) + 1 /\ Cardinality(R) \in Nat
  BY FS_AddElement, FS_CardinalityType

LEMMA OneFewer ==
  ASSUME NEW R, NEW s, IsFiniteSet(R), s \in R
  PROVE  Cardinality(R \ {s}) = Cardinality(R) - 1 /\ Cardinality(R) \in Nat \ {0}
  <1>1. Cardinality(R \ {s}) = Cardinality(R) - 1 /\ Cardinality(R) \in Nat
    BY FS_RemoveElement, FS_CardinalityType
  <1>2. Cardinality(R) # 0
    BY FS_EmptySet
  <1> QED
    BY <1>1, <1>2

LEMMA TwoAtLeast ==
  ASSUME NEW R, NEW s \in R, NEW r \in R, IsFiniteSet(R), r # s
  PROVE  Cardinality(R) \in Nat /\ Cardinality(R) > 1
  <1>1. Cardinality(R \ {s}) = Cardinality(R) - 1 /\ Cardinality(R) \in Nat \ {0}
    BY OneFewer
  <1>2. IsFiniteSet(R \ {s}) /\ r \in R \ {s}
    BY FS_Subset
  <1>3. Cardinality(R \ {s}) \in Nat \ {0}
    BY <1>2, OneFewer
  <1> QED
    BY <1>1, <1>3

LEMMA FindKeys ==
  ASSUME KInv, Sound', NEW t \in Callers, Find(t)
  PROVE  ObjectsAreTrue' /\ CallersKeys' /\ Counts'
  <1>1. Sound /\ TypeLib /\ TypeList /\ TypeKey /\ TypeCall /\ Users
    BY TypeParts, OneUserParts DEF KInv, Sound
  <1>2. PICK h \in Objects : /\ Refers(t, h)
                             /\ store' = [store EXCEPT ![h] = <<op[t], want[t]>>]
                             /\ store[h] = <<op[t], want[t]>> \/ h \in NewHandles
    BY DEF Find, NewHandles
  <1>3. /\ pc[t] = "find" /\ UNCHANGED <<me, initialized, cache, alloc, by>>
        /\ UNCHANGED <<sp, op, want, stale>> /\ over' = (over \/ obj[sp[t]] # None)
        /\ pc' = [pc EXCEPT ![t] = "use"] /\ by[sp[t]] = me
    BY DEF Find, Works, libVars, listVars
  <1>4. PICK o \in Keyed, k \in Keys, s \in Structs : o = op[t] /\ k = want[t] /\ s = sp[t]
    BY <1>3 DEF KInv, Sound, CallsSound
  <1>5. /\ initialized = TRUE /\ ~stale /\ s \in Own(o) /\ k # None /\ h # None
        /\ o \in OpTypes /\ s \in alloc
    <2>1. initialized = TRUE /\ ~stale
      BY <1>1, <1>3, <1>4 DEF KInv, Sound, CallsSound, TypeLib
    <2>2. s \in Own(o) /\ k # None /\ h # None /\ o \in OpTypes
      BY <1>3, <1>4, NoneApart, Pk11Assumption DEF Own, InUse
    <2> QED
      BY <1>1, <2>1, <2>2, OwnStructs
  <1>6. /\ active'[o][h] = active[o][h] + 1
        /\ \A q \in Keyed, g \in Objects : q # o \/ g # h => active'[q][g] = active[q][g]
    <2>1. active' = [active EXCEPT ![o] = [active[o] EXCEPT ![h] = active[o][h] + 1]]
      BY <1>2, <1>4 DEF Refers
    <2>2. active[o] \in [Objects -> Nat]
      BY <1>1 DEF TypeKey
    <2>3. \A q \in Keyed : active'[q] = IF q = o THEN [active[o] EXCEPT ![h] = active[o][h] + 1]
                                                 ELSE active[q]
      BY <1>1, <2>1 DEF TypeKey
    <2> QED
      BY <2>2, <2>3
  <1>7. /\ \A r \in Structs : /\ obj'[r] = IF r = s THEN h ELSE obj[r]
                              /\ key'[r] = IF r = s THEN k ELSE key[r]
        /\ \A g \in Objects : store'[g] = IF g = h THEN <<o, k>> ELSE store[g]
    BY <1>1, <1>2, <1>4 DEF Refers, TypeKey
  <1>8. ASSUME NEW q \in Keyed PROVE Own(q)' = Own(q) /\ Own(q) \subseteq Structs
                                     /\ Own(q) \subseteq alloc /\ q \in OpTypes
    BY <1>1, <1>3, <1>5, OwnStructs, Pk11Assumption DEF Own, Listed, InUse
  <1>9. ASSUME NEW r \in alloc, r # s, obj[r] = h PROVE store'[h] = store[h]
    BY <1>2, <1>4, <1>7, <1>9 DEF NewHandles
  <1>10. ASSUME NEW q \in Keyed, NEW r \in Own(q), obj'[r] # None
         PROVE  store'[obj'[r]] = <<q, key'[r]>>
    <2>1. CASE r = s
      <3>1. q = o
        BY <1>1, <1>5, <1>8, <2>1, OwnApart
      <3> QED
        BY <1>4, <1>7, <2>1, <3>1
    <2>2. CASE r # s
      <3>1. obj[r] \in Objects /\ store[obj[r]] = <<q, key[r]>> /\ r \in alloc
        BY <1>1, <1>5, <1>7, <1>8, <1>10, <2>2 DEF KInv, ObjectsAreTrue, TypeKey
      <3>2. store'[obj[r]] = store[obj[r]]
        BY <1>7, <1>9, <2>2, <3>1
      <3> QED
        BY <1>7, <1>8, <2>2, <3>1, <3>2
    <2> QED
      BY <2>1, <2>2
  <1>11. ASSUME NEW r \in alloc, by[r] # me, obj'[r] # None PROVE store'[obj'[r]] = None
    <2>1. r # s /\ r \in Structs
      BY <1>1, <1>3, <1>4, <1>11 DEF TypeList
    <2>2. obj[r] \in Objects /\ obj'[r] = obj[r] /\ store[obj[r]] = None
      BY <1>1, <1>7, <1>11, <2>1 DEF KInv, ObjectsAreTrue, TypeKey
    <2> QED
      BY <1>7, <1>9, <2>1, <2>2
  <1>12. \A r \in Structs : key'[r] = None <=> obj'[r] = None
    BY <1>5, <1>7 DEF KInv, ObjectsAreTrue
  <1>13. ObjectsAreTrue'
    BY <1>3, <1>8, <1>10, <1>11, <1>12 DEF ObjectsAreTrue
  <1>14. CallersKeys'
    <2>1. ASSUME NEW u \in Callers, pc'[u] \in {"find", "use"}
          PROVE  /\ pc'[u] = "find" => obj'[sp'[u]] = None \/ key'[sp'[u]] = want'[u]
                 /\ pc'[u] = "use" => key'[sp'[u]] = want'[u]
      <3>1. CASE u = t
        BY <1>1, <1>3, <1>4, <1>7, <3>1 DEF TypeCall
      <3>2. CASE u # t
        <4>1. pc'[u] = pc[u] /\ sp[u] \in Structs /\ sp[u] # s
          BY <1>1, <1>3, <1>4, <2>1, <3>2, NoneApart DEF TypeCall, Users, KInv, Sound, CallsSound
        <4> QED
          BY <1>3, <1>7, <4>1 DEF KInv, CallersKeys
      <3> QED
        BY <3>1, <3>2
    <2> QED
      BY <2>1 DEF CallersKeys
  <1>15. ASSUME NEW q \in Keyed, NEW g \in Objects PROVE Counted(q, g)'
    <2>1. Counted(q, g) /\ IsFiniteSet(Referring(q, g))
      BY <1>1, <1>5, <1>8, OwnStructs DEF KInv, Counts
    <2>2. Referring(q, g) = {r \in Own(q) : obj[r] = g}
      BY ReferringOwn
    <2>3. Referring(q, g)' = {r \in Own(q) : obj'[r] = g}
      BY <1>8, ReferringOwn
    <2>4. s \in Own(q) => q = o
      BY <1>1, <1>5, <1>8, OwnApart
    <2>5. CASE obj[s] # None
      <3>1. over' /\ active[q][g] \in Nat /\ active[q][g] >= Cardinality(Referring(q, g))
        BY <1>1, <1>3, <1>4, <2>1, <2>5 DEF Counted, TypeKey
      <3>2. \/ q = o /\ g = h /\ Referring(q, g)' \subseteq Referring(q, g) \cup {s}
               /\ active'[q][g] = active[q][g] + 1
            \/ Referring(q, g)' \subseteq Referring(q, g) /\ active'[q][g] = active[q][g]
        BY <1>6, <1>7, <1>8, <2>2, <2>3, <2>4
      <3>3. PICK R : R = Referring(q, g)
        OBVIOUS
      <3>4. /\ Cardinality(R \cup {s}) <= Cardinality(R) + 1 /\ Cardinality(R) \in Nat
            /\ IsFiniteSet(R \cup {s}) /\ Cardinality(R \cup {s}) \in Nat
        <4>1. IsFiniteSet(R) /\ Cardinality(R) \in Nat
          BY <2>1, <3>3, FS_CardinalityType
        <4>2. /\ IsFiniteSet(R \cup {s})
              /\ Cardinality(R \cup {s}) = IF s \in R THEN Cardinality(R) ELSE Cardinality(R) + 1
          BY <4>1, FS_AddElement
        <4> QED
          BY <4>1, <4>2
      <3>5. /\ Cardinality(Referring(q, g)') \in Nat
            /\ Cardinality(Referring(q, g)') <= active'[q][g]
        <4>1. CASE /\ Referring(q, g)' \subseteq R \cup {s}
                   /\ active'[q][g] = active[q][g] + 1
          <5>1. /\ Cardinality(Referring(q, g)') \in Nat
                /\ Cardinality(Referring(q, g)') <= Cardinality(R \cup {s})
            BY <3>4, <4>1, FS_Subset, FS_CardinalityType
          <5> QED
            BY <3>1, <3>3, <3>4, <4>1, <5>1
        <4>2. CASE Referring(q, g)' \subseteq R /\ active'[q][g] = active[q][g]
          <5>1. /\ Cardinality(Referring(q, g)') \in Nat
                /\ Cardinality(Referring(q, g)') <= Cardinality(R)
            BY <2>1, <3>3, <4>2, FS_Subset, FS_CardinalityType
          <5> QED
            BY <3>1, <3>3, <3>4, <4>2, <5>1
        <4> QED
          BY <3>2, <3>3, <4>1, <4>2
      <3>6. active'[q][g] \in Nat
        BY TypePartsNext DEF Sound, TypeKey
      <3> QED
        BY <3>1, <3>5, <3>6 DEF Counted
    <2>6. CASE obj[s] = None /\ q = o /\ g = h
      <3>1. Referring(q, g)' = Referring(q, g) \cup {s} /\ s \notin Referring(q, g)
        BY <1>5, <1>7, <1>8, <2>2, <2>3, <2>6
      <3>2. PICK R : R = Referring(q, g)
        OBVIOUS
      <3>3. /\ Cardinality(R \cup {s}) = Cardinality(R) + 1 /\ Cardinality(R) \in Nat
            /\ Referring(q, g)' = R \cup {s}
        BY <2>1, <3>1, <3>2, OneMore
      <3>4. active[q][g] \in Nat
        BY <1>1 DEF TypeKey
      <3>5. /\ active[q][g] >= Cardinality(R)
            /\ me = 1 /\ ~over => active[q][g] = Cardinality(R)
        BY <2>1, <3>2 DEF Counted
      <3>6. active'[q][g] = active[q][g] + 1 /\ me' = me /\ (over => over')
        BY <1>3, <1>4, <1>6, <2>6
      <3> QED
        BY <3>3, <3>4, <3>5, <3>6 DEF Counted
    <2>7. CASE obj[s] = None /\ (q # o \/ g # h)
      <3>1. Referring(q, g)' = Referring(q, g)
        <4>1. \A r \in Own(q) : obj'[r] = g <=> obj[r] = g
          BY <1>5, <1>7, <1>8, <2>4, <2>7, NoneApart
        <4> QED
          BY <2>2, <2>3, <4>1
      <3>2. active'[q][g] = active[q][g] /\ me' = me /\ (over => over')
        BY <1>3, <1>4, <1>6, <2>7
      <3> QED
        BY <2>1, <3>1, <3>2 DEF Counted
    <2> QED
      BY <2>5, <2>6, <2>7
  <1> QED
    BY <1>13, <1>14, <1>15 DEF Counts

\* What TRY_OBJ_DESTROY does to a caller's structure s, that refers to h.
LEMMA DestroyedParts ==
  ASSUME KInv, NEW t \in Callers, Destroyed(t), NEW o \in Keyed, NEW s \in Structs,
         NEW h \in Objects, o = op[t], s = sp[t], h = obj[s]
  PROVE  /\ active'[o][h] = IF active[o][h] = 0 THEN 0 ELSE active[o][h] - 1
         /\ \A q \in Keyed, g \in Objects : q # o \/ g # h => active'[q][g] = active[q][g]
         /\ \A r \in Structs : /\ obj'[r] = IF r = s THEN None ELSE obj[r]
                               /\ key'[r] = IF r = s THEN None ELSE key[r]
         /\ \A g \in Objects : store'[g] # store[g] =>
               /\ g = h /\ active[o][h] = 1 /\ by[s] = me /\ cryptoki
               /\ store'[g] = None
         /\ active[o][h] = 1 /\ by[s] = me /\ cryptoki => store'[h] = None
  <1>1. TypeKey
    BY TypeParts DEF KInv, Sound
  <1>2. active[o] \in [Objects -> Nat] /\ active \in [Keyed -> [Objects -> Nat]]
    BY <1>1 DEF TypeKey
  <1>3. PICK n : n = IF active[o][h] = 0 THEN 0 ELSE active[o][h] - 1
    OBVIOUS
  <1>4. active' = [active EXCEPT ![o] = [active[o] EXCEPT ![h] = n]]
    BY <1>3 DEF Destroyed
  <1>5. \A q \in Keyed : active'[q] = IF q = o THEN [active[o] EXCEPT ![h] = n] ELSE active[q]
    BY <1>2, <1>4
  <1>6. /\ active'[o][h] = n
        /\ \A q \in Keyed, g \in Objects : q # o \/ g # h => active'[q][g] = active[q][g]
    BY <1>2, <1>5
  <1>7. \A r \in Structs : /\ obj'[r] = IF r = s THEN None ELSE obj[r]
                           /\ key'[r] = IF r = s THEN None ELSE key[r]
    BY <1>1 DEF Destroyed, TypeKey
  <1>8. \A g \in Objects : store'[g] # store[g] =>
           g = h /\ active[o][h] = 1 /\ by[s] = me /\ cryptoki /\ store'[g] = None
    BY <1>1 DEF Destroyed, Works, TypeKey
  <1>9. active[o][h] = 1 /\ by[s] = me /\ cryptoki => store'[h] = None
    BY <1>1 DEF Destroyed, Works, TypeKey
  <1> QED
    BY <1>3, <1>6, <1>7, <1>8, <1>9

\* An object of this process that is destroyed has no other structure.
LEMMA LastReference ==
  ASSUME KInv, NEW o \in Keyed, NEW s \in Own(o), NEW h \in Objects, obj[s] = h,
         initialized, ~stale, active[o][h] = 1,
         NEW q \in Keyed, NEW r \in Own(q), obj[r] = h
  PROVE  r = s
  <1>1. o \in OpTypes /\ q \in OpTypes /\ h # None
    BY Pk11Assumption
  <1>2. store[h] = <<o, key[s]>> /\ store[h] = <<q, key[r]>>
    BY <1>1 DEF KInv, ObjectsAreTrue
  <1>3. q = o
    BY <1>2
  <1>4. s \in Referring(o, h) /\ r \in Referring(o, h) /\ IsFiniteSet(Referring(o, h))
    BY <1>1, <1>3, ReferringOwn, OwnStructs DEF KInv
  <1>5. active[o][h] >= Cardinality(Referring(o, h))
    BY DEF KInv, Counts, Counted
  <1>6. ASSUME r # s PROVE FALSE
    <2>1. Cardinality(Referring(o, h)) \in Nat /\ Cardinality(Referring(o, h)) > 1
      BY <1>4, <1>6, TwoAtLeast
    <2> QED
      BY <1>5, <2>1
  <1> QED
    BY <1>6

LEMMA CheckKeys ==
  ASSUME KInv, Sound', NEW t \in Callers, Check(t)
  PROVE  ObjectsAreTrue' /\ CallersKeys' /\ Counts'
  <1>1. Sound /\ TypeLib /\ TypeList /\ TypeKey /\ TypeCall /\ Users
    BY TypeParts, OneUserParts DEF KInv, Sound
  <1>2. /\ pc[t] = "check" /\ UNCHANGED <<me, initialized, cache, alloc, by>>
        /\ UNCHANGED <<sp, op, want, cryptoki>> /\ UNCHANGED <<stale, over>>
    BY DEF Check, libVars, listVars
  <1>3. PICK o \in Keyed, k \in Keys, s \in Structs : o = op[t] /\ k = want[t] /\ s = sp[t]
    BY <1>2 DEF KInv, Sound, CallsSound
  <1>4. /\ pc' = [pc EXCEPT ![t] = IF key[s] = k THEN "use" ELSE "find"]
        /\ key[s] = k \/ obj[s] = None => UNCHANGED <<obj, key, active, store>>
        /\ key[s] # k /\ obj[s] # None => Destroyed(t)
    BY <1>2, <1>3 DEF Check, keyVars
  <1>5. initialized = TRUE /\ ~stale /\ o \in OpTypes /\ s \in InUse(o)
    BY <1>1, <1>2, <1>3, Pk11Assumption DEF CallsSound, Sound, TypeLib, InUse
  <1>6. ASSUME NEW q \in Keyed PROVE Own(q)' = Own(q) /\ Own(q) \subseteq Structs
                                     /\ Own(q) \subseteq alloc /\ q \in OpTypes
    BY <1>1, <1>2, <1>5, OwnStructs, Pk11Assumption DEF Own, Listed, InUse
  <1>7. ASSUME NEW u \in Callers, u # t, pc'[u] \in {"find", "use"}
        PROVE  pc'[u] = pc[u] /\ sp[u] \in Structs /\ sp[u] # s
    BY <1>1, <1>3, <1>4, <1>7, NoneApart DEF TypeCall, Users, Sound, CallsSound
  <1>8. CASE key[s] = k \/ obj[s] = None
    <2>1. ObjectsAreTrue' /\ Counts'
      BY <1>2, <1>4, <1>6, <1>8, KeyFrame
    <2>2. /\ pc'[t] = "find" => obj[s] = None \/ key[s] = k
          /\ pc'[t] = "use" => key[s] = k
      BY <1>1, <1>4, <1>8 DEF TypeCall
    <2>3. CallersKeys'
      BY <1>2, <1>3, <1>4, <1>7, <1>8, <2>2 DEF KInv, CallersKeys
    <2> QED
      BY <2>1, <2>3
  <1>9. CASE key[s] # k /\ obj[s] # None
    <2>1. PICK h \in Objects : h = obj[s]
      BY <1>1, <1>9 DEF TypeKey
    <2>2. /\ active'[o][h] = IF active[o][h] = 0 THEN 0 ELSE active[o][h] - 1
          /\ \A q \in Keyed, g \in Objects : q # o \/ g # h => active'[q][g] = active[q][g]
          /\ \A r \in Structs : /\ obj'[r] = IF r = s THEN None ELSE obj[r]
                                /\ key'[r] = IF r = s THEN None ELSE key[r]
          /\ \A g \in Objects : store'[g] # store[g] =>
                g = h /\ active[o][h] = 1 /\ by[s] = me /\ cryptoki /\ store'[g] = None
      BY <1>3, <1>4, <1>9, <2>1, DestroyedParts
    <2>3. by[s] = me => s \in Own(o)
      BY <1>5 DEF Own
    <2>4. ASSUME NEW q \in Keyed, NEW r \in Own(q), obj'[r] # None
          PROVE  store'[obj'[r]] = <<q, key'[r]>>
      <3>1. r # s /\ obj'[r] = obj[r] /\ key'[r] = key[r] /\ obj[r] \in Objects
        BY <1>1, <1>6, <2>2, <2>4 DEF TypeKey
      <3>2. store[obj[r]] = <<q, key[r]>>
        BY <1>5, <2>4, <3>1 DEF KInv, ObjectsAreTrue
      <3>3. ASSUME store'[obj[r]] # store[obj[r]] PROVE FALSE
        <4>1. obj[r] = h /\ active[o][h] = 1 /\ by[s] = me
          BY <2>2, <3>1, <3>3
        <4>2. r = s
          BY <1>5, <2>1, <2>3, <2>4, <4>1, LastReference
        <4> QED
          BY <3>1, <4>2
      <3> QED
        BY <3>1, <3>2, <3>3
    <2>5. ASSUME NEW r \in alloc, by[r] # me, obj'[r] # None PROVE store'[obj'[r]] = None
      <3>1. r \in Structs /\ r # s /\ obj'[r] = obj[r] /\ obj[r] \in Objects
        BY <1>1, <2>2, <2>5 DEF TypeList, TypeKey
      <3>2. store[obj[r]] = None
        BY <2>5, <3>1 DEF KInv, ObjectsAreTrue
      <3> QED
        BY <2>2, <3>1, <3>2
    <2>6. \A r \in Structs : key'[r] = None <=> obj'[r] = None
      BY <2>2 DEF KInv, ObjectsAreTrue
    <2>7. ObjectsAreTrue'
      BY <1>2, <1>6, <2>4, <2>5, <2>6 DEF ObjectsAreTrue
    <2>8. CallersKeys'
      <3>1. pc'[t] = "find" /\ obj'[s] = None
        BY <1>1, <1>4, <1>9, <2>2 DEF TypeCall
      <3>2. ASSUME NEW u \in Callers, pc'[u] \in {"find", "use"}
            PROVE  /\ pc'[u] = "find" => obj'[sp'[u]] = None \/ key'[sp'[u]] = want'[u]
                   /\ pc'[u] = "use" => key'[sp'[u]] = want'[u]
        <4>1. CASE u = t
          BY <1>2, <1>3, <3>1, <4>1
        <4>2. CASE u # t
          BY <1>2, <1>7, <2>2, <3>2, <4>2 DEF KInv, CallersKeys
        <4> QED
          BY <4>1, <4>2
      <3> QED
        BY <3>2 DEF CallersKeys
    <2>9. ASSUME NEW q \in Keyed, NEW g \in Objects PROVE Counted(q, g)'
      <3>1. Counted(q, g) /\ IsFiniteSet(Referring(q, g)) /\ active[q][g] \in Nat /\ me' = me /\ over' = over
        BY <1>1, <1>2, <1>5, <1>6, OwnStructs DEF KInv, Counts, TypeKey
      <3>2. Referring(q, g) = {r \in Own(q) : obj[r] = g}
        BY ReferringOwn
      <3>3. Referring(q, g)' = {r \in Own(q) : obj'[r] = g}
        BY <1>6, ReferringOwn
      <3>4. g # None /\ h # None
        BY NoneApart
      <3>5. CASE q = o /\ g = h /\ by[s] = me
        <4>1. s \in Referring(q, g) /\ Referring(q, g)' = Referring(q, g) \ {s}
          BY <1>6, <2>1, <2>2, <2>3, <3>2, <3>3, <3>4, <3>5
        <4>2. PICK R : R = Referring(q, g)
          OBVIOUS
        <4>3. /\ Cardinality(R \ {s}) = Cardinality(R) - 1 /\ Cardinality(R) \in Nat \ {0}
              /\ Referring(q, g)' = R \ {s}
          BY <3>1, <4>1, <4>2, OneFewer
        <4>4. /\ active[q][g] >= Cardinality(R)
              /\ me = 1 /\ ~over => active[q][g] = Cardinality(R)
          BY <3>1, <4>2 DEF Counted
        <4>5. active'[q][g] = active[q][g] - 1
          BY <2>2, <3>1, <3>5, <4>3, <4>4
        <4> QED
          BY <3>1, <4>3, <4>4, <4>5 DEF Counted
      <3>6. CASE q = o /\ g = h /\ by[s] # me
        <4>1. s \in alloc /\ me # 1
          <5>1. s \in alloc
            BY <1>1, <1>2, <1>3, NoneApart DEF Users, Held
          <5>2. by[s] # 0 /\ by[s] \in 0 .. me
            BY <1>1, <5>1 DEF Sound, Processes, TypeList
          <5> QED
            BY <3>6, <5>1, <5>2
        <4>2. store[h] = None
          BY <1>9, <2>1, <3>6, <4>1 DEF KInv, ObjectsAreTrue
        <4>3. ASSUME NEW r \in Own(q), obj[r] = h PROVE FALSE
          <5>1. store[h] = <<q, key[r]>>
            BY <1>5, <3>4, <4>3 DEF KInv, ObjectsAreTrue
          <5>2. r \in Structs /\ key[r] \in Keys \cup {None}
            BY <1>1, <1>6 DEF TypeKey
          <5>3. key[r] # None
            BY <3>4, <4>3, <5>2 DEF KInv, ObjectsAreTrue
          <5> QED
            BY <4>2, <5>1, <5>2, <5>3, Pk11Assumption
        <4>4. Referring(q, g)' = {}
          BY <1>6, <2>2, <3>3, <3>4, <3>6, <4>3
        <4>5. active'[q][g] \in Nat
          BY TypePartsNext DEF Sound, TypeKey
        <4> QED
          BY <3>1, <4>1, <4>4, <4>5, FS_EmptySet DEF Counted
      <3>7. CASE q # o \/ g # h
        <4>1. s \in Own(q) => obj[s] # g
          <5>1. s \in Own(q) => q = o
            BY <1>1, <1>5, <1>6, <2>3, OwnApart DEF Own
          <5> QED
            BY <2>1, <3>7, <5>1
        <4>2. \A r \in Own(q) : obj'[r] = g <=> obj[r] = g
          BY <1>6, <2>2, <3>4, <4>1
        <4>3. Referring(q, g)' = Referring(q, g)
          BY <3>2, <3>3, <4>2
        <4>4. active'[q][g] = active[q][g]
          BY <2>2, <3>7
        <4> QED
          BY <3>1, <4>3, <4>4 DEF Counted
      <3> QED
        BY <3>5, <3>6, <3>7
    <2>10. Counts'
      BY <2>9 DEF Counts
    <2> QED
      BY <2>7, <2>8, <2>10
  <1> QED
    BY <1>8, <1>9

LEMMA InitKeys == Init => KInv
  <1> SUFFICES ASSUME Init PROVE KInv
    OBVIOUS
  <1>1. Sound
    BY InitSound
  <1>2. ASSUME NEW o \in Keyed, NEW h \in Objects
        PROVE  Referring(o, h) = {} /\ active[o][h] = 0
    <2>1. \A s \in Structs : obj[s] = None
      BY DEF Init
    <2>2. Own(o) \subseteq Structs
      BY <1>1, OwnStructs, Pk11Assumption
    <2>3. Referring(o, h) = {}
      BY <2>1, <2>2, ReferringOwn, NoneApart
    <2> QED
      BY <2>3 DEF Init, NoReferences
  <1>3. Counts
    BY <1>2, FS_EmptySet DEF Init, Counts, Counted
  <1>4. ObjectsAreTrue
    <2>1. \A o \in Keyed : Own(o) \subseteq Structs
      BY <1>1, OwnStructs, Pk11Assumption
    <2> QED
      BY <2>1 DEF Init, ObjectsAreTrue
  <1>5. CallersKeys
    BY DEF Init, CallersKeys
  <1> QED
    BY <1>1, <1>3, <1>4, <1>5 DEF KInv

LEMMA KeysStep == KInv /\ [Next]_vars => KInv'
  <1> SUFFICES ASSUME KInv, [Next]_vars PROVE KInv'
    OBVIOUS
  <1>1. Sound /\ Sound'
    BY SoundStep DEF KInv
  <1>2. CASE UNCHANGED vars
    <2>1. /\ UNCHANGED <<me, initialized, cache, alloc, by>>
          /\ UNCHANGED <<obj, key, active, store>> /\ UNCHANGED <<pc, sp, op, want>>
          /\ UNCHANGED <<stale, over>>
      BY <1>2 DEF vars, libVars, listVars, keyVars, callVars
    <2>2. \A q \in Keyed : Own(q)' = Own(q)
      BY <2>1 DEF Own, Listed, InUse
    <2>3. ObjectsAreTrue' /\ Counts'
      BY <2>1, <2>2, KeyFrame
    <2>4. CallersKeys'
      BY <2>1 DEF KInv, CallersKeys
    <2> QED
      BY <1>1, <2>3, <2>4 DEF KInv
  <1>3. CASE Fork \/ LibraryInit \/ Finish \/ FinishFails
    BY <1>1, <1>3, ForkKeys, LibraryInitKeys, FinishKeys, FinishFailsKeys DEF KInv
  <1>4. ASSUME NEW t \in Callers, NEW o \in OpTypes, NEW k \in Keys,
               GetListed(t, o, k) \/ GetNew(t, o, k) \/ GetForked(t, o, k)
        PROVE  KInv'
    BY <1>1, <1>4, GetListedKeys, GetNewKeys, GetForkedKeys DEF KInv
  <1>5. ASSUME NEW t \in Callers, NEW o \in OpTypes, GetForkedFails(t, o) PROVE KInv'
    BY <1>1, <1>5, GetForkedFailsKeys DEF KInv
  <1>6. ASSUME NEW t \in Callers, Check(t) \/ Find(t) PROVE KInv'
    BY <1>1, <1>6, CheckKeys, FindKeys DEF KInv
  <1>7. ASSUME NEW t \in Callers,
               \/ LoadAnyway(t) \/ FindFails(t) \/ LoadFails(t)
               \/ Use(t) \/ DigestAgain(t) \/ Return(t)
        PROVE  KInv'
    BY <1>1, <1>7, UseKeys, FindFailsKeys, LeaveKeys, ReturnKeys DEF KInv
  <1> QED
    BY <1>2, <1>3, <1>4, <1>5, <1>6, <1>7 DEF Next

LEMMA SpecKeys == Spec => []KInv
  BY InitKeys, KeysStep, PTL DEF Spec

\* active_list never counts fewer structures than refer to an object, and before
\* any fork, until a load of a key took a reference for nothing, exactly as many.
THEOREM CountsCorrect == Spec => []CountsHold
  <1>1. KInv => CountsHold
    BY CountsParts DEF KInv
  <1> QED
    BY <1>1, SpecKeys, PTL

\* find_lock and active_list: the object a caller goes on to use has not been
\* destroyed by another, and is its own key.
THEOREM KeysCorrect == Spec => []KeyIsThere
  <1>1. ASSUME KInv, NEW t \in Callers, pc[t] = "use", Works(t)
        PROVE  store[obj[sp[t]]] = <<op[t], want[t]>>
    <2>1. PICK s \in Structs, o \in Keyed, k \in Keys : s = sp[t] /\ o = op[t] /\ k = want[t]
      BY <1>1 DEF KInv, Sound, CallsSound
    <2>2. initialized /\ ~stale /\ key[s] = k /\ s \in Own(o)
      BY <1>1, <2>1 DEF KInv, Sound, CallsSound, CallersKeys, Works, Own, InUse
    <2>3. obj[s] # None /\ store[obj[s]] = <<o, key[s]>>
      <3>1. \A r \in Structs : key[r] = None <=> obj[r] = None
        BY <1>1 DEF KInv, ObjectsAreTrue
      <3>2. obj[s] # None
        BY <2>2, <3>1, NoneApart
      <3> QED
        BY <1>1, <2>2, <3>2 DEF KInv, ObjectsAreTrue
    <2> QED
      BY <2>1, <2>2, <2>3
  <1>2. KInv => KeyIsThere
    BY <1>1 DEF KeyIsThere
  <1> QED
    BY <1>2, SpecKeys, PTL
-----------------------------------------------------------------------------
\* What is lost stays what it was.  Sessions first.
LEMMA LostIn ==
  ASSUME initialized, initialized', me' = me
  PROVE  /\ LostSessions = {s \in alloc \ (Held \cup AllListed) : by[s] = me}
         /\ LostSessions' = {s \in alloc' \ (Held' \cup AllListed') : by'[s] = me}
  BY DEF LostSessions, Reachable

LEMMA GivenHeld ==
  ASSUME Sound, NEW t \in Callers, NEW s \in Structs, NEW o \in OpTypes, NEW k \in Keys,
         Idle(t), Given(t, s, o, k)
  PROVE  Held' = Held \cup {s}
  <1>1. TypeCall /\ sp[t] = None
    BY TypeParts DEF Sound, CallsSound, Idle
  <1>2. \A u \in Callers : sp'[u] = IF u = t THEN s ELSE sp[u]
    BY <1>1 DEF Given, TypeCall
  <1> QED
    BY <1>1, <1>2, NoneApart DEF Held

LEMMA ListedElements ==
  AllListed = UNION {Elements(cache[o]) : o \in OpTypes}
  /\ AllListed' = UNION {Elements(cache'[o]) : o \in OpTypes}
  BY DEF AllListed, Listed, Elements

LEMMA GetListedLoses ==
  ASSUME KInv, me' = me, NEW t \in Callers, NEW o \in OpTypes, NEW k \in Keys,
         GetListed(t, o, k)
  PROVE  LostSessions' \subseteq LostSessions
  <1>0. PICK s : s = Head(cache[o])
    OBVIOUS
  <1>1. /\ Idle(t) /\ cache[o] # <<>> /\ Given(t, s, o, k)
        /\ cache' = [cache EXCEPT ![o] = Tail(cache[o])]
        /\ UNCHANGED <<initialized, alloc, by>>
    BY <1>0 DEF GetListed
  <1>2. TypeList /\ Lists(cache) /\ Sound /\ initialized /\ initialized'
    BY <1>1, TypeParts, OneUserParts DEF KInv, Sound, Idle
  <1>3. cache[o] \in Seq(Structs) /\ Distinct(cache[o])
    BY <1>2 DEF TypeList, Lists
  <1>4. s \in Structs /\ Elements(Tail(cache[o])) = Elements(cache[o]) \ {s}
    BY <1>0, <1>1, <1>3, TailElements
  <1>5. Held' = Held \cup {s}
    BY <1>1, <1>2, <1>4, GivenHeld
  <1>6. \A q \in OpTypes : cache'[q] = IF q = o THEN Tail(cache[o]) ELSE cache[q]
    BY <1>1, <1>2 DEF TypeList
  <1>7. \A q \in OpTypes : Elements(cache[q]) \subseteq Elements(cache'[q]) \cup {s}
    BY <1>4, <1>6
  <1>8. AllListed \subseteq AllListed' \cup {s}
    BY <1>7, ListedElements
  <1> QED
    BY <1>1, <1>2, <1>5, <1>8, LostIn

LEMMA GetNewLoses ==
  ASSUME KInv, me' = me, NEW t \in Callers, NEW o \in OpTypes, NEW k \in Keys, GetNew(t, o, k)
  PROVE  LostSessions' \subseteq LostSessions
  <1>1. PICK s \in Structs : alloc' = alloc \cup {s} /\ SetUp(s, {}) /\ Given(t, s, o, k)
    BY DEF GetNew
  <1>2. /\ TypeList /\ Sound /\ Idle(t) /\ initialized /\ initialized'
        /\ (cryptoki => cache' = cache)
    BY TypeParts DEF KInv, Sound, Idle, GetNew, Restarted
  <1>3. Held' = Held \cup {s}
    BY <1>1, <1>2, GivenHeld
  <1>4. \A r \in Structs : r # s => by'[r] = by[r]
    BY <1>1, <1>2 DEF SetUp, TypeList
  <1>5. CASE cryptoki
    <2>1. AllListed' = AllListed
      BY <1>2, <1>5, ListedElements
    <2> QED
      BY <1>1, <1>2, <1>3, <1>4, <2>1, LostIn DEF TypeList
  <1>6. CASE ~cryptoki
    <2>1. Fresh
      BY <1>2, <1>6, NotFirst
    <2> QED
      BY <1>1, <1>2, <1>3, <1>4, <2>1, LostIn DEF TypeList, Fresh
  <1> QED
    BY <1>5, <1>6

LEMMA GetForkedLoses ==
  ASSUME KInv, Sound', me' = me, NEW t \in Callers, NEW o \in OpTypes, NEW k \in Keys,
         GetForked(t, o, k)
  PROVE  LostSessions' \subseteq LostSessions
  <1>1. PICK s \in IF cache[o] = <<>> THEN Structs \ alloc ELSE {Head(cache[o])} :
          SetUp(s, Listed(o)) /\ Given(t, s, o, k)
    BY DEF GetForked
  <1>2. /\ TypeList /\ TypeList' /\ Sound /\ Idle(t) /\ initialized /\ initialized' /\ Fresh
    BY TypeParts, TypePartsNext, NotFirst DEF KInv, Sound, Idle, GetForked
  <1>3. s \in Structs
    <2>1. cache[o] \in Seq(Structs)
      BY <1>2 DEF TypeList
    <2> QED
      BY <1>1, <2>1
  <1>4. Held' = Held \cup {s}
    BY <1>1, <1>2, <1>3, GivenHeld
  <1>5. me # 0 /\ \A r \in Structs : r # s => by'[r] = by[r] \/ by'[r] = 0
    BY <1>1, <1>2, TypeParts DEF SetUp, TypeList, Sound, TypeLib, Pids
  <1> QED
    BY <1>2, <1>4, <1>5, LostIn DEF TypeList, Fresh

LEMMA ReturnLoses ==
  ASSUME KInv, me' = me, NEW t \in Callers, Return(t)
  PROVE  LostSessions' \subseteq LostSessions
  <1>1. /\ pc[t] = "done" /\ Leaves(t) /\ UNCHANGED <<initialized, alloc, by>>
        /\ cache' = [cache EXCEPT ![op[t]] = IF by[sp[t]] = me THEN <<sp[t]>> \o @ ELSE @]
    BY DEF Return, libVars
  <1>2. TypeList /\ TypeCall /\ Users /\ Lists(cache) /\ initialized
    BY <1>1, TypeParts, OneUserParts DEF KInv, Sound, CallsSound
  <1>3. PICK s \in Structs, o \in OpTypes : s = sp[t] /\ o = op[t]
    BY <1>1 DEF KInv, Sound, CallsSound
  <1>4. cache[o] \in Seq(Structs) /\ Distinct(cache[o]) /\ s \notin Elements(cache[o])
    BY <1>2, <1>3, NoneApart DEF TypeList, Lists, Held
  <1>5. PICK r : r = IF by[s] = me THEN <<s>> \o cache[o] ELSE cache[o]
    OBVIOUS
  <1>6. Elements(cache[o]) \subseteq Elements(r) /\ (by[s] = me => s \in Elements(r))
    BY <1>4, <1>5, ConsElements
  <1>7. \A q \in OpTypes : cache'[q] = IF q = o THEN r ELSE cache[q]
    BY <1>1, <1>2, <1>3, <1>5 DEF TypeList
  <1>8. Held \subseteq Held' \cup {s}
    <2>1. \A u \in Callers : sp'[u] = IF u = t THEN None ELSE sp[u]
      BY <1>1, <1>2 DEF Leaves, TypeCall
    <2> QED
      BY <1>3, <2>1 DEF Held
  <1>9. AllListed \subseteq AllListed' /\ (by[s] = me => s \in AllListed')
    <2>1. \A q \in OpTypes : Elements(cache[q]) \subseteq Elements(cache'[q])
      BY <1>6, <1>7
    <2>2. by[s] = me => s \in Elements(cache'[o])
      BY <1>6, <1>7
    <2> QED
      BY <2>1, <2>2, ListedElements
  <1> QED
    BY <1>1, <1>2, <1>8, <1>9, LostIn

LEMMA FinishLoses ==
  ASSUME KInv, me' = me, Finish PROVE LostSessions' \subseteq LostSessions
  <1>1. /\ initialized /\ \A t \in Callers : pc[t] = "idle"
        /\ Freed(AllListed)
    BY DEF Finish, Finishing
  <1>2. Held = {} /\ TypeList
    BY <1>1, TypeParts DEF KInv, Sound, CallsSound, Held
  <1>3. alloc' = alloc \ AllListed /\ \A r \in alloc' : by'[r] = by[r]
    BY <1>1, <1>2 DEF Freed, TypeList
  <1> QED
    BY <1>1, <1>2, <1>3 DEF LostSessions, Reachable

\* And the objects.
LEMMA FreshObjects ==
  ASSUME \A h \in Objects : store'[h] = None PROVE LostObjects' = {}
  BY DEF LostObjects

LEMMA FindLoses ==
  ASSUME KInv, NEW t \in Callers, Find(t)
  PROVE  LostObjects' \subseteq LostObjects
  <1>1. TypeKey
    BY TypeParts DEF KInv, Sound
  <1>2. PICK h \in Objects : /\ Refers(t, h)
                             /\ store' = [store EXCEPT ![h] = <<op[t], want[t]>>]
    BY DEF Find, NewHandles
  <1>3. PICK o \in Keyed : o = op[t]
    BY DEF Find, KInv, Sound, CallsSound
  <1>4. active[o] \in [Objects -> Nat] /\ active \in [Keyed -> [Objects -> Nat]]
    BY <1>1 DEF TypeKey
  <1>5. PICK f : f = [active[o] EXCEPT ![h] = active[o][h] + 1]
    OBVIOUS
  <1>6. active' = [active EXCEPT ![o] = f]
    BY <1>2, <1>3, <1>5 DEF Refers
  <1>7. active'[o][h] = active[o][h] + 1 /\ active[o][h] \in Nat
    BY <1>4, <1>5, <1>6
  <1>8. \A q \in Keyed, g \in Objects : g # h => active'[q][g] = active[q][g]
    BY <1>4, <1>5, <1>6
  <1>9. \A g \in Objects : g # h => store'[g] = store[g]
    BY <1>1, <1>2 DEF TypeKey
  <1>10. h \notin LostObjects'
    <2>1. active'[o][h] # 0
      BY <1>7
    <2> QED
      BY <2>1 DEF LostObjects
  <1> QED
    BY <1>8, <1>9, <1>10 DEF LostObjects

LEMMA CheckLoses ==
  ASSUME KInv, NEW t \in Callers, Check(t)
  PROVE  LostObjects' \subseteq LostObjects
  <1>1. TypeKey /\ TypeList /\ TypeCall /\ Users
    BY TypeParts, OneUserParts DEF KInv, Sound
  <1>2. UNCHANGED keyVars \/ (obj[sp[t]] # None /\ Destroyed(t))
    BY DEF Check
  <1>3. CASE UNCHANGED keyVars
    BY <1>3 DEF keyVars, LostObjects
  <1>4. CASE obj[sp[t]] # None /\ Destroyed(t)
    <2>1. PICK o \in Keyed, s \in Structs : o = op[t] /\ s = sp[t]
      BY DEF Check, KInv, Sound, CallsSound
    <2>2. PICK h \in Objects : h = obj[s] /\ h # None
      BY <1>1, <1>4, <2>1 DEF TypeKey
    <2>3. /\ active'[o][h] = IF active[o][h] = 0 THEN 0 ELSE active[o][h] - 1
          /\ \A q \in Keyed, g \in Objects : q # o \/ g # h => active'[q][g] = active[q][g]
          /\ \A g \in Objects : store'[g] # store[g] => store'[g] = None
          /\ active[o][h] = 1 /\ by[s] = me /\ cryptoki => store'[h] = None
      BY <1>4, <2>1, <2>2, DestroyedParts
    <2>4. active[o][h] \in Nat
      BY <1>1 DEF TypeKey
    <2>5. s \in alloc
      BY <1>1, <2>1, NoneApart DEF Users, Held
    <2>6. by[s] = me => cryptoki
      BY DEF KInv, Sound, Processes, Fresh
    <2>7. by[s] # me => store[h] = None
      BY <2>2, <2>5 DEF KInv, ObjectsAreTrue
    <2>8. h \in LostObjects' => h \in LostObjects
      <3>1. CASE active[o][h] = 0
        <4>1. \A q \in Keyed : active'[q][h] = active[q][h]
          BY <2>3, <3>1
        <4> QED
          BY <2>3, <4>1 DEF LostObjects
      <3>2. CASE active[o][h] = 1
        BY <2>3, <2>6, <2>7, <3>2 DEF LostObjects
      <3>3. CASE active[o][h] # 0 /\ active[o][h] # 1
        <4>1. active'[o][h] # 0
          BY <2>3, <2>4, <3>3
        <4> QED
          BY <4>1 DEF LostObjects
      <3> QED
        BY <3>1, <3>2, <3>3
    <2>9. ASSUME NEW g \in Objects, g # h, g \in LostObjects' PROVE g \in LostObjects
      BY <2>3, <2>9 DEF LostObjects
    <2> QED
      BY <2>8, <2>9 DEF LostObjects
  <1> QED
    BY <1>2, <1>3, <1>4

LEMMA NothingLostStep ==
  ASSUME KInv, Sound', [Next]_vars, me' = me
  PROVE  /\ Forgets \/ LostSessions' \subseteq LostSessions
         /\ \/ LibraryInit \/ FinishFails \/ (Finish /\ LostSessions # {})
            \/ LostObjects' \subseteq LostObjects
  <1>0. Sound
    BY DEF KInv
  <1>1. ASSUME UNCHANGED <<store, active>> PROVE LostObjects' \subseteq LostObjects
    BY <1>1 DEF LostObjects
  <1>2. ASSUME UNCHANGED <<initialized, cache, alloc, by, sp>>
        PROVE  LostSessions' \subseteq LostSessions
    BY <1>2 DEF LostSessions, Reachable, AllListed, Listed, Held
  <1>3. CASE UNCHANGED vars
    BY <1>1, <1>2, <1>3 DEF vars, libVars, listVars, keyVars, callVars
  <1>4. ASSUME NEW t \in Callers, NEW o \in OpTypes, NEW k \in Keys, GetListed(t, o, k)
        PROVE  LostSessions' \subseteq LostSessions /\ LostObjects' \subseteq LostObjects
    <2>1. UNCHANGED <<store, active>>
      BY <1>4 DEF GetListed, keyVars
    <2> QED
      BY <1>1, <1>4, <2>1, GetListedLoses
  <1>5. ASSUME NEW t \in Callers, NEW o \in OpTypes, NEW k \in Keys, GetNew(t, o, k)
        PROVE  LostSessions' \subseteq LostSessions /\ LostObjects' \subseteq LostObjects
    <2>1. store' = store /\ (cryptoki => active' = active)
      BY <1>5 DEF GetNew
    <2>2. CASE cryptoki
      BY <1>1, <1>5, <2>1, <2>2, GetNewLoses
    <2>3. CASE ~cryptoki
      BY <1>0, <1>5, <2>1, <2>3, GetNewLoses, NotFirst, FreshObjects DEF Fresh
    <2> QED
      BY <2>2, <2>3
  <1>6. ASSUME NEW t \in Callers, NEW o \in OpTypes, NEW k \in Keys, GetForked(t, o, k)
        PROVE  LostSessions' \subseteq LostSessions /\ LostObjects' \subseteq LostObjects
    <2>1. store' = store /\ ~SameProcess
      BY <1>6 DEF GetForked
    <2> QED
      BY <1>0, <1>6, <2>1, GetForkedLoses, NotFirst, FreshObjects DEF Fresh
  <1>7. ASSUME NEW t \in Callers, NEW o \in OpTypes, GetForkedFails(t, o)
        PROVE  LostSessions' \subseteq LostSessions /\ LostObjects' \subseteq LostObjects
    <2>1. store' = store /\ ~SameProcess /\ UNCHANGED <<initialized, cache, alloc, by, sp>>
      BY <1>7 DEF GetForkedFails, listVars, callVars
    <2> QED
      BY <1>0, <1>2, <2>1, NotFirst, FreshObjects DEF Fresh
  <1>8. ASSUME NEW t \in Callers, Check(t)
        PROVE  LostSessions' \subseteq LostSessions /\ LostObjects' \subseteq LostObjects
    <2>1. UNCHANGED <<initialized, cache, alloc, by, sp>>
      BY <1>8 DEF Check, libVars, listVars
    <2> QED
      BY <1>2, <1>8, <2>1, CheckLoses
  <1>9. ASSUME NEW t \in Callers, Find(t)
        PROVE  LostSessions' \subseteq LostSessions /\ LostObjects' \subseteq LostObjects
    <2>1. UNCHANGED <<initialized, cache, alloc, by, sp>>
      BY <1>9 DEF Find, libVars, listVars
    <2> QED
      BY <1>2, <1>9, <2>1, FindLoses
  <1>10. ASSUME NEW t \in Callers, LoadAnyway(t) \/ FindFails(t) \/ Use(t)
         PROVE  LostSessions' \subseteq LostSessions /\ LostObjects' \subseteq LostObjects
    <2>1. UNCHANGED <<initialized, cache, alloc, by, sp>> /\ UNCHANGED <<store, active>>
      BY <1>10 DEF LoadAnyway, FindFails, Use, libVars, listVars, keyVars
    <2> QED
      BY <1>1, <1>2, <2>1
  <1>11. ASSUME NEW t \in Callers, Return(t)
         PROVE  LostSessions' \subseteq LostSessions /\ LostObjects' \subseteq LostObjects
    <2>1. UNCHANGED <<store, active>>
      BY <1>11 DEF Return, keyVars
    <2> QED
      BY <1>1, <1>11, <2>1, ReturnLoses
  <1>12. CASE Fork
    BY <1>0, <1>12, TypeParts DEF Sound, TypeLib, Pids, Fork
  <1>13. CASE Finish
    <2>1. LostSessions = {} => \A h \in Objects : store'[h] = None
      BY <1>13 DEF Finish, Cleared
    <2> QED
      BY <1>13, <2>1, FinishLoses, FreshObjects
  <1>14. ASSUME NEW t \in Callers, LoadFails(t) \/ DigestAgain(t)
         PROVE  Forgets /\ LostObjects' \subseteq LostObjects
    <2>1. UNCHANGED <<store, active>>
      BY <1>14 DEF LoadFails, DigestAgain, keyVars
    <2> QED
      BY <1>1, <1>14, <2>1 DEF Forgets
  <1>15. CASE LibraryInit \/ FinishFails
    BY <1>15 DEF Forgets
  <1> QED
    BY <1>3, <1>4, <1>5, <1>6, <1>7, <1>8, <1>9, <1>10, <1>11, <1>12, <1>13, <1>14, <1>15 DEF Next

\* No step forgets a session or an object but those NothingLost names: a digest
\* initialised again, a load of a key that fails, a pk11_finish that fails and a
\* second pk11_library_init.
THEOREM NothingLostCorrect == Spec => NothingLost
  <1>1. KInv /\ KInv' /\ [Next]_vars
          => [me' = me =>
                /\ Forgets \/ LostSessions' \subseteq LostSessions
                /\ \/ LibraryInit \/ FinishFails \/ (Finish /\ LostSessions # {})
                   \/ LostObjects' \subseteq LostObjects]_vars
    BY NothingLostStep DEF KInv
  <1> QED
    BY <1>1, SpecKeys, PTL DEF Spec, NothingLost
=============================================================================
