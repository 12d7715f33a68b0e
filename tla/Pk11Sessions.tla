---------------------------- MODULE Pk11Sessions ----------------------------
(***************************************************************************)
(* components/library/openssl/openssl-1.0.2/engines/pkcs11/e_pk11.c and    *)
(* e_pk11_pub.c: the PKCS#11 engine of OpenSSL.  Each type of operation    *)
(* keeps a list of free PK11_SESSION structures; a caller takes one off    *)
(* it and puts it back.  Sessions of a type with keys remember the key     *)
(* object they used last; active_list counts how many sessions refer to an *)
(* object, which is destroyed with its last reference.                     *)
(*                                                                         *)
(* The model follows one process.  When that forks it goes on as the       *)
(* child, with the parent's memory and none of its PKCS#11 sessions and    *)
(* objects; for the parent fork() changes nothing.  What the code does     *)
(* under one lock is one step: a session list has a lock, and the objects  *)
(* and active_list of a type have another.  OP_DSA, whose sessions name    *)
(* two objects, is left out, and OP_CIPHER is in Pk11Ciphers.              *)
(***************************************************************************)
EXTENDS Integers, Sequences, FiniteSets

CONSTANTS Callers,    \* threads in a call, contexts between calls
          OpTypes,    \* OP_RSA, OP_DH, OP_DIGEST, OP_RAND
          Keyed,      \* those whose key objects are counted: RSA, DH
          Structs,    \* bound: PK11_SESSION structures that can be allocated
          Objects,    \* bound: object handles
          Keys,
          MaxForks,   \* bound: generations of processes
          MaxRefs,    \* bound: references to an object that active_list counts
          None

ASSUME Pk11Assumption ==
    /\ Keyed \subseteq OpTypes
    /\ IsFiniteSet(Structs)
    /\ MaxForks \in Nat /\ MaxRefs \in Nat
    /\ None \notin Structs \cup Objects \cup Keys \cup OpTypes \cup (Keyed \X Keys)

Pids == 1 .. MaxForks + 1

VARIABLES me,           \* getpid()
          initialized, libPid,  \* pk11_library_initialized, pk11_pid
          engine,       \* pk11_engine is not NULL
          pid,          \* the static variable of pk11_get_session
          cryptoki,     \* C_Initialize was called in this process
          cache,        \* session_cache[]: the list from head along next
          alloc,        \* structures that are not free
          by,           \* PK11_SESSION.pid: the process that opened it
          obj, key,     \* the object a session refers to and the key it is of
          active,       \* active_list[]: object -> refcnt
          store,        \* objects of the token this process can use
          pc, sp, op, want,
          stale,        \* the lists name structures that were freed
          over          \* active_list has a reference nobody will give up

libVars  == <<initialized, libPid, engine, pid, cryptoki>>
listVars == <<cache, alloc, by>>
keyVars  == <<obj, key, active, store>>
callVars == <<pc, sp, op, want>>
vars == <<me, libVars, listVars, keyVars, callVars, stale, over>>
-----------------------------------------------------------------------------
Empty == [o \in OpTypes |-> <<>>]
NoReferences == [o \in Keyed |-> [h \in Objects |-> 0]]

Listed(o) == {cache[o][i] : i \in DOMAIN cache[o]}
Held == {sp[t] : t \in Callers} \ {None}
AllListed == UNION {Listed(o) : o \in OpTypes}
InUse(o) == {s \in Structs : \E t \in Callers : sp[t] = s /\ op[t] = o}

Init ==
    /\ me = 1 /\ initialized = TRUE /\ libPid = 1 /\ engine = TRUE
    /\ pid = 0 /\ cryptoki = TRUE
    /\ cache = Empty
    /\ alloc = {}
    /\ by = [s \in Structs |-> 0]
    /\ obj = [s \in Structs |-> None]
    /\ key = [s \in Structs |-> None]
    /\ active = NoReferences
    /\ store = [h \in Objects |-> None]
    /\ pc = [t \in Callers |-> "idle"]
    /\ sp = [t \in Callers |-> None]
    /\ op = [t \in Callers |-> None]
    /\ want = [t \in Callers |-> None]
    /\ stale = FALSE /\ over = FALSE
-----------------------------------------------------------------------------
\* What a call makes of a list of freed structures is not modelled.
Idle(t) == pc[t] = "idle" /\ initialized /\ ~stale

\* The caller goes on with structure s: a type with keys looks at the key.
Given(t, s, o, k) ==
    /\ pc' = [pc EXCEPT ![t] = IF o \in Keyed THEN "check" ELSE "context"]
    /\ sp' = [sp EXCEPT ![t] = s]
    /\ op' = [op EXCEPT ![t] = o]
    /\ want' = [want EXCEPT ![t] = IF o \in Keyed THEN k ELSE None]

Leaves(t) ==
    /\ pc' = [pc EXCEPT ![t] = "idle"]
    /\ sp' = [sp EXCEPT ![t] = None]
    /\ op' = [op EXCEPT ![t] = None]
    /\ want' = [want EXCEPT ![t] = None]

\* pk11_setup_session; the structures in gone were freed before.
SetUp(s, gone) ==
    /\ by' = [r \in Structs |-> IF r = s THEN me ELSE IF r \in gone THEN 0 ELSE by[r]]
    /\ obj' = [r \in Structs |-> IF r \in gone \cup {s} THEN None ELSE obj[r]]
    /\ key' = [r \in Structs |-> IF r \in gone \cup {s} THEN None ELSE key[r]]

\* pk11_library_init drops the lists and the counts of whatever was before.
Restarted ==
    /\ cryptoki' = TRUE /\ libPid' = me /\ initialized' = TRUE
    /\ active' = NoReferences

SameProcess == pid \in {0, me}

\* pk11_get_session, from the free list.
GetListed(t, o, k) ==
    /\ Idle(t) /\ SameProcess
    /\ cache[o] # <<>>
    /\ pid' = me
    /\ cache' = [cache EXCEPT ![o] = Tail(@)]
    /\ Given(t, Head(cache[o]), o, k)
    /\ UNCHANGED <<me, initialized, libPid, engine, cryptoki, alloc, by, keyVars, stale, over>>

\* pk11_get_session with an empty list.  In a child that has not initialised
\* PKCS#11, C_OpenSession says so, and pk11_library_init(NULL) is called.
GetNew(t, o, k) ==
    /\ Idle(t) /\ SameProcess
    /\ cache[o] = <<>>
    /\ pid' = me
    /\ \E s \in Structs \ alloc :
          /\ alloc' = alloc \cup {s}
          /\ SetUp(s, {})
          /\ Given(t, s, o, k)
    /\ IF cryptoki THEN UNCHANGED <<cache, active, initialized, libPid, engine, cryptoki>>
       ELSE Restarted /\ cache' = Empty /\ engine' = FALSE
    /\ UNCHANGED <<me, store, stale, over>>

\* Mutant: the list keeps what was inherited.
GetForked_Kept(t, o, k) ==
    /\ Idle(t) /\ ~SameProcess
    /\ pid' = me /\ cryptoki' = TRUE
    /\ \E s \in IF cache[o] = <<>> THEN Structs \ alloc ELSE {Head(cache[o])} :
          /\ alloc' = (alloc \ Listed(o)) \cup {s}
          /\ cache' = [cache EXCEPT ![o] = IF @ = <<>> THEN <<>> ELSE Tail(@)]
          /\ SetUp(s, Listed(o))
          /\ Given(t, s, o, k)
    /\ active' = [a \in Keyed |-> IF a = o THEN NoReferences[o] ELSE active[a]]
    /\ UNCHANGED <<me, initialized, libPid, engine, store, stale, over>>

\* pk11_get_session, the first time in a child: PKCS#11 is initialised, of the
\* list of this type all but the first structure are freed, and that one gets
\* a session of this process.  The lists of the other types stay.
GetForked(t, o, k) ==
    /\ Idle(t) /\ ~SameProcess
    /\ pid' = me /\ cryptoki' = TRUE
    /\ \E s \in IF cache[o] = <<>> THEN Structs \ alloc ELSE {Head(cache[o])} :
          /\ alloc' = (alloc \ Listed(o)) \cup {s}
          /\ cache' = [cache EXCEPT ![o] = <<>>]
          /\ SetUp(s, Listed(o))
          /\ Given(t, s, o, k)
    /\ active' = [a \in Keyed |-> IF a = o THEN NoReferences[o] ELSE active[a]]
    /\ UNCHANGED <<me, initialized, libPid, engine, store, stale, over>>

\* The same where the list is empty and PKCS#11 or the session cannot be had:
\* the next call takes the process for initialised.
GetForkedFails(t, o) ==
    /\ Idle(t) /\ ~SameProcess
    /\ cache[o] = <<>>
    /\ pid' = me
    /\ cryptoki' \in {cryptoki, TRUE}
    /\ active' = [a \in Keyed |-> IF a = o THEN NoReferences[o] ELSE active[a]]
    /\ UNCHANGED <<me, initialized, libPid, engine, listVars, obj, key, store, callVars,
                   stale, over>>
-----------------------------------------------------------------------------
\* A session of another process refuses every call.
Works(t) == by[sp[t]] = me /\ cryptoki

\* Mutant: the object goes whoever else refers to it.
Destroyed_AtOnce(t) ==
    LET s == sp[t]
        h == obj[s]
    IN  /\ active' = [active EXCEPT ![op[t]][h] = IF @ = 0 THEN 0 ELSE @ - 1]
        /\ store' = [store EXCEPT ![h] = IF Works(t) THEN None ELSE @]
        /\ obj' = [obj EXCEPT ![s] = None]
        /\ key' = [key EXCEPT ![s] = None]

\* Mutant: an object active_list does not have is counted down all the same.
Destroyed_NoEntry(t) ==
    LET s == sp[t]
        h == obj[s]
    IN  /\ active' = [active EXCEPT ![op[t]][h] = @ - 1]
        /\ store' = [store EXCEPT ![h] = IF active[op[t]][h] = 1 /\ Works(t)
                                         THEN None ELSE @]
        /\ obj' = [obj EXCEPT ![s] = None]
        /\ key' = [key EXCEPT ![s] = None]

\* TRY_OBJ_DESTROY: with the last reference the object goes.
Destroyed(t) ==
    LET s == sp[t]
        h == obj[s]
    IN  /\ active' = [active EXCEPT ![op[t]][h] = IF @ = 0 THEN 0 ELSE @ - 1]
        /\ store' = [store EXCEPT ![h] = IF active[op[t]][h] = 1 /\ Works(t)
                                         THEN None ELSE @]
        /\ obj' = [obj EXCEPT ![s] = None]
        /\ key' = [key EXCEPT ![s] = None]

\* pk11_check_new_rsa_key_pub and the like: the key is the one used last, or
\* the session gives up its object.
Check(t) ==
    /\ pc[t] = "check"
    /\ LET s == sp[t] IN
       IF key[s] = want[t] THEN UNCHANGED keyVars
       ELSE IF obj[s] = None THEN UNCHANGED keyVars
       ELSE Destroyed(t)
    /\ pc' = [pc EXCEPT ![t] = IF key[sp[t]] = want[t] THEN "use" ELSE "find"]
    /\ UNCHANGED <<me, libVars, listVars, sp, op, want, stale, over>>

\* pk11_load_privkey and pk11_load_pubkey do not look at what the check says:
\* a session that has the key is made to refer to it once more.
LoadAnyway(t) ==
    /\ pc[t] = "check" /\ key[sp[t]] = want[t]
    /\ pc' = [pc EXCEPT ![t] = "find"]
    /\ UNCHANGED <<me, libVars, listVars, keyVars, sp, op, want, stale, over>>

\* Mutant: an object that was found is not counted.
Refers_CreatedOnly(t, h) ==
    /\ active' = [active EXCEPT ![op[t]][h] = IF store[h] = None THEN @ + 1 ELSE @]
    /\ obj' = [obj EXCEPT ![sp[t]] = h]
    /\ key' = [key EXCEPT ![sp[t]] = want[t]]

\* KEY_HANDLE_REFHOLD
Refers(t, h) ==
    /\ active' = [active EXCEPT ![op[t]][h] = @ + 1]
    /\ obj' = [obj EXCEPT ![sp[t]] = h]
    /\ key' = [key EXCEPT ![sp[t]] = want[t]]

\* Handles C_CreateObject may return: of no object there is, and of none the
\* parent had that a structure still names.
NewHandles == {h \in Objects : store[h] = None /\ \A s \in alloc : obj[s] # h}

\* pk11_get_public_rsa_key and the like: an object with this key, or a new one.
Find(t) ==
    /\ pc[t] = "find" /\ Works(t)
    /\ LET this  == <<op[t], want[t]>>
           found == {h \in Objects : store[h] = this}
       IN  \E h \in IF found # {} THEN found ELSE NewHandles :
              /\ active[op[t]][h] < MaxRefs
              /\ Refers(t, h)
              /\ store' = [store EXCEPT ![h] = this]
    /\ over' = (over \/ obj[sp[t]] # None)
    /\ pc' = [pc EXCEPT ![t] = "use"]
    /\ UNCHANGED <<me, libVars, listVars, sp, op, want, stale>>

\* A call of PKCS#11 fails, or memory is short and the new object is destroyed
\* again: the session has no object, not even one it had, and is given back.
FindFails(t) ==
    /\ pc[t] = "find"
    /\ obj' = [obj EXCEPT ![sp[t]] = None]
    /\ key' = [key EXCEPT ![sp[t]] = None]
    /\ over' = (over \/ obj[sp[t]] # None)
    /\ pc' = [pc EXCEPT ![t] = "done"]
    /\ UNCHANGED <<me, libVars, listVars, active, store, sp, op, want, stale>>

\* The err label of pk11_load_privkey and pk11_load_pubkey: the session is not
\* given back, nor is what it refers to.
LoadFails(t) ==
    /\ pc[t] \in {"check", "find"}
    /\ over' = (over \/ obj[sp[t]] # None)
    /\ Leaves(t)
    /\ UNCHANGED <<me, libVars, listVars, keyVars, stale>>

\* The operation itself, whether it succeeds or not; of a digest, the update
\* that fails or the final call.
Use(t) ==
    /\ pc[t] \in {"use", "context"}
    /\ pc' = [pc EXCEPT ![t] = "done"]
    /\ UNCHANGED <<me, libVars, listVars, keyVars, sp, op, want, stale, over>>

\* pk11_digest_init begins by clearing state->sp: a context that is initialised
\* again before its final call forgets the session it has.
DigestAgain(t) ==
    /\ pc[t] = "context"
    /\ Leaves(t)
    /\ UNCHANGED <<me, libVars, listVars, keyVars, stale, over>>

\* Mutant: the process is not compared.
Return_AnyProcess(t) ==
    /\ pc[t] = "done"
    /\ cache' = [cache EXCEPT ![op[t]] = <<sp[t]>> \o @]
    /\ Leaves(t)
    /\ UNCHANGED <<me, libVars, alloc, by, keyVars, stale, over>>

\* pk11_return_session: a session of the parent is left where it is.
Return(t) ==
    /\ pc[t] = "done"
    /\ cache' = [cache EXCEPT ![op[t]] = IF by[sp[t]] = me THEN <<sp[t]>> \o @ ELSE @]
    /\ Leaves(t)
    /\ UNCHANGED <<me, libVars, alloc, by, keyVars, stale, over>>
-----------------------------------------------------------------------------
\* fork(), seen by the child: whoever was in a call is not there any more, and
\* contexts are; pk11_fork_prepare has waited for the locks.
Fork ==
    /\ me <= MaxForks
    /\ me' = me + 1
    /\ cryptoki' = FALSE
    /\ store' = [h \in Objects |-> None]
    /\ pc' = [t \in Callers |-> IF pc[t] = "context" THEN "context" ELSE "idle"]
    /\ sp' = [t \in Callers |-> IF pc[t] = "context" THEN sp[t] ELSE None]
    /\ op' = [t \in Callers |-> IF pc[t] = "context" THEN op[t] ELSE None]
    /\ want' = [t \in Callers |-> IF pc[t] = "context" THEN want[t] ELSE None]
    /\ UNCHANGED <<initialized, libPid, engine, pid, listVars, obj, key, active, stale, over>>

\* pk11_library_init, when the engine is initialised again: in this process
\* after pk11_finish, or in a child.  It can fail after it has begun.  Where
\* nothing is to be done it notes the engine.
LibraryInit ==
    /\ \A t \in Callers : pc[t] \in {"idle", "context"}
    /\ engine' = TRUE
    /\ IF initialized /\ libPid = me
       THEN UNCHANGED <<initialized, libPid, cryptoki, cache, active, stale>>
       ELSE /\ cache' = Empty /\ stale' = FALSE
            /\ \/ Restarted
               \/ active' = NoReferences /\ UNCHANGED <<initialized, libPid, cryptoki>>
    /\ UNCHANGED <<me, pid, alloc, by, obj, key, store, callVars, over>>

\* The engine is finished with the last reference to it, which contexts have.
Finishing == initialized /\ engine /\ ~stale /\ \A t \in Callers : pc[t] = "idle"

\* The counts when every session on a list has given its object up.
Released ==
    [o \in Keyed |-> [h \in Objects |->
        LET n == Cardinality({s \in Listed(o) : obj[s] = h})
        IN  IF active[o][h] > n THEN active[o][h] - n ELSE 0]]

\* Objects without a reference are destroyed, the others go with the session
\* that made them, if that is closed.
Cleared(closed) ==
    \E left \in IF closed THEN {{}} ELSE SUBSET {h \in Objects : \E o \in Keyed : Released[o][h] > 0} :
       store' = [h \in Objects |-> IF h \in left THEN store[h] ELSE None]

\* Sessions of this process that nothing names any more.
Reachable == Held \cup (IF initialized THEN AllListed ELSE {})
LostSessions == {s \in alloc \ Reachable : by[s] = me}

\* OPENSSL_free
Freed(gone) ==
    /\ alloc' = alloc \ gone
    /\ by' = [s \in Structs |-> IF s \in gone THEN 0 ELSE by[s]]
    /\ obj' = [s \in Structs |-> IF s \in gone THEN None ELSE obj[s]]
    /\ key' = [s \in Structs |-> IF s \in gone THEN None ELSE key[s]]

\* Mutant: the sessions of one type are forgotten.
Finish_NotAll ==
    /\ Finishing
    /\ Freed(UNION {Listed(o) : o \in Keyed})
    /\ active' = NoReferences /\ over' = FALSE
    /\ Cleared(LostSessions = {})
    /\ initialized' = FALSE /\ libPid' = 0 /\ engine' = FALSE
    /\ UNCHANGED <<me, pid, cryptoki, cache, callVars, stale>>

\* pk11_finish, with the last reference to the engine: objects are destroyed,
\* the sessions of this process closed, and all structures freed.
Finish ==
    /\ Finishing
    /\ Freed(AllListed)
    /\ active' = NoReferences /\ over' = FALSE
    /\ Cleared(LostSessions = {})
    /\ initialized' = FALSE /\ libPid' = 0 /\ engine' = FALSE
    /\ UNCHANGED <<me, pid, cryptoki, cache, callVars, stale>>

\* pk11_finish where C_CloseSession fails, before the counts are freed, or
\* DSO_free: the structures are freed, and the engine stays initialised with
\* lists that name them.
FinishFails ==
    /\ Finishing
    /\ alloc' = alloc \ AllListed
    /\ stale' = (AllListed # {})
    /\ \/ /\ \E s \in AllListed : by[s] = me
          /\ active' = Released
       \/ active' = NoReferences
    /\ Cleared(FALSE)
    /\ UNCHANGED <<me, libVars, cache, by, obj, key, callVars, over>>

Next ==
    \/ \E t \in Callers :
          \/ \E o \in OpTypes, k \in Keys :
                GetListed(t, o, k) \/ GetNew(t, o, k) \/ GetForked(t, o, k)
          \/ \E o \in OpTypes : GetForkedFails(t, o)
          \/ Check(t) \/ LoadAnyway(t) \/ Find(t) \/ FindFails(t) \/ LoadFails(t)
          \/ Use(t) \/ DigestAgain(t) \/ Return(t)
    \/ Fork \/ LibraryInit \/ Finish \/ FinishFails

Spec == Init /\ [][Next]_vars
-----------------------------------------------------------------------------
\* Every variable keeps its type.
TypeOK ==
    /\ me \in Pids /\ pid \in 0 .. me /\ libPid \in 0 .. me
    /\ initialized \in BOOLEAN /\ engine \in BOOLEAN /\ cryptoki \in BOOLEAN
    /\ cache \in [OpTypes -> Seq(Structs)]
    /\ alloc \subseteq Structs
    /\ by \in [Structs -> 0 .. me]
    /\ obj \in [Structs -> Objects \cup {None}]
    /\ key \in [Structs -> Keys \cup {None}]
    /\ active \in [Keyed -> [Objects -> Nat]]
    /\ store \in [Objects -> (Keyed \X Keys) \cup {None}]
    /\ pc \in [Callers -> {"idle", "check", "find", "use", "context", "done"}]
    /\ sp \in [Callers -> Structs \cup {None}]
    /\ op \in [Callers -> OpTypes \cup {None}]
    /\ want \in [Callers -> Keys \cup {None}]
    /\ stale \in BOOLEAN /\ over \in BOOLEAN

\* "The returned PK11_SESSION structure is disconnected from the freelist"
\* (pk11_get_session): no two callers have one structure, none that is in use
\* or freed is on a list, and no structure is on two lists or twice on one.
\* After a pk11_finish that failed the lists do name freed structures.
OneUser ==
    /\ \A t, u \in Callers : sp[t] # None /\ sp[t] = sp[u] => t = u
    /\ Held \subseteq alloc
    /\ initialized /\ ~stale =>
         \A o \in OpTypes :
            /\ Listed(o) \subseteq alloc \ Held
            /\ \A i, j \in DOMAIN cache[o] : cache[o][i] = cache[o][j] => i = j
            /\ \A q \in OpTypes \ {o} : Listed(o) \cap Listed(q) = {}

\* The comment on find_lock: no object is destroyed that another session has
\* found.  An operation finds the object there, and it is its own key.
KeyIsThere ==
    \A t \in Callers :
       pc[t] = "use" /\ Works(t) => store[obj[sp[t]]] = <<op[t], want[t]>>

\* active_list counts the sessions that refer to an object ("we can safely free
\* the object" at 0): never fewer than there are, and no more unless a child
\* has inherited the list or loading a key has taken a reference for nothing.
Referring(o, h) == {s \in Listed(o) \cup InUse(o) : by[s] = me /\ obj[s] = h}
CountsHold ==
    initialized /\ ~stale =>
      \A o \in Keyed, h \in Objects :
         /\ active[o][h] >= Cardinality(Referring(o, h))
         /\ me = 1 /\ ~over => active[o][h] = Cardinality(Referring(o, h))

\* A session this process has opened is free, in use or closed, and an object
\* has a reference: no other step forgets a session, and pk11_finish leaves
\* none.  The steps that do are a digest initialised again, a load that fails, a
\* finish that fails, and pk11_library_init in a child that used the engine
\* before, as pk11_get_session does not set pk11_pid.  An object can outlive
\* pk11_finish only where a session was forgotten.
Forgets ==
    \/ LibraryInit \/ FinishFails
    \/ \E t \in Callers : DigestAgain(t) \/ LoadFails(t)
LostObjects == {h \in Objects : store[h] # None /\ \A o \in Keyed : active[o][h] = 0}
NothingLost ==
    [][me' = me =>
         /\ Forgets \/ LostSessions' \subseteq LostSessions
         /\ \/ LibraryInit \/ FinishFails \/ (Finish /\ LostSessions # {})
            \/ LostObjects' \subseteq LostObjects]_vars

\* The comment in pk11_return_session: a session of the parent goes, sooner or
\* later; it does not come back on a list.
Inherited == {s \in AllListed : by[s] \notin {0, me}}
InheritedLeave == [][me' = me => Inherited' \subseteq Inherited]_vars

\* The comment on pk11_get_session: "Every process must have its own freelist
\* of PK11_SESSION structures so handle fork() here": a call that took its
\* session in this process (fork() ends the others) has one of this process.
OwnFreelist ==
    \A t \in Callers : pc[t] \in {"check", "find", "use"} => by[sp[t]] = me
=============================================================================
