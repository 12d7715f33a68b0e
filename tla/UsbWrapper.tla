----------------------------- MODULE UsbWrapper -----------------------------
(***************************************************************************)
(* components/library/libusb/wrapper/src/wr_libusb.c: the libusb that      *)
(* applications link with.  It loads plugins, lets one of them exclude the *)
(* others, chains their busses into one list, and remembers which plugin   *)
(* opened which handle so that later calls reach it.                       *)
(*                                                                         *)
(* Threads of one application share it.  bus_lock is held within the       *)
(* actions that take it, so as a variable it matters only while usb_init   *)
(* goes through the plugins, because calls read active_index without it,   *)
(* and when a loop under it never ends.  A handle is used by the thread    *)
(* that opened it.                                                         *)
(***************************************************************************)
EXTENDS Integers, Sequences

CONSTANTS Threads,
          N,          \* plugin files found, in the order they are read
          Kinds,      \* what libusb_init() of a plugin may return
          Addrs,      \* addresses a plugin's calloc() may return for a handle
          MaxFinds,   \* bound: calls of usb_find_busses
          MaxList,    \* bound: entries on one list of handles
          None

Plugins == 1 .. N
Answers == {"success", "failure", "exclusive", "other",  \* the values returned
            "noinit"}                                    \* no such symbol

ASSUME WrapperAssumption ==
    /\ N \in Nat /\ MaxFinds \in Nat /\ MaxList \in Nat
    /\ Kinds \subseteq Answers
    /\ None \notin Addrs \cup Threads

VARIABLES kind,       \* the plugin's libusb_init
          compat,     \* plugins of the wrapper's major version
          hasBus,     \* plugins whose usb_busses is not NULL
          loaded,     \* plugins with a p_handle
          ready,      \* plugins whose usb_init was called
          active,     \* winfo.active_index, 0 for -1
          asked,      \* plugins the first loop of usb_init is through with
          head,       \* winfo.head_busp: the plugin whose bus is first, or 0
          busses,     \* usb_busses, which applications read: likewise
          next,       \* usb_bus.next of the bus of each plugin, 0 for NULL
          list,       \* p_info[].dev_handles: addresses, None for NULL
          opener,     \* the plugin that has a handle open at an address, or 0
          holder,     \* the thread that got the handle from usb_open
          pc, arg, to, op,  \* of each thread: where, handle, pindex, its call
          torn,       \* what the thread's get_pindex read without bus_lock changed
          stray,      \* addresses that a plugin freed which had not opened them
          hasty,      \* addresses usb_open gave out while usb_init was at work
          lock,       \* the thread that keeps bus_lock
          finds

confVars == <<kind, compat, hasBus>>
initVars == <<loaded, ready, active, asked>>
busVars  == <<head, busses, next, finds>>
callVars == <<pc, arg, to, op>>
pastVars == <<torn, stray, hasty>>
vars == <<confVars, initVars, busVars, list, opener, holder, callVars, pastVars, lock>>
-----------------------------------------------------------------------------
Unlocked == lock = None
Idle(t) == pc[t] = "idle"
AtWork == \E u \in Threads : pc[u] = "asking"
Goes(t, where) == pc' = [pc EXCEPT ![t] = where]

Returns(t) ==
    /\ Goes(t, "idle")
    /\ arg' = [arg EXCEPT ![t] = None]
    /\ to' = [to EXCEPT ![t] = 0]
    /\ op' = [op EXCEPT ![t] = "none"]

\* A call that get_pindex misled is over.
Forgets(t) == torn' = [torn EXCEPT ![t] = FALSE]

\* Every walk that is under way reads entries that are no longer, or not yet,
\* what they were.
Tears == torn' = [t \in Threads |-> torn[t] \/ pc[t] = "walking"]

Init ==
    /\ kind \in [Plugins -> Kinds]
    /\ compat \in SUBSET Plugins
    /\ hasBus \in SUBSET Plugins
    /\ loaded = {} /\ ready = {} /\ active = 0 /\ asked = 0
    /\ head = 0 /\ busses = 0 /\ next = [p \in Plugins |-> 0]
    /\ list = [p \in Plugins |-> <<>>]
    /\ opener = [a \in Addrs |-> 0]
    /\ holder = [a \in Addrs |-> None]
    /\ pc = [t \in Threads |-> "idle"]
    /\ arg = [t \in Threads |-> None]
    /\ to = [t \in Threads |-> 0]
    /\ op = [t \in Threads |-> "none"]
    /\ torn = [t \in Threads |-> FALSE] /\ stray = {} /\ hasty = {}
    /\ lock = None
    /\ finds = 0
-----------------------------------------------------------------------------
\* Mutant: a plugin of another major version stays.
Asked_AnyVersion(s, p) ==
    LET counted == kind[p] \in {"success", "exclusive", "noinit"}
        count   == s.count + IF counted THEN 1 ELSE 0
        first   == kind[p] = "exclusive" /\ ~s.exclusive
        index   == IF kind[p] = "success" THEN p ELSE s.active
    IN  [count     |-> count,
         exclusive |-> s.exclusive \/ first,
         flagged   |-> IF first THEN {p} ELSE s.flagged,
         loaded    |-> IF kind[p] = "failure" THEN s.loaded \ {p} ELSE s.loaded,
         flags     |-> IF counted THEN s.flags \cup {p} ELSE s.flags,
         active    |-> IF count # 1 THEN 0 ELSE index]

\* The first loop of usb_init, after plugin p: a plugin without libusb_init is
\* taken without another question, one that fails is unloaded, and of one with
\* the wrong version only the handle and the flags are taken back.
Asked(s, p) ==
    LET counted == kind[p] \in {"success", "exclusive", "noinit"}
        checked == kind[p] \notin {"noinit", "failure"}
        dropped == kind[p] = "failure" \/ (checked /\ p \notin compat)
        count   == s.count + IF counted THEN 1 ELSE 0
        first   == kind[p] = "exclusive" /\ ~s.exclusive
        index   == IF kind[p] = "success" THEN p ELSE s.active
    IN  [count     |-> count,
         exclusive |-> s.exclusive \/ first,
         flagged   |-> IF first /\ ~dropped THEN {p} ELSE s.flagged,
         loaded    |-> IF dropped THEN s.loaded \ {p} ELSE s.loaded,
         flags     |-> IF counted /\ ~dropped THEN s.flags \cup {p} ELSE s.flags,
         active    |-> IF checked /\ count # 1 THEN 0 ELSE index]

AskedUpTo[p \in 0 .. N] ==
    IF p = 0 THEN [count |-> 0, exclusive |-> FALSE, flagged |-> {},
                   loaded |-> Plugins, flags |-> {}, active |-> 0]
    ELSE Asked(AskedUpTo[p - 1], p)

\* usb_init is over once the busses were found, which it asks before it takes
\* bus_lock: another thread may find them, and open handles, in between.
UsbInit(t) ==
    /\ Idle(t) /\ head = 0
    /\ Goes(t, "initing")
    /\ UNCHANGED <<confVars, initVars, busVars, list, opener, holder, arg, to, op, pastVars, lock>>

\* load_plugins() loads every plugin, those an earlier usb_init unloaded too; an
\* application keeps the usb_busses it has.
InitLoad(t) ==
    /\ pc[t] = "initing" /\ Unlocked
    /\ lock' = t /\ Goes(t, "asking")
    /\ loaded' = Plugins /\ active' = 0 /\ asked' = 0
    /\ head' = 0
    /\ UNCHANGED <<confVars, ready, busses, next, finds, list, opener, holder, arg, to, op,
                   pastVars>>

\* The first loop, by plugin: until it is through, active_index is not what it
\* was before, and a get_pindex that reads it is misled.
InitAsk(t) ==
    /\ pc[t] = "asking" /\ asked < N
    /\ asked' = asked + 1
    /\ loaded' = AskedUpTo[asked + 1].loaded
    /\ active' = AskedUpTo[asked + 1].active
    /\ UNCHANGED <<confVars, ready, busVars, list, opener, holder, callVars, pastVars, lock>>

\* The plugins that stay, and the one whose index active_index becomes.
Kept == LET s == AskedUpTo[N]
        IN  IF s.exclusive THEN s.loaded \cap s.flagged ELSE s.loaded
Alone == IF AskedUpTo[N].exclusive /\ Kept # {} THEN CHOOSE p \in Kept : TRUE
         ELSE AskedUpTo[N].active

\* Mutant: unloading a plugin does not take its active_flag back.
InitReady_FlagsKept(t) ==
    /\ pc[t] = "asking" /\ asked = N
    /\ loaded' = Kept /\ active' = Alone
    /\ ready' = AskedUpTo[N].flags
    /\ lock' = None /\ Returns(t)
    /\ UNCHANGED <<confVars, asked, busVars, list, opener, holder, pastVars>>

\* The second loop unloads what an exclusive plugin excludes and initialises the
\* rest.
InitReady(t) ==
    /\ pc[t] = "asking" /\ asked = N
    /\ loaded' = Kept /\ active' = Alone
    /\ ready' = Kept \cap AskedUpTo[N].flags
    /\ lock' = None /\ Returns(t)
    /\ UNCHANGED <<confVars, asked, busVars, list, opener, holder, pastVars>>
-----------------------------------------------------------------------------
\* The end of a chain of busses, or 0 when the walk along it never ends.
ReachedIn(nx, p, k) ==
    LET at[j \in 0 .. k] == IF j = 0 THEN p
                            ELSE IF at[j - 1] = 0 THEN 0 ELSE nx[at[j - 1]]
    IN  at[k]
EndOf(nx, p) ==
    LET ends == {q \in Plugins : nx[q] = 0 /\ \E k \in 0 .. N : ReachedIn(nx, p, k) = q}
    IN  IF ends = {} THEN 0 ELSE CHOOSE q \in ends : TRUE

\* Mutant: the wrong pointer is hung on the last bus.
Chain_Itself(s, p) ==
    IF p \notin loaded \cap hasBus \/ (s.first # 0 /\ s.last = 0) THEN s
    ELSE IF s.first = 0
    THEN [first |-> p, last |-> EndOf(s.nx, p), nx |-> s.nx]
    ELSE LET nx == [s.nx EXCEPT ![s.last] = s.last]
         IN  [first |-> s.first, last |-> EndOf(nx, s.last), nx |-> nx]

\* Mutant: head_busp follows the bus that is hung on.
Chain_NewHead(s, p) ==
    IF p \notin loaded \cap hasBus \/ (s.first # 0 /\ s.last = 0) THEN s
    ELSE IF s.first = 0
    THEN [first |-> p, last |-> EndOf(s.nx, p), nx |-> s.nx]
    ELSE LET nx == [s.nx EXCEPT ![s.last] = p]
         IN  [first |-> p, last |-> EndOf(nx, p), nx |-> nx]

\* The second loop of usb_find_busses: the bus of p is hung on the last one.
\* last = 0 with a first bus means that a walk did not come to an end.
Chain(s, p) ==
    IF p \notin loaded \cap hasBus \/ (s.first # 0 /\ s.last = 0) THEN s
    ELSE IF s.first = 0
    THEN [first |-> p, last |-> EndOf(s.nx, p), nx |-> s.nx]
    ELSE LET nx == [s.nx EXCEPT ![s.last] = p]
         IN  [first |-> s.first, last |-> EndOf(nx, p), nx |-> nx]

ChainedUpTo[p \in 0 .. N] ==
    IF p = 0 THEN [first |-> 0, last |-> 0, nx |-> next]
    ELSE Chain(ChainedUpTo[p - 1], p)

FindBusses(t) ==
    /\ Idle(t) /\ Unlocked
    /\ loaded # {} /\ finds < MaxFinds
    /\ finds' = finds + 1
    /\ LET s == ChainedUpTo[N]
           ended == s.first = 0 \/ s.last # 0
       IN  /\ next' = s.nx
           /\ head' = IF s.first = 0 THEN head ELSE s.first
           /\ busses' = IF ended THEN head' ELSE busses
           /\ IF ended THEN UNCHANGED <<lock, pc>>
              ELSE lock' = t /\ Goes(t, "linking")
    /\ UNCHANGED <<confVars, initVars, list, opener, holder, arg, to, op, pastVars>>
-----------------------------------------------------------------------------
\* Busses an application sees from usb_busses.
Visible == {q \in Plugins : busses # 0 /\ \E k \in 0 .. N : ReachedIn(next, busses, k) = q}

\* usb_open of a device on the bus of q: get_index_devicep finds the plugin
\* unless one is known to be alone.  The plugin returns a handle of its own for
\* a device of its own, and NULL otherwise.
Open(t, q, a) ==
    /\ Idle(t)
    /\ q \in Visible
    /\ LET p == IF active = 0 THEN q ELSE active
       IN  /\ p \in loaded
           /\ Len(list[p]) < MaxList
           /\ IF a = None THEN UNCHANGED opener
              ELSE p = q /\ opener[a] = 0 /\ opener' = [opener EXCEPT ![a] = p]
           /\ to' = [to EXCEPT ![t] = p]
    /\ arg' = [arg EXCEPT ![t] = a]
    /\ op' = [op EXCEPT ![t] = "open"]
    /\ Goes(t, "adding")
    /\ hasty' = IF AtWork THEN hasty \cup ({a} \cap Addrs) ELSE hasty \ {a}
    /\ UNCHANGED <<confVars, initVars, busVars, list, holder, torn, stray, lock>>

\* Mutant: every handle is put in as the first of its list.
AddDev_First(t) ==
    /\ pc[t] = "adding" /\ Unlocked
    /\ list' = [list EXCEPT ![to[t]] = <<arg[t]>>]
    /\ holder' = IF arg[t] = None THEN holder ELSE [holder EXCEPT ![arg[t]] = t]
    /\ Tears
    /\ Returns(t)
    /\ UNCHANGED <<confVars, initVars, busVars, opener, stray, hasty, lock>>

\* usb_add_dev, which takes what the plugin returned, NULL too.
AddDev(t) ==
    /\ pc[t] = "adding" /\ Unlocked
    /\ list' = [list EXCEPT ![to[t]] = Append(@, arg[t])]
    /\ holder' = IF arg[t] = None THEN holder ELSE [holder EXCEPT ![arg[t]] = t]
    /\ Tears
    /\ Returns(t)
    /\ UNCHANGED <<confVars, initVars, busVars, opener, stray, hasty, lock>>

\* Mutant: the error return does not unlock bus_lock.
AddFails_Locked(t) ==
    /\ pc[t] = "adding" /\ Unlocked
    /\ Returns(t)
    /\ lock' = t
    /\ UNCHANGED <<confVars, initVars, busVars, list, opener, holder, pastVars>>

\* There is no memory for the entry: usb_open returns NULL, and the handle of
\* the plugin stays open.
AddFails(t) ==
    /\ pc[t] = "adding" /\ Unlocked
    /\ Returns(t)
    /\ UNCHANGED <<confVars, initVars, busVars, list, opener, holder, pastVars, lock>>
-----------------------------------------------------------------------------
\* The plugin was found: lookup_sym_hdl or usb_close goes on with it.
Found(t, p, call) ==
    /\ to' = [to EXCEPT ![t] = p]
    /\ Goes(t, IF call = "close" THEN "deleting" ELSE "calling")

\* Any call on a handle begins with get_pindex.
Begin(t, a, call) ==
    /\ Idle(t) /\ holder[a] = t
    /\ arg' = [arg EXCEPT ![t] = a]
    /\ op' = [op EXCEPT ![t] = call]
    /\ torn' = [torn EXCEPT ![t] = AtWork]
    /\ IF active # 0 THEN Found(t, active, call)
       ELSE Goes(t, "walking") /\ UNCHANGED to
    /\ UNCHANGED <<confVars, initVars, busVars, list, opener, holder, stray, hasty, lock>>

Lists(p, a) == \E i \in 1 .. Len(list[p]) : list[p][i] = a

\* get_index_devhdl: the first list the handle is on; what it makes of entries
\* that were freed or not filled in yet is anybody's guess.
Walk(t) ==
    /\ pc[t] = "walking"
    /\ \/ \E p \in Plugins :
             /\ torn[t] \/ (Lists(p, arg[t]) /\ \A q \in 1 .. p - 1 : ~Lists(q, arg[t]))
             /\ Found(t, p, op[t])
             /\ UNCHANGED <<arg, op, torn>>
       \/ /\ torn[t] \/ \A p \in Plugins : ~Lists(p, arg[t])
          /\ Returns(t) /\ Forgets(t)
    /\ UNCHANGED <<confVars, initVars, busVars, list, opener, holder, stray, hasty, lock>>

\* The call itself, in the plugin, once winfo.last_pindex is noted.
Call(t) ==
    /\ pc[t] = "calling" /\ Unlocked
    /\ Returns(t) /\ Forgets(t)
    /\ UNCHANGED <<confVars, initVars, busVars, list, opener, holder, stray, hasty, lock>>

\* Mutant: the entry of a closed handle stays on the list.
Without_Kept(s, a) == s

Without(s, a) ==
    IF \E i \in 1 .. Len(s) : s[i] = a
    THEN LET i == CHOOSE i \in 1 .. Len(s) :
                     s[i] = a /\ \A j \in 1 .. i - 1 : s[j] # a
         IN  SubSeq(s, 1, i - 1) \o SubSeq(s, i + 1, Len(s))
    ELSE s

\* usb_close: first usb_del_dev, ...
DelDev(t) ==
    /\ pc[t] = "deleting" /\ Unlocked
    /\ list' = [list EXCEPT ![to[t]] = Without(@, arg[t])]
    /\ Tears
    /\ Goes(t, "closing")
    /\ UNCHANGED <<confVars, initVars, busVars, opener, holder, arg, to, op, stray, hasty, lock>>

\* ... then the plugin frees the handle, and its address can come back: also a
\* plugin that did not open it, whose list had no entry of it to take off.
PluginClose(t) ==
    /\ pc[t] = "closing"
    /\ opener' = [opener EXCEPT ![arg[t]] = 0]
    /\ holder' = [holder EXCEPT ![arg[t]] = None]
    /\ stray' = IF opener[arg[t]] = to[t] THEN stray ELSE stray \cup {arg[t]}
    /\ hasty' = hasty \ {arg[t]}
    /\ Returns(t) /\ Forgets(t)
    /\ UNCHANGED <<confVars, initVars, busVars, list, lock>>

Locks(t) == InitLoad(t) \/ AddDev(t) \/ AddFails(t) \/ Call(t) \/ DelDev(t)
Step(t) == Locks(t) \/ InitAsk(t) \/ InitReady(t) \/ Walk(t) \/ PluginClose(t)

Next ==
    \E t \in Threads :
       \/ UsbInit(t) \/ FindBusses(t)
       \/ \E q \in Plugins, a \in Addrs \cup {None} : Open(t, q, a)
       \/ \E a \in Addrs, call \in {"call", "close"} : Begin(t, a, call)
       \/ Step(t)

\* A thread that is inside a call goes on with it, and gets bus_lock in the end
\* when others keep taking it and giving it back.
Fairness == \A t \in Threads : WF_vars(Step(t)) /\ SF_vars(Locks(t))

Spec == Init /\ [][Next]_vars
FairSpec == Spec /\ Fairness
-----------------------------------------------------------------------------
\* Every variable keeps its type.
TypeOK ==
    /\ kind \in [Plugins -> Kinds]
    /\ compat \subseteq Plugins /\ hasBus \subseteq Plugins
    /\ loaded \subseteq Plugins /\ ready \subseteq loaded
    /\ active \in 0 .. N /\ asked \in 0 .. N /\ head \in 0 .. N /\ busses \in 0 .. N
    /\ next \in [Plugins -> 0 .. N]
    /\ list \in [Plugins -> Seq(Addrs \cup {None})]
    /\ opener \in [Addrs -> 0 .. N]
    /\ holder \in [Addrs -> Threads \cup {None}]
    /\ pc \in [Threads -> {"idle", "initing", "asking", "linking", "adding", "walking",
                           "calling", "deleting", "closing"}]
    /\ arg \in [Threads -> Addrs \cup {None}]
    /\ to \in [Threads -> 0 .. N]
    /\ op \in [Threads -> {"none", "open", "call", "close"}]
    /\ torn \in [Threads -> BOOLEAN] /\ stray \subseteq Addrs /\ hasty \subseteq Addrs
    /\ lock \in Threads \cup {None}
    /\ finds \in 0 .. MaxFinds

\* The lists map a handle to the plugin that has it open (the comment on
\* usb_add_dev): an entry is never that of a handle that was freed, no address
\* is on two lists or twice on one, and a handle the application holds is on
\* its plugin's list until usb_close takes it off. Only an address that a misled
\* usb_close made another plugin free is never told right again.
Removing(a) == \E t \in Threads : pc[t] = "closing" /\ arg[t] = a
ListsAreTrue ==
    /\ \A p \in Plugins : \A i \in 1 .. Len(list[p]) :
          list[p][i] \notin stray \cup {None} =>
             /\ opener[list[p][i]] = p
             /\ \A j \in 1 .. Len(list[p]) : list[p][j] = list[p][i] => j = i
    /\ \A a \in Addrs \ stray :
          holder[a] # None /\ ~Removing(a) => opener[a] # 0 /\ Lists(opener[a], a)

\* A call reaches the plugin that opened its handle, even where a handle was
\* closed and its address came back from another plugin, or usb_init runs again
\* after the busses were found. Excepted are a call whose get_pindex read, without
\* bus_lock, a list while it changed or active_index while usb_init was at work,
\* calls on an address that such a usb_close made the wrong plugin free, and calls
\* on a handle opened while usb_init was at work: usb_open may then take it from
\* a plugin that active_index overlooks afterwards.
CallsReachOwner ==
    \A t \in Threads :
       pc[t] \in {"calling", "deleting", "closing"} /\ ~torn[t]
          /\ arg[t] \notin stray \cup hasty =>
          to[t] = opener[arg[t]]

\* README, PLUGIN_EXCLUSIVE: "no other bus support will be visible to the
\* application"; what failed is never seen, nor what has the wrong version. A
\* plugin without libusb_init is not asked for its version: its busses are seen
\* whatever it is.
SeenIsSupported ==
    \A p \in Visible :
       /\ kind[p] # "failure"
       /\ kind[p] = "noinit" \/ p \in compat
       /\ kind[p] = "exclusive" => Visible = {p}

\* usb_find_busses "will find all of the busses on the system" (libusb.txt) and
\* comes to an end: the first time, and as long as one plugin has busses.  The
\* second time it hangs the last bus on itself.
Endless == \E t \in Threads : pc[t] = "linking"
BussesEnd ==
    Endless => /\ finds > 1
               /\ \E p, q \in loaded \cap hasBus : p # q

\* usb_find_busses builds usb_busses by "linking all the bussses" (its comment):
\* once it ran an application reaches the bus of every plugin that stayed, and
\* loses none of them even where a later call never comes to an end, or usb_init
\* runs again.
BussesLinked ==
    busses # 0 /\ ~AtWork => Visible = loaded \cap hasBus

\* A call on a handle returns, as long as usb_find_busses does: bus_lock is
\* given back on every way out.
EveryCallReturns ==
    \A t \in Threads : pc[t] # "idle" ~> pc[t] = "idle" \/ Endless
=============================================================================
