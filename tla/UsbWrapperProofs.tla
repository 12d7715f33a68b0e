-------------------------- MODULE UsbWrapperProofs --------------------------
(***************************************************************************)
(* Proofs about UsbWrapper, for any number of threads, plugins and handle  *)
(* addresses: the lists of handles are true, and a call reaches the plugin *)
(* that opened its handle.  What usb_find_busses computes over the plugins *)
(* is taken as any value, and of what usb_init computes only that it is    *)
(* the same each time.                                                     *)
(***************************************************************************)
EXTENDS UsbWrapper, TLAPS, SequenceTheorems, WellFoundedInduction

LEMMA NoneApart == None \notin Addrs /\ None \notin Threads /\ 0 \notin Plugins
  BY WrapperAssumption DEF Plugins

LEMMA LeastOf ==
    ASSUME NEW T \in SUBSET Nat, T # {}
    PROVE  \E m \in T : \A k \in T : m <= k
  <1> DEFINE R == OpToRel(<, Nat)
  <1>1. IsWellFoundedOn(R, Nat)
    BY NatLessThanWellFounded
  <1>2. \A x, y \in Nat : x < y => <<x, y>> \in R
    BY DEF OpToRel
  <1> HIDE DEF R
  <1>3. \E x \in T : \A y \in T : ~(<<y, x>> \in R)
    BY <1>1, WFMin
  <1>4. \A x, y \in Nat : ~(<<y, x>> \in R) => x <= y
    BY <1>2
  <1> QED
    BY <1>3, <1>4

On(s, a) == \E i \in 1 .. Len(s) : s[i] = a
\* No handle is twice on the list, apart from those in X.
Single(s, X) == \A i, j \in 1 .. Len(s) : s[i] \notin X /\ s[i] = s[j] => i = j
-----------------------------------------------------------------------------
\* An entry taken out of a list, at the place where it is.
Cut(s, i) == SubSeq(s, 1, i - 1) \o SubSeq(s, i + 1, Len(s))

LEMMA CutOut ==
  ASSUME NEW S, NEW s \in Seq(S), NEW i \in 1 .. Len(s)
  PROVE  /\ Cut(s, i) \in Seq(S) /\ Len(Cut(s, i)) = Len(s) - 1
         /\ \A j \in 1 .. Len(Cut(s, i)) :
               Cut(s, i)[j] = IF j < i THEN s[j] ELSE s[j + 1]
  <1>0. PICK r : r = Cut(s, i)
    OBVIOUS
  <1>1. Len(s) \in Nat /\ i \in Nat /\ i >= 1 /\ i <= Len(s)
        /\ \A j \in 1 .. Len(s) : s[j] \in S
    OBVIOUS
  <1>2. PICK x, y : x = SubSeq(s, 1, i - 1) /\ y = SubSeq(s, i + 1, Len(s))
    OBVIOUS
  <1>3. /\ x \in Seq(S) /\ Len(x) = i - 1
        /\ \A j \in 1 .. i - 1 : x[j] = s[j]
    <2>1. i - 1 \in Int /\ 1 \in Int /\ \A j \in 1 .. i - 1 : s[j] \in S
      BY <1>1
    <2>2. /\ x \in Seq(S) /\ Len(x) = IF 1 <= i - 1 THEN i - 1 - 1 + 1 ELSE 0
          /\ \A j \in 1 .. i - 1 - 1 + 1 : x[j] = s[1 + j - 1]
      BY <1>2, <2>1, SubSeqProperties
    <2> QED
      BY <1>1, <2>2
  <1>4. /\ y \in Seq(S) /\ Len(y) = Len(s) - i
        /\ \A j \in 1 .. Len(s) - i : y[j] = s[i + j]
    <2>1. i + 1 \in Int /\ Len(s) \in Int /\ \A j \in i + 1 .. Len(s) : s[j] \in S
      BY <1>1
    <2>2. /\ y \in Seq(S) /\ Len(y) = IF i + 1 <= Len(s) THEN Len(s) - (i + 1) + 1 ELSE 0
          /\ \A j \in 1 .. Len(s) - (i + 1) + 1 : y[j] = s[i + 1 + j - 1]
      BY <1>2, <2>1, SubSeqProperties
    <2> QED
      BY <1>1, <2>2
  <1>5. r = x \o y
    BY <1>0, <1>2 DEF Cut
  <1>6. /\ r \in Seq(S) /\ Len(r) = Len(x) + Len(y)
        /\ \A j \in 1 .. Len(x) + Len(y) : r[j] = IF j <= Len(x) THEN x[j] ELSE y[j - Len(x)]
    <2>1. x \in Seq(S) /\ y \in Seq(S)
      BY <1>3, <1>4
    <2>2. /\ x \o y \in Seq(S)
          /\ Len(x \o y) = Len(x) + Len(y)
          /\ \A j \in 1 .. Len(x) + Len(y) :
                (x \o y)[j] = IF j <= Len(x) THEN x[j] ELSE y[j - Len(x)]
      BY <2>1, ConcatProperties, Zenon
    <2> QED
      BY <1>5, <2>2, Zenon
  <1>a. Len(r) = Len(s) - 1
    BY <1>1, <1>3, <1>4, <1>6
  <1>8. ASSUME NEW j \in 1 .. Len(r) PROVE r[j] = IF j < i THEN s[j] ELSE s[j + 1]
    <2>1. /\ r[j] = IF j <= Len(x) THEN x[j] ELSE y[j - Len(x)]
          /\ Len(x) = i - 1 /\ j \in Nat /\ j <= Len(s) - 1 /\ j >= 1 /\ i \in Nat
          /\ Len(s) \in Nat
      <3>1. Len(r) = Len(x) + Len(y) /\ Len(r) = Len(s) - 1 /\ Len(x) = i - 1
        BY <1>3, <1>6, <1>a
      <3>2. j \in 1 .. Len(x) + Len(y) /\ j \in 1 .. Len(s) - 1
        BY <3>1
      <3>3. r[j] = IF j <= Len(x) THEN x[j] ELSE y[j - Len(x)]
        BY <1>6, <3>2, Zenon
      <3>4. /\ Len(x) = i - 1 /\ j \in Nat /\ j <= Len(s) - 1 /\ j >= 1 /\ i \in Nat
            /\ Len(s) \in Nat
        BY <1>1, <3>1, <3>2
      <3> QED
        BY <3>3, <3>4, Zenon
    <2>2. CASE j < i
      <3>1. j \in 1 .. i - 1 /\ j <= Len(x)
        BY <2>1, <2>2
      <3>2. x[j] = s[j]
        BY <1>3, <3>1
      <3> QED
        BY <2>1, <2>2, <3>1, <3>2
    <2>3. CASE ~(j < i)
      <3>1. PICK m \in 1 .. Len(s) - i : m = j - (i - 1)
        BY <2>1, <2>3
      <3>2. y[m] = s[i + m] /\ i + m = j + 1
        BY <1>4, <2>1, <3>1
      <3>3. r[j] = y[m]
        BY <2>1, <2>3, <3>1
      <3> QED
        BY <2>3, <3>2, <3>3
    <2> QED
      BY <2>2, <2>3
  <1> QED
    BY <1>0, <1>6, <1>a, <1>8

\* usb_del_dev takes the handle off its list and leaves the others there.
LEMMA WithoutIt ==
  ASSUME NEW X, NEW s \in Seq(Addrs \cup {None}), NEW a \in Addrs, Single(s, X)
  PROVE  /\ Without(s, a) \in Seq(Addrs \cup {None})
         /\ Single(Without(s, a), X) /\ (a \notin X => ~On(Without(s, a), a))
         /\ \A b \in Addrs : b # a => (On(Without(s, a), b) <=> On(s, b))
  <1>1. CASE ~On(s, a)
    <2>1. Without(s, a) = s
      BY <1>1 DEF Without, On
    <2> QED
      BY <1>1, <2>1
  <1>2. CASE On(s, a)
    <2>1. PICK m : m = CHOOSE i \in 1 .. Len(s) :
                          s[i] = a /\ \A j \in 1 .. i - 1 : s[j] # a
      OBVIOUS
    <2>2. \E i \in 1 .. Len(s) : s[i] = a /\ \A j \in 1 .. i - 1 : s[j] # a
      <3> DEFINE U == {i \in 1 .. Len(s) : s[i] = a}
      <3>0. U \in SUBSET Nat
        OBVIOUS
      <3>1. PICK T \in SUBSET Nat : T = U
        BY <3>0
      <3>2. T # {}
        BY <1>2, <3>1 DEF On
      <3>3. PICK i \in T : \A j \in T : i <= j
        BY <3>2, LeastOf
      <3>4. i \in 1 .. Len(s) /\ s[i] = a
        BY <3>1, <3>3
      <3>5. \A j \in 1 .. i - 1 : j \in 1 .. Len(s) /\ ~(i <= j)
        BY <3>4
      <3>6. \A j \in 1 .. i - 1 : s[j] # a
        BY <3>1, <3>3, <3>5
      <3> QED
        BY <3>4, <3>6
    <2>3. m \in 1 .. Len(s) /\ s[m] = a
      BY <2>1, <2>2
    <2>4. Without(s, a) = Cut(s, m)
      BY <1>2, <2>1 DEF Without, On, Cut
    <2>5. PICK r : r = Cut(s, m)
      OBVIOUS
    <2>6. /\ r \in Seq(Addrs \cup {None}) /\ Len(r) = Len(s) - 1
          /\ \A j \in 1 .. Len(r) : r[j] = IF j < m THEN s[j] ELSE s[j + 1]
      BY <2>3, <2>5, CutOut
    <2>7. Len(s) \in Nat /\ m \in 1 .. Len(s)
      BY <2>3
    <2>11. ASSUME NEW k \in 1 .. Len(r)
           PROVE  \E kk \in 1 .. Len(s) :
                     kk = (IF k < m THEN k ELSE k + 1) /\ r[k] = s[kk]
      <3>1. k \in Nat /\ k >= 1 /\ k <= Len(s) - 1
        BY <2>6, <2>7
      <3>2. k \in 1 .. Len(s) /\ k + 1 \in 1 .. Len(s)
        BY <2>7, <3>1
      <3>3. r[k] = IF k < m THEN s[k] ELSE s[k + 1]
        BY <2>6
      <3>4. CASE k < m
        BY <3>2, <3>3, <3>4
      <3>5. CASE ~(k < m)
        BY <3>2, <3>3, <3>5
      <3> QED
        BY <3>4, <3>5
    <2>8. Single(r, X)
      <3> SUFFICES ASSUME NEW i \in 1 .. Len(r), NEW j \in 1 .. Len(r),
                          r[i] \notin X, r[i] = r[j]
                   PROVE  i = j
        BY DEF Single
      <3>1. PICK ii \in 1 .. Len(s) : ii = (IF i < m THEN i ELSE i + 1) /\ r[i] = s[ii]
        BY <2>11
      <3>2. PICK jj \in 1 .. Len(s) : jj = (IF j < m THEN j ELSE j + 1) /\ r[j] = s[jj]
        BY <2>11
      <3>3. ii = jj
        BY <3>1, <3>2 DEF Single
      <3> QED
        BY <2>7, <3>1, <3>2, <3>3
    <2>9. a \notin X => \A j \in 1 .. Len(r) : r[j] # a
      <3> SUFFICES ASSUME a \notin X, NEW j \in 1 .. Len(r), r[j] = a PROVE FALSE
        OBVIOUS
      <3>1. PICK jj \in 1 .. Len(s) : jj = (IF j < m THEN j ELSE j + 1) /\ r[j] = s[jj]
        BY <2>11
      <3>2. jj = m
        BY <2>3, <3>1 DEF Single
      <3> QED
        BY <2>7, <3>1, <3>2
    <2>10. ASSUME NEW b \in Addrs, b # a PROVE On(r, b) <=> On(s, b)
      <3>1. ASSUME On(r, b) PROVE On(s, b)
        <4>1. PICK j \in 1 .. Len(r) : r[j] = b
          BY <3>1 DEF On
        <4>2. PICK jj \in 1 .. Len(s) : r[j] = s[jj]
          BY <2>11
        <4> QED
          BY <4>1, <4>2 DEF On
      <3>2. ASSUME On(s, b) PROVE On(r, b)
        <4>1. PICK j \in 1 .. Len(s) : s[j] = b
          BY <3>2 DEF On
        <4>2. j # m
          BY <2>3, <2>10, <4>1
        <4>3. PICK jj \in 1 .. Len(r) : jj = IF j < m THEN j ELSE j - 1
          BY <2>6, <2>7, <4>2
        <4>4. r[jj] = s[j]
          BY <2>6, <2>7, <4>2, <4>3
        <4> QED
          BY <4>1, <4>4 DEF On
      <3> QED
        BY <3>1, <3>2
    <2> QED
      BY <2>4, <2>5, <2>6, <2>8, <2>9, <2>10 DEF On
  <1> QED
    BY <1>1, <1>2

\* usb_add_dev puts one more entry at the end.
LEMMA WithIt ==
  ASSUME NEW X, NEW s \in Seq(Addrs \cup {None}), NEW a \in Addrs \cup {None},
         Single(s, X), a \notin X => ~On(s, a)
  PROVE  /\ Append(s, a) \in Seq(Addrs \cup {None}) /\ Single(Append(s, a), X)
         /\ On(Append(s, a), a)
         /\ \A b : b # a => (On(Append(s, a), b) <=> On(s, b))
  <1>1. PICK r : r = Append(s, a)
    OBVIOUS
  <1>2. /\ Len(s) \in Nat /\ r \in Seq(Addrs \cup {None}) /\ Len(r) = Len(s) + 1
        /\ r[Len(s) + 1] = a
        /\ \A i \in 1 .. Len(s) : r[i] = s[i]
    BY <1>1
  <1>3. Single(r, X)
    <2> SUFFICES ASSUME NEW i \in 1 .. Len(r), NEW j \in 1 .. Len(r), r[i] \notin X,
                        r[i] = r[j]
                 PROVE  i = j
      BY DEF Single
    <2>1. CASE i \in 1 .. Len(s) /\ j \in 1 .. Len(s)
      BY <1>2, <2>1 DEF Single
    <2>2. CASE i = Len(s) + 1 \/ j = Len(s) + 1
      <3>1. ASSUME NEW k \in 1 .. Len(r), r[k] = a, a \notin X PROVE k = Len(s) + 1
        <4>1. k \notin 1 .. Len(s)
          BY <1>2, <3>1 DEF On
        <4> QED
          BY <1>2, <4>1
      <3> QED
        BY <1>2, <2>2, <3>1
    <2> QED
      BY <1>2, <2>1, <2>2
  <1>4. On(r, a)
    BY <1>2 DEF On
  <1>5. ASSUME NEW b, b # a PROVE On(r, b) <=> On(s, b)
    <2>1. ASSUME On(r, b) PROVE On(s, b)
      <3>1. PICK i \in 1 .. Len(r) : r[i] = b
        BY <2>1 DEF On
      <3>2. i # Len(s) + 1
        BY <1>2, <1>5, <3>1
      <3>3. i \in 1 .. Len(s)
        BY <1>2, <3>2
      <3> QED
        BY <1>2, <3>1, <3>3 DEF On
    <2>2. ASSUME On(s, b) PROVE On(r, b)
      <3>1. PICK i \in 1 .. Len(s) : s[i] = b
        BY <2>2 DEF On
      <3>2. i \in 1 .. Len(r)
        BY <1>2
      <3> QED
        BY <1>2, <3>1, <3>2 DEF On
    <2> QED
      BY <2>1, <2>2
  <1> QED
    BY <1>1, <1>2, <1>3, <1>4, <1>5
-----------------------------------------------------------------------------
\* What usb_init makes of the plugins it makes of them again.
LEMMA AnswersSame ==
  ASSUME UNCHANGED <<kind, compat>>
  PROVE  AskedUpTo' = AskedUpTo /\ Kept' = Kept /\ Alone' = Alone
  <1>1. AskedUpTo' = AskedUpTo
    BY DEF AskedUpTo, Asked
  <1> QED
    BY <1>1 DEF Kept, Alone

\* The inductive invariant.  Types, as far as they matter here.
Wheres == {"idle", "initing", "asking", "linking", "adding", "walking", "calling",
           "deleting", "closing"}
Typed ==
    /\ list \in [Plugins -> Seq(Addrs \cup {None})]
    /\ opener \in [Addrs -> Plugins \cup {0}]
    /\ holder \in [Addrs -> Threads \cup {None}]
    /\ pc \in [Threads -> Wheres]
    /\ arg \in [Threads -> Addrs \cup {None}]
    /\ to = [t \in Threads |-> to[t]]
    /\ torn \in [Threads -> BOOLEAN]
    /\ stray \subseteq Addrs /\ hasty \subseteq Addrs

\* An entry is a handle its plugin has open, once, unless the handle went astray.
EntriesTrue ==
    /\ \A p \in Plugins, a \in Addrs \ stray : On(list[p], a) => opener[a] = p
    /\ \A p \in Plugins : Single(list[p], stray \cup {None})

\* A handle the application holds is open, and on its list until it goes.
HeldListed ==
    \A a \in Addrs : holder[a] # None =>
       /\ opener[a] \in Plugins
       /\ a \in stray \/ On(list[opener[a]], a) \/ Removing(a)

\* A handle that is about to be put on its list is nowhere else.
AddingNew ==
    \A t \in Threads : pc[t] = "adding" /\ arg[t] # None =>
       /\ to[t] \in Plugins /\ opener[arg[t]] = to[t] /\ holder[arg[t]] = None
       /\ arg[t] \in stray \/ \A p \in Plugins : ~On(list[p], arg[t])
       /\ \A u \in Threads : pc[u] = "adding" /\ arg[u] = arg[t] => u = t

\* A thread in a call holds its handle, knows the plugin unless it was misled,
\* and has taken the entry off that plugin's list when it closes.
Knows(t) ==
    pc[t] # "walking" /\ torn[t] = FALSE /\ arg[t] \notin stray \cup hasty =>
       to[t] = opener[arg[t]]
TookOff(t) ==
    pc[t] = "closing" /\ arg[t] \notin stray =>
       \A p \in Plugins : On(list[p], arg[t]) => p # to[t]
CallingOwn ==
    \A t \in Threads : pc[t] \in {"walking", "calling", "deleting", "closing"} =>
       arg[t] \in Addrs /\ holder[arg[t]] = t /\ Knows(t) /\ TookOff(t)

\* Whoever goes through the plugins, or round without end, has the lock.
Holding == \A t \in Threads : pc[t] \in {"asking", "linking"} => lock = t
\* While usb_init is not at work, it has not begun or has left what it leaves;
Settled ==
    ~AtWork => \/ active = 0 /\ loaded = {} /\ busses = 0
               \/ active = Alone /\ loaded = Kept
\* and what was opened then is open with the one plugin known to be alone.
ByAlone == \A a \in Addrs \ hasty : opener[a] # 0 /\ Alone # 0 => opener[a] = Alone
OnceFound == Holding /\ Settled /\ ByAlone

WInv == Typed /\ EntriesTrue /\ HeldListed /\ AddingNew /\ CallingOwn /\ OnceFound

\* A step of t that leaves the plugins as they are, and opens no handle of another
\* than the one that is alone.
LEMMA OnceStays ==
  ASSUME OnceFound, UNCHANGED <<kind, compat, loaded, active, busses, lock>>,
         NEW t \in Threads, \A u \in Threads : u # t => pc'[u] = pc[u],
         pc[t] \notin {"asking", "linking"}, pc'[t] \notin {"asking", "linking"},
         \A a \in Addrs : a \notin hasty' =>
            \/ opener'[a] = 0 \/ opener'[a] = Alone \/ Alone = 0
            \/ a \notin hasty /\ opener'[a] = opener[a]
  PROVE  OnceFound'
  <1>1. Alone' = Alone /\ Kept' = Kept
    BY AnswersSame
  <1>2. Holding'
    BY DEF OnceFound, Holding
  <1>3. AtWork' <=> AtWork
    BY DEF AtWork
  <1>4. Settled'
    BY <1>1, <1>3 DEF OnceFound, Settled
  <1>5. ByAlone'
    BY <1>1 DEF OnceFound, ByAlone
  <1> QED
    BY <1>2, <1>4, <1>5 DEF OnceFound

\* A step of t that leaves the handles and the lists as they are.
LEMMA Moves ==
  ASSUME WInv, NEW t \in Threads, UNCHANGED <<list, opener, holder, stray, hasty>>,
         Typed', OnceFound', pc[t] # "closing",
         \A u \in Threads : u # t => /\ pc'[u] = pc[u] /\ arg'[u] = arg[u]
                                     /\ to'[u] = to[u] /\ torn'[u] = torn[u],
         pc'[t] \notin {"adding", "closing"},
         pc'[t] \in {"walking", "calling", "deleting"} =>
            arg'[t] \in Addrs /\ holder[arg'[t]] = t /\ Knows(t)'
  PROVE  WInv'
  <1>1. EntriesTrue'
    BY DEF WInv, EntriesTrue
  <1>2. HeldListed'
    <2>1. \A a \in Addrs : Removing(a) => Removing(a)'
      BY DEF Removing
    <2> QED
      BY <2>1 DEF WInv, HeldListed
  <1>3. AddingNew'
    BY DEF WInv, AddingNew
  <1>4. CallingOwn'
    <2> SUFFICES ASSUME NEW u \in Threads,
                        pc'[u] \in {"walking", "calling", "deleting", "closing"}
                 PROVE  arg'[u] \in Addrs /\ holder'[arg'[u]] = u /\ Knows(u)' /\ TookOff(u)'
      BY DEF CallingOwn
    <2>1. CASE u = t
      BY <2>1 DEF TookOff
    <2>2. CASE u # t
      BY <2>2 DEF WInv, CallingOwn, Knows, TookOff
    <2> QED
      BY <2>1, <2>2
  <1> QED
    BY <1>1, <1>2, <1>3, <1>4 DEF WInv

\* What Returns and the guards say of the threads.
LEMMA ReturnsParts ==
  ASSUME Typed, NEW t \in Threads, Returns(t)
  PROVE  /\ pc'[t] = "idle" /\ arg'[t] = None
         /\ \A u \in Threads : u # t => pc'[u] = pc[u] /\ arg'[u] = arg[u] /\ to'[u] = to[u]
         /\ pc' \in [Threads -> Wheres] /\ arg' \in [Threads -> Addrs \cup {None}]
         /\ to' = [u \in Threads |-> to'[u]]
  <1>1. /\ pc' = [pc EXCEPT ![t] = "idle"] /\ arg' = [arg EXCEPT ![t] = None]
        /\ to' = [to EXCEPT ![t] = 0]
    BY DEF Returns, Goes
  <1>2. to' = [u \in Threads |-> IF u = t THEN 0 ELSE to[u]]
    BY <1>1 DEF Typed
  <1> QED
    BY <1>1, <1>2 DEF Typed, Wheres

\* The steps of usb_init, of which only the last gives anything a new plugin.
LEMMA UsbInitOwned == ASSUME WInv, NEW t \in Threads, UsbInit(t) PROVE WInv'
  <1>1. /\ pc[t] = "idle" /\ pc' = [pc EXCEPT ![t] = "initing"]
        /\ UNCHANGED <<list, opener, holder, arg, to, torn, stray, hasty>>
        /\ UNCHANGED <<kind, compat, loaded, active, busses, lock>>
    BY DEF UsbInit, Idle, Goes, confVars, initVars, busVars, pastVars
  <1>2. /\ pc'[t] = "initing" /\ pc' \in [Threads -> Wheres]
        /\ \A u \in Threads : u # t => pc'[u] = pc[u]
    BY <1>1 DEF WInv, Typed, Wheres
  <1>3. Typed'
    BY <1>1, <1>2 DEF WInv, Typed
  <1>4. OnceFound'
    BY <1>1, <1>2, OnceStays DEF WInv
  <1> QED
    BY <1>1, <1>2, <1>3, <1>4, Moves

LEMMA InitLoadOwned == ASSUME WInv, NEW t \in Threads, InitLoad(t) PROVE WInv'
  <1>1. /\ pc[t] = "initing" /\ lock = None /\ lock' = t
        /\ pc' = [pc EXCEPT ![t] = "asking"]
        /\ UNCHANGED <<list, opener, holder, arg, to, torn, stray, hasty, kind, compat>>
    BY DEF InitLoad, Unlocked, Goes, confVars, pastVars
  <1>2. /\ pc'[t] = "asking" /\ pc' \in [Threads -> Wheres]
        /\ \A u \in Threads : u # t => pc'[u] = pc[u]
    BY <1>1 DEF WInv, Typed, Wheres
  <1>3. Typed'
    BY <1>1, <1>2 DEF WInv, Typed
  <1>4. OnceFound'
    <2>1. \A u \in Threads : pc[u] \notin {"asking", "linking"}
      BY <1>1, NoneApart DEF WInv, OnceFound, Holding
    <2>2. Holding' /\ AtWork'
      BY <1>1, <1>2, <2>1 DEF Holding, AtWork
    <2>3. Alone' = Alone
      BY <1>1, AnswersSame
    <2> QED
      BY <1>1, <2>2, <2>3 DEF WInv, OnceFound, Settled, ByAlone
  <1> QED
    BY <1>1, <1>2, <1>3, <1>4, Moves

LEMMA InitAskOwned == ASSUME WInv, NEW t \in Threads, InitAsk(t) PROVE WInv'
  <1>1. /\ pc[t] = "asking"
        /\ UNCHANGED <<list, opener, holder, pc, arg, to, torn, stray, hasty>>
        /\ UNCHANGED <<kind, compat, lock>>
    BY DEF InitAsk, confVars, callVars, pastVars
  <1>2. Typed'
    BY <1>1 DEF WInv, Typed
  <1>3. OnceFound'
    <2>1. Holding' /\ AtWork'
      BY <1>1 DEF WInv, OnceFound, Holding, AtWork
    <2>2. Alone' = Alone
      BY <1>1, AnswersSame
    <2> QED
      BY <1>1, <2>1, <2>2 DEF WInv, OnceFound, Settled, ByAlone
  <1> QED
    BY <1>1, <1>2, <1>3, Moves

LEMMA InitReadyOwned == ASSUME WInv, NEW t \in Threads, InitReady(t) PROVE WInv'
  <1>1. /\ pc[t] = "asking" /\ Returns(t) /\ lock' = None
        /\ loaded' = Kept /\ active' = Alone
        /\ UNCHANGED <<list, opener, holder, torn, stray, hasty, kind, compat>>
    BY DEF InitReady, confVars, pastVars
  <1>2. /\ pc'[t] = "idle"
        /\ \A u \in Threads : u # t => pc'[u] = pc[u] /\ arg'[u] = arg[u] /\ to'[u] = to[u]
        /\ pc' \in [Threads -> Wheres] /\ arg' \in [Threads -> Addrs \cup {None}]
        /\ to' = [u \in Threads |-> to'[u]]
    BY <1>1, ReturnsParts DEF WInv
  <1>3. Typed'
    BY <1>1, <1>2 DEF WInv, Typed
  <1>4. OnceFound'
    <2>1. \A u \in Threads : pc'[u] \notin {"asking", "linking"}
      BY <1>1, <1>2 DEF WInv, OnceFound, Holding
    <2>2. Alone' = Alone /\ Kept' = Kept
      BY <1>1, AnswersSame
    <2> QED
      BY <1>1, <2>1, <2>2 DEF WInv, OnceFound, Holding, Settled, ByAlone
  <1> QED
    BY <1>1, <1>2, <1>3, <1>4, Moves

LEMMA FindBussesOwned == ASSUME WInv, NEW t \in Threads, FindBusses(t) PROVE WInv'
  <1>1. /\ pc[t] = "idle" /\ lock = None /\ loaded # {}
        /\ UNCHANGED <<list, opener, holder, arg, to, torn, stray, hasty>>
        /\ \/ pc' = pc /\ lock' = lock
           \/ pc' = [pc EXCEPT ![t] = "linking"] /\ lock' = t
        /\ UNCHANGED <<kind, compat, loaded, active>>
    BY DEF FindBusses, Idle, Unlocked, Goes, confVars, initVars, pastVars
  <1>2. /\ pc'[t] \in {"idle", "linking"} /\ pc' \in [Threads -> Wheres]
        /\ \A u \in Threads : u # t => pc'[u] = pc[u]
    BY <1>1 DEF WInv, Typed, Wheres
  <1>3. Typed'
    BY <1>1, <1>2 DEF WInv, Typed
  <1>4. OnceFound'
    <2>1. \A u \in Threads : pc[u] \notin {"asking", "linking"}
      BY <1>1, NoneApart DEF WInv, OnceFound, Holding
    <2>2. Holding' /\ ~AtWork
      BY <1>1, <1>2, <2>1 DEF Holding, AtWork
    <2>3. Alone' = Alone /\ Kept' = Kept
      BY <1>1, AnswersSame
    <2> QED
      BY <1>1, <2>2, <2>3 DEF WInv, OnceFound, Settled, ByAlone
  <1> QED
    BY <1>1, <1>2, <1>3, <1>4, Moves

\* A call that ends without a change: AddFails and Call, and a walk in vain.
LEMMA ReturnsOwned ==
  ASSUME WInv, NEW t \in Threads, Returns(t), pc[t] \notin {"closing", "asking", "linking"},
         torn' = torn \/ Forgets(t),
         UNCHANGED <<list, opener, holder, stray, hasty>>,
         UNCHANGED <<kind, compat, loaded, active, busses, lock>>
  PROVE  WInv'
  <1>1. /\ pc'[t] = "idle"
        /\ \A u \in Threads : u # t => pc'[u] = pc[u] /\ arg'[u] = arg[u] /\ to'[u] = to[u]
        /\ pc' \in [Threads -> Wheres] /\ arg' \in [Threads -> Addrs \cup {None}]
        /\ to' = [u \in Threads |-> to'[u]]
    BY ReturnsParts DEF WInv
  <1>2. /\ torn' \in [Threads -> BOOLEAN]
        /\ \A u \in Threads : u # t => torn'[u] = torn[u]
    BY DEF Forgets, WInv, Typed
  <1>3. Typed'
    BY <1>1, <1>2 DEF WInv, Typed
  <1>4. OnceFound'
    BY <1>1, OnceStays DEF WInv
  <1> QED
    BY <1>1, <1>2, <1>3, <1>4, Moves

LEMMA FoundParts ==
  ASSUME Typed, NEW t \in Threads, NEW p, NEW call, Found(t, p, call)
  PROVE  /\ pc'[t] \in {"deleting", "calling"} /\ to'[t] = p
         /\ \A u \in Threads : u # t => pc'[u] = pc[u] /\ to'[u] = to[u]
         /\ pc' \in [Threads -> Wheres] /\ to' = [u \in Threads |-> to'[u]]
  <1>1. PICK where \in {"deleting", "calling"} : pc' = [pc EXCEPT ![t] = where]
    BY DEF Found, Goes
  <1>2. to' = [u \in Threads |-> IF u = t THEN p ELSE to[u]]
    BY DEF Found, Typed
  <1> QED
    BY <1>1, <1>2 DEF Typed, Wheres

LEMMA BeginOwned ==
  ASSUME WInv, NEW t \in Threads, NEW a \in Addrs, NEW call, Begin(t, a, call)
  PROVE  WInv'
  <1>1. /\ pc[t] = "idle" /\ holder[a] = t
        /\ arg' = [arg EXCEPT ![t] = a] /\ torn' = [torn EXCEPT ![t] = AtWork]
        /\ active # 0 => Found(t, active, call)
        /\ active = 0 => pc' = [pc EXCEPT ![t] = "walking"] /\ to' = to
        /\ UNCHANGED <<list, opener, holder, stray, hasty>>
        /\ UNCHANGED <<kind, compat, loaded, active, busses, lock>>
    BY DEF Begin, Idle, Goes, confVars, initVars, busVars
  <1>2. opener[a] \in Plugins /\ opener[a] # 0 /\ AtWork \in BOOLEAN
    BY <1>1, NoneApart DEF WInv, HeldListed, AtWork
  <1>3. /\ arg'[t] = a /\ torn'[t] = AtWork /\ torn' \in [Threads -> BOOLEAN]
        /\ \A u \in Threads : u # t => arg'[u] = arg[u] /\ torn'[u] = torn[u]
    BY <1>1, <1>2 DEF WInv, Typed
  <1>4. /\ pc'[t] \in {"walking", "deleting", "calling"}
        /\ pc'[t] # "walking" => active # 0 /\ to'[t] = active
        /\ \A u \in Threads : u # t => pc'[u] = pc[u] /\ to'[u] = to[u]
        /\ pc' \in [Threads -> Wheres] /\ to' = [u \in Threads |-> to'[u]]
    <2>1. CASE active = 0
      BY <1>1, <2>1 DEF WInv, Typed, Wheres
    <2>2. CASE active # 0
      BY <1>1, <2>2, FoundParts DEF WInv
    <2> QED
      BY <2>1, <2>2
  <1>5. ASSUME active # 0, ~AtWork, a \notin hasty PROVE opener[a] = active
    BY <1>2, <1>5 DEF WInv, OnceFound, Settled, ByAlone
  <1>6. Knows(t)'
    BY <1>1, <1>3, <1>4, <1>5 DEF Knows
  <1>7. Typed'
    BY <1>1, <1>3, <1>4 DEF WInv, Typed
  <1>8. OnceFound'
    BY <1>1, <1>4, OnceStays DEF WInv
  <1> QED
    BY <1>1, <1>3, <1>4, <1>6, <1>7, <1>8, Moves

LEMMA WalkOwned == ASSUME WInv, NEW t \in Threads, Walk(t) PROVE WInv'
  <1>1. /\ pc[t] = "walking" /\ UNCHANGED <<list, opener, holder, stray, hasty>>
        /\ UNCHANGED <<kind, compat, loaded, active, busses, lock>>
    BY DEF Walk, confVars, initVars, busVars
  <1>2. CASE Returns(t) /\ Forgets(t)
    BY <1>1, <1>2, ReturnsOwned
  <1>3. ASSUME NEW p \in Plugins, torn[t] \/ Lists(p, arg[t]), Found(t, p, op[t]),
               arg' = arg, torn' = torn
        PROVE  WInv'
    <2>1. /\ pc'[t] \in {"deleting", "calling"} /\ to'[t] = p
          /\ \A u \in Threads : u # t => pc'[u] = pc[u] /\ to'[u] = to[u]
          /\ pc' \in [Threads -> Wheres] /\ to' = [u \in Threads |-> to'[u]]
      BY <1>3, FoundParts DEF WInv
    <2>2. arg[t] \in Addrs /\ holder[arg[t]] = t
      BY <1>1 DEF WInv, CallingOwn
    <2>3. torn'[t] = FALSE /\ arg[t] \notin stray => p = opener[arg[t]]
      BY <1>1, <1>3, <2>2 DEF WInv, EntriesTrue, Lists, On
    <2>4. Knows(t)'
      BY <1>1, <1>3, <2>1, <2>3 DEF Knows
    <2>5. Typed'
      BY <1>1, <1>3, <2>1 DEF WInv, Typed
    <2>6. OnceFound'
      BY <1>1, <2>1, OnceStays DEF WInv
    <2> QED
      BY <1>1, <1>3, <2>1, <2>2, <2>4, <2>5, <2>6, Moves
  <1> QED
    BY <1>2, <1>3 DEF Walk

LEMMA OpenOwned ==
  ASSUME WInv, NEW t \in Threads, NEW q \in Plugins, NEW a \in Addrs \cup {None}, Open(t, q, a)
  PROVE  WInv'
  <1>1. PICK p : p = IF active = 0 THEN q ELSE active
    OBVIOUS
  <1>2. /\ pc[t] = "idle" /\ busses # 0
        /\ a = None => opener' = opener
        /\ a # None => p = q /\ opener[a] = 0 /\ opener' = [opener EXCEPT ![a] = p]
        /\ to' = [to EXCEPT ![t] = p] /\ arg' = [arg EXCEPT ![t] = a]
        /\ pc' = [pc EXCEPT ![t] = "adding"]
        /\ hasty' \subseteq Addrs /\ hasty \ {a} \subseteq hasty'
        /\ AtWork => a \in hasty' \/ a = None
        /\ UNCHANGED <<list, holder, torn, stray>>
        /\ UNCHANGED <<kind, compat, loaded, active, busses, lock>>
    BY <1>1 DEF Open, Idle, Goes, Visible, confVars, initVars, busVars, WInv, Typed
  <1>3. /\ pc'[t] = "adding" /\ arg'[t] = a /\ to'[t] = p
        /\ \A u \in Threads : u # t => pc'[u] = pc[u] /\ arg'[u] = arg[u] /\ to'[u] = to[u]
    BY <1>2 DEF WInv, Typed
  <1>4. \A b \in Addrs : opener'[b] = IF b = a THEN p ELSE opener[b]
    BY <1>2, NoneApart DEF WInv, Typed
  <1>5. ASSUME NEW b \in Addrs, holder[b] # None PROVE b # a /\ opener'[b] = opener[b]
    BY <1>2, <1>4, <1>5, NoneApart DEF WInv, HeldListed
  <1>6. ASSUME NEW b \in Addrs \ stray, NEW r \in Plugins, On(list[r], b)
        PROVE  b # a /\ opener'[b] = opener[b]
    BY <1>2, <1>4, <1>6, NoneApart DEF WInv, EntriesTrue
  <1>7. Typed'
    <2>1. opener' \in [Addrs -> Plugins \cup {0}]
      BY <1>2 DEF WInv, Typed
    <2>2. to' = [u \in Threads |-> to'[u]]
      BY <1>2 DEF WInv, Typed
    <2> QED
      BY <1>2, <2>1, <2>2 DEF WInv, Typed, Wheres
  <1>8. EntriesTrue'
    BY <1>2, <1>6 DEF WInv, EntriesTrue
  <1>9. HeldListed'
    <2>1. \A b \in Addrs : Removing(b) => Removing(b)'
      BY <1>2, <1>3 DEF Removing
    <2> QED
      BY <1>2, <1>5, <2>1 DEF WInv, HeldListed
  <1>10. AddingNew'
    <2> SUFFICES ASSUME NEW u \in Threads, pc'[u] = "adding", arg'[u] # None
                 PROVE  /\ to'[u] \in Plugins /\ opener'[arg'[u]] = to'[u]
                        /\ holder'[arg'[u]] = None
                        /\ \/ arg'[u] \in stray
                           \/ \A r \in Plugins : ~On(list'[r], arg'[u])
                        /\ \A v \in Threads : pc'[v] = "adding" /\ arg'[v] = arg'[u] => v = u
      BY <1>2 DEF AddingNew
    <2>1. ASSUME NEW v \in Threads, v # t, pc[v] = "adding", arg[v] # None
          PROVE  arg[v] \in Addrs /\ opener[arg[v]] # 0
      BY <2>1, NoneApart DEF WInv, Typed, AddingNew
    <2>2. CASE u = t
      <3>1. a \in Addrs /\ a # None /\ p \in Plugins
        BY <1>2, <1>3, <2>2
      <3>2. holder[a] = None
        BY <1>5, <3>1
      <3>3. a \in stray \/ \A r \in Plugins : ~On(list[r], a)
        BY <1>6, <3>1
      <3>4. \A v \in Threads : pc'[v] = "adding" /\ arg'[v] = a => v = t
        BY <1>2, <1>3, <2>1, <3>1
      <3> QED
        BY <1>2, <1>3, <1>4, <2>2, <3>1, <3>2, <3>3, <3>4
    <2>3. CASE u # t
      <3>1. pc[u] = "adding" /\ arg[u] = arg'[u] /\ arg[u] # None /\ to'[u] = to[u]
        BY <1>3, <2>3
      <3>2. arg[u] \in Addrs /\ opener[arg[u]] # 0 /\ arg[u] # a
        BY <1>2, <2>1, <2>3, <3>1
      <3> QED
        BY <1>2, <1>3, <1>4, <2>3, <3>1, <3>2 DEF WInv, AddingNew
    <2> QED
      BY <2>2, <2>3
  <1>11. CallingOwn'
    <2> SUFFICES ASSUME NEW u \in Threads,
                        pc'[u] \in {"walking", "calling", "deleting", "closing"}
                 PROVE  arg'[u] \in Addrs /\ holder'[arg'[u]] = u /\ Knows(u)' /\ TookOff(u)'
      BY DEF CallingOwn
    <2>1. u # t /\ pc'[u] = pc[u] /\ arg'[u] = arg[u] /\ to'[u] = to[u]
      BY <1>3
    <2>2. arg[u] \in Addrs /\ holder[arg[u]] = u /\ Knows(u) /\ TookOff(u)
      BY <2>1 DEF WInv, CallingOwn
    <2>3. opener'[arg[u]] = opener[arg[u]] /\ arg[u] # a
      BY <1>5, <2>2, NoneApart
    <2> QED
      BY <1>2, <2>1, <2>2, <2>3 DEF Knows, TookOff
  <1>12. OnceFound'
    <2>1. ASSUME NEW b \in Addrs, b \notin hasty'
          PROVE  \/ opener'[b] = Alone \/ Alone = 0
                 \/ b \notin hasty /\ opener'[b] = opener[b]
      <3>1. CASE b = a
        <4>1. ~AtWork /\ a # None
          BY <1>2, <2>1, <3>1, NoneApart
        <4>2. active = Alone
          BY <1>2, <4>1 DEF WInv, OnceFound, Settled
        <4> QED
          BY <1>1, <1>4, <3>1, <4>2
      <3>2. CASE b # a
        BY <1>2, <1>4, <2>1, <3>2
      <3> QED
        BY <3>1, <3>2
    <2> QED
      BY <1>2, <1>3, <2>1, OnceStays DEF WInv
  <1> QED
    BY <1>7, <1>8, <1>9, <1>10, <1>11, <1>12 DEF WInv

\* A walk under way is torn; the other calls know what they knew.
LEMMA TearsParts ==
  ASSUME Typed, Tears
  PROVE  /\ torn' \in [Threads -> BOOLEAN]
         /\ \A u \in Threads : pc[u] # "walking" => torn'[u] = torn[u]
  <1>1. \A u \in Threads : pc[u] # "walking" => torn'[u] = torn[u]
    BY DEF Tears, Typed
  <1>2. torn' \in [Threads -> BOOLEAN]
    BY DEF Tears, Typed
  <1> QED
    BY <1>1, <1>2

LEMMA AddDevOwned == ASSUME WInv, NEW t \in Threads, AddDev(t) PROVE WInv'
  <1>1. /\ pc[t] = "adding" /\ Returns(t) /\ Tears
        /\ list' = [list EXCEPT ![to[t]] = Append(list[to[t]], arg[t])]
        /\ arg[t] = None => holder' = holder
        /\ arg[t] # None => holder' = [holder EXCEPT ![arg[t]] = t]
        /\ UNCHANGED <<opener, stray, hasty>>
        /\ UNCHANGED <<kind, compat, loaded, active, busses, lock>>
    BY DEF AddDev, confVars, initVars, busVars
  <1>2. /\ pc'[t] = "idle"
        /\ \A u \in Threads : u # t => pc'[u] = pc[u] /\ arg'[u] = arg[u] /\ to'[u] = to[u]
        /\ pc' \in [Threads -> Wheres] /\ arg' \in [Threads -> Addrs \cup {None}]
        /\ to' = [u \in Threads |-> to'[u]]
    BY <1>1, ReturnsParts DEF WInv
  <1>3. /\ torn' \in [Threads -> BOOLEAN]
        /\ \A u \in Threads : pc[u] # "walking" => torn'[u] = torn[u]
    BY <1>1, TearsParts DEF WInv
  <1>4. PICK a \in Addrs \cup {None} : a = arg[t]
    BY DEF WInv, Typed
  <1>5. PICK o : o = to[t]
    OBVIOUS
  <1>6. a # None => /\ a \in Addrs /\ o \in Plugins /\ opener[a] = o /\ holder[a] = None
                    /\ a \in stray \/ \A p \in Plugins : ~On(list[p], a)
                    /\ \A u \in Threads : pc[u] = "adding" /\ arg[u] = a => u = t
    BY <1>1, <1>4, <1>5 DEF WInv, AddingNew
  <1>7. /\ \A p \in Plugins : p # o => list'[p] = list[p]
        /\ o \in Plugins => list'[o] = Append(list[o], a)
    BY <1>1, <1>4, <1>5 DEF WInv, Typed
  <1> DEFINE X == stray \cup {None}
  <1>8. o \in Plugins => /\ Append(list[o], a) \in Seq(Addrs \cup {None})
                         /\ Single(Append(list[o], a), X) /\ On(Append(list[o], a), a)
                         /\ \A b : b # a => (On(Append(list[o], a), b) <=> On(list[o], b))
    <2> SUFFICES ASSUME o \in Plugins
                 PROVE  /\ Append(list[o], a) \in Seq(Addrs \cup {None})
                        /\ Single(Append(list[o], a), X) /\ On(Append(list[o], a), a)
                        /\ \A b : b # a => (On(Append(list[o], a), b) <=> On(list[o], b))
      OBVIOUS
    <2>1. PICK s \in Seq(Addrs \cup {None}) : s = list[o] /\ Single(s, X)
      BY DEF WInv, Typed, EntriesTrue
    <2>2. a \notin X => ~On(s, a)
      BY <1>6, <2>1
    <2> HIDE DEF X
    <2> QED
      BY <2>1, <2>2, WithIt
  <1>9. \A p \in Plugins, b \in Addrs : b # a => (On(list'[p], b) <=> On(list[p], b))
    BY <1>7, <1>8
  <1>10. \A p \in Plugins : a \notin X /\ On(list'[p], a) => p = o
    BY <1>6, <1>7
  <1>11. \A b \in Addrs : /\ b # a => holder'[b] = holder[b]
                          /\ b = a => holder'[b] = t
    BY <1>1, <1>4, NoneApart DEF WInv, Typed
  <1>12. Typed'
    <2>1. list' \in [Plugins -> Seq(Addrs \cup {None})]
      <3>1. CASE o \in Plugins
        BY <1>1, <1>4, <1>5, <1>8, <3>1 DEF WInv, Typed
      <3>2. CASE o \notin Plugins
        BY <1>1, <1>5, <3>2 DEF WInv, Typed
      <3> QED
        BY <3>1, <3>2
    <2>2. holder' \in [Addrs -> Threads \cup {None}]
      BY <1>1 DEF WInv, Typed
    <2> QED
      BY <1>1, <1>2, <1>3, <2>1, <2>2 DEF WInv, Typed
  <1>13. EntriesTrue'
    <2>1. \A p \in Plugins : Single(list'[p], X)
      BY <1>7, <1>8 DEF WInv, EntriesTrue
    <2>2. ASSUME NEW p \in Plugins, NEW b \in Addrs \ stray, On(list'[p], b) PROVE opener'[b] = p
      <3>1. CASE b = a
        BY <1>1, <1>6, <1>10, <2>2, <3>1, NoneApart
      <3>2. CASE b # a
        BY <1>1, <1>9, <2>2, <3>2 DEF WInv, EntriesTrue
      <3> QED
        BY <3>1, <3>2
    <2> QED
      BY <1>1, <2>1, <2>2 DEF EntriesTrue
  <1>14. HeldListed'
    <2>1. \A b \in Addrs : Removing(b) => Removing(b)'
      BY <1>1, <1>2 DEF Removing
    <2> SUFFICES ASSUME NEW b \in Addrs, holder'[b] # None
                 PROVE  /\ opener'[b] \in Plugins
                        /\ b \in stray \/ On(list'[opener'[b]], b) \/ Removing(b)'
      BY <1>1 DEF HeldListed
    <2>2. CASE b = a
      BY <1>1, <1>6, <1>7, <1>8, <2>2, NoneApart
    <2>3. CASE b # a
      BY <1>1, <1>9, <1>11, <2>1, <2>3 DEF WInv, HeldListed
    <2> QED
      BY <2>2, <2>3
  <1>15. AddingNew'
    <2> SUFFICES ASSUME NEW u \in Threads, pc'[u] = "adding", arg'[u] # None
                 PROVE  /\ to'[u] \in Plugins /\ opener'[arg'[u]] = to'[u]
                        /\ holder'[arg'[u]] = None
                        /\ \/ arg'[u] \in stray
                           \/ \A r \in Plugins : ~On(list'[r], arg'[u])
                        /\ \A v \in Threads : pc'[v] = "adding" /\ arg'[v] = arg'[u] => v = u
      BY <1>1 DEF AddingNew
    <2>1. u # t /\ pc[u] = "adding" /\ arg[u] = arg'[u] /\ to'[u] = to[u]
      BY <1>2
    <2>2. arg[u] \in Addrs /\ arg[u] # a
      BY <1>6, <2>1 DEF WInv, Typed
    <2>3. \A v \in Threads : pc'[v] = "adding" => pc[v] = "adding" /\ arg'[v] = arg[v]
      BY <1>2
    <2> QED
      BY <1>1, <1>9, <1>11, <2>1, <2>2, <2>3 DEF WInv, AddingNew
  <1>16. CallingOwn'
    <2> SUFFICES ASSUME NEW u \in Threads,
                        pc'[u] \in {"walking", "calling", "deleting", "closing"}
                 PROVE  arg'[u] \in Addrs /\ holder'[arg'[u]] = u /\ Knows(u)' /\ TookOff(u)'
      BY DEF CallingOwn
    <2>1. u # t /\ pc'[u] = pc[u] /\ arg'[u] = arg[u] /\ to'[u] = to[u]
      BY <1>2
    <2>2. arg[u] \in Addrs /\ holder[arg[u]] = u /\ Knows(u) /\ TookOff(u)
      BY <2>1 DEF WInv, CallingOwn
    <2>3. arg[u] # a
      BY <1>6, <2>2, NoneApart
    <2> QED
      BY <1>1, <1>3, <1>9, <1>11, <2>1, <2>2, <2>3 DEF Knows, TookOff
  <1>17. OnceFound'
    BY <1>1, <1>2, OnceStays DEF WInv
  <1> QED
    BY <1>12, <1>13, <1>14, <1>15, <1>16, <1>17 DEF WInv

LEMMA DelDevOwned == ASSUME WInv, NEW t \in Threads, DelDev(t) PROVE WInv'
  <1>1. /\ pc[t] = "deleting" /\ Tears
        /\ list' = [list EXCEPT ![to[t]] = Without(list[to[t]], arg[t])]
        /\ pc' = [pc EXCEPT ![t] = "closing"]
        /\ UNCHANGED <<opener, holder, arg, to, stray, hasty>>
        /\ UNCHANGED <<kind, compat, loaded, active, busses, lock>>
    BY DEF DelDev, Goes, confVars, initVars, busVars
  <1>2. /\ pc'[t] = "closing" /\ pc' \in [Threads -> Wheres]
        /\ \A u \in Threads : u # t => pc'[u] = pc[u]
    BY <1>1 DEF WInv, Typed, Wheres
  <1>3. /\ torn' \in [Threads -> BOOLEAN]
        /\ \A u \in Threads : pc[u] # "walking" => torn'[u] = torn[u]
    BY <1>1, TearsParts DEF WInv
  <1>4. PICK a \in Addrs : a = arg[t] /\ holder[a] = t
    BY <1>1 DEF WInv, CallingOwn
  <1>5. PICK o : o = to[t]
    OBVIOUS
  <1>6. /\ \A p \in Plugins : p # o => list'[p] = list[p]
        /\ o \in Plugins => list'[o] = Without(list[o], a)
    BY <1>1, <1>4, <1>5 DEF WInv, Typed
  <1> DEFINE X == stray \cup {None}
  <1>7. o \in Plugins =>
          /\ Without(list[o], a) \in Seq(Addrs \cup {None})
          /\ Single(Without(list[o], a), X) /\ (a \notin X => ~On(Without(list[o], a), a))
          /\ \A b \in Addrs : b # a => (On(Without(list[o], a), b) <=> On(list[o], b))
    <2> SUFFICES ASSUME o \in Plugins
                 PROVE  /\ Without(list[o], a) \in Seq(Addrs \cup {None})
                        /\ Single(Without(list[o], a), X)
                        /\ a \notin X => ~On(Without(list[o], a), a)
                        /\ \A b \in Addrs : b # a =>
                              (On(Without(list[o], a), b) <=> On(list[o], b))
      OBVIOUS
    <2>1. PICK s \in Seq(Addrs \cup {None}) : s = list[o] /\ Single(s, X)
      BY DEF WInv, Typed, EntriesTrue
    <2> HIDE DEF X
    <2> QED
      BY <2>1, WithoutIt
  <1>8. \A p \in Plugins, b \in Addrs : b # a => (On(list'[p], b) <=> On(list[p], b))
    BY <1>6, <1>7
  <1>9. a \notin stray => \A p \in Plugins : On(list'[p], a) => On(list[p], a) /\ p # o
    BY <1>6, <1>7, NoneApart
  <1>10. Typed'
    <2>1. list' \in [Plugins -> Seq(Addrs \cup {None})]
      <3>1. CASE o \in Plugins
        BY <1>1, <1>4, <1>5, <1>7, <3>1 DEF WInv, Typed
      <3>2. CASE o \notin Plugins
        BY <1>1, <1>5, <3>2 DEF WInv, Typed
      <3> QED
        BY <3>1, <3>2
    <2> QED
      BY <1>1, <1>2, <1>3, <2>1 DEF WInv, Typed
  <1>11. EntriesTrue'
    <2>1. \A p \in Plugins : Single(list'[p], X)
      BY <1>6, <1>7 DEF WInv, EntriesTrue
    <2>2. \A p \in Plugins, b \in Addrs \ stray : On(list'[p], b) => On(list[p], b)
      BY <1>8, <1>9
    <2> QED
      BY <1>1, <2>1, <2>2 DEF WInv, EntriesTrue
  <1>12. HeldListed'
    <2>1. Removing(a)'
      BY <1>1, <1>2, <1>4 DEF Removing
    <2>2. \A b \in Addrs : Removing(b) => Removing(b)'
      BY <1>1, <1>2 DEF Removing
    <2> QED
      BY <1>1, <1>8, <2>1, <2>2 DEF WInv, HeldListed
  <1>13. AddingNew'
    <2>1. \A v \in Threads : pc'[v] = "adding" => v # t /\ pc[v] = "adding"
      BY <1>2
    <2>2. ASSUME NEW u \in Threads, pc[u] = "adding", arg[u] # None
          PROVE  arg[u] \in Addrs /\ arg[u] # a
      BY <1>4, <2>2, NoneApart DEF WInv, Typed, AddingNew
    <2> QED
      BY <1>1, <1>8, <2>1, <2>2 DEF WInv, AddingNew
  <1>14. CallingOwn'
    <2> SUFFICES ASSUME NEW u \in Threads,
                        pc'[u] \in {"walking", "calling", "deleting", "closing"}
                 PROVE  arg'[u] \in Addrs /\ holder'[arg'[u]] = u /\ Knows(u)' /\ TookOff(u)'
      BY DEF CallingOwn
    <2>1. CASE u = t
      <3>1. Knows(t)
        BY <1>1 DEF WInv, CallingOwn
      <3> QED
        BY <1>1, <1>2, <1>3, <1>4, <1>5, <1>9, <2>1, <3>1 DEF Knows, TookOff
    <2>2. CASE u # t
      <3>1. /\ pc'[u] = pc[u] /\ arg[u] \in Addrs /\ holder[arg[u]] = u
            /\ Knows(u) /\ TookOff(u)
        BY <1>2, <2>2 DEF WInv, CallingOwn
      <3>2. arg[u] # a
        BY <1>4, <2>2, <3>1
      <3> QED
        BY <1>1, <1>3, <1>8, <3>1, <3>2 DEF Knows, TookOff
    <2> QED
      BY <2>1, <2>2
  <1>15. OnceFound'
    BY <1>1, <1>2, OnceStays DEF WInv
  <1> QED
    BY <1>10, <1>11, <1>12, <1>13, <1>14, <1>15 DEF WInv

LEMMA PluginCloseOwned == ASSUME WInv, NEW t \in Threads, PluginClose(t) PROVE WInv'
  <1>1. /\ pc[t] = "closing" /\ Returns(t)
        /\ opener' = [opener EXCEPT ![arg[t]] = 0]
        /\ holder' = [holder EXCEPT ![arg[t]] = None]
        /\ stray' = IF opener[arg[t]] = to[t] THEN stray ELSE stray \cup {arg[t]}
        /\ hasty' = hasty \ {arg[t]} /\ Forgets(t)
        /\ UNCHANGED <<list, kind, compat, loaded, active, busses, lock>>
    BY DEF PluginClose, confVars, initVars, busVars
  <1>2. /\ pc'[t] = "idle"
        /\ \A u \in Threads : u # t => pc'[u] = pc[u] /\ arg'[u] = arg[u] /\ to'[u] = to[u]
        /\ pc' \in [Threads -> Wheres] /\ arg' \in [Threads -> Addrs \cup {None}]
        /\ to' = [u \in Threads |-> to'[u]]
    BY <1>1, ReturnsParts DEF WInv
  <1>3. PICK a \in Addrs : a = arg[t] /\ holder[a] = t
    BY <1>1 DEF WInv, CallingOwn
  <1>4. /\ \A b \in Addrs : b # a => opener'[b] = opener[b] /\ holder'[b] = holder[b]
        /\ holder'[a] = None
        /\ opener'[a] = 0
        /\ torn' \in [Threads -> BOOLEAN] /\ \A u \in Threads : u # t => torn'[u] = torn[u]
        /\ stray \subseteq stray' /\ stray' \subseteq stray \cup {a}
    BY <1>1, <1>3 DEF WInv, Typed, Forgets
  <1>5. Typed'
    <2>1. opener' \in [Addrs -> Plugins \cup {0}] /\ holder' \in [Addrs -> Threads \cup {None}]
      BY <1>1, <1>3 DEF WInv, Typed
    <2>2. stray' \subseteq Addrs /\ hasty' \subseteq Addrs
      BY <1>1, <1>3 DEF WInv, Typed
    <2> QED
      BY <1>1, <1>2, <1>4, <2>1, <2>2 DEF WInv, Typed
  <1>6. ASSUME NEW p \in Plugins, On(list[p], a) PROVE a \in stray'
    <2> SUFFICES ASSUME a \notin stray' PROVE FALSE
      OBVIOUS
    <2>1. a \notin stray /\ opener[a] = to[t]
      BY <1>1, <1>3
    <2>2. p # to[t] /\ opener[a] = p
      BY <1>1, <1>3, <1>6, <2>1 DEF WInv, EntriesTrue, CallingOwn, TookOff
    <2> QED
      BY <2>1, <2>2
  <1>7. EntriesTrue'
    <2>1. \A p \in Plugins : Single(list'[p], (stray \cup {None})')
      BY <1>1, <1>4 DEF WInv, EntriesTrue, Single
    <2>2. ASSUME NEW p \in Plugins, NEW b \in Addrs, b \notin stray', On(list[p], b)
          PROVE  opener'[b] = p
      <3>1. b # a /\ b \notin stray
        BY <1>4, <1>6, <2>2
      <3> QED
        BY <1>4, <2>2, <3>1 DEF WInv, EntriesTrue
    <2> QED
      BY <1>1, <2>1, <2>2 DEF EntriesTrue
  <1>8. HeldListed'
    <2>1. \A b \in Addrs : b # a /\ Removing(b) => Removing(b)'
      BY <1>2, <1>3 DEF Removing
    <2> QED
      BY <1>1, <1>4, <2>1 DEF WInv, HeldListed
  <1>9. ASSUME NEW u \in Threads, pc[u] = "adding", arg[u] # None
        PROVE  arg[u] \in Addrs /\ arg[u] # a
    BY <1>3, <1>9, NoneApart DEF WInv, Typed, AddingNew
  <1>10. AddingNew'
    <2>1. \A v \in Threads : pc'[v] = "adding" => /\ v # t /\ pc[v] = "adding"
                                                  /\ arg'[v] = arg[v] /\ to'[v] = to[v]
      BY <1>2
    <2> QED
      BY <1>1, <1>4, <1>9, <2>1 DEF WInv, AddingNew
  <1>11. CallingOwn'
    <2> SUFFICES ASSUME NEW u \in Threads,
                        pc'[u] \in {"walking", "calling", "deleting", "closing"}
                 PROVE  arg'[u] \in Addrs /\ holder'[arg'[u]] = u /\ Knows(u)' /\ TookOff(u)'
      BY DEF CallingOwn
    <2>1. /\ u # t /\ pc'[u] = pc[u] /\ arg'[u] = arg[u] /\ to'[u] = to[u]
      BY <1>2
    <2>2. arg[u] \in Addrs /\ holder[arg[u]] = u /\ Knows(u) /\ TookOff(u)
      BY <2>1 DEF WInv, CallingOwn
    <2>3. arg[u] # a /\ (arg[u] \in hasty' <=> arg[u] \in hasty)
      BY <1>1, <1>3, <2>1, <2>2
    <2> QED
      BY <1>1, <1>4, <2>1, <2>2, <2>3 DEF Knows, TookOff
  <1>12. OnceFound'
    <2>1. \A b \in Addrs : b \notin hasty' =>
             opener'[b] = 0 \/ (b \notin hasty /\ opener'[b] = opener[b])
      BY <1>1, <1>3, <1>4
    <2> QED
      BY <1>1, <1>2, <2>1, OnceStays DEF WInv
  <1> QED
    BY <1>5, <1>7, <1>8, <1>10, <1>11, <1>12 DEF WInv

LEMMA InitOwned == Init => WInv
  <1> SUFFICES ASSUME Init PROVE WInv
    OBVIOUS
  <1>1. Typed
    BY DEF Init, Typed, Wheres
  <1>2. \A p \in Plugins : list[p] = <<>>
    BY DEF Init
  <1>3. EntriesTrue
    BY <1>2 DEF EntriesTrue, On, Single
  <1>4. OnceFound
    BY DEF Init, OnceFound, Holding, Settled, ByAlone
  <1> QED
    BY <1>1, <1>3, <1>4 DEF Init, WInv, HeldListed, AddingNew, CallingOwn

LEMMA WStep == WInv /\ [Next]_vars => WInv'
  <1> SUFFICES ASSUME WInv, [Next]_vars PROVE WInv'
    OBVIOUS
  <1>1. CASE UNCHANGED vars
    <2>1. /\ UNCHANGED <<list, opener, holder, pc, arg, to, torn, stray, hasty>>
          /\ UNCHANGED <<kind, compat, loaded, active, busses, lock>>
      BY <1>1 DEF vars, confVars, initVars, busVars, callVars, pastVars
    <2>2. Typed' /\ EntriesTrue' /\ HeldListed'
      BY <2>1 DEF WInv, Typed, EntriesTrue, HeldListed, Removing
    <2>3. AddingNew' /\ CallingOwn'
      BY <2>1 DEF WInv, AddingNew, CallingOwn, Knows, TookOff
    <2>4. OnceFound'
      BY <2>1, AnswersSame DEF WInv, OnceFound, Holding, Settled, ByAlone, AtWork
    <2> QED
      BY <2>2, <2>3, <2>4 DEF WInv
  <1>2. ASSUME NEW t \in Threads, UsbInit(t) \/ FindBusses(t) PROVE WInv'
    BY <1>2, UsbInitOwned, FindBussesOwned
  <1>3. ASSUME NEW t \in Threads, NEW q \in Plugins, NEW a \in Addrs \cup {None}, Open(t, q, a)
        PROVE  WInv'
    BY <1>3, OpenOwned
  <1>4. ASSUME NEW t \in Threads, NEW a \in Addrs, NEW call \in {"call", "close"},
               Begin(t, a, call)
        PROVE  WInv'
    BY <1>4, BeginOwned
  <1>5. ASSUME NEW t \in Threads, Step(t) PROVE WInv'
    <2>1. CASE AddFails(t) \/ Call(t)
      <3>1. /\ Returns(t) /\ pc[t] \notin {"closing", "asking", "linking"}
            /\ torn' = torn \/ Forgets(t)
            /\ UNCHANGED <<list, opener, holder, stray, hasty>>
            /\ UNCHANGED <<kind, compat, loaded, active, busses, lock>>
        BY <2>1 DEF AddFails, Call, confVars, initVars, busVars, pastVars
      <3> QED
        BY <3>1, ReturnsOwned
    <2>2. CASE AddDev(t) \/ Walk(t)
      BY <2>2, AddDevOwned, WalkOwned
    <2>3. CASE DelDev(t) \/ PluginClose(t)
      BY <2>3, DelDevOwned, PluginCloseOwned
    <2>4. CASE InitLoad(t) \/ InitAsk(t) \/ InitReady(t)
      BY <2>4, InitLoadOwned, InitAskOwned, InitReadyOwned
    <2> QED
      BY <1>5, <2>1, <2>2, <2>3, <2>4 DEF Step, Locks
  <1> QED
    BY <1>1, <1>2, <1>3, <1>4, <1>5 DEF Next

LEMMA SpecOwned == Spec => []WInv
  BY InitOwned, WStep, PTL DEF Spec

\* usb_add_dev and usb_del_dev: the lists of handles say which plugin has a
\* handle open, and never name one that was freed, except where a get_pindex that
\* was misled made another plugin free it.
THEOREM ListsCorrect == Spec => []ListsAreTrue
  <1>1. ASSUME WInv PROVE ListsAreTrue
    <2>1. ASSUME NEW p \in Plugins, NEW i \in 1 .. Len(list[p]),
                 list[p][i] \notin stray \cup {None}
          PROVE  /\ opener[list[p][i]] = p
                 /\ \A j \in 1 .. Len(list[p]) : list[p][j] = list[p][i] => j = i
      <3>1. list[p] \in Seq(Addrs \cup {None}) /\ Single(list[p], stray \cup {None})
        BY <1>1 DEF WInv, Typed, EntriesTrue
      <3>2. list[p][i] \in Addrs \ stray /\ On(list[p], list[p][i])
        BY <2>1, <3>1 DEF On
      <3> QED
        BY <1>1, <2>1, <3>1, <3>2 DEF WInv, EntriesTrue, Single
    <2>2. ASSUME NEW a \in Addrs \ stray, holder[a] # None, ~Removing(a)
          PROVE  opener[a] # 0 /\ Lists(opener[a], a)
      BY <1>1, <2>2, NoneApart DEF WInv, HeldListed, Lists, On
    <2> QED
      BY <2>1, <2>2 DEF ListsAreTrue
  <1> QED
    BY <1>1, SpecOwned, PTL

\* get_pindex: a call on a handle reaches the plugin that opened it, unless the
\* lists changed under the walk that takes no lock, or usb_init was at work when
\* the call or the handle's usb_open read active_index.
THEOREM CallsCorrect == Spec => []CallsReachOwner
  <1>1. ASSUME WInv PROVE CallsReachOwner
    <2>1. \A t \in Threads : torn[t] \in BOOLEAN
      BY <1>1 DEF WInv, Typed
    <2> QED
      BY <1>1, <2>1 DEF WInv, CallingOwn, Knows, CallsReachOwner
  <1> QED
    BY <1>1, SpecOwned, PTL
=============================================================================
