-------------------------- MODULE UsbBussesProofs --------------------------
(***************************************************************************)
(* Proofs about what UsbWrapper computes over its plugins, for any number  *)
(* of them: which ones usb_init keeps, how usb_find_busses chains their    *)
(* busses, and when it comes to an end.                                    *)
(*                                                                         *)
(* The loops of the C code are recursive functions in UsbWrapper.  That    *)
(* there is such a function, and what it is at each plugin, is proved here *)
(* from the least number a statement could fail for.                       *)
(***************************************************************************)
EXTENDS UsbWrapperProofs

\* Step by step up to n.
LEMMA UpTo ==
    ASSUME NEW n \in Nat, NEW A, 0 \in A,
           \A k \in 1 .. n : k - 1 \in A => k \in A
    PROVE  \A k \in 0 .. n : k \in A
  <1> DEFINE T == (0 .. n) \ A
  <1>1. CASE T # {}
    <2>0. T \in SUBSET Nat
      OBVIOUS
    <2>1. PICK m \in T : \A k \in T : m <= k
      <3> HIDE DEF T
      <3> QED
        BY <1>1, <2>0, LeastOf
    <2>2. m \in 1 .. n /\ m - 1 \in 0 .. n /\ ~(m <= m - 1)
      BY <2>1
    <2>3. m - 1 \in A
      BY <2>1, <2>2
    <2> QED
      BY <2>1, <2>2, <2>3
  <1> QED
    BY <1>1

\* What a loop over 1 .. m computes at each step, b being what it starts with.
LoopTo(f, m, S, b, g) ==
    /\ f \in [0 .. m -> S]
    /\ f[0] = b /\ \A k \in 1 .. m : f[k] = g[<<f[k - 1], k>>]

\* A loop that stays within S computes something.
LEMMA LoopExists ==
    ASSUME NEW n \in Nat, NEW S, NEW b \in S, NEW g,
           \A x \in S, k \in 1 .. n : g[<<x, k>>] \in S
    PROVE  \E f : LoopTo(f, n, S, b, g)
  <1> DEFINE Loop(f, m) == LoopTo(f, m, S, b, g)
             A == {m \in 0 .. n : \E f : Loop(f, m)}
  <1> USE DEF LoopTo
  <1>1. 0 \in A
    <2>1. Loop([k \in 0 .. 0 |-> b], 0)
      OBVIOUS
    <2> HIDE DEF Loop, LoopTo
    <2> QED
      BY <2>1
  <1>2. ASSUME NEW m \in 1 .. n, m - 1 \in A
        PROVE  m \in A
    <2>1. PICK f : Loop(f, m - 1)
      BY <1>2
    <2> DEFINE h == [k \in 0 .. m |-> IF k = m THEN g[<<f[m - 1], m>>] ELSE f[k]]
    <2>2. m - 1 \in 0 .. m - 1 /\ f[m - 1] \in S /\ g[<<f[m - 1], m>>] \in S
      BY <2>1
    <2>3. h \in [0 .. m -> S]
      <3>1. \A k \in 0 .. m : k # m => k \in 0 .. m - 1 /\ f[k] \in S
        BY <2>1
      <3> QED
        BY <2>2, <3>1
    <2>4. \A k \in 0 .. m - 1 : h[k] = f[k]
      OBVIOUS
    <2>8. h[m] = g[<<f[m - 1], m>>]
      OBVIOUS
    <2> HIDE DEF h
    <2>5. h[0] = b
      BY <2>1, <2>4
    <2>6. \A k \in 1 .. m : h[k] = g[<<h[k - 1], k>>]
      <3> TAKE k \in 1 .. m
      <3>1. k - 1 \in 0 .. m - 1 /\ h[k - 1] = f[k - 1]
        BY <2>4
      <3>2. CASE k = m
        BY <2>8, <3>1, <3>2
      <3>3. CASE k # m
        <4>1. k \in 1 .. m - 1 /\ k \in 0 .. m - 1
          BY <3>3
        <4>2. f[k] = g[<<f[k - 1], k>>]
          BY <2>1, <4>1
        <4>3. h[k] = f[k]
          BY <2>4, <4>1
        <4> QED
          BY <3>1, <4>2, <4>3
      <3> QED
        BY <3>2, <3>3
    <2>7. Loop(h, m)
      BY <2>3, <2>5, <2>6
    <2> HIDE DEF Loop, LoopTo
    <2> QED
      BY <2>7
  <1>3. n \in A
    <2> HIDE DEF A
    <2>1. n \in 0 .. n
      OBVIOUS
    <2> QED
      BY <1>1, <1>2, <2>1, UpTo
  <1> QED
    BY <1>3
-----------------------------------------------------------------------------
\* A walk along a chain, step by step.
Hop(nx, q) == IF q = 0 THEN 0 ELSE nx[q]
IsWalk(f, nx, p, k) == f[0] = p /\ \A j \in 1 .. k : f[j] = Hop(nx, f[j - 1])

LEMMA WalkExists ==
    ASSUME NEW nx, NEW C, NEW p \in C, NEW k \in Nat, 0 \in C,
           \A q \in C : q # 0 => nx[q] \in C
    PROVE  \E f : IsWalk(f, nx, p, k) /\ ReachedIn(nx, p, k) = f[k]
  <1> DEFINE Eq(f) == f = [j \in 0 .. k |->
                 IF j = 0 THEN p ELSE IF f[j - 1] = 0 THEN 0 ELSE nx[f[j - 1]]]
             at == CHOOSE f : Eq(f)
  <1>1. ReachedIn(nx, p, k) = at[k]
    BY DEF ReachedIn
  <1>2. \E f : Eq(f)
    <2> DEFINE g == [x \in C \X (1 .. k) |-> IF x[1] = 0 THEN 0 ELSE nx[x[1]]]
    <2>2. \A q \in C, j \in 1 .. k : g[<<q, j>>] = IF q = 0 THEN 0 ELSE nx[q]
      OBVIOUS
    <2>1. \A q \in C, j \in 1 .. k : g[<<q, j>>] \in C
      BY <2>2
    <2> HIDE DEF g, Eq, at
    <2>0. k \in Nat /\ p \in C
      OBVIOUS
    <2>a. \E f : LoopTo(f, k, C, p, g)
      BY <2>0, <2>1, LoopExists
    <2>3. PICK f : /\ f \in [0 .. k -> C]
                   /\ f[0] = p /\ \A j \in 1 .. k : f[j] = g[<<f[j - 1], j>>]
      BY <2>a DEF LoopTo
    <2>4. \A j \in 1 .. k : f[j - 1] \in C
      BY <2>3
    <2>5. \A j \in 0 .. k : f[j] = IF j = 0 THEN p
                                   ELSE IF f[j - 1] = 0 THEN 0 ELSE nx[f[j - 1]]
      <3> TAKE j \in 0 .. k
      <3>1. CASE j = 0
        BY <2>3, <3>1
      <3>2. CASE j # 0
        <4>1. j \in 1 .. k
          BY <3>2
        <4> QED
          BY <2>2, <2>3, <2>4, <3>2, <4>1
      <3> QED
        BY <3>1, <3>2
    <2>6. Eq(f)
      BY <2>3, <2>5 DEF Eq
    <2> QED
      BY <2>6
  <1>3. Eq(at)
    <2> HIDE DEF Eq
    <2> QED
      BY <1>2
  <1> HIDE DEF at
  <1>4. /\ at[0] = p
        /\ \A j \in 1 .. k : at[j] = IF at[j - 1] = 0 THEN 0 ELSE nx[at[j - 1]]
    BY <1>3
  <1>5. IsWalk(at, nx, p, k)
    BY <1>4 DEF IsWalk, Hop
  <1> QED
    BY <1>1, <1>5

LEMMA WalkSame ==
    ASSUME NEW nx, NEW p, NEW k \in Nat, NEW f, NEW g, IsWalk(f, nx, p, k), IsWalk(g, nx, p, k)
    PROVE  f[k] = g[k]
  <1> DEFINE A == {j \in 0 .. k : f[j] = g[j]}
  <1>1. 0 \in A
    BY DEF IsWalk
  <1>2. ASSUME NEW j \in 1 .. k, j - 1 \in A
        PROVE  j \in A
    BY <1>2 DEF IsWalk, Hop
  <1> HIDE DEF A
  <1>3. k \in 0 .. k
    OBVIOUS
  <1>4. k \in A
    BY <1>1, <1>2, <1>3, UpTo
  <1> QED
    BY <1>4 DEF A

\* One step more follows the pointer of the bus that was reached.
LEMMA WalkStep ==
    ASSUME NEW nx, NEW C, NEW p \in C, NEW k \in Nat, 0 \in C,
           \A q \in C : q # 0 => nx[q] \in C
    PROVE  /\ ReachedIn(nx, p, 0) = p
           /\ ReachedIn(nx, p, k + 1) = Hop(nx, ReachedIn(nx, p, k))
  <1>1. ReachedIn(nx, p, 0) = p
    <2>1. 0 \in Nat
      OBVIOUS
    <2>2. PICK f : IsWalk(f, nx, p, 0) /\ ReachedIn(nx, p, 0) = f[0]
      BY <2>1, WalkExists
    <2> QED
      BY <2>2 DEF IsWalk
  <1>2. k + 1 \in Nat /\ k + 1 \in 1 .. k + 1 /\ k = (k + 1) - 1
        /\ \A j \in 1 .. k : j \in 1 .. k + 1
    OBVIOUS
  <1>3. PICK f : IsWalk(f, nx, p, k) /\ ReachedIn(nx, p, k) = f[k]
    BY WalkExists
  <1>4. PICK g : IsWalk(g, nx, p, k + 1) /\ ReachedIn(nx, p, k + 1) = g[k + 1]
    <2>1. PICK m \in Nat : m = k + 1
      BY <1>2
    <2>2. \E g : IsWalk(g, nx, p, m) /\ ReachedIn(nx, p, m) = g[m]
      BY WalkExists
    <2> QED
      BY <2>1, <2>2
  <1>5. IsWalk(g, nx, p, k) /\ g[k + 1] = Hop(nx, g[k])
    BY <1>2, <1>4 DEF IsWalk
  <1>6. g[k] = f[k]
    BY <1>3, <1>5, WalkSame
  <1> QED
    BY <1>1, <1>3, <1>4, <1>5, <1>6

\* A walk along a chain stays in a set that the chain does not leave.
LEMMA WalkStays ==
    ASSUME NEW nx, NEW C, NEW p \in C, NEW k \in Nat, 0 \in C,
           \A q \in C : q # 0 => nx[q] \in C
    PROVE  ReachedIn(nx, p, k) \in C /\ (k = 0 => ReachedIn(nx, p, k) = p)
  <1>1. PICK f : IsWalk(f, nx, p, k) /\ ReachedIn(nx, p, k) = f[k]
    BY WalkExists
  <1> DEFINE A == {j \in 0 .. k : f[j] \in C}
  <1>2. 0 \in A
    BY <1>1 DEF IsWalk
  <1>3. ASSUME NEW j \in 1 .. k, j - 1 \in A
        PROVE  j \in A
    BY <1>1, <1>3 DEF IsWalk, Hop
  <1>4. k \in A
    <2> HIDE DEF A
    <2>1. k \in 0 .. k
      OBVIOUS
    <2> QED
      BY <1>2, <1>3, <2>1, UpTo
  <1> QED
    BY <1>1, <1>4 DEF IsWalk

\* Hanging more on the ends of a chain loses nothing that was reached.
LEMMA WalkKept ==
    ASSUME NEW nx, NEW mx, NEW C, NEW p \in C, NEW k \in Nat, 0 \in C,
           \A q \in C : q # 0 => nx[q] \in C /\ mx[q] \in C,
           \A q \in C : q # 0 /\ nx[q] # 0 => mx[q] = nx[q]
    PROVE  ReachedIn(nx, p, k) # 0 => ReachedIn(mx, p, k) = ReachedIn(nx, p, k)
  <1> DEFINE A == {j \in 0 .. k : ReachedIn(nx, p, j) # 0 =>
                                     ReachedIn(mx, p, j) = ReachedIn(nx, p, j)}
  <1>1. \A j \in Nat : /\ ReachedIn(nx, p, j) \in C
                       /\ ReachedIn(nx, p, j + 1) = Hop(nx, ReachedIn(nx, p, j))
                       /\ ReachedIn(mx, p, j + 1) = Hop(mx, ReachedIn(mx, p, j))
                       /\ ReachedIn(nx, p, 0) = p /\ ReachedIn(mx, p, 0) = p
    <2> TAKE j \in Nat
    <2>1. /\ \A q \in C : q # 0 => nx[q] \in C
          /\ \A q \in C : q # 0 => mx[q] \in C
      OBVIOUS
    <2> QED
      BY <2>1, WalkStep, WalkStays
  <1>2. 0 \in A
    BY <1>1
  <1>3. ASSUME NEW j \in 1 .. k, j - 1 \in A
        PROVE  j \in A
    <2>1. PICK i \in Nat : i = j - 1 /\ i + 1 = j
      OBVIOUS
    <2>2. /\ ReachedIn(nx, p, i) \in C
          /\ ReachedIn(nx, p, j) = Hop(nx, ReachedIn(nx, p, i))
          /\ ReachedIn(mx, p, j) = Hop(mx, ReachedIn(mx, p, i))
      BY <1>1, <2>1
    <2>3. ReachedIn(nx, p, i) # 0 => ReachedIn(mx, p, i) = ReachedIn(nx, p, i)
      BY <1>3, <2>1
    <2>4. ReachedIn(nx, p, j) # 0 => ReachedIn(mx, p, j) = ReachedIn(nx, p, j)
      BY <2>2, <2>3 DEF Hop
    <2>5. j \in 0 .. k
      OBVIOUS
    <2> QED
      BY <2>4, <2>5
  <1>4. k \in A
    <2> HIDE DEF A
    <2>1. k \in 0 .. k
      OBVIOUS
    <2> QED
      BY <1>2, <1>3, <2>1, UpTo
  <1> QED
    BY <1>4

LEMMA EndOfType == \A nx, p : EndOf(nx, p) \in Plugins \cup {0}
  BY DEF EndOf

\* A bus that nothing hangs on is the end of its chain.
LEMMA EndOfLast ==
    ASSUME NEW nx, NEW p \in Plugins, nx[p] = 0
    PROVE  EndOf(nx, p) = p
  <1>0. N \in Nat /\ 0 \in 0 .. N
    BY WrapperAssumption
  <1>c. p \in {p, 0} /\ 0 \in {p, 0} /\ \A q \in {p, 0} : q # 0 => nx[q] \in {p, 0}
    OBVIOUS
  <1>1. \A k \in 0 .. N : ReachedIn(nx, p, k) \in {p, 0}
    <2> TAKE k \in 0 .. N
    <2>1. k \in Nat
      BY <1>0
    <2> QED
      BY <1>c, <2>1, WalkStays, Zenon
  <1>2. ReachedIn(nx, p, 0) = p
    <2>1. 0 \in Nat
      OBVIOUS
    <2> QED
      BY <1>c, <2>1, WalkStays, Zenon
  <1> DEFINE ends == {q \in Plugins : nx[q] = 0 /\ \E k \in 0 .. N : ReachedIn(nx, p, k) = q}
  <1>3. ends = {p}
    BY <1>0, <1>1, <1>2, NoneApart
  <1>4. EndOf(nx, p) = IF ends = {} THEN 0 ELSE CHOOSE q \in ends : TRUE
    BY DEF EndOf
  <1> HIDE DEF ends
  <1> QED
    BY <1>3, <1>4
-----------------------------------------------------------------------------
\* What stays as it was when the program was started.
Configured ==
    kind \in [Plugins -> Kinds] /\ compat \subseteq Plugins /\ hasBus \subseteq Plugins

\* The first loop of usb_init, plugin by plugin.
AskedStates == [count : Nat, exclusive : BOOLEAN, flagged : SUBSET Plugins,
                loaded : SUBSET Plugins, flags : SUBSET Plugins, active : 0 .. N]
NoneAsked == [count |-> 0, exclusive |-> FALSE, flagged |-> {},
              loaded |-> Plugins, flags |-> {}, active |-> 0]

LEMMA AskedType ==
    ASSUME NEW s \in AskedStates, NEW p \in Plugins
    PROVE  Asked(s, p) \in AskedStates
  <1>1. N \in Nat /\ p \in 0 .. N /\ 0 \in 0 .. N
    BY WrapperAssumption DEF Plugins
  <1> DEFINE counted == kind[p] \in {"success", "exclusive", "noinit"}
             checked == kind[p] \notin {"noinit", "failure"}
             dropped == kind[p] = "failure" \/ (checked /\ p \notin compat)
             count   == s.count + IF counted THEN 1 ELSE 0
             first   == kind[p] = "exclusive" /\ ~s.exclusive
             index   == IF kind[p] = "success" THEN p ELSE s.active
  <1>2. count \in Nat /\ (s.exclusive \/ first) \in BOOLEAN /\ index \in 0 .. N
    BY <1>1 DEF AskedStates
  <1>3. /\ (IF first /\ ~dropped THEN {p} ELSE s.flagged) \in SUBSET Plugins
        /\ (IF dropped THEN s.loaded \ {p} ELSE s.loaded) \in SUBSET Plugins
        /\ (IF counted /\ ~dropped THEN s.flags \cup {p} ELSE s.flags) \in SUBSET Plugins
        /\ (IF checked /\ count # 1 THEN 0 ELSE index) \in 0 .. N
    <2> HIDE DEF counted, checked, dropped, count, first, index
    <2> QED
      BY <1>1, <1>2 DEF AskedStates
  <1>4. Asked(s, p) =
          [count     |-> count,
           exclusive |-> s.exclusive \/ first,
           flagged   |-> IF first /\ ~dropped THEN {p} ELSE s.flagged,
           loaded    |-> IF dropped THEN s.loaded \ {p} ELSE s.loaded,
           flags     |-> IF counted /\ ~dropped THEN s.flags \cup {p} ELSE s.flags,
           active    |-> IF checked /\ count # 1 THEN 0 ELSE index]
    BY DEF Asked
  <1> HIDE DEF counted, checked, dropped, count, first, index
  <1> QED
    BY <1>2, <1>3, <1>4 DEF AskedStates

LEMMA AskedSteps ==
    /\ AskedUpTo[0] = NoneAsked
    /\ \A p \in 1 .. N : AskedUpTo[p] = Asked(AskedUpTo[p - 1], p)
    /\ \A p \in 0 .. N : AskedUpTo[p] \in AskedStates
  <1>0. N \in Nat /\ 0 \in 0 .. N /\ Plugins = 1 .. N
    BY WrapperAssumption DEF Plugins
  <1>1. NoneAsked \in AskedStates
    BY <1>0 DEF NoneAsked, AskedStates
  <1> DEFINE Eq(f) == f = [p \in 0 .. N |-> IF p = 0 THEN NoneAsked ELSE Asked(f[p - 1], p)]
  <1>2. \E f : Eq(f)
    <2> DEFINE g == [x \in AskedStates \X (1 .. N) |-> Asked(x[1], x[2])]
    <2>1. \A s \in AskedStates, p \in 1 .. N : g[<<s, p>>] = Asked(s, p)
      OBVIOUS
    <2> HIDE DEF g
    <2>2. \A s \in AskedStates, p \in 1 .. N : g[<<s, p>>] \in AskedStates
      BY <1>0, <2>1, AskedType
    <2>3. \E f : LoopTo(f, N, AskedStates, NoneAsked, g)
      BY <1>0, <1>1, <2>2, LoopExists
    <2>4. PICK f : /\ f \in [0 .. N -> AskedStates] /\ f[0] = NoneAsked
                   /\ \A p \in 1 .. N : f[p] = g[<<f[p - 1], p>>]
      BY <2>3 DEF LoopTo
    <2>5. \A p \in 0 .. N : f[p] = IF p = 0 THEN NoneAsked ELSE Asked(f[p - 1], p)
      <3> TAKE p \in 0 .. N
      <3>1. CASE p = 0
        BY <2>4, <3>1
      <3>2. CASE p # 0
        <4>1. p \in 1 .. N /\ p - 1 \in 0 .. N
          BY <1>0, <3>2
        <4>2. f[p - 1] \in AskedStates
          BY <2>4, <4>1
        <4> QED
          BY <2>1, <2>4, <3>2, <4>1, <4>2
      <3> QED
        BY <3>1, <3>2
    <2>6. Eq(f)
      BY <2>4, <2>5
    <2> HIDE DEF Eq
    <2> QED
      BY <2>6
  <1>3. AskedUpTo = CHOOSE f : Eq(f)
    BY DEF AskedUpTo, NoneAsked
  <1>4. Eq(AskedUpTo)
    <2> HIDE DEF Eq
    <2> QED
      BY <1>2, <1>3
  <1>5. /\ AskedUpTo[0] = NoneAsked
        /\ \A p \in 1 .. N : AskedUpTo[p] = Asked(AskedUpTo[p - 1], p)
    BY <1>0, <1>4
  <1> DEFINE A == {p \in 0 .. N : AskedUpTo[p] \in AskedStates}
  <1>6. \A p \in 0 .. N : p \in A
    <2>1. 0 \in A
      BY <1>0, <1>1, <1>5
    <2>2. ASSUME NEW p \in 1 .. N, p - 1 \in A
          PROVE  p \in A
      <3>1. AskedUpTo[p] \in AskedStates
        BY <1>0, <1>5, <2>2, AskedType
      <3> QED
        BY <1>0, <3>1
    <2> HIDE DEF A
    <2> QED
      BY <1>0, <2>1, <2>2, UpTo
  <1> QED
    BY <1>5, <1>6

\* What a plugin must be to stay.
Fit(p) == kind[p] # "failure" /\ (kind[p] = "noinit" \/ p \in compat)

\* Of the plugins asked so far the ones still loaded are fit, the first exclusive
\* one is remembered, and no more than one.
LEMMA AskedAreFit ==
    \A p \in 0 .. N :
        /\ \A q \in 1 .. p : q \in AskedUpTo[p].loaded => Fit(q)
        /\ \A q \in 1 .. p : kind[q] = "exclusive" => AskedUpTo[p].exclusive
        /\ \A q, r \in AskedUpTo[p].flagged : q = r
  <1> DEFINE Good(p) ==
        /\ \A q \in 1 .. p : q \in AskedUpTo[p].loaded => Fit(q)
        /\ \A q \in 1 .. p : kind[q] = "exclusive" => AskedUpTo[p].exclusive
        /\ \A q, r \in AskedUpTo[p].flagged : q = r
             A == {p \in 0 .. N : Good(p)}
  <1>0. N \in Nat /\ 0 \in 0 .. N
    BY WrapperAssumption
  <1>1. 0 \in A
    BY <1>0, AskedSteps DEF NoneAsked
  <1>2. ASSUME NEW p \in 1 .. N, p - 1 \in A
        PROVE  p \in A
    <2>0. p - 1 \in 0 .. N /\ p \in 0 .. N /\ \A q \in 1 .. p : q = p \/ q \in 1 .. p - 1
      BY <1>0
    <2>1. Good(p - 1)
      BY <1>2
    <2> DEFINE s == AskedUpTo[p - 1]
    <2>2. /\ AskedUpTo[p] = Asked(s, p) /\ s \in AskedStates
      BY <2>0, AskedSteps
    <2>3. /\ \A q \in 1 .. p - 1 : q \in s.loaded => Fit(q)
          /\ \A q \in 1 .. p - 1 : kind[q] = "exclusive" => s.exclusive
          /\ \A q, r \in s.flagged : q = r
      BY <2>1
    <2> HIDE DEF s
    <2>4. \A q \in 1 .. p : q \in Asked(s, p).loaded => Fit(q)
      <3>1. Asked(s, p).loaded \subseteq s.loaded
        BY DEF Asked
      <3>2. p \in Asked(s, p).loaded => Fit(p)
        BY DEF Asked, Fit
      <3> QED
        BY <2>0, <2>3, <3>1, <3>2
    <2>5. \A q \in 1 .. p : kind[q] = "exclusive" => Asked(s, p).exclusive
      <3>1. (s.exclusive \/ kind[p] = "exclusive") => Asked(s, p).exclusive
        BY DEF Asked
      <3> QED
        BY <2>0, <2>3, <3>1
    <2>6. \A q, r \in Asked(s, p).flagged : q = r
      <3>1. Asked(s, p).flagged = {p} \/ Asked(s, p).flagged = s.flagged
        BY DEF Asked
      <3> QED
        BY <2>3, <3>1
    <2>7. Good(p)
      BY <2>2, <2>4, <2>5, <2>6
    <2> HIDE DEF Good
    <2> QED
      BY <2>0, <2>7
  <1>3. \A p \in 0 .. N : p \in A
    <2> HIDE DEF A
    <2> QED
      BY <1>0, <1>1, <1>2, UpTo
  <1> QED
    BY <1>3

\* No plugin comes back while they are asked.
LEMMA AskedShrinks == \A p \in 0 .. N : AskedUpTo[N].loaded \subseteq AskedUpTo[p].loaded
  <1> DEFINE Good(k) == AskedUpTo[N].loaded \subseteq AskedUpTo[N - k].loaded
             A == {k \in 0 .. N : Good(k)}
  <1>0. N \in Nat /\ 0 \in 0 .. N /\ N - 0 = N
    BY WrapperAssumption
  <1>1. 0 \in A
    BY <1>0
  <1>2. ASSUME NEW k \in 1 .. N, k - 1 \in A
        PROVE  k \in A
    <2>1. PICK p \in 1 .. N : p = N - (k - 1) /\ N - k = p - 1 /\ k \in 0 .. N
      BY <1>0
    <2>2. AskedUpTo[p] = Asked(AskedUpTo[p - 1], p)
      BY AskedSteps
    <2>3. AskedUpTo[p].loaded \subseteq AskedUpTo[p - 1].loaded
      BY <2>2 DEF Asked
    <2>4. AskedUpTo[N].loaded \subseteq AskedUpTo[p].loaded
      BY <1>2, <2>1
    <2>5. Good(k)
      BY <2>1, <2>3, <2>4
    <2> HIDE DEF Good
    <2> QED
      BY <2>1, <2>5
  <1>3. \A k \in 0 .. N : k \in A
    <2> HIDE DEF A
    <2> QED
      BY <1>0, <1>1, <1>2, UpTo
  <1>4. ASSUME NEW p \in 0 .. N PROVE AskedUpTo[N].loaded \subseteq AskedUpTo[p].loaded
    <2>1. N - p \in 0 .. N /\ N - (N - p) = p
      BY <1>0
    <2>2. Good(N - p)
      BY <1>3, <2>1
    <2> QED
      BY <2>1, <2>2
  <1> QED
    BY <1>4

\* Every plugin that stays may, and an exclusive one is alone.
LEMMA KeptFit ==
    /\ Kept \subseteq AskedUpTo[N].loaded /\ Kept \subseteq Plugins /\ Alone \in 0 .. N
    /\ \A p \in Kept : Fit(p) /\ (kind[p] = "exclusive" => Kept = {p})
  <1>0. N \in Nat /\ N \in 0 .. N /\ Plugins = 1 .. N /\ Plugins \subseteq 0 .. N
    BY WrapperAssumption DEF Plugins
  <1> DEFINE s == AskedUpTo[N]
  <1>1. s \in AskedStates
    BY <1>0, AskedSteps
  <1>2. /\ \A q \in Plugins : q \in s.loaded => Fit(q)
        /\ \A q \in Plugins : kind[q] = "exclusive" => s.exclusive
        /\ \A q, r \in s.flagged : q = r
    BY <1>0, AskedAreFit
  <1>3. /\ Kept = IF s.exclusive THEN s.loaded \cap s.flagged ELSE s.loaded
        /\ Alone = IF s.exclusive /\ Kept # {} THEN CHOOSE p \in Kept : TRUE ELSE s.active
    BY DEF Kept, Alone
  <1> HIDE DEF s
  <1>4. Kept \subseteq s.loaded /\ Kept \subseteq Plugins /\ s.active \in 0 .. N
    BY <1>1, <1>3 DEF AskedStates
  <1>5. \A q \in Kept : Fit(q) /\ (kind[q] = "exclusive" => Kept = {q})
    BY <1>2, <1>3, <1>4
  <1>6. Kept # {} => (CHOOSE p \in Kept : TRUE) \in Kept
    OBVIOUS
  <1>7. Alone \in 0 .. N
    BY <1>0, <1>3, <1>4, <1>6
  <1> QED
    BY <1>4, <1>5, <1>7 DEF s
-----------------------------------------------------------------------------
\* The plugins that usb_find_busses chains, which it does when usb_init is not at
\* work: those that stayed.
Busses == Kept \cap hasBus

ChainStates == [first : Busses \cup {0}, last : Plugins \cup {0},
                nx : [Plugins -> Busses \cup {0}]]
NoneChained == [first |-> 0, last |-> 0, nx |-> next]

LEMMA ChainType ==
    ASSUME loaded = Kept, NEW s \in ChainStates, NEW p \in Plugins
    PROVE  Chain(s, p) \in ChainStates
  <1>1. CASE p \notin Busses \/ (s.first # 0 /\ s.last = 0)
    BY <1>1 DEF Chain, Busses
  <1>2. CASE p \in Busses /\ s.first = 0
    <2>1. Chain(s, p) = [first |-> p, last |-> EndOf(s.nx, p), nx |-> s.nx]
      BY <1>2 DEF Chain, Busses
    <2>2. EndOf(s.nx, p) \in Plugins \cup {0} /\ p \in Busses
      BY <1>2, EndOfType
    <2> QED
      BY <2>1, <2>2 DEF ChainStates
  <1>3. CASE p \in Busses /\ s.first # 0 /\ s.last # 0
    <2> DEFINE nx == [s.nx EXCEPT ![s.last] = p]
    <2>1. Chain(s, p) = [first |-> s.first, last |-> EndOf(nx, p), nx |-> nx]
      BY <1>3 DEF Chain, Busses
    <2>2. nx \in [Plugins -> Busses \cup {0}] /\ s.first \in Busses \cup {0}
      BY <1>3 DEF ChainStates
    <2> HIDE DEF nx
    <2>3. EndOf(nx, p) \in Plugins \cup {0}
      BY EndOfType
    <2> QED
      BY <2>1, <2>2, <2>3 DEF ChainStates
  <1> QED
    BY <1>1, <1>2, <1>3

LEMMA ChainSteps ==
    ASSUME loaded = Kept, next \in [Plugins -> Busses \cup {0}]
    PROVE  /\ ChainedUpTo[0] = NoneChained
           /\ \A p \in 1 .. N : ChainedUpTo[p] = Chain(ChainedUpTo[p - 1], p)
           /\ \A p \in 0 .. N : ChainedUpTo[p] \in ChainStates
  <1>0. N \in Nat /\ 0 \in 0 .. N /\ Plugins = 1 .. N
    BY WrapperAssumption DEF Plugins
  <1>1. NoneChained \in ChainStates
    BY DEF NoneChained, ChainStates
  <1> DEFINE Eq(f) == f = [p \in 0 .. N |-> IF p = 0 THEN NoneChained ELSE Chain(f[p - 1], p)]
  <1>2. \E f : Eq(f)
    <2> DEFINE g == [x \in ChainStates \X (1 .. N) |-> Chain(x[1], x[2])]
    <2>1. \A s \in ChainStates, p \in 1 .. N : g[<<s, p>>] = Chain(s, p)
      OBVIOUS
    <2> HIDE DEF g
    <2>2. \A s \in ChainStates, p \in 1 .. N : g[<<s, p>>] \in ChainStates
      BY <1>0, <2>1, ChainType
    <2>3. \E f : LoopTo(f, N, ChainStates, NoneChained, g)
      BY <1>0, <1>1, <2>2, LoopExists
    <2>4. PICK f : /\ f \in [0 .. N -> ChainStates] /\ f[0] = NoneChained
                   /\ \A p \in 1 .. N : f[p] = g[<<f[p - 1], p>>]
      BY <2>3 DEF LoopTo
    <2>5. \A p \in 0 .. N : f[p] = IF p = 0 THEN NoneChained ELSE Chain(f[p - 1], p)
      <3> TAKE p \in 0 .. N
      <3>1. CASE p = 0
        BY <2>4, <3>1
      <3>2. CASE p # 0
        <4>1. p \in 1 .. N /\ p - 1 \in 0 .. N
          BY <1>0, <3>2
        <4>2. f[p - 1] \in ChainStates
          BY <2>4, <4>1
        <4> QED
          BY <2>1, <2>4, <3>2, <4>1, <4>2
      <3> QED
        BY <3>1, <3>2
    <2>6. Eq(f)
      BY <2>4, <2>5
    <2> HIDE DEF Eq
    <2> QED
      BY <2>6
  <1>3. ChainedUpTo = CHOOSE f : Eq(f)
    BY DEF ChainedUpTo, NoneChained
  <1>4. Eq(ChainedUpTo)
    <2> HIDE DEF Eq
    <2> QED
      BY <1>2, <1>3
  <1>5. /\ ChainedUpTo[0] = NoneChained
        /\ \A p \in 1 .. N : ChainedUpTo[p] = Chain(ChainedUpTo[p - 1], p)
    BY <1>0, <1>4
  <1> DEFINE A == {p \in 0 .. N : ChainedUpTo[p] \in ChainStates}
  <1>6. \A p \in 0 .. N : p \in A
    <2>1. 0 \in A
      BY <1>0, <1>1, <1>5
    <2>2. ASSUME NEW p \in 1 .. N, p - 1 \in A
          PROVE  p \in A
      <3>1. ChainedUpTo[p] \in ChainStates
        BY <1>0, <1>5, <2>2, ChainType
      <3> QED
        BY <1>0, <3>1
    <2> HIDE DEF A
    <2> QED
      BY <1>0, <2>1, <2>2, UpTo
  <1> QED
    BY <1>5, <1>6

\* As long as there is no first bus nothing was hung on anything.
LEMMA ChainNothing ==
    ASSUME loaded = Kept, next \in [Plugins -> Busses \cup {0}]
    PROVE  \A p \in 0 .. N : ChainedUpTo[p].first = 0 =>
              ChainedUpTo[p].nx = next /\ \A q \in 1 .. p : q \notin Busses
  <1> DEFINE Good(p) == ChainedUpTo[p].first = 0 =>
                 ChainedUpTo[p].nx = next /\ \A q \in 1 .. p : q \notin Busses
             A == {p \in 0 .. N : Good(p)}
  <1>0. N \in Nat /\ 0 \in 0 .. N
    BY WrapperAssumption
  <1>1. 0 \in A
    BY <1>0, ChainSteps DEF NoneChained
  <1>2. ASSUME NEW p \in 1 .. N, p - 1 \in A
        PROVE  p \in A
    <2>0. /\ p - 1 \in 0 .. N /\ p \in 0 .. N /\ p # 0
          /\ \A q \in 1 .. p : q = p \/ q \in 1 .. p - 1
      BY <1>0
    <2> DEFINE s == ChainedUpTo[p - 1]
    <2>1. ChainedUpTo[p] = Chain(s, p)
      BY <2>0, ChainSteps
    <2>2. s.first = 0 => s.nx = next /\ \A q \in 1 .. p - 1 : q \notin Busses
      BY <1>2
    <2> HIDE DEF s
    <2>3. ASSUME Chain(s, p).first = 0
          PROVE  Chain(s, p) = s /\ p \notin Busses
      BY <2>0, <2>3 DEF Chain, Busses
    <2>4. Good(p)
      BY <2>0, <2>1, <2>2, <2>3
    <2> HIDE DEF Good
    <2> QED
      BY <2>0, <2>4
  <1>3. \A p \in 0 .. N : p \in A
    <2> HIDE DEF A
    <2> QED
      BY <1>0, <1>1, <1>2, UpTo
  <1> QED
    BY <1>3

\* There is another plugin with busses.
TwoBusses == \E p, q \in Busses : p # q

\* The chain while its end is the last plugin with busses so far: nothing hangs on
\* a later one, and nothing at all while there is only one.
Ended(s, p) ==
    /\ s.first \in Busses /\ s.last \in Busses /\ s.last \in 1 .. p
    /\ \A q \in Plugins : q >= s.last => s.nx[q] = 0
    /\ s.nx = next \/ TwoBusses

\* Where nothing hangs on anything yet, the walks to the end come to one.
LEMMA FreshChain ==
    ASSUME loaded = Kept, loaded \subseteq Plugins,
           next \in [Plugins -> Busses \cup {0}], \A q \in Plugins : next[q] = 0
    PROVE  \A p \in 0 .. N : ChainedUpTo[p].first # 0 => Ended(ChainedUpTo[p], p)
  <1> DEFINE Good(p) == ChainedUpTo[p].first # 0 => Ended(ChainedUpTo[p], p)
             A == {p \in 0 .. N : Good(p)}
  <1>0. N \in Nat /\ 0 \in 0 .. N /\ Plugins = 1 .. N /\ Busses \subseteq Plugins
    <2>1. N \in Nat /\ 0 \in 0 .. N /\ Plugins = 1 .. N
      BY WrapperAssumption DEF Plugins
    <2> QED
      BY <2>1 DEF Busses
  <1>1. 0 \in A
    BY <1>0, ChainSteps DEF NoneChained
  <1>2. ASSUME NEW p \in 1 .. N, p - 1 \in A
        PROVE  p \in A
    <2>0. /\ p - 1 \in 0 .. N /\ p \in 0 .. N /\ p \in Nat /\ p # 0 /\ p \in Plugins
          /\ \A q \in 1 .. p - 1 : q \in 1 .. p /\ q # p /\ q < p /\ q # 0
      BY <1>0
    <2> DEFINE s == ChainedUpTo[p - 1]
    <2>1. ChainedUpTo[p] = Chain(s, p) /\ s \in ChainStates
      BY <2>0, ChainSteps
    <2>2. s.first # 0 => Ended(s, p - 1)
      BY <1>2
    <2>3. s.first = 0 => s.nx = next
      BY <2>0, ChainNothing
    <2> HIDE DEF s
    <2>4. CASE p \notin Busses
      <3>1. Chain(s, p) = s
        BY <2>4 DEF Chain, Busses
      <3>2. s.first # 0 => Ended(s, p)
        BY <2>0, <2>2 DEF Ended
      <3>3. Good(p)
        BY <2>1, <3>1, <3>2
      <3> QED
        BY <2>0, <3>3
    <2>5. CASE p \in Busses /\ s.first = 0
      <3>1. Chain(s, p) = [first |-> p, last |-> EndOf(s.nx, p), nx |-> s.nx]
        BY <2>5 DEF Chain, Busses
      <3>2. s.nx = next /\ EndOf(s.nx, p) = p
        BY <2>0, <2>3, <2>5, EndOfLast
      <3>3. Ended(Chain(s, p), p)
        BY <2>0, <2>5, <3>1, <3>2 DEF Ended
      <3>4. Good(p)
        BY <2>1, <3>3
      <3> QED
        BY <2>0, <3>4
    <2>6. CASE p \in Busses /\ s.first # 0
      <3> DEFINE nx == [s.nx EXCEPT ![s.last] = p]
      <3>0. /\ Ended(s, p - 1) /\ s.last \in 1 .. p - 1 /\ s.last \in Busses
            /\ s.last # 0 /\ s.last < p /\ s.last \in Nat
        <4>1. Ended(s, p - 1) /\ s.last \in 1 .. p - 1 /\ s.last \in Busses
          BY <2>2, <2>6 DEF Ended
        <4>2. \A q \in 1 .. p - 1 : q # 0 /\ q < p /\ q \in Nat
          BY <2>0
        <4> QED
          BY <4>1, <4>2
      <3>1. Chain(s, p) = [first |-> s.first, last |-> EndOf(nx, p), nx |-> nx]
        BY <2>6, <3>0 DEF Chain, Busses
      <3>2. \A q \in Plugins : q >= p => nx[q] = 0
        <4> TAKE q \in Plugins
        <4>1. q \in Nat
          BY <1>0
        <4>2. q >= p => s.nx[q] = 0 /\ q # s.last
          BY <2>0, <3>0, <4>1 DEF Ended
        <4>3. s.nx \in [Plugins -> Busses \cup {0}]
          BY <2>1 DEF ChainStates
        <4> QED
          BY <4>2, <4>3
      <3> HIDE DEF nx
      <3>3. EndOf(nx, p) = p
        <4>1. nx[p] = 0
          BY <2>0, <3>2
        <4> QED
          BY <2>0, <4>1, EndOfLast
      <3>4. TwoBusses
        BY <2>0, <2>6, <3>0 DEF TwoBusses
      <3>5. Ended(Chain(s, p), p)
        <4>1. PICK c : c = Chain(s, p)
          OBVIOUS
        <4>2. c.first = s.first /\ c.last = p /\ c.nx = nx
          BY <3>1, <3>3, <4>1
        <4>3. s.first \in Busses /\ p \in Busses /\ p \in 1 .. p
          BY <2>0, <2>6, <3>0 DEF Ended
        <4> QED
          BY <3>2, <3>4, <4>1, <4>2, <4>3 DEF Ended
      <3>6. Good(p)
        BY <2>1, <3>5
      <3> QED
        BY <2>0, <3>6
    <2> QED
      BY <2>4, <2>5, <2>6
  <1>3. \A p \in 0 .. N : p \in A
    <2> HIDE DEF A
    <2> QED
      BY <1>0, <1>1, <1>2, UpTo
  <1> QED
    BY <1>3
\* The first bus is of a plugin that was reached.
LEMMA ChainBefore ==
    ASSUME loaded = Kept, next \in [Plugins -> Busses \cup {0}]
    PROVE  \A p \in 0 .. N : ChainedUpTo[p].first # 0 => ChainedUpTo[p].first \in 1 .. p
  <1> DEFINE Good(p) == ChainedUpTo[p].first # 0 => ChainedUpTo[p].first \in 1 .. p
             A == {p \in 0 .. N : Good(p)}
  <1>0. N \in Nat /\ 0 \in 0 .. N
    BY WrapperAssumption
  <1>1. 0 \in A
    BY <1>0, ChainSteps DEF NoneChained
  <1>2. ASSUME NEW p \in 1 .. N, p - 1 \in A
        PROVE  p \in A
    <2>0. p - 1 \in 0 .. N /\ p \in 0 .. N /\ p \in 1 .. p /\ \A q \in 1 .. p - 1 : q \in 1 .. p
      BY <1>0
    <2> DEFINE s == ChainedUpTo[p - 1]
    <2>1. ChainedUpTo[p] = Chain(s, p)
      BY <2>0, ChainSteps
    <2>2. s.first # 0 => s.first \in 1 .. p - 1
      BY <1>2
    <2> HIDE DEF s
    <2>3. Chain(s, p).first = s.first \/ Chain(s, p).first = p
      BY DEF Chain
    <2>4. Good(p)
      BY <2>0, <2>1, <2>2, <2>3
    <2> HIDE DEF Good
    <2> QED
      BY <2>0, <2>4
  <1>3. \A p \in 0 .. N : p \in A
    <2> HIDE DEF A
    <2> QED
      BY <1>0, <1>1, <1>2, UpTo
  <1> QED
    BY <1>3

\* Only ends of chains are hung on anything, and the first bus is of the first
\* plugin that has one.
KeptFrom(s, p) ==
    /\ s.last # 0 => s.nx[s.last] = 0
    /\ \A q \in Plugins : next[q] # 0 => s.nx[q] = next[q]
    /\ s.first # 0 => \A q \in 1 .. p : q \in Busses => q >= s.first

LEMMA ChainKeeps ==
    ASSUME loaded = Kept, loaded \subseteq Plugins, next \in [Plugins -> Busses \cup {0}]
    PROVE  \A p \in 0 .. N : KeptFrom(ChainedUpTo[p], p)
  <1> DEFINE A == {p \in 0 .. N : KeptFrom(ChainedUpTo[p], p)}
  <1>0. N \in Nat /\ 0 \in 0 .. N /\ Plugins = 1 .. N /\ Busses \subseteq Plugins
    <2>1. N \in Nat /\ 0 \in 0 .. N /\ Plugins = 1 .. N
      BY WrapperAssumption DEF Plugins
    <2> QED
      BY <2>1 DEF Busses
  <1>1. 0 \in A
    BY <1>0, ChainSteps DEF NoneChained, KeptFrom
  <1>e. ASSUME NEW nx, NEW p, EndOf(nx, p) # 0
        PROVE  nx[EndOf(nx, p)] = 0
    <2> DEFINE ends == {q \in Plugins : nx[q] = 0 /\ \E k \in 0 .. N : ReachedIn(nx, p, k) = q}
    <2>1. EndOf(nx, p) = IF ends = {} THEN 0 ELSE CHOOSE q \in ends : TRUE
      BY DEF EndOf
    <2>2. ends # {} => (CHOOSE q \in ends : TRUE) \in ends
      <3> HIDE DEF ends
      <3> QED
        OBVIOUS
    <2>3. EndOf(nx, p) \in ends
      BY <1>e, <2>1, <2>2
    <2> QED
      BY <2>3
  <1>2. ASSUME NEW p \in 1 .. N, p - 1 \in A
        PROVE  p \in A
    <2>0. /\ p - 1 \in 0 .. N /\ p \in 0 .. N /\ p \in Nat /\ p # 0 /\ p \in Plugins
          /\ \A q \in 1 .. p : q \in Nat /\ (q = p \/ q \in 1 .. p - 1)
      BY <1>0
    <2> DEFINE s == ChainedUpTo[p - 1]
    <2>1. ChainedUpTo[p] = Chain(s, p) /\ s \in ChainStates
      BY <2>0, ChainSteps
    <2>2. KeptFrom(s, p - 1)
      BY <1>2
    <2>3. s.first = 0 => \A q \in 1 .. p - 1 : q \notin Busses
      BY <2>0, ChainNothing
    <2>4. s.first # 0 => s.first \in 1 .. p - 1
      BY <2>0, ChainBefore
    <2> HIDE DEF s
    <2>5. s.first # 0 => \A q \in 1 .. p : q \in Busses => q >= s.first
      BY <2>0, <2>2, <2>4 DEF KeptFrom
    <2>6. CASE p \notin Busses \/ (s.first # 0 /\ s.last = 0)
      <3>1. Chain(s, p) = s
        BY <2>6 DEF Chain, Busses
      <3>2. KeptFrom(s, p)
        BY <2>2, <2>5 DEF KeptFrom
      <3> QED
        BY <2>0, <2>1, <3>1, <3>2
    <2>7. CASE p \in Busses /\ s.first = 0
      <3>1. Chain(s, p) = [first |-> p, last |-> EndOf(s.nx, p), nx |-> s.nx]
        BY <2>7 DEF Chain, Busses
      <3>2. \A q \in 1 .. p : q \in Busses => q >= p
        BY <2>0, <2>3, <2>7
      <3>3. KeptFrom(Chain(s, p), p)
        BY <1>e, <2>2, <3>1, <3>2 DEF KeptFrom
      <3> QED
        BY <2>0, <2>1, <3>3
    <2>8. CASE p \in Busses /\ s.first # 0 /\ s.last # 0
      <3> DEFINE nx == [s.nx EXCEPT ![s.last] = p]
      <3>1. Chain(s, p) = [first |-> s.first, last |-> EndOf(nx, p), nx |-> nx]
        BY <2>8 DEF Chain, Busses
      <3>2. \A q \in Plugins : next[q] # 0 => nx[q] = next[q]
        <4> TAKE q \in Plugins
        <4>1. next[q] # 0 => s.nx[q] = next[q] /\ q # s.last
          BY <2>2, <2>8 DEF KeptFrom
        <4>2. s.nx \in [Plugins -> Busses \cup {0}]
          BY <2>1 DEF ChainStates
        <4> QED
          BY <4>1, <4>2
      <3> HIDE DEF nx
      <3>3. KeptFrom(Chain(s, p), p)
        BY <1>e, <2>5, <2>8, <3>1, <3>2 DEF KeptFrom
      <3> QED
        BY <2>0, <2>1, <3>3
    <2> QED
      BY <2>6, <2>7, <2>8
  <1>3. \A p \in 0 .. N : p \in A
    <2> HIDE DEF A
    <2> QED
      BY <1>0, <1>1, <1>2, UpTo
  <1> QED
    BY <1>3

\* Every bus of a plugin up to p is reached from the first within n steps.
Reaches(nx, first, b, n) == \E k \in 0 .. n : ReachedIn(nx, first, k) = b

\* Where nothing hangs on anything yet, every bus is hung on the one before it.
LEMMA FreshLinks ==
    ASSUME loaded = Kept, loaded \subseteq Plugins,
           next \in [Plugins -> Busses \cup {0}], \A q \in Plugins : next[q] = 0
    PROVE  \A p \in 0 .. N : ChainedUpTo[p].first # 0 =>
              \A b \in 1 .. p : b \in Busses =>
                 Reaches(ChainedUpTo[p].nx, ChainedUpTo[p].first, b, p)
  <1> DEFINE Good(p) == ChainedUpTo[p].first # 0 =>
                           \A b \in 1 .. p : b \in Busses =>
                              Reaches(ChainedUpTo[p].nx, ChainedUpTo[p].first, b, p)
             A == {p \in 0 .. N : Good(p)}
             C == Busses \cup {0}
  <1>0. N \in Nat /\ 0 \in 0 .. N /\ Plugins = 1 .. N /\ Busses \subseteq Plugins /\ 0 \in C
    <2>1. N \in Nat /\ 0 \in 0 .. N /\ Plugins = 1 .. N
      BY WrapperAssumption DEF Plugins
    <2> QED
      BY <2>1 DEF Busses
  <1>1. 0 \in A
    BY <1>0, ChainSteps DEF NoneChained
  <1>2. ASSUME NEW p \in 1 .. N, p - 1 \in A
        PROVE  p \in A
    <2>0. /\ p - 1 \in 0 .. N /\ p \in 0 .. N /\ p \in Nat /\ p # 0 /\ p \in Plugins
          /\ \A q \in 1 .. p : q # 0 /\ (q = p \/ q \in 1 .. p - 1)
          /\ \A k \in 0 .. p - 1 : k \in Nat /\ k \in 0 .. p /\ k + 1 \in 0 .. p
          /\ 0 \in 0 .. p /\ 0 \in Nat
      BY <1>0
    <2> DEFINE s == ChainedUpTo[p - 1]
    <2>1. ChainedUpTo[p] = Chain(s, p) /\ s \in ChainStates
      BY <2>0, ChainSteps
    <2>2. s.first # 0 => /\ Ended(s, p - 1)
                         /\ \A b \in 1 .. p - 1 : b \in Busses => Reaches(s.nx, s.first, b, p - 1)
      BY <1>2, <2>0, FreshChain
    <2>3. s.first = 0 => \A q \in 1 .. p - 1 : q \notin Busses
      BY <2>0, ChainNothing
    <2> HIDE DEF s
    <2>4. s.nx \in [Plugins -> C] /\ s.first \in C
      BY <2>1 DEF ChainStates
    <2>5. CASE p \notin Busses
      <3>1. Chain(s, p) = s
        BY <2>5 DEF Chain, Busses
      <3>2. s.first # 0 => \A b \in 1 .. p : b \in Busses => Reaches(s.nx, s.first, b, p)
        BY <2>0, <2>2, <2>5 DEF Reaches
      <3>3. Good(p)
        BY <2>1, <3>1, <3>2
      <3> QED
        BY <2>0, <3>3
    <2>6. CASE p \in Busses /\ s.first = 0
      <3>1. Chain(s, p) = [first |-> p, last |-> EndOf(s.nx, p), nx |-> s.nx]
        BY <2>6 DEF Chain, Busses
      <3>2. ReachedIn(s.nx, p, 0) = p
        <4>1. p \in C /\ \A q \in C : q # 0 => s.nx[q] \in C
          BY <1>0, <2>4, <2>6
        <4> HIDE DEF C
        <4> QED
          BY <1>0, <2>0, <4>1, WalkStep
      <3>3. \A b \in 1 .. p : b \in Busses => Reaches(s.nx, p, b, p)
        BY <2>0, <2>3, <2>6, <3>2 DEF Reaches
      <3>4. Good(p)
        BY <2>1, <3>1, <3>3
      <3> QED
        BY <2>0, <3>4
    <2>7. CASE p \in Busses /\ s.first # 0
      <3> DEFINE nx == [s.nx EXCEPT ![s.last] = p]
      <3>0. /\ s.last \in 1 .. p - 1 /\ s.last \in Busses /\ s.nx[s.last] = 0 /\ s.last # 0
        <4>1. Ended(s, p - 1) /\ s.last \in 1 .. p - 1 /\ s.last \in Busses
          BY <2>2, <2>7 DEF Ended
        <4>2. \A q \in 1 .. p - 1 : q # 0 /\ q \in Nat /\ q >= q
          BY <2>0
        <4>3. s.last \in Plugins
          BY <1>0, <4>1
        <4>4. s.last # 0 /\ s.last >= s.last
          BY <4>1, <4>2
        <4> QED
          BY <4>1, <4>3, <4>4 DEF Ended
      <3>1. Chain(s, p) = [first |-> s.first, last |-> EndOf(nx, p), nx |-> nx]
        BY <2>7, <3>0 DEF Chain, Busses
      <3>2. /\ \A q \in C : q # 0 => s.nx[q] \in C /\ nx[q] \in C
            /\ \A q \in C : q # 0 => nx[q] \in C
            /\ \A q \in C : q # 0 /\ s.nx[q] # 0 => nx[q] = s.nx[q]
            /\ nx[s.last] = p
        BY <1>0, <2>4, <2>7, <3>0
      <3> HIDE DEF nx, C
      <3>3. ASSUME NEW k \in Nat, ReachedIn(s.nx, s.first, k) # 0
            PROVE  ReachedIn(nx, s.first, k) = ReachedIn(s.nx, s.first, k)
        BY <1>0, <2>4, <3>2, <3>3, WalkKept
      <3>b. ASSUME NEW k \in Nat
            PROVE  ReachedIn(nx, s.first, k + 1) = Hop(nx, ReachedIn(nx, s.first, k))
        <4>1. 0 \in C /\ s.first \in C /\ \A q \in C : q # 0 => nx[q] \in C
          BY <1>0, <2>4, <3>2
        <4>2. PICK m, D, f : m = nx /\ D = C /\ f = s.first
          OBVIOUS
        <4>3. 0 \in D /\ f \in D /\ \A q \in D : q # 0 => m[q] \in D
          BY <4>1, <4>2
        <4>4. ReachedIn(m, f, k + 1) = Hop(m, ReachedIn(m, f, k))
          BY <4>3, WalkStep
        <4> QED
          BY <4>2, <4>4
      <3>4. \A b \in 1 .. p - 1 : b \in Busses => Reaches(nx, s.first, b, p)
        <4> SUFFICES ASSUME NEW b \in 1 .. p - 1, b \in Busses
                     PROVE  Reaches(nx, s.first, b, p)
          OBVIOUS
        <4>1. PICK k \in 0 .. p - 1 : ReachedIn(s.nx, s.first, k) = b
          BY <2>2, <2>7 DEF Reaches
        <4>2. b # 0 /\ k \in Nat /\ k \in 0 .. p
          BY <2>0, <1>0
        <4>3. ReachedIn(nx, s.first, k) = b
          BY <3>3, <4>1, <4>2
        <4> QED
          BY <4>2, <4>3 DEF Reaches
      <3>5. Reaches(nx, s.first, p, p)
        <4>1. PICK k \in 0 .. p - 1 : ReachedIn(s.nx, s.first, k) = s.last
          BY <2>2, <2>7, <3>0 DEF Reaches
        <4>2. k \in Nat /\ k + 1 \in 0 .. p
          BY <2>0
        <4>3. ReachedIn(nx, s.first, k) = s.last
          BY <3>0, <3>3, <4>1, <4>2
        <4>4. ReachedIn(nx, s.first, k + 1) = Hop(nx, ReachedIn(nx, s.first, k))
          BY <3>b, <4>2
        <4>5. ReachedIn(nx, s.first, k + 1) = p
          BY <3>0, <3>2, <4>3, <4>4 DEF Hop
        <4> QED
          BY <4>2, <4>5 DEF Reaches
      <3>6. \A b \in 1 .. p : b \in Busses => Reaches(nx, s.first, b, p)
        BY <2>0, <3>4, <3>5
      <3>7. Good(p)
        BY <2>1, <3>1, <3>6
      <3> QED
        BY <2>0, <3>7
    <2> QED
      BY <2>5, <2>6, <2>7
  <1>3. \A p \in 0 .. N : p \in A
    <2> HIDE DEF A
    <2> QED
      BY <1>0, <1>1, <1>2, UpTo
  <1> QED
    BY <1>3
-----------------------------------------------------------------------------
\* The inductive invariant.  What the walks along the chain depend on: a bus is
\* hung on another only where both are of plugins that stay, ...
NothingHangs == \A p \in Plugins : next[p] = 0
BTyped ==
    /\ Configured
    /\ loaded \subseteq Plugins /\ ready \subseteq loaded \cap Kept
    /\ active \in 0 .. N /\ asked \in 0 .. N
    /\ head \in Busses \cup {0} /\ busses \in Busses \cup {0}
    /\ next \in [Plugins -> Busses \cup {0}]
    /\ to \in [Threads -> 0 .. N]
    /\ op \in [Threads -> {"none", "open", "call", "close"}]
    /\ lock \in Threads \cup {None} /\ finds \in 0 .. MaxFinds

\* ... nothing hangs on anything before the first find, or where only one plugin
\* has busses, and whoever goes round without end was not the first.
Chained ==
    /\ busses = 0 => NothingHangs
    /\ finds = 0 => busses = 0
    /\ NothingHangs \/ TwoBusses
    /\ Endless => finds > 1 /\ busses # 0 /\ TwoBusses

\* From the first bus, that of the first plugin that has one, all are reached.
Linked == busses # 0 => \A b \in Busses : b >= busses /\ Reaches(next, busses, b, N)

BInv == BTyped /\ Chained /\ Linked

LEMMA BInit == Init => BInv
  <1> SUFFICES ASSUME Init PROVE BInv
    OBVIOUS
  <1>0. N \in Nat /\ MaxFinds \in Nat /\ 0 \in 0 .. N /\ 0 \in 0 .. MaxFinds
    BY WrapperAssumption
  <1>1. BTyped
    BY <1>0 DEF Init, BTyped, Configured
  <1>3. NothingHangs /\ ~Endless
    BY DEF Init, NothingHangs, Endless
  <1> QED
    BY <1>1, <1>3 DEF Init, BInv, Chained, Linked

\* A step that leaves the busses as they are.
LEMMA BStays ==
    ASSUME BInv, UNCHANGED <<confVars, busses, next, finds>>,
           loaded' \subseteq Plugins, ready' \subseteq loaded' \cap Kept,
           active' \in 0 .. N, asked' \in 0 .. N, head' \in {head, 0},
           lock' \in Threads \cup {None},
           \A t \in Threads : pc'[t] = "linking" => pc[t] = "linking",
           to' \in [Threads -> 0 .. N],
           op' \in [Threads -> {"none", "open", "call", "close"}]
    PROVE  BInv'
  <1>0. Kept' = Kept /\ Busses' = Busses
    <2>1. Kept' = Kept /\ hasBus' = hasBus
      BY AnswersSame DEF confVars
    <2> QED
      BY <2>1 DEF Busses
  <1>1. BTyped'
    BY <1>0 DEF BInv, BTyped, Configured, confVars
  <1>2. /\ NothingHangs' = NothingHangs /\ TwoBusses' = TwoBusses /\ (Endless' => Endless)
    BY <1>0 DEF NothingHangs, TwoBusses, Endless
  <1>3. Chained'
    BY <1>2 DEF BInv, Chained
  <1>4. Linked'
    BY <1>0 DEF BInv, Linked, Reaches, ReachedIn
  <1> QED
    BY <1>1, <1>3, <1>4 DEF BInv

\* The steps of usb_init: what they leave of the plugins was there before.
LEMMA BUsbInit ==
    ASSUME BInv, Typed, NEW t \in Threads,
           UsbInit(t) \/ InitLoad(t) \/ InitAsk(t) \/ InitReady(t)
    PROVE  BInv'
  <1>0. /\ N \in Nat /\ N \in 0 .. N /\ 0 \in 0 .. N
        /\ pc \in [Threads -> Wheres] /\ to \in [Threads -> 0 .. N]
        /\ op \in [Threads -> {"none", "open", "call", "close"}]
        /\ lock \in Threads \cup {None} /\ loaded \subseteq Plugins
        /\ ready \subseteq loaded \cap Kept
        /\ active \in 0 .. N /\ asked \in 0 .. N
    BY WrapperAssumption DEF BInv, BTyped, Typed
  <1>1. CASE UsbInit(t)
    <2>1. /\ UNCHANGED <<confVars, busses, next, finds, loaded, ready, active, asked, head,
                         lock, to, op>>
          /\ pc' = [pc EXCEPT ![t] = "initing"]
      BY <1>1 DEF UsbInit, Goes, initVars, busVars
    <2>2. \A u \in Threads : pc'[u] = "linking" => pc[u] = "linking"
      BY <1>0, <2>1
    <2> QED
      BY <1>0, <2>1, <2>2, BStays
  <1>2. CASE InitLoad(t)
    <2>1. /\ UNCHANGED <<confVars, busses, next, finds, ready, to, op>>
          /\ loaded' = Plugins /\ active' = 0 /\ asked' = 0 /\ head' = 0 /\ lock' = t
          /\ pc' = [pc EXCEPT ![t] = "asking"]
      BY <1>2 DEF InitLoad, Goes
    <2>2. \A u \in Threads : pc'[u] = "linking" => pc[u] = "linking"
      BY <1>0, <2>1
    <2>3. ready' \subseteq loaded' \cap Kept
      BY <1>0, <2>1
    <2> QED
      BY <1>0, <2>1, <2>2, <2>3, BStays
  <1>3. CASE InitAsk(t)
    <2>1. /\ UNCHANGED <<confVars, busses, next, finds, ready, head, lock, pc, to, op>>
          /\ asked < N /\ asked' = asked + 1
          /\ loaded' = AskedUpTo[asked + 1].loaded /\ active' = AskedUpTo[asked + 1].active
      BY <1>3 DEF InitAsk, busVars, callVars
    <2>2. asked + 1 \in 0 .. N
      BY <1>0, <2>1
    <2>3. loaded' \subseteq Plugins /\ active' \in 0 .. N /\ Kept \subseteq loaded'
      BY <2>1, <2>2, AskedSteps, AskedShrinks, KeptFit DEF AskedStates
    <2> QED
      BY <1>0, <2>1, <2>2, <2>3, BStays
  <1>4. CASE InitReady(t)
    <2>1. /\ UNCHANGED <<confVars, busses, next, finds, asked, head>>
          /\ loaded' = Kept /\ active' = Alone /\ ready' \subseteq Kept /\ lock' = None
          /\ Returns(t)
      BY <1>4 DEF InitReady, busVars
    <2>2. /\ \A u \in Threads : pc'[u] = "linking" => pc[u] = "linking"
          /\ to' \in [Threads -> 0 .. N]
          /\ op' \in [Threads -> {"none", "open", "call", "close"}]
      BY <1>0, <2>1 DEF Returns, Goes
    <2>3. loaded' \subseteq Plugins /\ active' \in 0 .. N
      BY <2>1, KeptFit
    <2> QED
      BY <1>0, <2>1, <2>2, <2>3, BStays
  <1> QED
    BY <1>1, <1>2, <1>3, <1>4

LEMMA BFindBusses ==
    ASSUME BInv, Typed, OnceFound, NEW t \in Threads, FindBusses(t)
    PROVE  BInv'
  <1> DEFINE s == ChainedUpTo[N]
             ended == s.first = 0 \/ s.last # 0
  <1>0. N \in 0 .. N /\ next \in [Plugins -> Busses \cup {0}] /\ loaded \subseteq Plugins
        /\ finds \in Nat /\ MaxFinds \in Nat /\ Plugins = 1 .. N
    BY WrapperAssumption DEF BInv, BTyped, Plugins
  <1>1. /\ lock = None /\ finds' = finds + 1 /\ finds < MaxFinds /\ loaded # {}
        /\ next' = s.nx /\ head' = IF s.first = 0 THEN head ELSE s.first
        /\ busses' = IF ended THEN head' ELSE busses
        /\ ended => UNCHANGED <<lock, pc>>
        /\ ~ended => lock' = t /\ pc' = [pc EXCEPT ![t] = "linking"]
        /\ UNCHANGED <<kind, compat, hasBus, loaded, ready, active, asked, to, op>>
    BY DEF FindBusses, Unlocked, Goes, confVars, initVars
  <1>b. /\ \A u \in Threads : pc[u] \notin {"asking", "linking"}
        /\ loaded = Kept
    <2>1. \A u \in Threads : pc[u] \notin {"asking", "linking"}
      BY <1>1, NoneApart DEF OnceFound, Holding
    <2> QED
      BY <1>1, <2>1 DEF OnceFound, Settled, AtWork
  <1>2. s \in ChainStates /\ (s.first = 0 => s.nx = next)
    BY <1>0, <1>b, ChainSteps, ChainNothing
  <1>3. NothingHangs /\ s.first # 0 => Ended(s, N)
    BY <1>0, <1>b, FreshChain DEF NothingHangs
  <1>a. /\ s.first = 0 => \A b \in Plugins : b \notin Busses
        /\ s.first # 0 => \A b \in Plugins : b \in Busses => b >= s.first
        /\ \A q \in Plugins : next[q] # 0 => s.nx[q] = next[q]
        /\ NothingHangs /\ s.first # 0 =>
              \A b \in Plugins : b \in Busses => Reaches(s.nx, s.first, b, N)
    BY <1>0, <1>b, ChainNothing, ChainKeeps, FreshLinks DEF KeptFrom, NothingHangs
  <1> HIDE DEF s
  <1>4. Kept' = Kept /\ Busses' = Busses /\ (TwoBusses' <=> TwoBusses)
    <2>1. Kept' = Kept
      BY <1>1, AnswersSame
    <2> QED
      BY <1>1, <2>1 DEF Busses, TwoBusses
  <1>c. /\ Busses \subseteq Plugins /\ \A b \in Busses : b # 0 /\ b \in Nat
        /\ head \in Busses \cup {0} /\ busses \in Busses \cup {0}
        /\ s.first \in Busses \cup {0}
        /\ s.nx \in [Plugins -> Busses \cup {0}]
    <2>1. Busses \subseteq Plugins
      BY <1>0, <1>b DEF Busses
    <2>2. head \in Busses \cup {0} /\ busses \in Busses \cup {0}
      BY DEF BInv, BTyped
    <2>3. s.first \in Busses \cup {0} /\ s.nx \in [Plugins -> Busses \cup {0}]
      BY <1>2 DEF ChainStates
    <2> QED
      BY <1>0, <2>1, <2>2, <2>3
  <1>5. BTyped'
    <2>1. /\ next' \in [Plugins -> Busses' \cup {0}] /\ head' \in Busses' \cup {0}
          /\ busses' \in Busses' \cup {0}
      BY <1>1, <1>4, <1>c
    <2>2. lock' \in Threads \cup {None} /\ finds' \in 0 .. MaxFinds
      BY <1>0, <1>1
    <2> QED
      BY <1>1, <1>4, <2>1, <2>2 DEF BInv, BTyped, Configured
  <1>7. ~Endless
    BY <1>b DEF Endless
  <1>8. NothingHangs' \/ TwoBusses'
    <2>1. CASE TwoBusses
      BY <1>4, <2>1
    <2>2. CASE ~TwoBusses
      <3>1. NothingHangs
        BY <2>2 DEF BInv, Chained
      <3>2. s.nx = next
        BY <1>2, <1>3, <2>2, <3>1 DEF Ended
      <3> QED
        BY <1>1, <3>1, <3>2 DEF NothingHangs
    <2> QED
      BY <2>1, <2>2
  <1>d. NothingHangs => ended
    BY <1>0, <1>3 DEF Ended
  <1>9. Endless' => finds' > 1 /\ busses' # 0 /\ TwoBusses'
    <2> SUFFICES ASSUME Endless' PROVE finds' > 1 /\ busses' # 0 /\ TwoBusses'
      OBVIOUS
    <2>1. ~ended
      BY <1>1, <1>7 DEF Endless
    <2>2. ~NothingHangs
      BY <1>d, <2>1
    <2>3. TwoBusses /\ busses # 0 /\ finds # 0
      BY <2>2 DEF BInv, Chained
    <2> QED
      BY <1>0, <1>1, <1>4, <2>1, <2>3
  <1>e. busses # 0 => s.first = busses
    <2> SUFFICES ASSUME busses # 0 PROVE s.first = busses
      OBVIOUS
    <2>1. busses \in Busses /\ \A b \in Busses : b >= busses
      BY <1>c DEF BInv, Linked
    <2>2. s.first # 0 /\ s.first \in Busses /\ \A b \in Busses : b >= s.first
      BY <1>a, <1>c, <2>1
    <2>3. busses \in Nat /\ s.first \in Nat /\ s.first >= busses /\ busses >= s.first
      BY <1>c, <2>1, <2>2
    <2> QED
      BY <2>3
  <1>f. busses # 0 => busses' = busses
    BY <1>1, <1>c, <1>e
  <1>10. busses' = 0 => NothingHangs'
    <2> SUFFICES ASSUME busses' = 0 PROVE NothingHangs'
      OBVIOUS
    <2>1. busses = 0 /\ NothingHangs
      BY <1>f DEF BInv, Chained
    <2>2. ended /\ s.first = 0
      BY <1>1, <1>d, <2>1
    <2> QED
      BY <1>1, <1>2, <2>1, <2>2 DEF NothingHangs
  <1>11. finds' # 0
    BY <1>0, <1>1
  <1>12. Linked'
    <2> SUFFICES ASSUME busses' # 0, NEW b \in Busses
                 PROVE  b >= busses' /\ Reaches(s.nx, busses', b, N)
      BY <1>1, <1>4 DEF Linked, Reaches, ReachedIn
    <2>1. CASE busses = 0
      <3>1. NothingHangs /\ ended
        BY <1>d, <2>1 DEF BInv, Chained
      <3>2. s.first # 0 /\ busses' = s.first
        BY <1>1, <1>a, <1>c, <3>1
      <3> QED
        BY <1>a, <1>c, <3>1, <3>2
    <2>2. CASE busses # 0
      <3>1. busses' = busses /\ b >= busses
        BY <1>f, <2>2 DEF BInv, Linked
      <3>2. PICK k \in 0 .. N : ReachedIn(next, busses, k) = b
        BY <2>2 DEF BInv, Linked, Reaches
      <3>3. PICK C : C = Busses \cup {0}
        OBVIOUS
      <3>4. PICK nx, h : nx = s.nx /\ h = busses
        OBVIOUS
      <3>5. /\ \A q \in C : q # 0 => next[q] \in C /\ nx[q] \in C
            /\ \A q \in C : q # 0 /\ next[q] # 0 => nx[q] = next[q]
            /\ h \in C /\ 0 \in C /\ k \in Nat
        BY <1>0, <1>a, <1>c, <3>3, <3>4
      <3>6. ReachedIn(next, h, k) = b /\ b # 0
        BY <1>c, <3>2, <3>4
      <3>7. ReachedIn(nx, h, k) = b
        BY <3>5, <3>6, WalkKept
      <3> QED
        BY <3>1, <3>4, <3>7 DEF Reaches
    <2> QED
      BY <2>1, <2>2
  <1> QED
    BY <1>5, <1>8, <1>9, <1>10, <1>11, <1>12 DEF BInv, Chained

\* The steps of the calls, which know the plugin they go to.
LEMMA BCalls ==
    ASSUME BInv, Typed, NEW t \in Threads,
           \/ \E q \in Plugins, a \in Addrs \cup {None} : Open(t, q, a)
           \/ \E a \in Addrs, call \in {"call", "close"} : Begin(t, a, call)
           \/ AddDev(t) \/ AddFails(t) \/ Walk(t) \/ Call(t) \/ DelDev(t) \/ PluginClose(t)
    PROVE  BInv'
  <1>0. /\ to \in [Threads -> 0 .. N] /\ active \in 0 .. N
        /\ op \in [Threads -> {"none", "open", "call", "close"}]
        /\ pc \in [Threads -> Wheres] /\ Plugins \subseteq 0 .. N /\ 0 \in 0 .. N
        /\ loaded \subseteq Plugins /\ ready \subseteq loaded \cap Kept
        /\ asked \in 0 .. N /\ lock \in Threads \cup {None}
    BY WrapperAssumption DEF BInv, BTyped, Typed, Plugins
  <1> DEFINE Steady == /\ UNCHANGED <<confVars, initVars, busVars, lock>>
                       /\ \A u \in Threads : pc'[u] = "linking" => pc[u] = "linking"
                       /\ to' \in [Threads -> 0 .. N]
                       /\ op' \in [Threads -> {"none", "open", "call", "close"}]
  <1>1. ASSUME Returns(t), UNCHANGED <<confVars, initVars, busVars, lock>> PROVE Steady
    BY <1>0, <1>1 DEF Returns, Goes
  <1>2. ASSUME NEW p \in 0 .. N, NEW call, Found(t, p, call)
        PROVE  /\ \A u \in Threads : pc'[u] = "linking" => pc[u] = "linking"
               /\ to' \in [Threads -> 0 .. N]
    <2>1. to' = [to EXCEPT ![t] = p]
      BY <1>2 DEF Found
    <2>2. \E where \in {"deleting", "calling"} : pc' = [pc EXCEPT ![t] = where]
      BY <1>2 DEF Found, Goes
    <2> QED
      BY <1>0, <2>1, <2>2
  <1>3. ASSUME NEW q \in Plugins, NEW a \in Addrs \cup {None}, Open(t, q, a)
        PROVE  Steady
    <2>1. \E p \in 0 .. N : to' = [to EXCEPT ![t] = p]
      BY <1>0, <1>3 DEF Open
    <2>2. /\ op' = [op EXCEPT ![t] = "open"] /\ pc' = [pc EXCEPT ![t] = "adding"]
          /\ UNCHANGED <<confVars, initVars, busVars, lock>>
      BY <1>3 DEF Open, Goes
    <2> QED
      BY <1>0, <2>1, <2>2
  <1>4. ASSUME NEW a \in Addrs, NEW call \in {"call", "close"}, Begin(t, a, call)
        PROVE  Steady
    <2>1. op' = [op EXCEPT ![t] = call] /\ UNCHANGED <<confVars, initVars, busVars, lock>>
      BY <1>4 DEF Begin
    <2>2. CASE active # 0
      BY <1>0, <1>2, <1>4, <2>1, <2>2 DEF Begin
    <2>3. CASE active = 0
      <3>1. pc' = [pc EXCEPT ![t] = "walking"] /\ to' = to
        BY <1>4, <2>3 DEF Begin, Goes
      <3> QED
        BY <1>0, <2>1, <3>1
    <2> QED
      BY <2>2, <2>3
  <1>5. ASSUME Walk(t) PROVE Steady
    <2>1. UNCHANGED <<confVars, initVars, busVars, lock>>
      BY <1>5 DEF Walk
    <2>2. CASE Returns(t)
      BY <1>1, <2>1, <2>2
    <2>3. ASSUME NEW p \in Plugins, Found(t, p, op[t]), op' = op PROVE Steady
      BY <1>0, <1>2, <2>1, <2>3
    <2> QED
      BY <1>5, <2>2, <2>3 DEF Walk
  <1>6. ASSUME DelDev(t) PROVE Steady
    BY <1>0, <1>6 DEF DelDev, Goes
  <1>7. ASSUME AddDev(t) \/ AddFails(t) \/ Call(t) \/ PluginClose(t) PROVE Steady
    <2>1. Returns(t) /\ UNCHANGED <<confVars, initVars, busVars, lock>>
      BY <1>7 DEF AddDev, AddFails, Call, PluginClose
    <2> QED
      BY <1>1, <2>1
  <1>8. Steady
    <2> HIDE DEF Steady
    <2> QED
      BY <1>3, <1>4, <1>5, <1>6, <1>7
  <1> QED
    BY <1>0, <1>8, BStays DEF initVars, busVars

LEMMA BStep == BInv /\ WInv /\ [Next]_vars => BInv'
  <1> SUFFICES ASSUME BInv, Typed, OnceFound, [Next]_vars PROVE BInv'
    BY DEF WInv
  <1>1. CASE UNCHANGED vars
    BY <1>1, BStays DEF vars, initVars, busVars, callVars, BInv, BTyped
  <1>2. ASSUME NEW t \in Threads, UsbInit(t) \/ FindBusses(t) PROVE BInv'
    BY <1>2, BUsbInit, BFindBusses
  <1>3. ASSUME NEW t \in Threads, Step(t) PROVE BInv'
    BY <1>3, BUsbInit, BCalls DEF Step, Locks
  <1> QED
    BY <1>1, <1>2, <1>3, BCalls DEF Next

LEMMA SpecBusses == Spec => []BInv
  BY BStep, BInit, SpecOwned, PTL DEF Spec

\* usb_init, usb_find_busses and the calls: every variable keeps its type, for
\* any plugins and any number of threads, handles and calls.
THEOREM WrapperTyped == Spec => []TypeOK
  <1>1. ASSUME BInv, Typed PROVE TypeOK
    <2>1. N \in Nat /\ Plugins = 1 .. N /\ Plugins \cup {0} = 0 .. N /\ 0 \in 0 .. N
      BY WrapperAssumption DEF Plugins
    <2>2. Busses \cup {0} \subseteq 0 .. N
      BY <2>1, KeptFit DEF Busses
    <2>3. /\ list \in [Plugins -> Seq(Addrs \cup {None})]
          /\ opener \in [Addrs -> 0 .. N]
          /\ holder \in [Addrs -> Threads \cup {None}]
          /\ pc \in [Threads -> {"idle", "initing", "asking", "linking", "adding",
                                 "walking", "calling", "deleting", "closing"}]
          /\ arg \in [Threads -> Addrs \cup {None}]
          /\ torn \in [Threads -> BOOLEAN] /\ stray \subseteq Addrs /\ hasty \subseteq Addrs
      BY <1>1, <2>1 DEF Typed, Wheres
    <2>4. next \in [Plugins -> 0 .. N] /\ head \in 0 .. N /\ busses \in 0 .. N
      BY <1>1, <2>2 DEF BInv, BTyped
    <2> QED
      BY <1>1, <2>3, <2>4 DEF TypeOK, BInv, BTyped, Configured
  <1>2. WInv => Typed
    BY DEF WInv
  <1> QED
    BY <1>1, <1>2, SpecBusses, SpecOwned, PTL

\* What an application sees is a bus that was chained.
LEMMA SeenAreBusses == ASSUME BInv PROVE Visible \subseteq Busses
  <1> SUFFICES ASSUME NEW p \in Visible PROVE p \in Busses
    OBVIOUS
  <1>1. PICK k \in 0 .. N : ReachedIn(next, busses, k) = p /\ busses # 0 /\ p \in Plugins
    BY DEF Visible
  <1>2. k \in Nat /\ busses \in Busses \cup {0} /\ p # 0
    BY <1>1, WrapperAssumption DEF BInv, BTyped, Plugins
  <1>3. \A q \in Busses \cup {0} : q # 0 => next[q] \in Busses \cup {0}
    BY KeptFit DEF BInv, BTyped, Busses
  <1>4. ReachedIn(next, busses, k) \in Busses \cup {0}
    BY <1>2, <1>3, WalkStays
  <1> QED
    BY <1>1, <1>2, <1>4

\* usb_init (wrapper/src/README): what an application sees is of a plugin that
\* did not fail, and of an exclusive one alone; and of one that has a libusb_init
\* it has the wrapper's version.
THEOREM SeenCorrect == Spec => []SeenIsSupported
  <1>1. ASSUME BInv PROVE SeenIsSupported
    <2>1. \A p \in Busses : Fit(p) /\ (kind[p] = "exclusive" => Busses \subseteq {p})
      BY KeptFit DEF Busses
    <2>2. Visible \subseteq Busses
      BY <1>1, SeenAreBusses
    <2> QED
      BY <2>1, <2>2 DEF SeenIsSupported, Fit
  <1> QED
    BY <1>1, SpecBusses, PTL

\* usb_find_busses: an application reaches the bus of every plugin that stayed,
\* after the first call and after any other.
THEOREM LinkedCorrect == Spec => []BussesLinked
  <1>1. ASSUME BInv, WInv PROVE BussesLinked
    <2>1. busses # 0 => Busses \subseteq Visible
      BY <1>1, KeptFit DEF BInv, Linked, Reaches, Visible, Busses
    <2>2. busses # 0 /\ ~AtWork => loaded = Kept
      BY <1>1 DEF WInv, OnceFound, Settled
    <2> QED
      BY <1>1, <2>1, <2>2, SeenAreBusses DEF BussesLinked, Busses
  <1> QED
    BY <1>1, SpecBusses, SpecOwned, PTL

\* usb_find_busses: the first call comes to an end, and so does every call while
\* only one plugin has busses.
THEOREM FindEnds == Spec => []BussesEnd
  <1>1. ASSUME BInv, WInv PROVE BussesEnd
    <2> SUFFICES ASSUME Endless
                 PROVE  finds > 1 /\ \E p, q \in loaded \cap hasBus : p # q
      BY DEF BussesEnd
    <2>1. finds > 1 /\ busses # 0 /\ TwoBusses
      BY <1>1 DEF BInv, Chained
    <2>2. ~AtWork
      BY <1>1 DEF WInv, OnceFound, Holding, AtWork, Endless
    <2>3. loaded = Kept
      BY <1>1, <2>1, <2>2 DEF WInv, OnceFound, Settled
    <2> QED
      BY <2>1, <2>3 DEF TwoBusses, Busses
  <1> QED
    BY <1>1, SpecBusses, SpecOwned, PTL
=============================================================================
