------------------------ MODULE ComponentFreshProofs ------------------------
(***************************************************************************)
(* Proofs that gmake's plan is what is out of date, and that a component   *)
(* it says is built was made from the tree, the archive and the patches as *)
(* they are: ProductIsFresh, Settled and PlanIsOutdated of ComponentBuild. *)
(***************************************************************************)
EXTENDS ComponentBuildProofs, SequenceTheorems, WellFoundedInduction

\* The rules, target by target.
LEMMA Rules ==
    /\ Prereqs["archive"] = {"Makefile"}
    /\ Prereqs["unpacked"] = {"archive", "Makefile", "dir"}
    /\ \A t \in Stamps : Prereqs[t] = {"unpacked", "Makefile"} \cup {p \in Patches : StampOf[p] = t}
    /\ "patched" \in Targets => Prereqs["patched"] = Stamps
    /\ Prereqs["prep"] = {"dir", "archive", "unpacked"} \cup Patched
    /\ Prereqs["configured"] = {"prep"} /\ Prereqs["built"] = {"configured"}
    /\ Prereqs["installed"] = {"built"}
  <1>1. \A t \in Stamps : t \in Targets /\ t \notin {"archive", "unpacked"}
    BY FilesDiffer
  <1>2. /\ {"archive", "unpacked", "prep", "configured", "built", "installed"} \subseteq Targets
        /\ {"archive", "unpacked", "patched", "prep", "configured", "built", "installed"}
              \cap Stamps = {}
    BY FilesDiffer DEF Targets, TreeStamps, Stages
  <1> QED
    BY <1>1, <1>2 DEF Prereqs

\* What derives from what: Upstream is the least closed set of files.
LEMMA PrereqFiles == \A t \in Targets : Prereqs[t] \subseteq Files
  <1> SUFFICES ASSUME NEW t \in Targets
               PROVE  Prereqs[t] \subseteq Files
    OBVIOUS
  <1>1. \/ t = "archive" \/ t = "unpacked" \/ t \in Stamps \/ t = "patched" \/ t = "prep"
        \/ t \in Stages
    BY DEF Targets, TreeStamps, Patched
  <1>2. /\ {"Makefile", "dir", "archive", "unpacked", "prep"} \cup Patched \subseteq Files
        /\ Stages \subseteq Files /\ Stamps \subseteq Files /\ Patches \subseteq Files
    BY DEF Files, Leaves, Targets, TreeStamps
  <1>3. CASE t \in Stages
    BY <1>3, <1>2, Rules DEF Stages
  <1>4. CASE t \in Stamps
    BY <1>4, <1>2, Rules
  <1>5. CASE t \notin Stages /\ t \notin Stamps
    BY <1>1, <1>2, <1>5, Rules
  <1> QED
    BY <1>3, <1>4, <1>5

LEMMA UpstreamFiles == \A f \in Files : Upstream[f] \subseteq Files
  BY DEF Upstream

LEMMA TargetsDerive ==
    \A t \in Targets : /\ t \in Files /\ t \notin Leaves
                       /\ Upstream[t] = {g \in Files : \A S \in ClosedSets :
                                            Prereqs[t] \subseteq S => g \in S}
  <1>1. Targets \cap Leaves = {}
    BY FilesDiffer, BuildAssumption DEF Leaves, Targets, TreeStamps, Stages, Patched
  <1>2. Targets \subseteq Files
    BY FilesDiffer
  <1> QED
    BY <1>1, <1>2 DEF Upstream

LEMMA LeavesDerive == \A f \in Leaves : Upstream[f] = {}
  BY DEF Upstream, Files

\* Whatever a closed set with the prerequisites of t is, all of Upstream[t] is in it.
LEMMA InClosed ==
    ASSUME NEW t \in Targets, NEW S \in ClosedSets, Prereqs[t] \subseteq S
    PROVE  Upstream[t] \subseteq S
  BY TargetsDerive

LEMMA PrereqsUpstream == \A t \in Targets : Prereqs[t] \subseteq Upstream[t]
  BY TargetsDerive, PrereqFiles

LEMMA UpstreamTransitive ==
    ASSUME NEW c \in Targets, NEW b \in Upstream[c], NEW a \in Upstream[b]
    PROVE  a \in Upstream[c] /\ b \in Targets
  <1>1. b \in Files /\ b \notin Leaves
    BY UpstreamFiles, LeavesDerive, TargetsDerive
  <1>2. b \in Targets
    BY <1>1 DEF Files
  <1>3. ASSUME NEW S \in ClosedSets, Prereqs[c] \subseteq S
        PROVE  a \in S
    <2>1. b \in S
      BY <1>3, InClosed
    <2>2. Prereqs[b] \subseteq S
      BY <2>1, <1>2 DEF ClosedSets
    <2> QED
      BY <1>2, <2>2, InClosed
  <1>4. a \in Files
    BY <1>1, UpstreamFiles
  <1> QED
    BY <1>2, <1>3, <1>4, TargetsDerive

\* The first step of a derivation.
LEMMA UpstreamFirst ==
    ASSUME NEW t \in Targets, NEW f \in Upstream[t]
    PROVE  f \in Prereqs[t] \/ \E v \in Prereqs[t] \cap Targets : f \in Upstream[v]
  <1> DEFINE S == Prereqs[t] \cup {g \in Files : \E v \in Prereqs[t] \cap Targets : g \in Upstream[v]}
  <1>1. S \in SUBSET Files
    BY PrereqFiles
  <1>2. ASSUME NEW u \in S \cap Targets
        PROVE  Prereqs[u] \subseteq S
    <2>1. CASE u \in Prereqs[t]
      BY <2>1, PrereqsUpstream, PrereqFiles
    <2>2. ASSUME NEW v \in Prereqs[t] \cap Targets, u \in Upstream[v]
          PROVE  Prereqs[u] \subseteq S
      BY <2>2, PrereqsUpstream, PrereqFiles, UpstreamTransitive
    <2> QED
      BY <2>1, <2>2
  <1>3. S \in ClosedSets
    BY <1>1, <1>2 DEF ClosedSets
  <1>4. f \in S
    BY <1>3, InClosed
  <1> QED
    BY <1>4

\* The last step of a derivation.
LEMMA UpstreamLast ==
    ASSUME NEW t \in Targets, NEW f \in Upstream[t]
    PROVE  \E u \in {t} \cup (Upstream[t] \cap Targets) : f \in Prereqs[u]
  <1> DEFINE S == {g \in Upstream[t] : \E u \in {t} \cup (Upstream[t] \cap Targets) : g \in Prereqs[u]}
  <1>1. S \in SUBSET Files
    BY UpstreamFiles, TargetsDerive
  <1>2. ASSUME NEW u \in S \cap Targets
        PROVE  Prereqs[u] \subseteq S
    BY PrereqsUpstream, UpstreamTransitive
  <1>3. S \in ClosedSets
    BY <1>1, <1>2 DEF ClosedSets
  <1>4. Prereqs[t] \subseteq S
    BY PrereqsUpstream
  <1> QED
    BY <1>3, <1>4, InClosed
-----------------------------------------------------------------------------
LEMMA JoinedLeft ==
    \A S : \A s, t \in Seq(S) : \A i \in 1 .. Len(s) : (s \o t)[i] = s[i]
  <1> SUFFICES ASSUME NEW S, NEW s \in Seq(S), NEW t \in Seq(S), NEW i \in 1 .. Len(s)
               PROVE  (s \o t)[i] = s[i]
    OBVIOUS
  <1>1. Len(s) \in Nat /\ Len(t) \in Nat
    BY LenProperties
  <1>2. i \in 1 .. Len(s) + Len(t) /\ i <= Len(s)
    BY <1>1
  <1> QED
    BY <1>2, ConcatProperties

LEMMA JoinedRight ==
    \A S : \A s, t \in Seq(S) : \A i \in 1 .. Len(t) : (s \o t)[Len(s) + i] = t[i]
  <1> SUFFICES ASSUME NEW S, NEW s \in Seq(S), NEW t \in Seq(S), NEW i \in 1 .. Len(t)
               PROVE  (s \o t)[Len(s) + i] = t[i]
    OBVIOUS
  <1>1. Len(s) \in Nat /\ Len(t) \in Nat
    BY LenProperties
  <1>2. /\ Len(s) + i \in 1 .. Len(s) + Len(t) /\ ~(Len(s) + i <= Len(s))
        /\ (Len(s) + i) - Len(s) = i
    BY <1>1
  <1> QED
    BY <1>2, ConcatProperties

\* The order in which targets are made: the archive, the tree, the patches in
\* their order, the stages.
LEMMA Ordered ==
    LET n == Len(Series)
    IN  /\ n \in Nat /\ DOMAIN Series = 1 .. n /\ DOMAIN Order = 1 .. n + 7
        /\ Order[1] = "archive" /\ Order[2] = "unpacked"
        /\ \A i \in 1 .. n : Order[i + 2] = StampOf[Series[i]]
        /\ Order[n + 3] = "patched" /\ Order[n + 4] = "prep" /\ Order[n + 5] = "configured"
        /\ Order[n + 6] = "built" /\ Order[n + 7] = "installed"
  <1> DEFINE n == Len(Series)
             A == <<"archive", "unpacked">>
             M == [i \in DOMAIN Series |-> StampOf[Series[i]]]
             B == <<"patched", "prep", "configured", "built", "installed">>
  <1>1. n \in Nat /\ DOMAIN Series = 1 .. n
    BY BuildAssumption
  <1>2. M \in Seq(Stamps) /\ Len(M) = n /\ \A i \in 1 .. n : M[i] = StampOf[Series[i]]
    <2>1. \A i \in 1 .. n : StampOf[Series[i]] \in Stamps
      BY <1>1 DEF Stamps, Patches
    <2>2. M \in [1 .. n -> Stamps]
      BY <1>1, <2>1
    <2> QED
      BY <1>1, <2>2
  <1> DEFINE T == {A[1], A[2], B[1], B[2], B[3], B[4], B[5]} \cup Stamps
  <1>3. A \in Seq(T) /\ Len(A) = 2 /\ A[1] = "archive" /\ A[2] = "unpacked"
    OBVIOUS
  <1>4. /\ B \in Seq(T) /\ Len(B) = 5 /\ B[1] = "patched" /\ B[2] = "prep"
        /\ B[3] = "configured" /\ B[4] = "built" /\ B[5] = "installed"
    OBVIOUS
  <1>5. Order = (A \o M) \o B
    BY DEF Order
  <1>6. M \in Seq(T)
    BY <1>2, SeqMonotonic
  <1> HIDE DEF A, M, B, T
  <1> DEFINE AM == A \o M
  <1>7. /\ AM \in Seq(T) /\ Len(AM) = Len(A) + Len(M)
        /\ \A i \in 1 .. Len(A) : AM[i] = A[i]
        /\ \A i \in 1 .. Len(M) : AM[Len(A) + i] = M[i]
    <2>0. A \in Seq(T) /\ M \in Seq(T)
      BY <1>3, <1>6
    <2>1. AM \in Seq(T) /\ Len(AM) = Len(A) + Len(M)
      BY <2>0, ConcatProperties
    <2>2. \A i \in 1 .. Len(A) : AM[i] = A[i]
      BY <2>0, JoinedLeft
    <2>3. \A i \in 1 .. Len(M) : AM[Len(A) + i] = M[i]
      BY <2>0, JoinedRight
    <2> QED
      BY <2>1, <2>2, <2>3
  <1>8. /\ Order \in Seq(T) /\ Len(Order) = Len(AM) + Len(B)
        /\ \A i \in 1 .. Len(AM) : Order[i] = AM[i]
        /\ \A i \in 1 .. Len(B) : Order[Len(AM) + i] = B[i]
    <2>1. Order = AM \o B
      BY <1>5
    <2> HIDE DEF AM
    <2>0. AM \in Seq(T) /\ B \in Seq(T)
      BY <1>4, <1>7
    <2>2. AM \o B \in Seq(T) /\ Len(AM \o B) = Len(AM) + Len(B)
      BY <2>0, ConcatProperties
    <2>3. \A i \in 1 .. Len(AM) : (AM \o B)[i] = AM[i]
      BY <2>0, JoinedLeft
    <2>4. \A i \in 1 .. Len(B) : (AM \o B)[Len(AM) + i] = B[i]
      BY <2>0, JoinedRight
    <2> QED
      BY <2>1, <2>2, <2>3, <2>4
  <1> HIDE DEF AM
  <1> HIDE DEF n
  <1>l. Len(AM) = 2 + n /\ Len(Order) = (2 + n) + 5
    BY <1>2, <1>3, <1>4, <1>7, <1>8
  <1>9. DOMAIN Order = 1 .. n + 7
    <2>1. (2 + n) + 5 = n + 7
      BY <1>1
    <2> QED
      BY <2>1, <1>8, <1>l, LenProperties
  <1>10. Order[1] = "archive" /\ Order[2] = "unpacked"
    <2>1. 1 \in 1 .. Len(AM) /\ 2 \in 1 .. Len(AM) /\ 1 \in 1 .. Len(A) /\ 2 \in 1 .. Len(A)
      BY <1>1, <1>3, <1>l
    <2> QED
      BY <2>1, <1>3, <1>7, <1>8
  <1>11. \A i \in 1 .. n : Order[i + 2] = StampOf[Series[i]]
    <2> SUFFICES ASSUME NEW i \in 1 .. n
                 PROVE  Order[i + 2] = StampOf[Series[i]]
      OBVIOUS
    <2>1. Len(A) + i = i + 2 /\ Len(A) + i \in 1 .. Len(AM) /\ i \in 1 .. Len(M)
      BY <1>1, <1>2, <1>3, <1>l
    <2> QED
      BY <2>1, <1>2, <1>7, <1>8
  <1>12. /\ Order[n + 3] = B[1] /\ Order[n + 4] = B[2] /\ Order[n + 5] = B[3]
         /\ Order[n + 6] = B[4] /\ Order[n + 7] = B[5]
    <2>1. /\ Len(AM) + 1 = n + 3 /\ Len(AM) + 2 = n + 4 /\ Len(AM) + 3 = n + 5
          /\ Len(AM) + 4 = n + 6 /\ Len(AM) + 5 = n + 7
      BY <1>1, <1>l
    <2>2. 1 \in 1 .. Len(B) /\ 2 \in 1 .. Len(B) /\ 3 \in 1 .. Len(B) /\ 4 \in 1 .. Len(B)
          /\ 5 \in 1 .. Len(B)
      BY <1>4
    <2>3. /\ Order[Len(AM) + 1] = B[1] /\ Order[Len(AM) + 2] = B[2] /\ Order[Len(AM) + 3] = B[3]
          /\ Order[Len(AM) + 4] = B[4] /\ Order[Len(AM) + 5] = B[5]
      BY <1>8, <2>2
    <2> QED
      BY <2>1, <2>3
  <1> QED
    BY <1>1, <1>4, <1>9, <1>10, <1>11, <1>12 DEF n

\* The place of each target.
LEMMA Places ==
    LET n == Len(Series)
    IN  /\ n \in Nat /\ Pos("archive") = 1 /\ Pos("unpacked") = 2
        /\ \A t \in Stamps : Pos(t) \in 3 .. n + 2
        /\ "patched" \in Targets => Pos("patched") = n + 3
        /\ Pos("prep") = n + 4 /\ Pos("configured") = n + 5
        /\ Pos("built") = n + 6 /\ Pos("installed") = n + 7
  <1> DEFINE n == Len(Series)
             Named == {"archive", "unpacked", "patched", "prep", "configured", "built", "installed"}
  <1>1. /\ n \in Nat /\ DOMAIN Series = 1 .. n /\ DOMAIN Order = 1 .. n + 7
        /\ Order[1] = "archive" /\ Order[2] = "unpacked"
        /\ \A i \in 1 .. n : Order[i + 2] = StampOf[Series[i]]
        /\ Order[n + 3] = "patched" /\ Order[n + 4] = "prep" /\ Order[n + 5] = "configured"
        /\ Order[n + 6] = "built" /\ Order[n + 7] = "installed"
    BY Ordered
  <1>2. Stamps \cap Named = {}
    BY FilesDiffer DEF Stages
  <1>3. \A i \in 3 .. n + 2 : Order[i] \in Stamps
    <2> SUFFICES ASSUME NEW i \in 3 .. n + 2
                 PROVE  Order[i] \in Stamps
      OBVIOUS
    <2>1. i - 2 \in 1 .. n /\ i = (i - 2) + 2
      BY <1>1
    <2> QED
      BY <2>1, <1>1 DEF Stamps, Patches
  <1> HIDE DEF n
  <1>4. \A i \in 1 .. n + 7 : /\ Order[i] = "archive" => i = 1
                              /\ Order[i] = "unpacked" => i = 2
                              /\ Order[i] = "patched" => i = n + 3
                              /\ Order[i] = "prep" => i = n + 4
                              /\ Order[i] = "configured" => i = n + 5
                              /\ Order[i] = "built" => i = n + 6
                              /\ Order[i] = "installed" => i = n + 7
                              /\ Order[i] \in Stamps => i \in 3 .. n + 2
    <2> SUFFICES ASSUME NEW i \in 1 .. n + 7
                 PROVE  /\ Order[i] = "archive" => i = 1
                        /\ Order[i] = "unpacked" => i = 2
                        /\ Order[i] = "patched" => i = n + 3
                        /\ Order[i] = "prep" => i = n + 4
                        /\ Order[i] = "configured" => i = n + 5
                        /\ Order[i] = "built" => i = n + 6
                        /\ Order[i] = "installed" => i = n + 7
                        /\ Order[i] \in Stamps => i \in 3 .. n + 2
      OBVIOUS
    <2>1. \/ i \in 3 .. n + 2 \/ i = 1 \/ i = 2 \/ i = n + 3 \/ i = n + 4 \/ i = n + 5
          \/ i = n + 6 \/ i = n + 7
      BY <1>1
    <2> QED
      BY <2>1, <1>1, <1>2, <1>3
  <1>5. \A t \in Stamps : \E i \in 1 .. n + 7 : Order[i] = t
    <2> SUFFICES ASSUME NEW p \in Patches
                 PROVE  \E i \in 1 .. n + 7 : Order[i] = StampOf[p]
      BY DEF Stamps
    <2>1. PICK i \in 1 .. n : Series[i] = p
      BY <1>1 DEF Patches
    <2>2. i + 2 \in 1 .. n + 7
      BY <1>1
    <2> QED
      BY <2>1, <2>2, <1>1
  <1>6. \A t \in Stamps : Pos(t) \in 3 .. n + 2
    BY <1>1, <1>4, <1>5 DEF Pos
  <1>7. /\ 1 \in 1 .. n + 7 /\ 2 \in 1 .. n + 7 /\ n + 3 \in 1 .. n + 7 /\ n + 4 \in 1 .. n + 7
        /\ n + 5 \in 1 .. n + 7 /\ n + 6 \in 1 .. n + 7 /\ n + 7 \in 1 .. n + 7
    BY <1>1
  <1>8. /\ Pos("archive") = 1 /\ Pos("unpacked") = 2 /\ Pos("patched") = n + 3
        /\ Pos("prep") = n + 4 /\ Pos("configured") = n + 5
        /\ Pos("built") = n + 6 /\ Pos("installed") = n + 7
    BY <1>1, <1>4, <1>7 DEF Pos
  <1> QED
    BY <1>1, <1>6, <1>8 DEF n

LEMMA PosType == \A t \in Targets : Pos(t) \in Nat
  BY Places DEF Targets, TreeStamps, Stages, Patched

\* A target comes after what it derives from.
LEMMA PrereqsBefore ==
    ASSUME NEW b \in Targets, NEW a \in Prereqs[b] \cap Targets
    PROVE  Pos(a) < Pos(b)
  <1>1. \A p \in Patches : p \in Targets => p \in Stamps
    BY FilesDiffer
  <1>2. /\ "Makefile" \notin Targets /\ "dir" \notin Targets /\ Patches \cap Targets = {}
    BY TargetsDerive DEF Leaves
  <1>3. CASE b \in Stamps
    <2>1. a = "unpacked"
      BY <1>2, <1>3, Rules
    <2> QED
      BY <2>1, <1>3, Places
  <1>4. CASE b \in Patched
    <2>1. b = "patched" /\ a \in Stamps
      BY <1>4, Rules DEF Patched
    <2> QED
      BY <2>1, Places
  <1>5. CASE b \in {"archive", "unpacked"}
    BY <1>2, <1>5, Rules, Places
  <1>6. CASE b = "prep"
    <2>1. a \in {"archive", "unpacked", "patched"}
      BY <1>2, <1>6, Rules DEF Patched
    <2> QED
      BY <2>1, <1>6, Places
  <1>7. CASE b \in Stages
    BY <1>7, Rules, Places DEF Stages
  <1> QED
    BY <1>3, <1>4, <1>5, <1>6, <1>7 DEF Targets, TreeStamps

LEMMA UpstreamBefore ==
    ASSUME NEW b \in Targets, NEW a \in Upstream[b] \cap Targets
    PROVE  Pos(a) < Pos(b)
  <1> DEFINE S == {f \in Files : f \in Targets => Pos(f) < Pos(b)}
  <1>1. ASSUME NEW u \in S \cap Targets
        PROVE  Prereqs[u] \subseteq S
    BY PrereqFiles, PrereqsBefore, PosType
  <1>2. Prereqs[b] \subseteq S
    BY PrereqFiles, PrereqsBefore
  <1>3. S \in ClosedSets
    BY <1>1 DEF ClosedSets
  <1> QED
    BY <1>2, <1>3, InClosed

\* All but the archive is made from it and from the tree it is unpacked into.
LEMMA AllDerive ==
    /\ \A t \in Targets \ {"archive"} : {"archive", "dir"} \subseteq Upstream[t]
    /\ \A t \in Targets \ {"archive", "unpacked"} : "unpacked" \in Upstream[t]
    /\ \A s \in Stages : TreeStamps \subseteq Upstream[s]
    /\ \A s \in Stages \ {"configured"} : "configured" \in Upstream[s]
    /\ "built" \in Upstream["installed"]
  <1>1. /\ {"archive", "unpacked", "prep", "configured", "built", "installed"} \subseteq Targets
        /\ Stamps \subseteq Targets /\ Patched \subseteq Targets
    BY DEF Targets, TreeStamps, Stages
  <1>2. {"archive", "dir"} \subseteq Upstream["unpacked"]
    BY <1>1, Rules, PrereqsUpstream
  <1>3. \A t \in Stamps : "unpacked" \in Upstream[t]
    BY <1>1, Rules, PrereqsUpstream
  <1>4. \A t \in Patched : Stamps \subseteq Upstream[t] /\ "unpacked" \in Upstream[t]
    <2> SUFFICES ASSUME NEW t \in Patched
                 PROVE  Stamps \subseteq Upstream[t] /\ "unpacked" \in Upstream[t]
      OBVIOUS
    <2>1. t = "patched" /\ t \in Targets /\ \E p \in Patches : StampOf[p] \in Stamps
      BY <1>1 DEF Patched, Stamps
    <2>2. Stamps \subseteq Upstream[t]
      BY <2>1, Rules, PrereqsUpstream
    <2> QED
      BY <2>1, <2>2, <1>3, UpstreamTransitive
  <1>5. TreeStamps \ {"prep"} \subseteq Upstream["prep"]
    <2>1. {"unpacked"} \cup Patched \subseteq Upstream["prep"]
      BY <1>1, Rules, PrereqsUpstream
    <2>2. Stamps \subseteq Upstream["prep"]
      <3>1. CASE Patches = {}
        BY <3>1 DEF Stamps
      <3>2. CASE Patches # {}
        BY <3>2, <2>1, <1>1, <1>4, UpstreamTransitive DEF Patched
      <3> QED
        BY <3>1, <3>2
    <2> QED
      BY <2>1, <2>2 DEF TreeStamps
  <1>6. TreeStamps \subseteq Upstream["configured"]
    <2>1. "prep" \in Upstream["configured"]
      BY <1>1, Rules, PrereqsUpstream
    <2> QED
      BY <2>1, <1>1, <1>5, UpstreamTransitive
  <1>7. "configured" \in Upstream["built"] /\ "built" \in Upstream["installed"]
    BY <1>1, Rules, PrereqsUpstream
  <1>8. "configured" \in Upstream["installed"]
    BY <1>1, <1>7, UpstreamTransitive
  <1>9. \A s \in Stages : TreeStamps \subseteq Upstream[s]
    BY <1>1, <1>6, <1>7, <1>8, UpstreamTransitive DEF Stages
  <1>10. \A t \in Targets \ {"archive", "unpacked"} : "unpacked" \in Upstream[t]
    BY <1>3, <1>4, <1>5, <1>9 DEF Targets, TreeStamps
  <1>11. \A t \in Targets \ {"archive"} : {"archive", "dir"} \subseteq Upstream[t]
    BY <1>2, <1>10, UpstreamTransitive
  <1> QED
    BY <1>7, <1>8, <1>9, <1>10, <1>11 DEF Stages

\* What a goal needs.
LEMMA Scopes ==
    ASSUME NEW g \in Goals
    PROVE  /\ Top[g] \in Scope(g) /\ Scope(g) \subseteq Targets /\ "archive" \in Scope(g)
           /\ \A b \in Scope(g), a \in Targets : a \in Upstream[b] => a \in Scope(g)
           /\ g \in {"build", "install"} => TreeStamps \subseteq Scope(g)
  <1>1. Top[g] \in Targets
    BY TopType
  <1>2. \A b \in Scope(g), a \in Targets : a \in Upstream[b] => a \in Scope(g)
    BY <1>1, UpstreamTransitive DEF Scope
  <1>3. "archive" \in Scope(g)
    BY <1>1, AllDerive DEF Scope, Targets
  <1>4. g \in {"build", "install"} => Top[g] \in Stages
    BY DEF Top, Stages
  <1>5. g \in {"build", "install"} => TreeStamps \subseteq Scope(g)
    BY <1>4, AllDerive, FilesDiffer DEF Scope
  <1> QED
    BY <1>1, <1>2, <1>3, <1>5 DEF Scope
-----------------------------------------------------------------------------
\* A target gmake would remake, by the files ex and their times rel.
Old(ex, rel, t) == t \notin ex \/ \E f \in Upstream[t] : <<f, t>> \in rel

\* Times are recorded between files there are, of which one derives from the other.
Recorded(ex, rel) ==
    /\ ex \in SUBSET Files /\ rel \in Times /\ Leaves \subseteq ex
    /\ \A f \in Files, t \in Targets :
          <<f, t>> \in rel => f \in ex /\ t \in ex /\ f \in Upstream[t]

\* What is newer than a target is newer than everything made from the target.
Inherited(ex, rel) ==
    \A b \in ex \cap Targets : \A a \in Upstream[b] \cap Targets : \A f \in Upstream[a] :
        <<f, a>> \in rel => <<f, b>> \in rel

\* A file newer than c is newer than b, which lies between them, or b is newer than c.
Between(ex, rel) ==
    \A c \in ex \cap Targets : \A b \in Upstream[c] \cap Targets \cap ex : \A a \in Upstream[b] :
        <<a, c>> \in rel => <<a, b>> \in rel \/ <<b, c>> \in rel

\* What was made from a target that is gone is old.
Missed(ex, rel) ==
    \A b \in ex \cap Targets : \A a \in Upstream[b] \cap Targets :
        a \notin ex => \E f \in Upstream[b] : <<f, b>> \in rel

Clock(ex, rel) == Recorded(ex, rel) /\ Inherited(ex, rel) /\ Between(ex, rel)

\* No stamp is in a source tree that was not unpacked.
TreeOrder(ex) == "unpacked" \notin ex => ex \cap TreeStamps = {}

ClockInv == Clock(exists, later) /\ Missed(exists, later) /\ TreeOrder(exists)

\* The plan holds what is out of date of the goal and what is made from it; it
\* is worked on from the first target to the last.
PlanInv ==
    Running =>
        /\ todo \subseteq Scope(goal)
        /\ \A t \in Scope(goal) : Outdated(t) => t \in todo
        /\ \A t \in todo : Outdated(t) \/ (t = "archive" /\ doing = t)
        /\ \A t \in todo, b \in Scope(goal) : t \in Upstream[b] => b \in todo
        /\ doing # None => \A u \in todo : Pos(doing) <= Pos(u)

DoneInv == status = "ok" => \A t \in Scope(goal) : ~Outdated(t)

\* What the stamps of the tree and of the stages tell while they are not old.
BaseInv == ~Outdated("unpacked") => base = archive
MadeInv == \A s \in Stages : ~Outdated(s) => made[s] = Tree

BuildInv == ClockInv /\ PlanInv /\ DoneInv /\ BaseInv /\ MadeInv
-----------------------------------------------------------------------------
LEMMA AfterPair ==
    ASSUME NEW rel \in Times, NEW ex \in SUBSET Files, NEW x \in Files,
           NEW f \in Files, NEW t \in Targets
    PROVE  <<f, t>> \in After(rel, ex, x) <=>
              \/ <<f, t>> \in rel /\ x # f /\ x # t
              \/ f = x /\ t \in ex /\ x \in Upstream[t]
  BY DEF After, Times

\* Clocks relate a file to a target made from it.
LEMMA ClockPair ==
    ASSUME NEW ex, NEW rel, Clock(ex, rel), NEW f, NEW t, <<f, t>> \in rel
    PROVE  f \in ex /\ f \in Files /\ t \in ex \cap Targets /\ f \in Upstream[t]
  BY DEF Clock, Recorded, Times

LEMMA UpstreamIn == \A t \in Targets : Upstream[t] \subseteq Files
  BY UpstreamFiles, TargetsDerive

\* What is made from an old target is old.
LEMMA OldSpreads ==
    ASSUME NEW ex, NEW rel, Clock(ex, rel), Missed(ex, rel),
           NEW b \in Targets, NEW a \in Upstream[b] \cap Targets, Old(ex, rel, a)
    PROVE  Old(ex, rel, b)
  <1>1. CASE b \notin ex
    BY <1>1 DEF Old
  <1>2. CASE b \in ex /\ a \notin ex
    BY <1>2 DEF Missed, Old
  <1>3. CASE b \in ex /\ a \in ex
    <2>1. PICK f \in Upstream[a] : <<f, a>> \in rel
      BY <1>3 DEF Old
    <2>2. <<f, b>> \in rel /\ f \in Upstream[b]
      BY <1>3, <2>1, UpstreamTransitive DEF Clock, Inherited
    <2> QED
      BY <2>2 DEF Old
  <1> QED
    BY <1>1, <1>2, <1>3

\* A file that is not made: what derives from it is old, nothing else changes.
LEMMA LeafTouched ==
    ASSUME NEW ex, NEW rel, Clock(ex, rel), NEW x \in Leaves,
           \A b \in ex \cap Targets : \A a \in Upstream[b] \cap Targets :
              a \notin ex => x \in Upstream[b] \/ \E f \in Upstream[b] : <<f, b>> \in rel,
           NEW r2, r2 = After(rel, ex, x)
    PROVE  /\ Clock(ex, r2) /\ Missed(ex, r2)
           /\ \A t \in Targets : Old(ex, r2, t) <=> Old(ex, rel, t) \/ x \in Upstream[t]
  <1>1. /\ ex \in SUBSET Files /\ rel \in Times /\ x \in ex /\ x \in Files /\ x \notin Targets
        /\ r2 \in Times
    BY AfterType, TargetsDerive DEF Clock, Recorded, Files
  <1>2. \A f \in Files, t \in Targets :
           <<f, t>> \in r2 <=> <<f, t>> \in rel \/ (f = x /\ t \in ex /\ x \in Upstream[t])
    <2>1. \A f \in Files, t \in Targets :
             <<f, t>> \in r2 <=> \/ <<f, t>> \in rel /\ x # f /\ x # t
                                 \/ f = x /\ t \in ex /\ x \in Upstream[t]
      BY <1>1, AfterPair
    <2>2. \A t \in Targets : <<x, t>> \in rel => t \in ex /\ x \in Upstream[t]
      BY ClockPair
    <2> QED
      BY <2>1, <2>2, <1>1
  <1>3. Recorded(ex, r2)
    BY <1>1, <1>2 DEF Clock, Recorded
  <1>4. Inherited(ex, r2)
    BY <1>2, UpstreamTransitive, UpstreamIn DEF Clock, Inherited
  <1>5. Between(ex, r2)
    <2> SUFFICES ASSUME NEW c \in ex \cap Targets, NEW b \in Upstream[c] \cap Targets \cap ex,
                        NEW a \in Upstream[b], <<a, c>> \in r2
                 PROVE  <<a, b>> \in r2 \/ <<b, c>> \in r2
      BY DEF Between
    <2>1. a \in Files /\ b \in Files
      BY UpstreamIn
    <2>2. CASE a = x
      BY <2>1, <2>2, <1>2
    <2>3. CASE a # x
      <3>1. <<a, c>> \in rel
        BY <2>1, <2>3, <1>2
      <3>2. <<a, b>> \in rel \/ <<b, c>> \in rel
        BY <3>1 DEF Clock, Between
      <3> QED
        BY <3>2, <2>1, <1>2
    <2> QED
      BY <2>2, <2>3
  <1>6. Missed(ex, r2)
    BY <1>1, <1>2, UpstreamIn DEF Missed
  <1>7. \A t \in Targets : Old(ex, r2, t) <=> Old(ex, rel, t) \/ x \in Upstream[t]
    BY <1>1, <1>2, UpstreamIn DEF Old
  <1> QED
    BY <1>3, <1>4, <1>5, <1>6, <1>7 DEF Clock

\* A target made when nothing it derives from is old is not old, what derives
\* from it is.
LEMMA TargetTouched ==
    ASSUME NEW ex, NEW rel, Clock(ex, rel), Missed(ex, rel), NEW x \in Targets,
           \A a \in Upstream[x] \cap Targets : ~Old(ex, rel, a),
           NEW e2, e2 = ex \cup {x}, NEW r2, r2 = After(rel, ex, x)
    PROVE  /\ Clock(e2, r2) /\ Missed(e2, r2)
           /\ ~Old(e2, r2, x)
           /\ \A t \in Targets \ {x} :
                 Old(e2, r2, t) <=> Old(ex, rel, t) \/ x \in Upstream[t]
  <1>1. /\ ex \in SUBSET Files /\ rel \in Times /\ x \in Files /\ e2 \in SUBSET Files
        /\ r2 \in Times /\ Leaves \subseteq e2
    BY AfterType, TargetsDerive DEF Clock, Recorded
  <1>2. x \notin Upstream[x]
    BY UpstreamBefore, PosType
  <1>3. \A f \in Files, t \in Targets :
           <<f, t>> \in r2 <=> \/ <<f, t>> \in rel /\ x # f /\ x # t
                               \/ f = x /\ t \in ex /\ x \in Upstream[t]
    BY <1>1, AfterPair
  <1>4. \A f \in Files : <<f, x>> \notin r2
    BY <1>2, <1>3
  <1>5. \A f \in Files, t \in Targets : <<f, t>> \in rel => f \in ex /\ t \in ex /\ f \in Upstream[t]
    BY ClockPair
  <1>6. Recorded(e2, r2)
    BY <1>1, <1>3, <1>5 DEF Recorded
  <1>7. Inherited(e2, r2)
    <2> SUFFICES ASSUME NEW b \in e2 \cap Targets, NEW a \in Upstream[b] \cap Targets,
                        NEW f \in Upstream[a], <<f, a>> \in r2
                 PROVE  <<f, b>> \in r2
      BY DEF Inherited
    <2>1. a # x /\ f \in Files /\ f \in Upstream[b]
      BY <1>4, UpstreamIn, UpstreamTransitive
    <2>2. CASE b = x
      <3>1. <<f, a>> \in rel
        BY <2>1, <2>2, <1>2, <1>3
      <3> QED
        BY <3>1, <2>2 DEF Old
    <2>3. CASE b # x
      <3>1. b \in ex
        BY <2>3
      <3>2. CASE f = x
        BY <3>1, <3>2, <2>1, <1>3
      <3>3. CASE f # x
        <4>1. <<f, a>> \in rel
          BY <3>3, <2>1, <1>3
        <4>2. <<f, b>> \in rel
          BY <4>1, <3>1 DEF Clock, Inherited
        <4> QED
          BY <4>2, <3>3, <2>1, <2>3, <1>3
      <3> QED
        BY <3>2, <3>3
    <2> QED
      BY <2>2, <2>3
  <1>8. Between(e2, r2)
    <2> SUFFICES ASSUME NEW c \in e2 \cap Targets, NEW b \in Upstream[c] \cap Targets \cap e2,
                        NEW a \in Upstream[b], <<a, c>> \in r2
                 PROVE  <<a, b>> \in r2 \/ <<b, c>> \in r2
      BY DEF Between
    <2>1. c # x /\ c \in ex /\ a \in Files /\ b \in Files
      BY <1>4, UpstreamIn
    <2>2. CASE b = x
      BY <2>1, <2>2, <1>3
    <2>3. CASE b # x /\ a = x
      BY <2>1, <2>3, <1>3
    <2>4. CASE b # x /\ a # x
      <3>1. <<a, c>> \in rel
        BY <2>1, <2>4, <1>3
      <3>2. <<a, b>> \in rel \/ <<b, c>> \in rel
        BY <3>1, <2>1, <2>4 DEF Clock, Between
      <3> QED
        BY <3>2, <2>1, <2>4, <1>3
    <2> QED
      BY <2>2, <2>3, <2>4
  <1>9. \A t \in Targets \ {x} : Old(e2, r2, t) <=> Old(ex, rel, t) \/ x \in Upstream[t]
    <2> SUFFICES ASSUME NEW t \in Targets, t # x
                 PROVE  Old(e2, r2, t) <=> Old(ex, rel, t) \/ x \in Upstream[t]
      OBVIOUS
    <2>1. Upstream[t] \subseteq Files /\ (t \in e2 <=> t \in ex)
      BY UpstreamIn
    <2>2. CASE t \notin ex
      BY <2>1, <2>2 DEF Old
    <2>3. CASE t \in ex
      <3>1. \A f \in Upstream[t] : <<f, t>> \in r2 <=> <<f, t>> \in rel \/ f = x
        BY <2>1, <2>3, <1>3
      <3>2. Old(e2, r2, t) <=> \E f \in Upstream[t] : <<f, t>> \in r2
        BY <2>1, <2>3 DEF Old
      <3>3. Old(ex, rel, t) <=> \E f \in Upstream[t] : <<f, t>> \in rel
        BY <2>3 DEF Old
      <3> QED
        BY <3>1, <3>2, <3>3
    <2> QED
      BY <2>2, <2>3
  <1>10. ~Old(e2, r2, x)
    BY <1>4, UpstreamIn DEF Old
  <1>11. Missed(e2, r2)
    <2> SUFFICES ASSUME NEW b \in e2 \cap Targets, NEW a \in Upstream[b] \cap Targets, a \notin e2
                 PROVE  \E f \in Upstream[b] : <<f, b>> \in r2
      BY DEF Missed
    <2>1. a \notin ex /\ a # x
      OBVIOUS
    <2>2. b # x
      BY <2>1 DEF Old
    <2>3. Old(ex, rel, b)
      BY <2>1, <2>2 DEF Missed, Old
    <2>4. Old(e2, r2, b)
      BY <2>2, <2>3, <1>9
    <2> QED
      BY <2>4 DEF Old
  <1> QED
    BY <1>6, <1>7, <1>8, <1>9, <1>10, <1>11 DEF Clock

\* Targets are removed; what is left of those made from them has to be old.
LEMMA TargetsRemoved ==
    ASSUME NEW ex, NEW rel, Clock(ex, rel), NEW S \in SUBSET Targets,
           NEW e2, e2 = ex \ S, NEW r2, r2 = {r \in rel : r[1] \notin S /\ r[2] \notin S}
    PROVE  /\ Clock(e2, r2)
           /\ \A f, t : <<f, t>> \in r2 <=> <<f, t>> \in rel /\ f \notin S /\ t \notin S
  <1>1. \A f, t : <<f, t>> \in r2 <=> <<f, t>> \in rel /\ f \notin S /\ t \notin S
    OBVIOUS
  <1>2. Recorded(e2, r2)
    <2>1. e2 \in SUBSET Files /\ r2 \in Times /\ Leaves \subseteq e2
      BY TargetsDerive DEF Clock, Recorded, Times
    <2> QED
      BY <2>1, <1>1 DEF Clock, Recorded
  <1>3. Inherited(e2, r2)
    BY <1>1 DEF Clock, Inherited
  <1>4. Between(e2, r2)
    <2> SUFFICES ASSUME NEW c \in e2 \cap Targets, NEW b \in Upstream[c] \cap Targets \cap e2,
                        NEW a \in Upstream[b], <<a, c>> \in r2
                 PROVE  <<a, b>> \in r2 \/ <<b, c>> \in r2
      BY DEF Between
    <2>1. a \notin S /\ b \notin S /\ c \notin S /\ <<a, c>> \in rel
      BY <1>1
    <2>2. b \in ex /\ c \in ex
      OBVIOUS
    <2>3. <<a, b>> \in rel \/ <<b, c>> \in rel
      BY <2>1, <2>2 DEF Clock, Between
    <2> QED
      BY <2>1, <2>3, <1>1
  <1> QED
    BY <1>1, <1>2, <1>3, <1>4 DEF Clock
-----------------------------------------------------------------------------
\* The steps that change the clock keep it in order.
LEMMA OutdatedIsOld == \A t \in Targets : Outdated(t) <=> Old(exists, later, t)
  BY DEF Outdated, Old

LEMMA OutdatedIsOldNext == \A t \in Targets : Outdated(t)' <=> Old(exists', later', t)
  BY DEF Outdated, Old

\* Another file is written: gmake finds out of date what derives from it.
LEMMA LeafStep ==
    ASSUME ClockInv, NEW x \in Leaves, Touch(x)
    PROVE  ClockInv' /\ \A t \in Targets : Outdated(t)' <=> Outdated(t) \/ x \in Upstream[t]
  <1>1. exists' = exists /\ later' = After(later, exists, x)
    BY DEF Touch, ClockInv, Clock, Recorded
  <1>2. \A b \in exists \cap Targets : \A a \in Upstream[b] \cap Targets :
           a \notin exists => x \in Upstream[b] \/ \E f \in Upstream[b] : <<f, b>> \in later
    BY DEF ClockInv, Missed
  <1>3. /\ Clock(exists', later') /\ Missed(exists', later')
        /\ \A t \in Targets : Old(exists', later', t) <=> Old(exists, later, t) \/ x \in Upstream[t]
    BY <1>1, <1>2, LeafTouched DEF ClockInv
  <1>4. TreeOrder(exists')
    BY <1>1 DEF ClockInv
  <1>5. ClockInv'
    BY <1>3, <1>4 DEF ClockInv
  <1> QED
    BY <1>3, <1>5, OutdatedIsOld, OutdatedIsOldNext

\* A target is made.
LEMMA TargetStep ==
    ASSUME ClockInv, NEW x \in Targets, Touch(x),
           \A a \in Upstream[x] \cap Targets : ~Outdated(a)
    PROVE  /\ ClockInv' /\ ~Outdated(x)'
           /\ \A t \in Targets \ {x} : Outdated(t)' <=> Outdated(t) \/ x \in Upstream[t]
  <1>1. exists' = exists \cup {x} /\ later' = After(later, exists, x)
    BY DEF Touch
  <1>2. /\ Clock(exists', later') /\ Missed(exists', later')
        /\ ~Old(exists', later', x)
        /\ \A t \in Targets \ {x} :
              Old(exists', later', t) <=> Old(exists, later, t) \/ x \in Upstream[t]
    BY <1>1, OutdatedIsOld, TargetTouched DEF ClockInv
  <1>3. TreeOrder(exists')
    <2>1. CASE x \in TreeStamps \ {"unpacked"}
      <3>1. "unpacked" \in Upstream[x] \cap Targets
        BY <2>1, AllDerive, FilesDiffer DEF TreeStamps, Targets, Patched
      <3> QED
        BY <1>1, <3>1 DEF Outdated, TreeOrder
    <2>2. CASE x \notin TreeStamps \/ x = "unpacked"
      BY <1>1, <2>2 DEF ClockInv, TreeOrder
    <2> QED
      BY <2>1, <2>2
  <1>4. ClockInv'
    BY <1>2, <1>3 DEF ClockInv
  <1> QED
    BY <1>2, <1>4, OutdatedIsOldNext, OutdatedIsOld

LEMMA NoCycle ==
    /\ \A a, b \in Targets : a \in Upstream[b] => b \notin Upstream[a]
    /\ \A t \in Targets : t \notin Upstream[t]
    /\ Upstream["archive"] \cap Targets = {}
    /\ Upstream["unpacked"] \cap TreeStamps = {}
    /\ \A t \in Targets \ Stages : Upstream[t] \cap Stages = {}
  <1>1. \A t \in Targets : t \notin Upstream[t]
    BY UpstreamBefore, PosType
  <1>2. \A a, b \in Targets : a \in Upstream[b] => b \notin Upstream[a]
    BY <1>1, UpstreamTransitive
  <1>3. /\ "archive" \in Targets /\ "unpacked" \in Targets /\ "archive" \notin TreeStamps
        /\ TreeStamps \subseteq Targets /\ Stages \subseteq Targets
    BY FilesDiffer DEF Targets, TreeStamps, Patched
  <1>4. Upstream["archive"] \cap Targets = {}
    BY <1>1, <1>2, <1>3, AllDerive
  <1>5. Upstream["unpacked"] \cap TreeStamps = {}
    BY <1>1, <1>2, <1>3, AllDerive
  <1>6. \A t \in Targets \ Stages : Upstream[t] \cap Stages = {}
    BY <1>2, <1>3, <1>4, AllDerive DEF Targets
  <1> QED
    BY <1>1, <1>2, <1>4, <1>5, <1>6

\* The build directory is removed.
LEMMA StagesGoneStep ==
    ASSUME ClockInv, Remove(Stages)
    PROVE  /\ ClockInv' /\ \A t \in Stages : Outdated(t)'
           /\ \A t \in Targets \ Stages : Outdated(t)' <=> Outdated(t)
  <1>1. /\ exists' = exists \ Stages
        /\ later' = {r \in later : r[1] \notin Stages /\ r[2] \notin Stages}
    BY DEF Remove
  <1>2. Stages \in SUBSET Targets /\ Stages \cap TreeStamps = {}
    BY FilesDiffer
  <1>3. /\ Clock(exists', later')
        /\ \A f, t : <<f, t>> \in later' <=> <<f, t>> \in later /\ f \notin Stages /\ t \notin Stages
    BY <1>1, <1>2, TargetsRemoved DEF ClockInv
  <1>4. \A t \in Targets \ Stages : \A f \in Upstream[t] : <<f, t>> \in later' <=> <<f, t>> \in later
    BY <1>3, NoCycle
  <1>5. Missed(exists', later')
    <2> SUFFICES ASSUME NEW b \in exists' \cap Targets, NEW a \in Upstream[b] \cap Targets,
                        a \notin exists'
                 PROVE  \E f \in Upstream[b] : <<f, b>> \in later'
      BY DEF Missed
    <2>1. b \in Targets \ Stages /\ b \in exists
      BY <1>1
    <2>2. a \notin exists
      BY <2>1, <1>1, NoCycle
    <2>3. PICK f \in Upstream[b] : <<f, b>> \in later
      BY <2>1, <2>2 DEF ClockInv, Missed
    <2> QED
      BY <2>1, <2>3, <1>4
  <1>6. TreeOrder(exists')
    BY <1>1, <1>2 DEF ClockInv, TreeOrder, Stages
  <1>7. ClockInv'
    BY <1>3, <1>5, <1>6 DEF ClockInv
  <1>8. \A t \in Stages : Outdated(t)'
    BY <1>1 DEF Outdated
  <1>9. \A t \in Targets \ Stages : Outdated(t)' <=> Outdated(t)
    BY <1>1, <1>4 DEF Outdated
  <1> QED
    BY <1>7, <1>8, <1>9

\* An old source tree is removed: that makes nothing old that was not.
LEMMA TreeGoneStep ==
    ASSUME ClockInv, Outdated("unpacked"), Remove(TreeStamps)
    PROVE  /\ ClockInv' /\ \A t \in Targets \ {"archive"} : Outdated(t)'
           /\ Outdated("archive")' <=> Outdated("archive")
  <1>1. /\ exists' = exists \ TreeStamps
        /\ later' = {r \in later : r[1] \notin TreeStamps /\ r[2] \notin TreeStamps}
    BY DEF Remove
  <1>2. /\ TreeStamps \in SUBSET Targets /\ "unpacked" \in TreeStamps /\ "archive" \in Targets
        /\ "archive" \notin TreeStamps /\ Targets = {"archive"} \cup TreeStamps \cup Stages
    BY FilesDiffer DEF TreeStamps, Targets, Patched
  <1>3. /\ Clock(exists', later')
        /\ \A f, t : <<f, t>> \in later' <=>
                        <<f, t>> \in later /\ f \notin TreeStamps /\ t \notin TreeStamps
    BY <1>1, <1>2, TargetsRemoved DEF ClockInv
  <1>4. \A b \in Stages \cap exists : \E f \in Upstream[b] : <<f, b>> \in later'
    <2> SUFFICES ASSUME NEW b \in Stages \cap exists
                 PROVE  \E f \in Upstream[b] : <<f, b>> \in later'
      OBVIOUS
    <2>1. "unpacked" \in Upstream[b] \cap Targets /\ b \in Targets /\ b \notin TreeStamps
      BY <1>2, AllDerive, FilesDiffer
    <2>2. CASE "unpacked" \in exists
      <3>1. PICK f \in Upstream["unpacked"] : <<f, "unpacked">> \in later
        BY <2>2 DEF Outdated
      <3>2. f \notin TreeStamps /\ f \in Upstream[b]
        BY <2>1, NoCycle, UpstreamTransitive
      <3>3. <<f, b>> \in later
        BY <2>1, <3>1 DEF ClockInv, Clock, Inherited
      <3> QED
        BY <2>1, <3>2, <3>3, <1>3
    <2>3. CASE "unpacked" \notin exists
      <3>1. exists \cap TreeStamps = {}
        BY <2>3 DEF ClockInv, TreeOrder
      <3>2. PICK f \in Upstream[b] : <<f, b>> \in later
        BY <2>1, <2>3 DEF ClockInv, Missed
      <3>3. f \in exists
        BY <3>2, ClockPair DEF ClockInv
      <3> QED
        BY <2>1, <3>1, <3>2, <3>3, <1>3
    <2> QED
      BY <2>2, <2>3
  <1>5. Missed(exists', later')
    BY <1>1, <1>2, <1>4, NoCycle DEF Missed
  <1>6. TreeOrder(exists')
    BY <1>1 DEF TreeOrder
  <1>7. ClockInv'
    BY <1>3, <1>5, <1>6 DEF ClockInv
  <1>8. \A t \in Targets \ {"archive"} : Outdated(t)'
    BY <1>1, <1>2, <1>4 DEF Outdated
  <1>9. Outdated("archive")' <=> Outdated("archive")
    <2>1. \A f \in Upstream["archive"] : f \notin TreeStamps
      BY <1>2, NoCycle
    <2>2. \A f \in Upstream["archive"] : <<f, "archive">> \in later' <=> <<f, "archive">> \in later
      BY <2>1, <1>2, <1>3
    <2> QED
      BY <2>2, <1>1, <1>2 DEF Outdated
  <1> QED
    BY <1>7, <1>8, <1>9

\* "gmake clean"
LEMMA CleanStep ==
    ASSUME ClockInv, Remove(TreeStamps \cup Stages)
    PROVE  ClockInv' /\ \A t \in Targets \ {"archive"} : Outdated(t)'
  <1> DEFINE S == TreeStamps \cup Stages
  <1>1. /\ exists' = exists \ S
        /\ later' = {r \in later : r[1] \notin S /\ r[2] \notin S}
    BY DEF Remove
  <1>2. S \in SUBSET Targets /\ Targets = {"archive"} \cup S /\ TreeStamps \subseteq S
    BY FilesDiffer DEF Targets
  <1> HIDE DEF S
  <1>3. Clock(exists', later')
    BY <1>1, <1>2, TargetsRemoved DEF ClockInv
  <1>4. Missed(exists', later')
    BY <1>1, <1>2, NoCycle DEF Missed
  <1>5. TreeOrder(exists')
    BY <1>1, <1>2 DEF TreeOrder
  <1>6. ClockInv'
    BY <1>3, <1>4, <1>5 DEF ClockInv
  <1> QED
    BY <1>1, <1>2, <1>6 DEF Outdated

\* The archive is written, and so is the directory it is in.
LEMMA WrittenStep ==
    ASSUME ClockInv, exists' = exists \cup {"archive"},
           later' = After(After(later, exists, "archive"), exists', "dir")
    PROVE  ClockInv' /\ \A t \in Targets \ {"archive"} : Outdated(t)'
  <1> DEFINE r1 == After(later, exists, "archive")
             e1 == exists \cup {"archive"}
  <1>1. "archive" \in Targets /\ "archive" \notin TreeStamps /\ "dir" \in Leaves
    BY FilesDiffer DEF Targets, TreeStamps, Leaves, Patched
  <1>2. Clock(e1, r1) /\ Missed(e1, r1)
    <2>1. \A a \in Upstream["archive"] \cap Targets : ~Old(exists, later, a)
      BY NoCycle
    <2> QED
      BY <1>1, <2>1, TargetTouched DEF ClockInv
  <1> HIDE DEF r1
  <1>3. exists' = e1 /\ later' = After(r1, e1, "dir")
    BY DEF r1
  <1> HIDE DEF e1
  <1>4. \A b \in e1 \cap Targets : \A a \in Upstream[b] \cap Targets :
           a \notin e1 => "dir" \in Upstream[b] \/ \E f \in Upstream[b] : <<f, b>> \in r1
    BY <1>2 DEF Missed
  <1>5. /\ Clock(exists', later') /\ Missed(exists', later')
        /\ \A t \in Targets : Old(exists', later', t) <=> Old(e1, r1, t) \/ "dir" \in Upstream[t]
    <2>1. PICK r2 : r2 = After(r1, e1, "dir")
      OBVIOUS
    <2>2. /\ Clock(e1, r2) /\ Missed(e1, r2)
          /\ \A t \in Targets : Old(e1, r2, t) <=> Old(e1, r1, t) \/ "dir" \in Upstream[t]
      BY <1>1, <1>2, <1>4, <2>1, LeafTouched
    <2> QED
      BY <1>3, <2>1, <2>2
  <1>6. TreeOrder(exists')
    BY <1>1 DEF ClockInv, TreeOrder
  <1>7. ClockInv'
    BY <1>5, <1>6 DEF ClockInv
  <1> QED
    BY <1>5, <1>7, AllDerive, OutdatedIsOldNext

\* The archive is removed.
LEMMA GoneStep ==
    ASSUME ClockInv, ArchiveGone
    PROVE  ClockInv' /\ \A t \in Targets : Outdated(t)'
  <1> DEFINE S == {"archive"}
             r1 == {r \in later : r[1] \notin S /\ r[2] \notin S}
             e1 == exists \ S
  <1>1. "archive" \in Targets /\ "archive" \notin TreeStamps /\ "dir" \in Leaves
    BY FilesDiffer DEF Targets, TreeStamps, Leaves, Patched
  <1>2. /\ Clock(e1, r1)
        /\ \A f, t : <<f, t>> \in r1 <=> <<f, t>> \in later /\ f \notin S /\ t \notin S
    <2>1. S \in SUBSET Targets
      BY <1>1
    <2> HIDE DEF S
    <2> QED
      BY <2>1, TargetsRemoved DEF ClockInv
  <1>3. exists' = e1 /\ later' = After(r1, e1, "dir")
    <2>1. r1 = {r \in later : "archive" \notin {r[1], r[2]}}
      OBVIOUS
    <2> HIDE DEF r1
    <2> QED
      BY <2>1 DEF ArchiveGone
  <1>4. \A b \in e1 \cap Targets : \A a \in Upstream[b] \cap Targets :
           a \notin e1 => "dir" \in Upstream[b] \/ \E f \in Upstream[b] : <<f, b>> \in r1
    BY AllDerive
  <1>5. "archive" \notin exists' /\ (\A t \in TreeStamps : t \in exists' <=> t \in exists)
    BY <1>1, <1>3
  <1> HIDE DEF r1, e1
  <1>6. /\ Clock(exists', later') /\ Missed(exists', later')
        /\ \A t \in Targets : Old(exists', later', t) <=> Old(e1, r1, t) \/ "dir" \in Upstream[t]
    BY <1>1, <1>2, <1>3, <1>4, LeafTouched
  <1>7. TreeOrder(exists')
    BY <1>5 DEF ClockInv, TreeOrder, TreeStamps
  <1>8. ClockInv'
    BY <1>6, <1>7 DEF ClockInv
  <1>9. \A t \in Targets \ {"archive"} : Outdated(t)'
    BY <1>6, AllDerive, OutdatedIsOldNext
  <1> QED
    BY <1>5, <1>8, <1>9 DEF Outdated
-----------------------------------------------------------------------------
LEMMA LeastOf ==
    ASSUME NEW T \in SUBSET Nat, T # {}
    PROVE  \E m \in T : \A k \in T : m <= k
  <1> DEFINE R == OpToRel(<, Nat)
  <1>1. IsWellFoundedOn(R, Nat)
    BY NatLessThanWellFounded
  <1>2. \A x, y \in Nat : x < y => <<x, y>> \in R
    BY DEF OpToRel
  <1> HIDE DEF R
  <1>3. \E x \in T : \A y \in T : ~(<<y, x>> \in R)
    BY <1>1, WFMin
  <1>4. \A x, y \in Nat : ~(<<y, x>> \in R) => x <= y
    BY <1>2
  <1> QED
    BY <1>3, <1>4

\* Of some targets, one is made first and one last.
LEMMA FirstTarget ==
    ASSUME NEW T \in SUBSET Targets, T # {}
    PROVE  \E t \in T : \A u \in T : Pos(t) <= Pos(u)
  <1> DEFINE N == {Pos(t) : t \in T}
  <1>1. N \in SUBSET Nat /\ N # {}
    BY PosType
  <1>2. \E m \in N : \A k \in N : m <= k
    BY <1>1, LeastOf
  <1> QED
    BY <1>2

LEMMA LastTarget ==
    ASSUME NEW T \in SUBSET Targets, T # {}
    PROVE  \E t \in T : \A u \in T : Pos(u) <= Pos(t)
  <1> DEFINE n == Len(Series) + 7
             N == {n - Pos(t) : t \in T}
  <1>1. \A t \in Targets : Pos(t) \in Nat /\ n - Pos(t) \in Nat
    BY Places, PosType DEF Targets, TreeStamps, Stages, Patched
  <1>0. n \in Nat
    BY Places
  <1> HIDE DEF n
  <1>2. N \in SUBSET Nat /\ N # {}
    BY <1>1
  <1>3. PICK m \in N : \A k \in N : m <= k
    BY <1>2, LeastOf
  <1>4. PICK t \in T : m = n - Pos(t)
    BY <1>3
  <1>5. \A u \in T : n - Pos(t) <= n - Pos(u)
    BY <1>3, <1>4
  <1>6. \A u \in T : Pos(u) <= Pos(t)
    BY <1>0, <1>1, <1>5
  <1> QED
    BY <1>6

\* Step by step is all the way: where a file is newer than t, some prerequisite
\* on the way is newer than what is made from it, or is not there.
LEMMA StepIsOld ==
    ASSUME ClockInv, NEW t \in Targets, Outdated(t)
    PROVE  \E u \in {t} \cup (Upstream[t] \cap Targets) :
              u \notin exists \/ \E f \in Prereqs[u] : <<f, u>> \in later
  <1> DEFINE Reached(x) == \E u \in {x} \cup (Upstream[x] \cap Targets) :
                              u \notin exists \/ \E f \in Prereqs[u] : <<f, u>> \in later
             Bad == {x \in Targets : Outdated(x) /\ ~Reached(x)}
  <1>1. SUFFICES ASSUME t \in Bad
                 PROVE  FALSE
    OBVIOUS
  <1>2. PICK x \in Bad : \A u \in Bad : Pos(x) <= Pos(u)
    BY <1>1, FirstTarget
  <1>3. x \in Targets /\ x \in exists /\ \A f \in Prereqs[x] : <<f, x>> \notin later
    BY <1>2
  <1>4. PICK f \in Upstream[x] : <<f, x>> \in later
    BY <1>2, <1>3 DEF Outdated
  <1>5. PICK v \in Prereqs[x] \cap Targets : f \in Upstream[v]
    BY <1>3, <1>4, UpstreamFirst
  <1>6. v \in Upstream[x] \cap Targets /\ v \in exists
    BY <1>2, <1>5, PrereqsUpstream
  <1>7. <<f, v>> \in later
    BY <1>3, <1>4, <1>5, <1>6 DEF ClockInv, Clock, Between
  <1>8. Outdated(v) /\ ~Reached(v)
    <2>1. Outdated(v)
      BY <1>5, <1>7 DEF Outdated
    <2>2. Reached(v) => Reached(x)
      BY <1>6, UpstreamTransitive
    <2> QED
      BY <2>1, <2>2, <1>2
  <1>9. Pos(x) <= Pos(v) /\ Pos(v) < Pos(x)
    BY <1>2, <1>3, <1>5, <1>8, PrereqsBefore
  <1> QED
    BY <1>9, PosType, <1>3, <1>5

LEMMA OutdatedSpreads ==
    ASSUME ClockInv, NEW b \in Targets, NEW a \in Upstream[b] \cap Targets, Outdated(a)
    PROVE  Outdated(b)
  BY OldSpreads, OutdatedIsOld DEF ClockInv

LEMMA MayIsOutdated ==
    ASSUME ClockInv, NEW g \in Goals
    PROVE  MayPlan(g) = {t \in Scope(g) : Outdated(t)}
  <1>1. Scope(g) \subseteq Targets
    BY Scopes
  <1>2. ASSUME NEW t \in Scope(g), Outdated(t)
        PROVE  t \in MayPlan(g)
    BY <1>1, <1>2, StepIsOld DEF MayPlan
  <1>3. ASSUME NEW t \in MayPlan(g)
        PROVE  t \in Scope(g) /\ Outdated(t)
    <2>1. t \in Scope(g) /\ t \in Targets
      BY <1>1 DEF MayPlan
    <2>2. PICK u \in {t} \cup (Upstream[t] \cap Targets) :
             u \notin exists \/ \E f \in Prereqs[u] : <<f, u>> \in later
      BY DEF MayPlan
    <2>3. Outdated(u)
      BY <2>1, <2>2, PrereqsUpstream DEF Outdated
    <2> QED
      BY <2>1, <2>3, OutdatedSpreads
  <1> QED
    BY <1>2, <1>3

\* From the goal down, gmake reaches everything that is out of date: the function
\* Must describes exists, and there is only one.
LEMMA MustIsOutdated ==
    ASSUME ClockInv, NEW g \in Goals
    PROVE  Must(g) = {t \in Scope(g) : Outdated(t)}
  <1> DEFINE must[t \in Targets] ==
                /\ Outdated(t)
                /\ t = Top[g] \/ \E u \in Targets : t \in Prereqs[u] /\ must[u]
             Needed(t) == Outdated(t) /\ t \in Scope(g)
  <1>1. Must(g) = {t \in Targets : must[t]}
    BY DEF Must
  <1>2. Scope(g) \subseteq Targets /\ Top[g] \in Targets
    BY Scopes, TopType
  <1>3. \A t \in Targets :
           Needed(t) <=> /\ Outdated(t)
                         /\ t = Top[g] \/ \E u \in Targets : t \in Prereqs[u] /\ Needed(u)
    <2> SUFFICES ASSUME NEW t \in Targets, Outdated(t)
                 PROVE  t \in Scope(g) <=>
                          t = Top[g] \/ \E u \in Targets : t \in Prereqs[u] /\ Needed(u)
      OBVIOUS
    <2>1. ASSUME t \in Scope(g), t # Top[g]
          PROVE  \E u \in Targets : t \in Prereqs[u] /\ Needed(u)
      <3>1. t \in Upstream[Top[g]]
        BY <2>1 DEF Scope
      <3>2. PICK u \in {Top[g]} \cup (Upstream[Top[g]] \cap Targets) : t \in Prereqs[u]
        BY <3>1, <1>2, UpstreamLast
      <3>3. u \in Scope(g) /\ u \in Targets /\ t \in Upstream[u]
        BY <3>2, <1>2, PrereqsUpstream DEF Scope
      <3>4. Outdated(u)
        BY <3>3, OutdatedSpreads
      <3> QED
        BY <3>2, <3>3, <3>4
    <2>2. ASSUME NEW u \in Targets, t \in Prereqs[u], Needed(u)
          PROVE  t \in Scope(g)
      BY <2>2, Scopes, PrereqsUpstream
    <2>3. Top[g] \in Scope(g)
      BY Scopes
    <2> QED
      BY <2>1, <2>2, <2>3
  <1>4. must = [t \in Targets |->
                  /\ Outdated(t)
                  /\ t = Top[g] \/ \E u \in Targets : t \in Prereqs[u] /\ must[u]]
    <2> DEFINE Eq(f) == f = [t \in Targets |->
                               /\ Outdated(t)
                               /\ t = Top[g] \/ \E u \in Targets : t \in Prereqs[u] /\ f[u]]
               m == [t \in Targets |-> Needed(t)]
    <2>1. Eq(m)
      <3>1. \A t \in Targets :
               m[t] = (/\ Outdated(t)
                       /\ t = Top[g] \/ \E u \in Targets : t \in Prereqs[u] /\ m[u])
        BY <1>3
      <3> QED
        BY <3>1
    <2>2. \E f : Eq(f)
      BY <2>1
    <2>3. Eq(CHOOSE f : Eq(f))
      BY <2>2
    <2> QED
      BY <2>3
  <1> HIDE DEF must
  <1>5. \A t \in Targets :
           must[t] <=> /\ Outdated(t)
                       /\ t = Top[g] \/ \E u \in Targets : t \in Prereqs[u] /\ must[u]
    BY <1>4
  <1>6. \A t \in Targets : must[t] <=> Needed(t)
    <2> DEFINE Bad == {t \in Targets : ~(must[t] <=> Needed(t))}
    <2>1. CASE Bad = {}
      BY <2>1
    <2>2. CASE Bad # {}
      <3>1. PICK t \in Bad : \A u \in Bad : Pos(u) <= Pos(t)
        BY <2>2, LastTarget
      <3>2. \A u \in Targets : t \in Prereqs[u] => Pos(t) < Pos(u)
        BY <3>1, PrereqsBefore
      <3>3. \A u \in Targets : t \in Prereqs[u] => u \notin Bad
        BY <3>1, <3>2, PosType
      <3>4. \A u \in Targets : t \in Prereqs[u] => (must[u] <=> Needed(u))
        BY <3>3
      <3>5. must[t] <=> Needed(t)
        BY <3>1, <3>4, <1>3, <1>5
      <3> QED
        BY <3>1, <3>5
    <2> QED
      BY <2>1, <2>2
  <1> QED
    BY <1>1, <1>2, <1>6

LEMMA MustPlanIsOutdated ==
    ASSUME ClockInv, NEW g \in Goals
    PROVE  MustPlan(g) = {t \in Scope(g) : Outdated(t)}
  BY MustIsOutdated, OutdatedSpreads, Scopes DEF MustPlan

LEMMA PlanIs ==
    ASSUME ClockInv, NEW g \in Goals, NEW S \in Plans(g)
    PROVE  S = {t \in Scope(g) : Outdated(t)}
  BY MayIsOutdated, MustPlanIsOutdated DEF Plans
-----------------------------------------------------------------------------
LEMMA InitBuild == Init => BuildInv
  <1> SUFFICES ASSUME Init PROVE BuildInv
    OBVIOUS
  <1>1. /\ exists = Leaves /\ later = {} /\ status = "idle"
        /\ exists \cap Targets = {}
    BY TargetsDerive DEF Init
  <1>2. Recorded(exists, later)
    BY <1>1 DEF Recorded, Times, Files
  <1>3. Clock(exists, later) /\ Missed(exists, later)
    BY <1>1, <1>2 DEF Clock, Inherited, Between, Missed
  <1>4. TreeOrder(exists)
    BY <1>1, FilesDiffer DEF TreeOrder
  <1>5. \A t \in Targets : Outdated(t)
    BY <1>1 DEF Outdated
  <1>6. "unpacked" \in Targets /\ Stages \subseteq Targets
    BY FilesDiffer DEF TreeStamps
  <1> QED
    BY <1>1, <1>3, <1>4, <1>5, <1>6
       DEF BuildInv, ClockInv, PlanInv, DoneInv, BaseInv, MadeInv, Running

\* The target gmake works on is the first of its plan.
LEMMA Working ==
    ASSUME TypeOK, PlanInv, doing # None
    PROVE  /\ Running /\ doing \in todo /\ doing \in Targets
           /\ \A u \in todo : Pos(doing) <= Pos(u)
  BY Parts DEF RunType, PlanInv, Running

\* What the first target of the plan derives from is not out of date.
LEMMA Ready ==
    ASSUME TypeOK, PlanInv, Running, NEW x \in todo, \A u \in todo : Pos(x) <= Pos(u)
    PROVE  /\ x \in Targets /\ x \in Scope(goal)
           /\ \A a \in Upstream[x] \cap Targets : ~Outdated(a) /\ a \notin todo
  <1>1. x \in Targets /\ x \in Scope(goal) /\ goal \in Goals
    BY Parts DEF RunType, PlanInv
  <1>2. ASSUME NEW a \in Upstream[x] \cap Targets
        PROVE  ~Outdated(a) /\ a \notin todo
    <2>1. a \in Scope(goal) /\ Pos(a) < Pos(x)
      BY <1>1, Scopes, UpstreamBefore
    <2>2. a \notin todo
      BY <1>1, <2>1, PosType
    <2> QED
      BY <2>1, <2>2 DEF PlanInv
  <1> QED
    BY <1>1, <1>2

\* A target is made: what the plan still holds is what is out of date then.
LEMMA CompleteStep ==
    ASSUME TypeOK, ClockInv, PlanInv, Running, NEW x \in todo, doing \in {x, None},
           \A u \in todo : Pos(x) <= Pos(u), Complete(x)
    PROVE  /\ ClockInv' /\ PlanInv' /\ DoneInv' /\ ~Outdated(x)'
           /\ \A t \in Targets \ {x} : Outdated(t)' <=> Outdated(t) \/ x \in Upstream[t]
  <1>1. /\ x \in Targets /\ x \in Scope(goal) /\ None \notin Targets
        /\ \A a \in Upstream[x] \cap Targets : ~Outdated(a) /\ a \notin todo
    BY Ready, FilesDiffer
  <1>2. /\ ClockInv' /\ ~Outdated(x)'
        /\ \A t \in Targets \ {x} : Outdated(t)' <=> Outdated(t) \/ x \in Upstream[t]
    BY <1>1, TargetStep DEF Complete
  <1>3. /\ todo' = todo \ {x} /\ doing' = None /\ goal' = goal /\ status' = "running"
    BY DEF Complete, Running
  <1>4. /\ todo \subseteq Scope(goal) /\ Scope(goal) \subseteq Targets
        /\ \A t \in Scope(goal) : Outdated(t) => t \in todo
        /\ \A t \in todo : Outdated(t) \/ (t = "archive" /\ doing = t)
        /\ \A t \in todo, b \in Scope(goal) : t \in Upstream[b] => b \in todo
    BY Parts, Scopes DEF PlanInv, RunType
  <1>5. ASSUME NEW t \in Scope(goal), Outdated(t)'
        PROVE  t \in todo'
    <2>1. t \in Targets \ {x}
      BY <1>2, <1>4, <1>5
    <2>2. Outdated(t) \/ x \in Upstream[t]
      BY <1>2, <1>5, <2>1
    <2> QED
      BY <2>1, <2>2, <1>3, <1>4
  <1>6. ASSUME NEW t \in todo'
        PROVE  Outdated(t)'
    BY <1>1, <1>2, <1>3, <1>4
  <1>7. ASSUME NEW t \in todo', NEW b \in Scope(goal), t \in Upstream[b]
        PROVE  b \in todo'
    BY <1>1, <1>3, <1>4, <1>7
  <1>8. PlanInv'
    BY <1>3, <1>4, <1>5, <1>6, <1>7 DEF PlanInv, Scope
  <1> QED
    BY <1>2, <1>3, <1>8 DEF DoneInv

\* The next target of the plan is begun.
LEMMA BeginStep ==
    ASSUME TypeOK, BuildInv, NEW t, Begin(t), UNCHANGED clock
    PROVE  ClockInv' /\ PlanInv' /\ DoneInv'
  <1>1. ClockInv'
    BY DEF clock, BuildInv, ClockInv
  <1>2. \A u : Outdated(u)' <=> Outdated(u)
    BY DEF clock, Outdated
  <1>3. /\ Running /\ doing = None /\ t \in todo /\ \A u \in todo : Pos(t) <= Pos(u)
        /\ doing' = t /\ goal' = goal /\ todo' = todo /\ status' = status
    BY DEF Begin, Due
  <1>4. todo \subseteq Targets /\ None \notin Targets
    BY Parts, FilesDiffer DEF RunType
  <1>5. PlanInv'
    BY <1>2, <1>3, <1>4 DEF BuildInv, PlanInv, Scope, Running
  <1> QED
    BY <1>1, <1>3, <1>5 DEF DoneInv, Running

\* The run ends before its plan is done.
LEMMA AbortStep ==
    ASSUME BuildInv, status' \in {"failed", "idle"}
    PROVE  PlanInv' /\ DoneInv'
  BY DEF PlanInv, DoneInv, Running

\* What the stamps tell stays true while nothing of it changes ...
LEMMA StampsKept ==
    ASSUME BuildInv, UNCHANGED <<tree, made, archive>>,
           \A t \in {"unpacked"} \cup Stages : Outdated(t) => Outdated(t)'
    PROVE  BaseInv' /\ MadeInv'
  <1>1. base' = base /\ archive' = archive /\ made' = made /\ Tree' = Tree
    BY DEF tree, Tree
  <1> QED
    BY <1>1 DEF BuildInv, BaseInv, MadeInv

\* ... and when none of them tells anything.
LEMMA NothingTold ==
    ASSUME \A t \in Targets \ {"archive"} : Outdated(t)'
    PROVE  BaseInv' /\ MadeInv'
  <1>1. {"unpacked"} \cup Stages \subseteq Targets \ {"archive"}
    BY DEF Targets, TreeStamps, Stages
  <1> QED
    BY <1>1 DEF BaseInv, MadeInv
-----------------------------------------------------------------------------
LEMMA SameClock ==
    ASSUME UNCHANGED clock
    PROVE  /\ ClockInv' <=> ClockInv
           /\ \A t : Outdated(t)' <=> Outdated(t)
  BY DEF clock, ClockInv, Outdated

LEMMA StartStep ==
    ASSUME TypeOK, BuildInv, NEW g \in Goals, Start(g)
    PROVE  BuildInv' /\ todo' = {t \in Scope(goal') : Outdated(t)}
  <1>1. /\ goal' = g /\ doing' = None /\ status' = "running" /\ UNCHANGED clock
        /\ todo' = {t \in Scope(g) : Outdated(t)}
        /\ UNCHANGED <<tree, made, archive>>
    BY PlanIs DEF Start, BuildInv
  <1>2. ClockInv' /\ \A t : Outdated(t)' <=> Outdated(t)
    BY <1>1, SameClock DEF BuildInv
  <1>3. \A t \in todo', b \in Scope(g) : t \in Upstream[b] => b \in todo'
    BY <1>1, Scopes, OutdatedSpreads DEF BuildInv
  <1>4. PlanInv'
    BY <1>1, <1>2, <1>3 DEF PlanInv, Scope
  <1>5. BaseInv' /\ MadeInv'
    BY <1>1, <1>2, StampsKept
  <1> QED
    BY <1>1, <1>2, <1>4, <1>5 DEF BuildInv, DoneInv

LEMMA FinishStep ==
    ASSUME TypeOK, BuildInv, Finish
    PROVE  BuildInv'
  <1>1. /\ Running /\ todo = {} /\ UNCHANGED <<clock, tree, made, archive, goal, todo, doing>>
        /\ status' = "ok"
    BY DEF Finish
  <1>2. ClockInv' /\ \A t : Outdated(t)' <=> Outdated(t)
    BY <1>1, SameClock DEF BuildInv
  <1>3. \A t \in Scope(goal) : ~Outdated(t)
    BY <1>1 DEF BuildInv, PlanInv
  <1>4. PlanInv' /\ DoneInv'
    BY <1>1, <1>2, <1>3 DEF PlanInv, DoneInv, Running, Scope
  <1>5. BaseInv' /\ MadeInv'
    BY <1>1, <1>2, StampsKept
  <1> QED
    BY <1>2, <1>4, <1>5 DEF BuildInv

\* Recipes begin that change nothing gmake's plan is about.
LEMMA PlainBeginStep ==
    ASSUME TypeOK, BuildInv, FetchBegin \/ \E s \in Stages : StageBegin(s)
    PROVE  BuildInv'
  <1>1. UNCHANGED <<clock, tree, made, archive>> /\ \E t : Begin(t)
    BY DEF FetchBegin, StageBegin
  <1>2. ClockInv' /\ PlanInv' /\ DoneInv'
    BY <1>1, BeginStep
  <1>3. BaseInv' /\ MadeInv'
    BY <1>1, SameClock, StampsKept
  <1> QED
    BY <1>2, <1>3 DEF BuildInv

\* While the archive is fetched, it and all that is made from it is in the plan.
LEMMA FetchWritesStep ==
    ASSUME TypeOK, BuildInv, FetchWrites
    PROVE  BuildInv'
  <1>1. doing = "archive" /\ UNCHANGED run
    BY DEF FetchWrites
  <1>2. ClockInv' /\ \A t \in Targets \ {"archive"} : Outdated(t)'
    <2>1. CASE archive' = None
      BY <2>1, GoneStep DEF FetchWrites, BuildInv
    <2>2. CASE archive' # None
      BY <2>2, WrittenStep DEF FetchWrites, BuildInv
    <2> QED
      BY <2>1, <2>2
  <1>3. doing # None
    BY <1>1, FilesDiffer DEF Targets
  <1>4. /\ Running /\ "archive" \in todo /\ goal \in Goals /\ todo \subseteq Targets
    BY <1>1, <1>3, Working, Parts DEF BuildInv, RunType
  <1>5. Scope(goal) \subseteq todo
    BY <1>4, Scopes, AllDerive DEF BuildInv, PlanInv
  <1>6. PlanInv'
    BY <1>1, <1>2, <1>4, <1>5 DEF BuildInv, PlanInv, run, Running, Scope
  <1>7. DoneInv'
    BY <1>1, <1>4 DEF DoneInv, run, Running
  <1> QED
    BY <1>2, <1>6, <1>7, NothingTold DEF BuildInv

\* Recipes that end and change nothing the stamps tell.
LEMMA PlainEndStep ==
    ASSUME TypeOK, BuildInv,
           FetchOk \/ (\E p \in Patches : PatchOk(p)) \/ (\E t \in {"patched", "prep"} : Mark(t))
    PROVE  BuildInv'
  <1>1. UNCHANGED <<tree, made, archive>>
    BY DEF FetchOk, PatchOk, Mark
  <1>2. /\ "archive" \in Targets \ ({"unpacked"} \cup Stages)
        /\ {"patched", "prep"} \cap ({"unpacked"} \cup Stages) = {}
        /\ \A p \in Patches : StampOf[p] \in Targets \ ({"unpacked"} \cup Stages)
        /\ None \notin Targets /\ {"unpacked"} \cup Stages \subseteq Targets
    BY FilesDiffer DEF Targets, TreeStamps, Stages
  <1>3. PICK x \in todo \ ({"unpacked"} \cup Stages) :
           /\ Running /\ Complete(x) /\ doing \in {x, None} /\ \A u \in todo : Pos(x) <= Pos(u)
    <2>1. CASE FetchOk
      BY <2>1, <1>2, Working DEF FetchOk, BuildInv
    <2>2. ASSUME NEW p \in Patches, PatchOk(p)
          PROVE  \E x \in todo \ ({"unpacked"} \cup Stages) :
                    /\ Running /\ Complete(x) /\ doing \in {x, None}
                    /\ \A u \in todo : Pos(x) <= Pos(u)
      BY <2>2, <1>2, Working DEF PatchOk, BuildInv
    <2>3. ASSUME NEW t \in {"patched", "prep"}, Mark(t)
          PROVE  \E x \in todo \ ({"unpacked"} \cup Stages) :
                    /\ Running /\ Complete(x) /\ doing \in {x, None}
                    /\ \A u \in todo : Pos(x) <= Pos(u)
      BY <2>3, <1>2 DEF Mark, Due
    <2> QED
      BY <2>1, <2>2, <2>3
  <1>4. /\ ClockInv' /\ PlanInv' /\ DoneInv'
        /\ \A t \in Targets \ {x} : Outdated(t)' <=> Outdated(t) \/ x \in Upstream[t]
    BY <1>3, CompleteStep DEF BuildInv
  <1>5. BaseInv' /\ MadeInv'
    BY <1>1, <1>2, <1>3, <1>4, StampsKept
  <1> QED
    BY <1>4, <1>5 DEF BuildInv

\* The run stops and nothing else changes.
LEMMA PlainFailStep ==
    ASSUME TypeOK, BuildInv,
           FetchFail \/ UnpackFail \/ \E s \in Stages : StageFail(s)
    PROVE  BuildInv'
  <1>1. UNCHANGED <<clock, tree, made, archive>> /\ status' = "failed"
    BY DEF FetchFail, UnpackFail, StageFail, Abort
  <1>2. ClockInv' /\ PlanInv' /\ DoneInv' /\ \A t : Outdated(t)' <=> Outdated(t)
    BY <1>1, AbortStep, SameClock DEF BuildInv
  <1> QED
    BY <1>1, <1>2, StampsKept DEF BuildInv

\* The stamps in an old tree go with it: they are in the plan already.
LEMMA UnpackBeginStep ==
    ASSUME TypeOK, BuildInv, UnpackBegin
    PROVE  BuildInv'
  <1>1. /\ Running /\ doing = None /\ "unpacked" \in todo
        /\ \A u \in todo : Pos("unpacked") <= Pos(u)
        /\ doing' = "unpacked" /\ UNCHANGED <<goal, todo, status>>
        /\ Remove(TreeStamps)
    BY DEF UnpackBegin, Begin, Due
  <1>2. /\ todo \subseteq Scope(goal) /\ goal \in Goals /\ Scope(goal) \subseteq Targets
        /\ None \notin Targets
        /\ "unpacked" \in Targets /\ "unpacked" # "archive"
    BY <1>1, Scopes, Parts, FilesDiffer DEF BuildInv, PlanInv, RunType, Targets, TreeStamps
  <1>3. Outdated("unpacked")
    BY <1>1 DEF BuildInv, PlanInv
  <1>4. /\ ClockInv' /\ \A t \in Targets \ {"archive"} : Outdated(t)'
        /\ Outdated("archive")' <=> Outdated("archive")
    BY <1>1, <1>3, TreeGoneStep DEF BuildInv
  <1>5. "archive" \notin todo
    <2>1. Pos("archive") = 1 /\ Pos("unpacked") = 2
      BY Places
    <2> QED
      BY <2>1, <1>1
  <1>6. \A t \in Scope(goal) \ {"archive"} : t \in todo
    BY <1>1, <1>2, AllDerive DEF BuildInv, PlanInv
  <1>7. ~Outdated("archive")
    BY <1>1, <1>2, <1>5, Scopes DEF BuildInv, PlanInv
  <1>8. PlanInv'
    BY <1>1, <1>2, <1>4, <1>5, <1>6, <1>7 DEF BuildInv, PlanInv, Running, Scope
  <1>9. DoneInv'
    BY <1>1 DEF DoneInv, Running
  <1> QED
    BY <1>4, <1>8, <1>9, NothingTold DEF BuildInv

LEMMA UnpackOkStep ==
    ASSUME TypeOK, BuildInv, UnpackOk \/ UnpackPart
    PROVE  BuildInv'
  <1>1. doing = "unpacked" /\ base' = archive /\ archive' = archive /\ Complete("unpacked")
    BY DEF UnpackOk, UnpackPart
  <1>2. doing # None
    BY <1>1, FilesDiffer DEF Targets, TreeStamps
  <1>3. /\ ClockInv' /\ PlanInv' /\ DoneInv'
        /\ \A t \in Targets \ {"unpacked"} : Outdated(t)' <=> Outdated(t) \/ "unpacked" \in Upstream[t]
    BY <1>1, <1>2, Working, CompleteStep DEF BuildInv
  <1>4. \A s \in Stages : s \in Targets \ {"unpacked"} /\ "unpacked" \in Upstream[s]
    BY AllDerive, FilesDiffer DEF TreeStamps
  <1>5. BaseInv' /\ MadeInv'
    BY <1>1, <1>3, <1>4 DEF BaseInv, MadeInv
  <1> QED
    BY <1>3, <1>5 DEF BuildInv

\* While a stamp of a patch is in the plan, no stage is up to date.
LEMMA StagesOld ==
    ASSUME TypeOK, BuildInv, Running, NEW p \in Patches, StampOf[p] \in todo
    PROVE  \A s \in Stages : Outdated(s)
  <1>1. StampOf[p] \in Targets /\ StampOf[p] # "archive"
    BY FilesDiffer DEF TreeStamps
  <1>2. Outdated(StampOf[p])
    BY <1>1 DEF BuildInv, PlanInv
  <1>3. \A s \in Stages : s \in Targets /\ StampOf[p] \in Upstream[s]
    BY AllDerive, FilesDiffer
  <1> QED
    BY <1>1, <1>2, <1>3, OutdatedSpreads DEF BuildInv

LEMMA TreeChanged ==
    ASSUME BuildInv, UNCHANGED <<clock, base, archive>>, \A s \in Stages : Outdated(s)
    PROVE  BaseInv' /\ MadeInv'
  BY SameClock DEF BuildInv, BaseInv, MadeInv

LEMMA PatchAppliesStep ==
    ASSUME TypeOK, BuildInv, NEW p \in Patches, PatchApplies(p)
    PROVE  BuildInv'
  <1>1. /\ Begin(StampOf[p]) /\ UNCHANGED <<clock, base, archive>>
        /\ Running /\ StampOf[p] \in todo
    BY DEF PatchApplies, Begin, Due
  <1>2. ClockInv' /\ PlanInv' /\ DoneInv'
    BY <1>1, BeginStep
  <1> QED
    BY <1>1, <1>2, StagesOld, TreeChanged DEF BuildInv

LEMMA PatchFailStep ==
    ASSUME TypeOK, BuildInv, NEW p \in Patches, PatchFail(p)
    PROVE  BuildInv'
  <1>1. /\ UNCHANGED <<clock, base, archive>> /\ status' = "failed"
        /\ Running /\ StampOf[p] \in todo
    BY DEF PatchFail, Due, Abort
  <1>2. ClockInv' /\ PlanInv' /\ DoneInv'
    BY <1>1, AbortStep, SameClock DEF BuildInv
  <1> QED
    BY <1>1, <1>2, StagesOld, TreeChanged DEF BuildInv

LEMMA ConfigureBeginStep ==
    ASSUME TypeOK, BuildInv, ConfigureBegin
    PROVE  BuildInv'
  <1>1. /\ Running /\ doing = None /\ "configured" \in todo
        /\ \A u \in todo : Pos("configured") <= Pos(u)
        /\ doing' = "configured" /\ UNCHANGED <<goal, todo, status>>
        /\ Remove(Stages) /\ UNCHANGED <<tree, archive>>
    BY DEF ConfigureBegin, Begin, Due
  <1>2. /\ todo \subseteq Scope(goal) /\ goal \in Goals /\ Scope(goal) \subseteq Targets
        /\ None \notin Targets
        /\ "configured" \in Stages /\ "unpacked" \in Targets \ Stages
    BY <1>1, Scopes, Parts, FilesDiffer DEF BuildInv, PlanInv, RunType, Stages, TreeStamps
  <1>3. /\ ClockInv' /\ \A t \in Stages : Outdated(t)'
        /\ \A t \in Targets \ Stages : Outdated(t)' <=> Outdated(t)
    BY <1>1, StagesGoneStep DEF BuildInv
  <1>4. \A t \in Scope(goal) \cap Stages : t \in todo
    BY <1>1, <1>2, AllDerive DEF BuildInv, PlanInv
  <1>5. \A t \in Scope(goal) : Outdated(t)' => t \in todo
    BY <1>1, <1>2, <1>3, <1>4 DEF BuildInv, PlanInv
  <1>6. \A t \in todo : Outdated(t)'
    BY <1>1, <1>2, <1>3, FilesDiffer DEF BuildInv, PlanInv
  <1>7. PlanInv'
    BY <1>1, <1>2, <1>5, <1>6 DEF BuildInv, PlanInv, Running, Scope
  <1>8. DoneInv'
    BY <1>1 DEF DoneInv, Running
  <1>9. BaseInv' /\ MadeInv'
    BY <1>1, <1>2, <1>3 DEF BuildInv, BaseInv, MadeInv, tree
  <1> QED
    BY <1>3, <1>7, <1>8, <1>9 DEF BuildInv

\* A stage is made of the tree as it is, installing of what was built of it.
LEMMA StageOkStep ==
    ASSUME TypeOK, BuildInv, NEW s \in Stages, StageOk(s)
    PROVE  BuildInv'
  <1>1. doing = s /\ Complete(s) /\ UNCHANGED <<tree, archive>>
    BY DEF StageOk
  <1>2. s \in Targets /\ doing # None /\ "unpacked" \in Targets \ Stages /\ "built" \in Targets
    BY <1>1, FilesDiffer DEF TreeStamps, Stages
  <1>3. /\ Running /\ s \in todo /\ \A u \in todo : Pos(s) <= Pos(u)
    BY <1>1, <1>2, Working DEF BuildInv
  <1>4. /\ ClockInv' /\ PlanInv' /\ DoneInv'
        /\ \A t \in Targets \ {s} : Outdated(t)' <=> Outdated(t) \/ s \in Upstream[t]
    BY <1>1, <1>3, CompleteStep DEF BuildInv
  <1>5. BaseInv'
    BY <1>1, <1>2, <1>4 DEF BuildInv, BaseInv, tree
  <1>6. Tree' = Tree
    BY <1>1 DEF tree, Tree
  <1>7. made'[s] = Tree
    <2>1. made \in [Stages -> Trees \cup {None}]
      BY Parts DEF TreeType
    <2>2. CASE s # "installed"
      BY <2>1, <2>2 DEF StageOk
    <2>3. CASE s = "installed"
      <3>1. ~Outdated("built")
        BY <2>3, <1>2, <1>3, Ready, AllDerive DEF BuildInv
      <3>2. made["built"] = Tree
        BY <3>1 DEF BuildInv, MadeInv, Stages
      <3> QED
        BY <3>2, <2>1, <2>3 DEF StageOk
    <2> QED
      BY <2>2, <2>3
  <1>8. \A t \in Stages \ {s} : made'[t] = made[t] /\ (Outdated(t) => Outdated(t)')
    <2>1. made \in [Stages -> Trees \cup {None}]
      BY Parts DEF TreeType
    <2> QED
      BY <2>1, <1>4, FilesDiffer DEF StageOk
  <1>9. MadeInv'
    BY <1>6, <1>7, <1>8 DEF BuildInv, MadeInv
  <1> QED
    BY <1>4, <1>5, <1>9 DEF BuildInv

\* A run is killed: a tree it was patching has no stage made of it.
LEMMA KillStep ==
    ASSUME TypeOK, BuildInv, Kill
    PROVE  BuildInv'
  <1>1. /\ Running /\ status' = "failed" /\ UNCHANGED <<base, applied, made>>
        /\ damaged' \in IF doing \in Stamps THEN {damaged, TRUE} ELSE {damaged}
        /\ UNCHANGED <<clock, archive>> \/ ArchiveGone
    BY DEF Kill, Abort
  <1>2. PlanInv' /\ DoneInv'
    BY <1>1, AbortStep
  <1>3. CASE ArchiveGone
    <2>1. ClockInv' /\ \A t \in Targets : Outdated(t)'
      BY <1>3, GoneStep DEF BuildInv
    <2> QED
      BY <2>1, <1>2, NothingTold DEF BuildInv
  <1>4. CASE UNCHANGED <<clock, archive>>
    <2>1. ClockInv'
      BY <1>4, SameClock DEF BuildInv
    <2>2. CASE doing \in Stamps
      <3>1. PICK p \in Patches : doing = StampOf[p]
        BY <2>2 DEF Stamps
      <3>2. StampOf[p] \in todo
        BY <3>1, FilesDiffer, Parts DEF RunType
      <3> QED
        BY <3>2, <2>1, <1>1, <1>2, <1>4, StagesOld, TreeChanged DEF BuildInv
    <2>3. CASE doing \notin Stamps
      <3>1. UNCHANGED <<tree, made, archive>>
        BY <2>3, <1>1, <1>4 DEF tree
      <3> QED
        BY <3>1, <2>1, <1>2, <1>4, SameClock, StampsKept DEF BuildInv
    <2> QED
      BY <2>2, <2>3
  <1> QED
    BY <1>1, <1>3, <1>4

\* Files are edited, other archives arrive, "gmake clean" is run.
LEMMA EnvironmentStep ==
    ASSUME TypeOK, BuildInv, Environment
    PROVE  BuildInv'
  <1>1. CASE Clean
    <2>1. Remove(TreeStamps \cup Stages) /\ status' = "idle"
      BY <1>1 DEF Clean
    <2> QED
      BY <2>1, CleanStep, AbortStep, NothingTold DEF BuildInv
  <1>2. CASE \/ \E c \in Contents : EditRecipe(c)
             \/ \E p \in Patches, t \in Texts : EditPatch(p, t)
             \/ OtherArchive
    <2>1. /\ \E x \in Leaves : Touch(x)
          /\ status' = "idle" /\ UNCHANGED <<tree, made, archive>>
      BY <1>2 DEF EditRecipe, EditPatch, OtherArchive, Edit, Leaves
    <2>2. ClockInv' /\ \A t \in Targets : Outdated(t) => Outdated(t)'
      BY <2>1, LeafStep DEF BuildInv
    <2>3. {"unpacked"} \cup Stages \subseteq Targets
      BY FilesDiffer DEF TreeStamps
    <2> QED
      BY <2>1, <2>2, <2>3, AbortStep, StampsKept DEF BuildInv
  <1> QED
    BY <1>1, <1>2 DEF Environment

LEMMA NextBuild == TypeOK /\ BuildInv /\ [Next]_vars => BuildInv'
  <1> SUFFICES ASSUME TypeOK, BuildInv, [Next]_vars
               PROVE  BuildInv'
    OBVIOUS
  <1>1. CASE UNCHANGED vars
    <2>1. UNCHANGED <<clock, run>> /\ UNCHANGED <<tree, made, archive>>
      BY <1>1 DEF vars
    <2>2. ClockInv' /\ \A t : Outdated(t)' <=> Outdated(t)
      BY <2>1, SameClock DEF BuildInv
    <2>3. PlanInv' /\ DoneInv'
      BY <2>1, <2>2 DEF run, BuildInv, PlanInv, DoneInv, Running, Scope
    <2> QED
      BY <2>1, <2>2, <2>3, StampsKept DEF BuildInv
  <1>2. CASE Recipe
    BY <1>2, FinishStep, PlainBeginStep, FetchWritesStep, PlainEndStep, PlainFailStep,
       UnpackBeginStep, UnpackOkStep, PatchAppliesStep, PatchFailStep, ConfigureBeginStep,
       StageOkStep DEF Recipe
  <1> QED
    BY <1>1, <1>2, KillStep, EnvironmentStep, StartStep DEF Next

\* Times, plan, tree and stages agree at every step of gmake, of an editor and of
\* a kill: what is not out of date was made from what is there.
THEOREM BuildInvariant == Spec => []BuildInv
  BY InitBuild, NextBuild, TypeCorrect, PTL DEF Spec

\* What gmake remakes does not depend on the order in which it reads the times:
\* whichever plan a run starts with, it is what is out of date of the goal.
THEOREM PlansAgree == Spec => PlanIsOutdated
  <1>1. TypeOK /\ BuildInv /\ [Next]_vars =>
           [~Running /\ Running' => todo' = {t \in Scope(goal') : Outdated(t)}]_vars
    <2> SUFFICES ASSUME TypeOK, BuildInv, Next, ~Running, Running'
                 PROVE  todo' = {t \in Scope(goal') : Outdated(t)}
      OBVIOUS
    <2>1. PICK g \in Goals : Start(g)
      <3>1. ~Recipe
        <4>1. doing = None
          BY Parts DEF RunType, Running
        <4>2. /\ "archive" # None /\ "unpacked" # None
              /\ (\A p \in Patches : StampOf[p] # None) /\ \A s \in Stages : s # None
          BY FilesDiffer DEF Targets, TreeStamps
        <4> QED
          BY <4>1, <4>2 DEF Recipe, Finish, FetchBegin, FetchWrites, FetchOk, FetchFail,
             UnpackBegin, UnpackOk, UnpackPart, UnpackFail, PatchApplies, PatchOk, PatchFail, Mark,
             ConfigureBegin, StageBegin, StageOk, StageFail, Begin, Due
      <3>2. ~Kill
        BY DEF Kill
      <3>3. ~Environment
        BY DEF Environment, EditRecipe, EditPatch, OtherArchive, Edit, Clean, Running
      <3> QED
        BY <3>1, <3>2, <3>3 DEF Next
    <2> QED
      BY <2>1, StartStep
  <1> QED
    BY <1>1, TypeCorrect, BuildInvariant, PTL DEF Spec, PlanIsOutdated

\* FETCH runs only while the archive is the target. An archive that is not out of
\* date is the one the recipe asks for, unless the last FETCH failed.
FetchInv ==
    /\ fetch = "fetching" => doing = "archive"
    /\ ~Outdated("archive") /\ fetch # "failed" /\ doing # "archive" => archive = recipe

\* A patch that is in the tree is not applied again: its stamp vouches for it, or
\* is going to, or the tree is unpacked again first.
WholeInv ==
    /\ whole => ~damaged
    /\ doing = "unpacked" => applied = Unpatched /\ ~damaged /\ ~whole
    /\ \A p \in Patches :
          whole /\ applied[p] # None =>
             ~Outdated(StampOf[p]) \/ Outdated("unpacked") \/ doing = StampOf[p]

\* Writing another file makes nothing new.
LEMMA TouchKeepsOld ==
    ASSUME ClockInv, NEW x \in Files, Touch(x), NEW t \in Targets, t # x, Outdated(t)
    PROVE  Outdated(t)'
  <1>1. /\ exists \in SUBSET Files /\ later \in Times
        /\ exists' = exists \cup {x} /\ later' = After(later, exists, x)
    BY DEF ClockInv, Clock, Recorded, Touch
  <1>2. CASE t \notin exists
    BY <1>1, <1>2 DEF Outdated
  <1>3. CASE t \in exists
    <2>1. PICK f \in Upstream[t] : <<f, t>> \in later
      BY <1>3 DEF Outdated
    <2>2. f \in Files
      BY <2>1, UpstreamIn
    <2>3. <<f, t>> \in later'
      BY <1>1, <1>3, <2>1, <2>2, AfterPair
    <2> QED
      BY <2>1, <2>3 DEF Outdated
  <1> QED
    BY <1>2, <1>3

\* It makes nothing old that does not derive from it.
LEMMA TouchKeepsNew ==
    ASSUME ClockInv, NEW x \in Files, Touch(x), NEW t \in Targets, t # x,
           x \notin Upstream[t], Outdated(t)'
    PROVE  Outdated(t)
  <1>1. /\ exists \in SUBSET Files /\ later \in Times
        /\ exists' = exists \cup {x} /\ later' = After(later, exists, x)
    BY DEF ClockInv, Clock, Recorded, Touch
  <1>2. CASE t \notin exists'
    BY <1>1, <1>2 DEF Outdated
  <1>3. CASE t \in exists'
    <2>1. PICK f \in Upstream[t] : <<f, t>> \in later'
      BY <1>3 DEF Outdated
    <2>2. f \in Files
      BY <2>1, UpstreamIn
    <2>3. <<f, t>> \in later
      BY <1>1, <2>1, <2>2, AfterPair
    <2> QED
      BY <2>1, <2>3 DEF Outdated
  <1> QED
    BY <1>2, <1>3

LEMMA RemoveKeepsOld ==
    ASSUME NEW S, Remove(S), NEW t \in Targets, Upstream[t] \cap S = {}, Outdated(t)
    PROVE  Outdated(t)'
  BY DEF Remove, Outdated

LEMMA UnpackedDerives ==
    "unpacked" \in Targets /\ Upstream["unpacked"] \cap (TreeStamps \cup Stages) = {}
  <1>1. "unpacked" \in TreeStamps
    BY DEF TreeStamps
  <1>2. "unpacked" \in Targets \ Stages
    BY <1>1, FilesDiffer
  <1> QED
    BY <1>2, NoCycle

\* The stamp of a patch derives from the archive and the unpacked tree only.
LEMMA StampDerives ==
    \A p \in Patches : Upstream[StampOf[p]] \cap Targets \subseteq {"archive", "unpacked"}
  <1> SUFFICES ASSUME NEW p \in Patches, NEW f \in Upstream[StampOf[p]] \cap Targets
               PROVE  f \in {"archive", "unpacked"}
    OBVIOUS
  <1>1. /\ StampOf[p] \in Stamps /\ StampOf[p] \in Targets
        /\ Patches \cap Targets = {} /\ "Makefile" \notin Targets
    BY FilesDiffer, TargetsDerive DEF Leaves
  <1>2. Prereqs[StampOf[p]] \cap Targets = {"unpacked"} /\ "unpacked" \in Targets
    BY <1>1, Rules, FilesDiffer DEF Targets, TreeStamps
  <1>3. f = "unpacked" \/ f \in Upstream["unpacked"]
    BY <1>1, <1>2, UpstreamFirst
  <1> QED
    BY <1>3, UnpackedDerives DEF Targets

\* Only FETCH makes an archive that was out of date pass for a new one.
LEMMA ArchiveStaysOld ==
    ASSUME TypeOK, BuildInv, [Next]_vars, doing # "archive", Outdated("archive")
    PROVE  Outdated("archive")'
  <1>1. /\ "archive" \in Targets /\ "archive" \notin TreeStamps \cup Stages
        /\ Upstream["archive"] \cap Targets = {} /\ TreeStamps \cup Stages \subseteq Targets
    BY NoCycle, FilesDiffer DEF Targets, TreeStamps, Stages, Patched
  <1>2. CASE UNCHANGED clock
    BY <1>2, SameClock
  <1>3. CASE \E x \in Files \ {"archive"} : Touch(x)
    BY <1>1, <1>3, TouchKeepsOld DEF BuildInv
  <1>4. CASE \E S \in SUBSET (TreeStamps \cup Stages) : Remove(S)
    <2>1. PICK S \in SUBSET (TreeStamps \cup Stages) : Remove(S)
      BY <1>4
    <2>2. Upstream["archive"] \cap S = {}
      BY <1>1
    <2> QED
      BY <2>1, <2>2, <1>1, RemoveKeepsOld
  <1>5. CASE Recipe
    <2>1. CASE Finish \/ FetchBegin \/ UnpackFail
      BY <2>1, <1>2 DEF Finish, FetchBegin, UnpackFail
    <2>2. CASE FetchWrites \/ FetchOk \/ FetchFail
      BY <2>2 DEF FetchWrites, FetchOk, FetchFail
    <2>3. CASE UnpackBegin \/ ConfigureBegin
      BY <2>3, <1>4 DEF UnpackBegin, ConfigureBegin
    <2>4. CASE UnpackOk \/ UnpackPart
      <3>1. "unpacked" \in Files \ {"archive"}
        BY DEF Files, Targets, TreeStamps
      <3> QED
        BY <2>4, <3>1, <1>3 DEF UnpackOk, UnpackPart, Complete
    <2>5. ASSUME NEW p \in Patches, PatchApplies(p) \/ PatchOk(p) \/ PatchFail(p)
          PROVE  Outdated("archive")'
      <3>1. StampOf[p] \in Files \ {"archive"}
        BY FilesDiffer
      <3> QED
        BY <2>5, <3>1, <1>2, <1>3 DEF PatchApplies, PatchOk, PatchFail, Complete
    <2>6. ASSUME NEW t \in {"patched", "prep"}, Mark(t)
          PROVE  Outdated("archive")'
      <3>1. t \in Files \ {"archive"}
        BY <2>6, Parts DEF Mark, Due, RunType, Files
      <3> QED
        BY <2>6, <3>1, <1>3 DEF Mark, Complete
    <2>7. ASSUME NEW s \in Stages, StageBegin(s) \/ StageOk(s) \/ StageFail(s)
          PROVE  Outdated("archive")'
      <3>1. s \in Files \ {"archive"}
        BY <1>1, FilesDiffer
      <3> QED
        BY <2>7, <3>1, <1>2, <1>3 DEF StageBegin, StageOk, StageFail, Complete
    <2> QED
      BY <1>5, <2>1, <2>2, <2>3, <2>4, <2>5, <2>6, <2>7 DEF Recipe
  <1>6. CASE Kill
    BY <1>6, <1>2 DEF Kill
  <1>7. CASE Environment
    <2>1. CASE Clean
      BY <2>1, <1>4 DEF Clean
    <2>2. CASE ~Clean
      <3>1. \E x \in Leaves : Touch(x)
        BY <1>7, <2>2 DEF Environment, EditRecipe, EditPatch, OtherArchive, Leaves
      <3>2. Leaves \subseteq Files \ {"archive"}
        BY <1>1, TargetsDerive DEF Files
      <3> QED
        BY <3>1, <3>2, <1>3
    <2> QED
      BY <2>1, <2>2
  <1>8. CASE UNCHANGED vars \/ \E g \in Goals : Start(g)
    BY <1>8, <1>2 DEF vars, Start
  <1> QED
    BY <1>5, <1>6, <1>7, <1>8 DEF Next

LEMMA InitFetchWhole == Init => FetchInv /\ WholeInv
  <1> SUFFICES ASSUME Init PROVE FetchInv /\ WholeInv
    OBVIOUS
  <1>1. "archive" \in Targets /\ "archive" \notin exists /\ doing = None /\ None # "unpacked"
    BY TargetsDerive, FilesDiffer DEF Init, Targets, TreeStamps
  <1> QED
    BY <1>1 DEF Init, FetchInv, WholeInv, Outdated

\* The archive is what the last good FETCH made of the recipe as it is.
LEMMA FetchInvStep ==
    ASSUME TypeOK, BuildInv, FetchInv, [Next]_vars
    PROVE  FetchInv'
  <1>0. /\ \A p \in Patches : StampOf[p] # "archive"
        /\ None # "archive" /\ "archive" \notin Stages
    BY FilesDiffer DEF Targets, Stages
  <1>1. CASE /\ UNCHANGED <<recipe, archive, fetch>>
             /\ doing # "archive"
    BY <1>1, ArchiveStaysOld DEF FetchInv
  <1>2. CASE FetchBegin
    BY <1>2 DEF FetchBegin, Begin, FetchInv
  <1>3. CASE FetchWrites
    BY <1>3 DEF FetchWrites, run, FetchInv
  <1>4. CASE FetchOk
    BY <1>4 DEF FetchOk, inputs, Promise!Succeed, FetchInv
  <1>5. CASE FetchFail
    BY <1>5 DEF FetchFail, FetchInv
  <1>6. CASE Kill
    <2>1. CASE doing = "archive"
      BY <1>6, <2>1 DEF Kill, FetchInv
    <2>2. CASE doing # "archive"
      BY <1>6, <2>2, <1>1 DEF Kill, inputs
    <2> QED
      BY <2>1, <2>2
  <1>7. ASSUME NEW c \in Contents, EditRecipe(c)
        PROVE  FetchInv'
    <2>1. Touch("Makefile") /\ doing = None /\ UNCHANGED <<doing, fetch>>
      BY <1>7, Parts DEF EditRecipe, Edit, Running, RunType
    <2>2. "Makefile" \in Leaves /\ "archive" \in Targets
      BY DEF Leaves, Targets
    <2>3. "Makefile" \in Upstream["archive"]
      BY <2>2, Rules, PrereqsUpstream
    <2>4. Outdated("archive")'
      BY <2>1, <2>2, <2>3, LeafStep DEF BuildInv
    <2> QED
      BY <2>1, <2>4, <1>0 DEF FetchInv
  <1>8. CASE UNCHANGED vars
    <2>1. Outdated("archive")' <=> Outdated("archive")
      BY <1>8, SameClock DEF vars
    <2> QED
      BY <1>8, <2>1 DEF vars, inputs, run, FetchInv
  <1>9. CASE Recipe /\ ~(FetchBegin \/ FetchWrites \/ FetchOk \/ FetchFail)
    <2>1. UNCHANGED <<recipe, archive, fetch>>
      BY <1>9 DEF Recipe, Finish, UnpackBegin, UnpackOk, UnpackPart, UnpackFail, PatchApplies,
         PatchOk, PatchFail, Mark, ConfigureBegin, StageBegin, StageOk, StageFail, inputs
    <2>2. doing # "archive"
      BY <1>9, <1>0 DEF Recipe, Finish, UnpackBegin, UnpackOk, UnpackPart, UnpackFail, PatchApplies,
         PatchOk, PatchFail, Mark, ConfigureBegin, StageBegin, StageOk, StageFail, Begin, Due
    <2> QED
      BY <2>1, <2>2, <1>1
  <1>10. CASE Clean \/ OtherArchive \/ (\E p \in Patches, t \in Texts : EditPatch(p, t))
              \/ \E g \in Goals : Start(g)
    <2>1. doing = None
      BY <1>10, Parts DEF Clean, OtherArchive, EditPatch, Edit, Start, Running, RunType
    <2>2. UNCHANGED <<recipe, archive, fetch>>
      BY <1>10 DEF Clean, OtherArchive, EditPatch, Start, inputs
    <2> QED
      BY <2>1, <2>2, <1>0, <1>1
  <1> QED
    BY <1>2, <1>3, <1>4, <1>5, <1>6, <1>7, <1>8, <1>9, <1>10 DEF Next, Environment

\* What the tree holds stays as it is, no stamp of a patch in it becomes old.
LEMMA WholeKept ==
    ASSUME WholeInv, UNCHANGED <<applied, damaged>>, whole' => whole,
           doing' = "unpacked" => doing = "unpacked",
           \A p \in Patches : /\ Outdated(StampOf[p])' => Outdated(StampOf[p]) \/ Outdated("unpacked")'
                              /\ doing = StampOf[p] => ~whole' \/ doing' = StampOf[p],
           Outdated("unpacked") => Outdated("unpacked")'
    PROVE  WholeInv'
  BY DEF WholeInv

\* The tree is going to be unpacked again.
LEMMA WholeOver ==
    ASSUME WholeInv, UNCHANGED <<applied, damaged>>, whole' => whole,
           doing' = "unpacked" => doing = "unpacked", Outdated("unpacked")'
    PROVE  WholeInv'
  BY DEF WholeInv

\* Targets that no stamp of a patch derives from are made.
LEMMA WholeMade ==
    ASSUME TypeOK, BuildInv, WholeInv, NEW x \in Targets \ (Stamps \cup {"archive", "unpacked"}),
           Complete(x), doing \in {x, None}, UNCHANGED <<applied, damaged, whole>>
    PROVE  WholeInv'
  <1>1. /\ x \in Files /\ "unpacked" \in Targets /\ x # "unpacked" /\ None # "unpacked"
        /\ \A p \in Patches : StampOf[p] \in Targets /\ StampOf[p] # x /\ StampOf[p] # None
    BY FilesDiffer DEF Targets, TreeStamps
  <1>2. x \notin Upstream["unpacked"]
    <2>1. x \in TreeStamps \/ x \in Stages
      BY DEF Targets
    <2> QED
      BY <2>1, UnpackedDerives
  <1>3. \A p \in Patches : x \notin Upstream[StampOf[p]]
    BY StampDerives
  <1>4. Touch(x) /\ doing' = None
    BY DEF Complete
  <1>5. \A p \in Patches : Outdated(StampOf[p])' => Outdated(StampOf[p])
    BY <1>1, <1>3, <1>4, TouchKeepsNew DEF BuildInv
  <1>6. Outdated("unpacked") => Outdated("unpacked")'
    BY <1>1, <1>4, TouchKeepsOld DEF BuildInv
  <1> QED
    BY <1>1, <1>4, <1>5, <1>6, WholeKept

\* The stamp of a patch vouches for it as soon as it is made.
LEMMA WholePatched ==
    ASSUME TypeOK, BuildInv, WholeInv, NEW q \in Patches, PatchOk(q)
    PROVE  WholeInv'
  <1>1. /\ doing = StampOf[q] /\ Complete(StampOf[q]) /\ UNCHANGED <<applied, damaged, whole>>
        /\ doing' = None /\ Touch(StampOf[q])
    BY DEF PatchOk, Complete, tree, history
  <1>2. /\ StampOf[q] \in Files /\ StampOf[q] \in TreeStamps /\ StampOf[q] # "unpacked"
        /\ doing # None /\ None # "unpacked" /\ "unpacked" \in Targets
        /\ StampOf[q] \notin {"archive", "unpacked"} /\ StampOf[q] \in Targets
        /\ \A p \in Patches : StampOf[p] \in Targets
    BY <1>1, FilesDiffer DEF Targets, TreeStamps
  <1>3. ~Outdated(StampOf[q])'
    BY <1>1, <1>2, Working, CompleteStep DEF BuildInv
  <1>4. Outdated("unpacked") => Outdated("unpacked")'
    BY <1>1, <1>2, TouchKeepsOld DEF BuildInv
  <1>5. \A p \in Patches : p # q => StampOf[p] # StampOf[q]
    BY BuildAssumption
  <1>6. ASSUME NEW p \in Patches, p # q, Outdated(StampOf[p])'
        PROVE  Outdated(StampOf[p])
    <2>1. StampOf[q] \notin Upstream[StampOf[p]]
      BY <1>2, StampDerives
    <2> QED
      BY <2>1, <1>1, <1>2, <1>5, <1>6, TouchKeepsNew DEF BuildInv
  <1> QED
    BY <1>1, <1>2, <1>3, <1>4, <1>5, <1>6 DEF WholeInv

\* gmake applies a patch when its stamp is out of date and the tree is not: then
\* the tree does not hold the patch yet.
LEMMA WholeApplied ==
    ASSUME TypeOK, BuildInv, WholeInv, NEW q \in Patches, PatchApplies(q)
    PROVE  WholeInv'
  <1>1. /\ Running /\ doing = None /\ StampOf[q] \in todo
        /\ \A u \in todo : Pos(StampOf[q]) <= Pos(u)
        /\ doing' = StampOf[q] /\ UNCHANGED clock /\ UNCHANGED whole
        /\ applied' = [applied EXCEPT ![q] = text[q]]
        /\ damaged' = (damaged \/ applied[q] # None)
    BY DEF PatchApplies, Begin, Due, history
  <1>2. /\ StampOf[q] \in Targets /\ StampOf[q] \notin {"archive", "unpacked"}
        /\ "unpacked" \in Upstream[StampOf[q]] /\ "unpacked" \in Targets
        /\ \A p \in Patches : StampOf[p] # None
        /\ applied \in [Patches -> Texts \cup {None}]
    BY FilesDiffer, AllDerive, Parts DEF Targets, TreeStamps, TreeType
  <1>3. ~Outdated("unpacked") /\ Outdated(StampOf[q])
    BY <1>1, <1>2, Ready DEF BuildInv, PlanInv
  <1>4. whole => applied[q] = None
    BY <1>1, <1>2, <1>3 DEF WholeInv
  <1>5. \A t : Outdated(t)' <=> Outdated(t)
    BY <1>1, SameClock
  <1> QED
    BY <1>1, <1>2, <1>4, <1>5 DEF WholeInv

LEMMA WholeInvStep ==
    ASSUME TypeOK, BuildInv, WholeInv, [Next]_vars
    PROVE  WholeInv'
  <1>0. /\ \A p \in Patches : StampOf[p] \notin {"archive", "unpacked", "patched", "prep", None}
        /\ \A p \in Patches : StampOf[p] \notin Stages /\ StampOf[p] \in Stamps
        /\ {"archive", "unpacked", "prep"} \cup Stages \subseteq Targets /\ None \notin Targets
        /\ Stages \cap (Stamps \cup {"archive", "unpacked"}) = {}
        /\ {"patched", "prep"} \cap (Stamps \cup {"archive", "unpacked"}) = {}
    BY FilesDiffer DEF Targets, TreeStamps, Stages
  <1>c. ~Running => doing = None
    BY Parts DEF RunType, Running
  \* Steps that leave the clock alone.
  <1>1. CASE /\ UNCHANGED <<clock, applied, damaged, whole>>
             /\ doing' = "unpacked" => doing = "unpacked"
             /\ doing \in Stamps => doing' = doing
    <2>1. \A t : Outdated(t)' <=> Outdated(t)
      BY <1>1, SameClock
    <2> QED
      BY <1>0, <1>1, <2>1, WholeKept
  <1>2. CASE Recipe
    <2>1. CASE Finish \/ FetchBegin \/ FetchFail \/ UnpackFail
      <3>1. doing \in {None, "archive", "unpacked"} /\ doing' \in {None, "archive"}
        BY <2>1 DEF Finish, FetchBegin, FetchFail, UnpackFail, Begin, Due, Abort
      <3>2. UNCHANGED <<clock, applied, damaged, whole>>
        BY <2>1 DEF Finish, FetchBegin, FetchFail, UnpackFail, tree, history
      <3>3. None \notin Stamps /\ "archive" \notin Stamps /\ "unpacked" \notin Stamps
            /\ None # "unpacked"
        BY <1>0 DEF Stamps
      <3> QED
        BY <3>1, <3>2, <3>3, <1>1
    <2>2. CASE FetchWrites \/ FetchOk
      <3>1. /\ doing = "archive" /\ doing' \in {None, "archive"}
            /\ UNCHANGED <<applied, damaged, whole>>
        BY <2>2 DEF FetchWrites, FetchOk, Complete, run, tree, history
      <3>2. Outdated("unpacked")'
        <4>1. CASE FetchWrites /\ archive' = None
          BY <4>1, <1>0, GoneStep DEF FetchWrites, BuildInv
        <4>2. CASE FetchWrites /\ archive' # None
          BY <4>2, <1>0, WrittenStep DEF FetchWrites, BuildInv
        <4>3. CASE FetchOk
          <5>1. /\ "archive" \in Upstream["unpacked"] /\ "unpacked" # "archive"
                /\ doing # None
            BY <1>0, <3>1, AllDerive
          <5>2. /\ Complete("archive")
                /\ Running /\ doing \in todo /\ \A u \in todo : Pos(doing) <= Pos(u)
            BY <4>3, <5>1, Working DEF FetchOk, BuildInv
          <5> QED
            BY <5>1, <5>2, <3>1, <1>0, CompleteStep DEF BuildInv
        <4> QED
          BY <2>2, <4>1, <4>2, <4>3
      <3> QED
        BY <3>1, <3>2, <1>0, WholeOver
    <2>3. CASE UnpackBegin
      BY <2>3, <1>0 DEF UnpackBegin, Unpatched, WholeInv
    <2>4. CASE UnpackOk \/ UnpackPart
      <3>1. doing = "unpacked" /\ doing' = None /\ applied' = applied
        BY <2>4 DEF UnpackOk, UnpackPart, Complete
      <3>2. applied' = Unpatched
        BY <3>1 DEF WholeInv
      <3>3. whole' => ~damaged'
        BY <2>4, <3>1 DEF UnpackOk, UnpackPart, WholeInv, history
      <3> QED
        BY <3>1, <3>2, <3>3, <1>0 DEF WholeInv, Unpatched
    <2>5. ASSUME NEW p \in Patches, PatchFail(p)
          PROVE  WholeInv'
      BY <2>5, <1>0 DEF PatchFail, Abort, WholeInv
    <2>6. ASSUME NEW t \in {"patched", "prep"}, Mark(t)
          PROVE  WholeInv'
      <3>1. /\ t \in Targets \ (Stamps \cup {"archive", "unpacked"}) /\ Complete(t)
            /\ doing = None /\ UNCHANGED <<applied, damaged, whole>>
        BY <2>6, <1>0, Parts DEF Mark, Due, RunType, tree, history
      <3> QED
        BY <3>1, WholeMade
    <2>7. ASSUME NEW s \in Stages, StageOk(s)
          PROVE  WholeInv'
      <3>1. /\ s \in Targets \ (Stamps \cup {"archive", "unpacked"}) /\ Complete(s)
            /\ doing = s /\ UNCHANGED <<applied, damaged, whole>>
        BY <2>7, <1>0 DEF StageOk, tree, history
      <3> QED
        BY <3>1, WholeMade
    <2>8. ASSUME NEW s \in Stages, StageBegin(s) \/ StageFail(s)
          PROVE  WholeInv'
      <3>1. doing \in {None, s} /\ doing' \in {None, s}
        BY <2>8 DEF StageBegin, StageFail, Begin, Due, Abort
      <3>2. UNCHANGED <<clock, applied, damaged, whole>>
        BY <2>8 DEF StageBegin, StageFail, tree, history
      <3>3. None \notin Stamps /\ s \notin Stamps /\ None # "unpacked" /\ s # "unpacked"
        BY <1>0 DEF Stamps
      <3> QED
        BY <3>1, <3>2, <3>3, <1>1
    <2>9. CASE ConfigureBegin
      <3>1. /\ doing = None /\ doing' = "configured" /\ Remove(Stages)
            /\ UNCHANGED <<applied, damaged, whole>>
        BY <2>9 DEF ConfigureBegin, Begin, Due, tree, history
      <3>2. \A t \in Targets \ Stages : Outdated(t)' <=> Outdated(t)
        BY <3>1, StagesGoneStep DEF BuildInv
      <3>3. \A p \in Patches : StampOf[p] \in Targets \ Stages
        BY <1>0, FilesDiffer
      <3>4. "unpacked" \in Targets \ Stages /\ "configured" # "unpacked"
        BY <1>0
      <3> QED
        BY <3>1, <3>2, <3>3, <3>4, <1>0, WholeKept
    <2> QED
      BY <1>2, <2>1, <2>2, <2>3, <2>4, <2>5, <2>6, <2>7, <2>8, <2>9, WholePatched, WholeApplied
         DEF Recipe
  <1>3. CASE Kill
    <2>1. /\ UNCHANGED applied /\ doing' = None
          /\ damaged' \in IF doing \in Stamps THEN {damaged, TRUE} ELSE {damaged}
          /\ whole' = (whole /\ doing \notin Stamps)
          /\ UNCHANGED clock \/ ArchiveGone
      BY <1>3 DEF Kill, Abort
    <2>2. CASE doing \in Stamps
      BY <2>1, <2>2, <1>0 DEF WholeInv
    <2>3. CASE doing \notin Stamps /\ UNCHANGED clock
      <3>1. whole' = whole
        <4>1. CASE whole = TRUE
          BY <4>1, <2>1, <2>3
        <4>2. CASE whole # TRUE
          BY <4>2, <2>1, Parts DEF CountType
        <4> QED
          BY <4>1, <4>2
      <3>2. UNCHANGED <<clock, applied, damaged, whole>>
        BY <3>1, <2>1, <2>3
      <3> QED
        BY <2>1, <2>3, <3>2, <1>0, <1>1
    <2>4. CASE doing \notin Stamps /\ ArchiveGone
      <3>1. Outdated("unpacked")'
        BY <2>4, <1>0, GoneStep DEF BuildInv
      <3>2. damaged' = damaged
        BY <2>1, <2>4
      <3> QED
        BY <3>1, <3>2, <2>1, <1>0, WholeOver
    <2> QED
      BY <2>1, <2>2, <2>3, <2>4
  <1>4. CASE Environment
    <2>1. CASE Clean
      BY <2>1, <1>0, <1>c DEF Clean, WholeInv, Unpatched
    <2>2. ASSUME NEW p \in Patches, NEW t \in Texts, EditPatch(p, t)
          PROVE  WholeInv'
      BY <2>2, <1>0, <1>c DEF EditPatch, Edit, tree, WholeInv
    <2>3. CASE OtherArchive \/ \E c \in Contents : EditRecipe(c)
      <3>1. /\ doing = None /\ doing' = None /\ UNCHANGED <<applied, damaged, whole>>
            /\ \E x \in {"Makefile", "dir"} : Touch(x)
        BY <2>3, <1>c DEF OtherArchive, EditRecipe, Edit, tree
      <3>2. {"Makefile", "dir"} \subseteq Upstream["unpacked"]
        BY <1>0, Rules, PrereqsUpstream
      <3>3. Outdated("unpacked")'
        BY <3>1, <3>2, <1>0, LeafStep DEF BuildInv, Leaves
      <3> QED
        BY <3>1, <3>3, <1>0, WholeOver
    <2> QED
      BY <1>4, <2>1, <2>2, <2>3 DEF Environment
  <1>5. ASSUME NEW g \in Goals, Start(g)
        PROVE  WholeInv'
    <2>1. doing = None /\ doing' = None /\ UNCHANGED <<clock, applied, damaged, whole>>
      BY <1>5, <1>c DEF Start, tree, history
    <2> QED
      BY <2>1, <1>0, <1>1
  <1>6. CASE UNCHANGED vars
    BY <1>6, <1>1 DEF vars, tree, history, run
  <1> QED
    BY <1>2, <1>3, <1>4, <1>5, <1>6 DEF Next

\* An archive that is not out of date is the recipe's, a tree that was unpacked
\* completely has each patch once, at every step of gmake, of an editor, of a kill.
THEOREM FetchWholeInvariant == Spec => [](FetchInv /\ WholeInv)
  <1>1. TypeOK /\ BuildInv /\ FetchInv /\ WholeInv /\ [Next]_vars => FetchInv' /\ WholeInv'
    BY FetchInvStep, WholeInvStep
  <1> QED
    BY <1>1, InitFetchWhole, TypeCorrect, BuildInvariant, PTL DEF Spec

LEMMA GoalDone ==
    ASSUME TypeOK, BuildInv, status = "ok"
    PROVE  Settled /\ (StampInv /\ FetchInv /\ WholeInv => ProductIsFresh)
  <1>1. /\ goal \in Goals /\ \A t \in Scope(goal) : ~Outdated(t)
        /\ doing = None /\ None # "archive"
    BY Parts, FilesDiffer DEF RunType, BuildInv, DoneInv, Targets
  <1>2. Settled
    BY <1>1, Scopes DEF Settled
  <1>3. ASSUME goal \in {"build", "install"}, StampInv, FetchInv
        PROVE  /\ \A s \in Stages \cap Scope(goal) : made[s] = Tree
               /\ base = archive /\ (fetch # "failed" => base = recipe)
               /\ \A p \in Patches : applied[p] = text[p]
    <2>1. TreeStamps \subseteq Scope(goal) /\ "archive" \in Scope(goal)
      BY <1>1, <1>3, Scopes
    <2>2. ASSUME NEW p \in Patches
          PROVE  applied[p] = text[p]
      <3>1. ~Outdated(StampOf[p]) /\ p \in Upstream[StampOf[p]]
        BY <2>1, <1>1, FilesDiffer, StampNeedsPatch
      <3> QED
        BY <3>1, <1>3 DEF Outdated, StampInv, PatchStampTells
    <2>3. base = archive
      BY <2>1, <1>1 DEF BuildInv, BaseInv, TreeStamps
    <2>4. fetch # "failed" => archive = recipe
      BY <2>1, <1>1, <1>3 DEF FetchInv
    <2> QED
      BY <2>2, <2>3, <2>4, <1>1 DEF BuildInv, MadeInv
  <1> QED
    BY <1>2, <1>3 DEF ProductIsFresh, WholeInv

\* gmake says a component is built only when it was made from the tree, the
\* archive and the patches as they are, whatever was edited or killed before: the
\* archive the recipe asks for, unless the last FETCH failed, each patch applied
\* once, unless the unpacking was cut short or a patch was edited, failed or was
\* interrupted since.
THEOREM BuildsAreFresh == Spec => []ProductIsFresh
  <1>1. TypeOK /\ BuildInv /\ StampInv /\ FetchInv /\ WholeInv => ProductIsFresh
    BY GoalDone DEF ProductIsFresh
  <1> QED
    BY <1>1, TypeCorrect, BuildInvariant, FetchWholeInvariant, StampsHold, PTL

\* After a run that ended well a second one of the same goal makes nothing.
THEOREM DoneIsSettled == Spec => []Settled
  <1>1. TypeOK /\ BuildInv => Settled
    BY GoalDone DEF Settled
  <1> QED
    BY <1>1, TypeCorrect, BuildInvariant, PTL
=============================================================================
