------------------------ MODULE ComponentBuildProofs ------------------------
(***************************************************************************)
(* Proofs about ComponentBuild, for any series of patches, any contents of *)
(* recipes, patches and archives, and any number of edits and kills.       *)
(***************************************************************************)
EXTENDS ComponentBuild, TLAPS

\* The files the rules name are all different.
LEMMA FilesDiffer ==
    /\ Stamps \subseteq TreeStamps /\ TreeStamps \subseteq Targets /\ Stages \subseteq Targets
    /\ Targets \subseteq Files /\ Patches \subseteq Files
    /\ \A p \in Patches : StampOf[p] \in Stamps /\ p # StampOf[p]
    /\ \A p \in Patches : p \notin Targets \ Stamps /\ p \notin {"Makefile", "dir"}
    /\ Stamps \cap (Stages \cup {"archive", "unpacked", "patched", "prep", "Makefile", "dir"}) = {}
    /\ Stages \cap TreeStamps = {} /\ None \notin Files
    /\ \A p, q \in Patches : p # StampOf[q]
  <1>1. /\ Stamps \subseteq TreeStamps /\ TreeStamps \subseteq Targets
        /\ Stages \subseteq Targets
        /\ Targets \subseteq Files /\ Patches \subseteq Files
    BY DEF TreeStamps, Targets, Leaves, Files
  <1>2. \A p \in Patches : StampOf[p] \in Stamps
    BY DEF Stamps
  <1>3. Stamps \cap Patches = {}
    BY BuildAssumption DEF Leaves
  <1>4. \A p, q \in Patches : p # StampOf[q]
    BY <1>2, <1>3
  <1>5. \A p \in Patches : p \notin {"Makefile", "dir"}
    BY BuildAssumption
  <1>6. \A p \in Patches : p \notin Targets \ Stamps
    BY BuildAssumption DEF Targets, TreeStamps, Patched
  <1>7. Stamps \cap (Stages \cup {"archive", "unpacked", "patched", "prep", "Makefile", "dir"}) = {}
    BY BuildAssumption DEF Leaves
  <1>8. Stages \cap {"unpacked", "patched", "prep"} = {}
    BY DEF Stages
  <1>9. Stages \cap TreeStamps = {}
    BY <1>7, <1>8 DEF TreeStamps, Patched
  <1>10. None \notin Files
    BY BuildAssumption
  <1> QED
    BY <1>1, <1>2, <1>4, <1>5, <1>6, <1>7, <1>9, <1>10

LEMMA TopType == \A g \in Goals : Top[g] \in Targets
  BY DEF Goals, Top, Targets, TreeStamps, Stages

\* Whichever plan gmake follows, it makes targets.
LEMMA PlanType == \A g \in Goals : Plans(g) \subseteq SUBSET Targets
  <1>1. \A g \in Goals : Scope(g) \subseteq Targets
    BY TopType DEF Scope
  <1> QED
    BY <1>1 DEF Plans, MustPlan, MayPlan

\* A patch is among what its stamp derives from.
LEMMA StampNeedsPatch == \A p \in Patches : p \in Upstream[StampOf[p]]
  <1> SUFFICES ASSUME NEW p \in Patches
               PROVE  p \in Upstream[StampOf[p]]
    OBVIOUS
  <1> DEFINE t == StampOf[p]
  <1>1. /\ t \in Targets /\ t \in Files /\ t \notin Leaves /\ t \in Stamps
        /\ t \notin {"archive", "unpacked", "patched", "prep"} /\ t \notin Stages
        /\ p \in Files
    BY FilesDiffer, BuildAssumption DEF Stamps
  <1>2. Prereqs[t] = {"unpacked", "Makefile"} \cup {q \in Patches : StampOf[q] = t}
    <2> HIDE DEF t
    <2> QED
      BY <1>1 DEF Prereqs, Stages
  <1>4. p \in Prereqs[t]
    BY <1>2
  <1>3. Upstream[t] = {g \in Files : \A S \in ClosedSets : Prereqs[t] \subseteq S => g \in S}
    BY <1>1 DEF Upstream
  <1> QED
    BY <1>1, <1>4, <1>3
-----------------------------------------------------------------------------
Times == SUBSET (Files \X Targets)

LEMMA AfterType ==
    ASSUME NEW rel \in Times, NEW ex \in SUBSET Files, NEW f \in Files
    PROVE  After(rel, ex, f) \in Times
  BY DEF After, Times

\* Touching a file says nothing about a patch and its stamp.
LEMMA AfterOther ==
    ASSUME NEW rel \in Times, NEW ex \in SUBSET Files, NEW f \in Files,
           NEW p \in Patches, f \notin {p, StampOf[p]}
    PROVE  <<p, StampOf[p]>> \in After(rel, ex, f) <=> <<p, StampOf[p]>> \in rel
  BY DEF After, Times

\* Editing a patch makes its stamp old.
LEMMA AfterEdit ==
    ASSUME NEW rel \in Times, NEW ex \in SUBSET Files, NEW p \in Patches, StampOf[p] \in ex
    PROVE  <<p, StampOf[p]>> \in After(rel, ex, p)
  BY StampNeedsPatch, FilesDiffer DEF After

LEMMA TouchType ==
    ASSUME exists \in SUBSET Files, later \in Times, NEW f \in Files, Touch(f)
    PROVE  exists' \in SUBSET Files /\ later' \in Times
  BY AfterType DEF Touch

LEMMA RemoveType ==
    ASSUME exists \in SUBSET Files, later \in Times, NEW S, Remove(S)
    PROVE  exists' \in SUBSET Files /\ later' \in Times
  BY DEF Remove, Times

LEMMA GoneType ==
    ASSUME exists \in SUBSET Files, later \in Times, ArchiveGone
    PROVE  exists' \in SUBSET Files /\ later' \in Times
  <1> DEFINE rel == {r \in later : "archive" \notin {r[1], r[2]}}
             ex == exists \ {"archive"}
  <1>1. exists' = ex /\ later' = After(rel, ex, "dir")
    BY DEF ArchiveGone
  <1>2. rel \in Times /\ ex \in SUBSET Files
    BY DEF Times
  <1>3. "dir" \in Files
    BY DEF Files, Leaves
  <1> HIDE DEF rel, ex
  <1> QED
    BY <1>1, <1>2, <1>3, AfterType
-----------------------------------------------------------------------------
\* The parts of TypeOK.
ClockType == exists \in SUBSET Files /\ later \in Times
InputType == /\ recipe \in Contents /\ text \in [Patches -> Texts]
             /\ archive \in Contents \cup {Garbage, None}
             /\ fetch \in {"idle", "fetching", "ok", "failed"}
TreeType == /\ base \in Contents \cup {Garbage, None} /\ applied \in [Patches -> Texts \cup {None}]
            /\ damaged \in BOOLEAN
            /\ made \in [Stages -> Trees \cup {None}]
RunType == /\ goal \in Goals /\ todo \subseteq Targets
           /\ doing \in todo \cup {None}
           /\ status \in {"idle", "running", "ok", "failed"}
           /\ status # "running" => todo = {}
CountType == whole \in BOOLEAN /\ edits \in 0 .. MaxEdits /\ kills \in 0 .. MaxKills

LEMMA Parts == TypeOK <=> ClockType /\ InputType /\ TreeType /\ RunType /\ CountType
  <1>1. Tree \in Trees <=> /\ base \in Contents \cup {Garbage, None}
                           /\ applied \in [Patches -> Texts \cup {None}]
                           /\ damaged \in BOOLEAN
    BY DEF Tree, Trees, Versions
  <1>2. ClockType <=> exists \subseteq Files /\ later \subseteq Files \X Targets
    BY DEF ClockType, Times
  <1> QED
    BY <1>1, <1>2 DEF TypeOK, InputType, TreeType, RunType, CountType

LEMMA InitType == Init => TypeOK
  <1> SUFFICES ASSUME Init PROVE TypeOK
    OBVIOUS
  <1>1. ClockType
    BY DEF Init, ClockType, Times, Files
  <1>2. InputType
    BY DEF Init, InputType
  <1>5. RunType
    <2>1. "build" \in Goals
      BY DEF Goals, Top
    <2> QED
      BY <2>1 DEF Init, RunType
  <1>3. TreeType
    BY DEF Init, TreeType, Unpatched, Nothing
  <1>4. CountType
    <2>1. edits \in 0 .. MaxEdits /\ kills \in 0 .. MaxKills
      <3>1. edits = 0 /\ kills = 0
        BY DEF Init
      <3> QED
        BY <3>1, BuildAssumption
    <2>2. whole \in BOOLEAN
      BY DEF Init
    <2> QED
      BY <2>1, <2>2 DEF CountType
  <1> QED
    BY <1>1, <1>2, <1>3, <1>4, <1>5, Parts

\* The clock changes when files are touched or removed.
LEMMA ClockStep == TypeOK /\ [Next]_vars => ClockType'
  <1> SUFFICES ASSUME TypeOK, [Next]_vars
               PROVE  ClockType'
    OBVIOUS
  <1>t. exists \in SUBSET Files /\ later \in Times
    BY Parts DEF ClockType
  <1>f. /\ {"Makefile", "dir", "archive", "unpacked"} \subseteq Files
        /\ TreeStamps \subseteq Files /\ todo \subseteq Files
        /\ Stages \subseteq Files /\ Stamps \subseteq Files /\ Patches \subseteq Files
    BY Parts DEF Files, Leaves, Targets, TreeStamps, RunType
  <1>1. CASE UNCHANGED clock
    BY <1>1, <1>t DEF clock, ClockType
  <1>2. CASE \E f \in Files : Touch(f)
    BY <1>2, <1>t, TouchType DEF ClockType
  <1>3. CASE \E S \in SUBSET Files : Remove(S)
    BY <1>3, <1>t, RemoveType DEF ClockType
  <1>4. CASE FetchWrites
    <2>1. "archive" \in Files /\ "dir" \in Files
      BY <1>f
    <2>2. CASE archive' = None
      BY <1>4, <2>2, <1>t, GoneType DEF FetchWrites, ClockType
    <2>3. CASE archive' # None
      <3> DEFINE rel == After(later, exists, "archive")
                 ex == exists \cup {"archive"}
      <3>1. exists' = ex /\ later' = After(rel, ex, "dir")
        BY <1>4, <2>3 DEF FetchWrites
      <3>2. rel \in Times /\ ex \in SUBSET Files
        BY <1>t, <2>1, AfterType
      <3> HIDE DEF rel, ex
      <3> QED
        BY <3>1, <3>2, <2>1, AfterType DEF ClockType
    <2> QED
      BY <2>2, <2>3
  <1>5. CASE Kill
    <2>1. UNCHANGED clock \/ ArchiveGone
      BY <1>5 DEF Kill
    <2> QED
      BY <2>1, <1>1, <1>t, GoneType DEF ClockType
  <1>6. CASE UNCHANGED vars
    BY <1>6, <1>1 DEF vars
  <1>7. CASE Recipe
    <2>1. CASE Finish \/ FetchBegin \/ FetchFail \/ UnpackFail
      BY <2>1, <1>1 DEF Finish, FetchBegin, FetchFail, UnpackFail
    <2>2. CASE FetchOk \/ UnpackOk \/ UnpackPart
      BY <2>2, <1>2, <1>f DEF FetchOk, UnpackOk, UnpackPart, Complete
    <2>3. CASE UnpackBegin
      BY <2>3, <1>3, <1>f DEF UnpackBegin
    <2>4. ASSUME NEW p \in Patches, PatchApplies(p) \/ PatchOk(p) \/ PatchFail(p)
          PROVE  ClockType'
      <3>1. StampOf[p] \in Files
        BY <1>f DEF Stamps
      <3> QED
        BY <2>4, <3>1, <1>1, <1>2 DEF PatchApplies, PatchOk, PatchFail, Complete
    <2>5. ASSUME NEW t \in {"patched", "prep"}, Mark(t)
          PROVE  ClockType'
      BY <2>5, <1>2, <1>f DEF Mark, Due, Complete
    <2>6. CASE ConfigureBegin
      BY <2>6, <1>3, <1>f DEF ConfigureBegin
    <2>7. ASSUME NEW s \in Stages, StageBegin(s) \/ StageOk(s) \/ StageFail(s)
          PROVE  ClockType'
      BY <2>7, <1>1, <1>2, <1>f DEF StageBegin, StageOk, StageFail, Complete
    <2> QED
      BY <1>7, <1>4, <2>1, <2>2, <2>3, <2>4, <2>5, <2>6, <2>7 DEF Recipe
  <1>8. CASE Environment
    <2>1. CASE Clean
      <3>1. TreeStamps \cup Stages \subseteq Files
        BY <1>f
      <3> QED
        BY <2>1, <3>1, <1>3 DEF Clean
    <2>2. ASSUME NEW c \in Contents, EditRecipe(c)
          PROVE  ClockType'
      BY <2>2, <1>2, <1>f DEF EditRecipe
    <2>3. ASSUME NEW p \in Patches, NEW t \in Texts, EditPatch(p, t)
          PROVE  ClockType'
      BY <2>3, <1>2, <1>f DEF EditPatch
    <2>4. CASE OtherArchive
      BY <2>4, <1>2, <1>f DEF OtherArchive
    <2> QED
      BY <1>8, <2>1, <2>2, <2>3, <2>4 DEF Environment
  <1>9. ASSUME NEW g \in Goals, Start(g)
        PROVE  ClockType'
    BY <1>9, <1>1 DEF Start
  <1> QED
    BY <1>5, <1>6, <1>7, <1>8, <1>9 DEF Next

\* Recipes are edited between runs, archives change during FETCH or by a kill.
LEMMA InputStep == TypeOK /\ [Next]_vars => InputType'
  <1> SUFFICES ASSUME TypeOK, [Next]_vars
               PROVE  InputType'
    OBVIOUS
  <1>t. InputType
    BY Parts
  <1>1. CASE UNCHANGED <<inputs, archive, fetch>>
    BY <1>1, <1>t DEF inputs, InputType
  <1>2. CASE FetchBegin
    BY <1>2, <1>t DEF FetchBegin, Promise!Begin, inputs, InputType
  <1>3. CASE FetchWrites
    <2>1. archive' \in Contents \cup {Garbage, None}
      BY <1>3, <1>t, BuildAssumption DEF FetchWrites, InputType
    <2> QED
      BY <1>3, <1>t, <2>1 DEF FetchWrites, inputs, InputType
  <1>4. CASE FetchOk
    BY <1>4, <1>t DEF FetchOk, inputs, InputType
  <1>5. CASE FetchFail
    BY <1>5, <1>t DEF FetchFail, inputs, InputType
  <1>6. CASE Kill
    <2>1. archive' \in {archive, None} /\ fetch' \in {fetch, "failed"}
      BY <1>6 DEF Kill
    <2> QED
      BY <1>6, <1>t, <2>1 DEF Kill, inputs, InputType
  <1>7. ASSUME NEW c \in Contents, EditRecipe(c)
        PROVE  InputType'
    BY <1>7, <1>t DEF EditRecipe, InputType
  <1>8. ASSUME NEW p \in Patches, NEW t \in Texts, EditPatch(p, t)
        PROVE  InputType'
    BY <1>8, <1>t DEF EditPatch, InputType
  <1>9. CASE Recipe
    <2>1. CASE Finish \/ UnpackBegin \/ UnpackOk \/ UnpackPart \/ UnpackFail \/ ConfigureBegin
      BY <2>1, <1>1 DEF Finish, UnpackBegin, UnpackOk, UnpackPart, UnpackFail, ConfigureBegin
    <2>2. ASSUME NEW p \in Patches, PatchApplies(p) \/ PatchOk(p) \/ PatchFail(p)
          PROVE  InputType'
      BY <2>2, <1>1 DEF PatchApplies, PatchOk, PatchFail
    <2>3. ASSUME NEW t \in {"patched", "prep"}, Mark(t)
          PROVE  InputType'
      BY <2>3, <1>1 DEF Mark
    <2>4. ASSUME NEW s \in Stages, StageBegin(s) \/ StageOk(s) \/ StageFail(s)
          PROVE  InputType'
      BY <2>4, <1>1 DEF StageBegin, StageOk, StageFail
    <2> QED
      BY <1>9, <1>2, <1>3, <1>4, <1>5, <2>1, <2>2, <2>3, <2>4 DEF Recipe
  <1>10. CASE UNCHANGED vars
    BY <1>10, <1>1 DEF vars
  <1>11. CASE Clean \/ OtherArchive
    BY <1>11, <1>1 DEF Clean, OtherArchive
  <1>12. ASSUME NEW g \in Goals, Start(g)
         PROVE  InputType'
    BY <1>12, <1>1 DEF Start
  <1> QED
    BY <1>6, <1>7, <1>8, <1>9, <1>10, <1>11, <1>12 DEF Next, Environment

\* The source tree is unpacked, patched and removed; stages make their products.
LEMMA TreeStep == TypeOK /\ [Next]_vars => TreeType'
  <1> SUFFICES ASSUME TypeOK, [Next]_vars
               PROVE  TreeType'
    OBVIOUS
  <1>t. TreeType /\ InputType
    BY Parts
  <1>u. Unpatched \in [Patches -> Texts \cup {None}] /\ Nothing \in [Stages -> Trees \cup {None}]
    BY DEF Unpatched, Nothing
  <1>1. CASE UNCHANGED <<tree, made>>
    BY <1>1, <1>t DEF tree, TreeType
  <1>2. CASE UnpackBegin \/ Clean
    BY <1>2, <1>t, <1>u DEF UnpackBegin, Clean, TreeType
  <1>3. CASE UnpackOk \/ UnpackPart
    BY <1>3, <1>t DEF UnpackOk, UnpackPart, TreeType, InputType
  <1>4. ASSUME NEW p \in Patches, PatchApplies(p)
        PROVE  TreeType'
    <2>1. applied' \in [Patches -> Texts \cup {None}]
      BY <1>4, <1>t DEF PatchApplies, TreeType, InputType
    <2>2. damaged' \in BOOLEAN
      BY <1>4 DEF PatchApplies
    <2> QED
      BY <1>4, <1>t, <2>1, <2>2 DEF PatchApplies, TreeType
  <1>5. ASSUME NEW p \in Patches, PatchFail(p)
        PROVE  TreeType'
    BY <1>5, <1>t DEF PatchFail, TreeType
  <1>6. CASE ConfigureBegin
    BY <1>6, <1>t, <1>u DEF ConfigureBegin, tree, TreeType
  <1>7. ASSUME NEW s \in Stages, StageOk(s)
        PROVE  TreeType'
    <2>1. Tree \in Trees
      BY <1>t DEF Tree, Trees, Versions, TreeType
    <2>2. "built" \in Stages
      BY DEF Stages
    <2>3. made' \in [Stages -> Trees \cup {None}]
      BY <1>7, <1>t, <2>1, <2>2 DEF StageOk, TreeType
    <2> QED
      BY <1>7, <1>t, <2>3 DEF StageOk, tree, TreeType
  <1>8. CASE Kill
    <2>1. damaged' \in BOOLEAN
      BY <1>8, <1>t DEF Kill, TreeType
    <2> QED
      BY <1>8, <1>t, <2>1 DEF Kill, TreeType
  <1>9. CASE Recipe
    <2>1. CASE Finish \/ FetchBegin \/ FetchWrites \/ FetchOk \/ FetchFail \/ UnpackFail
      BY <2>1, <1>1 DEF Finish, FetchBegin, FetchWrites, FetchOk, FetchFail, UnpackFail
    <2>2. ASSUME NEW p \in Patches, PatchOk(p)
          PROVE  TreeType'
      BY <2>2, <1>1 DEF PatchOk
    <2>3. ASSUME NEW t \in {"patched", "prep"}, Mark(t)
          PROVE  TreeType'
      BY <2>3, <1>1 DEF Mark
    <2>4. ASSUME NEW s \in Stages, StageBegin(s) \/ StageFail(s)
          PROVE  TreeType'
      BY <2>4, <1>1 DEF StageBegin, StageFail
    <2> QED
      BY <1>9, <1>2, <1>3, <1>4, <1>5, <1>6, <1>7, <2>1, <2>2, <2>3, <2>4 DEF Recipe
  <1>10. CASE UNCHANGED vars
    BY <1>10, <1>1 DEF vars
  <1>11. CASE OtherArchive
    BY <1>11, <1>1 DEF OtherArchive
  <1>12. ASSUME NEW c \in Contents, EditRecipe(c)
         PROVE  TreeType'
    BY <1>12, <1>1 DEF EditRecipe
  <1>13. ASSUME NEW p \in Patches, NEW t \in Texts, EditPatch(p, t)
         PROVE  TreeType'
    BY <1>13, <1>1 DEF EditPatch
  <1>14. ASSUME NEW g \in Goals, Start(g)
         PROVE  TreeType'
    BY <1>14, <1>1 DEF Start
  <1> QED
    BY <1>2, <1>8, <1>9, <1>10, <1>11, <1>12, <1>13, <1>14 DEF Next, Environment

\* gmake works on targets of its plan, and on nothing once it ended.
LEMMA RunStep == TypeOK /\ [Next]_vars => RunType'
  <1> SUFFICES ASSUME TypeOK, [Next]_vars
               PROVE  RunType'
    OBVIOUS
  <1>t. RunType
    BY Parts
  <1>1. CASE UNCHANGED run
    BY <1>1, <1>t DEF run, RunType
  <1>2. CASE Abort
    BY <1>2, <1>t DEF Abort, RunType
  <1>3. CASE \E t \in Targets : Begin(t)
    BY <1>3, <1>t DEF Begin, Due, Running, RunType
  <1>4. CASE \E t \in Targets : Complete(t) /\ Running
    BY <1>4, <1>t DEF Complete, Running, RunType
  <1>5. CASE \E t \in Targets : Complete(t) /\ doing = t
    BY <1>5, <1>t, FilesDiffer DEF Complete, RunType
  <1>n. /\ {"archive", "unpacked", "prep"} \subseteq Targets
        /\ Stages \subseteq Targets /\ \A p \in Patches : StampOf[p] \in Targets
    BY DEF Targets, TreeStamps, Stamps
  <1>6. CASE Finish
    BY <1>6, <1>t DEF Finish, RunType
  <1>7. CASE FetchBegin \/ UnpackBegin \/ ConfigureBegin
    <2>1. \/ Begin("archive") \/ Begin("unpacked") \/ Begin("configured")
      BY <1>7 DEF FetchBegin, UnpackBegin, ConfigureBegin
    <2> QED
      BY <2>1, <1>3, <1>n DEF Stages
  <1>8. CASE FetchWrites
    BY <1>8, <1>1 DEF FetchWrites
  <1>9. CASE FetchOk \/ UnpackOk \/ UnpackPart
    BY <1>9, <1>5, <1>n DEF FetchOk, UnpackOk, UnpackPart
  <1>10. CASE FetchFail \/ UnpackFail
    BY <1>10, <1>2 DEF FetchFail, UnpackFail
  <1>11. ASSUME NEW p \in Patches, PatchApplies(p) \/ PatchOk(p) \/ PatchFail(p)
         PROVE  RunType'
    BY <1>11, <1>2, <1>3, <1>5, <1>n DEF PatchApplies, PatchOk, PatchFail
  <1>12. ASSUME NEW t \in {"patched", "prep"}, Mark(t)
         PROVE  RunType'
    BY <1>12, <1>t, <1>4 DEF Mark, Due, RunType
  <1>13. ASSUME NEW s \in Stages, StageBegin(s) \/ StageOk(s) \/ StageFail(s)
         PROVE  RunType'
    BY <1>13, <1>2, <1>3, <1>5, <1>n DEF StageBegin, StageOk, StageFail
  <1>14. CASE Kill
    BY <1>14, <1>2 DEF Kill
  <1>15. CASE Edit
    BY <1>15, <1>t DEF Edit, Running, RunType
  <1>16. CASE Clean
    BY <1>16, <1>t DEF Clean, Running, RunType
  <1>17. CASE OtherArchive
    BY <1>17, <1>15 DEF OtherArchive
  <1>18. ASSUME NEW c \in Contents, EditRecipe(c)
         PROVE  RunType'
    BY <1>18, <1>15 DEF EditRecipe
  <1>19. ASSUME NEW p \in Patches, NEW t \in Texts, EditPatch(p, t)
         PROVE  RunType'
    BY <1>19, <1>15 DEF EditPatch
  <1>20. ASSUME NEW g \in Goals, Start(g)
         PROVE  RunType'
    <2>1. todo' \subseteq Targets
      BY <1>20, PlanType DEF Start
    <2> QED
      BY <1>20, <2>1 DEF Start, RunType
  <1>21. CASE UNCHANGED vars
    BY <1>21, <1>1 DEF vars
  <1> QED
    BY <1>6, <1>7, <1>8, <1>9, <1>10, <1>11, <1>12, <1>13, <1>14, <1>16, <1>17, <1>18,
       <1>19, <1>20, <1>21 DEF Next, Recipe, Environment

LEMMA CountStep == TypeOK /\ [Next]_vars => CountType'
  <1> SUFFICES ASSUME TypeOK, [Next]_vars
               PROVE  CountType'
    OBVIOUS
  <1>t. CountType
    BY Parts
  <1>1. kills' \in 0 .. MaxKills
    <2>1. \/ kills' = kills
          \/ kills < MaxKills /\ kills' = kills + 1
      BY DEF Next, vars, Recipe, Environment, Start, Finish, FetchBegin, FetchWrites,
         FetchOk, FetchFail, UnpackBegin, UnpackOk, UnpackPart, UnpackFail, PatchApplies, PatchOk,
         PatchFail, Mark, ConfigureBegin, StageBegin, StageOk, StageFail, Kill,
         EditRecipe, EditPatch, OtherArchive, Clean, history
    <2> QED
      BY <2>1, <1>t, BuildAssumption DEF CountType
  <1>2. edits' \in 0 .. MaxEdits
    <2>1. \/ edits' = edits
          \/ edits < MaxEdits /\ edits' = edits + 1
      BY DEF Next, vars, Recipe, Environment, Start, Finish, FetchBegin, FetchWrites,
         FetchOk, FetchFail, UnpackBegin, UnpackOk, UnpackPart, UnpackFail, PatchApplies, PatchOk,
         PatchFail, Mark, ConfigureBegin, StageBegin, StageOk, StageFail, Kill, Edit,
         EditRecipe, EditPatch, OtherArchive, Clean, history
    <2> QED
      BY <2>1, <1>t, BuildAssumption DEF CountType
  <1>3. whole' \in BOOLEAN
    <2>1. whole' \in {whole, TRUE, FALSE, whole /\ doing \notin Stamps}
      BY DEF Next, vars, Recipe, Environment, Start, Finish, FetchBegin, FetchWrites,
         FetchOk, FetchFail, UnpackBegin, UnpackOk, UnpackPart, UnpackFail, PatchApplies, PatchOk,
         PatchFail, Mark, ConfigureBegin, StageBegin, StageOk, StageFail, Kill,
         EditRecipe, EditPatch, OtherArchive, Clean, history
    <2> QED
      BY <2>1, <1>t DEF CountType
  <1> QED
    BY <1>1, <1>2, <1>3 DEF CountType

LEMMA NextType == TypeOK /\ [Next]_vars => TypeOK'
  <1>1. TypeOK <=> ClockType /\ InputType /\ TreeType /\ RunType /\ CountType
    BY Parts
  <1> QED
    BY <1>1, ClockStep, InputStep, TreeStep, RunStep, CountStep, Parts, PTL

\* Every variable keeps its type and gmake has work only while it runs, for
\* any series of patches, any recipes and any number of edits and kills.
THEOREM TypeCorrect == Spec => []TypeOK
  BY InitType, NextType, PTL DEF Spec
-----------------------------------------------------------------------------
\* While the recipe of a stamp runs, between $(GPATCH) and $(TOUCH), the tree
\* holds the patch the stamp is going to vouch for.
Patching == \A p \in Patches : doing = StampOf[p] => applied[p] = text[p]

StampInv == PatchStampTells /\ Patching

\* A stamp vouches for p when it is there and p was not written after it.
Vouched(p) == StampOf[p] \in exists /\ <<p, StampOf[p]>> \notin later

\* A step that neither makes the stamp of p nor rewrites p gives no new stamp.
LEMMA TouchOther ==
    ASSUME TypeOK, NEW f \in Files, Touch(f), NEW p \in Patches, f \notin {p, StampOf[p]}
    PROVE  Vouched(p)' <=> Vouched(p)
  <1>1. exists \in SUBSET Files /\ later \in Times
    BY Parts DEF ClockType
  <1>2. exists' = exists \cup {f} /\ later' = After(later, exists, f)
    BY DEF Touch
  <1> QED
    BY <1>1, <1>2, AfterOther DEF Vouched

LEMMA TouchPatch ==
    ASSUME TypeOK, NEW p \in Patches, Touch(p)
    PROVE  ~Vouched(p)'
  <1>1. exists \in SUBSET Files /\ later \in Times
    BY Parts DEF ClockType
  <1>2. exists' = exists \cup {p} /\ later' = After(later, exists, p)
    BY DEF Touch
  <1> QED
    BY <1>1, <1>2, AfterEdit, FilesDiffer DEF Vouched

LEMMA RemoveStamps ==
    ASSUME NEW S, Remove(S), NEW p \in Patches, Vouched(p)', p \notin S
    PROVE  Vouched(p) /\ StampOf[p] \notin S
  BY DEF Remove, Vouched

LEMMA GoneStamps ==
    ASSUME TypeOK, ArchiveGone, NEW p \in Patches, Vouched(p)'
    PROVE  Vouched(p)
  <1> DEFINE rel == {r \in later : "archive" \notin {r[1], r[2]}}
             ex == exists \ {"archive"}
  <1>1. exists' = ex /\ later' = After(rel, ex, "dir")
    BY DEF ArchiveGone
  <1>2. rel \in Times /\ ex \in SUBSET Files
    BY Parts DEF ClockType, Times
  <1>3. "dir" \in Files /\ {"archive", "dir"} \cap {p, StampOf[p]} = {}
    BY FilesDiffer DEF Files, Leaves, Targets
  <1>4. <<p, StampOf[p]>> \in later => <<p, StampOf[p]>> \in rel
    BY <1>3
  <1> HIDE DEF rel
  <1> QED
    BY <1>1, <1>2, <1>3, <1>4, AfterOther DEF Vouched

\* The archive is written or removed: no stamp appears.
LEMMA FetchStamps ==
    ASSUME TypeOK, FetchWrites, NEW p \in Patches, Vouched(p)'
    PROVE  Vouched(p)
  <1>1. exists \in SUBSET Files /\ later \in Times
    BY Parts DEF ClockType
  <1>2. /\ "archive" \in Files /\ "dir" \in Files
        /\ {"archive", "dir"} \cap {p, StampOf[p]} = {}
    BY FilesDiffer DEF Files, Leaves, Targets
  <1>3. CASE archive' = None
    BY <1>3, GoneStamps DEF FetchWrites
  <1>4. CASE archive' # None
    <2> DEFINE rel == After(later, exists, "archive")
               ex == exists \cup {"archive"}
    <2>1. exists' = ex /\ later' = After(rel, ex, "dir")
      BY <1>4 DEF FetchWrites
    <2>2. rel \in Times /\ ex \in SUBSET Files
      BY <1>1, <1>2, AfterType
    <2>3. <<p, StampOf[p]>> \in later => <<p, StampOf[p]>> \in rel
      BY <1>1, <1>2, AfterOther
    <2> HIDE DEF rel
    <2> QED
      BY <2>1, <2>2, <2>3, <1>2, AfterOther DEF Vouched
  <1> QED
    BY <1>3, <1>4

LEMMA InitStamps == Init => StampInv
  <1> SUFFICES ASSUME Init PROVE StampInv
    OBVIOUS
  <1>1. \A p \in Patches : StampOf[p] \notin exists
    BY FilesDiffer, BuildAssumption DEF Init
  <1>2. \A p \in Patches : doing # StampOf[p]
    BY FilesDiffer DEF Init
  <1> QED
    BY <1>1, <1>2 DEF StampInv, PatchStampTells, Patching

\* What a stamp says stays true when the tree and the patch stay as they are
\* and no stamp appears, and when the tree goes with its stamps.
LEMMA StampStep ==
    ASSUME TypeOK, StampInv, [Next]_vars, NEW p \in Patches
    PROVE  /\ Vouched(p)' => applied'[p] = text'[p]
           /\ doing' = StampOf[p] => applied'[p] = text'[p]
  <1>i. /\ Vouched(p) => applied[p] = text[p]
        /\ doing = StampOf[p] => applied[p] = text[p]
    BY DEF StampInv, PatchStampTells, Patching, Vouched
  <1>s. /\ StampOf[p] \in Stamps /\ StampOf[p] # None /\ StampOf[p] \in TreeStamps
        /\ StampOf[p] \notin {"archive", "unpacked", "patched", "prep"} \cup Stages
        /\ p \notin {"archive", "unpacked", "patched", "prep", "Makefile", "dir"} \cup Stages
        /\ StampOf[p] \notin {"Makefile", "dir"}
    BY FilesDiffer, BuildAssumption DEF TreeStamps
  <1>n. /\ {"archive", "unpacked", "prep", "Makefile", "dir"} \subseteq Files
        /\ Stages \subseteq Files /\ todo \subseteq Files
    BY Parts DEF Files, Leaves, Targets, TreeStamps, RunType
  <1>d. ~Running => doing = None
    BY Parts DEF RunType, Running
  \* Steps that leave the tree and the patches alone.
  <1>1. CASE /\ UNCHANGED <<applied, text>>
             /\ Vouched(p)' => Vouched(p)
             /\ doing' = StampOf[p] => doing = StampOf[p]
    BY <1>1, <1>i
  \* Steps that touch another file.
  <1>2. ASSUME NEW f \in Files, f \notin {p, StampOf[p]}, Touch(f),
               UNCHANGED <<applied, text>>,
               doing' = StampOf[p] => doing = StampOf[p]
        PROVE  /\ Vouched(p)' => applied'[p] = text'[p]
               /\ doing' = StampOf[p] => applied'[p] = text'[p]
    BY <1>2, <1>1, TouchOther
  \* Steps that leave the clock alone.
  <1>3. CASE UNCHANGED <<clock, applied, text>> /\ (doing' = StampOf[p] => doing = StampOf[p])
    BY <1>3, <1>i DEF clock, Vouched
  <1>4. CASE Finish
    BY <1>4, <1>3, <1>s DEF Finish, tree, inputs
  <1>5. CASE FetchBegin
    BY <1>5, <1>3, <1>s DEF FetchBegin, Begin, tree, inputs
  <1>6. CASE FetchWrites
    BY <1>6, <1>1, FetchStamps DEF FetchWrites, tree, inputs, run
  <1>7. CASE FetchOk
    BY <1>7, <1>2, <1>s, <1>n DEF FetchOk, Complete, tree, inputs
  <1>8. CASE FetchFail \/ UnpackFail
    BY <1>8, <1>3, <1>s DEF FetchFail, UnpackFail, Abort, tree, inputs
  <1>9. CASE UnpackBegin
    <2>1. ~Vouched(p)'
      BY <1>9, <1>s, RemoveStamps DEF UnpackBegin, Remove, Vouched
    <2> QED
      BY <1>9, <2>1, <1>s DEF UnpackBegin, Begin
  <1>10. CASE UnpackOk \/ UnpackPart
    BY <1>10, <1>2, <1>s, <1>n DEF UnpackOk, UnpackPart, Complete, inputs
  <1>11. ASSUME NEW q \in Patches, PatchApplies(q)
         PROVE  /\ Vouched(p)' => applied'[p] = text'[p]
                /\ doing' = StampOf[p] => applied'[p] = text'[p]
    <2>0. UNCHANGED <<clock, text>> /\ applied \in [Patches -> Texts \cup {None}]
      BY <1>11, Parts DEF PatchApplies, inputs, TreeType
    <2>1. CASE q = p
      BY <1>11, <2>0, <2>1 DEF PatchApplies
    <2>2. CASE q # p
      <3>1. applied'[p] = applied[p] /\ Vouched(p)' = Vouched(p)
        BY <1>11, <2>0, <2>2 DEF PatchApplies, clock, Vouched
      <3>2. doing' # StampOf[p]
        BY <1>11, <2>2, BuildAssumption DEF PatchApplies, Begin
      <3> QED
        BY <3>1, <3>2, <2>0, <1>i
    <2> QED
      BY <2>1, <2>2
  <1>12. ASSUME NEW q \in Patches, PatchOk(q)
         PROVE  /\ Vouched(p)' => applied'[p] = text'[p]
                /\ doing' = StampOf[p] => applied'[p] = text'[p]
    <2>0. UNCHANGED <<applied, text>> /\ doing' # StampOf[p] /\ Touch(StampOf[q])
      BY <1>12, <1>s DEF PatchOk, Complete, tree, inputs
    <2>1. CASE q = p
      BY <1>12, <2>0, <2>1, <1>i DEF PatchOk
    <2>2. CASE q # p
      <3>1. StampOf[q] \in Files /\ StampOf[q] # StampOf[p] /\ StampOf[q] # p
        BY <2>2, FilesDiffer, BuildAssumption
      <3> QED
        BY <3>1, <2>0, <1>2
    <2> QED
      BY <2>1, <2>2
  <1>13. ASSUME NEW q \in Patches, PatchFail(q)
         PROVE  /\ Vouched(p)' => applied'[p] = text'[p]
                /\ doing' = StampOf[p] => applied'[p] = text'[p]
    BY <1>13, <1>3, <1>s DEF PatchFail, Abort, inputs
  <1>14. ASSUME NEW t \in {"patched", "prep"}, Mark(t)
         PROVE  /\ Vouched(p)' => applied'[p] = text'[p]
                /\ doing' = StampOf[p] => applied'[p] = text'[p]
    BY <1>14, <1>2, <1>s, <1>n DEF Mark, Due, Complete, tree, inputs
  <1>15. CASE ConfigureBegin
    <2>1. Vouched(p)' => Vouched(p)
      BY <1>15, <1>s, RemoveStamps DEF ConfigureBegin
    <2>2. doing' # StampOf[p]
      BY <1>15, <1>s DEF ConfigureBegin, Begin, Stages
    <2> QED
      BY <1>15, <2>1, <2>2, <1>1 DEF ConfigureBegin, tree, inputs
  <1>16. ASSUME NEW s \in Stages, StageBegin(s) \/ StageFail(s)
         PROVE  /\ Vouched(p)' => applied'[p] = text'[p]
                /\ doing' = StampOf[p] => applied'[p] = text'[p]
    BY <1>16, <1>3, <1>s DEF StageBegin, StageFail, Begin, Abort, tree, inputs
  <1>17. ASSUME NEW s \in Stages, StageOk(s)
         PROVE  /\ Vouched(p)' => applied'[p] = text'[p]
                /\ doing' = StampOf[p] => applied'[p] = text'[p]
    BY <1>17, <1>2, <1>s, <1>n DEF StageOk, Complete, tree, inputs
  <1>18. CASE Kill
    <2>1. UNCHANGED <<applied, text>> /\ doing' = None
      BY <1>18 DEF Kill, Abort, inputs
    <2>2. UNCHANGED clock \/ ArchiveGone
      BY <1>18 DEF Kill
    <2>3. Vouched(p)' => Vouched(p)
      <3>1. CASE UNCHANGED clock
        BY <3>1 DEF clock, Vouched
      <3>2. CASE ArchiveGone
        BY <3>2, GoneStamps
      <3> QED
        BY <2>2, <3>1, <3>2
    <2> QED
      BY <2>1, <2>3, <1>1, <1>s
  <1>19. ASSUME NEW c \in Contents, EditRecipe(c)
         PROVE  /\ Vouched(p)' => applied'[p] = text'[p]
                /\ doing' = StampOf[p] => applied'[p] = text'[p]
    BY <1>19, <1>2, <1>s, <1>n DEF EditRecipe, Edit, tree
  <1>20. ASSUME NEW q \in Patches, NEW t \in Texts, EditPatch(q, t)
         PROVE  /\ Vouched(p)' => applied'[p] = text'[p]
                /\ doing' = StampOf[p] => applied'[p] = text'[p]
    <2>1. Touch(q) /\ doing' # StampOf[p] /\ UNCHANGED applied
      BY <1>20, <1>d, <1>s DEF EditPatch, Edit, tree
    <2>2. CASE q = p
      BY <2>1, <2>2, TouchPatch
    <2>3. CASE q # p
      <3>1. q \in Files /\ q # StampOf[p] /\ text'[p] = text[p]
        BY <1>20, <2>3, FilesDiffer, Parts DEF EditPatch, InputType
      <3>2. Vouched(p)' <=> Vouched(p)
        BY <3>1, <2>1, <2>3, TouchOther
      <3> QED
        BY <3>1, <3>2, <2>1, <1>i
    <2> QED
      BY <2>2, <2>3
  <1>21. CASE OtherArchive
    BY <1>21, <1>2, <1>s, <1>n DEF OtherArchive, Edit, tree, inputs
  <1>22. CASE Clean
    <2>1. ~Vouched(p)'
      BY <1>22, <1>s DEF Clean, Remove, Vouched
    <2>2. doing' = None
      BY <1>22, <1>d DEF Clean
    <2> QED
      BY <2>1, <2>2, <1>s
  <1>23. ASSUME NEW g \in Goals, Start(g)
         PROVE  /\ Vouched(p)' => applied'[p] = text'[p]
                /\ doing' = StampOf[p] => applied'[p] = text'[p]
    BY <1>23, <1>3, <1>s DEF Start, tree, inputs
  <1>24. CASE UNCHANGED vars
    BY <1>24, <1>3 DEF vars, tree, inputs, run
  <1> QED
    BY <1>4, <1>5, <1>6, <1>7, <1>8, <1>9, <1>10, <1>11, <1>12, <1>13, <1>14, <1>15, <1>16,
       <1>17, <1>18, <1>19, <1>20, <1>21, <1>22, <1>23, <1>24 DEF Next, Recipe, Environment

LEMMA NextStamps == TypeOK /\ StampInv /\ [Next]_vars => StampInv'
  BY StampStep DEF StampInv, PatchStampTells, Patching, Vouched

LEMMA StampsHold == Spec => []StampInv
  BY InitStamps, NextStamps, TypeCorrect, PTL DEF Spec

\* A .patched-% stamp that is not older than its patch vouches for the tree,
\* for any series of patches and however runs are killed and files edited.
THEOREM StampsTellTheTruth == Spec => []PatchStampTells
  <1>1. StampInv => PatchStampTells
    BY DEF StampInv
  <1> QED
    BY <1>1, StampsHold, PTL
=============================================================================
