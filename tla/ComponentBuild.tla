--------------------------- MODULE ComponentBuild ---------------------------
(***************************************************************************)
(* The component directory of the gate: gmake runs the recipes of          *)
(* make-rules/prep*.mk and common-rules.mk (fetch, unpack, patch, prep,    *)
(* configure, build, install), each of which ends by touching a stamp, and *)
(* decides by the times of stamps and files which recipes to run.  Between *)
(* runs the recipe and its patches are edited, other workspaces add files  *)
(* to the shared archive directory; a run is killed at any point.          *)
(*                                                                         *)
(* tools/userland-fetch is represented by its promise, FetchPromise.       *)
(***************************************************************************)
EXTENDS Naturals, Sequences, FiniteSets

CONSTANTS Series,     \* the patches, in the order they are applied
          StampOf,    \* the .patched-% stamp of each patch
          Texts,      \* what a patch file can contain
          Contents,   \* archives some version of the recipe's hash accepts
          Leftovers,  \* what a FETCH that does not succeed may leave in place
          MaxEdits,   \* bound: changes made between runs
          MaxKills,   \* bound: runs that are killed or interrupted
          Garbage,    \* an archive that matches no hash
          None

Patches == {Series[i] : i \in DOMAIN Series}
Stamps == {StampOf[p] : p \in Patches}
Patched == IF Patches = {} THEN {} ELSE {"patched"}    \* no rule without patches
TreeStamps == {"unpacked", "prep"} \cup Stamps \cup Patched    \* in SOURCE_DIR
Stages == {"configured", "built", "installed"}               \* in BUILD_DIR/%
Targets == {"archive"} \cup TreeStamps \cup Stages
Leaves == {"Makefile", "dir"} \cup Patches    \* "dir" is USERLAND_ARCHIVES itself
Files == Leaves \cup Targets

Order == <<"archive", "unpacked">> \o [i \in DOMAIN Series |-> StampOf[Series[i]]]
            \o <<"patched", "prep", "configured", "built", "installed">>
Top == [download |-> "archive", prep |-> "prep", build |-> "built",
        install |-> "installed"]
Goals == DOMAIN Top

ASSUME BuildAssumption ==
    /\ Series \in Seq(Patches) /\ IsFiniteSet(Patches)
    /\ \A i, j \in DOMAIN Series : Series[i] = Series[j] => i = j
    /\ \A p, q \in Patches : StampOf[p] = StampOf[q] => p = q
    /\ Stamps \cap ({"archive", "unpacked", "patched", "prep"} \cup Stages \cup Leaves) = {}
    /\ Patches \cap ({"Makefile", "dir", "archive", "unpacked", "patched", "prep"}
                        \cup Stages) = {}
    /\ Leftovers \subseteq Contents \cup {Garbage, None}
    /\ None \notin Contents \cup Texts \cup Files \cup {Garbage}
    /\ Garbage \notin Contents
    /\ MaxEdits \in Nat /\ MaxKills \in Nat

VARIABLES exists, later,     \* the files there are; <<f, g>> when f was written after g
          recipe,            \* the archive COMPONENT_ARCHIVE_HASH accepts
          text,              \* what each patch file contains
          archive, fetch,    \* the archive file; the phase of userland-fetch
          base, applied, damaged,    \* the source tree: unpacked from, patched with
          made,              \* the tree each stage's product was made of
          goal, todo, doing, status, \* the run of gmake
          whole,             \* history: since the tree was unpacked completely no patch
                             \* was edited and none failed or was interrupted
          edits, kills

clock == <<exists, later>>
inputs == <<recipe, text>>
tree == <<base, applied, damaged>>
run == <<goal, todo, doing, status>>
history == <<whole, edits, kills>>
vars == <<clock, inputs, archive, fetch, tree, made, run, history>>

Promise == INSTANCE FetchPromise WITH
              Files <- Contents \cup {Garbage}, Missing <- None,
              phase <- fetch, want <- {recipe}, file <- archive
-----------------------------------------------------------------------------
\* Mutant: .prep does not depend on the patches.
Prereqs_PrepIgnoresPatches == [t \in Targets |->
    CASE t = "archive" -> {"Makefile"}
      [] t = "unpacked" -> {"archive", "Makefile", "dir"}
      [] t \in Stamps -> {"unpacked", "Makefile"} \cup {p \in Patches : StampOf[p] = t}
      [] t = "patched" -> Stamps
      [] t = "prep" -> {"dir", "archive", "unpacked"}
      [] t = "configured" -> {"prep"}
      [] t = "built" -> {"configured"}
      [] t = "installed" -> {"built"}]

\* The rules: what each target depends on.
Prereqs == [t \in Targets |->
    CASE t = "archive" -> {"Makefile"}
      [] t = "unpacked" -> {"archive", "Makefile", "dir"}
      [] t \in Stamps -> {"unpacked", "Makefile"} \cup {p \in Patches : StampOf[p] = t}
      [] t = "patched" -> Stamps
      [] t = "prep" -> {"dir", "archive", "unpacked"} \cup Patched
      [] t = "configured" -> {"prep"}
      [] t = "built" -> {"configured"}
      [] t = "installed" -> {"built"}]

\* What a file derives from: its prerequisites, theirs, and so on.
ClosedSets == {S \in SUBSET Files : \A t \in S \cap Targets : Prereqs[t] \subseteq S}

Upstream == [f \in Files |->
    IF f \in Leaves THEN {}
    ELSE {g \in Files : \A S \in ClosedSets : Prereqs[f] \subseteq S => g \in S}]

\* File times: f is newer than everything made from it.
After(rel, ex, f) == {r \in rel : f \notin {r[1], r[2]}}
                        \cup {<<f, t>> : t \in {t \in ex \cap Targets : f \in Upstream[t]}}

Touch(f) == /\ exists' = exists \cup {f}
            /\ later' = After(later, exists, f)

Remove(S) == /\ exists' = exists \ S
             /\ later' = {r \in later : r[1] \notin S /\ r[2] \notin S}
-----------------------------------------------------------------------------
Scope(g) == {Top[g]} \cup (Upstream[Top[g]] \cap Targets)

\* ips.mk makes every target .SECONDARY: gmake remakes a target that is not
\* there or is older than anything it derives from, and looks at a
\* prerequisite only when something that needs it is remade.
Outdated(t) == t \notin exists \/ \E f \in Upstream[t] : <<f, t>> \in later

Must(g) ==
    LET must[t \in Targets] ==
          /\ Outdated(t)
          /\ t = Top[g] \/ \E u \in Targets : t \in Prereqs[u] /\ must[u]
    IN  {t \in Targets : must[t]}

\* It then remakes the dependents of what it remakes too; only an archive that
\* was not there leaves a tree as it is.
MustPlan(g) ==
    {t \in Scope(g) : t \in Must(g) \/ Upstream[t] \cap (Must(g) \ {"archive"}) # {}}

\* Where the order it visits targets in leads it to remake more, it is what is
\* out of date step by step.
MayPlan(g) ==
    {t \in Scope(g) : \E u \in {t} \cup (Upstream[t] \cap Targets) :
                         u \notin exists \/ \E f \in Prereqs[u] : <<f, u>> \in later}

Plans(g) == {MustPlan(g), MayPlan(g)}
-----------------------------------------------------------------------------
Running == status = "running"
Pos(t) == CHOOSE i \in DOMAIN Order : Order[i] = t

Due(t) == /\ Running /\ doing = None /\ t \in todo
          /\ \A u \in todo : Pos(t) <= Pos(u)

Begin(t) == /\ Due(t)
            /\ doing' = t
            /\ UNCHANGED <<goal, todo, status>>

\* $(TOUCH) $@ and on to the next target.
Complete(t) == /\ Touch(t)
               /\ todo' = todo \ {t} /\ doing' = None
               /\ UNCHANGED <<goal, status>>

\* Mutant: gmake stops with the rest of its plan still to do.
Abort_KeepsPlan == /\ status' = "failed" /\ doing' = None
                   /\ UNCHANGED <<goal, todo>>

Abort == /\ status' = "failed" /\ todo' = {} /\ doing' = None
         /\ UNCHANGED goal

Tree == <<base, applied, damaged>>
Unpatched == [p \in Patches |-> None]
Nothing == [s \in Stages |-> None]

Init ==
    /\ exists = Leaves /\ later = {}
    /\ recipe \in Contents /\ text \in [Patches -> Texts]
    /\ archive = None /\ fetch = "idle"
    /\ base = None /\ applied = Unpatched /\ damaged = FALSE
    /\ made = Nothing
    /\ goal = "build" /\ todo = {} /\ doing = None /\ status = "idle"
    /\ whole = FALSE /\ edits = 0 /\ kills = 0
-----------------------------------------------------------------------------
Start(g) ==
    /\ ~Running
    /\ goal' = g /\ doing' = None
    /\ todo' \in Plans(g)
    /\ status' = "running"
    /\ UNCHANGED <<clock, inputs, archive, fetch, tree, made, history>>

Finish ==
    /\ Running /\ doing = None /\ todo = {}
    /\ status' = "ok"
    /\ UNCHANGED <<clock, inputs, archive, fetch, tree, made, goal, todo, doing, history>>

\* $(FETCH): userland-fetch, by its promise.
FetchBegin ==
    /\ Begin("archive")
    /\ UNCHANGED <<clock, inputs, archive, tree, made, history>>
    /\ Promise!Begin

\* unlink() and open() of a new file give the directory a new time too.
ArchiveGone ==
    /\ exists' = exists \ {"archive"}
    /\ later' = After({r \in later : "archive" \notin {r[1], r[2]}},
                      exists \ {"archive"}, "dir")

FetchWrites ==
    /\ doing = "archive"
    /\ archive' \in ({recipe} \cup Leftovers) \ {archive}
    /\ IF archive' = None THEN ArchiveGone
       ELSE /\ exists' = exists \cup {"archive"}
            /\ later' = After(After(later, exists, "archive"), exists', "dir")
    /\ UNCHANGED <<inputs, fetch, tree, made, run, history>>
    /\ Promise!Change

\* Mutant: without $(TOUCH), an archive userland-fetch finds in place stays old.
FetchOk_NoTouch ==
    /\ doing = "archive"
    /\ todo' = todo \ {"archive"} /\ doing' = None
    /\ fetch' = "ok"
    /\ UNCHANGED <<clock, inputs, archive, tree, made, goal, status, history>>

FetchOk ==
    /\ doing = "archive"
    /\ Complete("archive")
    /\ fetch' = "ok"
    /\ UNCHANGED <<inputs, archive, tree, made, history>>
    /\ Promise!Succeed

FetchFail ==
    /\ doing = "archive"
    /\ Abort
    /\ fetch' = "failed"
    /\ UNCHANGED <<clock, inputs, archive, tree, made, history>>
    /\ Promise!Fail
-----------------------------------------------------------------------------
\* Mutant: the .patched-% stamps are kept outside SOURCE_DIR.
UnpackBegin_KeepsStamps ==
    /\ Begin("unpacked")
    /\ Remove(TreeStamps \ Stamps)
    /\ base' = None /\ applied' = Unpatched /\ damaged' = FALSE
    /\ whole' = FALSE
    /\ UNCHANGED <<inputs, archive, fetch, made, edits, kills>>

\* $(RM) -r $(SOURCE_DIR), and with it the stamps in it.
UnpackBegin ==
    /\ Begin("unpacked")
    /\ Remove(TreeStamps)
    /\ base' = None /\ applied' = Unpatched /\ damaged' = FALSE
    /\ whole' = FALSE
    /\ UNCHANGED <<inputs, archive, fetch, made, edits, kills>>

\* Mutant: the recipe that unpacks lacks its $(TOUCH).
UnpackOk_NoTouch ==
    /\ doing = "unpacked" /\ archive # None
    /\ base' = archive /\ whole' = TRUE
    /\ todo' = todo \ {"unpacked"} /\ doing' = None
    /\ UNCHANGED <<clock, inputs, archive, fetch, applied, damaged, made, goal, status,
                   edits, kills>>

UnpackOk ==
    /\ doing = "unpacked" /\ archive # None
    /\ base' = archive /\ whole' = TRUE
    /\ Complete("unpacked")
    /\ UNCHANGED <<inputs, archive, fetch, applied, damaged, made, edits, kills>>

\* userland-unpack ignores the status of the commands that unpack: they fail (a
\* full disk) and the stamp is touched in what came out.
UnpackPart ==
    /\ doing = "unpacked" /\ archive # None
    /\ base' = archive /\ damaged' = TRUE
    /\ Complete("unpacked")
    /\ UNCHANGED <<inputs, archive, fetch, applied, made, history>>

\* Nothing came out: there is no directory to touch the stamp in.
UnpackFail ==
    /\ doing = "unpacked"
    /\ Abort
    /\ UNCHANGED <<clock, inputs, archive, fetch, tree, made, history>>

\* $(GPATCH) succeeds, on a tree as unpacked or on one it was applied to before.
PatchApplies(p) ==
    /\ Begin(StampOf[p]) /\ base # None
    /\ applied' = [applied EXCEPT ![p] = text[p]]
    /\ damaged' = (damaged \/ applied[p] # None)
    /\ UNCHANGED <<clock, inputs, archive, fetch, base, made, history>>

PatchOk(p) ==
    /\ doing = StampOf[p]
    /\ Complete(StampOf[p])
    /\ UNCHANGED <<inputs, archive, fetch, tree, made, history>>

\* Hunks that were applied before, or a tree that is not as it should be.
PatchFail(p) ==
    /\ Due(StampOf[p])
    /\ applied[p] # None \/ damaged \/ base # recipe
    /\ damaged' = TRUE /\ whole' = FALSE
    /\ Abort
    /\ UNCHANGED <<clock, inputs, archive, fetch, base, applied, made, edits, kills>>

\* .patched and .prep
Mark(t) ==
    /\ Due(t) /\ base # None
    /\ Complete(t)
    /\ UNCHANGED <<inputs, archive, fetch, tree, made, history>>
-----------------------------------------------------------------------------
\* $(RM) -r $(@D), the build directory and every stamp in it.
ConfigureBegin ==
    /\ Begin("configured")
    /\ Remove(Stages)
    /\ made' = Nothing
    /\ UNCHANGED <<inputs, archive, fetch, tree, history>>

\* Building and installing keep what an earlier attempt left.
StageBegin(s) ==
    /\ s # "configured" /\ Begin(s)
    /\ UNCHANGED <<clock, inputs, archive, fetch, tree, made, history>>

StageOk(s) ==
    /\ doing = s
    /\ made' = [made EXCEPT ![s] = IF s = "installed" THEN made["built"] ELSE Tree]
    /\ Complete(s)
    /\ UNCHANGED <<inputs, archive, fetch, tree, history>>

\* A tree that is what the recipe asks for compiles: other failures leave
\* what a kill leaves.
StageFail(s) ==
    /\ doing = s /\ (damaged \/ base # recipe)
    /\ Abort
    /\ UNCHANGED <<clock, inputs, archive, fetch, tree, made, history>>
-----------------------------------------------------------------------------
\* gmake and everything it runs are killed, or interrupted: then gmake removes
\* the target it was making, which matters for the archive only.
Kill ==
    /\ Running /\ kills < MaxKills
    /\ kills' = kills + 1
    /\ Abort
    /\ \/ UNCHANGED <<clock, archive>>
       \/ /\ doing = "archive" /\ archive # None /\ archive' = None /\ ArchiveGone
    /\ fetch' = IF doing = "archive" THEN "failed" ELSE fetch
    /\ damaged' \in IF doing \in Stamps THEN {damaged, TRUE} ELSE {damaged}
    /\ whole' = (whole /\ doing \notin Stamps)
    /\ UNCHANGED <<inputs, base, applied, made, edits>>

Edit == /\ ~Running /\ edits < MaxEdits
        /\ edits' = edits + 1
        /\ status' = "idle"
        /\ UNCHANGED <<goal, todo, doing>>

EditRecipe(c) ==
    /\ Edit
    /\ recipe' = c
    /\ Touch("Makefile")
    /\ UNCHANGED <<text, archive, fetch, tree, made, whole, kills>>

EditPatch(p, t) ==
    /\ Edit
    /\ text' = [text EXCEPT ![p] = t]
    /\ Touch(p)
    /\ whole' = FALSE
    /\ UNCHANGED <<recipe, archive, fetch, tree, made, kills>>

\* Another component or workspace downloads into USERLAND_ARCHIVES.
OtherArchive ==
    /\ Edit
    /\ Touch("dir")
    /\ UNCHANGED <<inputs, archive, fetch, tree, made, whole, kills>>

\* Mutant: the source directory is not among CLEAN_PATHS.
Clean_KeepsTree ==
    /\ ~Running
    /\ Remove(Stages)
    /\ made' = Nothing
    /\ status' = "idle"
    /\ UNCHANGED <<inputs, archive, fetch, tree, goal, todo, doing, history>>

\* "gmake clean": CLEAN_PATHS are the source and the build directories.
\* "gmake clobber" does no more: the COMPONENT_ARCHIVE it also removes is sought
\* in the component directory, the archive in USERLAND_ARCHIVES stays.
Clean ==
    /\ ~Running
    /\ Remove(TreeStamps \cup Stages)
    /\ base' = None /\ applied' = Unpatched /\ damaged' = FALSE
    /\ made' = Nothing
    /\ status' = "idle" /\ whole' = FALSE
    /\ UNCHANGED <<inputs, archive, fetch, goal, todo, doing, edits, kills>>
-----------------------------------------------------------------------------
Recipe ==
    \/ Finish
    \/ FetchBegin \/ FetchWrites \/ FetchOk \/ FetchFail
    \/ UnpackBegin \/ UnpackOk \/ UnpackPart \/ UnpackFail
    \/ \E p \in Patches : PatchApplies(p) \/ PatchOk(p) \/ PatchFail(p)
    \/ \E t \in {"patched", "prep"} : Mark(t)
    \/ ConfigureBegin
    \/ \E s \in Stages : StageBegin(s) \/ StageOk(s) \/ StageFail(s)

Environment ==
    \/ \E c \in Contents : EditRecipe(c)
    \/ \E p \in Patches, t \in Texts : EditPatch(p, t)
    \/ OtherArchive \/ Clean

Next == Recipe \/ Kill \/ Environment \/ \E g \in Goals : Start(g)

Spec == Init /\ [][Next]_vars

\* Recipes end; whoever works on the component builds it again and again and
\* cleans after a failed build; the archive can be had (userland-fetch succeeds
\* again and again, EventuallyVerified of UserlandFetch); from some time on what
\* the recipe asks for unpacks.
FairSpec ==
    /\ Spec
    /\ WF_vars(Recipe)
    /\ SF_vars(FetchWrites /\ archive' = recipe) /\ SF_vars(FetchOk)
    /\ <>[][~(archive = recipe /\ (UnpackPart \/ UnpackFail))]_vars
    /\ SF_vars(Start("build"))
    /\ SF_vars(status = "failed" /\ Clean)
-----------------------------------------------------------------------------
Versions == [Patches -> Texts \cup {None}]
Trees == (Contents \cup {Garbage, None}) \X Versions \X BOOLEAN

\* Types; a run has work only while it runs.
TypeOK ==
    /\ exists \subseteq Files /\ later \subseteq Files \X Targets
    /\ recipe \in Contents /\ text \in [Patches -> Texts]
    /\ archive \in Contents \cup {Garbage, None}
    /\ fetch \in {"idle", "fetching", "ok", "failed"}
    /\ Tree \in Trees
    /\ made \in [Stages -> Trees \cup {None}]
    /\ goal \in Goals /\ todo \subseteq Targets
    /\ doing \in todo \cup {None}
    /\ status \in {"idle", "running", "ok", "failed"}
    /\ status # "running" => todo = {}
    /\ whole \in BOOLEAN /\ edits \in 0 .. MaxEdits /\ kills \in 0 .. MaxKills

\* A .patched-% stamp that is not older than its patch vouches for the tree: it
\* holds that version of the patch, also after runs killed between $(GPATCH)
\* and $(TOUCH) and after the tree was unpacked again.
PatchStampTells ==
    \A p \in Patches :
        StampOf[p] \in exists /\ <<p, StampOf[p]>> \notin later => applied[p] = text[p]

\* gmake says a component is built only when what is in BUILD_DIR was made from
\* the source tree as it is, and the tree from the archive and the patches as
\* they are, whatever was edited, killed or failed before. The archive is the one
\* the recipe asks for, unless the last FETCH failed and left a file. The tree is
\* the archive's with each patch applied once, unless the unpacking was cut short
\* or, since then, a patch was edited, failed or was interrupted.
ProductIsFresh ==
    status = "ok" /\ goal \in {"build", "install"} =>
        /\ \A s \in Stages \cap Scope(goal) : made[s] = Tree
        /\ base = archive /\ (fetch # "failed" => base = recipe)
        /\ \A p \in Patches : applied[p] = text[p]
        /\ whole => ~damaged

\* What gmake remakes does not depend on the order in which it reads the times,
\* although the recipes remove stamps it may have seen (prep-patch.mk:72-76) and
\* .SECONDARY makes it pass over files that are missing: whichever plan a run
\* starts with, it is what is out of date of the goal, no less and no more.
PlanIsOutdated ==
    [][~Running /\ Running' => todo' = {t \in Scope(goal') : Outdated(t)}]_vars

\* After a run that ended well nothing is left to do: a second run of the same
\* goal makes nothing.
Settled == status = "ok" => ~Outdated(Top[goal])

\* However runs were killed and files edited, building again, with "gmake
\* clean" after a failure, succeeds in the end.
EventuallyBuilt == []<>(status = "ok" /\ goal = "build")
=============================================================================
