---------------------------- MODULE FetchPromise ----------------------------
(***************************************************************************)
(* What tools/userland-fetch promises the recipe that runs it, whatever    *)
(* mirrors, signatures and interruptions do on the way: the archive file   *)
(* changes only while a run is in progress, and a run ends well only when  *)
(* the file in place at that moment is one the recipe wants.  The file of  *)
(* a successful run is therefore still a wanted one when it is unpacked.   *)
(***************************************************************************)

CONSTANTS Files,    \* what the archive file can contain
          Missing   \* the value of "file" when there is no archive file

VARIABLES phase,    \* "idle", "fetching", "ok" or "failed"
          want,     \* the contents the options of this run accept
          file      \* the content of the archive file, or Missing

vars == <<phase, want, file>>

Init == /\ phase = "idle"
        /\ want \in SUBSET Files
        /\ file \in Files \cup {Missing}

Begin == /\ phase # "fetching"
         /\ phase' = "fetching"
         /\ want' \in SUBSET Files
         /\ UNCHANGED file

Change == /\ phase = "fetching"
          /\ file' \in Files \cup {Missing}
          /\ UNCHANGED <<phase, want>>

Succeed == /\ phase = "fetching"
           /\ file \in want
           /\ phase' = "ok"
           /\ UNCHANGED <<want, file>>

Fail == /\ phase = "fetching"
        /\ phase' = "failed"
        /\ UNCHANGED <<want, file>>

Next == Begin \/ Change \/ Succeed \/ Fail

Spec == Init /\ [][Next]_vars
=============================================================================
