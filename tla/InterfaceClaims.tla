-------------------------- MODULE InterfaceClaims --------------------------
(***************************************************************************)
(* What libusb promises of interfaces (wrapper/src/libusb.txt, "Device     *)
(* Operations"): a handle is for one interface at a time, an interface is  *)
(* claimed by one handle at a time, and only the handle that claimed it    *)
(* gives it back.  The plugged-out device takes its table with it.         *)
(***************************************************************************)
CONSTANTS Devices, Interfaces, Handles, None

VARIABLE owner     \* owner[d][i]: the handle that claimed interface i of d

Owned(h) == {di \in Devices \X Interfaces : owner[di[1]][di[2]] = h}

Init == owner = [d \in Devices |-> [i \in Interfaces |-> None]]

Claim(h, d, i) ==
    /\ owner[d][i] = None
    /\ Owned(h) = {}
    /\ owner' = [owner EXCEPT ![d][i] = h]

Release(h, d, i) ==
    /\ owner[d][i] = h
    /\ owner' = [owner EXCEPT ![d][i] = None]

Removed(D) ==
    owner' = [d \in Devices |-> IF d \in D THEN [i \in Interfaces |-> None]
                                ELSE owner[d]]

Next ==
    \/ \E h \in Handles, d \in Devices, i \in Interfaces :
          Claim(h, d, i) \/ Release(h, d, i)
    \/ \E D \in SUBSET Devices : Removed(D)

Spec == Init /\ [][Next]_owner
=============================================================================
