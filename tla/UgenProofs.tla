----------------------------- MODULE UgenProofs -----------------------------
(***************************************************************************)
(* Proofs about Ugen, for any devices, descriptors and number of handles.  *)
(***************************************************************************)
EXTENDS Ugen, TLAPS, FiniteSetTheorems

\* The counter of a device is the number of handles that are open on it.
Counted == \A d \in Devices : refCount[d] = Cardinality(OpenOn(d))

\* A handle lost its device only while it was open.
DanglingWasOpen == \A h \in dangling : on[h] # None

\* usb_open_ep0 and usb_close_ep0 set both control descriptors or none.
ControlPaired == \A d \in Devices : ep0[d] = 0 <=> ep0Stat[d] = 0

LEMMA OpenOnFinite == \A d : IsFiniteSet(OpenOn(d))
  <1> SUFFICES ASSUME NEW d PROVE IsFiniteSet(OpenOn(d))
    OBVIOUS
  <1>1. OpenOn(d) \in SUBSET Handles
    BY DEF OpenOn
  <1> QED
    BY <1>1, UgenAssumption, FS_Subset

\* A device with a handle that can be used is counted.
LEMMA UsedIsCounted ==
  ASSUME TypeOK, Counted, NEW h \in Handles, Usable(h)
  PROVE  on[h] \in Devices /\ refCount[on[h]] \in Nat /\ refCount[on[h]] >= 1
  <1>1. on[h] \in Devices /\ h \in OpenOn(on[h])
    BY DEF TypeOK, Usable, OpenOn
  <1>2. Cardinality(OpenOn(on[h])) \in Nat /\ Cardinality(OpenOn(on[h])) # 0
    BY <1>1, OpenOnFinite, FS_CardinalityType, FS_EmptySet
  <1> QED
    BY <1>1, <1>2 DEF Counted

LEMMA Typed ==
  /\ 0 \in Eps /\ EpNums \subseteq Eps /\ 0 \in Ifaces /\ 0 \in Alts /\ 0 \in Configs
  /\ 0 \notin EpNums /\ Unset \notin Ifaces /\ Unset \notin Alts /\ Unset \notin Fds
  /\ 0 \notin Fds /\ Unset \notin Configs
  /\ \A d \in Devices : Cntrl0(d) \in File /\ Cntrl0Stat(d) \in File
  /\ \A d \in Devices, c \in Configs, i \in Ifaces, a \in Alts, e \in Eps :
        EpFile(d, c, i, a, e) \in File /\ EpStat(d, c, i, a, e) \in File
  <1>1. /\ 0 \in Eps /\ EpNums \subseteq Eps /\ 0 \in Ifaces /\ 0 \in Alts /\ 0 \in Configs
        /\ 0 \notin EpNums
    BY UgenAssumption DEF Eps, Ifaces, Alts
  <1>2. /\ Unset \notin Ifaces /\ Unset \notin Alts /\ Unset \notin Fds /\ 0 \notin Fds
        /\ Unset \notin Configs
    BY UgenAssumption DEF Ifaces, Alts, Unset
  <1>3. \A d \in Devices : Cntrl0(d) \in File /\ Cntrl0Stat(d) \in File
    BY <1>1 DEF Cntrl0, Cntrl0Stat, File
  <1>4. \A d \in Devices, c \in Configs, i \in Ifaces, a \in Alts, e \in Eps :
           EpFile(d, c, i, a, e) \in File /\ EpStat(d, c, i, a, e) \in File
    BY DEF EpFile, EpStat, File
  <1> QED
    BY <1>1, <1>2, <1>3, <1>4
-----------------------------------------------------------------------------
LEMMA ClosingType ==
  ASSUME TypeOK, NEW S PROVE Closing(S) \in [Fds -> File \cup {None}]
  BY DEF TypeOK, Closing

LEMMA EpsClosedType ==
  ASSUME TypeOK, NEW h \in Handles, EpsClosed(h)
  PROVE  /\ epFd' \in [Handles -> [Eps -> Descriptor]]
         /\ epStat' \in [Handles -> [Eps -> Descriptor]]
  BY DEF TypeOK, EpsClosed, Descriptor

LEMMA ReleasedType ==
  ASSUME TypeOK, NEW h \in Handles, ReleasedIfClaimed(h)
  PROVE  /\ claimed' \in [Handles -> Ifaces \cup {Unset}]
         /\ claimedBy' \in [Devices -> [Ifaces -> Handles \cup {None}]]
  <1>1. CASE claimed[h] = Unset
    BY <1>1 DEF TypeOK, ReleasedIfClaimed
  <1>2. CASE claimed[h] # Unset
    <2> DEFINE d == on[h]  i == claimed[h]
    <2>1. /\ claimedBy' = [claimedBy EXCEPT ![d] = [claimedBy[d] EXCEPT ![i] = None]]
          /\ claimed' = [claimed EXCEPT ![h] = Unset]
      BY <1>2 DEF ReleasedIfClaimed, Released
    <2>2. d \in Devices => claimedBy[d] \in [Ifaces -> Handles \cup {None}]
      BY DEF TypeOK
    <2>3. d \in Devices =>
            [claimedBy[d] EXCEPT ![i] = None] \in [Ifaces -> Handles \cup {None}]
      BY <2>2
    <2> HIDE DEF d, i
    <2> QED
      BY <2>1, <2>3 DEF TypeOK
  <1> QED
    BY <1>1, <1>2

LEMMA TakesType ==
  ASSUME TypeOK, NEW h \in Handles, NEW i \in Ifaces, Takes(h, i)
  PROVE  /\ claimed' \in [Handles -> Ifaces \cup {Unset}]
         /\ claimedBy' \in [Devices -> [Ifaces -> Handles \cup {None}]]
  <1> DEFINE d == on[h]
  <1>1. /\ claimedBy' = [claimedBy EXCEPT ![d] = [claimedBy[d] EXCEPT ![i] = h]]
        /\ claimed' = [claimed EXCEPT ![h] = i]
    BY DEF Takes
  <1>2. d \in Devices => [claimedBy[d] EXCEPT ![i] = h] \in [Ifaces -> Handles \cup {None}]
    BY DEF TypeOK
  <1> HIDE DEF d
  <1> QED
    BY <1>1, <1>2 DEF TypeOK

LEMMA HandedType ==
  ASSUME TypeOK, NEW h \in Handles, NEW d \in Devices, NEW fd \in Fds, NEW stat \in Fds,
         Handed(h, d, fd, stat)
  PROVE  /\ on' \in [Handles -> Devices \cup {None}]
         /\ refCount' \in [Devices -> Nat]
         /\ cfg' \in [Handles -> Configs \cup {Unset}]
         /\ claimed' \in [Handles -> Ifaces \cup {Unset}]
         /\ alt' \in [Handles -> Alts \cup {Unset}]
         /\ epFd' \in [Handles -> [Eps -> Descriptor]]
         /\ epStat' \in [Handles -> [Eps -> Descriptor]]
         /\ epIf' \in [Handles -> [Eps -> Ifaces \cup {Unset}]]
  BY Typed DEF Handed, TypeOK, Descriptor

LEMMA EpInterfacesType ==
  ASSUME NEW c, NEW i \in Ifaces, NEW a
  PROVE  EpInterfaces(c, i, a) \in [Eps -> Ifaces \cup {Unset}]
  BY DEF EpInterfaces

LEMMA ConfigIndexType ==
  ASSUME TypeOK, NEW h \in Handles PROVE ConfigIndex(h) \in Configs
  BY Typed DEF TypeOK, ConfigIndex

LEMMA FindDevicesType == TypeOK /\ FindDevices => TypeOK'
  <1> SUFFICES ASSUME TypeOK, FindDevices PROVE TypeOK'
    OBVIOUS
  <1>1. PICK seen \in SUBSET online :
          LET gone == listed \ seen
              new  == seen \ listed
          IN  /\ \E left \in SUBSET new : \E at \in [left -> Fds], read \in SUBSET new :
                    Tried(new, read, seen, at)
              /\ listed' = seen
              /\ dangling' = dangling \cup {h \in Handles : on[h] \in gone}
              /\ refCount' = [d \in Devices |-> IF d \in gone THEN 0 ELSE refCount[d]]
              /\ ep0' = [d \in Devices |-> IF d \in gone THEN 0 ELSE ep0[d]]
              /\ ep0Stat' = [d \in Devices |-> IF d \in gone THEN 0 ELSE ep0Stat[d]]
              /\ claimedBy' = [d \in Devices |-> IF d \in gone
                                 THEN [i \in Ifaces |-> None] ELSE claimedBy[d]]
              /\ UNCHANGED <<online, on, infoVars>>
    BY DEF FindDevices
  <1>a. PICK left \in SUBSET (seen \ listed) :
          \E at \in [left -> Fds], read \in SUBSET (seen \ listed) :
             Tried(seen \ listed, read, seen, at)
    BY <1>1
  <1>2. PICK at \in [left -> Fds], read \in SUBSET (seen \ listed) :
          Tried(seen \ listed, read, seen, at)
    BY <1>a
  <1>3. file' \in [Fds -> File \cup {None}]
    <2>1. left \subseteq Devices /\ DOMAIN at = left
      BY <1>2 DEF TypeOK
    <2>2. ASSUME NEW fd \in Fds, \E d \in DOMAIN at : at[d] = fd
          PROVE  Cntrl0(CHOOSE d \in DOMAIN at : at[d] = fd) \in File
      BY <2>1, <2>2, Typed
    <2> QED
      BY <1>2, <2>2 DEF Tried, TypeOK
  <1>4. parsed' \subseteq listed' /\ listed' \subseteq Devices
    BY <1>1, <1>2 DEF Tried, TypeOK
  <1>5. /\ refCount' \in [Devices -> Nat]
        /\ ep0' \in [Devices -> Fds \cup {0}] /\ ep0Stat' \in [Devices -> Fds \cup {0}]
        /\ claimedBy' \in [Devices -> [Ifaces -> Handles \cup {None}]]
        /\ dangling' \subseteq Handles
    BY <1>1 DEF TypeOK
  <1> QED
    BY <1>1, <1>3, <1>4, <1>5 DEF TypeOK, infoVars

\* Every step keeps the types; usb_close needs the counter for that.
LEMMA TypeStep == TypeOK /\ Counted /\ ControlPaired /\ [Next]_vars => TypeOK'
  <1> SUFFICES ASSUME TypeOK, Counted, ControlPaired, [Next]_vars PROVE TypeOK'
    OBVIOUS
  <1>1. CASE Plug
    BY <1>1 DEF Plug, TypeOK, deviceVars, handleVars, infoVars
  <1>2. CASE FindDevices
    BY <1>2, FindDevicesType
  <1>3. ASSUME NEW h \in Handles, NEW d \in Devices, OpenShared(h, d) PROVE TypeOK'
    <2>1. Handed(h, d, ep0[d], ep0Stat[d]) /\ ep0[d] \in Fds /\ ep0Stat[d] \in Fds
      BY <1>3, Typed DEF OpenShared, TypeOK, ControlPaired
    <2> QED
      BY <1>3, <2>1, HandedType DEF OpenShared, TypeOK
  <1>4. ASSUME NEW h \in Handles, NEW d \in Devices, OpenFirst(h, d) PROVE TypeOK'
    <2>1. PICK fd \in Fds, stat \in Fds :
            /\ file' = [file EXCEPT ![fd] = Cntrl0(d), ![stat] = Cntrl0Stat(d)]
            /\ ep0' = [ep0 EXCEPT ![d] = fd]
            /\ ep0Stat' = [ep0Stat EXCEPT ![d] = stat]
            /\ Handed(h, d, fd, stat)
      BY <1>4 DEF OpenFirst
    <2>2. file' \in [Fds -> File \cup {None}]
      BY <2>1, Typed DEF TypeOK
    <2>3. parsed' \subseteq listed'
      BY <1>4 DEF OpenFirst, TypeOK
    <2> QED
      BY <1>4, <2>1, <2>2, <2>3, HandedType DEF OpenFirst, TypeOK
  <1>5. ASSUME NEW h \in Handles, NEW d \in Devices, OpenFails(h, d) PROVE TypeOK'
    BY <1>5, Typed DEF OpenFails, TypeOK, deviceVars, handleVars, infoVars
  <1>6. ASSUME NEW h \in Handles, Close(h) PROVE TypeOK'
    <2>1. /\ on[h] \in Devices /\ refCount[on[h]] \in Nat /\ refCount[on[h]] >= 1
      BY <1>6, UsedIsCounted DEF Close
    <2>2. refCount' \in [Devices -> Nat]
      BY <1>6, <2>1 DEF Close, TypeOK
    <2>3. file' \in [Fds -> File \cup {None}]
      BY <1>6, ClosingType DEF Close
    <2>4. /\ claimed' \in [Handles -> Ifaces \cup {Unset}]
          /\ claimedBy' \in [Devices -> [Ifaces -> Handles \cup {None}]]
      BY <1>6, ReleasedType DEF Close
    <2>5. /\ ep0' \in [Devices -> Fds \cup {0}]
          /\ ep0Stat' \in [Devices -> Fds \cup {0}]
      BY <1>6 DEF Close, TypeOK
    <2> QED
      BY <1>6, <2>2, <2>3, <2>4, <2>5 DEF Close, TypeOK, Descriptor
  <1>7. ASSUME NEW h \in Handles, Release(h) PROVE TypeOK'
    <2>1. /\ claimed' \in [Handles -> Ifaces \cup {Unset}]
          /\ claimedBy' \in [Devices -> [Ifaces -> Handles \cup {None}]]
      BY <1>7, ReleasedType DEF Release, ReleasedIfClaimed
    <2> QED
      BY <1>7, <2>1 DEF Release, TypeOK
  <1>8. ASSUME NEW h \in Handles, NEW i \in Ifaces, Claim(h, i) PROVE TypeOK'
    <2>1. Takes(h, i) /\ ConfigIndex(h) \in Configs
      BY <1>8, ConfigIndexType DEF Claim
    <2>2. /\ claimed' \in [Handles -> Ifaces \cup {Unset}]
          /\ claimedBy' \in [Devices -> [Ifaces -> Handles \cup {None}]]
      BY <2>1, TakesType
    <2> QED
      BY <1>8, <2>1, <2>2, EpInterfacesType, Typed DEF Claim, TypeOK
  <1>9. ASSUME NEW h \in Handles, NEW i \in Ifaces, ClaimRefused(h, i) PROVE TypeOK'
    BY <1>9, ConfigIndexType DEF ClaimRefused, TypeOK, deviceVars
  <1>10. ASSUME NEW h \in Handles, NEW a \in Alts, SetAlt(h, a) PROVE TypeOK'
    <2>1. file' \in [Fds -> File \cup {None}]
      BY <1>10, ClosingType DEF SetAlt
    <2>2. /\ epFd' \in [Handles -> [Eps -> Descriptor]]
          /\ epStat' \in [Handles -> [Eps -> Descriptor]]
      BY <1>10, EpsClosedType DEF SetAlt
    <2>3. claimed[h] \in Ifaces
      BY <1>10 DEF SetAlt, TypeOK
    <2>4. EpInterfaces(cfg[h], claimed[h], a) \in [Eps -> Ifaces \cup {Unset}]
      BY <2>3, EpInterfacesType
    <2>5. /\ alt' \in [Handles -> Alts \cup {Unset}]
          /\ epIf' \in [Handles -> [Eps -> Ifaces \cup {Unset}]]
      BY <1>10, <2>4 DEF SetAlt, TypeOK
    <2> QED
      BY <1>10, <2>1, <2>2, <2>5 DEF SetAlt, TypeOK, deviceVars
  <1>11. ASSUME NEW h \in Handles, NEW a \in Alts, SetAltClaims(h, a) PROVE TypeOK'
    <2>1. file' \in [Fds -> File \cup {None}]
      BY <1>11, ClosingType DEF SetAltClaims
    <2>2. /\ epFd' \in [Handles -> [Eps -> Descriptor]]
          /\ epStat' \in [Handles -> [Eps -> Descriptor]]
      BY <1>11, EpsClosedType DEF SetAltClaims
    <2>3. /\ claimed' \in [Handles -> Ifaces \cup {Unset}]
          /\ claimedBy' \in [Devices -> [Ifaces -> Handles \cup {None}]]
      BY <1>11, TakesType, Typed DEF SetAltClaims
    <2>4. PICK b \in Alts :
            /\ alt' = [alt EXCEPT ![h] = b]
            /\ epIf' = [epIf EXCEPT ![h] = EpInterfaces(ConfigIndex(h), 0, b)]
      BY <1>11, Typed DEF SetAltClaims
    <2>5. EpInterfaces(ConfigIndex(h), 0, b) \in [Eps -> Ifaces \cup {Unset}]
      BY EpInterfacesType, Typed
    <2>6. cfg' \in [Handles -> Configs \cup {Unset}]
      BY <1>11, ConfigIndexType DEF SetAltClaims, TypeOK
    <2> QED
      BY <1>11, <2>1, <2>2, <2>3, <2>4, <2>5, <2>6 DEF SetAltClaims, TypeOK
  <1>12. ASSUME NEW h \in Handles, NEW c \in Configs, SetConfiguration(h, c) PROVE TypeOK'
    <2>1. file' \in [Fds -> File \cup {None}]
      BY <1>12, ClosingType DEF SetConfiguration
    <2>2. /\ epFd' \in [Handles -> [Eps -> Descriptor]]
          /\ epStat' \in [Handles -> [Eps -> Descriptor]]
      BY <1>12, EpsClosedType DEF SetConfiguration
    <2>3. /\ claimed' \in [Handles -> Ifaces \cup {Unset}]
          /\ claimedBy' \in [Devices -> [Ifaces -> Handles \cup {None}]]
      BY <1>12, ReleasedType DEF SetConfiguration
    <2> QED
      BY <1>12, <2>1, <2>2, <2>3 DEF SetConfiguration, TypeOK
  <1>13. ASSUME NEW h \in Handles, NEW e \in EpNums, Transfer(h, e) PROVE TypeOK'
    <2>1. /\ on[h] \in Devices /\ cfg[h] \in Configs /\ epIf[h][e] \in Ifaces
          /\ alt[h] \in Alts /\ e \in Eps
      BY <1>13, Typed DEF Transfer, MayUse, Usable, TypeOK
    <2>2. PICK fd \in Fds, stat \in Fds :
            /\ file' = [file EXCEPT ![stat] = EpStat(on[h], cfg[h], epIf[h][e], alt[h], e),
                                    ![fd] = EpFile(on[h], cfg[h], epIf[h][e], alt[h], e)]
            /\ epFd' = [epFd EXCEPT ![h][e] = fd]
            /\ epStat' = [epStat EXCEPT ![h][e] = stat]
      BY <1>13 DEF Transfer
    <2>3. file' \in [Fds -> File \cup {None}]
      BY <2>1, <2>2, Typed DEF TypeOK
    <2>4. /\ epFd' \in [Handles -> [Eps -> Descriptor]]
          /\ epStat' \in [Handles -> [Eps -> Descriptor]]
      BY <2>1, <2>2 DEF TypeOK, Descriptor
    <2> QED
      BY <1>13, <2>3, <2>4 DEF Transfer, TypeOK, deviceVars
  <1>14. ASSUME NEW h \in Handles, NEW e \in EpNums, InterruptRead(h, e) PROVE TypeOK'
    <2>1. file' \in [Fds -> File \cup {None}]
      BY <1>14, ClosingType DEF InterruptRead
    <2>2. /\ epFd' \in [Handles -> [Eps -> Descriptor]]
          /\ epStat' \in [Handles -> [Eps -> Descriptor]]
      BY <1>14, Typed DEF InterruptRead, TypeOK, Descriptor
    <2> QED
      BY <1>14, <2>1, <2>2 DEF InterruptRead, TypeOK, deviceVars
  <1>15. CASE UNCHANGED vars
    BY <1>15 DEF vars, deviceVars, handleVars, infoVars, TypeOK
  <1> QED
    BY <1>1, <1>2, <1>3, <1>4, <1>5, <1>6, <1>7, <1>8, <1>9, <1>10, <1>11, <1>12,
       <1>13, <1>14, <1>15 DEF Next
-----------------------------------------------------------------------------
\* usb_find_devices, as far as the claims and the handles see it.
Forgets(gone) ==
    /\ gone \subseteq Devices
    /\ dangling' = dangling \cup {h \in Handles : on[h] \in gone}
    /\ refCount' = [d \in Devices |-> IF d \in gone THEN 0 ELSE refCount[d]]
    /\ ep0' = [d \in Devices |-> IF d \in gone THEN 0 ELSE ep0[d]]
    /\ ep0Stat' = [d \in Devices |-> IF d \in gone THEN 0 ELSE ep0Stat[d]]
    /\ claimedBy' = [d \in Devices |-> IF d \in gone THEN [i \in Ifaces |-> None]
                                       ELSE claimedBy[d]]
    /\ UNCHANGED <<online, on, infoVars>>
    /\ parsed \ gone \subseteq parsed'
    /\ \A fd \in Fds : file[fd] # None => file'[fd] = file[fd]
    /\ \A fd \in Fds : file[fd] = None => \/ file'[fd] = None
                                          \/ \E d \in Devices : file'[fd] = Cntrl0(d)

LEMMA FindForgets ==
  ASSUME TypeOK, FindDevices PROVE \E gone \in SUBSET Devices : Forgets(gone)
  <1>1. PICK seen \in SUBSET online :
          LET gone == listed \ seen
              new  == seen \ listed
          IN  /\ \E left \in SUBSET new : \E at \in [left -> Fds], read \in SUBSET new :
                    Tried(new, read, seen, at)
              /\ listed' = seen
              /\ dangling' = dangling \cup {h \in Handles : on[h] \in gone}
              /\ refCount' = [d \in Devices |-> IF d \in gone THEN 0 ELSE refCount[d]]
              /\ ep0' = [d \in Devices |-> IF d \in gone THEN 0 ELSE ep0[d]]
              /\ ep0Stat' = [d \in Devices |-> IF d \in gone THEN 0 ELSE ep0Stat[d]]
              /\ claimedBy' = [d \in Devices |-> IF d \in gone
                                 THEN [i \in Ifaces |-> None] ELSE claimedBy[d]]
              /\ UNCHANGED <<online, on, infoVars>>
    BY DEF FindDevices
  <1>2. PICK left \in SUBSET (seen \ listed) :
          \E at \in [left -> Fds], read \in SUBSET (seen \ listed) :
             Tried(seen \ listed, read, seen, at)
    BY <1>1
  <1>3. PICK at \in [left -> Fds], read \in SUBSET (seen \ listed) :
          Tried(seen \ listed, read, seen, at)
    BY <1>2
  <1>4. left \subseteq Devices /\ DOMAIN at = left
    BY <1>3 DEF TypeOK
  <1>5. ASSUME NEW fd \in Fds, \E d \in DOMAIN at : at[d] = fd
        PROVE  file[fd] = None /\ \E d \in Devices : file'[fd] = Cntrl0(d)
    BY <1>3, <1>4, <1>5 DEF Tried, Free
  <1>6. ASSUME NEW fd \in Fds, ~ \E d \in DOMAIN at : at[d] = fd
        PROVE  file'[fd] = file[fd]
    BY <1>3, <1>6 DEF Tried
  <1>7. parsed \ (listed \ seen) \subseteq parsed'
    BY <1>3 DEF Tried, TypeOK
  <1>8. /\ \A fd \in Fds : file[fd] # None => file'[fd] = file[fd]
        /\ \A fd \in Fds : file[fd] = None => \/ file'[fd] = None
                                              \/ \E d \in Devices : file'[fd] = Cntrl0(d)
    BY <1>5, <1>6
  <1> DEFINE gone == listed \ seen
  <1>9. gone \subseteq Devices
    BY DEF TypeOK
  <1>10. Forgets(gone)
    BY <1>1, <1>7, <1>8, <1>9 DEF Forgets
  <1> QED
    BY <1>9, <1>10

\* Claims and handles agree: an inductive invariant of its own.
LEMMA ClaimsStep == TypeOK /\ ClaimsAgree /\ [Next]_vars => ClaimsAgree'
  <1> SUFFICES ASSUME TypeOK, ClaimsAgree, [Next]_vars PROVE ClaimsAgree'
    OBVIOUS
  <1>0. None \notin Handles /\ None \notin Devices /\ Unset \notin Ifaces
    BY UgenAssumption, Typed
  <1>1. ASSUME UNCHANGED <<claimedBy, on, dangling, claimed>> PROVE ClaimsAgree'
    BY <1>1 DEF ClaimsAgree
  <1>2. CASE FindDevices
    <2>1. PICK gone \in SUBSET Devices : Forgets(gone)
      BY <1>2, FindForgets
    <2>2. ASSUME NEW d \in Devices, NEW i \in Ifaces, NEW h \in Handles
          PROVE  claimedBy'[d][i] = h
                   <=> on'[h] = d /\ h \notin dangling' /\ claimed'[h] = i
      <3>1. on' = on /\ claimed' = claimed
        BY <2>1 DEF Forgets, infoVars
      <3>2. CASE d \in gone
        <4>1. claimedBy'[d][i] = None
          BY <2>1, <3>2 DEF Forgets
        <4>2. on[h] = d => h \in dangling'
          BY <2>1, <3>2 DEF Forgets
        <4> QED
          BY <3>1, <4>1, <4>2, <1>0
      <3>3. CASE d \notin gone
        <4>1. claimedBy'[d] = claimedBy[d]
          BY <2>1, <3>3 DEF Forgets
        <4>2. on[h] = d => (h \in dangling' <=> h \in dangling)
          BY <2>1, <3>3 DEF Forgets
        <4> QED
          BY <3>1, <4>1, <4>2 DEF ClaimsAgree
      <3> QED
        BY <3>2, <3>3
    <2> QED
      BY <2>2 DEF ClaimsAgree
  <1>3. ASSUME NEW h \in Handles, NEW d \in Devices, NEW fd, NEW stat, on[h] = None,
               Handed(h, d, fd, stat), UNCHANGED <<claimedBy, dangling>>
        PROVE  ClaimsAgree'
    BY <1>3, <1>0 DEF Handed, ClaimsAgree, TypeOK
  <1>4. ASSUME NEW h \in Handles, Usable(h), claimed[h] # Unset, Released(h),
               UNCHANGED dangling,
               on' = on \/ on' = [on EXCEPT ![h] = None]
        PROVE  ClaimsAgree'
    <2> DEFINE e == on[h]  j == claimed[h]
    <2>1. e \in Devices /\ j \in Ifaces /\ h \notin dangling
      BY <1>4 DEF TypeOK, Usable
    <2>2. claimedBy' = [claimedBy EXCEPT ![e] = [claimedBy[e] EXCEPT ![j] = None]]
      BY <1>4 DEF Released
    <2>3. claimed' = [claimed EXCEPT ![h] = Unset]
      BY <1>4 DEF Released
    <2>4. claimedBy[e][j] = h
      BY <2>1 DEF ClaimsAgree
    <2>5. e = on[h] /\ j = claimed[h]
      OBVIOUS
    <2> HIDE DEF e, j
    <2>6. ASSUME NEW d \in Devices, NEW i \in Ifaces, NEW g \in Handles
          PROVE  claimedBy'[d][i] = g
                   <=> on'[g] = d /\ g \notin dangling' /\ claimed'[g] = i
      <3>1. claimedBy'[d][i] = IF d = e /\ i = j THEN None ELSE claimedBy[d][i]
        BY <2>1, <2>2 DEF TypeOK
      <3>2. claimed'[g] = IF g = h THEN Unset ELSE claimed[g]
        BY <2>3 DEF TypeOK
      <3>3. g # h => on'[g] = on[g]
        BY <1>4 DEF TypeOK
      <3> QED
        BY <3>1, <3>2, <3>3, <2>4, <2>5, <1>0, <1>4 DEF ClaimsAgree
    <2> QED
      BY <2>6 DEF ClaimsAgree
  <1>5. ASSUME NEW h \in Handles, Usable(h), ReleasedIfClaimed(h), UNCHANGED dangling,
               on' = on \/ on' = [on EXCEPT ![h] = None]
        PROVE  ClaimsAgree'
    <2>1. CASE claimed[h] = Unset
      BY <1>5, <2>1, <1>0 DEF ReleasedIfClaimed, ClaimsAgree, TypeOK
    <2>2. CASE claimed[h] # Unset
      BY <1>4, <1>5, <2>2 DEF ReleasedIfClaimed
    <2> QED
      BY <2>1, <2>2
  <1>6. ASSUME NEW h \in Handles, Usable(h), NEW j \in Ifaces, CanClaim(h, j), Takes(h, j),
               UNCHANGED <<on, dangling>>
        PROVE  ClaimsAgree'
    <2> DEFINE e == on[h]
    <2>1. e \in Devices /\ h \notin dangling
      BY <1>6 DEF TypeOK, Usable
    <2>2. claimedBy' = [claimedBy EXCEPT ![e] = [claimedBy[e] EXCEPT ![j] = h]]
      BY <1>6 DEF Takes
    <2>3. claimed' = [claimed EXCEPT ![h] = j]
      BY <1>6 DEF Takes
    <2>4. claimedBy[e][j] = None /\ claimed[h] = Unset
      BY <1>6 DEF CanClaim
    <2>5. e = on[h]
      OBVIOUS
    <2> HIDE DEF e
    <2>6. ASSUME NEW d \in Devices, NEW i \in Ifaces, NEW g \in Handles
          PROVE  claimedBy'[d][i] = g
                   <=> on'[g] = d /\ g \notin dangling' /\ claimed'[g] = i
      <3>1. claimedBy'[d][i] = IF d = e /\ i = j THEN h ELSE claimedBy[d][i]
        BY <2>1, <2>2 DEF TypeOK
      <3>2. claimed'[g] = IF g = h THEN j ELSE claimed[g]
        BY <2>3 DEF TypeOK
      <3> QED
        BY <3>1, <3>2, <2>1, <2>4, <2>5, <1>0, <1>6 DEF ClaimsAgree
    <2> QED
      BY <2>6 DEF ClaimsAgree
  <1>7. ASSUME NEW h \in Handles, NEW d \in Devices,
               OpenShared(h, d) \/ OpenFirst(h, d) \/ OpenFails(h, d)
        PROVE  ClaimsAgree'
    BY <1>7, <1>3, <1>1 DEF OpenShared, OpenFirst, OpenFails, deviceVars, handleVars, infoVars
  <1>8. ASSUME NEW h \in Handles, Close(h) \/ Release(h) \/ \E c \in Configs : SetConfiguration(h, c)
        PROVE  ClaimsAgree'
    BY <1>8, <1>5 DEF Close, Release, SetConfiguration, ReleasedIfClaimed
  <1>9. ASSUME NEW h \in Handles, NEW i \in Ifaces, Claim(h, i) PROVE ClaimsAgree'
    BY <1>9, <1>6 DEF Claim
  <1>10. ASSUME NEW h \in Handles, NEW a \in Alts, SetAltClaims(h, a) PROVE ClaimsAgree'
    BY <1>10, <1>6, Typed DEF SetAltClaims
  <1>11. ASSUME Plug \/ UNCHANGED vars PROVE ClaimsAgree'
    BY <1>11, <1>1 DEF Plug, vars, deviceVars, handleVars, infoVars
  <1>12. ASSUME NEW h \in Handles,
                (\E i \in Ifaces : ClaimRefused(h, i)) \/ (\E a \in Alts : SetAlt(h, a))
         PROVE ClaimsAgree'
    BY <1>12, <1>1 DEF ClaimRefused, SetAlt, deviceVars
  <1>13. ASSUME NEW h \in Handles, NEW e \in EpNums, Transfer(h, e) \/ InterruptRead(h, e)
         PROVE ClaimsAgree'
    BY <1>13, <1>1 DEF Transfer, InterruptRead, deviceVars
  <1> QED
    BY <1>2, <1>7, <1>8, <1>9, <1>10, <1>11, <1>12, <1>13 DEF Next
-----------------------------------------------------------------------------
\* The counter follows the handles.
LEMMA CountedStep ==
  TypeOK /\ Counted /\ DanglingWasOpen /\ [Next]_vars => Counted' /\ DanglingWasOpen'
  <1> SUFFICES ASSUME TypeOK, Counted, DanglingWasOpen, [Next]_vars
               PROVE  Counted' /\ DanglingWasOpen'
    OBVIOUS
  <1>0. None \notin Handles /\ None \notin Devices
    BY UgenAssumption
  <1>1. ASSUME UNCHANGED <<refCount, on, dangling>> PROVE Counted' /\ DanglingWasOpen'
    BY <1>1 DEF Counted, DanglingWasOpen, OpenOn
  <1>2. CASE FindDevices
    <2>1. PICK gone \in SUBSET Devices : Forgets(gone)
      BY <1>2, FindForgets
    <2>2. /\ on' = on
          /\ dangling' = dangling \cup {h \in Handles : on[h] \in gone}
          /\ refCount' = [d \in Devices |-> IF d \in gone THEN 0 ELSE refCount[d]]
      BY <2>1 DEF Forgets
    <2>3. ASSUME NEW d \in Devices PROVE refCount'[d] = Cardinality(OpenOn(d)')
      <3>1. CASE d \in gone
        <4>1. OpenOn(d)' = {}
          BY <2>2, <3>1 DEF OpenOn
        <4> QED
          BY <2>2, <3>1, <4>1, FS_EmptySet
      <3>2. CASE d \notin gone
        <4>1. OpenOn(d)' = OpenOn(d)
          BY <2>2, <3>2 DEF OpenOn
        <4> QED
          BY <2>2, <3>2, <4>1 DEF Counted
      <3> QED
        BY <3>1, <3>2
    <2>4. DanglingWasOpen'
      BY <2>2, <1>0 DEF DanglingWasOpen
    <2> QED
      BY <2>3, <2>4 DEF Counted
  <1>3. ASSUME NEW h \in Handles, NEW d \in Devices, OpenShared(h, d) \/ OpenFirst(h, d)
        PROVE  Counted' /\ DanglingWasOpen'
    <2>1. /\ on' = [on EXCEPT ![h] = d]
          /\ refCount' = [refCount EXCEPT ![d] = @ + 1]
          /\ dangling' = dangling /\ on[h] = None
      BY <1>3 DEF OpenShared, OpenFirst, Handed
    <2>2. h \notin dangling
      BY <2>1 DEF DanglingWasOpen
    <2>3. ASSUME NEW e \in Devices PROVE refCount'[e] = Cardinality(OpenOn(e)')
      <3>1. CASE e = d
        <4>1. OpenOn(d)' = OpenOn(d) \cup {h} /\ h \notin OpenOn(d)
          BY <2>1, <2>2, <1>0 DEF OpenOn, TypeOK
        <4>2. Cardinality(OpenOn(d) \cup {h}) = Cardinality(OpenOn(d)) + 1
          BY <4>1, OpenOnFinite, FS_AddElement
        <4>3. refCount'[d] = refCount[d] + 1
          BY <2>1 DEF TypeOK
        <4> QED
          BY <3>1, <4>1, <4>2, <4>3 DEF Counted
      <3>2. CASE e # d
        <4>1. OpenOn(e)' = OpenOn(e)
          BY <2>1, <3>2, <1>0 DEF OpenOn, TypeOK
        <4> QED
          BY <2>1, <3>2, <4>1 DEF Counted, TypeOK
      <3> QED
        BY <3>1, <3>2
    <2>4. DanglingWasOpen'
      BY <2>1, <2>2 DEF DanglingWasOpen, TypeOK
    <2> QED
      BY <2>3, <2>4 DEF Counted
  <1>4. ASSUME NEW h \in Handles, Close(h) PROVE Counted' /\ DanglingWasOpen'
    <2>2. PICK d \in Devices : d = on[h]
      BY <1>4 DEF Close, Usable, TypeOK
    <2>1. /\ on' = [on EXCEPT ![h] = None]
          /\ refCount' = [refCount EXCEPT ![d] = @ - 1]
          /\ dangling' = dangling /\ h \notin dangling
      BY <1>4, <2>2 DEF Close, Usable
    <2>3. ASSUME NEW e \in Devices PROVE refCount'[e] = Cardinality(OpenOn(e)')
      <3>1. CASE e = d
        <4>1. OpenOn(d)' = OpenOn(d) \ {h} /\ h \in OpenOn(d)
          BY <2>1, <2>2, <1>0 DEF OpenOn, TypeOK
        <4>2. Cardinality(OpenOn(d) \ {h}) = Cardinality(OpenOn(d)) - 1
          BY <4>1, OpenOnFinite, FS_RemoveElement
        <4>3. refCount'[d] = refCount[d] - 1
          BY <2>1, <2>2 DEF TypeOK
        <4> QED
          BY <3>1, <4>1, <4>2, <4>3, <2>2 DEF Counted
      <3>2. CASE e # d
        <4>1. OpenOn(e)' = OpenOn(e)
          BY <2>1, <2>2, <3>2, <1>0 DEF OpenOn, TypeOK
        <4> QED
          BY <2>1, <3>2, <4>1 DEF Counted, TypeOK
      <3> QED
        BY <3>1, <3>2
    <2>4. DanglingWasOpen'
      BY <2>1 DEF DanglingWasOpen, TypeOK
    <2> QED
      BY <2>3, <2>4 DEF Counted
  <1>5. ASSUME Plug \/ UNCHANGED vars PROVE Counted' /\ DanglingWasOpen'
    BY <1>5, <1>1 DEF Plug, vars, deviceVars, handleVars, infoVars
  <1>6. ASSUME NEW h \in Handles,
               \/ \E d \in Devices : OpenFails(h, d)
               \/ Release(h)
               \/ \E i \in Ifaces : Claim(h, i) \/ ClaimRefused(h, i)
        PROVE Counted' /\ DanglingWasOpen'
    BY <1>6, <1>1 DEF OpenFails, Release, Claim, ClaimRefused, deviceVars, handleVars
  <1>7. ASSUME NEW h \in Handles,
               \/ \E a \in Alts : SetAlt(h, a) \/ SetAltClaims(h, a)
               \/ \E c \in Configs : SetConfiguration(h, c)
        PROVE Counted' /\ DanglingWasOpen'
    BY <1>7, <1>1 DEF SetAlt, SetAltClaims, SetConfiguration, deviceVars
  <1>8. ASSUME NEW h \in Handles, NEW e \in EpNums, Transfer(h, e) \/ InterruptRead(h, e)
        PROVE Counted' /\ DanglingWasOpen'
    BY <1>8, <1>1 DEF Transfer, InterruptRead, deviceVars
  <1> QED
    BY <1>2, <1>3, <1>4, <1>5, <1>6, <1>7, <1>8 DEF Next

\* What a handle with a claim knows of its interface is what the device says.
LEMMA DescribedStep == TypeOK /\ ClaimIsDescribed /\ [Next]_vars => ClaimIsDescribed'
  <1> DEFINE Known(h) ==
        Usable(h) =>
          /\ on[h] \in parsed
          /\ claimed[h] # Unset =>
                /\ cfg[h] \in Configs /\ claimed[h] \in IfacesOf(cfg[h])
                /\ alt[h] \in AltsOf(cfg[h], claimed[h])
                /\ epIf[h] = EpInterfaces(cfg[h], claimed[h], alt[h])
  <1> SUFFICES ASSUME TypeOK, ClaimIsDescribed, [Next]_vars, NEW g \in Handles
               PROVE  Known(g)'
    BY DEF ClaimIsDescribed
  <1>a. Known(g)
    BY DEF ClaimIsDescribed
  <1>0. None \notin Devices
    BY UgenAssumption
  <1>1. ASSUME on'[g] = on[g], dangling \subseteq dangling',
               parsed \subseteq parsed', cfg'[g] = cfg[g], claimed'[g] = claimed[g],
               alt'[g] = alt[g], epIf'[g] = epIf[g]
        PROVE  Known(g)'
    BY <1>1, <1>a DEF Usable
  <1>2. CASE FindDevices
    <2>1. PICK gone \in SUBSET Devices : Forgets(gone)
      BY <1>2, FindForgets
    <2>2. /\ on' = on /\ cfg' = cfg /\ claimed' = claimed /\ alt' = alt /\ epIf' = epIf
          /\ dangling' = dangling \cup {h \in Handles : on[h] \in gone}
          /\ parsed \ gone \subseteq parsed'
      BY <2>1 DEF Forgets, infoVars
    <2>3. Usable(g)' => Usable(g) /\ on[g] \notin gone
      BY <2>2 DEF Usable
    <2> QED
      BY <2>2, <2>3, <1>a
  <1>3. ASSUME NEW h \in Handles, NEW d \in Devices, NEW fd, NEW stat,
               Handed(h, d, fd, stat), d \in parsed', parsed \subseteq parsed',
               dangling' = dangling
        PROVE  Known(g)'
    <2>1. CASE g = h
      BY <1>3, <2>1 DEF Handed, TypeOK
    <2>2. CASE g # h
      BY <1>3, <2>2, <1>1 DEF Handed, TypeOK
    <2> QED
      BY <2>1, <2>2
  <1>4. ASSUME NEW h \in Handles, NEW d \in Devices,
               OpenShared(h, d) \/ OpenFirst(h, d) \/ OpenFails(h, d)
        PROVE  Known(g)'
    BY <1>4, <1>3, <1>1 DEF OpenShared, OpenFirst, OpenFails, deviceVars, handleVars, infoVars
  <1>5. ASSUME NEW h \in Handles, Close(h) PROVE Known(g)'
    <2>1. CASE g = h
      BY <1>5, <2>1 DEF Close, Usable, TypeOK
    <2>2. CASE g # h
      <3>1. claimed'[g] = claimed[g]
        BY <1>5, <2>2 DEF Close, ReleasedIfClaimed, Released, TypeOK
      <3> QED
        BY <1>5, <2>2, <3>1, <1>1 DEF Close, TypeOK
    <2> QED
      BY <2>1, <2>2
  <1>6. ASSUME NEW h \in Handles, Release(h) PROVE Known(g)'
    <2>1. CASE g = h
      BY <1>6, <2>1, <1>a DEF Release, Released, Usable, TypeOK
    <2>2. CASE g # h
      BY <1>6, <2>2, <1>1 DEF Release, Released, TypeOK
    <2> QED
      BY <2>1, <2>2
  <1>7. ASSUME NEW h \in Handles, NEW i \in Ifaces, Claim(h, i) PROVE Known(g)'
    <2> DEFINE c == ConfigIndex(h)
    <2>1. /\ cfg' = [cfg EXCEPT ![h] = c] /\ alt' = [alt EXCEPT ![h] = 0]
          /\ epIf' = [epIf EXCEPT ![h] = EpInterfaces(c, i, 0)]
          /\ claimed' = [claimed EXCEPT ![h] = i]
          /\ on' = on /\ dangling' = dangling /\ parsed' = parsed
      BY <1>7 DEF Claim, Takes
    <2>2. c \in Configs /\ i \in IfacesOf(c) /\ 0 \in AltsOf(c, i)
      BY <1>7, ConfigIndexType, UgenAssumption DEF Claim, CanClaim
    <2> HIDE DEF c
    <2>3. CASE g = h
      BY <2>1, <2>2, <2>3, <1>a DEF Usable, TypeOK
    <2>4. CASE g # h
      BY <2>1, <2>4, <1>1 DEF TypeOK
    <2> QED
      BY <2>3, <2>4
  <1>8. ASSUME NEW h \in Handles, NEW i \in Ifaces, ClaimRefused(h, i) PROVE Known(g)'
    <2>1. /\ cfg' = [cfg EXCEPT ![h] = ConfigIndex(h)]
          /\ UNCHANGED <<on, dangling, parsed, claimed, alt, epIf>>
      BY <1>8 DEF ClaimRefused, deviceVars
    <2>2. CASE g = h
      <3>1. Usable(h) /\ claimed[h] # Unset => ConfigIndex(h) = cfg[h]
        BY <2>2, <1>a, Typed DEF ConfigIndex
      <3> QED
        BY <2>1, <2>2, <3>1, <1>a DEF Usable, TypeOK
    <2>3. CASE g # h
      BY <2>1, <2>3, <1>1 DEF TypeOK
    <2> QED
      BY <2>2, <2>3
  <1>9. ASSUME NEW h \in Handles, NEW a \in Alts, SetAlt(h, a) PROVE Known(g)'
    <2>1. UNCHANGED <<on, dangling, parsed, cfg, claimed>>
      BY <1>9 DEF SetAlt, deviceVars
    <2>2. CASE a \notin AltsOf(cfg[h], claimed[h])
      BY <1>9, <2>1, <2>2, <1>1 DEF SetAlt
    <2>3. CASE a \in AltsOf(cfg[h], claimed[h])
      <3>1. /\ alt' = [alt EXCEPT ![h] = a]
            /\ epIf' = [epIf EXCEPT ![h] = EpInterfaces(cfg[h], claimed[h], a)]
        BY <1>9, <2>3 DEF SetAlt
      <3>2. CASE g = h
        BY <2>1, <2>3, <3>1, <3>2, <1>a DEF Usable, TypeOK
      <3>3. CASE g # h
        BY <2>1, <3>1, <3>3, <1>1 DEF TypeOK
      <3> QED
        BY <3>2, <3>3
    <2> QED
      BY <2>2, <2>3
  <1>10. ASSUME NEW h \in Handles, NEW a \in Alts, SetAltClaims(h, a) PROVE Known(g)'
    <2> DEFINE c == ConfigIndex(h)
               b == IF a \in AltsOf(c, 0) THEN a ELSE 0
    <2>1. /\ cfg' = [cfg EXCEPT ![h] = c] /\ alt' = [alt EXCEPT ![h] = b]
          /\ epIf' = [epIf EXCEPT ![h] = EpInterfaces(c, 0, b)]
          /\ claimed' = [claimed EXCEPT ![h] = 0]
          /\ on' = on /\ dangling' = dangling /\ parsed' = parsed
      BY <1>10 DEF SetAltClaims, Takes
    <2>2. c \in Configs /\ 0 \in IfacesOf(c) /\ 0 \in AltsOf(c, 0)
      BY <1>10, ConfigIndexType, UgenAssumption DEF SetAltClaims, CanClaim
    <2>3. b \in AltsOf(c, 0)
      BY <2>2
    <2> HIDE DEF c, b
    <2>4. CASE g = h
      BY <2>1, <2>2, <2>3, <2>4, <1>a DEF Usable, TypeOK
    <2>5. CASE g # h
      BY <2>1, <2>5, <1>1 DEF TypeOK
    <2> QED
      BY <2>4, <2>5
  <1>11. ASSUME NEW h \in Handles, NEW c \in Configs, SetConfiguration(h, c) PROVE Known(g)'
    <2>1. CASE g = h
      <3>1. claimed'[h] = Unset
        BY <1>11 DEF SetConfiguration, ReleasedIfClaimed, Released, TypeOK
      <3> QED
        BY <1>11, <2>1, <3>1, <1>a DEF SetConfiguration, Usable
    <2>2. CASE g # h
      <3>1. claimed'[g] = claimed[g]
        BY <1>11, <2>2 DEF SetConfiguration, ReleasedIfClaimed, Released, TypeOK
      <3> QED
        BY <1>11, <2>2, <3>1, <1>1 DEF SetConfiguration, TypeOK
    <2> QED
      BY <2>1, <2>2
  <1>12. ASSUME \/ Plug \/ UNCHANGED vars
                \/ \E h \in Handles, e \in EpNums : Transfer(h, e) \/ InterruptRead(h, e)
         PROVE Known(g)'
    BY <1>12, <1>1 DEF Plug, Transfer, InterruptRead, vars, deviceVars, handleVars, infoVars
  <1> HIDE DEF Known
  <1> QED
    BY <1>2, <1>4, <1>5, <1>6, <1>7, <1>8, <1>9, <1>10, <1>11, <1>12 DEF Next
-----------------------------------------------------------------------------
\* What is behind the control endpoint of a device that has one.
ControlOpen ==
    /\ \A d \in Devices : ep0[d] # 0 => /\ file[ep0[d]] = Cntrl0(d)
                                        /\ file[ep0Stat[d]] = Cntrl0Stat(d)
    /\ \A d \in Devices : refCount[d] = 0 <=> ep0[d] = 0
    /\ \A h \in Handles : Usable(h) => /\ epFd[h][0] = ep0[on[h]]
                                       /\ epStat[h][0] = ep0Stat[on[h]]

\* No two handles keep the same descriptor of an endpoint, and a closed one none.
HeldApart ==
    /\ \A g, h \in Handles : g # h => Held(g) \cap Held(h) \subseteq {Unset}
    /\ \A h \in Handles, e \in EpNums : epFd[h][e] # Unset => on[h] # None

LEMMA FilesApart ==
  /\ \A d, e \in Devices : Cntrl0(d) = Cntrl0(e) => d = e
  /\ \A d, e \in Devices : Cntrl0Stat(d) = Cntrl0Stat(e) => d = e
  /\ \A d, e \in Devices : Cntrl0(d) # Cntrl0Stat(e)
  /\ \A d, e, c, i, a, n : /\ Cntrl0(d) # EpFile(e, c, i, a, n)
                           /\ Cntrl0(d) # EpStat(e, c, i, a, n)
                           /\ Cntrl0Stat(d) # EpFile(e, c, i, a, n)
                           /\ Cntrl0Stat(d) # EpStat(e, c, i, a, n)
  /\ \A d, c, i, a, n, e, x, j, b, m : EpFile(d, c, i, a, n) # EpStat(e, x, j, b, m)
  /\ \A d, c, i, a, n, e, x, j, b, m :
        EpFile(d, c, i, a, n) = EpFile(e, x, j, b, m) => n = m
  /\ \A d, c, i, a, n, e, x, j, b, m :
        EpStat(d, c, i, a, n) = EpStat(e, x, j, b, m) => n = m
  <1>1. \A d, c, i, a, n, e, x, j, b, m : EpFile(d, c, i, a, n) # EpStat(e, x, j, b, m)
    BY DEF EpFile, EpStat
  <1>2. \A d, c, i, a, n, e, x, j, b, m :
          EpFile(d, c, i, a, n) = EpFile(e, x, j, b, m) => n = m
    BY DEF EpFile
  <1>3. \A d, c, i, a, n, e, x, j, b, m :
          EpStat(d, c, i, a, n) = EpStat(e, x, j, b, m) => n = m
    BY DEF EpStat
  <1>4. \A d, e, c, i, a, n : /\ Cntrl0(d) # EpFile(e, c, i, a, n)
                              /\ Cntrl0(d) # EpStat(e, c, i, a, n)
                              /\ Cntrl0Stat(d) # EpFile(e, c, i, a, n)
                              /\ Cntrl0Stat(d) # EpStat(e, c, i, a, n)
    BY DEF EpFile, EpStat, Cntrl0, Cntrl0Stat
  <1> QED
    BY <1>1, <1>2, <1>3, <1>4 DEF Cntrl0, Cntrl0Stat

\* A handle that can be used has the control files of its device.
LEMMA ControlIsThere ==
  ASSUME TypeOK, Counted, ControlPaired, ControlOpen, NEW h \in Handles, Usable(h)
  PROVE  /\ on[h] \in Devices
         /\ epFd[h][0] \in Fds /\ epFd[h][0] = ep0[on[h]]
         /\ epStat[h][0] \in Fds /\ epStat[h][0] = ep0Stat[on[h]]
         /\ file[epFd[h][0]] = Cntrl0(on[h]) /\ file[epStat[h][0]] = Cntrl0Stat(on[h])
  <1>1. on[h] \in Devices /\ refCount[on[h]] # 0
    BY UsedIsCounted
  <1>2. ep0[on[h]] # 0 /\ ep0Stat[on[h]] # 0
    BY <1>1 DEF ControlOpen, ControlPaired
  <1>3. ep0[on[h]] \in Fds /\ ep0Stat[on[h]] \in Fds
    BY <1>1, <1>2 DEF TypeOK
  <1>4. /\ file[ep0[on[h]]] = Cntrl0(on[h]) /\ file[ep0Stat[on[h]]] = Cntrl0Stat(on[h])
        /\ epFd[h][0] = ep0[on[h]] /\ epStat[h][0] = ep0Stat[on[h]]
    BY <1>1, <1>2 DEF ControlOpen
  <1> QED
    BY <1>1, <1>3, <1>4

\* What a handle keeps is open, and no control file.
LEMMA HeldIsEndpoint ==
  ASSUME TypeOK, EndpointsAreOwn, HeldApart, NEW h \in Handles, NEW fd \in Held(h), fd # Unset
  PROVE  /\ fd \in Fds /\ file[fd] # None
         /\ \A d \in Devices : file[fd] # Cntrl0(d) /\ file[fd] # Cntrl0Stat(d)
  <1>1. PICK e \in EpNums : fd = epFd[h][e] \/ fd = epStat[h][e]
    BY DEF Held
  <1>2. epFd[h][e] \in Descriptor /\ epStat[h][e] \in Descriptor
    BY Typed DEF TypeOK
  <1>3. fd \in Fds
    BY <1>1, <1>2 DEF Descriptor
  <1>4. epFd[h][e] # Unset
    BY <1>1 DEF EndpointsAreOwn
  <1>5. PICK c \in Configs, i \in Ifaces, a \in Alts :
           /\ file[epFd[h][e]] = EpFile(on[h], c, i, a, e)
           /\ file[epStat[h][e]] = EpStat(on[h], c, i, a, e)
    BY <1>4 DEF EndpointsAreOwn
  <1>6. \A d \in Devices : file[fd] # Cntrl0(d) /\ file[fd] # Cntrl0Stat(d)
    BY <1>1, <1>5, FilesApart
  <1>7. EpFile(on[h], c, i, a, e) # None /\ EpStat(on[h], c, i, a, e) # None
    <2>1. on[h] \in Devices
      BY <1>4 DEF TypeOK, HeldApart
    <2>2. None \notin File
      BY UgenAssumption
    <2> QED
      BY <2>1, <2>2, Typed
  <1> QED
    BY <1>1, <1>3, <1>5, <1>6, <1>7

\* Endpoints that are left alone, or closed and forgotten.
LEMMA EndpointsKept ==
  ASSUME TypeOK, EndpointsAreOwn, HeldApart,
         \A g \in Handles, e \in EpNums :
            \/ epFd'[g][e] = Unset /\ epStat'[g][e] = Unset
            \/ /\ epFd'[g][e] = epFd[g][e] /\ epStat'[g][e] = epStat[g][e]
               /\ on'[g] = on[g]
               /\ epFd[g][e] # Unset => /\ file'[epFd[g][e]] = file[epFd[g][e]]
                                        /\ file'[epStat[g][e]] = file[epStat[g][e]]
  PROVE  EndpointsAreOwn' /\ HeldApart'
  <1>1. EndpointsAreOwn'
    <2> SUFFICES ASSUME NEW g \in Handles, NEW e \in EpNums
                 PROVE  /\ (epFd'[g][e] = Unset) = (epStat'[g][e] = Unset)
                        /\ epFd'[g][e] # Unset =>
                             \E c \in Configs, i \in Ifaces, a \in Alts :
                                /\ file'[epFd'[g][e]] = EpFile(on'[g], c, i, a, e)
                                /\ file'[epStat'[g][e]] = EpStat(on'[g], c, i, a, e)
      BY DEF EndpointsAreOwn, EpFile, EpStat
    <2> QED
      BY DEF EndpointsAreOwn
  <1>2. \A g \in Handles : Held(g)' \subseteq Held(g) \cup {Unset}
    BY DEF Held
  <1>3. \A g \in Handles, e \in EpNums : epFd'[g][e] # Unset => on'[g] # None
    BY DEF HeldApart
  <1> QED
    BY <1>1, <1>2, <1>3 DEF HeldApart

\* What a step closes is not what another handle keeps.
LEMMA OthersStay ==
  ASSUME TypeOK, EndpointsAreOwn, HeldApart, NEW h \in Handles, NEW g \in Handles, g # h,
         NEW C, file' = Closing(EpDescriptors(h) \cup C),
         \A fd \in C : \E d \in Devices : file[fd] \in {Cntrl0(d), Cntrl0Stat(d)}
  PROVE  \A e \in EpNums : epFd[g][e] # Unset =>
            /\ file'[epFd[g][e]] = file[epFd[g][e]]
            /\ file'[epStat[g][e]] = file[epStat[g][e]]
  <1>1. ASSUME NEW fd \in Held(g), fd # Unset PROVE file'[fd] = file[fd]
    <2>1. /\ fd \in Fds
          /\ \A d \in Devices : file[fd] # Cntrl0(d) /\ file[fd] # Cntrl0Stat(d)
      BY <1>1, HeldIsEndpoint
    <2>2. fd \notin Held(h)
      BY <1>1 DEF HeldApart
    <2>3. fd \notin EpDescriptors(h) \cup C
      BY <2>1, <2>2 DEF EpDescriptors, Held
    <2> QED
      BY <2>1, <2>3 DEF Closing
  <1>2. ASSUME NEW e \in EpNums, epFd[g][e] # Unset
        PROVE  /\ epFd[g][e] \in Held(g) /\ epStat[g][e] \in Held(g)
               /\ epStat[g][e] # Unset
    BY <1>2 DEF Held, EndpointsAreOwn
  <1> QED
    BY <1>1, <1>2

LEMMA EndpointsStep ==
  ASSUME TypeOK, Counted, ControlPaired, ControlOpen, EndpointsAreOwn, HeldApart, [Next]_vars
  PROVE  EndpointsAreOwn' /\ HeldApart'
  <1>0. None \notin Handles /\ None \notin Devices /\ None \notin File
    BY UgenAssumption
  <1>1. ASSUME UNCHANGED <<on, epFd, epStat>>,
               \A fd \in Fds : file[fd] # None => file'[fd] = file[fd]
        PROVE  EndpointsAreOwn' /\ HeldApart'
    <2>1. ASSUME NEW g \in Handles, NEW e \in EpNums, epFd[g][e] # Unset
          PROVE  /\ file'[epFd[g][e]] = file[epFd[g][e]]
                 /\ file'[epStat[g][e]] = file[epStat[g][e]]
      <3>1. /\ epFd[g][e] \in Held(g) /\ epStat[g][e] \in Held(g) /\ epStat[g][e] # Unset
        BY <2>1 DEF Held, EndpointsAreOwn
      <3> QED
        BY <1>1, <2>1, <3>1, HeldIsEndpoint
    <2> QED
      BY <1>1, <2>1, EndpointsKept
  <1>2. CASE FindDevices
    <2>1. PICK gone \in SUBSET Devices : Forgets(gone)
      BY <1>2, FindForgets
    <2> QED
      BY <2>1, <1>1 DEF Forgets, infoVars
  <1>3. ASSUME NEW h \in Handles, NEW d \in Devices, NEW fd, NEW stat,
               Handed(h, d, fd, stat),
               \A f \in Fds : file[f] # None => file'[f] = file[f]
        PROVE  EndpointsAreOwn' /\ HeldApart'
    <2>1. ASSUME NEW e \in EpNums PROVE epFd'[h][e] = Unset /\ epStat'[h][e] = Unset
      BY <1>3, Typed DEF Handed, TypeOK
    <2>2. ASSUME NEW g \in Handles, g # h, NEW e \in EpNums
          PROVE  /\ epFd'[g][e] = epFd[g][e] /\ epStat'[g][e] = epStat[g][e]
                 /\ on'[g] = on[g]
      BY <1>3, <2>2 DEF Handed, TypeOK
    <2>3. ASSUME NEW g \in Handles, NEW e \in EpNums, epFd[g][e] # Unset
          PROVE  /\ file'[epFd[g][e]] = file[epFd[g][e]]
                 /\ file'[epStat[g][e]] = file[epStat[g][e]]
      <3>1. /\ epFd[g][e] \in Held(g) /\ epStat[g][e] \in Held(g) /\ epStat[g][e] # Unset
        BY <2>3 DEF Held, EndpointsAreOwn
      <3> QED
        BY <1>3, <2>3, <3>1, HeldIsEndpoint
    <2> QED
      BY <2>1, <2>2, <2>3, EndpointsKept
  <1>4. ASSUME NEW h \in Handles, NEW d \in Devices,
               OpenShared(h, d) \/ OpenFirst(h, d) \/ OpenFails(h, d)
        PROVE  EndpointsAreOwn' /\ HeldApart'
    <2>1. CASE OpenShared(h, d)
      BY <1>3, <2>1 DEF OpenShared
    <2>2. CASE OpenFirst(h, d)
      <3>1. PICK fd \in Fds, stat \in Fds :
              /\ IsNext(fd, file)
              /\ IsNext(stat, [file EXCEPT ![fd] = Cntrl0(d)])
              /\ file' = [file EXCEPT ![fd] = Cntrl0(d), ![stat] = Cntrl0Stat(d)]
              /\ Handed(h, d, fd, stat)
        BY <2>2 DEF OpenFirst
      <3>2. file[fd] = None /\ file[stat] = None
        BY <3>1, <1>0, Typed DEF IsNext, Free, TypeOK
      <3>3. \A f \in Fds : file[f] # None => file'[f] = file[f]
        BY <3>1, <3>2 DEF TypeOK
      <3> QED
        BY <1>3, <3>1, <3>3
    <2>3. CASE OpenFails(h, d)
      <3>1. PICK fd \in Fds : file[fd] = None /\ file' = [file EXCEPT ![fd] = Cntrl0(d)]
        BY <2>3 DEF OpenFails, IsNext, Free
      <3>2. \A f \in Fds : file[f] # None => file'[f] = file[f]
        BY <3>1 DEF TypeOK
      <3> QED
        BY <2>3, <1>1, <3>2 DEF OpenFails, handleVars, infoVars
    <2> QED
      BY <1>4, <2>1, <2>2, <2>3
  <1>5. ASSUME NEW h \in Handles, Close(h) PROVE EndpointsAreOwn' /\ HeldApart'
    <2>1. PICK C \in SUBSET {epFd[h][0], epStat[h][0]} :
            file' = Closing(EpDescriptors(h) \cup C)
      <3> DEFINE C == IF refCount[on[h]] = 1 THEN {epFd[h][0], epStat[h][0]} ELSE {}
      <3>1. file' = Closing(EpDescriptors(h) \cup C)
        BY <1>5 DEF Close
      <3>2. C \in SUBSET {epFd[h][0], epStat[h][0]}
        OBVIOUS
      <3> QED
        BY <3>1, <3>2
    <2>2. /\ file[epFd[h][0]] = Cntrl0(on[h]) /\ file[epStat[h][0]] = Cntrl0Stat(on[h])
          /\ on[h] \in Devices
      BY <1>5, ControlIsThere DEF Close
    <2>3. \A fd \in C : \E d \in Devices : file[fd] \in {Cntrl0(d), Cntrl0Stat(d)}
      BY <2>1, <2>2
    <2>4. ASSUME NEW e \in EpNums PROVE epFd'[h][e] = Unset /\ epStat'[h][e] = Unset
      BY <1>5, Typed DEF Close, TypeOK
    <2>5. ASSUME NEW g \in Handles, g # h, NEW e \in EpNums
          PROVE  /\ epFd'[g][e] = epFd[g][e] /\ epStat'[g][e] = epStat[g][e]
                 /\ on'[g] = on[g]
      BY <1>5, <2>5 DEF Close, TypeOK
    <2>6. \A g \in Handles, e \in EpNums : g # h /\ epFd[g][e] # Unset =>
            file'[epFd[g][e]] = file[epFd[g][e]] /\ file'[epStat[g][e]] = file[epStat[g][e]]
      BY <2>1, <2>3, OthersStay
    <2> QED
      BY <2>4, <2>5, <2>6, EndpointsKept
  <1>6. ASSUME NEW h \in Handles, EpsClosed(h), file' = Closing(EpDescriptors(h)), on' = on
        PROVE  EndpointsAreOwn' /\ HeldApart'
    <2>1. \E C : C = {} /\ file' = Closing(EpDescriptors(h) \cup C)
      <3>1. file' = Closing(EpDescriptors(h) \cup {})
        <4>1. EpDescriptors(h) \cup {} = EpDescriptors(h)
          OBVIOUS
        <4> QED
          BY <1>6, <4>1
      <3> QED
        BY <3>1
    <2>2. ASSUME NEW e \in EpNums PROVE epFd'[h][e] = Unset /\ epStat'[h][e] = Unset
      BY <1>6, Typed DEF EpsClosed, TypeOK
    <2>3. ASSUME NEW g \in Handles, g # h, NEW e \in EpNums
          PROVE  epFd'[g][e] = epFd[g][e] /\ epStat'[g][e] = epStat[g][e]
      BY <1>6, <2>3 DEF EpsClosed, TypeOK
    <2>4. \A g \in Handles, e \in EpNums : g # h /\ epFd[g][e] # Unset =>
            file'[epFd[g][e]] = file[epFd[g][e]] /\ file'[epStat[g][e]] = file[epStat[g][e]]
      <3>1. PICK C : C = {} /\ file' = Closing(EpDescriptors(h) \cup C)
        BY <2>1
      <3>2. \A fd \in C : \E d \in Devices : file[fd] \in {Cntrl0(d), Cntrl0Stat(d)}
        BY <3>1
      <3> QED
        BY <3>1, <3>2, OthersStay
    <2> QED
      BY <1>6, <2>2, <2>3, <2>4, EndpointsKept
  <1>7. ASSUME NEW h \in Handles,
               \/ \E a \in Alts : SetAlt(h, a) \/ SetAltClaims(h, a)
               \/ \E c \in Configs : SetConfiguration(h, c)
        PROVE  EndpointsAreOwn' /\ HeldApart'
    BY <1>6, <1>7 DEF SetAlt, SetAltClaims, SetConfiguration
  <1>8. ASSUME NEW h \in Handles, NEW e \in EpNums, InterruptRead(h, e)
        PROVE  EndpointsAreOwn' /\ HeldApart'
    <2>1. /\ file' = Closing({epFd[h][e], epStat[h][e]}) /\ on' = on
          /\ epFd' = [epFd EXCEPT ![h][e] = Unset]
          /\ epStat' = [epStat EXCEPT ![h][e] = Unset]
      BY <1>8 DEF InterruptRead
    <2>2. epFd[h][e] # Unset /\ epStat[h][e] # Unset
      BY <1>8 DEF InterruptRead, IsOpen, Unset
    <2>3. epFd'[h][e] = Unset /\ epStat'[h][e] = Unset
      BY <2>1, Typed DEF TypeOK
    <2>4. ASSUME NEW g \in Handles, NEW f \in EpNums, g # h \/ f # e
          PROVE  epFd'[g][f] = epFd[g][f] /\ epStat'[g][f] = epStat[g][f]
      BY <2>1, <2>4, Typed DEF TypeOK
    <2>5. ASSUME NEW g \in Handles, NEW f \in EpNums, g # h \/ f # e, epFd[g][f] # Unset
          PROVE  /\ file'[epFd[g][f]] = file[epFd[g][f]]
                 /\ file'[epStat[g][f]] = file[epStat[g][f]]
      <3>1. /\ epFd[g][f] \in Held(g) /\ epStat[g][f] \in Held(g) /\ epStat[g][f] # Unset
            /\ epFd[h][e] \in Held(h) /\ epStat[h][e] \in Held(h)
        BY <2>5 DEF Held, EndpointsAreOwn
      <3>2. epFd[g][f] \in Fds /\ epStat[g][f] \in Fds
        BY <2>5, <3>1, HeldIsEndpoint
      <3>3. CASE g # h
        <4>1. {epFd[g][f], epStat[g][f]} \cap {epFd[h][e], epStat[h][e]} = {}
          BY <2>5, <3>1, <3>3 DEF HeldApart
        <4> QED
          BY <2>1, <3>2, <4>1 DEF Closing
      <3>4. CASE g = h /\ f # e
        <4>1. PICK c \in Configs, i \in Ifaces, a \in Alts :
                /\ file[epFd[h][f]] = EpFile(on[h], c, i, a, f)
                /\ file[epStat[h][f]] = EpStat(on[h], c, i, a, f)
          BY <2>5, <3>4 DEF EndpointsAreOwn
        <4>2. PICK x \in Configs, j \in Ifaces, b \in Alts :
                /\ file[epFd[h][e]] = EpFile(on[h], x, j, b, e)
                /\ file[epStat[h][e]] = EpStat(on[h], x, j, b, e)
          BY <2>2 DEF EndpointsAreOwn
        <4>3. {epFd[h][f], epStat[h][f]} \cap {epFd[h][e], epStat[h][e]} = {}
          BY <3>4, <4>1, <4>2, FilesApart
        <4> QED
          BY <2>1, <3>2, <3>4, <4>3 DEF Closing
      <3> QED
        BY <2>5, <3>3, <3>4
    <2>6. \A g \in Handles, f \in EpNums :
            \/ epFd'[g][f] = Unset /\ epStat'[g][f] = Unset
            \/ /\ epFd'[g][f] = epFd[g][f] /\ epStat'[g][f] = epStat[g][f]
               /\ on'[g] = on[g]
               /\ epFd[g][f] # Unset => /\ file'[epFd[g][f]] = file[epFd[g][f]]
                                        /\ file'[epStat[g][f]] = file[epStat[g][f]]
      BY <2>1, <2>3, <2>4, <2>5
    <2> QED
      BY <2>6, EndpointsKept
  <1>9. ASSUME NEW h \in Handles, NEW e \in EpNums, Transfer(h, e)
        PROVE  EndpointsAreOwn' /\ HeldApart'
    <2> DEFINE ep == EpFile(on[h], cfg[h], epIf[h][e], alt[h], e)
               st == EpStat(on[h], cfg[h], epIf[h][e], alt[h], e)
    <2>1. /\ on[h] \in Devices /\ cfg[h] \in Configs /\ epIf[h][e] \in Ifaces
          /\ alt[h] \in Alts /\ e \in Eps
      BY <1>9, Typed DEF Transfer, MayUse, Usable, TypeOK
    <2>2. PICK fd \in Fds, stat \in Fds :
            /\ IsNext(stat, file)
            /\ IsNext(fd, [file EXCEPT ![stat] = st])
            /\ file' = [file EXCEPT ![stat] = st, ![fd] = ep]
            /\ epFd' = [epFd EXCEPT ![h][e] = fd]
            /\ epStat' = [epStat EXCEPT ![h][e] = stat]
      BY <1>9 DEF Transfer
    <2>3. ep \in File /\ st \in File /\ on' = on
      BY <1>9, <2>1, Typed DEF Transfer
    <2>4. file[stat] = None /\ file[fd] = None /\ fd # stat
      BY <2>2, <2>3, <1>0 DEF IsNext, Free, TypeOK
    <2>5. file'[fd] = ep /\ file'[stat] = st
      BY <2>2, <2>4 DEF TypeOK
    <2>6. \A f \in Fds : file[f] # None => file'[f] = file[f]
      BY <2>2, <2>4 DEF TypeOK
    <2>7. epFd'[h][e] = fd /\ epStat'[h][e] = stat /\ fd # Unset /\ stat # Unset
      BY <2>1, <2>2, Typed DEF TypeOK
    <2>8. ASSUME NEW g \in Handles, NEW f \in EpNums, g # h \/ f # e
          PROVE  epFd'[g][f] = epFd[g][f] /\ epStat'[g][f] = epStat[g][f]
      BY <2>2, <2>8, Typed DEF TypeOK
    <2>9. ASSUME NEW g \in Handles, NEW f \in EpNums, epFd[g][f] # Unset
          PROVE  /\ file'[epFd[g][f]] = file[epFd[g][f]]
                 /\ file'[epStat[g][f]] = file[epStat[g][f]]
      <3>1. /\ epFd[g][f] \in Held(g) /\ epStat[g][f] \in Held(g) /\ epStat[g][f] # Unset
        BY <2>9 DEF Held, EndpointsAreOwn
      <3> QED
        BY <2>6, <2>9, <3>1, HeldIsEndpoint
    <2>10. ASSUME NEW g \in Handles, NEW f \in EpNums
           PROVE  /\ (epFd'[g][f] = Unset) = (epStat'[g][f] = Unset)
                  /\ epFd'[g][f] # Unset =>
                       \E c \in Configs, i \in Ifaces, a \in Alts :
                          /\ file'[epFd'[g][f]] = EpFile(on[g], c, i, a, f)
                          /\ file'[epStat'[g][f]] = EpStat(on[g], c, i, a, f)
      <3>1. CASE g = h /\ f = e
        BY <2>1, <2>5, <2>7, <3>1
      <3>2. CASE g # h \/ f # e
        BY <2>8, <2>9, <3>2 DEF EndpointsAreOwn
      <3> QED
        BY <3>1, <3>2
    <2>11. EndpointsAreOwn'
      BY <2>3, <2>10 DEF EndpointsAreOwn, EpFile, EpStat
    <2>12. Held(h)' \subseteq Held(h) \cup {fd, stat}
      BY <2>7, <2>8 DEF Held
    <2>13. \A g \in Handles : g # h => Held(g)' = Held(g)
      BY <2>8 DEF Held
    <2>14. ASSUME NEW g \in Handles PROVE fd \notin Held(g) /\ stat \notin Held(g)
      BY <2>4, <2>7, HeldIsEndpoint
    <2>15. \A g, k \in Handles : g # k => Held(g)' \cap Held(k)' \subseteq {Unset}
      <3> SUFFICES ASSUME NEW g \in Handles, NEW k \in Handles, g # k
                   PROVE  Held(g)' \cap Held(k)' \subseteq {Unset}
        OBVIOUS
      <3>1. Held(g) \cap Held(k) \subseteq {Unset}
        BY DEF HeldApart
      <3>2. CASE g = h
        BY <2>12, <2>13, <2>14, <3>1, <3>2
      <3>3. CASE k = h
        BY <2>12, <2>13, <2>14, <3>1, <3>3
      <3>4. CASE g # h /\ k # h
        BY <2>13, <3>1, <3>4
      <3> QED
        BY <3>2, <3>3, <3>4
    <2>16. \A g \in Handles, f \in EpNums : epFd'[g][f] # Unset => on'[g] # None
      BY <2>1, <2>3, <2>8, <1>0 DEF HeldApart
    <2> QED
      BY <2>11, <2>15, <2>16 DEF HeldApart
  <1>10. ASSUME \/ Plug \/ UNCHANGED vars
                \/ \E h \in Handles :
                     \/ Release(h)
                     \/ \E i \in Ifaces : Claim(h, i) \/ ClaimRefused(h, i)
         PROVE  EndpointsAreOwn' /\ HeldApart'
    BY <1>10, <1>1 DEF Plug, Release, Claim, ClaimRefused, vars, deviceVars, handleVars,
       infoVars
  <1> QED
    BY <1>2, <1>4, <1>5, <1>7, <1>8, <1>9, <1>10 DEF Next
-----------------------------------------------------------------------------
\* The control files outlive every handle but the last.
LEMMA ControlStep ==
  ASSUME TypeOK, Counted, DanglingWasOpen, ControlPaired, ControlOpen, EndpointsAreOwn,
         HeldApart, [Next]_vars
  PROVE  ControlPaired' /\ ControlOpen'
  <1>0. None \notin Handles /\ None \notin Devices /\ None \notin File
    BY UgenAssumption
  <1>1. ASSUME UNCHANGED <<ep0, ep0Stat, refCount, on, dangling>>,
               \A h \in Handles : epFd'[h][0] = epFd[h][0] /\ epStat'[h][0] = epStat[h][0],
               \A d \in Devices, fd \in Fds :
                  file[fd] \in {Cntrl0(d), Cntrl0Stat(d)} => file'[fd] = file[fd]
        PROVE  ControlPaired' /\ ControlOpen'
    <2>1. ASSUME NEW d \in Devices, ep0[d] # 0
          PROVE  file'[ep0[d]] = Cntrl0(d) /\ file'[ep0Stat[d]] = Cntrl0Stat(d)
      <3>1. ep0[d] \in Fds /\ ep0Stat[d] \in Fds
        BY <2>1 DEF ControlPaired, TypeOK
      <3>2. file[ep0[d]] = Cntrl0(d) /\ file[ep0Stat[d]] = Cntrl0Stat(d)
        BY <2>1 DEF ControlOpen
      <3> QED
        BY <1>1, <3>1, <3>2
    <2>2. ControlPaired'
      BY <1>1 DEF ControlPaired
    <2>3. ASSUME NEW h \in Handles, Usable(h)'
          PROVE  epFd'[h][0] = ep0'[on'[h]] /\ epStat'[h][0] = ep0Stat'[on'[h]]
      BY <1>1, <2>3 DEF ControlOpen, Usable
    <2>4. \A d \in Devices : refCount'[d] = 0 <=> ep0'[d] = 0
      BY <1>1 DEF ControlOpen
    <2> QED
      BY <1>1, <2>1, <2>2, <2>3, <2>4 DEF ControlOpen, Cntrl0, Cntrl0Stat
  <1>2. CASE FindDevices
    <2>1. PICK gone \in SUBSET Devices : Forgets(gone)
      BY <1>2, FindForgets
    <2>2. /\ on' = on /\ epFd' = epFd /\ epStat' = epStat
          /\ dangling' = dangling \cup {h \in Handles : on[h] \in gone}
          /\ refCount' = [d \in Devices |-> IF d \in gone THEN 0 ELSE refCount[d]]
          /\ ep0' = [d \in Devices |-> IF d \in gone THEN 0 ELSE ep0[d]]
          /\ ep0Stat' = [d \in Devices |-> IF d \in gone THEN 0 ELSE ep0Stat[d]]
          /\ \A fd \in Fds : file[fd] # None => file'[fd] = file[fd]
      BY <2>1 DEF Forgets, infoVars
    <2>3. ASSUME NEW d \in Devices, ep0'[d] # 0
          PROVE  file'[ep0'[d]] = Cntrl0(d) /\ file'[ep0Stat'[d]] = Cntrl0Stat(d)
      <3>1. ep0'[d] = ep0[d] /\ ep0Stat'[d] = ep0Stat[d]
        BY <2>2, <2>3
      <3>2. ep0[d] \in Fds /\ ep0Stat[d] \in Fds
        BY <2>3, <3>1 DEF ControlPaired, TypeOK
      <3>3. file[ep0[d]] = Cntrl0(d) /\ file[ep0Stat[d]] = Cntrl0Stat(d)
        BY <2>3, <3>1 DEF ControlOpen
      <3>4. file[ep0[d]] # None /\ file[ep0Stat[d]] # None
        BY <3>3, <1>0, Typed
      <3> QED
        BY <2>2, <3>1, <3>2, <3>3, <3>4
    <2>4. ControlPaired'
      BY <2>2 DEF ControlPaired
    <2>5. ASSUME NEW h \in Handles, Usable(h)'
          PROVE  epFd'[h][0] = ep0'[on'[h]] /\ epStat'[h][0] = ep0Stat'[on'[h]]
      <3>1. Usable(h) /\ on[h] \notin gone /\ on[h] \in Devices
        BY <2>2, <2>5 DEF Usable, TypeOK
      <3> QED
        BY <2>2, <3>1 DEF ControlOpen
    <2>6. \A d \in Devices : refCount'[d] = 0 <=> ep0'[d] = 0
      BY <2>2 DEF ControlOpen
    <2> QED
      BY <2>3, <2>4, <2>5, <2>6 DEF ControlOpen, Cntrl0, Cntrl0Stat
  <1>3. ASSUME NEW h \in Handles, NEW d \in Devices, OpenShared(h, d) PROVE ControlPaired' /\ ControlOpen'
    <2>1. /\ ep0' = ep0 /\ ep0Stat' = ep0Stat /\ file' = file /\ dangling' = dangling
          /\ on[h] = None /\ ep0[d] # 0
          /\ on' = [on EXCEPT ![h] = d]
          /\ refCount' = [refCount EXCEPT ![d] = @ + 1]
          /\ epFd' = [epFd EXCEPT ![h] = [e \in Eps |-> IF e = 0 THEN ep0[d] ELSE Unset]]
          /\ epStat' = [epStat EXCEPT ![h] =
                          [e \in Eps |-> IF e = 0 THEN ep0Stat[d] ELSE Unset]]
      BY <1>3 DEF OpenShared, Handed
    <2>2. ASSUME NEW g \in Handles, Usable(g)'
          PROVE  epFd'[g][0] = ep0[on'[g]] /\ epStat'[g][0] = ep0Stat[on'[g]]
      <3>1. CASE g = h
        BY <2>1, <3>1, Typed DEF TypeOK
      <3>2. CASE g # h
        BY <2>1, <2>2, <3>2 DEF ControlOpen, Usable, TypeOK
      <3> QED
        BY <3>1, <3>2
    <2>3. \A e \in Devices : refCount'[e] = 0 <=> ep0'[e] = 0
      BY <2>1 DEF ControlOpen, TypeOK
    <2>4. ControlPaired'
      BY <2>1 DEF ControlPaired
    <2>5. \A e \in Devices : ep0'[e] # 0 => /\ file'[ep0'[e]] = Cntrl0(e)
                                            /\ file'[ep0Stat'[e]] = Cntrl0Stat(e)
      BY <2>1 DEF ControlOpen
    <2>6. \A g \in Handles : Usable(g)' => /\ epFd'[g][0] = ep0'[on'[g]]
                                           /\ epStat'[g][0] = ep0Stat'[on'[g]]
      BY <2>1, <2>2
    <2> QED
      BY <2>3, <2>4, <2>5, <2>6 DEF ControlOpen, Cntrl0, Cntrl0Stat
  <1>4. ASSUME NEW h \in Handles, NEW d \in Devices, OpenFirst(h, d) PROVE ControlPaired' /\ ControlOpen'
    <2>1. PICK fd \in Fds, stat \in Fds :
            /\ IsNext(fd, file)
            /\ IsNext(stat, [file EXCEPT ![fd] = Cntrl0(d)])
            /\ file' = [file EXCEPT ![fd] = Cntrl0(d), ![stat] = Cntrl0Stat(d)]
            /\ ep0' = [ep0 EXCEPT ![d] = fd]
            /\ ep0Stat' = [ep0Stat EXCEPT ![d] = stat]
            /\ Handed(h, d, fd, stat)
      BY <1>4 DEF OpenFirst
    <2>2. file[fd] = None /\ file[stat] = None /\ fd # stat /\ fd # 0 /\ stat # 0
      BY <2>1, <1>0, Typed DEF IsNext, Free, TypeOK
    <2>3. file'[fd] = Cntrl0(d) /\ file'[stat] = Cntrl0Stat(d)
      BY <2>1, <2>2 DEF TypeOK
    <2>4. /\ on' = [on EXCEPT ![h] = d] /\ dangling' = dangling /\ on[h] = None
          /\ ep0[d] = 0
          /\ refCount' = [refCount EXCEPT ![d] = @ + 1]
          /\ epFd' = [epFd EXCEPT ![h] = [e \in Eps |-> IF e = 0 THEN fd ELSE Unset]]
          /\ epStat' = [epStat EXCEPT ![h] = [e \in Eps |-> IF e = 0 THEN stat ELSE Unset]]
      BY <1>4, <2>1 DEF OpenFirst, Handed
    <2>5. ASSUME NEW e \in Devices, ep0'[e] # 0
          PROVE  file'[ep0'[e]] = Cntrl0(e) /\ file'[ep0Stat'[e]] = Cntrl0Stat(e)
      <3>1. CASE e = d
        BY <2>1, <2>3, <3>1 DEF TypeOK
      <3>2. CASE e # d
        <4>1. ep0'[e] = ep0[e] /\ ep0Stat'[e] = ep0Stat[e]
          BY <2>1, <3>2 DEF TypeOK
        <4>2. file[ep0[e]] = Cntrl0(e) /\ file[ep0Stat[e]] = Cntrl0Stat(e)
          BY <2>5, <4>1 DEF ControlOpen
        <4>3. ep0[e] \in Fds /\ ep0Stat[e] \in Fds
          BY <2>5, <4>1 DEF ControlPaired, TypeOK
        <4>4. file[ep0[e]] # None /\ file[ep0Stat[e]] # None
          BY <4>2, <1>0, Typed
        <4> QED
          BY <2>1, <2>2, <4>1, <4>2, <4>3, <4>4 DEF TypeOK
      <3> QED
        BY <3>1, <3>2
    <2>6. ASSUME NEW g \in Handles, Usable(g)'
          PROVE  epFd'[g][0] = ep0'[on'[g]] /\ epStat'[g][0] = ep0Stat'[on'[g]]
      <3>1. CASE g = h
        BY <2>1, <2>4, <3>1, Typed DEF TypeOK
      <3>2. CASE g # h
        <4>1. Usable(g) /\ on'[g] = on[g] /\ on[g] \in Devices
          BY <2>4, <2>6, <3>2 DEF Usable, TypeOK
        <4>2. on[g] # d
          BY <2>4, <4>1, UsedIsCounted DEF ControlOpen
        <4> QED
          BY <2>1, <2>4, <3>2, <4>1, <4>2 DEF ControlOpen, TypeOK
      <3> QED
        BY <3>1, <3>2
    <2>7. \A e \in Devices : refCount'[e] = 0 <=> ep0'[e] = 0
      BY <2>1, <2>2, <2>4 DEF ControlOpen, TypeOK
    <2>8. ControlPaired'
      BY <2>1, <2>2 DEF ControlPaired, TypeOK
    <2> QED
      BY <2>5, <2>6, <2>7, <2>8 DEF ControlOpen, Cntrl0, Cntrl0Stat
  <1>5. ASSUME NEW h \in Handles, NEW d \in Devices, OpenFails(h, d) PROVE ControlPaired' /\ ControlOpen'
    <2>1. PICK fd \in Fds : file[fd] = None /\ file' = [file EXCEPT ![fd] = Cntrl0(d)]
      BY <1>5 DEF OpenFails, IsNext, Free
    <2>2. \A e \in Devices, f \in Fds :
             file[f] \in {Cntrl0(e), Cntrl0Stat(e)} => file'[f] = file[f]
      BY <2>1, <1>0, Typed DEF TypeOK
    <2> QED
      BY <1>5, <2>2, <1>1 DEF OpenFails, deviceVars, handleVars, infoVars
  <1>6. ASSUME NEW h \in Handles, Close(h) PROVE ControlPaired' /\ ControlOpen'
    <2>0. PICK d \in Devices : d = on[h] /\ Usable(h)
      BY <1>6 DEF Close, Usable, TypeOK
    <2> DEFINE last == refCount[d] = 1
               C == EpDescriptors(h) \cup (IF last THEN {epFd[h][0], epStat[h][0]} ELSE {})
    <2>1. /\ file' = Closing(C)
          /\ refCount' = [refCount EXCEPT ![d] = @ - 1]
          /\ ep0' = [ep0 EXCEPT ![d] = IF last THEN 0 ELSE @]
          /\ ep0Stat' = [ep0Stat EXCEPT ![d] = IF last THEN 0 ELSE @]
          /\ on' = [on EXCEPT ![h] = None] /\ dangling' = dangling
          /\ epFd' = [epFd EXCEPT ![h] = [e \in Eps |-> Unset]]
          /\ epStat' = [epStat EXCEPT ![h] = [e \in Eps |-> Unset]]
      BY <1>6, <2>0 DEF Close
    <2>2. /\ file[epFd[h][0]] = Cntrl0(d) /\ file[epStat[h][0]] = Cntrl0Stat(d)
      BY <2>0, ControlIsThere
    <2>3. ASSUME NEW fd \in EpDescriptors(h), fd \in Fds, NEW e \in Devices
          PROVE  file[fd] # Cntrl0(e) /\ file[fd] # Cntrl0Stat(e)
      <3>1. fd \in Held(h) /\ fd # Unset
        BY <2>3, Typed DEF EpDescriptors, Held
      <3> QED
        BY <3>1, HeldIsEndpoint
    <2>4. ASSUME NEW e \in Devices, ep0'[e] # 0
          PROVE  file'[ep0'[e]] = Cntrl0(e) /\ file'[ep0Stat'[e]] = Cntrl0Stat(e)
      <3>1. ep0'[e] = ep0[e] /\ ep0Stat'[e] = ep0Stat[e] /\ (e = d => ~last)
        BY <2>1, <2>4 DEF TypeOK
      <3>2. file[ep0[e]] = Cntrl0(e) /\ file[ep0Stat[e]] = Cntrl0Stat(e)
        BY <2>4, <3>1 DEF ControlOpen
      <3>3. ep0[e] \in Fds /\ ep0Stat[e] \in Fds
        BY <2>4, <3>1 DEF ControlPaired, TypeOK
      <3>4. ep0[e] \notin C /\ ep0Stat[e] \notin C
        <4>1. ep0[e] \notin EpDescriptors(h) /\ ep0Stat[e] \notin EpDescriptors(h)
          BY <2>3, <3>2, <3>3
        <4>2. CASE e = d
          BY <3>1, <4>1, <4>2
        <4>3. CASE e # d
          BY <2>2, <3>2, <4>1, <4>3, FilesApart
        <4> QED
          BY <4>2, <4>3
      <3> QED
        BY <2>1, <3>1, <3>2, <3>3, <3>4 DEF Closing
    <2>5. ASSUME NEW g \in Handles, Usable(g)'
          PROVE  epFd'[g][0] = ep0'[on'[g]] /\ epStat'[g][0] = ep0Stat'[on'[g]]
      <3>1. g # h /\ Usable(g) /\ on'[g] = on[g] /\ on[g] \in Devices
        BY <2>1, <2>5 DEF Usable, TypeOK
      <3>2. on[g] = d => ~last
        <4>1. SUFFICES ASSUME on[g] = d, last PROVE FALSE
          OBVIOUS
        <4>2. g \in OpenOn(d) /\ h \in OpenOn(d)
          BY <2>0, <3>1, <4>1 DEF OpenOn, Usable
        <4>3. Cardinality(OpenOn(d)) = 1
          BY <4>1 DEF Counted
        <4>4. \E x : OpenOn(d) = {x}
          BY <4>3, OpenOnFinite, FS_Singleton
        <4> QED
          BY <3>1, <4>2, <4>4
      <3>3. ep0'[on[g]] = ep0[on[g]] /\ ep0Stat'[on[g]] = ep0Stat[on[g]]
        BY <2>1, <3>1, <3>2 DEF TypeOK
      <3>4. epFd'[g] = epFd[g] /\ epStat'[g] = epStat[g]
        BY <2>1, <3>1 DEF TypeOK
      <3> QED
        BY <3>1, <3>3, <3>4 DEF ControlOpen
    <2>6. refCount[d] \in Nat /\ refCount[d] >= 1
      BY <2>0, UsedIsCounted
    <2>7. \A e \in Devices : refCount'[e] = 0 <=> ep0'[e] = 0
      BY <2>1, <2>6 DEF ControlOpen, TypeOK
    <2>8. ControlPaired'
      BY <2>1 DEF ControlPaired, TypeOK
    <2> QED
      BY <2>4, <2>5, <2>7, <2>8 DEF ControlOpen, Cntrl0, Cntrl0Stat
  <1>7. ASSUME NEW h \in Handles, EpsClosed(h), file' = Closing(EpDescriptors(h)),
               UNCHANGED <<ep0, ep0Stat, refCount, on, dangling>>
        PROVE  ControlPaired' /\ ControlOpen'
    <2>1. \A g \in Handles : epFd'[g][0] = epFd[g][0] /\ epStat'[g][0] = epStat[g][0]
      BY <1>7, Typed DEF EpsClosed, TypeOK
    <2>2. ASSUME NEW d \in Devices, NEW fd \in Fds, file[fd] \in {Cntrl0(d), Cntrl0Stat(d)}
          PROVE  file'[fd] = file[fd]
      <3>1. fd \notin Held(h)
        BY <2>2, HeldIsEndpoint, Typed
      <3> QED
        BY <1>7, <3>1 DEF Closing, EpDescriptors, Held
    <2> QED
      BY <1>7, <2>1, <2>2, <1>1
  <1>8. ASSUME NEW h \in Handles,
               \/ \E a \in Alts : SetAlt(h, a) \/ SetAltClaims(h, a)
               \/ \E c \in Configs : SetConfiguration(h, c)
        PROVE  ControlPaired' /\ ControlOpen'
    BY <1>7, <1>8 DEF SetAlt, SetAltClaims, SetConfiguration, deviceVars
  <1>9. ASSUME NEW h \in Handles, NEW e \in EpNums, Transfer(h, e) PROVE ControlPaired' /\ ControlOpen'
    <2>1. PICK fd \in Fds, stat \in Fds :
            /\ file[stat] = None
            /\ IsNext(fd, [file EXCEPT ![stat] = EpStat(on[h], cfg[h], epIf[h][e], alt[h], e)])
            /\ file' = [file EXCEPT ![stat] = EpStat(on[h], cfg[h], epIf[h][e], alt[h], e),
                                    ![fd] = EpFile(on[h], cfg[h], epIf[h][e], alt[h], e)]
            /\ epFd' = [epFd EXCEPT ![h][e] = fd]
            /\ epStat' = [epStat EXCEPT ![h][e] = stat]
      BY <1>9 DEF Transfer, IsNext, Free
    <2>2. \A d \in Devices, f \in Fds :
             file[f] \in {Cntrl0(d), Cntrl0Stat(d)} => f # stat /\ f # fd
      <3>1. file[fd] = None \/ fd = stat
        BY <2>1 DEF IsNext, Free, TypeOK
      <3> QED
        BY <2>1, <3>1, <1>0, Typed
    <2>3. \A d \in Devices, f \in Fds :
             file[f] \in {Cntrl0(d), Cntrl0Stat(d)} => file'[f] = file[f]
      BY <2>1, <2>2 DEF TypeOK
    <2>4. \A g \in Handles : epFd'[g][0] = epFd[g][0] /\ epStat'[g][0] = epStat[g][0]
      BY <2>1, Typed DEF TypeOK
    <2> QED
      BY <1>9, <2>3, <2>4, <1>1 DEF Transfer, deviceVars
  <1>10. ASSUME NEW h \in Handles, NEW e \in EpNums, InterruptRead(h, e) PROVE ControlPaired' /\ ControlOpen'
    <2>1. \A g \in Handles : epFd'[g][0] = epFd[g][0] /\ epStat'[g][0] = epStat[g][0]
      BY <1>10, Typed DEF InterruptRead, TypeOK
    <2>2. ASSUME NEW d \in Devices, NEW fd \in Fds, file[fd] \in {Cntrl0(d), Cntrl0Stat(d)}
          PROVE  file'[fd] = file[fd]
      <3>1. fd \notin Held(h)
        BY <2>2, HeldIsEndpoint, Typed
      <3>2. fd \notin {epFd[h][e], epStat[h][e]}
        BY <3>1 DEF Held
      <3> QED
        BY <1>10, <3>2 DEF InterruptRead, Closing
    <2> QED
      BY <1>10, <2>1, <2>2, <1>1 DEF InterruptRead, deviceVars
  <1>11. ASSUME \/ Plug \/ UNCHANGED vars
                \/ \E h \in Handles :
                     \/ Release(h)
                     \/ \E i \in Ifaces : Claim(h, i) \/ ClaimRefused(h, i)
         PROVE  ControlPaired' /\ ControlOpen'
    BY <1>11, <1>1 DEF Plug, Release, Claim, ClaimRefused, vars, deviceVars, handleVars,
       infoVars
  <1> QED
    BY <1>2, <1>3, <1>4, <1>5, <1>6, <1>8, <1>9, <1>10, <1>11 DEF Next
-----------------------------------------------------------------------------
\* What is open is kept by somebody, or is a cntrl0 that was left open.
Accounted ==
    dangling = {} =>
      \A fd \in Fds :
         \/ file[fd] = None
         \/ \E d \in Devices : file[fd] = Cntrl0(d)
         \/ \E h \in Handles : fd \in Held(h)
         \/ \E d \in Devices : fd \in {ep0[d], ep0Stat[d]}

LEMMA AccountedStep ==
  ASSUME TypeOK, Counted, ControlPaired, ControlOpen, EndpointsAreOwn, HeldApart,
         Accounted, [Next]_vars
  PROVE  Accounted'
  <1> SUFFICES ASSUME dangling' = {}, NEW fd \in Fds, file'[fd] # None,
                      \A d \in Devices : file'[fd] # Cntrl0(d)
               PROVE  \/ \E h \in Handles : fd \in Held(h)'
                      \/ \E d \in Devices : fd \in {ep0'[d], ep0Stat'[d]}
    BY DEF Accounted, Cntrl0
  <1> DEFINE Kept == \/ \E h \in Handles : fd \in Held(h)
                     \/ \E d \in Devices : fd \in {ep0[d], ep0Stat[d]}
             Goal == \/ \E h \in Handles : fd \in Held(h)'
                     \/ \E d \in Devices : fd \in {ep0'[d], ep0Stat'[d]}
  <1>a. dangling = {}
    <2>1. CASE FindDevices
      BY <2>1, FindForgets DEF Forgets
    <2>2. CASE Plug \/ UNCHANGED vars
      BY <2>2 DEF Plug, vars, handleVars
    <2>3. ASSUME NEW h \in Handles, NEW d \in Devices,
                 OpenShared(h, d) \/ OpenFirst(h, d) \/ OpenFails(h, d)
          PROVE  dangling = {}
      BY <2>3 DEF OpenShared, OpenFirst, OpenFails, handleVars
    <2>4. ASSUME NEW h \in Handles,
                 Close(h) \/ Release(h) \/ \E i \in Ifaces : Claim(h, i) \/ ClaimRefused(h, i)
          PROVE  dangling = {}
      BY <2>4 DEF Close, Release, Claim, ClaimRefused
    <2>5. ASSUME NEW h \in Handles,
                 \/ \E a \in Alts : SetAlt(h, a) \/ SetAltClaims(h, a)
                 \/ \E c \in Configs : SetConfiguration(h, c)
          PROVE  dangling = {}
      BY <2>5 DEF SetAlt, SetAltClaims, SetConfiguration
    <2>6. ASSUME NEW h \in Handles, NEW e \in EpNums, Transfer(h, e) \/ InterruptRead(h, e)
          PROVE  dangling = {}
      BY <2>6 DEF Transfer, InterruptRead
    <2> QED
      BY <2>1, <2>2, <2>3, <2>4, <2>5, <2>6 DEF Next
  <1>b. file'[fd] = file[fd] => Kept
    BY <1>a DEF Accounted
  <1>1. ASSUME UNCHANGED <<file, epFd, epStat, ep0, ep0Stat>> PROVE Goal
    <2>1. \A h \in Handles : Held(h)' = Held(h)
      BY <1>1 DEF Held
    <2> QED
      BY <1>1, <1>b, <2>1
  <1>2. CASE FindDevices
    <2>1. PICK gone \in SUBSET Devices : Forgets(gone)
      BY <1>2, FindForgets
    <2>2. \A d \in gone : ep0[d] = 0 /\ ep0Stat[d] = 0
      <3> SUFFICES ASSUME NEW d \in gone PROVE ep0[d] = 0 /\ ep0Stat[d] = 0
        OBVIOUS
      <3>1. OpenOn(d) = {}
        BY <2>1 DEF Forgets, OpenOn
      <3>2. refCount[d] = 0
        BY <3>1, FS_EmptySet DEF Counted
      <3> QED
        BY <3>2 DEF ControlOpen, ControlPaired
    <2>3. \A d \in Devices : ep0'[d] = ep0[d] /\ ep0Stat'[d] = ep0Stat[d]
      BY <2>1, <2>2 DEF Forgets
    <2>4. file'[fd] = file[fd]
      BY <2>1 DEF Forgets
    <2>5. \A h \in Handles : Held(h)' = Held(h)
      BY <2>1 DEF Forgets, infoVars, Held
    <2> QED
      BY <1>b, <2>3, <2>4, <2>5
  <1>3. ASSUME NEW h \in Handles, NEW d \in Devices, NEW f, NEW stat, Handed(h, d, f, stat),
               on[h] = None
        PROVE  \A g \in Handles : Held(g) \ {Unset} \subseteq Held(g)'
    <2>1. \A g \in Handles : g # h => Held(g)' = Held(g)
      BY <1>3 DEF Handed, TypeOK, Held
    <2>2. Held(h) \subseteq {Unset}
      BY <1>3 DEF Held, HeldApart, EndpointsAreOwn
    <2> QED
      BY <2>1, <2>2
  <1>4. ASSUME NEW h \in Handles, NEW d \in Devices, OpenShared(h, d) PROVE Goal
    <2>1. \A g \in Handles : Held(g) \ {Unset} \subseteq Held(g)'
      BY <1>3, <1>4 DEF OpenShared
    <2>2. UNCHANGED <<file, ep0, ep0Stat>>
      BY <1>4 DEF OpenShared
    <2> QED
      BY <1>b, <2>1, <2>2, Typed
  <1>5. ASSUME NEW h \in Handles, NEW d \in Devices, OpenFirst(h, d) PROVE Goal
    <2>1. PICK f \in Fds, stat \in Fds :
            /\ file' = [file EXCEPT ![f] = Cntrl0(d), ![stat] = Cntrl0Stat(d)]
            /\ ep0' = [ep0 EXCEPT ![d] = f]
            /\ ep0Stat' = [ep0Stat EXCEPT ![d] = stat]
            /\ Handed(h, d, f, stat) /\ on[h] = None
      BY <1>5 DEF OpenFirst
    <2>2. \A g \in Handles : Held(g) \ {Unset} \subseteq Held(g)'
      BY <1>3, <2>1
    <2>3. ep0[d] = 0 /\ ep0Stat[d] = 0
      BY <1>5 DEF OpenFirst, ControlPaired
    <2>4. CASE fd \in {f, stat}
      BY <2>1, <2>4 DEF TypeOK
    <2>5. CASE fd \notin {f, stat}
      <3>1. file'[fd] = file[fd]
        BY <2>1, <2>5 DEF TypeOK
      <3>2. ASSUME NEW e \in Devices, fd \in {ep0[e], ep0Stat[e]}
            PROVE  fd \in {ep0'[e], ep0Stat'[e]}
        BY <2>1, <2>3, <3>2, Typed DEF TypeOK
      <3> QED
        BY <1>b, <2>2, <3>1, <3>2, Typed
    <2> QED
      BY <2>4, <2>5
  <1>6. ASSUME NEW h \in Handles, NEW d \in Devices, OpenFails(h, d) PROVE Goal
    <2>1. PICK f \in Fds : file' = [file EXCEPT ![f] = Cntrl0(d)]
      BY <1>6 DEF OpenFails
    <2>2. file'[fd] = file[fd]
      BY <2>1 DEF TypeOK
    <2>3. \A g \in Handles : Held(g)' = Held(g)
      BY <1>6 DEF OpenFails, handleVars, infoVars, Held
    <2> QED
      BY <1>6, <1>b, <2>2, <2>3 DEF OpenFails, deviceVars
  <1>7. ASSUME NEW h \in Handles, NEW C, file' = Closing(EpDescriptors(h) \cup C),
               \A g \in Handles : g # h => epFd'[g] = epFd[g] /\ epStat'[g] = epStat[g],
               \A d \in Devices : \/ ep0'[d] = ep0[d] /\ ep0Stat'[d] = ep0Stat[d]
                                  \/ {ep0[d], ep0Stat[d]} \subseteq C
        PROVE  Goal
    <2>1. fd \notin EpDescriptors(h) \cup C /\ file'[fd] = file[fd]
      BY <1>7 DEF Closing
    <2>2. \A g \in Handles : g # h => Held(g)' = Held(g)
      BY <1>7 DEF Held
    <2>3. Held(h) = EpDescriptors(h)
      BY DEF Held, EpDescriptors
    <2> QED
      BY <1>7, <1>b, <2>1, <2>2, <2>3
  <1>8. ASSUME NEW h \in Handles, Close(h) PROVE Goal
    <2> DEFINE C == IF refCount[on[h]] = 1 THEN {epFd[h][0], epStat[h][0]} ELSE {}
    <2>1. file' = Closing(EpDescriptors(h) \cup C)
      BY <1>8 DEF Close
    <2>2. \A g \in Handles : g # h => epFd'[g] = epFd[g] /\ epStat'[g] = epStat[g]
      BY <1>8 DEF Close, TypeOK
    <2>3. /\ on[h] \in Devices /\ epFd[h][0] = ep0[on[h]] /\ epStat[h][0] = ep0Stat[on[h]]
      BY <1>8, ControlIsThere DEF Close
    <2>4. ASSUME NEW d \in Devices
          PROVE  \/ ep0'[d] = ep0[d] /\ ep0Stat'[d] = ep0Stat[d]
                 \/ {ep0[d], ep0Stat[d]} \subseteq C
      BY <1>8, <2>3 DEF Close, TypeOK
    <2> HIDE DEF C
    <2> QED
      BY <1>7, <2>1, <2>2, <2>4
  <1>9. ASSUME NEW h \in Handles, EpsClosed(h), file' = Closing(EpDescriptors(h)),
               ep0' = ep0, ep0Stat' = ep0Stat
        PROVE  Goal
    <2>1. \E C : C = {} /\ file' = Closing(EpDescriptors(h) \cup C)
      <3>1. EpDescriptors(h) \cup {} = EpDescriptors(h)
        OBVIOUS
      <3>2. file' = Closing(EpDescriptors(h) \cup {})
        BY <1>9, <3>1
      <3> QED
        BY <3>2
    <2>2. PICK C : C = {} /\ file' = Closing(EpDescriptors(h) \cup C)
      BY <2>1
    <2>3. \A g \in Handles : g # h => epFd'[g] = epFd[g] /\ epStat'[g] = epStat[g]
      BY <1>9 DEF EpsClosed, TypeOK
    <2> QED
      BY <1>7, <1>9, <2>2, <2>3
  <1>10. ASSUME NEW h \in Handles,
               \/ \E a \in Alts : SetAlt(h, a) \/ SetAltClaims(h, a)
               \/ \E c \in Configs : SetConfiguration(h, c)
         PROVE Goal
    BY <1>9, <1>10 DEF SetAlt, SetAltClaims, SetConfiguration, deviceVars
  <1>11. ASSUME NEW h \in Handles, NEW e \in EpNums, Transfer(h, e) PROVE Goal
    <2>1. PICK f \in Fds, stat \in Fds :
            /\ file' = [file EXCEPT ![stat] = EpStat(on[h], cfg[h], epIf[h][e], alt[h], e),
                                    ![f] = EpFile(on[h], cfg[h], epIf[h][e], alt[h], e)]
            /\ epFd' = [epFd EXCEPT ![h][e] = f]
            /\ epStat' = [epStat EXCEPT ![h][e] = stat]
      BY <1>11 DEF Transfer
    <2>2. epFd'[h][e] = f /\ epStat'[h][e] = stat
      BY <2>1, Typed DEF TypeOK
    <2>3. epFd[h][e] = Unset /\ epStat[h][e] = Unset
      <3>1. epFd[h][e] \in Descriptor /\ epStat[h][e] \in Descriptor
        BY Typed DEF TypeOK
      <3>2. (epFd[h][e] = Unset) = (epStat[h][e] = Unset)
        BY DEF EndpointsAreOwn
      <3>3. ~(epFd[h][e] > 0 /\ epStat[h][e] > 0)
        BY <1>11 DEF Transfer, IsOpen
      <3>4. \A x \in Fds : x > 0
        BY UgenAssumption
      <3> QED
        BY <3>1, <3>2, <3>3, <3>4 DEF Descriptor
    <2>4. \A g \in Handles : Held(g) \ {Unset} \subseteq Held(g)'
      BY <2>1, <2>2, <2>3, Typed DEF Held, TypeOK
    <2>5. CASE fd \in {f, stat}
      BY <2>2, <2>5 DEF Held
    <2>6. CASE fd \notin {f, stat}
      <3>1. file'[fd] = file[fd]
        BY <2>1, <2>6 DEF TypeOK
      <3> QED
        BY <1>11, <1>b, <2>4, <3>1, Typed DEF Transfer, deviceVars
    <2> QED
      BY <2>5, <2>6
  <1>12. ASSUME NEW h \in Handles, NEW e \in EpNums, InterruptRead(h, e) PROVE Goal
    <2>1. /\ file' = Closing({epFd[h][e], epStat[h][e]})
          /\ epFd' = [epFd EXCEPT ![h][e] = Unset]
          /\ epStat' = [epStat EXCEPT ![h][e] = Unset]
      BY <1>12 DEF InterruptRead
    <2>2. fd \notin {epFd[h][e], epStat[h][e]} /\ file'[fd] = file[fd]
      BY <2>1 DEF Closing
    <2>3. \A g \in Handles : Held(g) \ {epFd[h][e], epStat[h][e]} \subseteq Held(g)'
      <3> SUFFICES ASSUME NEW g \in Handles, NEW x \in Held(g),
                          x \notin {epFd[h][e], epStat[h][e]}
                   PROVE  x \in Held(g)'
        OBVIOUS
      <3>1. PICK n \in EpNums : x = epFd[g][n] \/ x = epStat[g][n]
        BY DEF Held
      <3>2. CASE g = h /\ n = e
        BY <3>1, <3>2
      <3>3. CASE g # h \/ n # e
        <4>1. epFd'[g][n] = epFd[g][n] /\ epStat'[g][n] = epStat[g][n]
          BY <2>1, <3>3, Typed DEF TypeOK
        <4> QED
          BY <3>1, <4>1 DEF Held
      <3> QED
        BY <3>2, <3>3
    <2> QED
      BY <1>12, <1>b, <2>2, <2>3 DEF InterruptRead, deviceVars
  <1>13. ASSUME \/ Plug \/ UNCHANGED vars
                \/ \E h \in Handles :
                     \/ Release(h)
                     \/ \E i \in Ifaces : Claim(h, i) \/ ClaimRefused(h, i)
         PROVE  Goal
    BY <1>13, <1>1 DEF Plug, Release, Claim, ClaimRefused, vars, deviceVars, handleVars,
       infoVars
  <1> QED
    BY <1>2, <1>4, <1>5, <1>6, <1>8, <1>10, <1>11, <1>12, <1>13 DEF Next
-----------------------------------------------------------------------------
\* The inductive invariant: what the properties say, and what relates the
\* counter, the shared control endpoint and the handles.
IInv ==
    /\ TypeOK /\ Counted /\ DanglingWasOpen
    /\ ClaimsAgree /\ ClaimIsDescribed
    /\ ControlPaired /\ ControlOpen
    /\ EndpointsAreOwn /\ HeldApart /\ Accounted

LEMMA InitIInv == Init => IInv
  <1> SUFFICES ASSUME Init PROVE IInv
    OBVIOUS
  <1>0. None \notin Handles /\ None \notin Devices
    BY UgenAssumption
  <1>1. TypeOK
    BY Typed DEF Init, TypeOK, Descriptor
  <1>2. \A d \in Devices : OpenOn(d) = {}
    BY <1>0 DEF Init, OpenOn
  <1>3. Counted /\ DanglingWasOpen
    BY <1>2, FS_EmptySet DEF Init, Counted, DanglingWasOpen
  <1>4. ClaimsAgree /\ ClaimIsDescribed
    BY <1>0, Typed DEF Init, ClaimsAgree, ClaimIsDescribed, Usable
  <1>5. ControlPaired /\ ControlOpen
    BY DEF Init, ControlPaired, ControlOpen, Usable
  <1>6. EndpointsAreOwn /\ HeldApart
    BY Typed DEF Init, EndpointsAreOwn, HeldApart, Held
  <1>7. Accounted
    BY DEF Init, Accounted
  <1> QED
    BY <1>1, <1>3, <1>4, <1>5, <1>6, <1>7 DEF IInv

LEMMA NextIInv == IInv /\ [Next]_vars => IInv'
  BY TypeStep, CountedStep, ClaimsStep, DescribedStep, ControlStep, EndpointsStep,
     AccountedStep DEF IInv

LEMMA SpecIInv == Spec => []IInv
  BY InitIInv, NextIInv, PTL DEF Spec

\* Every variable of the plugin keeps its type; in particular the counter of
\* usb_close never falls below zero.
THEOREM TypeCorrect == Spec => []TypeOK
  <1>1. IInv => TypeOK
    BY DEF IInv
  <1> QED
    BY SpecIInv, <1>1, PTL

\* usb_claim_interface and its like keep the device's table and the handles in
\* agreement.
THEOREM ClaimsCorrect == Spec => []ClaimsAgree
  <1>1. IInv => ClaimsAgree
    BY DEF IInv
  <1> QED
    BY SpecIInv, <1>1, PTL

\* usb_set_altinterface and usb_claim_interface stay within the descriptors.
THEOREM DescribedCorrect == Spec => []ClaimIsDescribed
  <1>1. IInv => ClaimIsDescribed
    BY DEF IInv
  <1> QED
    BY SpecIInv, <1>1, PTL

\* usb_close never closes the control endpoint under another handle.
THEOREM ControlCorrect == Spec => []ControlStaysOpen
  <1>1. IInv => ControlStaysOpen
    BY ControlIsThere DEF IInv, ControlStaysOpen
  <1> QED
    BY SpecIInv, <1>1, PTL

\* A descriptor kept for an endpoint is open on that endpoint of the device,
\* however often numbers are closed and come back.
THEOREM EndpointsCorrect == Spec => []EndpointsAreOwn
  <1>1. IInv => EndpointsAreOwn
    BY DEF IInv
  <1> QED
    BY SpecIInv, <1>1, PTL

\* What usb_close and the others forget is closed, except as NothingLost says.
THEOREM NothingLostCorrect == Spec => []NothingLost
  <1>1. IInv => NothingLost
    <2> SUFFICES ASSUME IInv PROVE NothingLost
      OBVIOUS
    <2>1. \A g, h \in Handles : g # h => Held(g) \cap Held(h) \subseteq {Unset}
      BY DEF IInv, HeldApart
    <2>2. ASSUME dangling = {}, NEW fd \in Lost PROVE file[fd][2] = "cntrl0"
      BY <2>2 DEF IInv, Accounted, Lost, Cntrl0
    <2> QED
      BY <2>1, <2>2 DEF NothingLost
  <1> QED
    BY SpecIInv, <1>1, PTL

\* Each call of the plugin is a step of the lock table libusb promises, or none.
LEMMA ClaimsSimulated == TypeOK /\ ClaimsAgree /\ [Next]_vars => [Claims!Next]_claimedBy
  <1> SUFFICES ASSUME TypeOK, ClaimsAgree, [Next]_vars, claimedBy' # claimedBy
               PROVE  Claims!Next
    BY DEF Claims!Next
  <1>0. None \notin Handles /\ None \notin Devices /\ Unset \notin Ifaces /\ 0 \in Ifaces
    BY UgenAssumption, Typed
  <1>1. CASE FindDevices
    <2>1. PICK gone \in SUBSET Devices : Forgets(gone)
      BY <1>1, FindForgets
    <2>2. Claims!Removed(gone)
      BY <2>1 DEF Forgets, Claims!Removed
    <2> QED
      BY <2>2 DEF Claims!Next
  <1>2. ASSUME NEW h \in Handles, Usable(h), ReleasedIfClaimed(h) PROVE Claims!Next
    <2>1. claimed[h] \in Ifaces /\ on[h] \in Devices /\ h \notin dangling
      BY <1>2 DEF ReleasedIfClaimed, Usable, TypeOK
    <2>2. claimedBy[on[h]][claimed[h]] = h
      BY <2>1 DEF ClaimsAgree
    <2>3. claimedBy' = [claimedBy EXCEPT ![on[h]][claimed[h]] = None]
      BY <1>2 DEF ReleasedIfClaimed, Released
    <2>4. Claims!Release(h, on[h], claimed[h])
      BY <2>2, <2>3 DEF Claims!Release
    <2> QED
      BY <2>1, <2>4 DEF Claims!Next
  <1>3. ASSUME NEW h \in Handles, Usable(h), NEW i \in Ifaces, CanClaim(h, i), Takes(h, i)
        PROVE  Claims!Next
    <2>1. on[h] \in Devices /\ claimedBy[on[h]][i] = None /\ claimed[h] = Unset
      BY <1>3 DEF CanClaim, Usable, TypeOK
    <2>2. \A d \in Devices, j \in Ifaces : claimedBy[d][j] # h
      BY <2>1, <1>0 DEF ClaimsAgree
    <2>3. Claims!Owned(h) = {}
      BY <2>2 DEF Claims!Owned
    <2>4. Claims!Claim(h, on[h], i)
      BY <1>3, <2>1, <2>3 DEF Takes, Claims!Claim
    <2> QED
      BY <2>1, <2>4 DEF Claims!Next
  <1>4. ASSUME NEW h \in Handles,
               \/ Close(h) \/ Release(h) \/ \E c \in Configs : SetConfiguration(h, c)
        PROVE  Claims!Next
    BY <1>4, <1>2 DEF Close, Release, SetConfiguration, ReleasedIfClaimed
  <1>5. ASSUME NEW h \in Handles,
               \/ \E i \in Ifaces : Claim(h, i)
               \/ \E a \in Alts : SetAltClaims(h, a)
        PROVE  Claims!Next
    BY <1>5, <1>3, <1>0 DEF Claim, SetAltClaims
  <1>6. ~(Plug \/ UNCHANGED vars)
    BY DEF Plug, vars, deviceVars
  <1>7. ASSUME NEW h \in Handles
        PROVE  /\ \A d \in Devices : ~(OpenShared(h, d) \/ OpenFirst(h, d) \/ OpenFails(h, d))
               /\ \A i \in Ifaces : ~ClaimRefused(h, i)
    BY DEF OpenShared, OpenFirst, OpenFails, ClaimRefused, deviceVars
  <1>8. ASSUME NEW h \in Handles
        PROVE  /\ \A a \in Alts : ~SetAlt(h, a)
               /\ \A e \in EpNums : ~(Transfer(h, e) \/ InterruptRead(h, e))
    BY DEF SetAlt, Transfer, InterruptRead, deviceVars
  <1> QED
    BY <1>1, <1>4, <1>5, <1>6, <1>7, <1>8 DEF Next

\* Claims behave as libusb.txt says: for any devices and handles, the plugin
\* implements InterfaceClaims.
THEOREM ClaimsImplemented == Spec => ImplementsClaims
  <1>1. Init => Claims!Init
    BY DEF Init, Claims!Init
  <1>2. IInv /\ [Next]_vars => [Claims!Next]_claimedBy
    BY ClaimsSimulated DEF IInv
  <1> QED
    BY SpecIInv, <1>1, <1>2, PTL DEF Spec, Claims!Spec, ImplementsClaims
=============================================================================
