-------------------------------- MODULE Ugen --------------------------------
(***************************************************************************)
(* components/library/libusb/ugen/src/libusbugen.c: the libusb plugin that *)
(* maps devices, interfaces and endpoints to the device files of ugen(7D). *)
(* One process, any number of handles; a call runs to its end before the   *)
(* next one starts (the plugin takes no lock: callers serialise).          *)
(*                                                                         *)
(* Descriptors are numbered as open(2) numbers them, the lowest free one   *)
(* first, so that a number that was closed and forgotten nowhere comes     *)
(* back as another file.  Descriptor 0 is in use for something else.       *)
(***************************************************************************)
EXTENDS Integers, Sequences, FiniteSets

CONSTANTS Devices,     \* names under /dev/usb
          Handles,     \* bound: handles that exist at one time
          Fds,         \* descriptors the process may use
          EpNums,      \* endpoint indexes above 0
          MaxIface,    \* bound: interface numbers a caller passes
          MaxAlt,      \* bound: alternates a caller passes
          Descr,       \* Descr[c][i + 1][a + 1]: endpoints of configuration c,
                       \*   interface i, alternate a, as the device describes
          Relaxed,     \* libusb_api = API_RELAXED
          None

Configs == DOMAIN Descr
IfacesOf(c) == 0 .. Len(Descr[c]) - 1
AltsOf(c, i) == 0 .. Len(Descr[c][i + 1]) - 1
EpsOf(c, i, a) == Descr[c][i + 1][a + 1]

Eps    == EpNums \cup {0}
Ifaces == 0 .. MaxIface
Alts   == 0 .. MaxAlt
Unset  == -1

\* The files of a device: its control endpoint, and one per endpoint of each
\* configuration, interface and alternate; each has a status file beside it.
File == Devices \X {"cntrl0", "cntrl0stat", "ep", "epstat"}
                \X Configs \X Ifaces \X Alts \X Eps
Cntrl0(d)     == <<d, "cntrl0", 0, 0, 0, 0>>
Cntrl0Stat(d) == <<d, "cntrl0stat", 0, 0, 0, 0>>
EpFile(d, c, i, a, e) == <<d, "ep", c, i, a, e>>
EpStat(d, c, i, a, e) == <<d, "epstat", c, i, a, e>>

ASSUME UgenAssumption ==
    /\ IsFiniteSet(Handles)
    /\ Fds \subseteq Nat \ {0}
    /\ EpNums \subseteq Nat \ {0}
    /\ MaxIface \in Nat /\ MaxAlt \in Nat
    /\ Relaxed \in BOOLEAN
    /\ None \notin Handles \cup Devices \cup File
    /\ Configs \subseteq Nat /\ 0 \in Configs
    /\ \A c \in Configs :
          /\ IfacesOf(c) \subseteq Ifaces
          /\ \A i \in IfacesOf(c) :
                /\ 0 \in AltsOf(c, i)
                /\ AltsOf(c, i) \subseteq Alts
                /\ \A a \in AltsOf(c, i) : EpsOf(c, i, a) \subseteq EpNums

VARIABLES online,      \* devices that are there and answer
          file,        \* what each descriptor of the process is open on
          listed,      \* usb_busses->devices
          parsed,      \* devices whose config array is set up
          refCount, ep0, ep0Stat, claimedBy,    \* usb_device_specific_t
          on,          \* hdl->device; None for a handle that is free
          dangling,    \* handles whose device structure was freed
          cfg, claimed, alt, epFd, epStat, epIf \* usb_dev_handle_info_t

deviceVars == <<listed, parsed, refCount, ep0, ep0Stat, claimedBy>>
infoVars   == <<cfg, claimed, alt, epFd, epStat, epIf>>
handleVars == <<on, dangling, infoVars>>
vars == <<online, file, deviceVars, handleVars>>
-----------------------------------------------------------------------------
\* A handle a call may be given: opened, not closed, its device still there.
Usable(h) == on[h] # None /\ h \notin dangling
OpenOn(d) == {h \in Handles : on[h] = d /\ h \notin dangling}

Free(f) == {fd \in Fds : f[fd] = None}
\* The descriptor open(2) returns next.
IsNext(fd, f) == fd \in Free(f) /\ \A g \in Free(f) : fd <= g
Closing(S) == [fd \in Fds |-> IF fd \in S THEN None ELSE file[fd]]

Init ==
    /\ online \in SUBSET Devices
    /\ file = [fd \in Fds |-> None]
    /\ listed = {} /\ parsed = {}
    /\ refCount = [d \in Devices |-> 0]
    /\ ep0 = [d \in Devices |-> 0]
    /\ ep0Stat = [d \in Devices |-> 0]
    /\ claimedBy = [d \in Devices |-> [i \in Ifaces |-> None]]
    /\ on = [h \in Handles |-> None]
    /\ dangling = {}
    /\ cfg = [h \in Handles |-> Unset]
    /\ claimed = [h \in Handles |-> Unset]
    /\ alt = [h \in Handles |-> Unset]
    /\ epFd = [h \in Handles |-> [e \in Eps |-> Unset]]
    /\ epStat = [h \in Handles |-> [e \in Eps |-> Unset]]
    /\ epIf = [h \in Handles |-> [e \in Eps |-> Unset]]
-----------------------------------------------------------------------------
\* A cable is pulled out or put in.
Plug == /\ \E d \in Devices :
              online' = IF d \in online THEN online \ {d} ELSE online \cup {d}
        /\ UNCHANGED <<file, deviceVars, handleVars>>

\* What opening and closing each new device leaves behind: the devices in read
\* have their configurations, a control file stays open where the status file
\* of the device could not be opened (usb_open_ep0 does not close it).
Tried(new, read, kept, at) ==
    /\ read \subseteq new \ DOMAIN at
    /\ read # {} => Cardinality(Free(file)) >= 2
    /\ \A d, e \in DOMAIN at : at[d] = at[e] => d = e
    /\ \A d \in DOMAIN at : at[d] \in Free(file)
    /\ file' = [fd \in Fds |-> IF \E d \in DOMAIN at : at[d] = fd
                               THEN Cntrl0(CHOOSE d \in DOMAIN at : at[d] = fd)
                               ELSE file[fd]]
    /\ \A d \in DOMAIN at, fd \in Free(file') : at[d] < fd
    /\ parsed' = (parsed \cap kept) \cup read

\* usb_find_devices: devices that answer are listed, the structures of those
\* that do not are freed, handles or not.  Looking takes a descriptor for
\* each of two directories and one for devstat, which O_EXCL may refuse.
FindDevices ==
    \E seen \in SUBSET online :
      LET gone == listed \ seen
          new  == seen \ listed
      IN  /\ Free(file) # {}
          /\ Cardinality(Free(file)) < 3 => seen = {}
          /\ \E left \in SUBSET new : \E at \in [left -> Fds], read \in SUBSET new :
                Tried(new, read, seen, at)
          /\ listed' = seen
          /\ dangling' = dangling \cup {h \in Handles : on[h] \in gone}
          /\ refCount' = [d \in Devices |-> IF d \in gone THEN 0 ELSE refCount[d]]
          /\ ep0' = [d \in Devices |-> IF d \in gone THEN 0 ELSE ep0[d]]
          /\ ep0Stat' = [d \in Devices |-> IF d \in gone THEN 0 ELSE ep0Stat[d]]
          /\ claimedBy' = [d \in Devices |-> IF d \in gone
                             THEN [i \in Ifaces |-> None] ELSE claimedBy[d]]
          /\ UNCHANGED <<online, on, infoVars>>
-----------------------------------------------------------------------------
\* Mutant: the shared control endpoint is handed out without counting.
Handed_NotCounted(h, d, fd, stat) ==
    /\ on' = [on EXCEPT ![h] = d]
    /\ epFd' = [epFd EXCEPT ![h] = [e \in Eps |-> IF e = 0 THEN fd ELSE Unset]]
    /\ epStat' = [epStat EXCEPT ![h] = [e \in Eps |-> IF e = 0 THEN stat ELSE Unset]]
    /\ epIf' = [epIf EXCEPT ![h] = [e \in Eps |-> IF e = 0 THEN 0 ELSE Unset]]
    /\ UNCHANGED <<refCount, cfg, claimed, alt>>

Handed(h, d, fd, stat) ==
    /\ on' = [on EXCEPT ![h] = d]
    /\ refCount' = [refCount EXCEPT ![d] = @ + 1]
    /\ epFd' = [epFd EXCEPT ![h] = [e \in Eps |-> IF e = 0 THEN fd ELSE Unset]]
    /\ epStat' = [epStat EXCEPT ![h] = [e \in Eps |-> IF e = 0 THEN stat ELSE Unset]]
    /\ epIf' = [epIf EXCEPT ![h] = [e \in Eps |-> IF e = 0 THEN 0 ELSE Unset]]
    /\ cfg' = [cfg EXCEPT ![h] = Unset]
    /\ claimed' = [claimed EXCEPT ![h] = Unset]
    /\ alt' = [alt EXCEPT ![h] = Unset]

\* usb_open of a device that is open already: the control files are shared.
OpenShared(h, d) ==
    /\ on[h] = None /\ d \in listed
    /\ ep0[d] # 0
    /\ \/ d \in parsed /\ UNCHANGED parsed
       \/ d \notin parsed /\ d \in online /\ parsed' = parsed \cup {d}
    /\ Handed(h, d, ep0[d], ep0Stat[d])
    /\ UNCHANGED <<online, file, listed, ep0, ep0Stat, claimedBy, dangling>>

\* usb_open of a device nobody has open: cntrl0, then cntrl0stat, then the
\* configurations unless they are known.
OpenFirst(h, d) ==
    /\ on[h] = None /\ d \in listed
    /\ ep0[d] = 0 /\ d \in online
    /\ \E fd, stat \in Fds :
          /\ IsNext(fd, file)
          /\ IsNext(stat, [file EXCEPT ![fd] = Cntrl0(d)])
          /\ file' = [file EXCEPT ![fd] = Cntrl0(d), ![stat] = Cntrl0Stat(d)]
          /\ ep0' = [ep0 EXCEPT ![d] = fd]
          /\ ep0Stat' = [ep0Stat EXCEPT ![d] = stat]
          /\ Handed(h, d, fd, stat)
    /\ parsed' = parsed \cup {d}
    /\ UNCHANGED <<online, listed, claimedBy, dangling>>

\* usb_open returns NULL because cntrl0stat cannot be opened; cntrl0 stays.
\* Its other failures undo what they did.
OpenFails(h, d) ==
    /\ on[h] = None /\ d \in listed
    /\ ep0[d] = 0 /\ d \in online
    /\ \E fd \in Fds : IsNext(fd, file) /\ file' = [file EXCEPT ![fd] = Cntrl0(d)]
    /\ UNCHANGED <<online, deviceVars, handleVars>>
-----------------------------------------------------------------------------
\* usb_release_interface, where the handle has claimed that interface.
Released(h) ==
    /\ claimedBy' = [claimedBy EXCEPT ![on[h]][claimed[h]] = None]
    /\ claimed' = [claimed EXCEPT ![h] = Unset]

\* Mutant: the claim outlives the handle, or the change of configuration.
ReleasedIfClaimed_Kept(h) == UNCHANGED <<claimedBy, claimed>>

\* usb_close and usb_set_configuration release whatever is claimed.
ReleasedIfClaimed(h) ==
    IF claimed[h] = Unset THEN UNCHANGED <<claimedBy, claimed>> ELSE Released(h)

\* Mutant: the status files of the endpoints are not closed.
EpDescriptors_NoStatus(h) == {epFd[h][e] : e \in EpNums}

EpDescriptors(h) == {epFd[h][e] : e \in EpNums} \cup {epStat[h][e] : e \in EpNums}

\* usb_close_all_eps
EpsClosed(h) ==
    /\ epFd' = [epFd EXCEPT ![h] = [e \in Eps |-> IF e = 0 THEN @[e] ELSE Unset]]
    /\ epStat' = [epStat EXCEPT ![h] = [e \in Eps |-> IF e = 0 THEN @[e] ELSE Unset]]

\* Mutant: the control files are closed with the first handle, not the last.
Close_First(h) ==
    /\ Usable(h)
    /\ ReleasedIfClaimed(h)
    /\ file' = Closing(EpDescriptors(h) \cup {epFd[h][0], epStat[h][0]})
    /\ refCount' = [refCount EXCEPT ![on[h]] = @ - 1]
    /\ on' = [on EXCEPT ![h] = None]
    /\ epFd' = [epFd EXCEPT ![h] = [e \in Eps |-> Unset]]
    /\ epStat' = [epStat EXCEPT ![h] = [e \in Eps |-> Unset]]
    /\ epIf' = [epIf EXCEPT ![h] = [e \in Eps |-> Unset]]
    /\ cfg' = [cfg EXCEPT ![h] = Unset]
    /\ alt' = [alt EXCEPT ![h] = Unset]
    /\ UNCHANGED <<online, listed, parsed, dangling, ep0, ep0Stat>>

Close(h) ==
    /\ Usable(h)
    /\ LET d == on[h]
           last == refCount[d] = 1
       IN /\ ReleasedIfClaimed(h)
          /\ file' = Closing(EpDescriptors(h) \cup
                             (IF last THEN {epFd[h][0], epStat[h][0]} ELSE {}))
          /\ refCount' = [refCount EXCEPT ![d] = @ - 1]
          /\ ep0' = [ep0 EXCEPT ![d] = IF last THEN 0 ELSE @]
          /\ ep0Stat' = [ep0Stat EXCEPT ![d] = IF last THEN 0 ELSE @]
    /\ on' = [on EXCEPT ![h] = None]
    /\ epFd' = [epFd EXCEPT ![h] = [e \in Eps |-> Unset]]
    /\ epStat' = [epStat EXCEPT ![h] = [e \in Eps |-> Unset]]
    /\ epIf' = [epIf EXCEPT ![h] = [e \in Eps |-> Unset]]
    /\ cfg' = [cfg EXCEPT ![h] = Unset]
    /\ alt' = [alt EXCEPT ![h] = Unset]
    /\ UNCHANGED <<online, listed, parsed, dangling>>
-----------------------------------------------------------------------------
ConfigIndex(h) == IF cfg[h] = Unset THEN 0 ELSE cfg[h]

\* usb_set_ep_iface_alts: the endpoints of interface i in alternate a.
EpInterfaces(c, i, a) == [e \in Eps |-> IF e \in EpsOf(c, i, a) THEN i ELSE Unset]

\* Mutant: nobody asks whether another handle has the interface.
CanClaim_Anyway(h, i) ==
    i \in IfacesOf(ConfigIndex(h)) /\ claimed[h] = Unset

CanClaim(h, i) ==
    /\ i \in IfacesOf(ConfigIndex(h))
    /\ claimed[h] = Unset
    /\ claimedBy[on[h]][i] = None

Takes(h, i) ==
    /\ claimed' = [claimed EXCEPT ![h] = i]
    /\ claimedBy' = [claimedBy EXCEPT ![on[h]][i] = h]

\* usb_claim_interface
Claim(h, i) ==
    /\ Usable(h)
    /\ CanClaim(h, i)
    /\ Takes(h, i)
    /\ cfg' = [cfg EXCEPT ![h] = ConfigIndex(h)]
    /\ alt' = [alt EXCEPT ![h] = 0]
    /\ epIf' = [epIf EXCEPT ![h] = EpInterfaces(ConfigIndex(h), i, 0)]
    /\ UNCHANGED <<online, file, listed, parsed, refCount, ep0, ep0Stat, on,
                   dangling, epFd, epStat>>

\* usb_claim_interface that is refused, or finds the interface its own: the
\* configuration has been chosen all the same.
ClaimRefused(h, i) ==
    /\ Usable(h)
    /\ ~CanClaim(h, i)
    /\ cfg' = [cfg EXCEPT ![h] = ConfigIndex(h)]
    /\ UNCHANGED <<online, file, deviceVars, on, dangling, claimed, alt, epFd,
                   epStat, epIf>>

\* usb_release_interface
Release(h) ==
    /\ Usable(h)
    /\ claimed[h] # Unset
    /\ Released(h)
    /\ UNCHANGED <<online, file, listed, parsed, refCount, ep0, ep0Stat, on,
                   dangling, cfg, alt, epFd, epStat, epIf>>

\* Mutant: the alternate changes and the endpoint table does not.
SetAlt_TableKept(h, a) ==
    /\ Usable(h)
    /\ claimed[h] # Unset /\ cfg[h] # Unset
    /\ EpsClosed(h)
    /\ file' = Closing(EpDescriptors(h))
    /\ a \in AltsOf(cfg[h], claimed[h])
    /\ alt' = [alt EXCEPT ![h] = a]
    /\ UNCHANGED <<online, deviceVars, on, dangling, cfg, claimed, epIf>>

\* usb_set_altinterface of a handle that has claimed an interface.  An
\* alternate the interface has not is refused after the endpoints are closed.
SetAlt(h, a) ==
    /\ Usable(h)
    /\ claimed[h] # Unset /\ cfg[h] # Unset
    /\ claimedBy[on[h]][claimed[h]] = h
    /\ EpsClosed(h)
    /\ file' = Closing(EpDescriptors(h))
    /\ IF a \in AltsOf(cfg[h], claimed[h])
       THEN /\ alt' = [alt EXCEPT ![h] = a]
            /\ epIf' = [epIf EXCEPT ![h] = EpInterfaces(cfg[h], claimed[h], a)]
       ELSE UNCHANGED <<alt, epIf>>
    /\ UNCHANGED <<online, deviceVars, on, dangling, cfg, claimed>>

\* usb_set_altinterface of a handle that has claimed none, in the relaxed API:
\* it claims interface 0 first.
SetAltClaims(h, a) ==
    /\ Usable(h)
    /\ Relaxed /\ claimed[h] = Unset
    /\ CanClaim(h, 0)
    /\ Takes(h, 0)
    /\ EpsClosed(h)
    /\ file' = Closing(EpDescriptors(h))
    /\ cfg' = [cfg EXCEPT ![h] = ConfigIndex(h)]
    /\ LET c == ConfigIndex(h)
           b == IF a \in AltsOf(c, 0) THEN a ELSE 0
       IN  /\ alt' = [alt EXCEPT ![h] = b]
           /\ epIf' = [epIf EXCEPT ![h] = EpInterfaces(c, 0, b)]
    /\ UNCHANGED <<online, listed, parsed, refCount, ep0, ep0Stat, on, dangling>>

\* usb_set_configuration
SetConfiguration(h, c) ==
    /\ Usable(h)
    /\ EpsClosed(h)
    /\ file' = Closing(EpDescriptors(h))
    /\ cfg' = [cfg EXCEPT ![h] = c]
    /\ epIf' = [epIf EXCEPT ![h] = [e \in Eps |-> Unset]]
    /\ ReleasedIfClaimed(h)
    /\ UNCHANGED <<online, listed, parsed, refCount, ep0, ep0Stat, on, dangling, alt>>
-----------------------------------------------------------------------------
\* usb_check_access, and the test of the endpoint against the interface.
MayUse(h, e) ==
    /\ Usable(h)
    /\ cfg[h] # Unset /\ claimed[h] # Unset /\ alt[h] # Unset
    /\ claimed[h] = epIf[h][e]

IsOpen(h, e) == epFd[h][e] > 0 /\ epStat[h][e] > 0

\* A bulk transfer or an interrupt write (usb_check_device_and_status_open):
\* the status file, then the endpoint, which ugen opens for one user only.
\* When one open fails the other is closed again.
Transfer(h, e) ==
    /\ MayUse(h, e)
    /\ ~IsOpen(h, e)
    /\ LET d  == on[h]
           ep == EpFile(d, cfg[h], epIf[h][e], alt[h], e)
           st == EpStat(d, cfg[h], epIf[h][e], alt[h], e)
       IN  /\ d \in online
           /\ \A fd \in Fds : file[fd] # ep
           /\ \E fd, stat \in Fds :
                /\ IsNext(stat, file)
                /\ IsNext(fd, [file EXCEPT ![stat] = st])
                /\ file' = [file EXCEPT ![stat] = st, ![fd] = ep]
                /\ epFd' = [epFd EXCEPT ![h][e] = fd]
                /\ epStat' = [epStat EXCEPT ![h][e] = stat]
    /\ UNCHANGED <<online, deviceVars, on, dangling, cfg, claimed, alt, epIf>>

\* Mutant: the descriptors are closed and not forgotten.
InterruptRead_Remembered(h, e) ==
    /\ MayUse(h, e)
    /\ IsOpen(h, e)
    /\ file' = Closing({epFd[h][e], epStat[h][e]})
    /\ UNCHANGED <<online, deviceVars, handleVars>>

\* usb_interrupt_read closes the endpoint it has read from.
InterruptRead(h, e) ==
    /\ MayUse(h, e)
    /\ IsOpen(h, e)
    /\ file' = Closing({epFd[h][e], epStat[h][e]})
    /\ epFd' = [epFd EXCEPT ![h][e] = Unset]
    /\ epStat' = [epStat EXCEPT ![h][e] = Unset]
    /\ UNCHANGED <<online, deviceVars, on, dangling, cfg, claimed, alt, epIf>>

Next ==
    \/ Plug \/ FindDevices
    \/ \E h \in Handles :
          \/ \E d \in Devices : OpenShared(h, d) \/ OpenFirst(h, d) \/ OpenFails(h, d)
          \/ Close(h) \/ Release(h)
          \/ \E i \in Ifaces : Claim(h, i) \/ ClaimRefused(h, i)
          \/ \E a \in Alts : SetAlt(h, a) \/ SetAltClaims(h, a)
          \/ \E c \in Configs : SetConfiguration(h, c)
          \/ \E e \in EpNums : Transfer(h, e) \/ InterruptRead(h, e)

Spec == Init /\ [][Next]_vars
-----------------------------------------------------------------------------
\* Every variable keeps its type.
Descriptor == Fds \cup {Unset}
TypeOK ==
    /\ online \subseteq Devices /\ listed \subseteq Devices
    /\ parsed \subseteq listed
    /\ file \in [Fds -> File \cup {None}]
    /\ refCount \in [Devices -> Nat]
    /\ ep0 \in [Devices -> Fds \cup {0}]
    /\ ep0Stat \in [Devices -> Fds \cup {0}]
    /\ claimedBy \in [Devices -> [Ifaces -> Handles \cup {None}]]
    /\ on \in [Handles -> Devices \cup {None}]
    /\ dangling \subseteq Handles
    /\ cfg \in [Handles -> Configs \cup {Unset}]
    /\ claimed \in [Handles -> Ifaces \cup {Unset}]
    /\ alt \in [Handles -> Alts \cup {Unset}]
    /\ epFd \in [Handles -> [Eps -> Descriptor]]
    /\ epStat \in [Handles -> [Eps -> Descriptor]]
    /\ epIf \in [Handles -> [Eps -> Ifaces \cup {Unset}]]

\* The table of the device and the handles agree on who has claimed what
\* (usb_claim_interface, usb_release_interface, usb_set_configuration,
\* usb_close): an interface names a handle that is open on this device and
\* has claimed it, never a handle that was freed, and the other way round.
ClaimsAgree ==
    \A d \in Devices, i \in Ifaces, h \in Handles :
       claimedBy[d][i] = h <=> on[h] = d /\ h \notin dangling /\ claimed[h] = i

\* A claimed interface is one of the handle's configuration, and the alternate
\* in force one of the interface: the descriptor arrays that
\* usb_set_altinterface and usb_set_ep_iface_alts index are never left, and
\* never read before usb_setup_all_configs has built them.
ClaimIsDescribed ==
    \A h \in Handles :
       Usable(h) =>
          /\ on[h] \in parsed
          /\ claimed[h] # Unset =>
                /\ cfg[h] \in Configs /\ claimed[h] \in IfacesOf(cfg[h])
                /\ alt[h] \in AltsOf(cfg[h], claimed[h])
                /\ epIf[h] = EpInterfaces(cfg[h], claimed[h], alt[h])

\* "ep0 is always open" (the comment in usb_control_msg): whichever of the
\* handles that share the control endpoint is closed first, the others still
\* hold descriptors of cntrl0 and cntrl0stat of their own device.
ControlStaysOpen ==
    \A h \in Handles :
       Usable(h) => /\ epFd[h][0] \in Fds /\ file[epFd[h][0]] = Cntrl0(on[h])
                    /\ epStat[h][0] \in Fds
                    /\ file[epStat[h][0]] = Cntrl0Stat(on[h])

\* The endpoint descriptors a handle keeps are open on that endpoint of its
\* own device, so no read, write or close of the plugin reaches a file that
\* took over the number of a closed one.
EndpointsAreOwn ==
    \A h \in Handles, e \in EpNums :
       /\ (epFd[h][e] = Unset) = (epStat[h][e] = Unset)
       /\ epFd[h][e] # Unset =>
             \E c \in Configs, i \in Ifaces, a \in Alts :
                /\ file[epFd[h][e]] = EpFile(on[h], c, i, a, e)
                /\ file[epStat[h][e]] = EpStat(on[h], c, i, a, e)

\* No descriptor is lost: what is open is held by one handle or by the device,
\* except a cntrl0 whose status file could not be opened (usb_open_ep0), and
\* the files of a device that was freed under its handles.
Held(h) == {epFd[h][e] : e \in EpNums} \cup {epStat[h][e] : e \in EpNums}
Lost == {fd \in Fds : /\ file[fd] # None
                      /\ \A h \in Handles : fd \notin Held(h)
                      /\ \A d \in Devices : fd \notin {ep0[d], ep0Stat[d]}}
NothingLost ==
    /\ \A g, h \in Handles : g # h => Held(g) \cap Held(h) \subseteq {Unset}
    /\ dangling = {} => \A fd \in Lost : file[fd][2] = "cntrl0"

\* libusb.txt on usb_claim_interface and usb_release_interface: claims behave
\* as the lock table of InterfaceClaims.
Claims == INSTANCE InterfaceClaims WITH Interfaces <- Ifaces, owner <- claimedBy
ImplementsClaims == Claims!Spec
=============================================================================
