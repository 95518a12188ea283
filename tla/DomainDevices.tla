--------------------------- MODULE DomainDevices ---------------------------
(***************************************************************************)
(* What a domain of libvirt has attached, and what VmDomain and VirtHost   *)
(* (src/utils/ev_libvirt/virt.py) make of it.  A domain has two            *)
(* descriptions: the persistent one, which the next start uses, and, while *)
(* it runs, the live one.  Attaching and detaching write them one after    *)
(* the other and try to take the first back when the second fails.         *)
(*                                                                         *)
(* The operators are functions of a domain record: the calls of one        *)
(* attach_device or detach_device are one step of the caller, which picks  *)
(* one of the results.                                                     *)
(***************************************************************************)
EXTENDS Naturals

CONSTANTS
    Disks,        \* virtual disks
    Devices,      \* pci devices of the host
    Nics,         \* attached addresses, as interfaces
    MaxDev,       \* device names vdb, vdc, ... a disk may get: 1 .. MaxDev
    Failing       \* calls that may fail for a reason of their own, of Calls

Calls == {"attach_config", "attach_live", "detach_config", "detach_live",
          "create_image", "remove_image", "rename_image", "define", "undefine",
          "lost"}

\* The three kinds are rows of different tables.
ASSUME DomainAssumption ==
    /\ MaxDev \in Nat /\ Failing \subseteq Calls
    /\ Disks \cap Devices = {} /\ Disks \cap Nics = {} /\ Devices \cap Nics = {}

Things == Disks \cup Devices \cup Nics

\* A device as a domain has it: a disk under a device name, any other under 0.
Slots == [thing : Disks, dev : 1 .. MaxDev] \cup [thing : Devices \cup Nics, dev : {0}]

DomainState == [defined : BOOLEAN, running : BOOLEAN,
                live : SUBSET Slots, config : SUBSET Slots]

NoDomain == [defined |-> FALSE, running |-> FALSE, live |-> {}, config |-> {}]

\* defineXML of a description built from the template: a system disk only.
Defined == [NoDomain EXCEPT !.defined = TRUE]

MayFail(call) == call \in Failing

\* VmDomain.xml_desc without `inactive`: the live description of a domain
\* that runs, the persistent one otherwise.
xml_desc(d) == IF d.running THEN d.live ELSE d.config

-----------------------------------------------------------------------------
(* Power. *)

start(d) ==
    IF d.running THEN d ELSE [d EXCEPT !.running = TRUE, !.live = d.config]

\* shutdown ends the same way, later; poweroff is destroy.
power_off_domain(d) ==
    IF d.running THEN [d EXCEPT !.running = FALSE, !.live = {}] ELSE d

-----------------------------------------------------------------------------
(* Attach and detach.  libvirt finds a disk by the name of its target      *)
(* device, whatever the source; any other device by its address.           *)

Clashes(a, b) ==
    IF a.thing \in Disks
    THEN b.thing \in Disks /\ (b.dev = a.dev \/ b.thing = a.thing)
    ELSE b.thing = a.thing

Target(slots, a) ==
    {b \in slots : IF a.thing \in Disks THEN b.thing \in Disks /\ b.dev = a.dev
                                        ELSE b.thing = a.thing}

Fits(slots, a) == \A b \in slots : ~Clashes(a, b)

Result(ok, d) == [ok |-> ok, domain |-> d]

attach_device_persisted(d, a) ==
    (IF Fits(d.config, a)
     THEN {Result(TRUE, [d EXCEPT !.config = @ \cup {a}])} ELSE {})
    \cup (IF ~Fits(d.config, a) \/ MayFail("attach_config") THEN {Result(FALSE, d)} ELSE {})

attach_device_hotplug(d, a) ==
    (IF Fits(d.live, a)
     THEN {Result(TRUE, [d EXCEPT !.live = @ \cup {a}])} ELSE {})
    \cup (IF ~Fits(d.live, a) \/ MayFail("attach_live") THEN {Result(FALSE, d)} ELSE {})

\* The device is missing: not an error of the persistent description ...
detach_device_persisted(d, a) ==
    {Result(TRUE, [d EXCEPT !.config = @ \ Target(d.config, a)])}
    \cup (IF MayFail("detach_config") THEN {Result(FALSE, d)} ELSE {})

\* ... but one of the live description.
detach_device_hotplug(d, a) ==
    IF Target(d.live, a) = {}
    THEN {Result(FALSE, d)}
    ELSE {Result(TRUE, [d EXCEPT !.live = @ \ Target(d.live, a)])}
         \cup (IF MayFail("detach_live") THEN {Result(FALSE, d)} ELSE {})

\* A fault of attach_device that a run has to find: the device that was
\* plugged is left in the live domain when the persistent one refuses it.
attach_device_noUndo(d, a) ==
    IF ~d.running THEN attach_device_persisted(d, a)
    ELSE UNION {IF ~hot.ok THEN {hot} ELSE attach_device_persisted(hot.domain, a)
                : hot \in attach_device_hotplug(d, a)}

attach_device(d, a) ==
    IF ~d.running
    THEN attach_device_persisted(d, a)
    ELSE UNION {IF ~hot.ok THEN {hot}
                ELSE UNION {IF cold.ok THEN {cold}
                            ELSE {Result(FALSE, undo.domain) :
                                    undo \in detach_device_hotplug(cold.domain, a)}
                            : cold \in attach_device_persisted(hot.domain, a)}
                : hot \in attach_device_hotplug(d, a)}

detach_device(d, a) ==
    UNION {IF ~cold.ok \/ ~d.running THEN {cold}
           ELSE UNION {IF hot.ok THEN {hot}
                       ELSE {Result(FALSE, undo.domain) :
                               undo \in attach_device_persisted(hot.domain, a)}
                       : hot \in detach_device_hotplug(cold.domain, a)}
           : cold \in detach_device_persisted(d, a)}
=============================================================================
