---------------------------- MODULE PciEnumerate ----------------------------
(***************************************************************************)
(* pci_enumerate and collect_resources of                                  *)
(* src/platform/windows/pci_enum_windows.c: the walk over the devices of   *)
(* the PnP manager and, for each, over its chain of resource descriptors.  *)
(*                                                                         *)
(* SetupAPI and CfgMgr32 are external: every call may fail, a descriptor   *)
(* handle stays open until CM_Free_Res_Des_Handle, and freeing a handle    *)
(* that is not open is an error of the caller.                             *)
(***************************************************************************)
EXTENDS Integers, FiniteSets

CONSTANTS
    PCI_MAX_DEVICES, PCI_MAX_RESOURCES,
    MaxPresent,       \* bound: devices the PnP manager lists
    MaxDescriptors    \* bound: resource descriptors per device

ASSUME PciAssumption ==
    /\ PCI_MAX_DEVICES \in Nat /\ PCI_MAX_RESOURCES \in Nat
    /\ MaxPresent \in Nat /\ MaxDescriptors \in Nat

LogConf == 0        \* (RES_DES)logConf, the head of the descriptor chain

VARIABLES
    pciPc,
    hdi,             \* is the device information set open?
    pciIndex,        \* devices seen
    device_count, truncated,
    logConf,         \* is the logical configuration open?
    prevResDes, nextResDes,
    open,            \* descriptor handles that are open
    badFree,         \* was a handle freed that was not open?
    resource_count,  \* dev->resource_count
    interrupt,       \* dev->interrupt_available
    skipped          \* history: devices that could not be identified

pciVars == <<pciPc, hdi, pciIndex, device_count, truncated, logConf, prevResDes,
             nextResDes, open, badFree, resource_count, interrupt, skipped>>
chainVars == <<logConf, prevResDes, nextResDes, open, badFree>>
devVars   == <<resource_count, interrupt>>
countVars == <<pciIndex, device_count, truncated, skipped>>

PciInit ==
    /\ pciPc = "start" /\ hdi = FALSE
    /\ pciIndex = 0 /\ device_count = 0 /\ truncated = 0 /\ skipped = 0
    /\ logConf = FALSE /\ prevResDes = LogConf /\ nextResDes = LogConf
    /\ open = {} /\ badFree = FALSE
    /\ resource_count = 0 /\ interrupt = FALSE

PciGoto(l) == pciPc' = l

-----------------------------------------------------------------------------
(***************************************************************************)
(* pci_enumerate.                                                          *)
(***************************************************************************)
GetClassDevs ==
    /\ pciPc = "start"
    /\ \/ hdi' = TRUE /\ PciGoto("next_device")
       \/ hdi' = FALSE /\ PciGoto("failed")
    /\ UNCHANGED <<countVars, chainVars, devVars>>

\* MUTANT: devices beyond the limit are dropped without being counted.
EnumDeviceSilently ==
    /\ pciPc = "next_device"
    /\ \/ /\ pciIndex < MaxPresent
          /\ pciIndex' = pciIndex + 1
          /\ PciGoto(IF device_count >= PCI_MAX_DEVICES THEN "next_device"
                     ELSE "identify")
       \/ PciGoto("destroy") /\ UNCHANGED pciIndex
    /\ UNCHANGED <<hdi, device_count, truncated, skipped, chainVars, devVars>>

\* SetupDiEnumDeviceInfo: one more device, or the end of the list.
EnumDevice ==
    /\ pciPc = "next_device"
    /\ \/ /\ pciIndex < MaxPresent
          /\ pciIndex' = pciIndex + 1
          /\ IF device_count >= PCI_MAX_DEVICES
             THEN truncated' = truncated + 1 /\ UNCHANGED pciPc
             ELSE PciGoto("identify") /\ UNCHANGED truncated
       \/ PciGoto("destroy") /\ UNCHANGED <<pciIndex, truncated>>
    /\ UNCHANGED <<hdi, device_count, skipped, chainVars, devVars>>

\* Hardware ID with VEN_ and DEV_, or the device is skipped.  The registry
\* strings only fill fields of `dev', which is cleared first.
IdentifyDevice ==
    /\ pciPc = "identify"
    /\ \/ PciGoto("first_log_conf") /\ UNCHANGED skipped
       \/ PciGoto("next_device") /\ skipped' = skipped + 1
    /\ resource_count' = 0 /\ interrupt' = FALSE
    /\ UNCHANGED <<hdi, pciIndex, device_count, truncated, chainVars>>

StoreDevice ==
    /\ pciPc = "store"
    /\ device_count' = device_count + 1
    /\ PciGoto("next_device")
    /\ UNCHANGED <<hdi, pciIndex, truncated, skipped, chainVars, devVars>>

DestroyDeviceInfoList ==
    /\ pciPc = "destroy"
    /\ hdi' = FALSE
    /\ PciGoto("done")
    /\ UNCHANGED <<countVars, chainVars, devVars>>

-----------------------------------------------------------------------------
(***************************************************************************)
(* collect_resources.                                                      *)
(***************************************************************************)
FirstLogConf ==
    /\ pciPc = "first_log_conf"
    /\ \/ logConf' = TRUE /\ PciGoto("next_res_des")
       \/ logConf' = FALSE /\ PciGoto("store")
    /\ prevResDes' = LogConf /\ nextResDes' = LogConf
    /\ UNCHANGED <<hdi, countVars, open, badFree, devVars>>

\* MUTANT: the loop condition lets one more descriptor in.
RoomOffByOne == resource_count <= PCI_MAX_RESOURCES

RoomForResource == resource_count < PCI_MAX_RESOURCES

\* MUTANT: the previous handle is dropped, not freed.
NextResDesLeaks ==
    /\ pciPc = "next_res_des"
    /\ RoomForResource
    /\ \/ /\ prevResDes < MaxDescriptors
          /\ nextResDes' = prevResDes + 1
          /\ open' = open \cup {nextResDes'}
          /\ PciGoto("read_data")
       \/ PciGoto("end_resources") /\ UNCHANGED <<nextResDes, open>>
    /\ UNCHANGED <<hdi, countVars, logConf, prevResDes, badFree, devVars>>

\* CM_Get_Next_Res_Des opens the next descriptor or fails; the previous one
\* is freed in both cases, before the result is looked at.
NextResDes ==
    /\ pciPc = "next_res_des"
    /\ RoomForResource
    /\ LET freed == {prevResDes} \ {LogConf} IN
       /\ badFree' = (badFree \/ ~(freed \subseteq open))
       /\ \/ /\ prevResDes < MaxDescriptors
             /\ nextResDes' = prevResDes + 1
             /\ open' = (open \cup {nextResDes'}) \ freed
             /\ PciGoto("read_data")
          \/ /\ open' = open \ freed
             /\ PciGoto("end_resources")
             /\ UNCHANGED nextResDes
    /\ UNCHANGED <<hdi, countVars, logConf, prevResDes, devVars>>

NoRoom ==
    /\ pciPc = "next_res_des"
    /\ ~RoomForResource
    /\ PciGoto("end_resources")
    /\ UNCHANGED <<hdi, countVars, chainVars, devVars>>

\* The descriptor's data: a memory or port range, an interrupt, or nothing
\* usable (another type, too short, or a call or malloc that failed).
ReadData ==
    /\ pciPc = "read_data"
    /\ \/ resource_count' = resource_count + 1 /\ UNCHANGED interrupt
       \/ interrupt' = TRUE /\ UNCHANGED resource_count
       \/ UNCHANGED devVars
    /\ prevResDes' = nextResDes
    /\ PciGoto("next_res_des")
    /\ UNCHANGED <<hdi, countVars, logConf, nextResDes, open, badFree>>

\* After the loop the last handle is freed, whatever ended the loop.
EndResources ==
    /\ pciPc = "end_resources"
    /\ LET freed == {prevResDes} \ {LogConf} IN
       /\ badFree' = (badFree \/ ~(freed \subseteq open))
       /\ open' = open \ freed
    /\ logConf' = FALSE
    /\ PciGoto("store")
    /\ UNCHANGED <<hdi, countVars, prevResDes, nextResDes, devVars>>

PciNext ==
    \/ GetClassDevs \/ EnumDevice \/ IdentifyDevice \/ StoreDevice
    \/ DestroyDeviceInfoList
    \/ FirstLogConf \/ NextResDes \/ NoRoom \/ ReadData \/ EndResources

PciSpec == PciInit /\ [][PciNext]_pciVars

-----------------------------------------------------------------------------
(***************************************************************************)
(* Properties.                                                             *)
(***************************************************************************)
\* Types, and the arrays devices[] and resources[]: no index beyond them.
PciTypeOK ==
    /\ pciPc \in {"start", "next_device", "identify", "first_log_conf",
                  "next_res_des", "read_data", "end_resources", "store",
                  "destroy", "done", "failed"}
    /\ hdi \in BOOLEAN /\ logConf \in BOOLEAN /\ badFree \in BOOLEAN
    /\ pciIndex \in 0..MaxPresent /\ truncated \in Nat /\ skipped \in Nat
    /\ device_count \in 0..PCI_MAX_DEVICES
    /\ resource_count \in 0..PCI_MAX_RESOURCES
    /\ {prevResDes, nextResDes} \subseteq 0..MaxDescriptors
    /\ open \subseteq 1..MaxDescriptors /\ interrupt \in BOOLEAN

\* No handle is lost, whichever call fails: between two devices and at the
\* end no descriptor and no logical configuration is open, and while a chain
\* is walked at most one descriptor is open after each step.
NoHandleLeak ==
    /\ pciPc \in {"next_device", "store", "done", "failed"} =>
          open = {} /\ ~logConf
    /\ pciPc = "done" => ~hdi
    /\ Cardinality(open) <= 1

\* No device disappears silently: every one the PnP manager listed has been
\* reported, counted as truncated, or could not be identified.
EveryDeviceAccountedFor ==
    pciPc \in {"next_device", "done"} =>
        pciIndex = device_count + truncated + skipped

\* Each descriptor handle is freed once.
NoDoubleFree == ~badFree
=============================================================================
