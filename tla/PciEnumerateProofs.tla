------------------------- MODULE PciEnumerateProofs -------------------------
(***************************************************************************)
(* Proofs about pci_enumerate, for any number of devices, any length of a  *)
(* descriptor chain and any size of the two arrays: its invariant, and     *)
(* what follows from it.  HwmonAppProofs lifts them to main.               *)
(***************************************************************************)
EXTENDS PciEnumerate, FiniteSetTheorems, TLAPS

(***************************************************************************)
(* The inductive invariant.  PciTypeOK needs to know that an array index   *)
(* was compared with its limit before; the handles that are open are       *)
(* decided by the place in collect_resources.                              *)
(***************************************************************************)
\* Places at which a device is being worked on, and at which its chain is.
InDevice == {"identify", "first_log_conf", "next_res_des", "read_data",
             "end_resources", "store"}
InChain  == {"next_res_des", "read_data", "end_resources"}

RoomChecked ==
    /\ pciPc \in InDevice => device_count < PCI_MAX_DEVICES
    /\ pciPc = "read_data" => resource_count < PCI_MAX_RESOURCES

\* After NextResDes failed the chain's last handle is already gone.
OpenHandles ==
    /\ hdi <=> pciPc \in {"next_device", "destroy"} \cup InDevice
    /\ logConf <=> pciPc \in InChain
    /\ pciPc \notin InChain => open = {}
    /\ pciPc = "read_data" => open = {nextResDes}
    /\ pciPc \in {"next_res_des", "end_resources"} =>
          open = {} \/ open = {prevResDes}

DeviceCount ==
    pciIndex = device_count + truncated + skipped
               + (IF pciPc \in InDevice THEN 1 ELSE 0)

PciInv == PciTypeOK /\ RoomChecked /\ OpenHandles /\ DeviceCount

\* Nothing is open before the device information set is.
LEMMA PciStart == PciInit => PciInv
<1> SUFFICES ASSUME PciInit PROVE PciInv
    OBVIOUS
<1>1. hdi \in BOOLEAN /\ logConf \in BOOLEAN /\ badFree \in BOOLEAN
      /\ interrupt \in BOOLEAN
    BY Zenon DEF PciInit
<1>2. PciTypeOK
    BY <1>1, PciAssumption DEF PciInit, PciTypeOK, LogConf
<1>3. RoomChecked /\ OpenHandles /\ DeviceCount
    BY DEF PciInit, RoomChecked, OpenHandles, DeviceCount, InDevice, InChain
<1> QED BY <1>2, <1>3 DEF PciInv

\* A descriptor that is open is not the head of the chain: handing it back
\* is a free.
LEMMA FreedHandle ==
    ASSUME PciInv, pciPc \in {"next_res_des", "end_resources"}
    PROVE  open = {} \/ (open = {prevResDes} /\ prevResDes # 0)
<1>1. open \subseteq 1..MaxDescriptors
    BY DEF PciInv, PciTypeOK
<1>2. 0 \notin open
    BY <1>1
<1> QED BY <1>2 DEF PciInv, OpenHandles

\* Every call of SetupAPI and CfgMgr32, failing or not, keeps the invariant.
LEMMA PciStep == PciInv /\ [PciNext]_pciVars => PciInv'
<1> SUFFICES ASSUME PciInv, [PciNext]_pciVars PROVE PciInv'
    OBVIOUS
<1> USE PciAssumption
    DEF PciInv, PciTypeOK, RoomChecked, OpenHandles, DeviceCount, InDevice,
        InChain, LogConf, PciGoto, chainVars, devVars, countVars
<1>1. CASE GetClassDevs
    BY <1>1 DEF GetClassDevs
<1>2. CASE EnumDevice
    BY <1>2 DEF EnumDevice
<1>3. CASE IdentifyDevice
    <2>1. interrupt' \in BOOLEAN
        BY <1>3, Zenon DEF IdentifyDevice, PciTypeOK
    <2>2. PciTypeOK'
        BY <1>3, <2>1 DEF IdentifyDevice
    <2>3. RoomChecked' /\ DeviceCount'
        BY <1>3 DEF IdentifyDevice
    <2>4. OpenHandles'
        BY <1>3 DEF IdentifyDevice
    <2> QED BY <2>2, <2>3, <2>4
<1>4. CASE StoreDevice
    BY <1>4 DEF StoreDevice
<1>5. CASE DestroyDeviceInfoList
    BY <1>5 DEF DestroyDeviceInfoList
<1>6. CASE FirstLogConf
    <2>1. logConf' \in BOOLEAN
        BY <1>6, Zenon DEF FirstLogConf, PciTypeOK
    <2>2. PciTypeOK'
        BY <1>6, <2>1 DEF FirstLogConf
    <2>3. RoomChecked' /\ DeviceCount'
        BY <1>6 DEF FirstLogConf
    <2>4. OpenHandles'
        BY <1>6 DEF FirstLogConf
    <2> QED BY <2>2, <2>3, <2>4
<1>7. CASE NextResDes
    <2>1. badFree' \in BOOLEAN
        BY <1>7, Zenon DEF NextResDes
    <2>2. CASE /\ prevResDes < MaxDescriptors
               /\ nextResDes' = prevResDes + 1
               /\ open' = (open \cup {nextResDes'}) \ ({prevResDes} \ {LogConf})
               /\ pciPc' = "read_data"
        <3>1. open' = {nextResDes'}
            <4>1. open' = (open \cup {prevResDes + 1}) \ ({prevResDes} \ {0})
                BY <2>2
            <4>2. prevResDes \in Nat /\ prevResDes + 1 # prevResDes
                  /\ prevResDes + 1 # 0
                OBVIOUS
            <4>3. CASE open = {}
                BY <2>2, <4>1, <4>2, <4>3, Zenon
            <4>4. CASE open = {prevResDes} /\ prevResDes # 0
                BY <2>2, <4>1, <4>2, <4>4, Zenon
            <4> QED BY <1>7, <4>3, <4>4, FreedHandle DEF NextResDes
        <3>2. PciTypeOK'
            BY <1>7, <2>1, <2>2, <3>1 DEF NextResDes
        <3>3. RoomChecked' /\ DeviceCount'
            BY <1>7, <2>2 DEF NextResDes, RoomForResource
        <3>4. OpenHandles'
            BY <1>7, <2>2, <3>1 DEF NextResDes
        <3> QED BY <3>2, <3>3, <3>4
    <2>3. CASE /\ open' = open \ ({prevResDes} \ {LogConf})
               /\ pciPc' = "end_resources" /\ UNCHANGED nextResDes
        <3>1. open' = {}
            <4>1. open = {} \/ (open = {prevResDes} /\ prevResDes # 0)
                BY <1>7, FreedHandle DEF NextResDes
            <4> QED BY <2>3, <4>1, Zenon
        <3>2. PciTypeOK'
            BY <1>7, <2>1, <2>3, <3>1 DEF NextResDes
        <3>3. RoomChecked' /\ DeviceCount' /\ OpenHandles'
            BY <1>7, <2>3, <3>1 DEF NextResDes
        <3> QED BY <3>2, <3>3
    <2> QED BY <1>7, <2>2, <2>3 DEF NextResDes
<1>8. CASE NoRoom
    BY <1>8 DEF NoRoom, RoomForResource
<1>9. CASE ReadData
    <2>1. interrupt' \in BOOLEAN
        BY <1>9, Zenon DEF ReadData, PciTypeOK
    <2>2. PciTypeOK'
        BY <1>9, <2>1 DEF ReadData
    <2>3. RoomChecked' /\ DeviceCount'
        BY <1>9 DEF ReadData
    <2>4. OpenHandles'
        BY <1>9 DEF ReadData
    <2> QED BY <2>2, <2>3, <2>4
<1>10. CASE EndResources
    <2>1. badFree' \in BOOLEAN /\ logConf' \in BOOLEAN
        BY <1>10, Zenon DEF EndResources, PciTypeOK
    <2>2. PciTypeOK'
        BY <1>10, <2>1 DEF EndResources
    <2>3. RoomChecked' /\ DeviceCount'
        BY <1>10 DEF EndResources
    <2>4. open' = {}
        <3>1. open = {} \/ (open = {prevResDes} /\ prevResDes # 0)
            BY <1>10, FreedHandle DEF EndResources
        <3>2. open' = open \ ({prevResDes} \ {0})
            BY <1>10 DEF EndResources
        <3> QED BY <3>1, <3>2, Zenon
    <2>5. OpenHandles'
        BY <1>10, <2>4 DEF EndResources
    <2> QED BY <2>2, <2>3, <2>5
<1>11. CASE UNCHANGED pciVars
    BY <1>11 DEF pciVars
<1> QED BY <1>1, <1>2, <1>3, <1>4, <1>5, <1>6, <1>7, <1>8, <1>9, <1>10, <1>11 DEF PciNext

\* At every place at most one descriptor is open, and between devices none.
LEMMA PciHandles == PciInv => NoHandleLeak
<1> SUFFICES ASSUME PciInv PROVE NoHandleLeak
    OBVIOUS
<1>1. open = {} \/ \E h : open = {h}
    BY DEF PciInv, OpenHandles, InChain
<1>2. Cardinality(open) <= 1
    <2>1. CASE open = {}
        BY <2>1, FS_EmptySet
    <2>2. ASSUME NEW h, open = {h} PROVE Cardinality(open) = 1
        BY <2>2, FS_Singleton
    <2> QED BY <1>1, <2>1, <2>2
<1> QED BY <1>2 DEF PciInv, OpenHandles, InChain, InDevice, NoHandleLeak

\* A device that is not being worked on has been counted somewhere.
LEMMA PciDevices == PciInv => EveryDeviceAccountedFor
BY DEF PciInv, PciTypeOK, DeviceCount, InDevice, EveryDeviceAccountedFor
=============================================================================
