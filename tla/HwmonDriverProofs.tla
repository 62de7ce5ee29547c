------------------------- MODULE HwmonDriverProofs -------------------------
(***************************************************************************)
(* Proofs about the driver, for any set of threads, any set of requests    *)
(* and any whitelisted MSR being readable or not.                          *)
(***************************************************************************)
EXTENDS HwmonDriver, TLAPS

(***************************************************************************)
(* What the helpers of the wire protocol return.                           *)
(***************************************************************************)

\* offset & 0xFC and offset & 0xFFC never exceed their argument.
LEMMA DwordAlignedBound ==
    \A n \in Nat : DwordAligned(n) \in Nat /\ DwordAligned(n) <= n
BY DEF DwordAligned

\* The fields every request has, as ReadPciConfigDwordLegacy takes them.
LEMMA RequestFields ==
    ASSUME NEW r \in Requests
    PROVE  /\ r.bus \in UINT8 /\ r.device \in UINT8 /\ r.function \in UINT8
           /\ r.msr \in Nat /\ r.offset \in UINT16
           /\ r.code \in IoctlCodes \cup {"OTHER"}
           /\ r.code = "READ_PCI_CONFIG" => r.offset \in UINT8
<1>1. r \in RequestType
    BY RequestsAssumption
<1>2. r.code = "READ_PCI_CONFIG" => r.offset \in UINT8
    BY RequestsAssumption
<1> QED BY <1>1, <1>2 DEF RequestType

\* The address ReadPciConfigDwordLegacy builds is one mechanism #1 has.
LEMMA PortAddressType ==
    ASSUME NEW r \in Requests, r.code = "READ_PCI_CONFIG"
    PROVE  PortAddress(r) \in PortAddresses
<1>1. /\ r.bus \in UINT8 /\ r.device \in UINT8 /\ r.function \in UINT8
      /\ r.offset \in UINT8
    BY RequestFields
<1>2. r.device % 32 \in Below(32) /\ r.function % 8 \in Below(8)
    BY <1>1 DEF UINT8, Below
<1>3. DwordAligned(r.offset) \in UINT8
    BY <1>1, DwordAlignedBound DEF UINT8, Below
<1> QED BY <1>1, <1>2, <1>3 DEF PortAddress, PortAddresses

\* ReadPcieConfigDwordEcam reads inside the 16-bit offset it was given.
LEMMA EcamOffsetType ==
    ASSUME NEW r \in Requests
    PROVE  DwordAligned(r.offset) \in UINT16
<1>1. r.offset \in UINT16
    BY RequestFields
<1> QED BY <1>1, DwordAlignedBound DEF UINT16, Below

\* Everything the three routines can read is a value of the model.
LEMMA ValueTypes ==
    /\ NoValue \in Values
    /\ \A m \in Nat : MsrValue(m) \in Values
    /\ \A a \in PortAddresses : ConfigDword(a) \in Values
    /\ \A pg \in EcamPages, o \in UINT16 : EcamDword(pg, o) \in Values
BY DEF Values, MsrValue, ConfigDword, EcamDword

\* A request the switch does not refuse has one of the three control codes.
LEMMA RefusalType ==
    ASSUME NEW r \in Requests
    PROVE  /\ Refusal(r) \in Statuses
           /\ Refusal(r) = "none" => r.code \in IoctlCodes
BY DEF Refusal, Statuses

\* sizeof the output structures.
LEMMA OutSizeType == \A c \in IoctlCodes : OutSize[c] \in Infos
BY DEF OutSize, Infos

\* The reply of a caller that has no IOCTL outstanding is a reply.
LEMMA NoReplyType ==
    NoReply \in [status : Statuses, info : Infos, data : Values \cup {InputBytes}]
BY ValueTypes DEF NoReply, Error, Statuses, Infos

(***************************************************************************)
(* Type correctness.                                                       *)
(***************************************************************************)

\* Which routine works on which request: HwmonDeviceControl sends a request
\* to the routine its control code names, and only once it has accepted it.
Routed ==
    \A t \in Threads :
        /\ pc[t] \in {"rdmsr", "acquire", "map", "read", "unmap", "copy"}
                     \cup PciSection => Refusal(req[t]) = "none"
        /\ pc[t] = "rdmsr" => req[t].code = "READ_MSR"
        /\ pc[t] \in {"acquire"} \cup PciSection
              => req[t].code = "READ_PCI_CONFIG"
        /\ pc[t] \in {"map", "read", "unmap"} => req[t].code = "READ_PCIE_ECAM"
        /\ pc[t] \in {"read", "unmap"} => mapped[t] = EcamPage(req[t])

TypeInv == TypeOK /\ Routed

\* Before DriverEntry runs, everything has its type.
LEMMA TypeInit == Init => TypeInv
<1> SUFFICES ASSUME Init PROVE TypeInv
    OBVIOUS
<1>1. TypeOK
    <2>1. \A t \in Threads : "none" \in Statuses /\ 0 \in Infos
        BY DEF Statuses, Infos
    <2> QED BY <2>1, DriverAssumption, PortsAssumption, ValueTypes, NoReplyType
            DEF Init, TypeOK, DriverPcs, IoctlPcs, PciSection
<1>2. Routed
    BY DEF Init, Routed, PciSection
<1> QED BY <1>1, <1>2 DEF TypeInv

\* Every step keeps the types and keeps each request with its routine.
LEMMA TypeStep == TypeInv /\ [Next]_vars => TypeInv'
<1> SUFFICES ASSUME TypeInv, [Next]_vars PROVE TypeInv'
    OBVIOUS
<1> USE DriverAssumption, PortsAssumption DEF TypeInv, TypeOK, Routed, Goto, entryVars, portVars,
        localVars, DriverPcs, IoctlPcs, PciSection
<1>1. CASE EntryCreateDevice
    BY <1>1 DEF EntryCreateDevice
<1>2. CASE EntrySymbolicLink
    BY <1>2 DEF EntrySymbolicLink
<1>3. CASE EntrySetDispatch
    BY <1>3 DEF EntrySetDispatch
<1>4. CASE EntryClearInitializing
    BY <1>4 DEF EntryClearInitializing
<1>5. CASE UnloadDeleteLink
    BY <1>5 DEF UnloadDeleteLink
<1>6. CASE UnloadDeleteDevice
    BY <1>6 DEF UnloadDeleteDevice
<1>7. CASE RequestUnload
    BY <1>7 DEF RequestUnload
<1>8. CASE OsConfigCycle
    BY <1>8 DEF OsConfigCycle
<1>9. ASSUME NEW t \in Threads, DriverStep(t) \/ CallerStep(t) PROVE TypeInv'
    <2>1. CASE HwmonCreateClose(t)
        BY <2>1 DEF HwmonCreateClose
    <2>2. CASE HwmonDeviceControl(t)
        BY <2>2, RefusalType DEF HwmonDeviceControl, Routine, IoctlCodes, Infos
    <2>3. CASE SafeReadMsr(t)
        <3>1. MsrValue(req[t].msr) \in Values
            BY <2>3, ValueTypes, RequestFields DEF SafeReadMsr
        <3>2. "SUCCESS" \in Statuses /\ "NOT_SUPPORTED" \in Statuses
            BY DEF Statuses
        <3>3. TypeOK'
            <4>1. value' \in [Threads -> Values]
                BY <2>3, <3>1 DEF SafeReadMsr
            <4>2. status' \in [Threads -> Statuses]
                BY <2>3, <3>2 DEF SafeReadMsr
            <4> QED BY <2>3, <4>1, <4>2 DEF SafeReadMsr
        <3>4. Routed'
            BY <2>3 DEF SafeReadMsr
        <3> QED BY <3>3, <3>4
    <2>4. CASE AcquirePciConfigLock(t)
        BY <2>4 DEF AcquirePciConfigLock
    <2>5. CASE WriteAddressPort(t)
        BY <2>5, PortAddressType DEF WriteAddressPort
    <2>6. CASE ReadDataPort(t)
        BY <2>6, ValueTypes DEF ReadDataPort
    <2>7. CASE ReleasePciConfigLock(t)
        BY <2>7 DEF ReleasePciConfigLock, Statuses
    <2>8. CASE MapEcamPage(t)
        <3>1. EcamPage(req[t]) \in EcamPages
            BY <2>8 DEF MapEcamPage, EcamPages
        <3>2. "UNSUCCESSFUL" \in Statuses
            BY DEF Statuses
        <3>3. TypeOK'
            <4>1. mapped' \in [Threads -> EcamPages \cup {NoPage}]
                BY <2>8, <3>1 DEF MapEcamPage
            <4>2. status' \in [Threads -> Statuses]
                BY <2>8, <3>2 DEF MapEcamPage
            <4> QED BY <2>8, <4>1, <4>2 DEF MapEcamPage
        <3>4. Routed'
            BY <2>8 DEF MapEcamPage
        <3> QED BY <3>3, <3>4
    <2>9. CASE ReadMapped(t)
        <3>1. mapped[t] \in EcamPages
            BY <2>9 DEF ReadMapped, EcamPages
        <3>2. EcamDword(mapped[t], DwordAligned(req[t].offset)) \in Values
            BY <2>9, <3>1, ValueTypes, EcamOffsetType DEF ReadMapped
        <3>3. "SUCCESS" \in Statuses /\ "UNSUCCESSFUL" \in Statuses
            BY DEF Statuses
        <3>4. TypeOK'
            <4>1. value' \in [Threads -> Values]
                BY <2>9, <3>2 DEF ReadMapped
            <4>2. status' \in [Threads -> Statuses]
                BY <2>9, <3>3 DEF ReadMapped
            <4> QED BY <2>9, <4>1, <4>2 DEF ReadMapped
        <3>5. Routed'
            BY <2>9 DEF ReadMapped
        <3> QED BY <3>4, <3>5
    <2>10. CASE UnmapEcamPage(t)
        BY <2>10 DEF UnmapEcamPage
    <2>11. CASE CopyOut(t)
        BY <2>11, OutSizeType, RefusalType DEF CopyOut
    <2>12. CASE CompleteRequest(t)
        BY <2>12, ValueTypes DEF CompleteRequest
    <2>13. CASE OpenDevice(t)
        BY <2>13 DEF OpenDevice
    <2>14. CASE CloseHandle(t)
        BY <2>14 DEF CloseHandle
    <2>15. CASE Collect(t)
        BY <2>15, ValueTypes, NoReplyType DEF Collect, Statuses, Infos
    <2>16. ASSUME NEW r \in Requests, IssueIoctl(t, r) PROVE TypeInv'
        BY <2>16 DEF IssueIoctl
    <2> QED BY <1>9, <2>1, <2>2, <2>3, <2>4, <2>5, <2>6, <2>7, <2>8, <2>9, <2>10, <2>11, <2>12, <2>13, <2>14, <2>15, <2>16 DEF DriverStep, CallerStep
<1>10. CASE UNCHANGED vars
    BY <1>10 DEF vars
<1> QED BY <1>1, <1>2, <1>3, <1>4, <1>5, <1>6, <1>7, <1>8, <1>9, <1>10 DEF Next, EntryStep

\* Whatever the threads, the requests and the processor, the driver's state
\* and what IoCompleteRequest hands back keep their types.
THEOREM TypeCorrect == Spec => []TypeOK
<1>1. TypeInv => TypeOK
    BY DEF TypeInv
<1> QED BY <1>1, TypeInit, TypeStep, PTL DEF Spec

(***************************************************************************)
(* Loading and unloading.  DO_DEVICE_INITIALIZING is the only thing that   *)
(* keeps an open away from a device without a dispatch table, so the       *)
(* invariant says what exists in each phase of DriverEntry and Unload, and *)
(* that the lock belongs to a thread between its acquire and release.      *)
(***************************************************************************)
PhaseInv ==
    /\ deviceObject <=> phase # "absent"
    /\ symlink <=> phase \in {"linked", "dispatch", "loaded"}
    /\ initializing <=> phase \in {"created", "linked", "dispatch"}
    /\ majorFunction <=> phase \in {"dispatch", "loaded", "unlinked"}

LockInv == \A t \in Threads : lock = t <=> pc[t] \in PciSection

LifeInv == PhaseInv /\ IrpHasDriver /\ LockInv /\ NoMappingOutlivesIoctl

\* Before DriverEntry runs, nothing exists and nothing is referenced.
LEMMA LifeInit == Init => LifeInv
BY DriverAssumption, PortsAssumption
   DEF Init, LifeInv, PhaseInv, IrpHasDriver, LockInv, NoMappingOutlivesIoctl,
       DriverPcs, IoctlPcs, PciSection

\* Every step keeps phase, references, lock and mappings consistent.
LEMMA LifeStep == TypeInv /\ LifeInv /\ [Next]_vars => LifeInv'
<1> SUFFICES ASSUME TypeInv, LifeInv, [Next]_vars PROVE LifeInv'
    OBVIOUS
<1> USE DriverAssumption, PortsAssumption DEF TypeInv, TypeOK, LifeInv, PhaseInv, IrpHasDriver,
        LockInv, NoMappingOutlivesIoctl, Goto, entryVars, portVars, localVars,
        DriverPcs, IoctlPcs, PciSection
<1>1. CASE EntryCreateDevice
    BY <1>1 DEF EntryCreateDevice
<1>2. CASE EntrySymbolicLink
    <2>1. PhaseInv'
        <3>1. CASE symlink' = TRUE /\ phase' = "linked"
                   /\ UNCHANGED <<deviceObject, initializing>>
            BY <1>2, <3>1 DEF EntrySymbolicLink
        <3>2. CASE deviceObject' = FALSE /\ initializing' = FALSE
                   /\ phase' = "absent" /\ UNCHANGED symlink
            BY <1>2, <3>2 DEF EntrySymbolicLink
        <3> QED BY <1>2, <3>1, <3>2, Zenon DEF EntrySymbolicLink
    <2>2. IrpHasDriver'
        BY <1>2 DEF EntrySymbolicLink
    <2>3. LockInv' /\ NoMappingOutlivesIoctl'
        BY <1>2 DEF EntrySymbolicLink
    <2> QED BY <2>1, <2>2, <2>3
<1>3. CASE EntrySetDispatch
    BY <1>3 DEF EntrySetDispatch
<1>4. CASE EntryClearInitializing
    BY <1>4 DEF EntryClearInitializing
<1>5. CASE UnloadDeleteLink
    <2>1. \A t \in Threads : ~handle[t] /\ pc[t] \notin DriverPcs
        BY <1>5 DEF UnloadDeleteLink, Referenced
    <2> QED BY <1>5, <2>1 DEF UnloadDeleteLink
<1>6. CASE UnloadDeleteDevice
    BY <1>6 DEF UnloadDeleteDevice
<1>7. CASE RequestUnload
    BY <1>7 DEF RequestUnload
<1>8. CASE OsConfigCycle
    BY <1>8 DEF OsConfigCycle
<1>9. ASSUME NEW t \in Threads, DriverStep(t) \/ CallerStep(t) PROVE LifeInv'
    <2>1. CASE HwmonCreateClose(t)
        BY <2>1 DEF HwmonCreateClose
    <2>2. CASE HwmonDeviceControl(t)
        <3>1. pc'[t] \in {"rdmsr", "acquire", "map", "complete"}
            BY <2>2, RefusalType DEF HwmonDeviceControl, Routine, IoctlCodes
        <3> QED BY <2>2, <3>1 DEF HwmonDeviceControl
    <2>3. CASE SafeReadMsr(t)
        BY <2>3 DEF SafeReadMsr
    <2>4. CASE AcquirePciConfigLock(t)
        BY <2>4 DEF AcquirePciConfigLock
    <2>5. CASE WriteAddressPort(t)
        BY <2>5 DEF WriteAddressPort
    <2>6. CASE ReadDataPort(t)
        BY <2>6 DEF ReadDataPort
    <2>7. CASE ReleasePciConfigLock(t)
        BY <2>7 DEF ReleasePciConfigLock
    <2>8. CASE MapEcamPage(t)
        BY <2>8 DEF MapEcamPage
    <2>9. CASE ReadMapped(t)
        BY <2>9 DEF ReadMapped
    <2>10. CASE UnmapEcamPage(t)
        BY <2>10 DEF UnmapEcamPage
    <2>11. CASE CopyOut(t)
        BY <2>11 DEF CopyOut
    <2>12. CASE CompleteRequest(t)
        BY <2>12 DEF CompleteRequest
    <2>13. CASE OpenDevice(t)
        BY <2>13 DEF OpenDevice
    <2>14. CASE CloseHandle(t)
        BY <2>14 DEF CloseHandle
    <2>15. CASE Collect(t)
        BY <2>15 DEF Collect
    <2>16. ASSUME NEW r \in Requests, IssueIoctl(t, r) PROVE LifeInv'
        BY <2>16 DEF IssueIoctl
    <2> QED BY <1>9, <2>1, <2>2, <2>3, <2>4, <2>5, <2>6, <2>7, <2>8, <2>9, <2>10, <2>11, <2>12, <2>13, <2>14, <2>15, <2>16
        DEF DriverStep, CallerStep
<1>10. CASE UNCHANGED vars
    BY <1>10 DEF vars
<1> QED BY <1>1, <1>2, <1>3, <1>4, <1>5, <1>6, <1>7, <1>8, <1>9, <1>10 DEF Next, EntryStep

\* An IRP only ever runs in a completely initialised driver: for any number
\* of threads opening, calling and closing while it is loaded and unloaded.
THEOREM LifecycleSafe == Spec => []IrpHasDriver
<1>1. LifeInv => IrpHasDriver
    BY DEF LifeInv
<1> QED BY <1>1, TypeInit, TypeStep, LifeInit, LifeStep, PTL DEF Spec

\* Device memory stays mapped for one IOCTL only, on every path through
\* ReadPcieConfigDwordEcam and with any number of them running.
THEOREM MappingsEnd == Spec => []NoMappingOutlivesIoctl
<1>1. LifeInv => NoMappingOutlivesIoctl
    BY DEF LifeInv
<1> QED BY <1>1, TypeInit, TypeStep, LifeInit, LifeStep, PTL DEF Spec

\* A failed DriverEntry and a HwmonUnload leave nothing: no object, no owner
\* of the lock, no mapping.  An absent driver has no IRP, by IrpHasDriver, so
\* nobody is in the port section or has a page mapped.
THEOREM NothingLeftBehind == Spec => []AbsentIsClean
<1>1. TypeInv /\ LifeInv => AbsentIsClean
    BY DEF TypeInv, TypeOK, LifeInv, PhaseInv, IrpHasDriver, LockInv,
           NoMappingOutlivesIoctl, AbsentIsClean, DriverPcs, IoctlPcs,
           PciSection
<1> QED BY <1>1, TypeInit, TypeStep, LifeInit, LifeStep, PTL DEF Spec

(***************************************************************************)
(* Every caller gets its own answer.  The invariant follows the value from *)
(* the address port, through the local variable and the system buffer, to  *)
(* the caller.  It needs LockInv: between a thread's __outdword and its    *)
(* __indword no other thread of this driver is in the port section.        *)
(* Nobody else drives the ports in between, or it is the code that         *)
(* OsUsesPorts speaks of, which no lock of this driver can keep out.       *)
(***************************************************************************)
Result(t) == [status |-> status[t], info |-> bytesReturned[t],
              data |-> IF bytesReturned[t] = 0 THEN NoValue ELSE buffer[t]]

Readings(r) == {Answer(r)} \cup Disturbed(r)

AnswerInv ==
    \A t \in Threads :
        /\ pc[t] = "in" => \/ cf8 = PortAddress(req[t])
                           \/ OsUsesPorts /\ cf8 = OsAddress
        /\ pc[t] \in {"release", "copy"} => value[t] \in Readings(req[t])
        /\ pc[t] = "copy" => status[t] = "SUCCESS"
        /\ pc[t] = "unmap" =>
              status[t] = "UNSUCCESSFUL" \/ (/\ status[t] = "SUCCESS"
                                             /\ value[t] \in Readings(req[t]))
        /\ pc[t] \in {"rdmsr", "map", "read", "unmap"} => bytesReturned[t] = 0
        /\ pc[t] = "complete" => Result(t) \in Permitted(req[t])
        /\ pc[t] = "done" => reply[t] \in Permitted(req[t])

\* What the protocol permits, case by case.
LEMMA PermittedReplies ==
    ASSUME NEW r \in Requests
    PROVE  /\ Refusal(r) # "none" => Error(Refusal(r)) \in Permitted(r)
           /\ Refusal(r) = "none" =>
                 \A v \in Readings(r) : Success(r, v) \in Permitted(r)
           /\ Refusal(r) = "none" /\ r.code = "READ_MSR"
                 => Error("NOT_SUPPORTED") \in Permitted(r)
           /\ Refusal(r) = "none" /\ r.code = "READ_PCIE_ECAM"
                 => Error("UNSUCCESSFUL") \in Permitted(r)
BY RequestsAssumption
   DEF Refusal, TooSmall, BadLength, MsrIsWhitelisted, BadEcamParameter,
       Permitted, Promised, Deviations, DocumentedEcam, Data, Readings,
       Disturbed, IoctlCodes, UINT16, UINT8, Below, RequestType

\* Before DriverEntry runs, no answer is outstanding.
LEMMA AnswerInit == Init => AnswerInv
BY DEF Init, AnswerInv

\* Every step keeps each answer with the request it belongs to.
LEMMA AnswerStep == TypeInv /\ LifeInv /\ AnswerInv /\ [Next]_vars => AnswerInv'
<1> SUFFICES ASSUME TypeInv, LifeInv, AnswerInv, [Next]_vars PROVE AnswerInv'
    OBVIOUS
<1> USE DEF TypeInv, TypeOK, AnswerInv, Result, Goto, entryVars, portVars,
        localVars, IoctlPcs, PciSection
<1>1. CASE EntryCreateDevice
    BY <1>1 DEF EntryCreateDevice
<1>2. CASE EntrySymbolicLink
    BY <1>2 DEF EntrySymbolicLink
<1>3. CASE EntrySetDispatch
    BY <1>3 DEF EntrySetDispatch
<1>4. CASE EntryClearInitializing
    BY <1>4 DEF EntryClearInitializing
<1>5. CASE UnloadDeleteLink
    BY <1>5 DEF UnloadDeleteLink
<1>6. CASE UnloadDeleteDevice
    BY <1>6 DEF UnloadDeleteDevice
<1>7. CASE RequestUnload
    BY <1>7 DEF RequestUnload
<1>8. CASE OsConfigCycle
    BY <1>8 DEF OsConfigCycle
<1>9. ASSUME NEW t \in Threads, DriverStep(t) \/ CallerStep(t) PROVE AnswerInv'
    <2>1. CASE HwmonCreateClose(t)
        BY <2>1 DEF HwmonCreateClose
    <2>2. CASE HwmonDeviceControl(t)
        <3>1. pc'[t] \in {"rdmsr", "acquire", "map", "complete"}
            BY <2>2, RefusalType DEF HwmonDeviceControl, Routine, IoctlCodes
        <3>2. pc'[t] = "complete" => Result(t)' \in Permitted(req[t])
            <4>1. SUFFICES ASSUME pc'[t] = "complete"
                           PROVE  Result(t)' = Error(Refusal(req[t]))
                                  /\ Refusal(req[t]) # "none"
                BY <2>2, PermittedReplies DEF HwmonDeviceControl
            <4>2. Refusal(req[t]) # "none"
                BY <2>2, <4>1, RefusalType
                   DEF HwmonDeviceControl, Routine, IoctlCodes
            <4> QED BY <2>2, <4>2 DEF HwmonDeviceControl, Error
        <3> QED BY <2>2, <3>1, <3>2 DEF HwmonDeviceControl
    <2>3. CASE SafeReadMsr(t)
        <3>1. Refusal(req[t]) = "none" /\ req[t].code = "READ_MSR"
            BY <2>3 DEF SafeReadMsr, Routed
        <3>2. CASE req[t].msr \in ImplementedMsrs
            <4>1. /\ MsrValue(req[t].msr) = Answer(req[t])
                  /\ Answer(req[t]) \in Readings(req[t])
                BY <3>1 DEF Answer, Readings
            <4>2. /\ value' = [value EXCEPT ![t] = Answer(req[t])]
                  /\ status' = [status EXCEPT ![t] = "SUCCESS"]
                  /\ pc' = [pc EXCEPT ![t] = "copy"]
                BY <2>3, <3>2, <4>1 DEF SafeReadMsr
            <4> QED BY <2>3, <4>1, <4>2 DEF SafeReadMsr
        <3>3. CASE req[t].msr \notin ImplementedMsrs
            <4>1. Error("NOT_SUPPORTED") \in Permitted(req[t])
                BY <2>3, <3>1, PermittedReplies DEF SafeReadMsr
            <4>2. Result(t)' = Error("NOT_SUPPORTED")
                BY <2>3, <3>3 DEF SafeReadMsr, Error
            <4> QED BY <2>3, <3>3, <4>1, <4>2 DEF SafeReadMsr
        <3> QED BY <3>2, <3>3
    <2>4. CASE AcquirePciConfigLock(t)
        BY <2>4 DEF AcquirePciConfigLock
    <2>5. CASE WriteAddressPort(t)
        BY <2>5 DEF WriteAddressPort, LifeInv, LockInv
    <2>6. CASE ReadDataPort(t)
        <3>1. ConfigDword(cf8) \in Readings(req[t])
            BY <2>6 DEF ReadDataPort, Routed, Answer, Readings, Disturbed
        <3> QED BY <2>6, <3>1 DEF ReadDataPort
    <2>7. CASE ReleasePciConfigLock(t)
        BY <2>7 DEF ReleasePciConfigLock
    <2>8. CASE MapEcamPage(t)
        <3>1. Error("UNSUCCESSFUL") \in Permitted(req[t])
            BY <2>8, PermittedReplies DEF MapEcamPage, Routed
        <3>2. CASE pc' = [pc EXCEPT ![t] = "read"]
            BY <2>8, <3>2 DEF MapEcamPage
        <3>3. CASE /\ pc' = [pc EXCEPT ![t] = "complete"]
                   /\ status' = [status EXCEPT ![t] = "UNSUCCESSFUL"]
            <4>1. Result(t)' = Error("UNSUCCESSFUL")
                BY <2>8, <3>3 DEF MapEcamPage, Error
            <4> QED BY <2>8, <3>1, <3>3, <4>1 DEF MapEcamPage
        <3> QED BY <2>8, <3>2, <3>3 DEF MapEcamPage
    <2>9. CASE ReadMapped(t)
        <3>1. /\ EcamDword(mapped[t], DwordAligned(req[t].offset)) = Answer(req[t])
              /\ Answer(req[t]) \in Readings(req[t])
            BY <2>9 DEF ReadMapped, Routed, Answer, Readings
        <3>2. CASE /\ value' = [value EXCEPT ![t] = Answer(req[t])]
                   /\ status' = [status EXCEPT ![t] = "SUCCESS"]
            BY <2>9, <3>1, <3>2 DEF ReadMapped
        <3>3. CASE /\ status' = [status EXCEPT ![t] = "UNSUCCESSFUL"]
                   /\ UNCHANGED value
            BY <2>9, <3>3 DEF ReadMapped
        <3> QED BY <2>9, <3>1, <3>2, <3>3 DEF ReadMapped
    <2>10. CASE UnmapEcamPage(t)
        <3>1. Error("UNSUCCESSFUL") \in Permitted(req[t])
            BY <2>10, PermittedReplies DEF UnmapEcamPage, Routed
        <3>2. CASE status[t] = "SUCCESS"
            BY <2>10, <3>2 DEF UnmapEcamPage
        <3>3. CASE status[t] # "SUCCESS"
            <4>1. Result(t)' = Error("UNSUCCESSFUL")
                BY <2>10, <3>3 DEF UnmapEcamPage, Error
            <4> QED BY <2>10, <3>1, <3>3, <4>1 DEF UnmapEcamPage
        <3> QED BY <3>2, <3>3
    <2>11. CASE CopyOut(t)
        <3>1. Refusal(req[t]) = "none" /\ req[t] \in Requests
            BY <2>11 DEF CopyOut, Routed
        <3>2. OutSize[req[t].code] # 0
            BY <3>1, RefusalType DEF OutSize
        <3>3. /\ Result(t)' = Success(req[t], value[t])
              /\ value[t] \in Readings(req[t])
            BY <2>11, <3>2 DEF CopyOut, Success
        <3>4. Result(t)' \in Permitted(req[t])
            BY <3>1, <3>3, PermittedReplies
        <3> QED BY <2>11, <3>4 DEF CopyOut
    <2>12. CASE CompleteRequest(t)
        BY <2>12 DEF CompleteRequest
    <2>13. CASE OpenDevice(t)
        BY <2>13 DEF OpenDevice
    <2>14. CASE CloseHandle(t)
        BY <2>14 DEF CloseHandle
    <2>15. CASE Collect(t)
        BY <2>15 DEF Collect
    <2>16. ASSUME NEW r \in Requests, IssueIoctl(t, r) PROVE AnswerInv'
        BY <2>16 DEF IssueIoctl
    <2> QED BY <1>9, <2>1, <2>2, <2>3, <2>4, <2>5, <2>6, <2>7, <2>8, <2>9, <2>10, <2>11, <2>12, <2>13, <2>14, <2>15, <2>16
        DEF DriverStep, CallerStep
<1>10. CASE UNCHANGED vars
    BY <1>10 DEF vars
<1> QED BY <1>1, <1>2, <1>3, <1>4, <1>5, <1>6, <1>7, <1>8, <1>9, <1>10 DEF Next, EntryStep

\* Every completed IOCTL hands back a reply its own request permits, for any
\* number of concurrent callers: never one that another caller asked for.
THEOREM AnswersAreOwn == Spec => []AnswerIsOwn
<1>1. AnswerInv => AnswerIsOwn
    BY DEF AnswerInv, AnswerIsOwn
<1> QED BY <1>1, TypeInit, TypeStep, LifeInit, LifeStep, AnswerInit, AnswerStep,
           PTL DEF Spec

(***************************************************************************)
(* The driver implements the abstract service.  Besides AnswerInv this     *)
(* takes that a reply is only there between IoCompleteRequest and the      *)
(* caller's look at it.                                                    *)
(***************************************************************************)
ReplyInv == \A t \in Threads : pc[t] # "done" => reply[t] = NoReply

\* The request thread t is waiting on, in the terms of the service.
Pending == [t \in Threads |-> IF pc[t] \in IoctlPcs THEN req[t] ELSE NoRequest]

\* Before DriverEntry runs, no reply has been given.
LEMMA ReplyInit == Init => ReplyInv
BY DEF Init, ReplyInv

\* A reply appears with IoCompleteRequest and goes when the caller has seen it.
LEMMA ReplyStep == TypeInv /\ ReplyInv /\ [Next]_vars => ReplyInv'
<1> SUFFICES ASSUME TypeInv, ReplyInv, [Next]_vars PROVE ReplyInv'
    OBVIOUS
<1> USE DEF TypeInv, TypeOK, ReplyInv, Goto, entryVars, portVars, localVars
<1>1. CASE EntryStep \/ RequestUnload \/ OsConfigCycle \/ UNCHANGED vars
    BY <1>1 DEF EntryStep, EntryCreateDevice, EntrySymbolicLink,
        EntrySetDispatch, EntryClearInitializing, UnloadDeleteLink,
        UnloadDeleteDevice, RequestUnload, OsConfigCycle, vars
<1>2. ASSUME NEW t \in Threads, DriverStep(t) \/ CallerStep(t) PROVE ReplyInv'
    <2>1. CASE CompleteRequest(t)
        BY <2>1 DEF CompleteRequest
    <2>2. CASE Collect(t)
        BY <2>2 DEF Collect
    <2>3. CASE /\ UNCHANGED reply
               /\ pc[t] # "done"
               /\ \E l : pc' = [pc EXCEPT ![t] = l]
        BY <2>3
    <2> QED BY <1>2, <2>1, <2>2, <2>3
        DEF DriverStep, CallerStep, HwmonCreateClose, HwmonDeviceControl,
            SafeReadMsr, AcquirePciConfigLock, WriteAddressPort, ReadDataPort,
            ReleasePciConfigLock, MapEcamPage, ReadMapped, UnmapEcamPage,
            CopyOut, OpenDevice, CloseHandle, IssueIoctl
<1> QED BY <1>1, <1>2 DEF Next

\* The service's own copies of the protocol's operators are the driver's.
LEMMA SameProtocol ==
    /\ Service!NoReply = NoReply
    /\ \A r \in Requests : Service!Permitted(r) = Permitted(r)
<1>1. Service!NoReply = NoReply
    BY DEF Service!NoReply, NoReply, Service!Error, Error, Service!NoValue,
           NoValue
<1>2. \A r \in Requests : Service!Permitted(r) = Permitted(r)
    BY DEF Service!Permitted, Permitted, Service!Promised, Promised,
           Service!Deviations, Deviations, Service!DocumentedEcam,
           DocumentedEcam, Service!InConfigSpace, InConfigSpace,
           Service!BadLength, BadLength, Service!Error, Error, Service!Data,
           Data, Service!Success, Success, Service!Disturbed, Disturbed,
           Service!Answer, Answer, Service!IoctlCodes, IoctlCodes,
           Service!InSize, InSize, Service!OutSize, OutSize,
           Service!MsrWhitelist, MsrWhitelist, Service!NoValue, NoValue, Service!MsrValue,
           MsrValue, Service!ConfigDword, ConfigDword, Service!EcamDword,
           EcamDword, Service!PortAddress, PortAddress, Service!EcamPage,
           EcamPage, Service!DwordAligned, DwordAligned
<1> QED BY <1>1, <1>2

\* No request is answered with the reply that stands for none.
LEMMA PermittedIsReply ==
    ASSUME NEW r \in Requests
    PROVE  NoReply \notin Permitted(r)
BY DEF NoReply, Permitted, Promised, Deviations, Error, Data, Success, IoctlCodes

\* The service's actions, in the driver's terms.
LEMMA ServiceSteps ==
    ASSUME NEW t \in Threads
    PROVE  /\ \A r \in Requests :
                 /\ Pending[t] = NoRequest /\ reply[t] = NoReply
                 /\ Pending' = [Pending EXCEPT ![t] = r] /\ reply' = reply
                 => Service!ServiceNext
           /\ \A a \in Permitted(Pending[t]) :
                 /\ Pending[t] \in Requests
                 /\ reply' = [reply EXCEPT ![t] = a]
                 /\ Pending' = [Pending EXCEPT ![t] = NoRequest]
                 => Service!ServiceNext
           /\ /\ reply[t] # NoReply
              /\ reply' = [reply EXCEPT ![t] = NoReply] /\ Pending' = Pending
              => Service!ServiceNext
BY SameProtocol, RequestsAssumption
   DEF Pending, Service!ServiceNext, Service!Call, Service!Reply,
       Service!Consume

\* Every step of the driver is a step of the service or leaves it alone.
LEMMA StepImplements ==
    TypeInv /\ AnswerInv /\ ReplyInv /\ [Next]_vars
        => [Service!ServiceNext]_(Service!serviceVars)
<1> SUFFICES ASSUME TypeInv, AnswerInv, ReplyInv, [Next]_vars
             PROVE  Service!ServiceNext \/ (Pending' = Pending /\ reply' = reply)
    BY DEF Service!serviceVars, Pending
<1> USE DEF TypeInv, TypeOK, Goto, entryVars, portVars, localVars, Pending,
        IoctlPcs, PciSection
<1>1. CASE EntryStep \/ RequestUnload \/ OsConfigCycle \/ UNCHANGED vars
    BY <1>1 DEF EntryStep, EntryCreateDevice, EntrySymbolicLink,
        EntrySetDispatch, EntryClearInitializing, UnloadDeleteLink,
        UnloadDeleteDevice, RequestUnload, OsConfigCycle, vars
<1>2. ASSUME NEW t \in Threads, DriverStep(t) \/ CallerStep(t)
      PROVE  Service!ServiceNext \/ (Pending' = Pending /\ reply' = reply)
    <2>1. CASE CompleteRequest(t)
        <3>1. Pending[t] = req[t] /\ req[t] \in Requests
            BY <2>1 DEF CompleteRequest
        <3>2. Result(t) \in Permitted(Pending[t])
            BY <2>1, <3>1 DEF CompleteRequest, AnswerInv
        <3>3. reply' = [reply EXCEPT ![t] = Result(t)]
            BY <2>1 DEF CompleteRequest, Result
        <3>4. Pending' = [Pending EXCEPT ![t] = NoRequest]
            BY <2>1 DEF CompleteRequest
        <3> QED BY <3>1, <3>2, <3>3, <3>4, ServiceSteps
    <2>2. CASE Collect(t)
        <3>1. reply[t] \in Permitted(req[t]) /\ req[t] \in Requests
            BY <2>2 DEF Collect, AnswerInv
        <3>2. reply[t] # NoReply
            BY <3>1, PermittedIsReply
        <3>3. Pending' = Pending /\ reply' = [reply EXCEPT ![t] = NoReply]
            BY <2>2 DEF Collect
        <3> QED BY <3>2, <3>3, ServiceSteps
    <2>3. ASSUME NEW r \in Requests, IssueIoctl(t, r) PROVE Service!ServiceNext
        <3>1. Pending[t] = NoRequest /\ reply[t] = NoReply
            BY <2>3 DEF IssueIoctl, ReplyInv
        <3>2. Pending' = [Pending EXCEPT ![t] = r] /\ reply' = reply
            BY <2>3 DEF IssueIoctl
        <3> QED BY <3>1, <3>2, ServiceSteps
    <2>4. CASE HwmonCreateClose(t) \/ OpenDevice(t) \/ CloseHandle(t)
        BY <2>4 DEF HwmonCreateClose, OpenDevice, CloseHandle
    <2>5. CASE HwmonDeviceControl(t)
        <3>1. pc'[t] \in {"rdmsr", "acquire", "map", "complete"}
            BY <2>5, RefusalType DEF HwmonDeviceControl, Routine, IoctlCodes
        <3> QED BY <2>5, <3>1 DEF HwmonDeviceControl
    <2>6. CASE SafeReadMsr(t)
        BY <2>6 DEF SafeReadMsr
    <2>7. CASE \/ AcquirePciConfigLock(t) \/ WriteAddressPort(t)
               \/ ReadDataPort(t) \/ ReleasePciConfigLock(t)
        BY <2>7 DEF AcquirePciConfigLock, WriteAddressPort, ReadDataPort,
                    ReleasePciConfigLock
    <2>8. CASE MapEcamPage(t) \/ ReadMapped(t) \/ UnmapEcamPage(t)
        BY <2>8 DEF MapEcamPage, ReadMapped, UnmapEcamPage
    <2>9. CASE CopyOut(t)
        BY <2>9 DEF CopyOut
    <2> QED BY <1>2, <2>1, <2>2, <2>3, <2>4, <2>5, <2>6, <2>7, <2>8, <2>9
        DEF DriverStep, CallerStep
<1> QED BY <1>1, <1>2 DEF Next

\* The driver implements the service it promises its callers: one reply per
\* call, permitted by that call, whatever the other threads do and however
\* the steps of their routines interleave.
THEOREM DriverImplementsService == Spec => ImplementsService
<1>1. Init => Service!ServiceInit
    BY SameProtocol DEF Init, Service!ServiceInit, IoctlPcs, PciSection
<1> QED BY <1>1, TypeInit, TypeStep, LifeInit, LifeStep, AnswerInit, AnswerStep,
           ReplyInit, ReplyStep, StepImplements, PTL
        DEF Spec, ImplementsService, Service!ServiceSpec
=============================================================================
