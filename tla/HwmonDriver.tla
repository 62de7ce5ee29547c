---------------------------- MODULE HwmonDriver ----------------------------
(***************************************************************************)
(* The WDM driver of driver/hwmon_driver.c: DriverEntry and HwmonUnload    *)
(* run by the system, IRP_MJ_CREATE / CLOSE / DEVICE_CONTROL run by any    *)
(* number of threads at the same time.  A step is one access to something  *)
(* that another thread or the system can observe: the spin lock, the       *)
(* CF8/CFC port pair, a mapping, the device object, the IRP.               *)
(*                                                                         *)
(* The system's side (the I/O manager, the callers, the HAL's own use of   *)
(* the configuration ports) is external; it is modelled from what the      *)
(* driver relies on: no open while DO_DEVICE_INITIALIZING is set or an     *)
(* unload is pending, no DriverUnload while the device is referenced.      *)
(***************************************************************************)
EXTENDS HwmonIoctl

CONSTANTS
    ImplementedMsrs,   \* MSRs this processor can read without #GP
    NoThread,          \* the spin lock is free
    NoPage             \* nothing mapped

EcamPages == {EcamPage(r) : r \in Requests}

ASSUME DriverAssumption ==
    /\ ImplementedMsrs \subseteq Nat
    /\ NoThread \notin Threads
    /\ NoPage \notin EcamPages

VARIABLES
    phase,           \* progress of DriverEntry / HwmonUnload
    deviceObject,    \* does \Device\HwMon exist?
    symlink,         \* does \DosDevices\HwMon exist?
    initializing,    \* DO_DEVICE_INITIALIZING
    majorFunction,   \* has the dispatch table been filled in?
    unloadPending,   \* the system wants the driver gone
    lock,            \* g_PciConfigLock: its owner, or NoThread
    cf8,             \* the configuration address port
    handle,          \* handle[t]: t has the device open
    pc,              \* pc[t]: what the driver does next on t's IRP
    req,             \* req[t]: the DeviceIoControl call of t
    status,          \* status[t]: the handler's local `status'
    bytesReturned,   \* bytesReturned[t]: the handler's local
    value,           \* value[t]: the local the hardware is read into
    buffer,          \* buffer[t]: Irp->AssociatedIrp.SystemBuffer
    mapped,          \* mapped[t]: the page ReadPcieConfigDwordEcam has mapped
    reply            \* reply[t]: what IoCompleteRequest handed back to t

entryVars == <<phase, deviceObject, symlink, initializing, majorFunction,
               unloadPending>>
portVars  == <<lock, cf8>>
localVars == <<status, bytesReturned, value, buffer, mapped>>
vars == <<entryVars, portVars, handle, pc, req, localVars, reply>>

\* What METHOD_BUFFERED put into the system buffer: the caller's structure.
InputBytes == <<"input">>

\* Locations inside HwmonDeviceControl and the three routines it calls.
PciSection == {"out", "in", "release"}
IoctlPcs   == {"ioctl", "rdmsr", "acquire", "map", "read", "unmap", "copy",
               "complete"} \cup PciSection
DriverPcs  == {"create", "close"} \cup IoctlPcs

Statuses == {"none", "SUCCESS", "INVALID_DEVICE_REQUEST", "BUFFER_TOO_SMALL",
             "ACCESS_DENIED", "NOT_SUPPORTED", "INVALID_PARAMETER",
             "UNSUCCESSFUL"}

Init ==
    /\ phase = "absent"
    /\ deviceObject = FALSE /\ symlink = FALSE
    /\ initializing = FALSE /\ majorFunction = FALSE /\ unloadPending = FALSE
    /\ lock = NoThread /\ cf8 = OsAddress
    /\ handle = [t \in Threads |-> FALSE]
    /\ pc = [t \in Threads |-> "user"]
    /\ req = [t \in Threads |-> NoRequest]
    /\ status = [t \in Threads |-> "none"]
    /\ bytesReturned = [t \in Threads |-> 0]
    /\ value = [t \in Threads |-> NoValue]
    /\ buffer = [t \in Threads |-> NoValue]
    /\ mapped = [t \in Threads |-> NoPage]
    /\ reply = [t \in Threads |-> NoReply]

-----------------------------------------------------------------------------
(***************************************************************************)
(* DriverEntry.  A failed entry discards the driver object; a device or a  *)
(* link left behind would stay, and make every later load fail.            *)
(***************************************************************************)
EntryCreateDevice ==
    /\ phase = "absent"
    /\ lock' = NoThread                      \* KeInitializeSpinLock
    /\ \/ /\ ~deviceObject                   \* IoCreateDevice succeeds
          /\ deviceObject' = TRUE /\ initializing' = TRUE
          /\ phase' = "created"
       \/ UNCHANGED <<phase, deviceObject, initializing>>
    /\ UNCHANGED <<symlink, majorFunction, unloadPending, cf8, handle, pc, req,
                   localVars, reply>>

\* MUTANT: DO_DEVICE_INITIALIZING is cleared before the dispatch table is set.
SymbolicLinkClearsInitializing ==
    /\ phase = "created"
    /\ symlink' = TRUE /\ phase' = "linked" /\ initializing' = FALSE
    /\ UNCHANGED <<deviceObject, majorFunction, unloadPending, portVars, handle,
                   pc, req, localVars, reply>>

\* MUTANT: the failure path returns without IoDeleteDevice.
SymbolicLinkLeaksDevice ==
    /\ phase = "created"
    /\ \/ symlink' = TRUE /\ phase' = "linked"
       \/ phase' = "absent" /\ UNCHANGED symlink
    /\ UNCHANGED <<deviceObject, initializing, majorFunction, unloadPending,
                   portVars, handle, pc, req, localVars, reply>>

EntrySymbolicLink ==
    /\ phase = "created"
    /\ \/ /\ ~symlink
          /\ symlink' = TRUE /\ phase' = "linked"
          /\ UNCHANGED <<deviceObject, initializing>>
       \/ /\ deviceObject' = FALSE           \* IoDeleteDevice on failure
          /\ initializing' = FALSE /\ phase' = "absent"
          /\ UNCHANGED symlink
    /\ UNCHANGED <<majorFunction, unloadPending, portVars, handle, pc, req,
                   localVars, reply>>

EntrySetDispatch ==
    /\ phase = "linked"
    /\ majorFunction' = TRUE
    /\ phase' = "dispatch"
    /\ UNCHANGED <<deviceObject, symlink, initializing, unloadPending,
                   portVars, handle, pc, req, localVars, reply>>

EntryClearInitializing ==
    /\ phase = "dispatch"
    /\ initializing' = FALSE
    /\ phase' = "loaded"
    /\ UNCHANGED <<deviceObject, symlink, majorFunction, unloadPending,
                   portVars, handle, pc, req, localVars, reply>>

\* The device is referenced by every open handle and every IRP in progress.
Referenced == \E t \in Threads : handle[t] \/ pc[t] \in DriverPcs

RequestUnload ==
    /\ phase = "loaded" /\ ~unloadPending
    /\ unloadPending' = TRUE
    /\ UNCHANGED <<phase, deviceObject, symlink, initializing, majorFunction,
                   portVars, handle, pc, req, localVars, reply>>

\* HwmonUnload, called once nothing references the device.
UnloadDeleteLink ==
    /\ phase = "loaded" /\ unloadPending /\ ~Referenced
    /\ symlink' = FALSE
    /\ phase' = "unlinked"
    /\ UNCHANGED <<deviceObject, initializing, majorFunction, unloadPending,
                   portVars, handle, pc, req, localVars, reply>>

UnloadDeleteDevice ==
    /\ phase = "unlinked"
    /\ deviceObject' = FALSE
    /\ majorFunction' = FALSE /\ unloadPending' = FALSE  \* driver object gone
    /\ phase' = "absent"
    /\ UNCHANGED <<symlink, initializing, portVars, handle, pc, req,
                   localVars, reply>>

-----------------------------------------------------------------------------
(***************************************************************************)
(* Callers and I/O manager.                                                *)
(***************************************************************************)
Goto(t, l) == pc' = [pc EXCEPT ![t] = l]

OpenDevice(t) ==
    /\ pc[t] = "user" /\ ~handle[t]
    /\ deviceObject /\ symlink /\ ~initializing /\ ~unloadPending
    /\ Goto(t, "create")
    /\ UNCHANGED <<entryVars, portVars, handle, req, localVars, reply>>

CloseHandle(t) ==
    /\ pc[t] = "user" /\ handle[t]
    /\ Goto(t, "close")
    /\ UNCHANGED <<entryVars, portVars, handle, req, localVars, reply>>

\* METHOD_BUFFERED: the input is copied into the system buffer.
IssueIoctl(t, r) ==
    /\ pc[t] = "user" /\ handle[t]
    /\ Goto(t, "ioctl")
    /\ req' = [req EXCEPT ![t] = r]
    /\ buffer' = [buffer EXCEPT ![t] = InputBytes]
    /\ UNCHANGED <<entryVars, portVars, handle, status, bytesReturned, value,
                   mapped, reply>>

\* The caller looks at the result; the dead frame is forgotten.
Collect(t) ==
    /\ pc[t] = "done"
    /\ Goto(t, "user")
    /\ req' = [req EXCEPT ![t] = NoRequest]
    /\ reply' = [reply EXCEPT ![t] = NoReply]
    /\ status' = [status EXCEPT ![t] = "none"]
    /\ bytesReturned' = [bytesReturned EXCEPT ![t] = 0]
    /\ value' = [value EXCEPT ![t] = NoValue]
    /\ buffer' = [buffer EXCEPT ![t] = NoValue]
    /\ UNCHANGED <<entryVars, portVars, handle, mapped>>

\* Other kernel code (the HAL) runs a configuration cycle of its own.  It
\* does not know this driver's private spin lock.
OsConfigCycle ==
    /\ OsUsesPorts
    /\ cf8' = OsAddress
    /\ UNCHANGED <<entryVars, lock, handle, pc, req, localVars, reply>>

-----------------------------------------------------------------------------
(***************************************************************************)
(* The dispatch routines.                                                  *)
(***************************************************************************)
\* MUTANT: the IRP is never passed to IoCompleteRequest.
CreateCloseForgetsIrp(t) ==
    /\ pc[t] \in {"create", "close"}
    /\ Goto(t, "lost")
    /\ UNCHANGED <<entryVars, portVars, handle, req, localVars, reply>>

HwmonCreateClose(t) ==
    /\ pc[t] \in {"create", "close"}
    /\ handle' = [handle EXCEPT ![t] = (pc[t] = "create")]
    /\ Goto(t, "user")
    /\ UNCHANGED <<entryVars, portVars, req, localVars, reply>>

\* MUTANT: only the input length is checked.
TooSmallInputOnly(r) == r.inLen < InSize[r.code]

TooSmall(r) == r.inLen < InSize[r.code] \/ r.outLen < OutSize[r.code]

MsrIsWhitelisted(msr) == msr \in MsrWhitelist

\* ReadPcieConfigDwordEcam's test of its parameters, base and bus not among
\* them.
BadEcamParameter(r) == r.offset > 4092 \/ r.device > 31 \/ r.function > 7

\* Where the switch of HwmonDeviceControl leads, and the status it sets when
\* it breaks out before touching hardware.
Refusal(r) ==
    IF r.code \notin IoctlCodes THEN "INVALID_DEVICE_REQUEST"
    ELSE IF TooSmall(r) THEN "BUFFER_TOO_SMALL"
    ELSE IF r.code = "READ_MSR" /\ ~MsrIsWhitelisted(r.msr) THEN "ACCESS_DENIED"
    ELSE IF r.code = "READ_PCIE_ECAM" /\ BadEcamParameter(r)
         THEN "INVALID_PARAMETER"
    ELSE "none"

Routine == [READ_MSR |-> "rdmsr", READ_PCI_CONFIG |-> "acquire",
            READ_PCIE_ECAM |-> "map"]

HwmonDeviceControl(t) ==
    /\ pc[t] = "ioctl"
    /\ LET refusal == Refusal(req[t]) IN
       /\ status' = [status EXCEPT ![t] = refusal]
       /\ Goto(t, IF refusal = "none" THEN Routine[req[t].code] ELSE "complete")
    /\ bytesReturned' = [bytesReturned EXCEPT ![t] = 0]
    /\ UNCHANGED <<entryVars, portVars, handle, req, value, buffer, mapped,
                   reply>>

\* __readmsr under SEH: #GP becomes STATUS_NOT_SUPPORTED.
SafeReadMsr(t) ==
    /\ pc[t] = "rdmsr"
    /\ \/ /\ req[t].msr \in ImplementedMsrs
          /\ value' = [value EXCEPT ![t] = MsrValue(req[t].msr)]
          /\ status' = [status EXCEPT ![t] = "SUCCESS"]
          /\ Goto(t, "copy")
       \/ /\ req[t].msr \notin ImplementedMsrs
          /\ status' = [status EXCEPT ![t] = "NOT_SUPPORTED"]
          /\ Goto(t, "complete")
          /\ UNCHANGED value
    /\ UNCHANGED <<entryVars, portVars, handle, req, bytesReturned, buffer,
                   mapped, reply>>

-----------------------------------------------------------------------------
(***************************************************************************)
(* ReadPciConfigDwordLegacy: configuration mechanism #1.                   *)
(***************************************************************************)
\* MUTANT: the port pair is used without waiting for the lock.
AcquireWithoutWaiting(t) ==
    /\ pc[t] = "acquire"
    /\ lock' = t
    /\ Goto(t, "out")
    /\ UNCHANGED <<entryVars, cf8, handle, req, localVars, reply>>

AcquirePciConfigLock(t) ==
    /\ pc[t] = "acquire"
    /\ lock = NoThread
    /\ lock' = t
    /\ Goto(t, "out")
    /\ UNCHANGED <<entryVars, cf8, handle, req, localVars, reply>>

WriteAddressPort(t) ==
    /\ pc[t] = "out"
    /\ cf8' = PortAddress(req[t])
    /\ Goto(t, "in")
    /\ UNCHANGED <<entryVars, lock, handle, req, localVars, reply>>

\* The data port answers for whatever address the other port holds NOW.
ReadDataPort(t) ==
    /\ pc[t] = "in"
    /\ value' = [value EXCEPT ![t] = ConfigDword(cf8)]
    /\ Goto(t, "release")
    /\ UNCHANGED <<entryVars, portVars, handle, req, status, bytesReturned,
                   buffer, mapped, reply>>

\* MUTANT: KeReleaseSpinLock is missing.
ReleaseForgotten(t) ==
    /\ pc[t] = "release"
    /\ status' = [status EXCEPT ![t] = "SUCCESS"]
    /\ Goto(t, "copy")
    /\ UNCHANGED <<entryVars, portVars, handle, req, bytesReturned, value,
                   buffer, mapped, reply>>

ReleasePciConfigLock(t) ==
    /\ pc[t] = "release"
    /\ lock' = NoThread
    /\ status' = [status EXCEPT ![t] = "SUCCESS"]
    /\ Goto(t, "copy")
    /\ UNCHANGED <<entryVars, cf8, handle, req, bytesReturned, value, buffer,
                   mapped, reply>>

-----------------------------------------------------------------------------
(***************************************************************************)
(* ReadPcieConfigDwordEcam, once its parameters have been accepted.        *)
(***************************************************************************)
MapEcamPage(t) ==
    /\ pc[t] = "map"
    /\ \/ /\ mapped' = [mapped EXCEPT ![t] = EcamPage(req[t])]
          /\ Goto(t, "read")
          /\ UNCHANGED status
       \/ /\ status' = [status EXCEPT ![t] = "UNSUCCESSFUL"]
          /\ Goto(t, "complete")
          /\ UNCHANGED mapped
    /\ UNCHANGED <<entryVars, portVars, handle, req, bytesReturned, value,
                   buffer, reply>>

\* The volatile read, or the exception handler's first statement.
ReadMapped(t) ==
    /\ pc[t] = "read"
    /\ \/ /\ value' = [value EXCEPT ![t] =
                          EcamDword(mapped[t], DwordAligned(req[t].offset))]
          /\ status' = [status EXCEPT ![t] = "SUCCESS"]
       \/ /\ status' = [status EXCEPT ![t] = "UNSUCCESSFUL"]
          /\ UNCHANGED value
    /\ Goto(t, "unmap")
    /\ UNCHANGED <<entryVars, portVars, handle, req, bytesReturned, buffer,
                   mapped, reply>>

\* MUTANT: the exception handler returns without MmUnmapIoSpace.
UnmapOnSuccessOnly(t) ==
    /\ pc[t] = "unmap"
    /\ mapped' = IF status[t] = "SUCCESS" THEN [mapped EXCEPT ![t] = NoPage]
                 ELSE mapped
    /\ Goto(t, IF status[t] = "SUCCESS" THEN "copy" ELSE "complete")
    /\ UNCHANGED <<entryVars, portVars, handle, req, status, bytesReturned,
                   value, buffer, reply>>

UnmapEcamPage(t) ==
    /\ pc[t] = "unmap"
    /\ mapped' = [mapped EXCEPT ![t] = NoPage]
    /\ Goto(t, IF status[t] = "SUCCESS" THEN "copy" ELSE "complete")
    /\ UNCHANGED <<entryVars, portVars, handle, req, status, bytesReturned,
                   value, buffer, reply>>

-----------------------------------------------------------------------------
\* MUTANT: sizeof(in) where sizeof(out) is meant.
CopyOutInputSize(t) ==
    /\ pc[t] = "copy"
    /\ buffer' = [buffer EXCEPT ![t] = value[t]]
    /\ bytesReturned' = [bytesReturned EXCEPT ![t] = InSize[req[t].code]]
    /\ Goto(t, "complete")
    /\ UNCHANGED <<entryVars, portVars, handle, req, status, value, mapped,
                   reply>>

\* RtlCopyMemory(buffer, &out, sizeof(out)); bytesReturned = sizeof(out).
CopyOut(t) ==
    /\ pc[t] = "copy"
    /\ buffer' = [buffer EXCEPT ![t] = value[t]]
    /\ bytesReturned' = [bytesReturned EXCEPT ![t] = OutSize[req[t].code]]
    /\ Goto(t, "complete")
    /\ UNCHANGED <<entryVars, portVars, handle, req, status, value, mapped,
                   reply>>

\* IoStatus and IoCompleteRequest: the I/O manager copies back Information
\* bytes of the system buffer.
CompleteRequest(t) ==
    /\ pc[t] = "complete"
    /\ reply' = [reply EXCEPT ![t] =
                    [status |-> status[t], info |-> bytesReturned[t],
                     data |-> IF bytesReturned[t] = 0 THEN NoValue
                              ELSE buffer[t]]]
    /\ Goto(t, "done")
    /\ UNCHANGED <<entryVars, portVars, handle, req, localVars>>

-----------------------------------------------------------------------------
EntryStep ==
    \/ EntryCreateDevice \/ EntrySymbolicLink \/ EntrySetDispatch
    \/ EntryClearInitializing \/ UnloadDeleteLink \/ UnloadDeleteDevice

\* What the driver's code does on thread t.
DriverStep(t) ==
    \/ HwmonCreateClose(t) \/ HwmonDeviceControl(t) \/ SafeReadMsr(t)
    \/ AcquirePciConfigLock(t) \/ WriteAddressPort(t) \/ ReadDataPort(t)
    \/ ReleasePciConfigLock(t)
    \/ MapEcamPage(t) \/ ReadMapped(t) \/ UnmapEcamPage(t)
    \/ CopyOut(t) \/ CompleteRequest(t)

CallerStep(t) ==
    \/ OpenDevice(t) \/ CloseHandle(t) \/ Collect(t)
    \/ \E r \in Requests : IssueIoctl(t, r)

Next ==
    \/ EntryStep
    \/ RequestUnload
    \/ OsConfigCycle
    \/ \E t \in Threads : DriverStep(t) \/ CallerStep(t)

Spec == Init /\ [][Next]_vars

\* A thread inside the driver keeps running: nothing in it waits but the spin
\* lock, which is not fair (WF, not SF).  Callers and loader owe nothing.
FairSpec == Spec /\ \A t \in Threads : WF_vars(DriverStep(t))

-----------------------------------------------------------------------------
(***************************************************************************)
(* Properties.                                                             *)
(***************************************************************************)
Values == {NoValue} \cup ({"msr"} \X Nat) \cup ({"config"} \X PortAddresses)
          \cup ({"ecam"} \X EcamPages \X UINT16)

Infos == {0, 4, 8}

\* Types of the driver's state and of what is handed back to callers.
TypeOK ==
    /\ phase \in {"absent", "created", "linked", "dispatch", "loaded",
                  "unlinked"}
    /\ deviceObject \in BOOLEAN /\ symlink \in BOOLEAN
    /\ initializing \in BOOLEAN /\ majorFunction \in BOOLEAN
    /\ unloadPending \in BOOLEAN
    /\ lock \in Threads \cup {NoThread}
    /\ cf8 \in PortAddresses
    /\ handle \in [Threads -> BOOLEAN]
    /\ pc \in [Threads -> {"user", "done"} \cup DriverPcs]
    /\ req \in [Threads -> Requests \cup {NoRequest}]
    /\ \A t \in Threads : pc[t] \in IoctlPcs \cup {"done"} => req[t] \in Requests
    /\ status \in [Threads -> Statuses]
    /\ bytesReturned \in [Threads -> Infos]
    /\ value \in [Threads -> Values]
    /\ buffer \in [Threads -> Values \cup {InputBytes}]
    /\ mapped \in [Threads -> EcamPages \cup {NoPage}]
    /\ reply \in [Threads -> [status : Statuses, info : Infos,
                              data : Values \cup {InputBytes}]]

\* The abstract service as this driver implements it: a call is pending from
\* the time it is issued until IoCompleteRequest.
Service == INSTANCE HwmonService WITH
    pending <- [t \in Threads |-> IF pc[t] \in IoctlPcs THEN req[t]
                                  ELSE NoRequest]

\* Whatever other callers do between a caller's __outdword and __indword,
\* the result it is given is one its OWN request permits: its own dword or
\* MSR, or an error with no bytes of the system buffer copied back; never
\* what another caller asked for.  Only code outside the driver that uses the
\* ports, if there is any, can put its dword in between.
AnswerIsOwn ==
    \A t \in Threads : pc[t] = "done" => reply[t] \in Permitted(req[t])

\* Every behaviour of the driver is one of the abstract service: each call
\* gets one reply, and one that hwmon_ioctl.h and README.md promise for it
\* or that Deviations names; the driver deviates in no other way.
ImplementsService == Service!ServiceSpec

\* No IRP is dispatched to a driver that is not entirely there: from the
\* moment an open can succeed to the end of the last IRP, the device exists,
\* the dispatch table is filled in and DriverUnload has not begun.
IrpHasDriver ==
    \A t \in Threads : handle[t] \/ pc[t] \in DriverPcs =>
        deviceObject /\ majorFunction /\ ~initializing /\ phase = "loaded"

\* Neither a failed DriverEntry nor HwmonUnload leaves anything behind: no
\* device object, no symbolic link, no page of device memory mapped, no owner
\* of the spin lock that the next DriverEntry will initialise again.
AbsentIsClean ==
    phase = "absent" =>
        /\ ~deviceObject /\ ~symlink /\ ~majorFunction
        /\ lock = NoThread
        /\ \A t \in Threads : mapped[t] = NoPage

\* Device memory is mapped for one IOCTL only: an IRP that has been completed
\* or that is being answered holds no mapping, whether or not the read faulted.
NoMappingOutlivesIoctl ==
    \A t \in Threads : mapped[t] # NoPage => pc[t] \in {"read", "unmap"}

\* An IOCTL that does not go through the spin lock is always completed, and
\* one that has the lock is too, whatever the other callers do.
IrpCompletes ==
    \A t \in Threads :
        /\ (pc[t] \in DriverPcs /\ pc[t] # "ioctl" /\ pc[t] # "acquire")
              ~> (pc[t] \in {"user", "done"})
        /\ (pc[t] = "ioctl" /\ req[t].code # "READ_PCI_CONFIG")
              ~> (pc[t] = "done")

\* The port pair is never wedged: while threads spin on g_PciConfigLock, one
\* of them gets it.
PortPairNeverWedged ==
    (\E t \in Threads : pc[t] = "acquire")
        ~> (\E t \in Threads : pc[t] \in PciSection)
=============================================================================
