----------------------------- MODULE HwmonIoctl -----------------------------
(***************************************************************************)
(* The wire protocol of driver/hwmon_ioctl.h, shared by the abstract       *)
(* service and by the driver: control codes, buffer sizes, the fields of   *)
(* the input structures and the place in hardware each request names.      *)
(*                                                                         *)
(* A value read from hardware is represented by the place it was read      *)
(* from, so that "the caller got the dword it asked for" can be said.      *)
(***************************************************************************)
EXTENDS Integers

CONSTANTS
    Threads,          \* threads of the system that may use the device
    Requests,         \* the DeviceIoControl calls they may make
    NoRequest,        \* no call in progress
    Mcfg,             \* the segments of this machine's ACPI MCFG table
    OsUsesPorts,      \* does other kernel code drive CF8/CFC as well?
    OsAddress         \* what such code leaves in CF8

IoctlCodes == {"READ_MSR", "READ_PCI_CONFIG", "READ_PCIE_ECAM"}

\* Unsigned integers of the widths the structures use.
Below(limit) == {n \in Nat : n < limit}
UINT8  == Below(256)
UINT16 == Below(65536)

\* A call: control code, the two buffer lengths and the input structure's
\* fields (those the code does not use are arbitrary).
RequestType ==
    [code : IoctlCodes \cup {"OTHER"}, inLen : Nat, outLen : Nat,
     msr : Nat, base : Nat, bus : UINT8, device : UINT8,
     function : UINT8, offset : UINT16]

ASSUME RequestsAssumption ==
    /\ Requests \subseteq RequestType
    /\ \A r \in Requests : r.code = "READ_PCI_CONFIG" => r.offset \in UINT8
    /\ NoRequest \notin Requests

ASSUME McfgAssumption ==
    Mcfg \subseteq [base : Nat, startBus : UINT8, endBus : UINT8]

\* What CF8 can address: bus, device, function and dword.
PortAddresses == UINT8 \X Below(32) \X Below(8) \X UINT8

ASSUME PortsAssumption == OsUsesPorts \in BOOLEAN /\ OsAddress \in PortAddresses

(***************************************************************************)
(* sizeof of the packed input and output structures.                       *)
(***************************************************************************)
InSize == [c \in IoctlCodes |->
              CASE c = "READ_MSR" -> 4
                [] c = "READ_PCI_CONFIG" -> 4
                [] c = "READ_PCIE_ECAM" -> 13]

OutSize == [c \in IoctlCodes |-> IF c = "READ_MSR" THEN 8 ELSE 4]

MsrWhitelist == {16, 231, 232, 408, 412, 418, 433}

\* offset & ~3
DwordAligned(offset) == offset - (offset % 4)

\* Mechanism #1 address: 5 bits of device, 3 of function, dword offset.
PortAddress(r) ==
    <<r.bus, r.device % 32, r.function % 8, DwordAligned(r.offset)>>

\* The page that holds one function's extended configuration space.
EcamPage(r) == <<r.base, r.bus, r.device, r.function>>

NoValue           == <<"none">>
MsrValue(m)       == <<"msr", m>>
ConfigDword(a)    == <<"config", a>>
EcamDword(pg, o)  == <<"ecam", pg, o>>

\* The one value that answers request r.
Answer(r) ==
    CASE r.code = "READ_MSR"        -> MsrValue(r.msr)
      [] r.code = "READ_PCI_CONFIG" -> ConfigDword(PortAddress(r))
      [] r.code = "READ_PCIE_ECAM"  -> EcamDword(EcamPage(r),
                                                 DwordAligned(r.offset))

\* The page that holds base, bus is configuration space of some segment.
InConfigSpace(base, bus) ==
    \E s \in Mcfg : s.base = base /\ bus \in s.startBus .. s.endBus

\* The ECAM reads that hwmon_ioctl.h describes: base and bus of one MCFG
\* segment, any byte offset of the 4096 of extended configuration space.
DocumentedEcam(r) ==
    /\ InConfigSpace(r.base, r.bus)
    /\ r.device <= 31 /\ r.function <= 7 /\ r.offset <= 4095

\* A result handed to the caller: final status, the number of bytes copied
\* back, and those bytes.
Success(r, v) == [status |-> "SUCCESS", info |-> OutSize[r.code], data |-> v]
Data(r)       == Success(r, Answer(r))
Error(s)      == [status |-> s, info |-> 0, data |-> NoValue]

\* What a configuration read gets instead if other kernel code, which does
\* not know the driver's lock, has used the ports in between.
Disturbed(r) == IF r.code = "READ_PCI_CONFIG" /\ OsUsesPorts
                THEN {ConfigDword(OsAddress)} ELSE {}

BadLength(r) == r.inLen < InSize[r.code] \/ r.outLen < OutSize[r.code]

\* The replies that header and README.md promise for request r.
\* NOT_SUPPORTED and UNSUCCESSFUL are the hardware's choice (#GP on the MSR;
\* no mapping or a fault in the page); every other error is decided by the
\* request alone.
Promised(r) ==
    IF r.code \notin IoctlCodes
    THEN {Error("INVALID_DEVICE_REQUEST")}
    ELSE IF BadLength(r)
    THEN {Error("BUFFER_TOO_SMALL")}
    ELSE CASE r.code = "READ_MSR" ->
                 IF r.msr \in MsrWhitelist
                 THEN {Data(r), Error("NOT_SUPPORTED")}
                 ELSE {Error("ACCESS_DENIED")}
           [] r.code = "READ_PCI_CONFIG" -> {Data(r)}
           [] r.code = "READ_PCIE_ECAM" ->
                 IF DocumentedEcam(r)
                 THEN {Data(r), Error("UNSUCCESSFUL")}
                 ELSE {Error("INVALID_PARAMETER")}

\* Where the driver is known not to keep that promise.
\* hwmon_ioctl.h:57 gives the offset as "0-4095: full PCIe extended config
\* space"; the driver refuses the last three.  hwmon_ioctl.h:53-54 and
\* README.md:62-63 ("no arbitrary physical-memory access") want base and bus
\* of an MCFG segment; the driver takes them on the caller's word.  And its
\* lock keeps only its own callers from the ports.
Deviations(r) ==
    IF r.code \notin IoctlCodes \/ BadLength(r) THEN {}
    ELSE IF r.code # "READ_PCIE_ECAM" THEN {Success(r, v) : v \in Disturbed(r)}
    ELSE (IF r.offset \in 4093 .. 4095 THEN {Error("INVALID_PARAMETER")} ELSE {})
         \cup (IF /\ ~InConfigSpace(r.base, r.bus)
                  /\ r.device <= 31 /\ r.function <= 7 /\ r.offset <= 4092
               THEN {Data(r), Error("UNSUCCESSFUL")} ELSE {})

Permitted(r) == Promised(r) \cup Deviations(r)

NoReply == Error("none")
=============================================================================
