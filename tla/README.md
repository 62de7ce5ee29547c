# A TLA+ verification of hardware-monitor

This directory holds TLA+ models of the hardware-monitor repository: what its
kernel driver, its VT-x skeleton, its application with all its collectors and
its UEFI application do, the properties that make them correct, TLC
configurations that check the properties on small instances, and TLAPS proofs of
the safety properties for every instance. Paths below are relative to the repository's root.

## The system

| Part | Source | State | Operations |
|---|---|---|---|
| Kernel driver | `driver/hwmon_driver.c`, `driver/hwmon_ioctl.h` | device object, symbolic link, dispatch table, `g_PciConfigLock`, the CF8/CFC port pair, per IRP: status, length, system buffer, ECAM mapping | `DriverEntry`, `HwmonUnload`, create/close, three IOCTLs (MSR, legacy configuration dword, ECAM dword) |
| VT-x skeleton | `driver/hv/hwmon_hv.c`, `hwmon_hv_asm.asm` | `g_HvState`, CR4.VMXE and VMX mode of each processor, the VMCS, guest registers on the host stack | `HvTryLaunch`, `SetupVmcsFields`, `HvExitHandler`, `HvHandleVmExit` |
| Firmware tables | `src/platform/windows/firmware_table.c` | heap blocks | probe / allocate / fetch for SMBIOS, the list of ACPI signatures, one ACPI table |
| ACPI | `src/firmware/acpi.c` | `AcpiData`, cursor into a table | `acpi_collect`, `parse_fadt/madt/mcfg/hpet` |
| SMBIOS | `src/firmware/smbios.c` | `SmbiosData`, cursor | `smbios_collect`, `smbios_next_structure`, `smbios_get_string`, `parse_*` |
| Memory | `src/memory/memory_info.c` | `MemoryInfo`, cursor | `memory_info_collect`, a second SMBIOS walk |
| PCI | `src/platform/windows/pci_enum_windows.c` | `PciEnumeration`, CfgMgr32 handles | `pci_enumerate`, `collect_resources` |
| Storage | `src/platform/windows/storage_enum_windows.c` | `StorageEnumeration`, handles | `storage_enumerate`, `query_device` |
| CPU | `src/cpu/*.c`, `asm/primitives.asm` | none kept | `cpu_id_collect`, `cpu_telemetry_sample` |
| Application | `src/main.c`, `src/output/*.c` | the collected records | runs the collectors in order, prints |
| UEFI application | `uefi/HwMonPkg/...` | memory map buffer | prints CPU, memory map, ACPI, SMBIOS |

The native application is sequential: `main` calls one collector after the
other, and each one asks the platform layer for bytes or handles. It does not
call the driver. The driver is concurrent: any number of threads have IRPs in
it, on any processor, while the system loads and unloads it. The VT-x skeleton
is one kernel thread, the processor it happens to run on, and the exit handler
that interrupts that processor once it is a guest.

What is hard here, and what correctness means:

* **driver** - two callers of the CF8/CFC pair; an open during `DriverEntry`; an
  unload with IRPs outstanding; a faulting MSR or page. Each caller must get the
  answer to its own request, or an error, exactly once; nothing may be leaked or
  left locked.
* **VT-x** - each of a dozen instructions may fail, with a different amount to
  undo; VMX is per processor and the thread is not; three files must agree on
  the order of fifteen registers.
* **firmware parsers** - every size and byte comes from firmware, is announced
  once, delivered once and claimed once more inside the data. No read outside
  the bytes delivered, no field trusted from bytes not checked, always an end.
* **PCI** - a chain of handles, each freed once, whichever call fails.
* **CPU** - leaves and instructions that only some processors have; topology
  lists that may not end; counters that wrap; two clocks that cannot be read at
  the same instant. No unsupported instruction, no percentage outside 0..100, no
  frequency above the real one.
* **storage** - two handles per drive, offsets in a buffer that is never cleared,
  a stop rule that trusts drive numbers to be contiguous.
* **application** - seven collectors, four of which can fail; what the report
  prints must have been established or be marked, and the program must end.
* **UEFI** - a memory map that changes between the two calls that fetch it;
  configuration tables in any order; lengths the firmware is trusted with.

The hazards, each with its line and the properties that guard it, are listed in
`PROJECT.json`.

## Modules

| Module | Models | Notes |
|---|---|---|
| `HwmonIoctl` | `driver/hwmon_ioctl.h` | requests, sizes; the replies a request is promised (`Promised`) and where the driver is known to differ (`Deviations`) |
| `HwmonService` | what the driver promises | abstract: a call is pending, gets one reply it may get, is consumed |
| `HwmonDriver` | `driver/hwmon_driver.c` | one step per access another thread can see |
| `HvLaunch` | `driver/hv` | thread, processors and exit handler |
| `AcpiCollect` | `acpi.c` + `firmware_table.c` | bytes are chosen when they are read |
| `SmbiosWalk` | `smbios.c`, `memory_info.c` + `firmware_table.c` | a table is a byte sequence; both walks run over it |
| `PciEnumerate` | `pci_enum_windows.c` | devices, chains of descriptors, handles |
| `CpuIdentify` | `cpu_id.c`, `asm/primitives.asm` | registers are chosen when they are read |
| `CpuTelemetry` | `cpu_telemetry.c` | counters modulo `COUNTER_MOD`, true time as a ghost |
| `StorageEnumerate` | `storage_enum_windows.c` | drives, handles, descriptor buffer |
| `HwmonApp` | `main.c`, `logger.c`, `report.c` | EXTENDS the four modules above and runs them in `main`'s order |
| `UefiInventory` | `HwMonUefi.c` | the application and the callbacks that interrupt it |
| `MC*` | - | values of the constants for TLC |
| `*Proofs` | - | lemmas and theorems about the module of that name; `PciEnumerateProofs` and `HwmonCollectorProofs` hold the lemmas about the four collectors `HwmonApp` extends |

Conventions. `pc` names the statement a thread executes next; the other
variables have the names of the C variables. A value read from hardware or
firmware is represented by the place it was read from, so that "the right value"
can be stated. Operators marked `MUTANT` are plausible mistakes in the operator
that follows; they are not part of the model, and each shows that a property
would notice the mistake.

**HwmonIoctl.** `Promised(r)` is written from `hwmon_ioctl.h` and the
repository's `README.md`, not from the driver: an ECAM read is described by a
base and a bus of one segment of the constant `Mcfg` and any offset in 0..4095.
The driver differs in three ways, `Deviations(r)`. It refuses the offsets
4093..4095, although `hwmon_ioctl.h:57` says "0-4095: full PCIe extended config
space". It does not compare base and bus with the MCFG, although
`hwmon_ioctl.h:53-54` wants them from one of its segments and `README.md:62-63`
says "no arbitrary physical-memory access"; the comment at `hwmon_driver.c:82-84`
admits that it trusts the caller. And a legacy read may hand back the dword other
kernel code has addressed, since the driver's lock is its own. `Permitted` is the
union of promises and deviations: a reply that is neither is an error.

**HwmonDriver.** `phase` is the progress of `DriverEntry` / `HwmonUnload`
(absent, created, linked, dispatch, loaded, unlinked). `HwmonDeviceControl` is
the switch with all its early exits; the three routines are split at each shared
access: `AcquirePciConfigLock`, `WriteAddressPort`, `ReadDataPort`,
`ReleasePciConfigLock` for the legacy path, `MapEcamPage`, `ReadMapped`,
`UnmapEcamPage` for ECAM, `SafeReadMsr` for MSRs; `CopyOut` and
`CompleteRequest` end the IRP. The I/O manager's side is external: no open while
`DO_DEVICE_INITIALIZING` is set or an unload is pending, no `DriverUnload` while
the device is referenced, METHOD_BUFFERED copying. `OsConfigCycle` is other
kernel code that uses CF8/CFC under a lock of its own; the constant
`OsUsesPorts` says if there is any.

**HvLaunch.** `HvTryLaunch` is a sequence of steps that may each fail into the
`vmxoff` / `free` tail the code repeats on every failure path. The five failure
paths of the code that contain `__vmx_off` and `MmFreeContiguousMemory` are the
same two actions here. The VMCS keeps its launch state, `GUEST_RIP` and one set
of controls, which stands for the exit and the entry controls (both ask for bit
9 and are adjusted by the same function). A clone that executes a VMX
instruction exits; so may other code on the virtualised processor (`OsExit`).
INT 3 in the handler is the location `trap`, from which nothing continues.

**AcpiCollect.** `needed`, `rawSize` and `table.length` are the three sizes that
may disagree. `readTo` and `parsedTo` record the highest byte read and the
highest byte a parser relied on. `heap` holds the blocks that are allocated.

**SmbiosWalk.** The constant `Tables` is a set of byte sequences with a Length
field. `smbios_next_structure`, `smbios_get_string` and `copy_string_field` are
operators on the bytes; a loop of the C code that looks for the first position
with some property is the minimum of the set of such positions. The step from
`smbios_collect` to `memory_info_collect` leaves out the collectors in between,
which share nothing with them.

**PciEnumerate.** Runs inside `HwmonApp`, and alone (`PciSpec`) in the run about
`badFree`. `open` is the set of descriptor handles that are open;
`badFree` records that one was freed that was not.

**CpuIdentify.** `executed` is the history of CPUID leaves and XGETBV. What a
topology leaf describes is a list of levels of any length, chosen when the leaf
is first asked; since the loop reads at most `MAX_SUBLEAF + 1` of them, a list
that never ends cannot be told from one that is longer than that. The
vendor and brand characters, the family arithmetic and the feature bits nothing
depends on are left out.

**CpuTelemetry.** `spent`, `now` and `ticks` are ghosts: what really elapsed.
The code sees only the counters, modulo `COUNTER_MOD`. Before each reading any
time in `Delays` may pass. A performance counter that fails or does not advance
is an outcome of its own. Percentages and rates are kept as fractions; rounding
in floating point is left out.

**StorageEnumerate.** `drives` are the numbers in use, `refused` those that
exist but did not open. Offsets are arbitrary in every descriptor: those of a
descriptor shorter than its structure are read from the uncleared buffer.
`StringEnd` is where `strnlen` stops, with the wrap-around its bound would have.

**HwmonApp.** One variable, `appPc`, is `main`'s position. CPU identification,
telemetry, PCI and storage run step by step; SMBIOS, ACPI and memory, whose own
modules check them in detail, are a step that succeeds or fails. Which fields of
a table or device were there is chosen when the report looks at them
(`detail`). `known` holds the report items
that were established; each `report_print_*_section` is the set of items it
prints, paired with whether as a value: some only if they are available
(`Guarded`), the others whatever the record holds (`AsIs`). A finished
collector's variables go back to their initial values, as its frame is gone.

**UefiInventory.** `CallbackChangesMap` is any firmware callback between the
two `GetMemoryMap` calls; `AllocatePool` itself may add two descriptors.
`EntryCount` is computed modulo `UINTN_MOD`, as the unsigned C expression is.
Tables that firmware points to are there; eight bytes from outside the XSDT, if
they are taken for an address, point anywhere, and reading through them goes on
or ends at the location `fault`.

## Runs

| Run | Configuration | Checks |
|---|---|---|
| `driver` | 2 threads, 13 requests, one MCFG segment, other kernel code on the ports, fairness | `TypeOK`, `AnswerIsOwn`, `IrpHasDriver`, `AbsentIsClean`, `NoMappingOutlivesIoctl`, `ImplementsService` (refinement of `HwmonService`), `IrpCompletes`, `PortPairNeverWedged` |
| `hv_launch` | 2 processors, 2 calls, thread may move | `TypeOK`, `CleanOnFalse`, `RegionsOutliveVmx`, `GuestUntouched`, `CpuidExitResumes` |
| `hv_clone` | caller pinned | `CloneReturnsFromSetup` is **violated** |
| `hv_migration` | caller not pinned | `NoUndefinedOpcode` is **violated** |
| `acpi_collect` | sizes around every limit, arrays of 1 or 2 | `TypeOK`, `NoOverread`, `HeapBalanced`, `OnlyCheckedTablesReported`, `Terminates` |
| `smbios_walk` | 4320 tables, arrays of 1, strings of at most 2 characters | `TypeOK`, `NoOverread`, `HeapBalanced`, `StringsAreOwn`, `WalksAgree` |
| `smbios_malformed` | the same | `MalformedNotTrusted` is **violated** |
| `pci_double_free` | up to 4 devices with 4 descriptors, arrays of 2 | `NoDoubleFree` is **violated** |
| `app` | leaves around every limit, 9 topologies, counters modulo 16, up to 3 PCI devices with 3 descriptors for arrays of 2, up to 3 drives for 2 places | `InstructionsGuarded`, `TopologyFromLastLevel`, `UtilizationIsTrue`, `FrequencyTrusted`, `PciTypeOK`, `NoHandleLeak`, `EveryDeviceAccountedFor`, `HandlesClosed`, `StringsFromThisQuery`, `DrivesReported`, `ReportComplete`, `ProgramEnds` |
| `report_fabricated` | the same | `NothingFabricated` is **violated** |
| `uefi` | 206 configuration tables, up to 4 changes of the map, XSDT lengths 0..63 | `MapBlockUsedRight`, `HeadroomSuffices`, `NewestTableChosen`, `XsdtWalkGuarded`, `UefiReturns` |
| `uefi_short_xsdt` | the same | `XsdtWalkInside` is **violated** |

Why the bounds are enough. Driver: conflicts on the lock, the ports and the
device's references are between two threads, and the requests take every branch
of the switch, one byte on either side of each length and of the offset limits of
driver and header, a bus inside and one outside the segment; the
theorems below remove the bound for the safety properties. VT-x: one processor
to launch on and one to be moved to; the second call meets what a failed first
one left. ACPI: the sizes lie on both sides of 36, 44, 48, 53 and 44 + 16 n.
SMBIOS: first structures of types 0, 17 and 19 with each kind of string table
(absent, one byte, unterminated, empty, one and two strings), followed by
another structure and a tail that is missing, cut off or well-formed. PCI: more
devices and descriptors than the arrays hold, and chains that end before. CPU:
maximum leaves just below and at 1, 7, 0BH, 1FH and their extended counterparts,
topology lists as long as the loop reads, one longer, and two that go on (repeating
a level, alternating); the bound of 16 is scaled to 3.
Telemetry: every counter with and without a wrap-around, idle on either side of
the total. Storage: every subset of three drive numbers for an array of two.
UEFI: growth by one, two and more descriptors (the headroom is two), every order
of up to four of the five kinds of configuration table entry; a UINTN of 6 bits
shows the wrap-around that one of 64 bits has, if not its 2^61 entries: for a
Length below 36 no passing property claims anything but the checksums.
`CHECK_DEADLOCK FALSE` appears where the code ends (the collectors) or stops the
machine (VT-x); the driver must never deadlock and is checked for it.

Fairness. A thread inside the driver keeps running (`WF` of its next driver
step): the driver waits for nothing but the spin lock. The lock itself is not
fair, so a single caller may starve and only "some waiting caller gets the lock"
(`PortPairNeverWedged`) is claimed; `IrpCompletes` covers IRPs that hold the
lock or do not need it. Callers and the system owe nothing. In `HvLaunch` the
thread and the exit handler keep running; in `AcpiCollect` and `HwmonApp` the
one thread there is does. In `UefiInventory` the application keeps running
whenever no callback does; callbacks are not obliged to come.

### What the violated properties show

* `CloneReturnsFromSetup` - `GUEST_RIP` is the return address of
  `RtlCaptureContext`, inside `SetupVmcsFields`. After a successful VMLAUNCH the
  guest runs the rest of that function again; its first `__vmx_vmwrite` exits,
  the handler does not know the reason and executes INT 3.
* `NoUndefinedOpcode` - nothing keeps the caller of `HvTryLaunch` on one
  processor, which the header takes for granted.
* `MalformedNotTrusted` - `smbios_collect` stores a structure's fields before it
  finds out that the structure's string table does not end.
* `NoDoubleFree` - `collect_resources` frees the last descriptor handle twice
  when the chain ends before `PCI_MAX_RESOURCES` ranges have been found.
* `NothingFabricated` - `README.md:7-8` says the program is "explicit whenever
  something is genuinely unavailable rather than fabricating a value". In the
  run's trace CPUID leaf 1 is missing, `cpu_id_collect` returns true all the same
  (`cpu_id.h:76-79`: "fail closed rather than fabricate data"), and the report
  prints family, model, stepping, extended maximum and processor count as 0 and
  the features as NONE. Taken item by item, the property also fails for
  * the SMT width of a topology without an SMT level, and the package width of a
    list of levels that was cut off at the bound of the loop, which is stored as
    available where the comment at `cpu_id.c:174` says "fail closed on
    malformed/looping data";
  * the number of memory regions, the chassis type, size and speed of a memory
    device;
  * bus, device and function of PCI devices and display controllers, and the
    revision of a class;
  * the bus type of a drive ("OTHER"), and "No physical drives found" when drive
    0 exists and was refused; the comment at `storage_enum_windows.c:76-77`
    speaks of a missing drive only.

  It holds of every other item.
* `XsdtWalkInside` - `PrintAcpi` does not compare the XSDT's Length with the
  header. Below 36 the count wraps around and the walk leaves the table; a Length
  of 0 even passes the checksum. `README.md:66-68` says that firmware structures
  are bounds-checked. (`PrintSmbios` prints an entry point's fields even if its
  checksum is wrong.)

### What the passing properties take for granted

Beside those, the passing properties say what is left, with its limit:

* `ImplementsService` and `AnswerIsOwn`: the replies of `Promised` and of the
  three `Deviations`, and nothing else. The first two deviations are
  disagreements between the driver and the lines quoted above; they pass because
  they are named, not because the documents allow them.
* `TopologyFromLastLevel`: right for every list that ends within the bound; of a
  longer one only that what is reported was read from it (see
  `NothingFabricated`).
* `DrivesReported`: a drive that fits is missing only behind a number that is not
  in use or did not open (`storage_enum_windows.c:163`).
* `ReportComplete`: what was established is printed, and a collector that failed
  is in the log. That nothing else is printed is
  `NothingFabricated`.
* `XsdtWalkGuarded`, `UefiReturns`: bounds and return for an XSDT whose Length
  covers its header; for a shorter one only that its checksum was right.
* `FrequencyTrusted`: never too high. A preemption may make it too low.
* `StringsFromThisQuery`: the bytes of drive strings; not stale offsets that lie
  inside the answer, nor the bus type.
* `WalksAgree`, `NoOverread`: both walks treat a structure without strings by the
  same special case (`smbios.c:72`); whether it is the right rule is not decided.

Also met while modelling: `cpu_telemetry_sample` sleeps for two windows where its
header says one; `try_nvme_identify` is compiled out, because its `#ifdef` names
a type; the second handle of `query_device` asks for GENERIC_READ where
`storage.h:46-49` speaks of zero access rights; the branches of `main` for a
failure of `cpu_id_collect` or `storage_enumerate` cannot run.

## Proofs

Every safety invariant a passing run checks, and the refinement of the driver's
abstract service, is also a theorem: TLC shows it on the small instance, the
proof for every value of the constants that satisfies the module's `ASSUME`.
The assumptions are evaluated by TLC in each run.

| Module | Theorems | Inductive invariant |
|---|---|---|
| `HwmonDriverProofs` | `TypeCorrect`, `LifecycleSafe` (`IrpHasDriver`), `MappingsEnd` (`NoMappingOutlivesIoctl`), `NothingLeftBehind` (`AbsentIsClean`), `AnswersAreOwn`, `DriverImplementsService` (`ImplementsService`) | `TypeInv`, `LifeInv`, `AnswerInv`, `ReplyInv` |
| `HvLaunchProofs` | `LaunchTypeCorrect`, `FailureIsClean` (`CleanOnFalse`), `BlockOutlivesVmx` (`RegionsOutliveVmx`), `PinnedNeverFaults` (`NoUndefinedOpcode`), `CpuidExitTransparent` (`GuestUntouched`) | `LaunchInv`, `OnItsProcessor`, `RegistersKept` |
| `AcpiCollectProofs` | `AcpiTypeCorrect`, `ReadsInBounds` (`NoOverread`), `BlocksFreedOnce` (`HeapBalanced`), `ReportIsChecked` (`OnlyCheckedTablesReported`) | `AcpiInv` |
| `SmbiosWalkProofs` | `SmbiosTypeCorrect`, `WalksStayInside` (`NoOverread`), `TableFreedOnce` (`HeapBalanced`), `StringsBelong` (`StringsAreOwn`), `WalksSeeTheSame` (`WalksAgree`) | `SmbiosInv` |
| `HwmonAppProofs`, on the lemmas of `HwmonCollectorProofs` and `PciEnumerateProofs` | `CpuidGuarded` (`InstructionsGuarded`), `TopologyRight` (`TopologyFromLastLevel`), `UtilizationRight` (`UtilizationIsTrue`), `FrequencyRight` (`FrequencyTrusted`), `PciTypeCorrect` (`PciTypeOK`), `HandlesNotLeaked` (`NoHandleLeak`), `NoDeviceLost` (`EveryDeviceAccountedFor`), `DriveHandlesClosed` (`HandlesClosed`), `DriveStringsInside` (`StringsFromThisQuery`), `DrivesLostBehindGapOnly` (`DrivesReported`), `NothingEstablishedIsLost` (`ReportComplete`) | `AppInv`, from `CpuInv`, `TelInv`, `PciInv` and `StInv` |
| `UefiInventoryProofs` | `MapBlockSafe` (`MapBlockUsedRight`), `HeadroomCoversTwo` (`HeadroomSuffices`), `NewestIsChosen` (`NewestTableChosen`), `XsdtGuarded` (`XsdtWalkGuarded`) | `UefiInv` |

Where no property is named, the theorem is about the module's `TypeOK`.

**Driver** (any set of threads, of well-formed requests and of implemented
MSRs, any MCFG table, with or without other code on the ports). `TypeOK` alone is not inductive: the routine an IRP is in must match its
control code (`Routed`). `LifeInv` ties `phase` to the device object, link, flag
and dispatch table (`PhaseInv`) and the owner of the lock to its place in the
configuration routine (`LockInv`), and says that a referenced device belongs to
a loaded driver; an absent driver therefore has no IRP, no owner of the lock and
no mapping. `AnswerInv` follows one request through its routine: between the two
port accesses CF8 holds the address of the lock's owner or the one other kernel
code left, after the read `value` holds that thread's answer or that code's
dword, and what is in the system buffer when `bytesReturned` is not 0 is that
value. `DriverImplementsService` maps each step: accepting an IOCTL is a call,
`CompleteRequest` is the reply, which `AnswerInv` shows to be permitted (promised,
or one of the three deviations), the caller's return consumes it, and everything
else stutters. With `OsUsesPorts = FALSE` the third deviation is empty and every
legacy read is answered with its own dword.

**VT-x** (any set of processors, any capability report in which the bits that
must be 1 are among those that may be, any number of calls). `LaunchInv` says
that at most one processor is in VMX operation, that none is outside the part of
`HvTryLaunch` between VMXON and VMXOFF, and that the block is allocated exactly
there and around it. So the clean-up is right although the thread may move:
VMXOFF on another processor is an undefined opcode and the function never gets
to the free. `PinnedNeverFaults` assumes `CallerPinned`; `hv_migration` is the
counterexample without it. `RegistersKept` compares the saved registers with
those at the exit, place by place through push, C handler and pop.

**ACPI** (any sizes, any array limits, any entries). `BufferUse` is why no read
is out of bounds: `table.length` is cut down to `rawSize` before anything relies
on it. `Cursor` carries the parsers' own comparison with it. `Counted` and
`LastOne` say which summary a record belongs to while later tables arrive.

**SMBIOS** (any set of tables of any bytes and any Length, array limits of any
size, strings of at least one character). `Limits` bounds both walks. `Visited`
states the chain of structures without reference to time: when the first walk
has ended, what it has seen contains offset 0 and is closed under "next
structure" (`Complete`). `Regions` says that the second walk is on that chain if
it was given the same bytes, which gives `WalksAgree`. For `StringsAreOwn`,
`OwnStrings` adds that a structure's strings end before the structure that
follows, including the one not visited yet. What `smbios_get_string` computes is
shown by induction on the string's number: `GoodStart` says that before string
number k there are exactly k - 1 NULs after the formatted area and no two of
them adjacent, so the search has not left the string table. The induction uses a
least counterexample (`LeastNatural`, from the well-foundedness of <), which also
shows that the recursive function has a solution (`StringStartsUnfold`).

**PCI** (any machine, any array limits). `OpenHandles` lists the open handles by
place, `DeviceCount` balances the counters, `RoomChecked` remembers the
comparisons that were made before a store. Its invariant is part of `AppInv`.

**Application and collectors** (any maximum leaves, topology lists of any length,
counters of any width in which one window wraps around at most once, any drives,
offsets and answer sizes). Each collector has an invariant over its own variables, proved
without reference to `main`; `AppInv` says that they hold whichever collector
runs, since `main` only restarts or ends them, and `Reported` that each section
is printed after its collector has established or logged its outcome. For the
topology, the widths after n subleaves are those of the first n levels, which is
the whole list only if that ends within the bound.

**UEFI** (any memory map, changes, configuration table and XSDT, UINTN of any
width). For an XSDT that covers its header the count is that of its whole entries,
so the index never leaves it and `fault` is not reached; of a shorter one nothing
is proved but the checksums. `Growth` relates the size passed to the second call
to the probed one, `Scanned` says that the choice is the best of what the scan has seen so far.

Only model-checked: liveness (`IrpCompletes`, `PortPairNeverWedged`,
`CpuidExitResumes`, `Terminates`, `ProgramEnds`, `UefiReturns`), since fairness
and ENABLED are out of the proof system's reach. The violated properties
are false and stay with the runs that refute them; `NoUndefinedOpcode` is proved
under the hypothesis that the caller is pinned.

## What is not modelled

Segment descriptor decoding and the register values of the VMCS; hardware-ID
string parsing; UUID formatting and the arithmetic on memory sizes; vendor and
brand characters, family and model arithmetic and most feature bits of CPUID;
trimming of drive strings and bus names; the wording and layout of the report
and of log lines (the log's texts are short literals, and the list of feature
names is shorter than its buffer); `PrintCpuInfo` and the fields `PrintSmbios`
prints. None of these keeps state or decides what happens next. The hypervisor
driver's entry point only prints and never calls `HvTryLaunch`. Build scripts
and the test of the primitives are no part of the running system.

## Plan

1. Done: the driver with its abstract service and first theorems, VT-x launch,
   ACPI, SMBIOS with memory information, PCI; then CPU identification and
   telemetry, storage, their composition in `main` with logger and report, and
   the UEFI application.
2. Done: the theorems listed under Proofs.
3. Left: theorems about the steps themselves, such as that a reply, a report
   record or a visited structure is never taken back once it is there.
