------------------------------ MODULE HwmonApp -----------------------------
(***************************************************************************)
(* main (src/main.c): the collectors one after another, then the report.   *)
(* cpu_id_collect, cpu_telemetry_sample, pci_enumerate and                 *)
(* storage_enumerate run in full; smbios_collect and acpi_collect, which   *)
(* SmbiosWalk and AcpiCollect model, and memory_info_collect are one step  *)
(* each that succeeds or fails.  Of a collector's result main keeps which  *)
(* items of the report it really established; the fields of a table or of  *)
(* a device are chosen when the report looks at them.  When a collector    *)
(* has returned, its frame is gone and its variables are back at their     *)
(* initial values.                                                         *)
(*                                                                         *)
(* cpu_id_collect, cpu_telemetry_sample and storage_enumerate return false *)
(* for a null pointer only, so main's branches for that never run.         *)
(***************************************************************************)
EXTENDS CpuIdentify, CpuTelemetry, PciEnumerate, StorageEnumerate

VARIABLES
    appPc,
    backend,    \* g_backend is set
    minLevel,   \* g_min_level
    invariant,  \* cpu.features.invariant_tsc
    known,      \* report items a collector has established
    logged,     \* collectors whose failure the log speaks of
    detail,     \* what the section just printed found established besides
    shown       \* that section: pairs of an item and whether as a value

mainVars   == <<appPc, backend, minLevel, invariant, known, logged, detail, shown>>
loggerVars == <<backend, minLevel>>
reportVars == <<detail, shown>>
collectorVars == <<cpuVars, telVars, pciVars, stVars>>
vars       == <<mainVars, collectorVars>>

LOG_INFO    == 2
LOG_WARNING == 3

Init ==
    /\ appPc = "logger" /\ backend = FALSE /\ minLevel = LOG_INFO
    /\ invariant = FALSE /\ known = {} /\ logged = {} /\ detail = {} /\ shown = {}
    /\ CpuInit /\ TelInit /\ PciInit /\ StInit

Stage(from, to) == appPc = from /\ appPc' = to

\* log_write: nothing without a backend or below the minimum level.
log_write(level, who) ==
    logged' = IF backend /\ level >= minLevel THEN logged \cup {who} ELSE logged

-----------------------------------------------------------------------------
\* MUTANT: only errors are to be logged.
SetLoggerErrorsOnly ==
    /\ Stage("logger", "cpu")
    /\ backend' = TRUE /\ minLevel' = LOG_WARNING + 1
    /\ UNCHANGED <<invariant, known, logged, reportVars, collectorVars>>

SetLogger ==
    /\ Stage("logger", "cpu")
    /\ backend' = TRUE /\ minLevel' = LOG_INFO
    /\ UNCHANGED <<invariant, known, logged, reportVars, collectorVars>>

RunCpuId ==
    /\ appPc = "cpu" /\ CpuNext
    /\ UNCHANGED <<mainVars, telVars, pciVars, stVars>>

\* Leaf 0 gives the vendor; without leaf 1 neither family, model, stepping
\* and features nor the extended maximum are asked for.  The width of the
\* package is that of the last level, which the loop has seen if the list of
\* levels was not cut off.  AVX is usable if the OS saves its state.
CpuIdReturns ==
    /\ Stage("cpu", "telemetry") /\ cpuPc = "done"
    /\ invariant' = cpu.invariant_tsc
    /\ known' = {"vendor"}
          \cup (IF cpu.maxBasic >= 1 THEN {"family", "features", "extended"}
                ELSE {})
          \cup (IF cpu.logical THEN {"logical"} ELSE {})
          \cup (IF cpu.brand THEN {"brand"} ELSE {})
          \cup (IF cpu.topology.available THEN {"topology"} ELSE {})
          \cup (IF cpu.topology.available /\ Len(topo) <= MAX_SUBLEAF + 1
                THEN {"package"} ELSE {})
          \cup (IF cpu.topology.smt > 0 THEN {"smt"} ELSE {})
          \cup (IF cpu.avx /\ cpu.avxOs THEN {"avx"} ELSE {})
    /\ cpuPc' = "leaf0" /\ cpu' = EmptyIdentity
    /\ topo' = NoLevels /\ leaf' = 0 /\ subleaf' = 0 /\ widths' = NoWidths
    /\ executed' = {}
    /\ UNCHANGED <<loggerVars, logged, reportVars, telVars, pciVars, stVars>>

RunTelemetry ==
    /\ appPc = "telemetry" /\ TelNext(invariant)
    /\ UNCHANGED <<mainVars, cpuVars, pciVars, stVars>>

TelemetryReturns ==
    /\ Stage("telemetry", "smbios") /\ telPc = "done"
    /\ known' = known
          \cup (IF tel.utilization_available THEN {"usage"} ELSE {})
          \cup (IF tel.frequency_available THEN {"frequency"} ELSE {})
    /\ invariant' = FALSE                  \* not used again
    /\ telPc' = "times0" /\ times' = NoTimes /\ spent' = NoTimes
    /\ now' = 0 /\ clocks' = NoClocks /\ ticks' = 0 /\ tel' = EmptyTelemetry
    /\ UNCHANGED <<loggerVars, logged, reportVars, cpuVars, pciVars, stVars>>

\* The collectors that are one step: a result, or a warning and the record
\* cleared.
Collect(who, next) ==
    /\ Stage(who, next)
    /\ \/ known' = known \cup {who} /\ UNCHANGED logged
       \/ log_write(LOG_WARNING, who) /\ UNCHANGED known
    /\ UNCHANGED <<loggerVars, invariant, reportVars, collectorVars>>

CollectSmbios == Collect("smbios", "acpi")
CollectAcpi   == Collect("acpi", "pci")
CollectMemory == Collect("memory", "storage")

RunPci ==
    /\ appPc = "pci" /\ PciNext
    /\ UNCHANGED <<mainVars, cpuVars, telVars, stVars>>

\* The devices it stored, or a warning and the record cleared.
PciReturns ==
    /\ Stage("pci", "memory")
    /\ \/ /\ pciPc = "done"
          /\ known' = known \cup {"pci"}
                       \cup (IF device_count > 0 THEN {"device"} ELSE {})
          /\ UNCHANGED logged
       \/ /\ pciPc = "failed"
          /\ log_write(LOG_WARNING, "pci")
          /\ UNCHANGED known
    /\ pciPc' = "start" /\ hdi' = FALSE
    /\ pciIndex' = 0 /\ device_count' = 0 /\ truncated' = 0 /\ skipped' = 0
    /\ logConf' = FALSE /\ prevResDes' = LogConf /\ nextResDes' = LogConf
    /\ open' = {} /\ badFree' = FALSE
    /\ resource_count' = 0 /\ interrupt' = FALSE
    /\ UNCHANGED <<loggerVars, invariant, reportVars, cpuVars, telVars, stVars>>

RunStorage ==
    /\ appPc = "storage" /\ StNext
    /\ UNCHANGED <<mainVars, cpuVars, telVars, pciVars>>

StorageReturns ==
    /\ Stage("storage", "report_cpu") /\ stPc = "done"
    /\ known' = known
          \cup (IF devices # <<>> THEN {"drive"} ELSE {})
          \cup (IF drives = {} THEN {"no drives"} ELSE {})
    /\ stPc' = "start" /\ drives' = {} /\ refused' = {} /\ drive' = 0
    /\ handles' = {} /\ badClose' = FALSE /\ returned' = 0 /\ readTo' = 0
    /\ capacity' = FALSE /\ devices' = <<>>
    /\ UNCHANGED <<loggerVars, invariant, logged, reportVars, cpuVars, telVars,
                   pciVars>>

-----------------------------------------------------------------------------
(***************************************************************************)
(* The report.  Given the items that are available, a section prints some  *)
(* as a value only if they are (else UNKNOWN, another marker or nothing)   *)
(* and others as they are, 0 or NONE if no collector filled them in.  Of   *)
(* several devices of a kind one stands for all.                           *)
(***************************************************************************)
Guarded(items, available) == {<<i, i \in available>> : i \in items}
AsIs(items)               == {<<i, TRUE>> : i \in items}

\* "family" is family, model and stepping, "extended" the extended maximum;
\* "package" and "smt" the two widths printed with the topology, "avx" the
\* AVX names without the marker that the OS has not enabled them.
report_print_cpu_section(available) ==
    AsIs({"vendor", "family", "extended", "logical", "features"})
       \cup Guarded({"brand", "topology", "avx"}, available)
       \cup (IF "topology" \in available THEN AsIs({"package", "smt"}) ELSE {})

report_print_telemetry_section(available) ==
    Guarded({"usage", "frequency", "temperature", "power"}, available)

report_print_memory_section(available) ==
    Guarded({"ram"}, available) \cup AsIs({"regions"})

\* "module" is a memory device that is populated, "names" its strings.
report_print_firmware_section(available) ==
    IF "smbios" \notin available THEN {<<"smbios", FALSE>>}
    ELSE AsIs({"smbios", "chassis"}) \cup Guarded({"strings", "uuid"}, available)
            \cup (IF "module" \in available
                  THEN AsIs({"module", "size", "speed"})
                          \cup Guarded({"names"}, available)
                  ELSE {})

report_print_acpi_section(available) ==
    AsIs({"acpi"}) \cup Guarded({"parsed"}, available)

\* "address" is device and function number; the revision is printed with
\* the class.
report_print_pci_section(available) ==
    AsIs({"pci"})
       \cup (IF "device" \in available
             THEN AsIs({"device", "bus", "address"})
                     \cup Guarded({"class", "description", "interrupt"}, available)
             ELSE {})
       \cup (IF "class" \in available THEN AsIs({"revision"}) ELSE {})

\* "display" is a device whose class is available and is 03.
report_print_gpu_section(available) ==
    AsIs({"pci"})
       \cup (IF "display" \in available
             THEN AsIs({"display", "bus", "address"})
                     \cup Guarded({"description"}, available)
             ELSE {})

report_print_storage_section(available) ==
    IF "drive" \notin available THEN AsIs({"no drives"})
    ELSE AsIs({"drive", "bus type"}) \cup Guarded({"strings", "capacity"}, available)

\* What a section may find in the record of a collector that succeeded;
\* `parts' belong to `whole' and are looked at only if that is there.
Details(who, items) == IF who \in known THEN SUBSET items ELSE {{}}

WithParts(sets, whole, parts) ==
    {d \in sets : d \cap parts # {} => whole \in d}

PrintSection(from, to, details) ==
    /\ Stage(from, to)
    /\ detail' \in details
    /\ UNCHANGED <<loggerVars, invariant, known, logged, collectorVars>>

\* What main hands to every section: the records, here what is known of them.
Available == known \cup detail'

PrintCpu ==
    /\ PrintSection("report_cpu", "report_telemetry", {{}})
    /\ shown' = report_print_cpu_section(Available)

PrintTelemetry ==
    /\ PrintSection("report_telemetry", "report_memory", {{}})
    /\ shown' = report_print_telemetry_section(Available)

\* The memory collector succeeded because of one of the two.
PrintMemory ==
    /\ PrintSection("report_memory", "report_firmware",
          IF "memory" \in known THEN SUBSET {"ram", "regions"} \ {{}} ELSE {{}})
    /\ shown' = report_print_memory_section(Available)

PrintFirmware ==
    /\ PrintSection("report_firmware", "report_acpi",
          WithParts(Details("smbios", {"chassis", "strings", "uuid", "module",
                                       "size", "speed", "names"}),
                    "module", {"size", "speed", "names"}))
    /\ shown' = report_print_firmware_section(Available)

PrintAcpi ==
    /\ PrintSection("report_acpi", "report_pci", Details("acpi", {"parsed"}))
    /\ shown' = report_print_acpi_section(Available)

PrintPci ==
    /\ PrintSection("report_pci", "report_gpu",
          WithParts(Details("device", {"bus", "address", "class", "revision",
                                       "description", "interrupt"}),
                    "class", {"revision"}))
    /\ shown' = report_print_pci_section(Available)

PrintGpu ==
    /\ PrintSection("report_gpu", "report_storage",
          WithParts(Details("device", {"display", "bus", "address", "description"}),
                    "display", {"bus", "address", "description"}))
    /\ shown' = report_print_gpu_section(Available)

PrintStorage ==
    /\ PrintSection("report_storage", "exit",
                    Details("drive", {"bus type", "strings", "capacity"}))
    /\ shown' = report_print_storage_section(Available)

Next ==
    \/ SetLogger
    \/ RunCpuId \/ CpuIdReturns \/ RunTelemetry \/ TelemetryReturns
    \/ CollectSmbios \/ CollectAcpi \/ RunPci \/ PciReturns \/ CollectMemory
    \/ RunStorage \/ StorageReturns
    \/ PrintCpu \/ PrintTelemetry \/ PrintMemory \/ PrintFirmware
    \/ PrintAcpi \/ PrintPci \/ PrintGpu \/ PrintStorage

Spec == Init /\ [][Next]_vars

\* The program is one thread; it takes its next step while there is one.
FairSpec == Spec /\ WF_vars(Next)

-----------------------------------------------------------------------------
(***************************************************************************)
(* Properties.                                                             *)
(***************************************************************************)
\* The frequency is reported for the processor identified in this run only.
FrequencyTrusted == FrequencyNeverTooHigh(invariant)

\* Nothing that was found out is lost on its way to the report: when a
\* section has been printed, every item of it that a collector established
\* is there as a value; and by then each of the collectors that may fail has
\* either filled its record or left a line in the log, which was set up
\* before any of them.
ReportComplete ==
    /\ \A i \in detail : <<i, TRUE>> \in shown
    /\ \A s \in shown : s[1] \in known \cup detail => s[2]
    /\ shown # {} => {"smbios", "acpi", "pci", "memory"} \subseteq known \cup logged

\* An item printed as a value was established by its collector, or the log
\* says that this collector failed.
CollectorOf(item) == IF item = "regions" THEN "memory" ELSE item

Founded(item) == item \in known \cup detail \/ CollectorOf(item) \in logged

\* README.md:6-8: the program is "explicit whenever something is genuinely
\* unavailable rather than fabricating a value"; cpu_id.h:76-79 and the
\* comment at cpu_id.c:174 say that the processor's identity and topology
\* "fail closed".  Every value printed was established by a collector.
NothingFabricated ==
    \A s \in shown : s[2] => Founded(s[1])

\* main returns, whatever the processor, the clocks and the drives answer.
ProgramEnds == <>(appPc = "exit")
=============================================================================
