--------------------------- MODULE HwmonAppProofs ---------------------------
(***************************************************************************)
(* Proofs about main: what HwmonCollectorProofs and PciEnumerateProofs     *)
(* show of a collector holds throughout the program, and the report is     *)
(* complete whatever the hardware answers.                                 *)
(***************************************************************************)
EXTENDS HwmonApp, HwmonCollectorProofs, PciEnumerateProofs

Collecting == {"cpu", "telemetry", "smbios", "acpi", "pci", "memory", "storage"}
Reporting  == {"report_cpu", "report_telemetry", "report_memory", "report_firmware",
               "report_acpi", "report_pci", "report_gpu", "report_storage", "exit"}

\* Outside cpu_telemetry_sample its frame is as at the call.
Collectors ==
    /\ CpuInv /\ TelInv(invariant) /\ PciInv /\ StInv
    /\ appPc # "telemetry" => TelInit

\* Why nothing goes unmentioned: from its own step on each collector that may
\* fail has filled its record or is in the log, the logger being set before
\* any of them.
Accounted(who) == who \in known \cup logged

Reported ==
    /\ appPc \in {"logger"} \cup Collecting \cup Reporting
    /\ appPc # "logger" => backend /\ minLevel = LOG_INFO
    /\ appPc \in {"acpi", "pci", "memory", "storage"} \cup Reporting => Accounted("smbios")
    /\ appPc \in {"pci", "memory", "storage"} \cup Reporting => Accounted("acpi")
    /\ appPc \in {"memory", "storage"} \cup Reporting => Accounted("pci")
    /\ appPc \in {"storage"} \cup Reporting => Accounted("memory")
    /\ appPc \notin Reporting => shown = {} /\ detail = {}
    /\ ReportComplete

AppInv == Collectors /\ Reported

-----------------------------------------------------------------------------
(***************************************************************************)
(* The collectors.                                                         *)
(***************************************************************************)
\* Before the first step of the sampling it does not matter whether the TSC
\* is invariant.
LEMMA TelFresh ==
    ASSUME TelInit
    PROVE  TelInv(invariant)
<1>1. TelTypes /\ Utilization
    BY TelStart DEF TelInv
<1>2. ~tel.frequency_available /\ telPc = "times0"
    BY DEF TelInit, EmptyTelemetry
<1> QED BY <1>1, <1>2 DEF TelInv, Frequency, FrequencyNeverTooHigh

\* The sampling keeps its invariant while invariant_tsc stays as it is.
LEMMA TelKept ==
    ASSUME TelInv(invariant), TelNext(invariant) \/ UNCHANGED telVars,
           UNCHANGED invariant
    PROVE  TelInv(invariant)'
<1>1. PICK inv : inv = invariant
    OBVIOUS
<1>2. TelInv(inv) /\ (TelNext(inv) \/ UNCHANGED telVars)
    BY <1>1
<1>3. TelInv(inv)'
    BY <1>2, TelStep
<1>4. inv = invariant'
    BY <1>1
<1> QED BY <1>3, <1>4 DEF TelInv, Frequency, FrequencyNeverTooHigh

\* The frame of a collector is its own: main's steps leave it alone or put
\* it back to its initial state.
LEMMA CollectorsStart == Init => Collectors
<1> SUFFICES ASSUME Init PROVE Collectors
    OBVIOUS
<1>1. CpuInit /\ TelInit /\ PciInit /\ StInit
    BY DEF Init
<1> QED BY <1>1, CpuStart, TelFresh, PciStart, StStart DEF Collectors

\* Every step of main or of a collector keeps the collectors' invariants.
LEMMA CollectorsStep == Collectors /\ [Next]_vars => Collectors'
<1> SUFFICES ASSUME Collectors, [Next]_vars PROVE Collectors'
    OBVIOUS
<1> USE DEF Stage, mainVars, loggerVars, reportVars, collectorVars
<1>a. ASSUME UNCHANGED telVars, UNCHANGED invariant, appPc' # "telemetry" => appPc # "telemetry"
      PROVE  TelInv(invariant)' /\ (appPc' # "telemetry" => TelInit')
    <2>1. TelInv(invariant)'
        BY <1>a, TelKept DEF Collectors
    <2>2. TelInit => TelInit'
        BY <1>a DEF telVars, TelInit
    <2> QED BY <1>a, <2>1, <2>2 DEF Collectors
<1>b. ASSUME UNCHANGED cpuVars PROVE CpuInv'
    BY <1>b, CpuStep DEF Collectors
<1>c. ASSUME UNCHANGED stVars PROVE StInv'
    BY <1>c, StStep DEF Collectors
<1>d. ASSUME UNCHANGED pciVars PROVE PciInv'
    BY <1>d, PciStep DEF Collectors
<1>1. CASE RunCpuId
    <2>1. CpuInv'
        BY <1>1, CpuStep DEF RunCpuId, Collectors
    <2> QED BY <1>1, <1>a, <1>c, <1>d, <2>1 DEF RunCpuId, Collectors
<1>2. CASE CpuIdReturns
    <2>1. CpuInit'
        BY <1>2, Zenon DEF CpuIdReturns, CpuInit
    <2>2. CpuInv'
        BY <2>1, CpuStart, PTL
    <2>3. TelInit'
        BY <1>2 DEF CpuIdReturns, Collectors, TelInit, telVars
    <2>4. TelInv(invariant)'
        BY <2>3, TelFresh, PTL
    <2> QED BY <1>2, <1>c, <1>d, <2>2, <2>3, <2>4 DEF CpuIdReturns, Collectors
<1>3. CASE RunTelemetry
    <2>1. TelInv(invariant)'
        BY <1>3, TelKept DEF RunTelemetry, Collectors
    <2> QED BY <1>3, <1>b, <1>c, <1>d, <2>1 DEF RunTelemetry, Collectors
<1>4. CASE TelemetryReturns
    <2>1. TelInit'
        BY <1>4, Zenon DEF TelemetryReturns, TelInit
    <2>2. TelInv(invariant)'
        BY <2>1, TelFresh, PTL
    <2> QED BY <1>4, <1>b, <1>c, <1>d, <2>1, <2>2 DEF TelemetryReturns, Collectors
<1>5. CASE RunStorage
    <2>1. StInv'
        BY <1>5, StStep DEF RunStorage, Collectors
    <2> QED BY <1>5, <1>a, <1>b, <1>d, <2>1 DEF RunStorage, Collectors
<1>6. CASE StorageReturns
    <2>1. StInit'
        BY <1>6, Zenon DEF StorageReturns, StInit
    <2>2. StInv'
        BY <2>1, StStart, PTL
    <2> QED BY <1>6, <1>a, <1>b, <1>d, <2>2 DEF StorageReturns, Collectors
<1>7. ASSUME UNCHANGED <<invariant, collectorVars>>,
             appPc' # "telemetry" => appPc # "telemetry"
      PROVE  Collectors'
    BY <1>7, <1>a, <1>b, <1>c, <1>d DEF Collectors
<1>8. CASE SetLogger
    BY <1>8, <1>7 DEF SetLogger
<1>9. CASE CollectSmbios \/ CollectAcpi \/ CollectMemory
    BY <1>9, <1>7 DEF CollectSmbios, CollectAcpi, CollectMemory, Collect
<1>10. CASE PrintCpu \/ PrintTelemetry \/ PrintMemory \/ PrintFirmware
    BY <1>10, <1>7 DEF PrintCpu, PrintTelemetry, PrintMemory, PrintFirmware, PrintSection
<1>11. CASE PrintAcpi \/ PrintPci \/ PrintGpu \/ PrintStorage
    BY <1>11, <1>7 DEF PrintAcpi, PrintPci, PrintGpu, PrintStorage, PrintSection
<1>12. CASE RunPci
    <2>1. PciInv'
        BY <1>12, PciStep DEF RunPci, Collectors
    <2> QED BY <1>12, <1>a, <1>b, <1>c, <2>1 DEF RunPci, Collectors
<1>13. CASE PciReturns
    <2>1. PciInit'
        BY <1>13, Zenon DEF PciReturns, PciInit
    <2>2. PciInv'
        BY <2>1, PciStart, PTL
    <2> QED BY <1>13, <1>a, <1>b, <1>c, <2>2 DEF PciReturns, Collectors
<1>14. CASE UNCHANGED vars
    BY <1>14, <1>7 DEF vars
<1> QED BY <1>1, <1>2, <1>3, <1>4, <1>5, <1>6, <1>8, <1>9, <1>10, <1>11, <1>12,
           <1>13, <1>14 DEF Next
-----------------------------------------------------------------------------
(***************************************************************************)
(* The report.                                                             *)
(***************************************************************************)
\* Printing two sets of items is printing their union.
LEMMA PrintedTogether ==
    ASSUME NEW X, NEW Y, NEW available
    PROVE  /\ AsIs(X) \cup AsIs(Y) = AsIs(X \cup Y) /\ AsIs({}) = {}
           /\ Guarded(X, available) \cup Guarded(Y, available)
                 = Guarded(X \cup Y, available)
           /\ Guarded({}, available) = {}
<1>1. AsIs(X) \cup AsIs(Y) = AsIs(X \cup Y) /\ AsIs({}) = {}
    BY Zenon DEF AsIs
<1>2. Guarded(X, available) \cup Guarded(Y, available) = Guarded(X \cup Y, available)
    BY Zenon DEF Guarded
<1>3. Guarded({}, available) = {}
    BY Zenon DEF Guarded
<1> QED BY <1>1, <1>2, <1>3

\* A section that prints some items only if they are available and others as
\* they are loses none of the details it looks at.
LEMMA SectionComplete ==
    ASSUME NEW asIs, NEW guarded, UNCHANGED <<known, logged>>,
           shown' = AsIs(asIs) \cup Guarded(guarded, Available),
           detail' \subseteq asIs \cup guarded,
           \A who \in {"smbios", "acpi", "pci", "memory"} : Accounted(who)
    PROVE  ReportComplete'
<1>1. ASSUME NEW i \in detail' PROVE <<i, TRUE>> \in shown'
    <2>1. CASE i \in asIs
        BY <2>1 DEF AsIs
    <2>2. CASE i \in guarded
        <3>1. (i \in Available) = TRUE
            BY DEF Available
        <3>2. <<i, i \in Available>> = <<i, TRUE>>
            BY <3>1, Zenon
        <3>3. <<i, i \in Available>> \in Guarded(guarded, Available)
            BY <2>2, Zenon DEF Guarded
        <3> QED BY <3>2, <3>3, Zenon
    <2> QED BY <2>1, <2>2
<1>2. ASSUME NEW s \in shown', s[1] \in known' \cup detail' PROVE s[2]
    <2>1. CASE \E i \in asIs : s = <<i, TRUE>>
        BY <2>1
    <2>2. CASE \E i \in guarded : s = <<i, i \in Available>>
        <3>1. PICK i \in guarded : s = <<i, i \in Available>>
            BY <2>2
        <3>2. PICK b : b = (i \in Available)
            OBVIOUS
        <3>3. s = <<i, b>>
            BY <3>1, <3>2, Zenon
        <3>4. s[1] = i /\ s[2] = b
            BY <3>3
        <3> QED BY <1>2, <3>2, <3>4, Zenon DEF Available
    <2> QED BY <2>1, <2>2, Zenon DEF AsIs, Guarded
<1>3. {"smbios", "acpi", "pci", "memory"} \subseteq known' \cup logged'
    BY DEF Accounted
<1> QED BY <1>1, <1>2, <1>3 DEF ReportComplete

\* Whatever a collector adds to known or to the log, nothing is printed yet.
LEMMA NothingPrinted ==
    ASSUME shown' = {}, detail' = {}
    PROVE  ReportComplete'
BY DEF ReportComplete

\* A collector that succeeds or fails is afterwards known or in the log.
LEMMA CollectAccounts ==
    ASSUME NEW who, NEW next, Collect(who, next), backend, minLevel = LOG_INFO
    PROVE  /\ appPc = who /\ appPc' = next /\ who \in known' \cup logged'
           /\ known \subseteq known' /\ logged \subseteq logged'
           /\ UNCHANGED <<backend, minLevel, shown, detail>>
<1>1. LOG_WARNING >= minLevel
    BY DEF LOG_WARNING, LOG_INFO
<1>2. /\ appPc = who /\ appPc' = next /\ UNCHANGED <<backend, minLevel, shown, detail>>
      /\ \/ known' = known \cup {who} /\ UNCHANGED logged
         \/ log_write(LOG_WARNING, who) /\ UNCHANGED known
    BY Zenon DEF Collect, Stage, loggerVars, reportVars
<1>3. log_write(LOG_WARNING, who) => logged' = logged \cup {who}
    BY <1>1, Zenon DEF log_write
<1> QED BY <1>2, <1>3

\* Nothing has been printed at the start.
LEMMA ReportedStart == Init => Reported
BY DEF Init, Reported, ReportComplete, Reporting, Collecting

\* Each section prints all that was established, and no failure before it
\* went unmentioned.
LEMMA ReportedStep == Reported /\ [Next]_vars => Reported'
<1> SUFFICES ASSUME Reported, [Next]_vars PROVE Reported'
    OBVIOUS
<1> USE DEF Stage, mainVars, loggerVars, reportVars, Collecting, Reporting, Accounted
\* Up to the report.
<1>a. ASSUME appPc \notin Reporting, UNCHANGED reportVars
      PROVE  shown' = {} /\ detail' = {} /\ ReportComplete'
    BY <1>a, NothingPrinted DEF Reported
<1>1. CASE SetLogger
    <2>1. /\ appPc = "logger" /\ appPc' = "cpu" /\ UNCHANGED reportVars
          /\ backend' = TRUE /\ minLevel' = LOG_INFO
        BY <1>1, Zenon DEF SetLogger
    <2> QED BY <1>a, <2>1 DEF Reported
<1>2. CASE RunCpuId \/ RunTelemetry \/ RunPci \/ RunStorage
    BY <1>2 DEF RunCpuId, RunTelemetry, RunPci, RunStorage, Reported, ReportComplete
<1>3. CASE CpuIdReturns
    <2>1. /\ appPc = "cpu" /\ appPc' = "telemetry"
          /\ UNCHANGED reportVars /\ UNCHANGED <<backend, minLevel>>
        BY <1>3, Zenon DEF CpuIdReturns
    <2> QED BY <1>a, <2>1 DEF Reported
<1>4. CASE TelemetryReturns
    <2>1. /\ appPc = "telemetry" /\ appPc' = "smbios" /\ known \subseteq known'
          /\ UNCHANGED reportVars /\ UNCHANGED <<backend, minLevel>>
        BY <1>4, Zenon DEF TelemetryReturns
    <2> QED BY <1>a, <2>1 DEF Reported
<1>5. CASE StorageReturns
    <2>1. /\ appPc = "storage" /\ appPc' = "report_cpu" /\ known \subseteq known'
          /\ UNCHANGED reportVars /\ UNCHANGED <<backend, minLevel, logged>>
        BY <1>5, Zenon DEF StorageReturns
    <2> QED BY <1>a, <2>1 DEF Reported
<1>6. CASE CollectSmbios \/ CollectAcpi \/ CollectMemory
    <2>1. PICK who \in {"smbios", "acpi", "memory"}, next \in {"acpi", "pci", "storage"} :
             /\ Collect(who, next)
             /\ <<who, next>> \in {<<"smbios", "acpi">>, <<"acpi", "pci">>,
                                   <<"memory", "storage">>}
        BY <1>6 DEF CollectSmbios, CollectAcpi, CollectMemory
    <2>2. appPc = who
        BY <2>1, Zenon DEF Collect
    <2>3. backend /\ minLevel = LOG_INFO
        BY <2>1, <2>2 DEF Reported
    <2>4. /\ appPc' = next /\ who \in known' \cup logged'
          /\ known \subseteq known' /\ logged \subseteq logged'
          /\ UNCHANGED <<backend, minLevel, shown, detail>>
        BY <2>1, <2>3, CollectAccounts
    <2>5. ReportComplete' /\ shown' = {} /\ detail' = {}
        BY <1>a, <2>1, <2>2, <2>4
    <2> QED BY <2>1, <2>2, <2>3, <2>4, <2>5 DEF Reported
<1>16. CASE PciReturns
    <2>1. /\ appPc = "pci" /\ appPc' = "memory"
          /\ UNCHANGED reportVars /\ UNCHANGED <<backend, minLevel>>
        BY <1>16, Zenon DEF PciReturns
    <2>2. backend /\ minLevel = LOG_INFO
        BY <2>1 DEF Reported
    <2>3. \/ known \cup {"pci"} \subseteq known' /\ UNCHANGED logged
          \/ log_write(LOG_WARNING, "pci") /\ UNCHANGED known
        BY <1>16, Zenon DEF PciReturns
    <2>4. LOG_WARNING >= minLevel
        BY <2>2 DEF LOG_WARNING, LOG_INFO
    <2>5. log_write(LOG_WARNING, "pci") => logged' = logged \cup {"pci"}
        BY <2>2, <2>4, Zenon DEF log_write
    <2>6. /\ Accounted("pci")' /\ known \subseteq known' /\ logged \subseteq logged'
        BY <2>3, <2>5
    <2> QED BY <1>a, <2>1, <2>2, <2>6 DEF Reported
\* The sections.
<1>b. ASSUME NEW from \in Reporting, NEW to \in Reporting, NEW details,
             PrintSection(from, to, details), ReportComplete'
      PROVE  Reported'
    <2>1. /\ appPc = from /\ appPc' = to
          /\ UNCHANGED <<backend, minLevel, known, logged>>
        BY <1>b, Zenon DEF PrintSection
    <2> QED BY <1>b, <2>1 DEF Reported
<1>c. ASSUME appPc \in Reporting
      PROVE  \A who \in {"smbios", "acpi", "pci", "memory"} : Accounted(who)
    BY <1>c DEF Reported
<1>d. ASSUME NEW from \in Reporting, NEW to \in Reporting, NEW details,
             PrintSection(from, to, details), NEW asIs, NEW guarded,
             shown' = AsIs(asIs) \cup Guarded(guarded, Available),
             detail' \subseteq asIs \cup guarded
      PROVE  Reported'
    <2>1. appPc = from /\ UNCHANGED <<known, logged>>
        BY <1>d, Zenon DEF PrintSection
    <2>2. \A who \in {"smbios", "acpi", "pci", "memory"} : Accounted(who)
        BY <1>c, <1>d, <2>1
    <2> HIDE DEF Accounted
    <2>3. ReportComplete'
        BY <1>d, <2>1, <2>2, SectionComplete
    <2> QED BY <1>b, <1>d, <2>3
<1>7. CASE PrintCpu
    <2>1. /\ PrintSection("report_cpu", "report_telemetry", {{}}) /\ detail' = {}
          /\ shown' = report_print_cpu_section(Available)
        BY <1>7 DEF PrintCpu, PrintSection
    <2>2. \E asIs, guarded : shown' = AsIs(asIs) \cup Guarded(guarded, Available)
        <3>1. CASE "topology" \in Available
            <4> DEFINE a == {"vendor", "family", "extended", "logical", "features"}
                       g == {"brand", "topology", "avx"}
            <4>1. shown' = AsIs(a \cup {"package", "smt"}) \cup Guarded(g, Available)
                <5>1. shown' = AsIs(a) \cup Guarded(g, Available)
                                 \cup AsIs({"package", "smt"})
                    BY <2>1, <3>1, Zenon DEF report_print_cpu_section
                <5>2. AsIs(a) \cup AsIs({"package", "smt"}) = AsIs(a \cup {"package", "smt"})
                    BY PrintedTogether, Zenon
                <5> HIDE DEF a, g
                <5> QED BY <5>1, <5>2
            <4> QED BY <4>1
        <3>2. CASE "topology" \notin Available
            <4>1. shown' = AsIs({"vendor", "family", "extended", "logical", "features"})
                              \cup Guarded({"brand", "topology", "avx"}, Available)
                BY <2>1, <3>2 DEF report_print_cpu_section
            <4> QED BY <4>1
        <3> QED BY <3>1, <3>2
    <2> QED BY <1>d, <2>1, <2>2
<1>8. CASE PrintTelemetry
    <2>1. /\ PrintSection("report_telemetry", "report_memory", {{}}) /\ detail' = {}
          /\ shown' = Guarded({"usage", "frequency", "temperature", "power"}, Available)
        BY <1>8 DEF PrintTelemetry, PrintSection, report_print_telemetry_section
    <2>2. shown' = AsIs({})
                     \cup Guarded({"usage", "frequency", "temperature", "power"}, Available)
        BY <2>1 DEF AsIs
    <2> QED BY <1>d, <2>1, <2>2
<1>9. CASE PrintMemory
    <2>1. PICK details : PrintSection("report_memory", "report_firmware", details)
        BY <1>9 DEF PrintMemory
    <2>2. /\ detail' \subseteq {"regions"} \cup {"ram"}
          /\ shown' = AsIs({"regions"}) \cup Guarded({"ram"}, Available)
        BY <1>9 DEF PrintMemory, PrintSection, report_print_memory_section
    <2> QED BY <1>d, <2>1, <2>2
<1>10. CASE PrintFirmware
    <2> DEFINE all == {"chassis", "strings", "uuid", "module", "size", "speed", "names"}
    <2>1. PICK details :
             /\ PrintSection("report_firmware", "report_acpi", details)
             /\ details = WithParts(Details("smbios", all), "module",
                                    {"size", "speed", "names"})
        BY <1>10, Zenon DEF PrintFirmware
    <2>2. /\ UNCHANGED <<known, logged>> /\ appPc = "report_firmware"
          /\ detail' \in Details("smbios", all)
          /\ detail' \cap {"size", "speed", "names"} # {} => "module" \in detail'
          /\ shown' = report_print_firmware_section(Available)
        <3>1. detail' \in details /\ UNCHANGED <<known, logged>>
            BY <2>1, Zenon DEF PrintSection
        <3>2. appPc = "report_firmware" /\ shown' = report_print_firmware_section(Available)
            BY <1>10, Zenon DEF PrintFirmware, PrintSection
        <3> HIDE DEF all
        <3> QED BY <2>1, <3>1, <3>2 DEF WithParts
    <2>3. CASE "smbios" \notin known
        <3>1. detail' = {}
            BY <2>2, <2>3 DEF Details
        <3>2. "smbios" \notin Available
            BY <2>3, <3>1 DEF Available
        <3>3. shown' = {<<"smbios", FALSE>>}
            BY <2>2, <3>2, Zenon DEF report_print_firmware_section
        <3>4. \A s \in shown' : s[1] = "smbios"
            BY <3>3
        <3>5. \A who \in {"smbios", "acpi", "pci", "memory"} : Accounted(who)
            BY <1>c, <2>2
        <3>6. ReportComplete'
            BY <2>2, <2>3, <3>1, <3>4, <3>5 DEF ReportComplete
        <3> QED BY <1>b, <2>1, <3>6
    <2>4. CASE "smbios" \in known
        <3>1. /\ detail' \subseteq all /\ "smbios" \in Available
              /\ ("module" \in detail' => "module" \in Available)
            BY <2>2, <2>4 DEF Details, Available
        <3>2. CASE "module" \in Available
            <4> DEFINE a1 == {"smbios", "chassis"}
                       a2 == {"module", "size", "speed"}
                       g1 == {"strings", "uuid"}
                       g2 == {"names"}
            <4>a. shown' = AsIs(a1) \cup Guarded(g1, Available)
                              \cup (AsIs(a2) \cup Guarded(g2, Available))
                BY <2>2, <3>1, <3>2, Zenon DEF report_print_firmware_section
            <4>1. shown' = AsIs(a1 \cup a2) \cup Guarded(g1 \cup g2, Available)
                <5> HIDE DEF a1, a2, g1, g2
                <5>1. AsIs(a1) \cup AsIs(a2) = AsIs(a1 \cup a2)
                    BY PrintedTogether, Zenon
                <5>2. Guarded(g1, Available) \cup Guarded(g2, Available)
                        = Guarded(g1 \cup g2, Available)
                    BY Zenon DEF Guarded
                <5> QED BY <4>a, <5>1, <5>2
            <4>2. detail' \subseteq ({"smbios", "chassis"} \cup {"module", "size", "speed"})
                                      \cup ({"strings", "uuid"} \cup {"names"})
                BY <3>1
            <4> QED BY <1>d, <2>1, <4>1, <4>2
        <3>3. CASE "module" \notin Available
            <4>1. shown' = AsIs({"smbios", "chassis"})
                              \cup Guarded({"strings", "uuid"}, Available)
                BY <2>2, <3>1, <3>3 DEF report_print_firmware_section
            <4>2. detail' \subseteq {"smbios", "chassis"} \cup {"strings", "uuid"}
                BY <2>2, <3>1, <3>3
            <4> QED BY <1>d, <2>1, <4>1, <4>2
        <3> QED BY <3>2, <3>3
    <2> QED BY <2>3, <2>4
<1>11. CASE PrintAcpi
    <2>1. PICK details : PrintSection("report_acpi", "report_pci", details)
        BY <1>11 DEF PrintAcpi
    <2>2. /\ detail' \subseteq {"acpi"} \cup {"parsed"}
          /\ shown' = AsIs({"acpi"}) \cup Guarded({"parsed"}, Available)
        BY <1>11 DEF PrintAcpi, PrintSection, report_print_acpi_section, Details
    <2> QED BY <1>d, <2>1, <2>2
<1>12. CASE PrintPci
    <2> DEFINE all == {"bus", "address", "class", "revision", "description", "interrupt"}
    <2>1. PICK details :
             /\ PrintSection("report_pci", "report_gpu", details)
             /\ details = WithParts(Details("device", all), "class", {"revision"})
        BY <1>12, Zenon DEF PrintPci
    <2>2. /\ detail' \in Details("device", all)
          /\ detail' \cap {"revision"} # {} => "class" \in detail'
          /\ shown' = report_print_pci_section(Available)
        <3>1. detail' \in details
            BY <2>1, Zenon DEF PrintSection
        <3>2. shown' = report_print_pci_section(Available)
            BY <1>12, Zenon DEF PrintPci
        <3> HIDE DEF all
        <3> QED BY <2>1, <3>1, <3>2 DEF WithParts
    <2>3. /\ detail' \subseteq all /\ \A i \in detail' : i \in Available
          /\ detail' # {} => "device" \in Available
        BY <2>2 DEF Details, Available
    <2> DEFINE a1 == IF "device" \in Available THEN {"device", "bus", "address"} ELSE {}
               a2 == IF "class" \in Available THEN {"revision"} ELSE {}
               g  == IF "device" \in Available
                     THEN {"class", "description", "interrupt"} ELSE {}
    <2>4. shown' = AsIs({"pci"}) \cup (AsIs(a1) \cup Guarded(g, Available)) \cup AsIs(a2)
        BY <2>2, PrintedTogether DEF report_print_pci_section
    <2>5. shown' = AsIs(({"pci"} \cup a1) \cup a2) \cup Guarded(g, Available)
        <3> HIDE DEF a1, a2, g
        <3>1. AsIs({"pci"}) \cup AsIs(a1) = AsIs({"pci"} \cup a1)
            BY PrintedTogether, Zenon
        <3>2. AsIs({"pci"} \cup a1) \cup AsIs(a2) = AsIs(({"pci"} \cup a1) \cup a2)
            BY PrintedTogether, Zenon
        <3> QED BY <2>4, <3>1, <3>2
    <2>6. detail' \subseteq (({"pci"} \cup a1) \cup a2) \cup g
        BY <2>2, <2>3
    <2> HIDE DEF a1, a2, g
    <2> QED BY <1>d, <2>1, <2>5, <2>6
<1>13. CASE PrintGpu
    <2> DEFINE all == {"display", "bus", "address", "description"}
    <2>1. PICK details :
             /\ PrintSection("report_gpu", "report_storage", details)
             /\ details = WithParts(Details("device", all), "display",
                                    {"bus", "address", "description"})
        BY <1>13, Zenon DEF PrintGpu
    <2>2. /\ detail' \in Details("device", all)
          /\ detail' \cap {"bus", "address", "description"} # {} => "display" \in detail'
          /\ shown' = report_print_gpu_section(Available)
        <3>1. detail' \in details
            BY <2>1, Zenon DEF PrintSection
        <3>2. shown' = report_print_gpu_section(Available)
            BY <1>13, Zenon DEF PrintGpu
        <3> HIDE DEF all
        <3> QED BY <2>1, <3>1, <3>2 DEF WithParts
    <2>3. detail' \subseteq all /\ \A i \in detail' : i \in Available
        BY <2>2 DEF Details, Available
    <2> DEFINE a == IF "display" \in Available THEN {"display", "bus", "address"} ELSE {}
               g == IF "display" \in Available THEN {"description"} ELSE {}
    <2>4. shown' = AsIs({"pci"}) \cup (AsIs(a) \cup Guarded(g, Available))
        BY <2>2, PrintedTogether DEF report_print_gpu_section
    <2>5. shown' = AsIs({"pci"} \cup a) \cup Guarded(g, Available)
        <3> HIDE DEF a, g
        <3>1. AsIs({"pci"}) \cup AsIs(a) = AsIs({"pci"} \cup a)
            BY PrintedTogether, Zenon
        <3> QED BY <2>4, <3>1
    <2>6. detail' \subseteq ({"pci"} \cup a) \cup g
        BY <2>2, <2>3
    <2> HIDE DEF a, g
    <2> QED BY <1>d, <2>1, <2>5, <2>6
<1>14. CASE PrintStorage
    <2>1. PICK details : PrintSection("report_storage", "exit", details)
        BY <1>14 DEF PrintStorage
    <2>2. /\ detail' \in Details("drive", {"bus type", "strings", "capacity"})
          /\ shown' = report_print_storage_section(Available)
        BY <1>14, Zenon DEF PrintStorage, PrintSection
    <2>3. CASE "drive" \in known
        <3>1. detail' \subseteq {"drive", "bus type"} \cup {"strings", "capacity"}
            BY <2>2, <2>3 DEF Details
        <3>2. shown' = AsIs({"drive", "bus type"})
                         \cup Guarded({"strings", "capacity"}, Available)
            BY <2>2, <2>3, Zenon DEF report_print_storage_section, Available
        <3> QED BY <1>d, <2>1, <3>1, <3>2
    <2>4. CASE "drive" \notin known
        <3>1. detail' = {}
            BY <2>2, <2>4 DEF Details
        <3>2. "drive" \notin Available
            BY <2>4, <3>1 DEF Available
        <3>3. shown' = AsIs({"no drives"})
            BY <2>2, <3>2, Zenon DEF report_print_storage_section
        <3>4. shown' = AsIs({"no drives"}) \cup Guarded({}, Available)
            BY <3>3, PrintedTogether
        <3> QED BY <1>d, <2>1, <3>1, <3>4
    <2> QED BY <2>3, <2>4
<1>15. CASE UNCHANGED vars
    BY <1>15 DEF vars, Reported, ReportComplete
<1> QED BY <1>1, <1>2, <1>3, <1>4, <1>5, <1>6, <1>7, <1>8, <1>9, <1>10, <1>11,
           <1>12, <1>13, <1>14, <1>15, <1>16 DEF Next

\* The invariant of the composed application.
LEMMA AppInvariant == Spec => []AppInv
<1>1. Init => AppInv
    BY CollectorsStart, ReportedStart DEF AppInv
<1>2. AppInv /\ [Next]_vars => AppInv'
    BY CollectorsStep, ReportedStep DEF AppInv
<1> QED BY <1>1, <1>2, PTL DEF Spec

-----------------------------------------------------------------------------
(***************************************************************************)
(* Theorems.                                                               *)
(***************************************************************************)
\* cpu_id_collect executes no CPUID leaf beyond the maximum the processor
\* reports, and XGETBV only if OSXSAVE says that it exists.
THEOREM CpuidGuarded == Spec => []InstructionsGuarded
<1>1. AppInv => InstructionsGuarded
    BY CpuInstructions DEF AppInv, Collectors
<1> QED BY <1>1, AppInvariant, PTL

\* For any list of levels that ends within the loop's bound, the topology
\* reported is that of its last level and its last SMT level; of a list that
\* goes on, longer than the bound or never ending, no more than MAX_SUBLEAF + 1
\* levels are read and what is reported was read from one of them.
THEOREM TopologyRight == Spec => []TopologyFromLastLevel
<1>1. AppInv => TopologyFromLastLevel
    BY CpuTopology DEF AppInv, Collectors
<1> QED BY <1>1, AppInvariant, PTL

\* The utilization cpu_telemetry_sample returns is the share of the time that
\* passed, for counters of any width, wherever they wrap.
THEOREM UtilizationRight == Spec => []UtilizationIsTrue
<1>1. AppInv => UtilizationIsTrue
    BY DEF AppInv, Collectors, TelInv, Utilization
<1> QED BY <1>1, AppInvariant, PTL

\* The TSC frequency is never above the true rate, for any rate and however
\* long the thread waits between two readings.
THEOREM FrequencyRight == Spec => []FrequencyTrusted
<1>1. AppInv => FrequencyTrusted
    BY DEF AppInv, Collectors, TelInv, Frequency, FrequencyTrusted
<1> QED BY <1>1, AppInvariant, PTL

\* Whatever the PnP manager lists, pci_enumerate's indices stay inside
\* devices[] and resources[], for any size of the two arrays.
THEOREM PciTypeCorrect == Spec => []PciTypeOK
<1>1. AppInv => PciTypeOK
    BY DEF AppInv, Collectors, PciInv
<1> QED BY <1>1, AppInvariant, PTL

\* pci_enumerate and collect_resources lose no handle, for any number of
\* devices and descriptors and whichever calls fail.
THEOREM HandlesNotLeaked == Spec => []NoHandleLeak
<1>1. AppInv => NoHandleLeak
    BY PciHandles DEF AppInv, Collectors
<1> QED BY <1>1, AppInvariant, PTL

\* Every device listed is stored, counted as truncated or skipped, for any
\* number of devices and any size of the array.
THEOREM NoDeviceLost == Spec => []EveryDeviceAccountedFor
<1>1. AppInv => EveryDeviceAccountedFor
    BY PciDevices DEF AppInv, Collectors
<1> QED BY <1>1, AppInvariant, PTL

\* query_device closes every handle it opened, once, on every path.
THEOREM DriveHandlesClosed == Spec => []HandlesClosed
<1>1. AppInv => HandlesClosed
    BY DEF AppInv, Collectors, StInv, Handles
<1> QED BY <1>1, AppInvariant, PTL

\* query_device reads no string from outside the bytes delivered, for any
\* offsets a descriptor may contain.
THEOREM DriveStringsInside == Spec => []StringsFromThisQuery
<1>1. AppInv => StringsFromThisQuery
    BY DEF AppInv, Collectors, StInv
<1> QED BY <1>1, AppInvariant, PTL

\* For any array size and any set of drives, storage_enumerate leaves out a
\* drive only behind a number that is missing or could not be opened.
THEOREM DrivesLostBehindGapOnly == Spec => []DrivesReported
<1>1. AppInv => DrivesReported
    BY StDrives DEF AppInv, Collectors
<1> QED BY <1>1, AppInvariant, PTL

\* Whatever the collectors find, every section prints what was established of
\* the items it looks at, and a collector that failed has left a line in the
\* log before the first section is printed.
THEOREM NothingEstablishedIsLost == Spec => []ReportComplete
<1>1. AppInv => ReportComplete
    BY DEF AppInv, Reported
<1> QED BY <1>1, AppInvariant, PTL
=============================================================================
