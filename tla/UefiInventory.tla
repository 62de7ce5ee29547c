--------------------------- MODULE UefiInventory ---------------------------
(***************************************************************************)
(* The UEFI application (uefi/HwMonPkg/Application/HwMonUefi/HwMonUefi.c): *)
(* the memory map fetched in two calls, between which firmware callbacks   *)
(* allocate and free memory, and the walk from the configuration table to  *)
(* the RSDP, the XSDT and the SMBIOS entry point.  PrintCpuInfo and the    *)
(* printing keep no state.  The addresses firmware stores in its tables    *)
(* are valid and the bytes of a table are there, as the UEFI specification *)
(* has it; Length fields, revisions and checksums are arbitrary, and so    *)
(* are eight bytes from outside a table, if they are taken for an address. *)
(***************************************************************************)
EXTENDS Integers, Sequences, SequencesExt

CONSTANTS
    ConfigurationTables,  \* sequences of GUIDs
    InitialEntries,       \* numbers of memory descriptors before the probe
    MaxChanges,           \* bound: memory map changes caused by callbacks
    DescSize,             \* bytes of a memory descriptor
    XsdtLengths,          \* what the XSDT's Length field may say
    UINTN_MOD             \* 2^64 in the code

Guids == {"Acpi20", "Acpi10", "Smbios3", "Smbios", "Other"}
None  == "none"

\* A GUID occurs once: InstallConfigurationTable replaces an entry.
ASSUME UefiAssumption ==
    /\ \A t \in ConfigurationTables : t \in Seq(Guids) /\ IsInjective(t)
    /\ InitialEntries \subseteq Nat \ {0} /\ MaxChanges \in Nat
    /\ DescSize \in Nat \ {0} /\ UINTN_MOD \in Nat \ {0}
    /\ XsdtLengths \subseteq 0..(UINTN_MOD - 1)

HeaderSize == 36      \* sizeof(HWMON_ACPI_HEADER)

VARIABLES
    pc,
    entries,      \* descriptors in the firmware's memory map (external)
    changes,      \* how often it has changed so far
    probed,       \* descriptors when its size was asked for (ghost)
    mapSize,      \* MapSize
    pool,         \* size of the block Map points to, 0 if there is none
    filled,       \* bytes of it the second call has written
    readTo,       \* end of the highest byte read from it
    mapResult,    \* how PrintMemoryMap ended
    table,        \* SystemTable->ConfigurationTable
    index,        \* Index, of the loop that is running
    acpiRsdp, smbiosEntry, smbiosIs64,
    rsdp,         \* revision and checksums of the RSDP
    xsdt          \* Length and checksum of the XSDT

vars     == <<pc, entries, changes, probed, mapSize, pool, filled, readTo,
              mapResult, table, index, acpiRsdp, smbiosEntry, smbiosIs64,
              rsdp, xsdt>>
mapVars  == <<entries, changes, probed, mapSize, pool, filled, readTo, mapResult>>
scanVars == <<index, acpiRsdp, smbiosEntry, smbiosIs64>>
acpiVars == <<rsdp, xsdt>>

NoRsdp == [revision |-> 0, v1 |-> FALSE, v2 |-> FALSE]
NoXsdt == [length |-> 0, valid |-> FALSE]

Init ==
    /\ pc = "probe"
    /\ entries \in InitialEntries /\ changes = 0 /\ probed = 0
    /\ mapSize = 0 /\ pool = 0 /\ filled = 0 /\ readTo = 0 /\ mapResult = None
    /\ table \in ConfigurationTables /\ index = 0
    /\ acpiRsdp = None /\ smbiosEntry = None /\ smbiosIs64 = FALSE
    /\ rsdp = NoRsdp /\ xsdt = NoXsdt

Goto(l) == pc' = l

-----------------------------------------------------------------------------
(***************************************************************************)
(* PrintMemoryMap.                                                         *)
(***************************************************************************)
\* A timer or notification callback allocates or frees memory.
CallbackChangesMap ==
    /\ pc \in {"probe", "allocate", "fetch"} /\ changes < MaxChanges
    /\ changes' = changes + 1
    /\ entries' \in {entries + 1, entries - 1} \ {0}
    /\ UNCHANGED <<pc, probed, mapSize, pool, filled, readTo, mapResult, table,
                   scanVars, acpiVars>>

Unavailable(why) == mapResult' = why /\ Goto("scan")

\* MUTANT: room for one more descriptor only.
HeadroomForOne == DescSize

Headroom == 2 * DescSize

ProbeMap ==
    /\ pc = "probe"
    /\ \/ /\ probed' = entries
          /\ mapSize' = entries * DescSize + Headroom
          /\ Goto("allocate") /\ UNCHANGED mapResult
       \/ Unavailable("probe failed") /\ UNCHANGED <<probed, mapSize>>
    /\ UNCHANGED <<entries, changes, pool, filled, readTo, table, scanVars, acpiVars>>

\* AllocatePool may itself split a free range in up to three.
AllocateMap ==
    /\ pc = "allocate"
    /\ \/ /\ pool' = mapSize
          /\ \E split \in 0..2 :
                /\ changes + split <= MaxChanges
                /\ entries' = entries + split /\ changes' = changes + split
          /\ Goto("fetch") /\ UNCHANGED mapResult
       \/ Unavailable("no memory") /\ UNCHANGED <<pool, entries, changes>>
    /\ UNCHANGED <<probed, mapSize, filled, readTo, table, scanVars, acpiVars>>

\* MUTANT: the block is not freed when the call fails.
FreeOnErrorForgotten == UNCHANGED pool

FreeOnError == pool' = 0

FetchMap ==
    /\ pc = "fetch"
    /\ \/ /\ entries * DescSize <= mapSize
          /\ mapSize' = entries * DescSize /\ filled' = mapSize'
          /\ Goto("walk") /\ UNCHANGED <<pool, mapResult>>
       \/ /\ entries * DescSize > mapSize
          /\ mapSize' = entries * DescSize        \* the size it would take
          /\ Unavailable("too small") /\ FreeOnError /\ UNCHANGED filled
       \/ /\ Unavailable("fetch failed") /\ FreeOnError
          /\ UNCHANGED <<mapSize, filled>>
    /\ UNCHANGED <<entries, changes, probed, readTo, table, scanVars, acpiVars>>

\* The loop over the descriptors, the summary and FreePool.
WalkMap ==
    /\ pc = "walk"
    /\ readTo' = (mapSize \div DescSize) * DescSize
    /\ pool' = 0 /\ mapResult' = "printed"
    /\ Goto("scan")
    /\ UNCHANGED <<entries, changes, probed, mapSize, filled, table, scanVars,
                   acpiVars>>

-----------------------------------------------------------------------------
(***************************************************************************)
(* UefiMain's loop over the configuration table.                           *)
(***************************************************************************)
\* MUTANT: whichever ACPI or SMBIOS entry comes first is kept.
PreferredFirstComes(guid) ==
    /\ acpiRsdp' = IF guid \in {"Acpi20", "Acpi10"} /\ acpiRsdp = None
                   THEN guid ELSE acpiRsdp
    /\ smbiosEntry' = IF guid \in {"Smbios3", "Smbios"} /\ smbiosEntry = None
                      THEN guid ELSE smbiosEntry
    /\ smbiosIs64' = (smbiosEntry' = "Smbios3")

\* The newer GUID replaces, the older one only fills a gap.
Preferred(guid) ==
    /\ acpiRsdp' = IF guid = "Acpi20" \/ (guid = "Acpi10" /\ acpiRsdp = None)
                   THEN guid ELSE acpiRsdp
    /\ IF guid = "Smbios3" \/ (guid = "Smbios" /\ smbiosEntry = None)
       THEN smbiosEntry' = guid /\ smbiosIs64' = (guid = "Smbios3")
       ELSE UNCHANGED <<smbiosEntry, smbiosIs64>>

\* The entry, and past the last one the call of PrintAcpi.
ScanEntry ==
    /\ pc = "scan"
    /\ IF index < Len(table)
       THEN Preferred(table[index + 1]) /\ index' = index + 1 /\ UNCHANGED pc
       ELSE /\ Goto(IF acpiRsdp = None THEN "smbios" ELSE "rsdp")
            /\ index' = 0
            /\ UNCHANGED <<acpiRsdp, smbiosEntry, smbiosIs64>>
    /\ UNCHANGED <<mapVars, table, acpiVars>>

-----------------------------------------------------------------------------
(***************************************************************************)
(* PrintAcpi and PrintSmbios.                                              *)
(***************************************************************************)
\* MUTANT: one good checksum is enough.
RsdpValidEither == rsdp'.v1 \/ rsdp'.v2

RsdpValid == rsdp'.v1 /\ rsdp'.v2

ReadRsdp ==
    /\ pc = "rsdp"
    /\ \E revision \in {0, 2}, v1, v2 \in BOOLEAN :
          rsdp' = [revision |-> revision, v1 |-> v1, v2 |-> revision >= 2 /\ v2]
    /\ Goto(IF rsdp'.revision >= 2 /\ RsdpValid THEN "xsdt" ELSE "smbios")
    /\ UNCHANGED <<mapVars, table, scanVars, xsdt>>

\* The checksum covers Length bytes; no bytes add up to 0.
ReadXsdt ==
    /\ pc = "xsdt"
    /\ \E length \in XsdtLengths, valid \in BOOLEAN :
          xsdt' = [length |-> length, valid |-> valid \/ length = 0]
    /\ Goto(IF xsdt'.valid THEN "entries" ELSE "smbios")
    /\ UNCHANGED <<mapVars, table, scanVars, rsdp>>

\* EntryCount, in the unsigned arithmetic of UINTN.
EntryCount == ((xsdt.length - HeaderSize) % UINTN_MOD) \div 8

\* MUTANT: the next entry is never reached.
NextEntryForgotten == index

NextEntry == index + 1

EntryInside == HeaderSize + 8 * (index + 1) <= xsdt.length

\* One entry of the XSDT: eight bytes, and the header and the checksum of the
\* table they point to.  Bytes from outside the XSDT point anywhere, and the
\* processor may stop there with a page fault.
ReadXsdtEntry ==
    /\ pc = "entries"
    /\ \/ index < EntryCount /\ index' = NextEntry /\ UNCHANGED pc
       \/ /\ index < EntryCount /\ ~EntryInside
          /\ index' = NextEntry /\ Goto("fault")
       \/ ~(index < EntryCount) /\ Goto("smbios") /\ UNCHANGED index
    /\ UNCHANGED <<mapVars, table, acpiRsdp, smbiosEntry, smbiosIs64, acpiVars>>

\* PrintSmbios prints the entry point, if there is one, whatever its
\* checksum, and UefiMain returns.
PrintSmbios ==
    /\ pc = "smbios"
    /\ Goto("return")
    /\ UNCHANGED <<mapVars, table, scanVars, acpiVars>>

AppNext ==
    \/ ProbeMap \/ AllocateMap \/ FetchMap \/ WalkMap
    \/ ScanEntry \/ ReadRsdp \/ ReadXsdt \/ ReadXsdtEntry \/ PrintSmbios

Next == AppNext \/ CallbackChangesMap

Spec == Init /\ [][Next]_vars

\* The application goes on; nothing obliges the callbacks to.
FairSpec == Spec /\ WF_vars(AppNext)

-----------------------------------------------------------------------------
(***************************************************************************)
(* Properties.                                                             *)
(***************************************************************************)
\* The descriptors read are the ones the second call wrote, inside the block
\* allocated for the first call's size although the map has grown or shrunk
\* since; and the block is freed on every path.
MapBlockUsedRight ==
    /\ readTo <= filled
    /\ pc = "walk" => filled <= pool
    /\ pc \notin {"fetch", "walk"} => pool = 0

\* Comment at line 190: the map can grow between the probe call and the real
\* call.  It is given up for want of room only if it has grown by more than
\* two descriptors, so AllocatePool's own changes are always covered.
HeadroomSuffices ==
    mapResult = "too small" => entries > probed + 2

\* PrintAcpi and PrintSmbios are given the newest entry the firmware offers,
\* in whatever order the configuration table lists them, and the SMBIOS one
\* is read in the format of its own GUID.
NewestTableChosen ==
    pc \in {"rsdp", "xsdt", "entries", "fault", "smbios", "return"} =>
        LET offered == ToSet(table)
            Newest(new, old) == IF new \in offered THEN new
                                ELSE IF old \in offered THEN old ELSE None
        IN /\ acpiRsdp = Newest("Acpi20", "Acpi10")
           /\ smbiosEntry = Newest("Smbios3", "Smbios")
           /\ smbiosIs64 <=> smbiosEntry = "Smbios3"

\* An XSDT entry is read only if both RSDP checksums and the XSDT's are right.
\* If in addition the XSDT's Length covers its header, the entries read lie
\* inside that Length to the last byte, nothing else is taken for an address,
\* and in the end every whole entry has been read.
XsdtWalkGuarded ==
    /\ pc \in {"entries", "fault"} =>
          rsdp.revision >= 2 /\ rsdp.v1 /\ rsdp.v2 /\ xsdt.valid
    /\ xsdt.valid /\ xsdt.length >= HeaderSize =>
          /\ HeaderSize + 8 * index <= xsdt.length /\ pc # "fault"
          /\ pc \in {"smbios", "return"} => ~EntryInside

\* README.md:66-68: "Firmware structures (SMBIOS, ACPI) are bounds-checked and
\* checksum-validated before any field is trusted".  The entries read lie
\* inside the XSDT, whatever its Length says.
XsdtWalkInside ==
    xsdt.valid /\ index > 0 => HeaderSize + 8 * index <= xsdt.length

\* UefiMain returns, however often the memory map changes, whatever the
\* configuration table lists and whatever the checksums are, unless it comes
\* to walk an XSDT whose Length does not cover its header (about 2^61
\* entries in the code, of which nothing is claimed).
UefiReturns ==
    <>(pc = "return" \/ (pc = "entries" /\ xsdt.length < HeaderSize))
=============================================================================
