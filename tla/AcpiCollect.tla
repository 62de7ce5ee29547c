---------------------------- MODULE AcpiCollect ----------------------------
(***************************************************************************)
(* acpi_collect (src/firmware/acpi.c) with the two platform calls it makes *)
(* (src/platform/windows/firmware_table.c).                                *)
(*                                                                         *)
(* The firmware tables are external: the size the OS announces, the size   *)
(* it then delivers (tables may change between the two calls), the Length  *)
(* field and every byte are arbitrary, chosen when the code reads them.    *)
(* What is kept is where the code reads, what it allocates and frees, and  *)
(* what it reports.                                                        *)
(***************************************************************************)
EXTENDS Integers, Sequences

CONSTANTS
    EnumSizes,       \* sizes EnumSystemFirmwareTables may return
    RawSizes,        \* sizes GetSystemFirmwareTable may return
    HeaderLengths,   \* what a table's Length field may say
    EntryTypes,      \* MADT entry types
    EntryLengths,    \* MADT entry lengths
    ACPI_MAX_DISCOVERED_TABLES, ACPI_MAX_PROCESSORS, ACPI_MAX_MCFG_ENTRIES

ASSUME AcpiAssumption ==
    /\ EnumSizes \subseteq Nat /\ RawSizes \subseteq Nat
    /\ HeaderLengths \subseteq Nat
    /\ EntryTypes \subseteq Nat /\ EntryLengths \subseteq Nat
    /\ ACPI_MAX_DISCOVERED_TABLES \in Nat
    /\ ACPI_MAX_PROCESSORS \in Nat /\ ACPI_MAX_MCFG_ENTRIES \in Nat

HeaderSize == 36     \* sizeof(AcpiRawHeader)
Signatures == {"FACP", "APIC", "MCFG", "HPET", "OTHER"}

VARIABLES
    pc,
    heap,        \* blocks that are allocated: subset of Blocks
    badFree,     \* has something been freed that was not allocated?
    needed,      \* the size of the first, probing call
    count,       \* number of signatures
    i,           \* signatures consumed so far
    rawSize,     \* raw_size
    table,       \* signature, effective_len and checksum of the table in raw
    p,           \* the parsers' cursor, as an offset into raw
    entry,       \* entry_type and entry_len of the MADT entry at p
    readTo,      \* end of the highest byte read from raw
    parsedTo,    \* end of the highest byte a parser trusted
    out,         \* *out
    result       \* what acpi_collect returned

vars == <<pc, heap, badFree, needed, count, i, rawSize, table, p, entry,
          readTo, parsedTo, out, result>>
bufferVars == <<rawSize, table, p, entry, readTo, parsedTo>>
heapVars   == <<heap, badFree>>

Blocks == {"buf", "sigs", "raw"}

NoEntry == [type |-> 0, len |-> 0]
NoTable == [sig |-> "OTHER", length |-> 0, valid |-> FALSE]

\* A parsed table: was it accepted, how many entries, and which element of
\* `discovered' is its summary (0: none).
NoInfo   == [available |-> FALSE, entries |-> 0, summary |-> 0]
EmptyOut == [discovered |-> <<>>, FACP |-> NoInfo, APIC |-> NoInfo,
             MCFG |-> NoInfo, HPET |-> NoInfo]

Init ==
    /\ pc = "enum_probe"
    /\ heap = {} /\ badFree = FALSE
    /\ needed = 0 /\ count = 0 /\ i = 0
    /\ rawSize = 0 /\ table = NoTable /\ p = 0
    /\ entry = NoEntry
    /\ readTo = 0 /\ parsedTo = 0
    /\ out = EmptyOut                      \* memset(out, 0, sizeof(*out))
    /\ result = "none"

Goto(l)   == pc' = l
Malloc(b) == heap' = heap \cup {b} /\ UNCHANGED badFree
Free(b)   == heap' = heap \ {b} /\ badFree' = (badFree \/ b \notin heap)
Larger(a, b) == IF a < b THEN b ELSE a
ReadUpTo(n)  == readTo' = Larger(readTo, n)

-----------------------------------------------------------------------------
(***************************************************************************)
(* platform_enum_acpi_signatures: probe, allocate, fetch, copy.            *)
(***************************************************************************)
Fail == Goto("done") /\ result' = "false"

EnumProbe ==
    /\ pc = "enum_probe"
    /\ needed' \in EnumSizes
    /\ IF needed' = 0 THEN Fail ELSE Goto("enum_alloc") /\ UNCHANGED result
    /\ UNCHANGED <<heapVars, count, i, bufferVars, out>>

EnumAlloc ==
    /\ pc = "enum_alloc"
    /\ \/ Malloc("buf") /\ Goto("enum_fetch") /\ UNCHANGED result
       \/ Fail /\ UNCHANGED heapVars
    /\ UNCHANGED <<needed, count, i, bufferVars, out>>

\* MUTANT: a bad size is reported without freeing the buffer.
EnumFetchLeaks ==
    /\ pc = "enum_fetch"
    /\ \E written \in EnumSizes :
          IF written = 0 \/ written > needed
          THEN Fail /\ UNCHANGED count
          ELSE Goto("enum_copy") /\ count' = written \div 4 /\ UNCHANGED result
    /\ UNCHANGED <<heapVars, needed, i, bufferVars, out>>

EnumFetch ==
    /\ pc = "enum_fetch"
    /\ \E written \in EnumSizes :
          IF written = 0 \/ written > needed
          THEN Free("buf") /\ Fail /\ UNCHANGED count
          ELSE /\ Goto("enum_copy")
               /\ count' = written \div 4
               /\ UNCHANGED <<heapVars, result>>
    /\ UNCHANGED <<needed, i, bufferVars, out>>

\* The second allocation; either way the first buffer is freed.
EnumCopy ==
    /\ pc = "enum_copy"
    /\ badFree' = (badFree \/ "buf" \notin heap)
    /\ \/ /\ heap' = (heap \ {"buf"}) \cup {"sigs"}
          /\ Goto("loop") /\ UNCHANGED result
       \/ heap' = heap \ {"buf"} /\ Fail
    /\ UNCHANGED <<needed, count, i, bufferVars, out>>

-----------------------------------------------------------------------------
(***************************************************************************)
(* The loop over signatures, with platform_get_acpi_table.                 *)
(***************************************************************************)
LoopHead ==
    /\ pc = "loop"
    /\ IF i < count /\ Len(out.discovered) < ACPI_MAX_DISCOVERED_TABLES
       THEN Goto("probe") /\ i' = i + 1
       ELSE Goto("free_sigs") /\ UNCHANGED i
    /\ UNCHANGED <<heapVars, needed, count, bufferVars, out, result>>

TableProbe ==
    /\ pc = "probe"
    /\ needed' \in RawSizes \cup {0}
    /\ Goto(IF needed' = 0 THEN "loop" ELSE "alloc")
    /\ UNCHANGED <<heapVars, count, i, bufferVars, out, result>>

TableAlloc ==
    /\ pc = "alloc"
    /\ \/ Malloc("raw") /\ Goto("fetch")
       \/ UNCHANGED heapVars /\ Goto("loop")
    /\ UNCHANGED <<needed, count, i, bufferVars, out, result>>

TableFetch ==
    /\ pc = "fetch"
    /\ \E written \in RawSizes \cup {0} :
          IF written = 0 \/ written > needed
          THEN Free("raw") /\ Goto("loop") /\ UNCHANGED rawSize
          ELSE Goto("header") /\ rawSize' = written /\ UNCHANGED heapVars
    /\ UNCHANGED <<needed, count, i, table, p, entry, readTo, parsedTo, out,
                   result>>

\* hdr->length is believed only if the bytes are there.
EffectiveLength(raw_size, length) ==
    IF length > 0 /\ length <= raw_size THEN length ELSE raw_size

\* The header is read, then checksum_ok sums effective_len bytes.
ReadHeader ==
    /\ pc = "header"
    /\ IF rawSize < HeaderSize
       THEN Goto("free_raw") /\ UNCHANGED <<table, readTo>>
       ELSE /\ \E length \in HeaderLengths, sig \in Signatures,
                  valid \in BOOLEAN :
                  /\ table' = [sig |-> sig, valid |-> valid,
                               length |-> EffectiveLength(rawSize, length)]
                  /\ ReadUpTo(Larger(HeaderSize,
                                     EffectiveLength(rawSize, length)))
            /\ Goto("summary")
    /\ UNCHANGED <<heapVars, needed, count, i, rawSize, p, entry, parsedTo, out,
                   result>>

\* MUTANT: the table is parsed whatever its checksum.
RecordSummaryUnchecked ==
    /\ pc = "summary"
    /\ out' = [out EXCEPT !.discovered = Append(@, table)]
    /\ Goto(IF table.sig = "OTHER" THEN "free_raw" ELSE "parse")
    /\ UNCHANGED <<heapVars, needed, count, i, bufferVars, result>>

\* fill_summary, and the dispatch on the signature the bytes carry.
RecordSummary ==
    /\ pc = "summary"
    /\ out' = [out EXCEPT !.discovered = Append(@, table)]
    /\ Goto(IF table.valid /\ table.sig # "OTHER" THEN "parse" ELSE "free_raw")
    /\ UNCHANGED <<heapVars, needed, count, i, bufferVars, result>>

-----------------------------------------------------------------------------
(***************************************************************************)
(* The parsers.  Each clears its result, and leaves it unavailable when    *)
(* the table is too short; acpi_collect then stores the summary anyway.    *)
(***************************************************************************)
Summary == Len(out.discovered)

Parsed(available, entries) ==
    [available |-> available, entries |-> entries, summary |-> Summary]

\* A parser reads raw up to offset n and relies on what it finds.
Trust(n) == ReadUpTo(n) /\ parsedTo' = Larger(parsedTo, n)

\* Minimum length and end of the fixed fields, by table.
MinLength == [FACP |-> 48, HPET |-> 53, APIC |-> HeaderSize + 8,
              MCFG |-> HeaderSize + 8]
FixedEnd  == [FACP |-> 48, HPET |-> 53, APIC |-> HeaderSize + 4, MCFG |-> 0]

\* parse_fadt and parse_hpet as a whole, parse_madt and parse_mcfg up to the
\* loop over their entries.
ParseFixed ==
    /\ pc = "parse"
    /\ LET sig == table.sig IN
       IF table.length < MinLength[sig]
       THEN /\ out' = [out EXCEPT ![sig] = Parsed(FALSE, 0)]
            /\ Goto("free_raw")
            /\ UNCHANGED <<p, readTo, parsedTo>>
       ELSE /\ out' = [out EXCEPT ![sig] = Parsed(sig \in {"FACP", "HPET"}, 0)]
            /\ Trust(FixedEnd[sig])
            /\ p' = MinLength[sig]
            /\ Goto(CASE sig = "APIC" -> "madt_walk"
                      [] sig = "MCFG" -> "mcfg_walk"
                      [] OTHER -> "free_raw")
    /\ UNCHANGED <<heapVars, needed, count, i, rawSize, table, entry, result>>

\* A processor entry the MADT loop records, and how far it reads in it.
IsProcessor(type, len) == (type = 0 /\ len >= 8) \/ (type = 9 /\ len >= 16)
EntryEnd(type)         == IF type = 0 THEN 8 ELSE 12

\* The end of a loop over entries: what was found so far is reported.
WalkEnds(sig) ==
    /\ out' = [out EXCEPT ![sig].available = TRUE]
    /\ Goto("free_raw")

\* MUTANT: one byte is taken to be enough for type and length.
MadtHasEntryOffByOne == p + 1 <= table.length

MadtHasEntry == p + 2 <= table.length

\* MUTANT: an entry shorter than its own header is not refused.
MadtMalformedTooLax(len) == p + len > table.length

MadtMalformed(len) == len < 2 \/ p + len > table.length

\* MUTANT: one processor too many.
RoomOffByOne == out.APIC.entries <= ACPI_MAX_PROCESSORS

RoomForProcessor == out.APIC.entries < ACPI_MAX_PROCESSORS

\* The head of parse_madt's loop: the type and length of the next entry.
MadtReadEntry ==
    /\ pc = "madt_walk"
    /\ \/ /\ MadtHasEntry
          /\ entry' \in [type : EntryTypes, len : EntryLengths]
          /\ Trust(p + 2)
          /\ Goto("madt_entry")
          /\ UNCHANGED out
       \/ /\ ~MadtHasEntry
          /\ WalkEnds("APIC")
          /\ UNCHANGED <<entry, readTo, parsedTo>>
    /\ UNCHANGED <<heapVars, needed, count, i, rawSize, table, p, result>>

\* Its body: a malformed entry ends the loop, a processor is recorded while
\* there is room, anything else is skipped.
MadtTakeEntry ==
    /\ pc = "madt_entry"
    /\ \/ /\ MadtMalformed(entry.len)
          /\ WalkEnds("APIC")
          /\ UNCHANGED <<p, readTo, parsedTo>>
       \/ /\ ~MadtMalformed(entry.len)
          /\ IF IsProcessor(entry.type, entry.len) /\ RoomForProcessor
             THEN /\ out' = [out EXCEPT !.APIC.entries = @ + 1]
                  /\ Trust(p + EntryEnd(entry.type))
             ELSE UNCHANGED <<out, readTo, parsedTo>>
          /\ p' = p + entry.len
          /\ Goto("madt_walk")
    /\ UNCHANGED <<heapVars, needed, count, i, rawSize, table, entry, result>>

\* One iteration of parse_mcfg's loop, or its end.
McfgWalk ==
    /\ pc = "mcfg_walk"
    /\ \/ /\ p + 16 <= table.length /\ out.MCFG.entries < ACPI_MAX_MCFG_ENTRIES
          /\ out' = [out EXCEPT !.MCFG.entries = @ + 1]
          /\ Trust(p + 12)
          /\ p' = p + 16
          /\ UNCHANGED pc
       \/ /\ ~(p + 16 <= table.length
               /\ out.MCFG.entries < ACPI_MAX_MCFG_ENTRIES)
          /\ WalkEnds("MCFG")
          /\ UNCHANGED <<p, readTo, parsedTo>>
    /\ UNCHANGED <<heapVars, needed, count, i, rawSize, table, entry, result>>

-----------------------------------------------------------------------------
FreeRaw ==
    /\ pc = "free_raw"
    /\ Free("raw")
    /\ rawSize' = 0 /\ table' = NoTable /\ p' = 0 /\ entry' = NoEntry
    /\ readTo' = 0 /\ parsedTo' = 0
    /\ Goto("loop")
    /\ UNCHANGED <<needed, count, i, out, result>>

FreeSigs ==
    /\ pc = "free_sigs"
    /\ Free("sigs")
    /\ Goto("done") /\ result' = "true"
    /\ UNCHANGED <<needed, count, i, bufferVars, out>>

Next ==
    \/ EnumProbe \/ EnumAlloc \/ EnumFetch \/ EnumCopy
    \/ LoopHead \/ TableProbe \/ TableAlloc \/ TableFetch
    \/ ReadHeader \/ RecordSummary \/ ParseFixed
    \/ MadtReadEntry \/ MadtTakeEntry \/ McfgWalk
    \/ FreeRaw \/ FreeSigs

Spec == Init /\ [][Next]_vars

\* The code is sequential: it takes its next step as long as there is one.
FairSpec == Spec /\ WF_vars(Next)

-----------------------------------------------------------------------------
(***************************************************************************)
(* Properties.                                                             *)
(***************************************************************************)
Parsers == {"FACP", "APIC", "MCFG", "HPET"}

\* Types, and the arrays of AcpiData: no index beyond discovered[],
\* processors[] or entries[].
TypeOK ==
    /\ pc \in {"enum_probe", "enum_alloc", "enum_fetch", "enum_copy", "loop",
               "probe", "alloc", "fetch", "header", "summary", "parse",
               "madt_walk", "madt_entry", "mcfg_walk", "free_raw", "free_sigs",
               "done"}
    /\ heap \subseteq Blocks /\ badFree \in BOOLEAN
    /\ needed \in Nat /\ count \in Nat /\ i \in 0..count
    /\ rawSize \in Nat /\ p \in Nat /\ readTo \in Nat /\ parsedTo \in Nat
    /\ table \in [sig : Signatures, length : Nat, valid : BOOLEAN]
    /\ Len(out.discovered) \in 0..ACPI_MAX_DISCOVERED_TABLES
    /\ out.APIC.entries \in 0..ACPI_MAX_PROCESSORS
    /\ out.MCFG.entries \in 0..ACPI_MAX_MCFG_ENTRIES
    /\ result \in {"none", "true", "false"}

\* Firmware bytes are only read from a block that is still allocated, inside
\* both the block and what the second call delivered; and what a parser
\* relies on lies inside the bytes the checksum covered.  Holds although the
\* announced size, the delivered size and the Length field may all disagree.
NoOverread ==
    /\ readTo <= rawSize /\ (readTo > 0 => readTo <= needed)
    /\ parsedTo <= table.length
    /\ pc \in {"header", "parse", "madt_walk", "madt_entry", "mcfg_walk"}
          => "raw" \in heap

\* On every path out of acpi_collect, failed allocations and refused tables
\* included, each block has been freed exactly once.
HeapBalanced == ~badFree /\ (pc = "done" => heap = {})

\* A table is reported as available only if its own summary says that its
\* checksum was right and its length sufficient, and never with more entries
\* than those bytes can hold.  Of several tables with one signature the
\* record is entirely the last valid one's, unavailable if that one was too
\* short: nothing of an earlier table survives in it.
OnlyCheckedTablesReported ==
    \A sig \in Parsers :
        LET n == out[sig].summary
            s == out.discovered[n]
        IN /\ out[sig].available =>
                 /\ n \in DOMAIN out.discovered
                 /\ s.sig = sig /\ s.valid /\ s.length >= MinLength[sig]
                 /\ MinLength[sig]
                       + out[sig].entries * (IF sig = "MCFG" THEN 16 ELSE 8)
                       <= s.length
           /\ pc # "parse" =>
                 \A k \in (n + 1)..Len(out.discovered) :
                     ~(out.discovered[k].sig = sig /\ out.discovered[k].valid)

\* acpi_collect returns, whatever lengths the MADT's entries claim.
Terminates == <>(pc = "done")
=============================================================================
