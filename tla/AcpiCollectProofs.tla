------------------------- MODULE AcpiCollectProofs --------------------------
(***************************************************************************)
(* Proofs about acpi_collect, for any tables and any sizes of its arrays.  *)
(***************************************************************************)
EXTENDS AcpiCollect, SequenceTheorems, TLAPS

(***************************************************************************)
(* The inductive invariant, by what it speaks of: the types, the heap, the *)
(* block the table was fetched into, and the records of the report.        *)
(***************************************************************************)
TableType == [sig : Signatures, length : Nat, valid : BOOLEAN]
InfoType  == [available : BOOLEAN, entries : Nat, summary : Nat]

\* Places in the loop over signatures, by what they hold.
BeforeRaw == {"loop", "probe", "alloc", "free_sigs"}
Parsing   == {"parse", "madt_walk", "madt_entry", "mcfg_walk"}
WithRaw   == {"fetch", "header", "summary", "free_raw"} \cup Parsing

OutType   == [discovered : Seq(TableType), FACP : InfoType, APIC : InfoType,
              MCFG : InfoType, HPET : InfoType]

OutTypes == out \in OutType /\ entry \in [type : Nat, len : Nat]

Places ==
    /\ pc \in {"enum_probe", "enum_alloc", "enum_fetch", "enum_copy", "done"}
              \cup BeforeRaw \cup WithRaw
    /\ result \in {"none", "true", "false"}

\* No signature is consumed before they are all there.
Numbers ==
    /\ needed \in Nat /\ count \in Nat /\ i \in 0..count
    /\ rawSize \in Nat /\ p \in Nat /\ readTo \in Nat /\ parsedTo \in Nat
    /\ table \in TableType
    /\ pc \in {"enum_probe", "enum_alloc", "enum_fetch", "enum_copy"} => i = 0

\* discovered[] was seen to have room when the loop was entered.
ArrayLimits ==
    /\ Len(out.discovered) <= ACPI_MAX_DISCOVERED_TABLES
    /\ pc \in {"probe", "alloc", "fetch", "header", "summary"} =>
          Len(out.discovered) < ACPI_MAX_DISCOVERED_TABLES
    /\ out.APIC.entries <= ACPI_MAX_PROCESSORS
    /\ out.MCFG.entries <= ACPI_MAX_MCFG_ENTRIES

HeapByPlace ==
    /\ badFree = FALSE
    /\ pc \in {"enum_probe", "enum_alloc", "done"} => heap = {}
    /\ pc \in {"enum_fetch", "enum_copy"} => heap = {"buf"}
    /\ pc \in BeforeRaw => heap = {"sigs"}
    /\ pc \in WithRaw => heap = {"sigs", "raw"}

\* The block's three sizes, and the reads, in their order.  Before the header
\* has been read nothing is known and nothing was read.
BufferUse ==
    /\ parsedTo <= table.length /\ table.length <= rawSize
    /\ readTo <= rawSize
    /\ pc \in WithRaw \ {"fetch"} => rawSize <= needed
    /\ pc \notin WithRaw \ {"fetch"} => rawSize = 0
    /\ pc \in {"summary"} \cup Parsing => rawSize >= HeaderSize
    /\ pc \notin WithRaw \ {"fetch", "header"} => readTo = 0 /\ table.length = 0

\* While a table is parsed its summary is the newest one.
Cursor ==
    /\ pc \in Parsing =>
          /\ Len(out.discovered) > 0 /\ out.discovered[Len(out.discovered)] = table
          /\ table.valid /\ table.sig \in Parsers
    /\ pc \in {"madt_walk", "madt_entry"} =>
          /\ table.sig = "APIC" /\ out.APIC.summary = Len(out.discovered)
          /\ MinLength["APIC"] + 8 * out.APIC.entries <= p
          /\ p <= table.length
    /\ pc = "madt_entry" => p + 2 <= table.length
    /\ pc = "mcfg_walk" =>
          /\ table.sig = "MCFG" /\ out.MCFG.summary = Len(out.discovered)
          /\ MinLength["MCFG"] + 16 * out.MCFG.entries <= p
          /\ p <= table.length

EntrySize(sig) == IF sig = "MCFG" THEN 16 ELSE 8

\* The summary a record points to is of a valid table of its signature that
\* has room for the entries.
Covers(sig, info) ==
    LET s == out.discovered[info.summary] IN
    /\ info.summary \in 1..Len(out.discovered)
    /\ s.sig = sig /\ s.valid
    /\ MinLength[sig] + EntrySize(sig) * info.entries <= s.length

Counted == \A sig \in Parsers : out[sig].available => Covers(sig, out[sig])

\* No valid table with its signature came after it, but for the one that is
\* about to be parsed.
LastOne ==
    \A sig \in Parsers :
        /\ out[sig].summary <= Len(out.discovered)
        /\ \A k \in 1..Len(out.discovered) :
              k > out[sig].summary /\ out.discovered[k].sig = sig
                  /\ out.discovered[k].valid
              => pc = "parse" /\ k = Len(out.discovered)

AcpiInv == Places /\ Numbers /\ OutTypes /\ ArrayLimits /\ HeapByPlace
           /\ BufferUse /\ Cursor /\ Counted /\ LastOne

-----------------------------------------------------------------------------
(***************************************************************************)
(* The heap.                                                               *)
(***************************************************************************)
\* What is allocated follows from the place alone.
LEMMA HeapStep ==
    ASSUME HeapByPlace, [Next]_vars PROVE HeapByPlace'
<1> USE DEF HeapByPlace, BeforeRaw, Parsing, WithRaw, Goto, Fail, heapVars,
            Malloc, Free, WalkEnds
<1>1. CASE EnumProbe
    BY <1>1 DEF EnumProbe, Fail
<1>2. CASE EnumAlloc
    BY <1>2 DEF EnumAlloc, Fail
<1>3. CASE EnumFetch
    BY <1>3 DEF EnumFetch, Fail
<1>4. CASE EnumCopy
    BY <1>4 DEF EnumCopy, Fail
<1>5. CASE LoopHead
    BY <1>5 DEF LoopHead
<1>6. CASE TableProbe
    BY <1>6 DEF TableProbe
<1>7. CASE TableAlloc
    BY <1>7 DEF TableAlloc
<1>8. CASE TableFetch
    BY <1>8 DEF TableFetch
<1>9. CASE ReadHeader
    BY <1>9 DEF ReadHeader
<1>10. CASE RecordSummary
    BY <1>10 DEF RecordSummary
<1>11. CASE ParseFixed
    BY <1>11 DEF ParseFixed
<1>12. CASE MadtReadEntry
    BY <1>12 DEF MadtReadEntry
<1>13. CASE MadtTakeEntry
    BY <1>13 DEF MadtTakeEntry
<1>14. CASE McfgWalk
    BY <1>14 DEF McfgWalk
<1>15. CASE FreeRaw
    BY <1>15 DEF FreeRaw
<1>16. CASE FreeSigs
    BY <1>16 DEF FreeSigs
<1>17. CASE UNCHANGED vars
    BY <1>17 DEF vars, heapVars, bufferVars
<1> QED BY <1>1, <1>2, <1>3, <1>4, <1>5, <1>6, <1>7, <1>8, <1>9, <1>10, <1>11, <1>12, <1>13, <1>14, <1>15, <1>16, <1>17 DEF Next

-----------------------------------------------------------------------------
(***************************************************************************)
(* Changes of *out.                                                        *)
(***************************************************************************)
\* A parser's record is replaced and nothing else.
LEMMA InfoUpdate ==
    ASSUME out \in OutType, NEW sig \in Parsers, NEW info \in InfoType,
           out' = [out EXCEPT ![sig] = info]
    PROVE  /\ out' \in OutType
           /\ out'.discovered = out.discovered
           /\ out'[sig] = info
           /\ \A other \in Parsers \ {sig} : out'[other] = out[other]
<1> USE DEF OutType, Parsers
<1>1. CASE sig = "FACP"
    BY <1>1
<1>2. CASE sig = "APIC"
    BY <1>2
<1>3. CASE sig = "MCFG"
    BY <1>3
<1>4. CASE sig = "HPET"
    BY <1>4
<1> QED BY <1>1, <1>2, <1>3, <1>4

\* A summary is appended and nothing else changes.
LEMMA SummaryUpdate ==
    ASSUME out \in OutType, table \in TableType,
           out' = [out EXCEPT !.discovered = Append(@, table)]
    PROVE  /\ out' \in OutType
           /\ Len(out'.discovered) = Len(out.discovered) + 1
           /\ out'.discovered[Len(out'.discovered)] = table
           /\ \A k \in 1..Len(out.discovered) : out'.discovered[k] = out.discovered[k]
           /\ \A sig \in Parsers : out'[sig] = out[sig]
<1>1. out.discovered \in Seq(TableType)
    BY DEF OutType
<1>2. out'.discovered = Append(out.discovered, table)
    BY DEF OutType
<1>3. /\ out'.discovered \in Seq(TableType)
      /\ Len(out'.discovered) = Len(out.discovered) + 1
      /\ out'.discovered[Len(out'.discovered)] = table
      /\ \A k \in 1..Len(out.discovered) : out'.discovered[k] = out.discovered[k]
    BY <1>1, <1>2
<1>4. out' \in OutType /\ \A sig \in Parsers : out'[sig] = out[sig]
    BY <1>3 DEF OutType, Parsers
<1> QED BY <1>3, <1>4

\* ParseFixed starts the record of the table's signature anew.
LEMMA ParseEffect ==
    ASSUME Numbers, OutTypes, Cursor, ParseFixed
    PROVE  \E avail \in BOOLEAN :
              LET info == [available |-> avail, entries |-> 0,
                           summary |-> Len(out.discovered)]
              IN /\ info \in InfoType
                 /\ out' = [out EXCEPT ![table.sig] = info]
                 /\ avail => table.length >= MinLength[table.sig]
                 /\ avail => pc' = "free_raw"
<1>1. Len(out.discovered) \in Nat
    BY DEF OutTypes, OutType
<1>2. table.sig \in Parsers
    BY DEF ParseFixed, Cursor, Parsing
<1>3. MinLength[table.sig] \in Nat /\ table.length \in Nat
    BY <1>2 DEF Parsers, MinLength, HeaderSize, Numbers, TableType
<1>4. CASE table.length < MinLength[table.sig]
    <2>1. out' = [out EXCEPT ![table.sig] = Parsed(FALSE, 0)]
        BY <1>4 DEF ParseFixed
    <2> QED BY <1>1, <2>1 DEF Parsed, Summary, InfoType
<1>5. CASE ~(table.length < MinLength[table.sig])
    <2> DEFINE a == table.sig \in {"FACP", "HPET"}
    <2>1. out' = [out EXCEPT ![table.sig] = Parsed(a, 0)]
        BY <1>5, Zenon DEF ParseFixed
    <2>2. a => pc' = "free_raw"
        BY <1>5 DEF ParseFixed, Goto
    <2>3. a \in BOOLEAN
        OBVIOUS
    <2>4. table.length >= MinLength[table.sig]
        BY <1>3, <1>5
    <2>5. [available |-> a, entries |-> 0, summary |-> Len(out.discovered)] \in InfoType
        BY <1>1, <2>3 DEF InfoType
    <2> QED BY <2>1, <2>2, <2>3, <2>4, <2>5, Zenon DEF Parsed, Summary
<1> QED BY <1>4, <1>5

\* The end of a walk makes the record available and leaves its count.
LEMMA WalkEffect ==
    ASSUME out \in OutType, NEW sig \in {"APIC", "MCFG"}, WalkEnds(sig)
    PROVE  \E info \in InfoType :
              /\ out' = [out EXCEPT ![sig] = info]
              /\ info.entries = out[sig].entries /\ info.summary = out[sig].summary
<1> DEFINE info == [out[sig] EXCEPT !.available = TRUE]
<1>1. out[sig] \in InfoType
    BY DEF OutType
<1>2. info \in InfoType /\ info.entries = out[sig].entries
      /\ info.summary = out[sig].summary
    BY <1>1 DEF InfoType
<1>3. out' = [out EXCEPT ![sig] = info]
    BY DEF WalkEnds
<1> QED BY <1>2, <1>3, Zenon

\* An entry is counted and nothing else changes.
LEMMA CountEffect ==
    ASSUME out \in OutType, NEW sig \in {"APIC", "MCFG"},
           out' = [out EXCEPT ![sig].entries = @ + 1]
    PROVE  \E info \in InfoType :
              /\ out' = [out EXCEPT ![sig] = info]
              /\ info.available = out[sig].available
              /\ info.entries = out[sig].entries + 1
              /\ info.summary = out[sig].summary
<1> DEFINE info == [out[sig] EXCEPT !.entries = @ + 1]
<1>1. out[sig] \in InfoType
    BY DEF OutType
<1>2. info \in InfoType /\ info.entries = out[sig].entries + 1
      /\ info.summary = out[sig].summary
    BY <1>1 DEF InfoType
<1>3. info.available = out[sig].available
    BY <1>1 DEF InfoType
<1>4. out' = [out EXCEPT ![sig] = info]
    OBVIOUS
<1> QED BY <1>2, <1>3, <1>4, Zenon

\* Whatever is done, the records of *out and the entry keep their types.
LEMMA OutStep ==
    ASSUME Numbers, OutTypes, Cursor, [Next]_vars PROVE OutTypes'
<1> USE DEF OutTypes, bufferVars
<1>1. CASE EnumProbe
    BY <1>1 DEF EnumProbe, Fail
<1>2. CASE EnumAlloc
    BY <1>2 DEF EnumAlloc, Fail
<1>3. CASE EnumFetch
    BY <1>3 DEF EnumFetch, Fail
<1>4. CASE EnumCopy
    BY <1>4 DEF EnumCopy, Fail
<1>5. CASE LoopHead
    BY <1>5 DEF LoopHead
<1>6. CASE TableProbe
    BY <1>6 DEF TableProbe
<1>7. CASE TableAlloc
    BY <1>7 DEF TableAlloc
<1>8. CASE TableFetch
    BY <1>8 DEF TableFetch
<1>9. CASE ReadHeader
    BY <1>9 DEF ReadHeader
<1>10. CASE RecordSummary
    BY <1>10, SummaryUpdate DEF RecordSummary, Numbers
<1>11. CASE ParseFixed
    <2>1. table.sig \in Parsers
        BY <1>11 DEF ParseFixed, Cursor, Parsing
    <2>2. PICK info \in InfoType : out' = [out EXCEPT ![table.sig] = info]
        BY <1>11, ParseEffect
    <2> QED BY <1>11, <2>1, <2>2, InfoUpdate DEF ParseFixed
<1>12. CASE MadtReadEntry
    <2>1. out' \in OutType
        <3>1. CASE WalkEnds("APIC")
            BY <3>1, WalkEffect, InfoUpdate DEF Parsers
        <3>2. CASE UNCHANGED out
            BY <3>2
        <3> QED BY <1>12, <3>1, <3>2 DEF MadtReadEntry
    <2>2. entry' \in [type : Nat, len : Nat]
        <3>1. CASE entry' \in [type : EntryTypes, len : EntryLengths]
            BY <3>1, AcpiAssumption
        <3>2. CASE UNCHANGED entry
            BY <3>2
        <3> QED BY <1>12, <3>1, <3>2 DEF MadtReadEntry
    <2> QED BY <2>1, <2>2
<1>13. CASE MadtTakeEntry
    <2>1. CASE WalkEnds("APIC")
        BY <1>13, <2>1, WalkEffect, InfoUpdate DEF MadtTakeEntry, Parsers
    <2>2. CASE UNCHANGED out
        BY <1>13, <2>2 DEF MadtTakeEntry
    <2>3. CASE out' = [out EXCEPT !.APIC.entries = @ + 1]
        BY <1>13, <2>3, CountEffect, InfoUpdate DEF MadtTakeEntry, Parsers
    <2> QED BY <1>13, <2>1, <2>2, <2>3 DEF MadtTakeEntry
<1>14. CASE McfgWalk
    <2>1. CASE WalkEnds("MCFG")
        BY <1>14, <2>1, WalkEffect, InfoUpdate DEF McfgWalk, Parsers
    <2>2. CASE out' = [out EXCEPT !.MCFG.entries = @ + 1]
        BY <1>14, <2>2, CountEffect, InfoUpdate DEF McfgWalk, Parsers
    <2> QED BY <1>14, <2>1, <2>2 DEF McfgWalk
<1>15. CASE FreeRaw
    BY <1>15 DEF FreeRaw, NoEntry
<1>16. CASE FreeSigs
    BY <1>16 DEF FreeSigs
<1>17. CASE UNCHANGED vars
    BY <1>17 DEF vars, heapVars, bufferVars
<1> QED BY <1>1, <1>2, <1>3, <1>4, <1>5, <1>6, <1>7, <1>8, <1>9, <1>10, <1>11, <1>12, <1>13, <1>14, <1>15, <1>16, <1>17 DEF Next

-----------------------------------------------------------------------------
(***************************************************************************)
(* The block the table was fetched into.                                   *)
(***************************************************************************)
\* The fixed fields lie inside the length a parser asks for.
LEMMA Limits ==
    ASSUME NEW sig \in Parsers
    PROVE  /\ MinLength[sig] \in Nat /\ FixedEnd[sig] \in Nat
           /\ FixedEnd[sig] <= MinLength[sig]
BY DEF Parsers, MinLength, FixedEnd, HeaderSize

\* Each step computes naturals from naturals.
LEMMA NumbersStep ==
    ASSUME Numbers, OutTypes, Cursor, [Next]_vars PROVE Numbers'
<1>0. entry.len \in Nat
    BY DEF OutTypes
<1> USE <1>0, AcpiAssumption DEF Numbers, bufferVars, ReadUpTo, Larger, Goto
<1>1. CASE EnumProbe
    BY <1>1 DEF EnumProbe, Fail
<1>2. CASE EnumAlloc
    BY <1>2 DEF EnumAlloc, Fail
<1>3. CASE EnumFetch
    BY <1>3 DEF EnumFetch, Fail
<1>4. CASE EnumCopy
    BY <1>4 DEF EnumCopy, Fail
<1>5. CASE LoopHead
    BY <1>5 DEF LoopHead
<1>6. CASE TableProbe
    BY <1>6 DEF TableProbe
<1>7. CASE TableAlloc
    BY <1>7 DEF TableAlloc
<1>8. CASE TableFetch
    BY <1>8 DEF TableFetch
<1>9. CASE ReadHeader
    <2>1. CASE UNCHANGED <<table, readTo>>
        BY <1>9, <2>1 DEF ReadHeader
    <2>2. ASSUME NEW length \in HeaderLengths, NEW sig \in Signatures,
                 NEW valid \in BOOLEAN,
                 table' = [sig |-> sig, valid |-> valid,
                           length |-> EffectiveLength(rawSize, length)],
                 ReadUpTo(Larger(HeaderSize, EffectiveLength(rawSize, length)))
          PROVE  table' \in TableType /\ readTo' \in Nat
        <3>1. EffectiveLength(rawSize, length) \in Nat
            BY DEF EffectiveLength
        <3>2. table' \in TableType
            BY <2>2, <3>1 DEF TableType
        <3> QED BY <2>2, <3>1, <3>2 DEF HeaderSize
    <2> QED BY <1>9, <2>1, <2>2 DEF ReadHeader
<1>10. CASE RecordSummary
    BY <1>10 DEF RecordSummary
<1>11. CASE ParseFixed
    <2>1. MinLength[table.sig] \in Nat /\ FixedEnd[table.sig] \in Nat
        BY <1>11, Limits DEF ParseFixed, Cursor, Parsing
    <2> QED BY <1>11, <2>1 DEF ParseFixed, Trust
<1>12. CASE MadtReadEntry
    BY <1>12 DEF MadtReadEntry, Trust, WalkEnds
<1>13. CASE MadtTakeEntry
    <2>1. EntryEnd(entry.type) \in Nat
        BY DEF EntryEnd
    <2> QED BY <1>13, <2>1 DEF MadtTakeEntry, Trust, WalkEnds
<1>14. CASE McfgWalk
    BY <1>14 DEF McfgWalk, Trust, WalkEnds
<1>15. CASE FreeRaw
    BY <1>15 DEF FreeRaw, NoTable, TableType, Signatures
<1>16. CASE FreeSigs
    BY <1>16 DEF FreeSigs
<1>17. CASE UNCHANGED vars
    BY <1>17 DEF vars, heapVars, bufferVars
<1> QED BY <1>1, <1>2, <1>3, <1>4, <1>5, <1>6, <1>7, <1>8, <1>9, <1>10, <1>11, <1>12, <1>13, <1>14, <1>15, <1>16, <1>17 DEF Next

\* No read leaves the block, nor the bytes the checksum covered.
LEMMA BufferStep ==
    ASSUME Numbers, OutTypes, BufferUse, Cursor, [Next]_vars PROVE BufferUse'
<1>0. table.length \in Nat
    BY DEF Numbers, TableType
<1> USE <1>0 DEF Numbers, BufferUse, WithRaw, Parsing, Goto, bufferVars, ReadUpTo,
            Larger, HeaderSize
<1>1. CASE EnumProbe
    BY <1>1 DEF EnumProbe, Fail
<1>2. CASE EnumAlloc
    BY <1>2 DEF EnumAlloc, Fail
<1>3. CASE EnumFetch
    BY <1>3 DEF EnumFetch, Fail
<1>4. CASE EnumCopy
    BY <1>4 DEF EnumCopy, Fail
<1>5. CASE LoopHead
    BY <1>5 DEF LoopHead
<1>6. CASE TableProbe
    BY <1>6 DEF TableProbe
<1>7. CASE TableAlloc
    BY <1>7 DEF TableAlloc
<1>8. CASE TableFetch
    BY <1>8, AcpiAssumption DEF TableFetch
<1>9. CASE ReadHeader
    <2>1. CASE UNCHANGED <<table, readTo>>
        BY <1>9, <2>1 DEF ReadHeader
    <2>2. ASSUME NEW length \in HeaderLengths, NEW sig \in Signatures,
                 NEW valid \in BOOLEAN, rawSize >= HeaderSize, pc' = "summary",
                 table' = [sig |-> sig, valid |-> valid,
                           length |-> EffectiveLength(rawSize, length)],
                 ReadUpTo(Larger(HeaderSize, EffectiveLength(rawSize, length)))
          PROVE  BufferUse'
        <3>1. EffectiveLength(rawSize, length) \in 0..rawSize
            BY AcpiAssumption DEF EffectiveLength
        <3>2. table'.length = EffectiveLength(rawSize, length)
            BY <2>2
        <3>3. pc = "header" /\ UNCHANGED <<rawSize, needed, parsedTo>>
            BY <1>9 DEF ReadHeader
        <3> QED BY <2>2, <3>1, <3>2, <3>3
    <2> QED BY <1>9, <2>1, <2>2 DEF ReadHeader
<1>10. CASE RecordSummary
    BY <1>10 DEF RecordSummary
<1>11. CASE ParseFixed
    <2>1. MinLength[table.sig] \in Nat /\ FixedEnd[table.sig] \in Nat
          /\ FixedEnd[table.sig] <= MinLength[table.sig]
        BY <1>11, Limits DEF ParseFixed, Cursor
    <2>2. pc' \in {"free_raw", "madt_walk", "mcfg_walk"}
          /\ UNCHANGED <<rawSize, table, needed>>
        BY <1>11 DEF ParseFixed
    <2>3. CASE UNCHANGED <<p, readTo, parsedTo>>
        BY <1>11, <2>2, <2>3 DEF ParseFixed
    <2>4. CASE table.length >= MinLength[table.sig] /\ Trust(FixedEnd[table.sig])
        BY <1>11, <2>1, <2>2, <2>4 DEF ParseFixed, Trust
    <2>5. \/ UNCHANGED <<p, readTo, parsedTo>>
          \/ ~(table.length < MinLength[table.sig]) /\ Trust(FixedEnd[table.sig])
        BY <1>11, Zenon DEF ParseFixed
    <2> QED BY <2>1, <2>3, <2>4, <2>5
<1>12. CASE MadtReadEntry
    BY <1>12 DEF MadtReadEntry, Trust, MadtHasEntry, WalkEnds
<1>13. CASE MadtTakeEntry
    <2>1. entry.len \in Nat /\ EntryEnd(entry.type) \in Nat
        BY DEF EntryEnd, OutTypes
    <2>2. IsProcessor(entry.type, entry.len) => EntryEnd(entry.type) <= entry.len
        BY <2>1 DEF IsProcessor, EntryEnd
    <2> QED BY <1>13, <2>1, <2>2 DEF MadtTakeEntry, Trust, MadtMalformed, WalkEnds
<1>14. CASE McfgWalk
    BY <1>14 DEF McfgWalk, Trust, WalkEnds
<1>15. CASE FreeRaw
    BY <1>15 DEF FreeRaw, NoTable
<1>16. CASE FreeSigs
    BY <1>16 DEF FreeSigs
<1>17. CASE UNCHANGED vars
    BY <1>17 DEF vars, heapVars, bufferVars
<1> QED BY <1>1, <1>2, <1>3, <1>4, <1>5, <1>6, <1>7, <1>8, <1>9, <1>10, <1>11, <1>12, <1>13, <1>14, <1>15, <1>16, <1>17 DEF Next

-----------------------------------------------------------------------------
(***************************************************************************)
(* Places and array limits.                                                *)
(***************************************************************************)
\* Every step goes to one of the places.
LEMMA PlacesStep == ASSUME Places, [Next]_vars PROVE Places'
<1> USE DEF Places, BeforeRaw, WithRaw, Parsing, Goto, Fail, WalkEnds
<1>1. CASE EnumProbe
    BY <1>1 DEF EnumProbe
<1>2. CASE EnumAlloc
    BY <1>2 DEF EnumAlloc
<1>3. CASE EnumFetch
    BY <1>3 DEF EnumFetch
<1>4. CASE EnumCopy
    BY <1>4 DEF EnumCopy
<1>5. CASE LoopHead
    BY <1>5 DEF LoopHead
<1>6. CASE TableProbe
    BY <1>6 DEF TableProbe
<1>7. CASE TableAlloc
    BY <1>7 DEF TableAlloc
<1>8. CASE TableFetch
    BY <1>8 DEF TableFetch
<1>9. CASE ReadHeader
    BY <1>9 DEF ReadHeader
<1>10. CASE RecordSummary
    BY <1>10 DEF RecordSummary
<1>11. CASE ParseFixed
    BY <1>11 DEF ParseFixed
<1>12. CASE MadtReadEntry
    BY <1>12 DEF MadtReadEntry
<1>13. CASE MadtTakeEntry
    BY <1>13 DEF MadtTakeEntry
<1>14. CASE McfgWalk
    BY <1>14 DEF McfgWalk
<1>15. CASE FreeRaw
    BY <1>15 DEF FreeRaw
<1>16. CASE FreeSigs
    BY <1>16 DEF FreeSigs
<1>17. CASE UNCHANGED vars
    BY <1>17 DEF vars, heapVars, bufferVars
<1> QED BY <1>1, <1>2, <1>3, <1>4, <1>5, <1>6, <1>7, <1>8, <1>9, <1>10, <1>11, <1>12, <1>13, <1>14, <1>15, <1>16, <1>17 DEF Next

\* No array of AcpiData is filled beyond its end.
LEMMA LimitsStep ==
    ASSUME Numbers, OutTypes, Cursor, ArrayLimits, [Next]_vars PROVE ArrayLimits'
<1>0. /\ Len(out.discovered) \in Nat /\ out.APIC \in InfoType /\ out.MCFG \in InfoType
      /\ out.APIC.entries \in Nat /\ out.MCFG.entries \in Nat
    BY DEF OutTypes, OutType, InfoType
<1> USE <1>0, AcpiAssumption DEF ArrayLimits, Goto, Fail
<1>1. CASE EnumProbe
    BY <1>1 DEF EnumProbe
<1>2. CASE EnumAlloc
    BY <1>2 DEF EnumAlloc
<1>3. CASE EnumFetch
    BY <1>3 DEF EnumFetch
<1>4. CASE EnumCopy
    BY <1>4 DEF EnumCopy
<1>5. CASE LoopHead
    BY <1>5 DEF LoopHead
<1>6. CASE TableProbe
    BY <1>6 DEF TableProbe
<1>7. CASE TableAlloc
    BY <1>7 DEF TableAlloc
<1>8. CASE TableFetch
    BY <1>8 DEF TableFetch
<1>9. CASE ReadHeader
    BY <1>9 DEF ReadHeader
<1>10. CASE RecordSummary
    <2>1. /\ Len(out'.discovered) = Len(out.discovered) + 1
          /\ out'.APIC = out.APIC /\ out'.MCFG = out.MCFG
        BY <1>10, SummaryUpdate DEF RecordSummary, Numbers, OutTypes, Parsers
    <2> QED BY <1>10, <2>1 DEF RecordSummary
<1>11. CASE ParseFixed
    <2>1. table.sig \in Parsers
        BY <1>11 DEF ParseFixed, Cursor, Parsing
    <2>2. PICK info \in InfoType :
             info.entries = 0 /\ out' = [out EXCEPT ![table.sig] = info]
        BY <1>11, ParseEffect
    <2>3. out'.discovered = out.discovered
          /\ \A sig \in Parsers : out'[sig] \in {info, out[sig]}
        BY <2>1, <2>2, InfoUpdate DEF OutTypes
    <2>4. out'.APIC \in {info, out.APIC} /\ out'.MCFG \in {info, out.MCFG}
        BY <2>3 DEF Parsers
    <2>5. pc' \in {"free_raw", "madt_walk", "mcfg_walk"}
        BY <1>11 DEF ParseFixed
    <2> QED BY <2>2, <2>3, <2>4, <2>5
<1>12. CASE MadtReadEntry
    <2>1. /\ out'.discovered = out.discovered /\ out'.MCFG = out.MCFG
          /\ out'.APIC.entries = out.APIC.entries
        <3>1. CASE WalkEnds("APIC")
            BY <3>1, WalkEffect, InfoUpdate DEF Parsers, OutTypes
        <3>2. CASE UNCHANGED out
            BY <3>2
        <3> QED BY <1>12, <3>1, <3>2 DEF MadtReadEntry
    <2>2. pc' \in {"madt_entry", "free_raw"}
        BY <1>12 DEF MadtReadEntry, WalkEnds
    <2> QED BY <2>1, <2>2
<1>13. CASE MadtTakeEntry
    <2>1. /\ out'.discovered = out.discovered /\ out'.MCFG = out.MCFG
          /\ \/ out'.APIC.entries = out.APIC.entries
             \/ RoomForProcessor /\ out'.APIC.entries = out.APIC.entries + 1
        <3>1. CASE WalkEnds("APIC")
            BY <3>1, WalkEffect, InfoUpdate DEF Parsers, OutTypes
        <3>2. CASE UNCHANGED out
            BY <3>2
        <3>3. CASE RoomForProcessor /\ out' = [out EXCEPT !.APIC.entries = @ + 1]
            BY <3>3, CountEffect, InfoUpdate DEF Parsers, OutTypes
        <3> QED BY <1>13, <3>1, <3>2, <3>3 DEF MadtTakeEntry
    <2>2. pc' \in {"madt_walk", "free_raw"}
        BY <1>13 DEF MadtTakeEntry, WalkEnds
    <2> QED BY <2>1, <2>2 DEF RoomForProcessor
<1>14. CASE McfgWalk
    <2>1. /\ out'.discovered = out.discovered /\ out'.APIC = out.APIC
          /\ \/ out'.MCFG.entries = out.MCFG.entries
             \/ /\ out.MCFG.entries < ACPI_MAX_MCFG_ENTRIES
                /\ out'.MCFG.entries = out.MCFG.entries + 1
        <3>1. CASE WalkEnds("MCFG")
            BY <3>1, WalkEffect, InfoUpdate DEF Parsers, OutTypes
        <3>2. CASE /\ out.MCFG.entries < ACPI_MAX_MCFG_ENTRIES
                   /\ out' = [out EXCEPT !.MCFG.entries = @ + 1]
            BY <3>2, CountEffect, InfoUpdate DEF Parsers, OutTypes
        <3> QED BY <1>14, <3>1, <3>2 DEF McfgWalk
    <2>2. pc' \in {"mcfg_walk", "free_raw"}
        BY <1>14 DEF McfgWalk, WalkEnds
    <2> QED BY <2>1, <2>2
<1>15. CASE FreeRaw
    BY <1>15 DEF FreeRaw
<1>16. CASE FreeSigs
    BY <1>16 DEF FreeSigs
<1>17. CASE UNCHANGED vars
    BY <1>17 DEF vars, heapVars, bufferVars
<1> QED BY <1>1, <1>2, <1>3, <1>4, <1>5, <1>6, <1>7, <1>8, <1>9, <1>10, <1>11, <1>12, <1>13, <1>14, <1>15, <1>16, <1>17 DEF Next

-----------------------------------------------------------------------------
(***************************************************************************)
(* The records of the report.                                              *)
(***************************************************************************)
\* The walks stay inside the table and count no more entries than they pass.
LEMMA CursorStep ==
    ASSUME Numbers, OutTypes, Cursor, [Next]_vars PROVE Cursor'
<1>0. /\ table.length \in Nat /\ p \in Nat
      /\ out.APIC.entries \in Nat /\ out.MCFG.entries \in Nat
      /\ entry.len \in Nat
      /\ MinLength["APIC"] = 44 /\ MinLength["MCFG"] = 44
    BY DEF Numbers, TableType, OutTypes, OutType, InfoType, MinLength, HeaderSize
<1> USE <1>0 DEF Cursor, Parsing, Goto, Fail, bufferVars
<1>1. CASE EnumProbe
    BY <1>1 DEF EnumProbe
<1>2. CASE EnumAlloc
    BY <1>2 DEF EnumAlloc
<1>3. CASE EnumFetch
    BY <1>3 DEF EnumFetch
<1>4. CASE EnumCopy
    BY <1>4 DEF EnumCopy
<1>5. CASE LoopHead
    BY <1>5 DEF LoopHead
<1>6. CASE TableProbe
    BY <1>6 DEF TableProbe
<1>7. CASE TableAlloc
    BY <1>7 DEF TableAlloc
<1>8. CASE TableFetch
    BY <1>8 DEF TableFetch
<1>9. CASE ReadHeader
    BY <1>9 DEF ReadHeader
<1>10. CASE RecordSummary
    <2>1. /\ out' \in OutType
          /\ Len(out'.discovered) = Len(out.discovered) + 1
          /\ out'.discovered[Len(out'.discovered)] = table
        BY <1>10, SummaryUpdate DEF RecordSummary, Numbers, OutTypes
    <2>2. Len(out.discovered) \in Nat
        BY DEF OutTypes, OutType
    <2>3. /\ table' = table
          /\ \/ pc' = "parse" /\ table.valid /\ table.sig # "OTHER"
             \/ pc' = "free_raw"
        BY <1>10, Zenon DEF RecordSummary, Goto, bufferVars
    <2>4. table.sig # "OTHER" => table.sig \in Parsers
        BY DEF Numbers, TableType, Signatures, Parsers
    <2> QED BY <2>1, <2>2, <2>3, <2>4
<1>11. CASE ParseFixed
    <2>1. table.sig \in Parsers /\ UNCHANGED table
        BY <1>11 DEF ParseFixed
    <2>2. PICK info \in InfoType :
             /\ info.entries = 0 /\ info.summary = Len(out.discovered)
             /\ out' = [out EXCEPT ![table.sig] = info]
        BY <1>11, ParseEffect
    <2>3. out'.discovered = out.discovered /\ out'[table.sig] = info
        BY <2>1, <2>2, InfoUpdate DEF OutTypes
    <2>4. CASE table.length < MinLength[table.sig]
        BY <1>11, <2>4 DEF ParseFixed
    <2>5. CASE ~(table.length < MinLength[table.sig])
        <3>1. /\ p' = MinLength[table.sig]
              /\ pc' = CASE table.sig = "APIC" -> "madt_walk"
                         [] table.sig = "MCFG" -> "mcfg_walk"
                         [] OTHER -> "free_raw"
            BY <1>11, <2>5, Zenon DEF ParseFixed, Goto
        <3>2. MinLength[table.sig] \in Nat
            BY <2>1, Limits
        <3>3. /\ Len(out'.discovered) > 0
              /\ out'.discovered[Len(out'.discovered)] = table
              /\ table.valid
            BY <1>11, <2>3 DEF ParseFixed
        <3>4. CASE table.sig = "APIC"
            <4>1. pc' = "madt_walk" /\ p' = 44 /\ 44 <= table.length
                BY <2>5, <3>1, <3>4
            <4>2. out'.APIC.entries = 0
                  /\ out'.APIC.summary = Len(out'.discovered)
                BY <2>2, <2>3, <3>4
            <4> QED BY <2>1, <3>3, <3>4, <4>1, <4>2
        <3>5. CASE table.sig = "MCFG"
            <4>1. pc' = "mcfg_walk" /\ p' = 44 /\ 44 <= table.length
                BY <2>5, <3>1, <3>5
            <4>2. out'.MCFG.entries = 0
                  /\ out'.MCFG.summary = Len(out'.discovered)
                BY <2>2, <2>3, <3>5
            <4> QED BY <2>1, <3>3, <3>5, <4>1, <4>2
        <3>6. CASE table.sig \notin {"APIC", "MCFG"}
            BY <2>1, <3>1, <3>6
        <3> QED BY <3>4, <3>5, <3>6
    <2> QED BY <2>4, <2>5
<1>12. CASE MadtReadEntry
    BY <1>12 DEF MadtReadEntry, WalkEnds, MadtHasEntry
<1>13. CASE MadtTakeEntry
    <2>1. CASE WalkEnds("APIC")
        BY <2>1 DEF WalkEnds
    <2>2. CASE /\ ~MadtMalformed(entry.len) /\ p' = p + entry.len
               /\ pc' = "madt_walk" /\ UNCHANGED out
        BY <1>13, <2>2 DEF MadtTakeEntry, MadtMalformed, OutTypes
    <2>3. CASE /\ ~MadtMalformed(entry.len) /\ p' = p + entry.len
               /\ pc' = "madt_walk" /\ IsProcessor(entry.type, entry.len)
               /\ out' = [out EXCEPT !.APIC.entries = @ + 1]
        <3>1. /\ out'.discovered = out.discovered
              /\ out'.APIC.entries = out.APIC.entries + 1
              /\ out'.APIC.summary = out.APIC.summary
            BY <2>3, CountEffect, InfoUpdate DEF Parsers, OutTypes
        <3>2. entry.len >= 8 /\ entry.len \in Nat
            BY <2>3 DEF IsProcessor, OutTypes
        <3>3. pc = "madt_entry" /\ UNCHANGED table
            BY <1>13 DEF MadtTakeEntry
        <3>4. 44 + 8 * (out.APIC.entries + 1) <= p' /\ p' <= table.length
            <4>1. 44 + 8 * out.APIC.entries <= p
                BY <3>3
            <4>2. p' = p + entry.len /\ p + entry.len <= table.length
                BY <2>3 DEF MadtMalformed
            <4> HIDE DEF Cursor
            <4> QED BY <3>2, <4>1, <4>2
        <3> QED BY <2>3, <3>1, <3>3, <3>4
    <2> QED BY <1>13, <2>1, <2>2, <2>3 DEF MadtTakeEntry
<1>14. CASE McfgWalk
    <2>1. CASE WalkEnds("MCFG")
        BY <2>1 DEF WalkEnds
    <2>2. CASE /\ p + 16 <= table.length /\ p' = p + 16 /\ UNCHANGED pc
               /\ out' = [out EXCEPT !.MCFG.entries = @ + 1]
        <3>1. /\ out'.discovered = out.discovered
              /\ out'.MCFG.entries = out.MCFG.entries + 1
              /\ out'.MCFG.summary = out.MCFG.summary
            BY <2>2, CountEffect, InfoUpdate DEF Parsers, OutTypes
        <3> QED BY <1>14, <2>2, <3>1 DEF McfgWalk
    <2> QED BY <1>14, <2>1, <2>2 DEF McfgWalk
<1>15. CASE FreeRaw
    BY <1>15 DEF FreeRaw
<1>16. CASE FreeSigs
    BY <1>16 DEF FreeSigs
<1>17. CASE UNCHANGED vars
    BY <1>17 DEF vars, heapVars, bufferVars
<1> QED BY <1>1, <1>2, <1>3, <1>4, <1>5, <1>6, <1>7, <1>8, <1>9, <1>10, <1>11, <1>12, <1>13, <1>14, <1>15, <1>16, <1>17 DEF Next

\* Steps that leave *out alone, outside the dispatch, leave the report right.
LEMMA ReportKept ==
    ASSUME Counted, LastOne, UNCHANGED out, pc # "parse"
    PROVE  Counted' /\ LastOne'
BY DEF Counted, Covers, LastOne

\* A summary appended after them does not disturb the records.
LEMMA SummaryAppended ==
    ASSUME Numbers, OutTypes, Counted, LastOne, RecordSummary
    PROVE  Counted' /\ LastOne'
<1>1. /\ out' \in OutType
      /\ Len(out'.discovered) = Len(out.discovered) + 1
      /\ out'.discovered[Len(out'.discovered)] = table
      /\ \A k \in 1..Len(out.discovered) : out'.discovered[k] = out.discovered[k]
      /\ \A sig \in Parsers : out'[sig] = out[sig]
    BY SummaryUpdate DEF RecordSummary, Numbers, OutTypes
<1>2. Len(out.discovered) \in Nat /\ \A sig \in Parsers : out[sig].summary \in Nat
    BY DEF OutTypes, OutType, InfoType, Parsers
<1>3. Counted'
    BY <1>1, <1>2 DEF Counted, Covers
<1>4. pc = "summary" /\ (table.valid /\ table.sig # "OTHER" => pc' = "parse")
    BY DEF RecordSummary, Goto
<1>5. LastOne'
    <2> SUFFICES ASSUME NEW sig \in Parsers
                 PROVE  /\ out'[sig].summary <= Len(out'.discovered)
                        /\ \A k \in 1..Len(out'.discovered) :
                              k > out'[sig].summary /\ out'.discovered[k].sig = sig
                                  /\ out'.discovered[k].valid
                              => pc' = "parse" /\ k = Len(out'.discovered)
        BY DEF LastOne
    <2>1. out'[sig].summary <= Len(out'.discovered)
        BY <1>1, <1>2 DEF LastOne
    <2>2. ASSUME NEW k \in 1..Len(out'.discovered), k > out'[sig].summary,
                 out'.discovered[k].sig = sig, out'.discovered[k].valid
          PROVE  pc' = "parse" /\ k = Len(out'.discovered)
        <3>1. k \notin 1..Len(out.discovered)
            BY <1>1, <1>4, <2>2 DEF LastOne
        <3>2. k = Len(out'.discovered)
            BY <1>1, <1>2, <3>1
        <3>3. sig # "OTHER"
            BY DEF Parsers
        <3> QED BY <1>1, <1>4, <2>2, <3>2, <3>3
    <2> QED BY <2>1, <2>2
<1> QED BY <1>3, <1>5

\* A record may be replaced by one its own summary covers.
LEMMA RecordReplaced ==
    ASSUME OutTypes, Counted, LastOne,
           NEW sig \in Parsers, NEW info \in InfoType,
           out' = [out EXCEPT ![sig] = info],
           pc = "parse" => sig = table.sig /\ info.summary = Len(out.discovered)
                           /\ out.discovered[Len(out.discovered)] = table,
           info.summary >= out[sig].summary, info.summary <= Len(out.discovered),
           info.available => Covers(sig, info)
    PROVE  Counted' /\ LastOne'
<1>1. /\ out'.discovered = out.discovered /\ out'[sig] = info
      /\ \A other \in Parsers \ {sig} : out'[other] = out[other]
    BY InfoUpdate DEF OutTypes
<1>2. Counted'
    <2> SUFFICES ASSUME NEW x \in Parsers, out'[x].available
                 PROVE  Covers(x, out[x])'
        BY DEF Counted
    <2>1. CASE x = sig
        BY <1>1, <2>1 DEF Covers
    <2>2. CASE x # sig
        BY <1>1, <2>2 DEF Counted, Covers
    <2> QED BY <2>1, <2>2
<1>3. LastOne'
    <2> SUFFICES ASSUME NEW x \in Parsers, NEW k \in 1..Len(out.discovered),
                        k > out'[x].summary, out.discovered[k].sig = x,
                        out.discovered[k].valid
                 PROVE  FALSE
        <3>1. \A x \in Parsers : out'[x].summary <= Len(out'.discovered)
            BY <1>1 DEF LastOne
        <3> QED BY <1>1, <3>1 DEF LastOne
    <2>1. Len(out.discovered) \in Nat /\ out[sig].summary \in Nat /\ info.summary \in Nat
        BY DEF OutTypes, OutType, InfoType, Parsers
    <2>2. k > out[x].summary
        <3>1. CASE x = sig
            BY <1>1, <2>1, <3>1
        <3>2. CASE x # sig
            BY <1>1, <3>2
        <3> QED BY <3>1, <3>2
    <2>3. pc = "parse" /\ k = Len(out.discovered)
        BY <2>2 DEF LastOne
    <2>4. x = sig
        BY <2>3
    <2> QED BY <1>1, <2>1, <2>3, <2>4
<1> QED BY <1>2, <1>3

\* The end of the MADT walk reports what the walk passed.
LEMMA MadtEnds ==
    ASSUME Numbers, OutTypes, Cursor, Counted, LastOne,
           pc \in {"madt_walk", "madt_entry"}, WalkEnds("APIC")
    PROVE  Counted' /\ LastOne'
<1>1. /\ table.length \in Nat /\ p \in Nat /\ Len(out.discovered) \in Nat
      /\ out.APIC.entries \in Nat
    BY DEF Numbers, TableType, OutTypes, OutType, InfoType
<1>2. MinLength["APIC"] = 44 /\ EntrySize("APIC") = 8
    BY DEF MinLength, HeaderSize, EntrySize
<1>3. /\ pc # "parse" /\ table.sig = "APIC" /\ table.valid
      /\ out.APIC.summary = Len(out.discovered) /\ Len(out.discovered) > 0
      /\ out.discovered[Len(out.discovered)] = table
      /\ 44 + 8 * out.APIC.entries <= p /\ p <= table.length
    BY <1>2 DEF Cursor, Parsing
<1>4. PICK info \in InfoType :
         /\ out' = [out EXCEPT !["APIC"] = info]
         /\ info.entries = out.APIC.entries /\ info.summary = out.APIC.summary
    BY WalkEffect DEF OutTypes
<1>5. 44 + 8 * info.entries <= table.length
    BY <1>1, <1>3, <1>4
<1>6. Covers("APIC", info) /\ info.summary <= Len(out.discovered)
      /\ info.summary >= out["APIC"].summary
    BY <1>1, <1>2, <1>3, <1>4, <1>5 DEF Covers
<1>7. "APIC" \in Parsers
    BY DEF Parsers
<1> QED BY <1>3, <1>4, <1>6, <1>7, RecordReplaced

\* Every step leaves the report right.
LEMMA ReportStep ==
    ASSUME Numbers, OutTypes, Cursor, Counted, LastOne, [Next]_vars
    PROVE  Counted' /\ LastOne'
<1>0. /\ table.length \in Nat /\ p \in Nat /\ Len(out.discovered) \in Nat
      /\ out.APIC.entries \in Nat /\ out.MCFG.entries \in Nat
      /\ entry.len \in Nat
    BY DEF Numbers, TableType, OutTypes, OutType, InfoType
<1>a. /\ MinLength["APIC"] = 44 /\ MinLength["MCFG"] = 44
      /\ EntrySize("APIC") = 8 /\ EntrySize("MCFG") = 16
    BY DEF MinLength, HeaderSize, EntrySize
<1>1. CASE EnumProbe
    BY <1>1, ReportKept DEF EnumProbe
<1>2. CASE EnumAlloc
    BY <1>2, ReportKept DEF EnumAlloc
<1>3. CASE EnumFetch
    BY <1>3, ReportKept DEF EnumFetch
<1>4. CASE EnumCopy
    BY <1>4, ReportKept DEF EnumCopy
<1>5. CASE LoopHead
    BY <1>5, ReportKept DEF LoopHead
<1>6. CASE TableProbe
    BY <1>6, ReportKept DEF TableProbe
<1>7. CASE TableAlloc
    BY <1>7, ReportKept DEF TableAlloc
<1>8. CASE TableFetch
    BY <1>8, ReportKept DEF TableFetch
<1>9. CASE ReadHeader
    BY <1>9, ReportKept DEF ReadHeader
<1>10. CASE RecordSummary
    BY <1>10, SummaryAppended
<1>11. CASE ParseFixed
    <2>1. /\ pc = "parse" /\ table.sig \in Parsers /\ table.valid
          /\ Len(out.discovered) > 0 /\ out.discovered[Len(out.discovered)] = table
        BY <1>11 DEF ParseFixed, Cursor, Parsing
    <2>2. PICK info \in InfoType :
             /\ info.entries = 0 /\ info.summary = Len(out.discovered)
             /\ out' = [out EXCEPT ![table.sig] = info]
             /\ info.available => table.length >= MinLength[table.sig]
        BY <1>11, ParseEffect
    <2>3. info.summary >= out[table.sig].summary
        BY <1>0, <2>1, <2>2 DEF LastOne, OutTypes, OutType, InfoType, Parsers
    <2>4. MinLength[table.sig] \in Nat /\ EntrySize(table.sig) * 0 = 0
        BY <2>1, Limits DEF EntrySize
    <2>5. info.available => Covers(table.sig, info)
        BY <1>0, <2>1, <2>2, <2>4 DEF Covers
    <2>6. info.summary <= Len(out.discovered)
        BY <1>0, <2>2
    <2> QED BY <2>1, <2>2, <2>3, <2>5, <2>6, RecordReplaced
<1>12. CASE MadtReadEntry
    <2>1. CASE WalkEnds("APIC")
        BY <1>0, <1>a, <1>12, <2>1, MadtEnds DEF MadtReadEntry
    <2>2. CASE UNCHANGED out
        BY <1>12, <2>2, ReportKept DEF MadtReadEntry
    <2> QED BY <1>12, <2>1, <2>2 DEF MadtReadEntry
<1>13. CASE MadtTakeEntry
    <2>1. CASE WalkEnds("APIC")
        BY <1>13, <2>1, MadtEnds DEF MadtTakeEntry
    <2>2. CASE UNCHANGED out
        BY <1>13, <2>2, ReportKept DEF MadtTakeEntry
    <2>3. CASE /\ ~MadtMalformed(entry.len) /\ IsProcessor(entry.type, entry.len)
               /\ out' = [out EXCEPT !.APIC.entries = @ + 1]
        <3>1. PICK info \in InfoType :
                 /\ out' = [out EXCEPT !["APIC"] = info]
                 /\ info.entries = out.APIC.entries + 1
                 /\ info.summary = out.APIC.summary
            BY <2>3, CountEffect DEF OutTypes
        <3>2. /\ pc = "madt_entry" /\ table.sig = "APIC" /\ table.valid
              /\ out.APIC.summary = Len(out.discovered) /\ Len(out.discovered) > 0
              /\ out.discovered[Len(out.discovered)] = table
              /\ 44 + 8 * out.APIC.entries <= p
            BY <1>a, <1>13 DEF MadtTakeEntry, Cursor, Parsing
        <3>3. entry.len >= 8 /\ p + entry.len <= table.length
            BY <1>0, <2>3 DEF IsProcessor, MadtMalformed
        <3>4. 44 + 8 * info.entries <= table.length
            BY <1>0, <3>1, <3>2, <3>3
        <3>5. Covers("APIC", info) /\ info.summary <= Len(out.discovered)
              /\ info.summary >= out["APIC"].summary
            BY <1>0, <1>a, <3>1, <3>2, <3>4 DEF Covers
        <3>6. "APIC" \in Parsers /\ pc # "parse"
            BY <3>2 DEF Parsers
        <3> QED BY <3>1, <3>5, <3>6, RecordReplaced
    <2> QED BY <1>13, <2>1, <2>2, <2>3 DEF MadtTakeEntry
<1>14. CASE McfgWalk
    <2>1. /\ pc = "mcfg_walk" /\ table.sig = "MCFG" /\ table.valid
          /\ out.MCFG.summary = Len(out.discovered) /\ Len(out.discovered) > 0
          /\ out.discovered[Len(out.discovered)] = table
          /\ 44 + 16 * out.MCFG.entries <= p /\ p <= table.length
        BY <1>a, <1>14 DEF McfgWalk, Cursor, Parsing
    <2>2. \E info \in InfoType :
             /\ out' = [out EXCEPT !["MCFG"] = info]
             /\ info.summary = out.MCFG.summary
             /\ 44 + 16 * info.entries <= table.length
        <3>1. CASE WalkEnds("MCFG")
            <4>1. PICK info \in InfoType :
                     /\ out' = [out EXCEPT !["MCFG"] = info]
                     /\ info.entries = out.MCFG.entries
                     /\ info.summary = out.MCFG.summary
                BY <3>1, WalkEffect DEF OutTypes
            <4>2. 44 + 16 * info.entries <= table.length
                BY <1>0, <2>1, <4>1
            <4> QED BY <4>1, <4>2
        <3>2. CASE /\ p + 16 <= table.length
                   /\ out' = [out EXCEPT !.MCFG.entries = @ + 1]
            <4>1. PICK info \in InfoType :
                     /\ out' = [out EXCEPT !["MCFG"] = info]
                     /\ info.entries = out.MCFG.entries + 1
                     /\ info.summary = out.MCFG.summary
                BY <3>2, CountEffect DEF OutTypes
            <4>2. 44 + 16 * info.entries <= table.length
                BY <1>0, <2>1, <3>2, <4>1
            <4> QED BY <4>1, <4>2
        <3> QED BY <1>14, <3>1, <3>2 DEF McfgWalk
    <2>3. PICK info \in InfoType :
             /\ out' = [out EXCEPT !["MCFG"] = info]
             /\ info.summary = out.MCFG.summary
             /\ 44 + 16 * info.entries <= table.length
        BY <2>2
    <2>4. Covers("MCFG", info) /\ info.summary <= Len(out.discovered)
          /\ info.summary >= out["MCFG"].summary
        BY <1>0, <1>a, <2>1, <2>3 DEF Covers
    <2>5. "MCFG" \in Parsers
        BY DEF Parsers
    <2> QED BY <2>1, <2>3, <2>4, <2>5, RecordReplaced
<1>15. CASE FreeRaw
    BY <1>15, ReportKept DEF FreeRaw
<1>16. CASE FreeSigs
    BY <1>16, ReportKept DEF FreeSigs
<1>17. CASE UNCHANGED vars
    BY <1>17 DEF vars, Counted, Covers, LastOne
<1> QED BY <1>1, <1>2, <1>3, <1>4, <1>5, <1>6, <1>7, <1>8, <1>9, <1>10, <1>11, <1>12, <1>13, <1>14, <1>15, <1>16, <1>17 DEF Next

-----------------------------------------------------------------------------
(***************************************************************************)
(* The theorems.                                                           *)
(***************************************************************************)
\* Nothing is allocated, read or reported at the start.
LEMMA AcpiInit == Init => AcpiInv
<1> SUFFICES ASSUME Init PROVE AcpiInv
    OBVIOUS
<1>1. Places /\ HeapByPlace
    BY DEF Init, Places, HeapByPlace, BeforeRaw, WithRaw, Parsing
<1>2. Numbers
    BY DEF Init, Numbers, NoTable, TableType, Signatures
<1>3. NoInfo \in InfoType
    BY DEF NoInfo, InfoType
<1>4. /\ out \in OutType /\ out.discovered = <<>>
      /\ \A sig \in Parsers : out[sig] = NoInfo
    BY <1>3 DEF Init, EmptyOut, OutType, Parsers
<1>5. OutTypes
    BY <1>4 DEF Init, OutTypes, NoEntry
<1>6. out.APIC = NoInfo /\ out.MCFG = NoInfo /\ Len(out.discovered) = 0
    BY <1>4 DEF Parsers
<1>7. ArrayLimits
    BY <1>6, AcpiAssumption DEF Init, ArrayLimits, NoInfo
<1>8. BufferUse /\ Cursor
    BY DEF Init, BufferUse, Cursor, NoTable, WithRaw, Parsing
<1>9. Counted /\ LastOne
    BY <1>4, <1>6 DEF Counted, LastOne, NoInfo
<1> QED BY <1>1, <1>2, <1>5, <1>7, <1>8, <1>9 DEF AcpiInv

\* Every step keeps the invariant, whatever the firmware delivers.
LEMMA AcpiStep == AcpiInv /\ [Next]_vars => AcpiInv'
<1> SUFFICES ASSUME AcpiInv, [Next]_vars PROVE AcpiInv'
    OBVIOUS
<1> USE DEF AcpiInv
<1>1. Places' /\ HeapByPlace'
    BY PlacesStep, HeapStep
<1>2. Numbers' /\ OutTypes'
    BY NumbersStep, OutStep
<1>3. ArrayLimits' /\ BufferUse' /\ Cursor'
    BY LimitsStep, BufferStep, CursorStep
<1>4. Counted' /\ LastOne'
    BY ReportStep
<1> QED BY <1>1, <1>2, <1>3, <1>4

\* No index leaves discovered[], processors[] or entries[], whatever their
\* sizes and whatever the tables hold.
THEOREM AcpiTypeCorrect == Spec => []TypeOK
<1>1. ASSUME AcpiInv PROVE TypeOK
    <2> USE <1>1 DEF AcpiInv
    <2>1. pc \in {"enum_probe", "enum_alloc", "enum_fetch", "enum_copy", "loop",
                  "probe", "alloc", "fetch", "header", "summary", "parse",
                  "madt_walk", "madt_entry", "mcfg_walk", "free_raw",
                  "free_sigs", "done"}
          /\ result \in {"none", "true", "false"}
        BY DEF Places, BeforeRaw, WithRaw, Parsing
    <2>2. heap \subseteq Blocks
        BY DEF Places, HeapByPlace, BeforeRaw, WithRaw, Parsing, Blocks
    <2>3. badFree \in BOOLEAN
        BY Zenon DEF HeapByPlace
    <2>4. /\ Len(out.discovered) \in Nat
          /\ out.APIC.entries \in Nat /\ out.MCFG.entries \in Nat
        BY DEF OutTypes, OutType, InfoType
    <2>5. /\ Len(out.discovered) \in 0..ACPI_MAX_DISCOVERED_TABLES
          /\ out.APIC.entries \in 0..ACPI_MAX_PROCESSORS
          /\ out.MCFG.entries \in 0..ACPI_MAX_MCFG_ENTRIES
        BY <2>4, AcpiAssumption DEF ArrayLimits
    <2> QED BY <2>1, <2>2, <2>3, <2>5 DEF Numbers, TableType, TypeOK
<1> QED BY <1>1, AcpiInit, AcpiStep, PTL DEF Spec

\* Firmware bytes are read only from the block, inside what was delivered and
\* checksummed, for any sizes the OS announces and any Length fields.
THEOREM ReadsInBounds == Spec => []NoOverread
<1>1. ASSUME AcpiInv PROVE NoOverread
    <2> USE <1>1 DEF AcpiInv
    <2>1. /\ readTo \in Nat /\ rawSize \in Nat /\ needed \in Nat
          /\ parsedTo \in Nat /\ table.length \in Nat
        BY DEF Numbers, TableType
    <2>2. readTo <= rawSize /\ (readTo > 0 => readTo <= needed)
          /\ parsedTo <= table.length
        BY <2>1 DEF BufferUse
    <2>3. pc \in {"header", "parse", "madt_walk", "madt_entry", "mcfg_walk"}
             => "raw" \in heap
        BY DEF HeapByPlace, WithRaw, Parsing
    <2> QED BY <2>2, <2>3 DEF NoOverread
<1> QED BY <1>1, AcpiInit, AcpiStep, PTL DEF Spec

\* Each block is freed exactly once on every path out of acpi_collect, for
\* any number of tables.
THEOREM BlocksFreedOnce == Spec => []HeapBalanced
<1>1. AcpiInv => HeapBalanced
    BY DEF AcpiInv, HeapByPlace, HeapBalanced
<1> QED BY <1>1, AcpiInit, AcpiStep, PTL DEF Spec

\* A table is reported only as its own checked summary allows, and the last
\* valid one of a signature wins entirely.
THEOREM ReportIsChecked == Spec => []OnlyCheckedTablesReported
<1>1. ASSUME AcpiInv PROVE OnlyCheckedTablesReported
    <2> SUFFICES ASSUME NEW sig \in Parsers
        PROVE  LET n == out[sig].summary
                   s == out.discovered[n]
               IN /\ out[sig].available =>
                        /\ n \in DOMAIN out.discovered
                        /\ s.sig = sig /\ s.valid /\ s.length >= MinLength[sig]
                        /\ MinLength[sig]
                              + out[sig].entries * (IF sig = "MCFG" THEN 16 ELSE 8)
                              <= s.length
                  /\ pc # "parse" =>
                        \A k \in (n + 1)..Len(out.discovered) :
                            ~(out.discovered[k].sig = sig /\ out.discovered[k].valid)
        BY DEF OnlyCheckedTablesReported
    <2> DEFINE n == out[sig].summary
               s == out.discovered[n]
    <2>1. /\ out.discovered \in Seq(TableType) /\ n \in Nat
          /\ out[sig].entries \in Nat /\ MinLength[sig] \in Nat
        BY <1>1, Limits DEF AcpiInv, OutTypes, OutType, InfoType, Parsers
    <2>2. ASSUME out[sig].available
          PROVE  /\ n \in DOMAIN out.discovered
                 /\ s.sig = sig /\ s.valid /\ s.length >= MinLength[sig]
                 /\ MinLength[sig]
                       + out[sig].entries * (IF sig = "MCFG" THEN 16 ELSE 8)
                       <= s.length
        <3>1. Covers(sig, out[sig])
            BY <1>1, <2>2 DEF AcpiInv, Counted
        <3>2. n \in DOMAIN out.discovered /\ s \in TableType
            BY <2>1, <3>1 DEF Covers
        <3>3. s.length \in Nat
            BY <3>2 DEF TableType
        <3>4. s.sig = sig /\ s.valid
              /\ MinLength[sig] + EntrySize(sig) * out[sig].entries <= s.length
            BY <3>1 DEF Covers
        <3> HIDE DEF n, s
        <3> QED BY <2>1, <3>2, <3>3, <3>4 DEF EntrySize
    <2>3. ASSUME pc # "parse", NEW k \in (n + 1)..Len(out.discovered)
          PROVE  ~(out.discovered[k].sig = sig /\ out.discovered[k].valid)
        <3>1. Len(out.discovered) \in Nat
            BY <2>1
        <3>2. k \in 1..Len(out.discovered) /\ k > n
            BY <2>1, <3>1
        <3> QED BY <1>1, <2>3, <3>2 DEF AcpiInv, LastOne
    <2> QED BY <2>2, <2>3
<1> QED BY <1>1, AcpiInit, AcpiStep, PTL DEF Spec
=============================================================================
