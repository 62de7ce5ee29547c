----------------------------- MODULE SmbiosWalk -----------------------------
(***************************************************************************)
(* smbios_collect (src/firmware/smbios.c) and then memory_info_collect     *)
(* (src/memory/memory_info.c), which fetches the SMBIOS table again and    *)
(* walks it with a loop of its own; both use platform_get_smbios_table     *)
(* (src/platform/windows/firmware_table.c).                                *)
(*                                                                         *)
(* The table is a sequence of bytes the firmware chose; its Length field   *)
(* and the size that is delivered need not fit it.  A string copied into   *)
(* the report is represented by the bytes it was copied from.              *)
(***************************************************************************)
EXTENDS Integers, Sequences, FiniteSets, FiniteSetsExt

CONSTANTS
    Tables,          \* the tables a firmware may hold: their bytes and Length
    SMBIOS_MAX_MEMORY_DEVICES, SMBIOS_STR_MAX, MEMORY_MAX_REGIONS

ASSUME SmbiosAssumption ==
    /\ \A t \in Tables : t.length \in Nat /\ t.bytes \in Seq(0..255)
    /\ SMBIOS_MAX_MEMORY_DEVICES \in Nat /\ MEMORY_MAX_REGIONS \in Nat
    /\ SMBIOS_STR_MAX \in Nat \ {0, 1}

HeaderSize == 8      \* sizeof(RawSmbiosHeader) - 1
EndOfTable == 127

VARIABLES
    walker,      \* who runs: smbios_collect, memory_info_collect or nobody
    pc,
    table,       \* the firmware's table
    raw,         \* is the block for the table allocated?
    badFree,     \* was it freed when it was not allocated?
    needed,      \* the size of the probing call
    rawSize,     \* raw_size
    cur, end,    \* the walk's pointers, as offsets into table_data
    readTo,      \* end of the highest byte of table_data read
    out,         \* SmbiosData
    mem,         \* MemoryInfo
    result,      \* what the two functions returned
    visited,     \* history: structures smbios_collect has parsed
    smbiosSize,  \* history: the size its fetch delivered
    malformedAt  \* history: structure counted as malformed, or -1

vars == <<walker, pc, table, raw, badFree, needed, rawSize, cur, end, readTo,
          out, mem, result, visited, smbiosSize, malformedAt>>
fetchVars == <<table, raw, badFree, needed, rawSize>>
walkVars  == <<cur, end, readTo>>
history   == <<visited, smbiosSize, malformedAt>>
outVars   == <<out, mem, result>>

Walkers == {"smbios", "memory"}

(***************************************************************************)
(* The string fields of each structure type: FIELD_OK(hlen, offset) and    *)
(* the equivalent tests on hlen of parse_memory_device.                    *)
(***************************************************************************)
StringFields ==
    [bios |-> {4, 5, 8}, system |-> 4..7, baseboard |-> 4..7,
     chassis |-> {4, 7}, memory_device |-> {16, 23, 24, 26}]

\* case 0 .. case 3 of the switch; Type 17 is a memory device.
SingleTypes == <<"bios", "system", "baseboard", "chassis">>
MemoryDeviceType == 17
MappedAddressType == 19

NoString == [struct |-> -1, index |-> 0, from |-> 0, to |-> 0]
NoInfo(kind) == [available |-> FALSE, at |-> -1,
                 strings |-> [f \in StringFields[kind] |-> NoString]]

EmptyOut == [bios |-> NoInfo("bios"), system |-> NoInfo("system"),
             baseboard |-> NoInfo("baseboard"), chassis |-> NoInfo("chassis"),
             memory_devices |-> <<>>, structures_parsed |-> 0,
             structures_malformed_skipped |-> 0, available |-> FALSE]
EmptyMem == [available |-> FALSE, regions |-> <<>>]

Init ==
    /\ walker = "smbios" /\ pc = "probe"
    /\ table \in Tables
    /\ raw = FALSE /\ badFree = FALSE /\ needed = 0 /\ rawSize = 0
    /\ cur = 0 /\ end = 0 /\ readTo = 0
    /\ out = EmptyOut /\ mem = EmptyMem
    /\ result = [w \in Walkers |-> "none"]
    /\ visited = {} /\ smbiosSize = 0 /\ malformedAt = -1

Goto(l) == pc' = l

\* Both walkers give the table back in the same way.
FreeRaw == raw' = FALSE /\ badFree' = (badFree \/ ~raw)

-----------------------------------------------------------------------------
(***************************************************************************)
(* platform_get_smbios_table.                                              *)
(***************************************************************************)
Probe ==
    /\ pc = "probe"
    /\ needed' \in {0, HeaderSize - 1, HeaderSize + Len(table.bytes)}
    /\ Goto(IF needed' = 0 THEN "unavailable" ELSE "alloc")
    /\ UNCHANGED <<walker, table, raw, badFree, rawSize, walkVars, outVars,
                   history>>

Alloc ==
    /\ pc = "alloc"
    /\ \/ raw' = TRUE /\ Goto("fetch")
       \/ UNCHANGED raw /\ Goto("unavailable")
    /\ UNCHANGED <<walker, table, badFree, needed, rawSize, walkVars, outVars,
                   history>>

\* The second call may fail, want more than it was given, or deliver less
\* than it announced.
Fetch ==
    /\ pc = "fetch"
    /\ \E written \in {0, needed - 1, needed, needed + 1} :
          IF written = 0 \/ written > needed
          THEN FreeRaw /\ Goto("unavailable") /\ UNCHANGED rawSize
          ELSE rawSize' = written /\ Goto("size") /\ UNCHANGED <<raw, badFree>>
    /\ UNCHANGED <<walker, table, needed, walkVars, outVars, history>>

-----------------------------------------------------------------------------
(***************************************************************************)
(* Both walkers: the size check and the limits of the walk.                *)
(***************************************************************************)
\* table_len, cut down to what was delivered.
TableLength == IF table.length > rawSize - HeaderSize
               THEN rawSize - HeaderSize ELSE table.length

\* MUTANT: the short block is not freed.
CheckSizeLeaks ==
    /\ pc = "size"
    /\ IF rawSize < HeaderSize
       THEN Goto("unavailable") /\ UNCHANGED <<cur, end>>
       ELSE /\ Goto("walk")
            /\ cur' = 0 /\ end' = TableLength
    /\ UNCHANGED <<walker, fetchVars, readTo, outVars, history>>

CheckSize ==
    /\ pc = "size"
    /\ IF rawSize < HeaderSize
       THEN FreeRaw /\ Goto("unavailable") /\ UNCHANGED <<cur, end>>
       ELSE /\ Goto("walk")
            /\ cur' = 0 /\ end' = TableLength
            /\ UNCHANGED <<raw, badFree>>
    /\ UNCHANGED <<walker, table, needed, rawSize, readTo, outVars, history>>

\* A byte of table_data.  What lies beyond the delivered bytes is never asked
\* for: that is NoOverread.
Byte(o) == IF o < Len(table.bytes) THEN table.bytes[o + 1] ELSE 0

Later(a, b) == IF a < b THEN b ELSE a
ReadUpTo(o) == readTo' = Later(readTo, o)

HasHeader == cur + 4 <= end
Type      == Byte(cur)
Hlen      == Byte(cur + 1)

\* MUTANT: only the minimum length is tested.
MalformedMinimumOnly == Hlen < 4

MalformedHeader == Hlen < 4 \/ cur + Hlen > end

\* Two consecutive NULs at q.
DoubleNul(q) == Byte(q) = 0 /\ Byte(q + 1) = 0

NULL == -1

\* The place after the string table: the first double NUL after the formatted
\* area; or, if that area ends one byte before the end, one NUL that follows
\* a NUL of the formatted area.
smbios_next_structure(s, hlen) ==
    LET p     == s + hlen
        nulls == {q \in p..(end - 2) : DoubleNul(q)}
    IN  IF nulls # {} THEN Min(nulls) + 2
        ELSE IF p + 1 = end /\ DoubleNul(p - 1) THEN end
        ELSE NULL

\* MUTANT: one of the two NULs is taken for the next structure.
NextStructureAfterOneNul(s, hlen) ==
    LET p     == s + hlen
        nulls == {q \in p..(end - 2) : DoubleNul(q)}
    IN  IF nulls # {} THEN Min(nulls) + 1 ELSE NULL

\* The copy of that function in memory_info.c.
next_structure(s, hlen) ==
    LET p     == s + hlen
        nulls == {q \in p..(end - 2) : DoubleNul(q)}
    IN  IF nulls # {} THEN Min(nulls) + 2
        ELSE IF p + 1 = end /\ DoubleNul(p - 1) THEN end
        ELSE NULL

-----------------------------------------------------------------------------
(***************************************************************************)
(* Strings of a structure.                                                 *)
(***************************************************************************)
\* The NUL that ends the string at p, or `end' if there is none.
StringEnd(p) ==
    LET nulls == {q \in p..(end - 1) : Byte(q) = 0}
    IN  IF nulls = {} THEN end ELSE Min(nulls)

\* MUTANT: an empty string does not end the search.
GetStringPastTerminator(s, hlen, index) ==
    LET from[k \in 1..255] ==
            IF k = 1 THEN s + hlen ELSE StringEnd(from[k - 1]) + 1
    IN  IF index = 0 \/ from[index] >= end \/ StringEnd(from[index]) = end
        THEN NULL ELSE from[index]

\* A string that the loop may pass over: not at the end of the buffer, not
\* unterminated and not empty.
Passable(p) == p < end /\ StringEnd(p) < end /\ StringEnd(p) > p

\* Where the strings after a formatted area start, as far as the loop gets.
StringStarts(area) ==
    LET from[k \in 1..255] ==
            IF k = 1 THEN area
            ELSE IF from[k - 1] # NULL /\ Passable(from[k - 1])
                 THEN StringEnd(from[k - 1]) + 1
                 ELSE NULL
    IN  from

\* Where string number `index' starts, if the loop gets there and may copy it.
smbios_get_string(s, hlen, index) ==
    LET from == StringStarts(s + hlen) IN
    IF index = 0 \/ from[index] = NULL THEN NULL
    ELSE IF Passable(from[index]) THEN from[index] ELSE NULL

\* MUTANT: no room is left for the terminator.
CopyFillsBuffer(s, hlen, index) ==
    LET from == smbios_get_string(s, hlen, index) IN
    IF from = NULL THEN NoString
    ELSE [struct |-> s, index |-> index, from |-> from,
          to |-> from + Min({StringEnd(from) - from, SMBIOS_STR_MAX})]

copy_string_field(s, hlen, index) ==
    LET from == smbios_get_string(s, hlen, index) IN
    IF from = NULL THEN NoString
    ELSE [struct |-> s, index |-> index, from |-> from,
          to |-> from + Min({StringEnd(from) - from, SMBIOS_STR_MAX - 1})]

\* The fields of kind present in a structure of hlen bytes; the others keep
\* what `old' says.
Strings(kind, old) ==
    [f \in StringFields[kind] |->
        IF Hlen > f THEN copy_string_field(cur, Hlen, Byte(cur + f))
        ELSE old[f]]

\* Does the structure have a string field at all?  If so the search may read
\* up to the end.
ReadsStrings(kind) == \E f \in StringFields[kind] : Hlen > f

-----------------------------------------------------------------------------
(***************************************************************************)
(* smbios_collect.                                                         *)
(***************************************************************************)
\* parse_bios, parse_system, parse_baseboard, parse_chassis: nothing is
\* cleared first.  The UUID and the chassis type lie inside hlen bytes.
ParseSingle(kind) ==
    out' = [out EXCEPT
        ![kind] = [available |-> TRUE, at |-> cur,
                   strings |-> Strings(kind, out[kind].strings)],
        !.structures_parsed = @ + 1]

RoomForDevice == Len(out.memory_devices) < SMBIOS_MAX_MEMORY_DEVICES

\* parse_memory_device: the size word, if present, says if the slot is used.
ParseMemoryDevice ==
    out' = [out EXCEPT
        !.memory_devices =
            IF RoomForDevice
            THEN Append(@, [at |-> cur,
                            populated |-> Hlen > 13 /\ ~DoubleNul(cur + 12),
                            strings |-> Strings("memory_device",
                                NoInfo("memory_device").strings)])
            ELSE @,
        !.structures_parsed = @ + 1]

\* The loop of smbios_collect up to the switch: one structure is parsed, or
\* the walk ends.
WalkStructure ==
    /\ walker = "smbios" /\ pc = "walk"
    /\ IF ~HasHeader
       THEN Goto("free") /\ UNCHANGED <<readTo, out, visited, malformedAt>>
       ELSE IF MalformedHeader
       THEN /\ Goto("free") /\ ReadUpTo(cur + 2)
            /\ out' = [out EXCEPT !.structures_malformed_skipped = @ + 1]
            /\ malformedAt' = cur
            /\ UNCHANGED visited
       ELSE IF Type = EndOfTable
       THEN Goto("free") /\ ReadUpTo(cur + 2)
            /\ UNCHANGED <<out, visited, malformedAt>>
       ELSE /\ \/ /\ Type \in 0..3
                  /\ ParseSingle(SingleTypes[Type + 1])
                  /\ ReadUpTo(IF ReadsStrings(SingleTypes[Type + 1]) THEN end
                              ELSE cur + Hlen)
               \/ /\ Type = MemoryDeviceType
                  /\ ParseMemoryDevice
                  /\ ReadUpTo(IF ReadsStrings("memory_device") THEN end
                              ELSE cur + Hlen)
               \/ /\ Type \notin 0..3 \cup {MemoryDeviceType}
                  /\ out' = [out EXCEPT !.structures_parsed = @ + 1]
                  /\ ReadUpTo(cur + 2)
            /\ visited' = visited \cup {cur}
            /\ Goto("advance")
            /\ UNCHANGED malformedAt
    /\ UNCHANGED <<walker, fetchVars, cur, end, mem, result, smbiosSize>>

\* The rest of the loop: on to the next structure, or stop.
AdvanceSmbios ==
    /\ walker = "smbios" /\ pc = "advance"
    /\ LET next == smbios_next_structure(cur, Hlen) IN
       IF next = NULL \/ next <= cur
       THEN /\ out' = [out EXCEPT !.structures_malformed_skipped = @ + 1]
            /\ malformedAt' = cur
            /\ ReadUpTo(end)
            /\ Goto("free")
            /\ UNCHANGED cur
       ELSE /\ cur' = next
            /\ ReadUpTo(next)
            /\ Goto("walk")
            /\ UNCHANGED <<out, malformedAt>>
    /\ UNCHANGED <<walker, fetchVars, end, mem, result, visited, smbiosSize>>

\* smbios_collect returns; memory_info_collect is called later.
SmbiosReturns ==
    /\ walker = "smbios" /\ pc \in {"free", "unavailable"}
    /\ IF pc = "free"
       THEN /\ FreeRaw
            /\ out' = [out EXCEPT !.available = out.structures_parsed > 0]
       ELSE UNCHANGED <<raw, badFree, out>>
    /\ result' = [result EXCEPT !["smbios"] =
                     IF pc = "free" THEN "true" ELSE "false"]
    /\ smbiosSize' = rawSize
    /\ walker' = "memory" /\ Goto("status")
    /\ rawSize' = 0 /\ cur' = 0 /\ end' = 0 /\ readTo' = 0
    /\ UNCHANGED <<table, needed, mem, visited, malformedAt>>

-----------------------------------------------------------------------------
(***************************************************************************)
(* memory_info_collect and collect_regions_from_smbios.                    *)
(***************************************************************************)
\* GlobalMemoryStatusEx works or not; the table is fetched in either case.
MemoryStatus ==
    /\ walker = "memory" /\ pc = "status"
    /\ \E ok \in BOOLEAN : mem' = [mem EXCEPT !.available = ok]
    /\ Goto("probe")
    /\ UNCHANGED <<walker, fetchVars, walkVars, out, result, history>>

\* A Type 19 structure gives a region unless its length comes out as 0.
WalkRegion ==
    /\ walker = "memory" /\ pc = "walk"
    /\ IF ~HasHeader \/ Len(mem.regions) >= MEMORY_MAX_REGIONS
       THEN Goto("free") /\ UNCHANGED <<readTo, mem>>
       ELSE IF MalformedHeader \/ Type = EndOfTable
       THEN Goto("free") /\ ReadUpTo(cur + 2) /\ UNCHANGED mem
       ELSE /\ Goto("advance")
            /\ ReadUpTo(cur + Hlen)
            /\ \/ /\ Type = MappedAddressType /\ Hlen >= 15
                  /\ mem' = [mem EXCEPT !.regions = Append(@, cur)]
               \/ UNCHANGED mem
    /\ UNCHANGED <<walker, fetchVars, cur, end, out, result, history>>

AdvanceMemory ==
    /\ walker = "memory" /\ pc = "advance"
    /\ LET nxt == next_structure(cur, Hlen) IN
       IF nxt = NULL \/ nxt <= cur
       THEN Goto("free") /\ ReadUpTo(end) /\ UNCHANGED cur
       ELSE Goto("walk") /\ ReadUpTo(nxt) /\ cur' = nxt
    /\ UNCHANGED <<walker, fetchVars, end, outVars, history>>

MemoryReturns ==
    /\ walker = "memory" /\ pc \in {"free", "unavailable"}
    /\ IF pc = "free" THEN FreeRaw ELSE UNCHANGED <<raw, badFree>>
    /\ result' = [result EXCEPT !["memory"] =
                     IF mem.available \/ Len(mem.regions) > 0 THEN "true"
                     ELSE "false"]
    /\ walker' = "done" /\ Goto("done")
    /\ UNCHANGED <<table, needed, rawSize, walkVars, out, mem, history>>

Next ==
    \/ Probe \/ Alloc \/ Fetch \/ CheckSize
    \/ WalkStructure \/ AdvanceSmbios \/ SmbiosReturns
    \/ MemoryStatus \/ WalkRegion \/ AdvanceMemory \/ MemoryReturns

Spec == Init /\ [][Next]_vars

-----------------------------------------------------------------------------
(***************************************************************************)
(* Properties.                                                             *)
(***************************************************************************)
\* All strings in the report.
Reported ==
    (UNION {{out[kind].strings[f] : f \in StringFields[kind]} :
               kind \in {SingleTypes[k] : k \in 1..4}})
    \cup (UNION {{out.memory_devices[d].strings[f] :
                     f \in StringFields["memory_device"]} :
                     d \in DOMAIN out.memory_devices})

\* Types, and the fixed arrays: memory_devices[], regions[], and the strings,
\* which leave room for their terminator.
TypeOK ==
    /\ walker \in Walkers \cup {"done"}
    /\ pc \in {"probe", "alloc", "fetch", "size", "walk", "advance", "free",
               "unavailable", "status", "done"}
    /\ raw \in BOOLEAN /\ badFree \in BOOLEAN
    /\ needed \in Nat /\ rawSize \in Nat
    /\ cur \in Nat /\ end \in Nat /\ readTo \in Nat
    /\ Len(out.memory_devices) <= SMBIOS_MAX_MEMORY_DEVICES
    /\ Len(mem.regions) <= MEMORY_MAX_REGIONS
    /\ \A s \in Reported : s.to - s.from < SMBIOS_STR_MAX
    /\ result \in [Walkers -> {"none", "true", "false"}]

\* Whatever Length, structure lengths and missing terminators say, neither
\* walk reads a byte that was not delivered or lies outside the table, and
\* none after the block was freed.
NoOverread ==
    /\ readTo <= end
    /\ rawSize > 0 /\ pc # "size" => end + HeaderSize <= Later(rawSize, HeaderSize)
    /\ pc \in {"size", "walk", "advance"} => raw

\* The block is freed exactly once on every way out of both functions.
HeapBalanced == ~badFree /\ (pc \in {"probe", "done"} => ~raw)

\* A string in the report is the one its structure numbers: it starts after
\* exactly index - 1 strings of that structure's own string table and ends
\* before any later structure, however the tables are malformed.
StringsAreOwn ==
    \A s \in Reported \ {NoString} :
        LET area == s.struct + Byte(s.struct + 1) IN
        /\ area <= s.from /\ s.from < s.to
        /\ Cardinality({q \in area..(s.from - 1) : Byte(q) = 0}) = s.index - 1
        /\ \A q \in s.from..(s.to - 1) : Byte(q) # 0
        /\ \A v \in visited : v > s.struct => s.to < v

\* The two copies of the walk see the same structures: given the same bytes,
\* memory_info.c's stops at no place smbios.c's did not, and unless its array
\* is full it gets as far.
WalksAgree ==
    walker = "memory" /\ rawSize = smbiosSize =>
        /\ pc = "advance" => cur \in visited
        /\ \A k \in DOMAIN mem.regions : mem.regions[k] \in visited
        /\ pc = "free" /\ Len(mem.regions) < MEMORY_MAX_REGIONS =>
              \A v \in visited : v <= cur

\* smbios.h says every string-table boundary is validated before any field is
\* trusted and malformed structures are skipped: none of the reported data
\* comes from the structure that was counted as malformed.
MalformedNotTrusted ==
    malformedAt # -1 =>
        /\ \A k \in 1..4 : out[SingleTypes[k]].at # malformedAt
        /\ \A d \in DOMAIN out.memory_devices :
              out.memory_devices[d].at # malformedAt
=============================================================================
