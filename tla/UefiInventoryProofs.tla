------------------------ MODULE UefiInventoryProofs -------------------------
(***************************************************************************)
(* Proofs about the UEFI application, for any memory map, any order of the *)
(* configuration table and a UINTN of any width.                           *)
(***************************************************************************)
EXTENDS UefiInventory, SequenceTheorems, TLAPS

(***************************************************************************)
(* The inductive invariant.                                                *)
(***************************************************************************)
EarlyMap  == {"probe", "allocate", "fetch", "walk"}
AfterScan == {"rsdp", "xsdt", "entries", "fault", "smbios", "return"}

Types ==
    /\ pc \in EarlyMap \cup {"scan"} \cup AfterScan
    /\ entries \in Nat \ {0} /\ changes \in Nat /\ probed \in Nat
    /\ mapSize \in Nat /\ pool \in Nat /\ filled \in Nat /\ readTo \in Nat
    /\ table \in Seq(Guids) /\ index \in Nat

\* The block, by the place in PrintMemoryMap.
MapBlock ==
    /\ pc \notin {"fetch", "walk"} => pool = 0
    /\ pc = "fetch" => pool = mapSize
    /\ pc = "walk" => filled = mapSize /\ filled <= pool
    /\ pc \in EarlyMap => readTo = 0
    /\ readTo <= filled

\* Between the two calls MapSize is the probed size and the headroom.
Growth ==
    /\ pc \in {"allocate", "fetch"} => mapSize = (probed + 2) * DescSize
    /\ pc \in EarlyMap => mapResult = None
    /\ mapResult = "too small" => entries > probed + 2

\* What the scan has seen, and what it made of it.
Seen == {table[k] : k \in 1..index}
Best(offered, new, old) == IF new \in offered THEN new
                           ELSE IF old \in offered THEN old ELSE None
Chosen(offered) ==
    /\ acpiRsdp = Best(offered, "Acpi20", "Acpi10")
    /\ smbiosEntry = Best(offered, "Smbios3", "Smbios")
    /\ smbiosIs64 <=> smbiosEntry = "Smbios3"

Scanned ==
    /\ pc \in EarlyMap => index = 0
    /\ pc \in EarlyMap \cup {"scan"} => index <= Len(table) /\ Chosen(Seen)
    /\ pc \in AfterScan => Chosen(ToSet(table))

\* How far the XSDT has been read.
XsdtRead ==
    /\ xsdt.length \in 0..(UINTN_MOD - 1)
    /\ pc \in EarlyMap \cup {"scan", "rsdp", "xsdt"} => ~xsdt.valid
    /\ pc \in {"rsdp", "xsdt"} => index = 0
    /\ pc \in {"xsdt", "entries", "fault"} =>
          rsdp.revision >= 2 /\ rsdp.v1 /\ rsdp.v2
    /\ pc \in {"entries", "fault"} => xsdt.valid /\ index <= EntryCount
    /\ pc = "fault" => ~(xsdt.length >= HeaderSize)
    /\ pc \in {"smbios", "return"} /\ xsdt.valid => index = EntryCount

UefiInv == Types /\ MapBlock /\ Growth /\ Scanned /\ XsdtRead

-----------------------------------------------------------------------------
(***************************************************************************)
(* Arithmetic.                                                             *)
(***************************************************************************)
\* Whole descriptors never take more than the bytes they were counted from.
LEMMA WholeUnits ==
    ASSUME NEW a \in Nat, NEW d \in Nat \ {0}
    PROVE  (a \div d) * d \in Nat /\ (a \div d) * d <= a
OBVIOUS

\* More bytes of descriptors means more descriptors.
LEMMA MoreUnits ==
    ASSUME NEW a \in Nat, NEW b \in Nat, NEW d \in Nat \ {0}, a * d > b * d
    PROVE  a > b
<1> SUFFICES ASSUME ~(a > b) PROVE FALSE
    OBVIOUS
<1>1. b - a \in Nat
    OBVIOUS
<1>2. (b - a) * d \in Nat
    BY <1>1
<1>3. b * d = a * d + (b - a) * d
    OBVIOUS
<1> QED BY <1>2, <1>3

\* Sizes of descriptors add up.
LEMMA UnitsAdd ==
    ASSUME NEW a \in Nat, NEW b \in Nat, NEW d \in Nat
    PROVE  a * d \in Nat /\ a * d + b * d = (a + b) * d
OBVIOUS

\* The assumption on the sizes alone.
LEMMA Sizes == /\ DescSize \in Nat \ {0} /\ UINTN_MOD \in Nat \ {0}
               /\ MaxChanges \in Nat /\ XsdtLengths \subseteq 0..(UINTN_MOD - 1)
BY UefiAssumption

\* The unsigned difference is the difference where that is not negative.
LEMMA UnsignedDifference ==
    ASSUME NEW m \in Nat \ {0}, NEW a \in 0..(m - 1)
    PROVE  a % m = a
OBVIOUS

-----------------------------------------------------------------------------
(***************************************************************************)
(* One lemma for each part of the invariant.                               *)
(***************************************************************************)
\* Every step computes naturals from naturals.
LEMMA TypesStep ==
    ASSUME Types, [Next]_vars PROVE Types'
<1> USE Sizes
    DEF Types, EarlyMap, AfterScan, Goto, Unavailable, Headroom, FreeOnError,
        mapVars, scanVars, acpiVars
<1>1. CASE ProbeMap
    <2>1. entries * DescSize + 2 * DescSize \in Nat
        OBVIOUS
    <2> QED BY <1>1, <2>1 DEF ProbeMap
<1>2. CASE AllocateMap
    <2>1. CASE Unavailable("no memory")
        BY <1>2, <2>1 DEF AllocateMap
    <2>2. ASSUME NEW split \in 0..2, entries' = entries + split,
                 changes' = changes + split, pool' = mapSize, pc' = "fetch"
          PROVE  Types'
        <3>1. entries' \in Nat \ {0} /\ changes' \in Nat
            BY <2>2
        <3> QED BY <1>2, <2>2, <3>1 DEF AllocateMap
    <2> QED BY <1>2, <2>1, <2>2 DEF AllocateMap
<1>3. CASE FetchMap
    <2>1. PICK size \in Nat : size = entries * DescSize
        BY UnitsAdd
    <2>2. \/ size <= mapSize /\ mapSize' = size /\ filled' = size /\ pc' = "walk"
             /\ UNCHANGED pool
          \/ mapSize' = size /\ pc' = "scan" /\ pool' = 0 /\ UNCHANGED filled
          \/ UNCHANGED <<mapSize, filled>> /\ pc' = "scan" /\ pool' = 0
        BY <1>3, <2>1, Zenon DEF FetchMap, Goto, Unavailable, FreeOnError
    <2>3. pc = "fetch"
          /\ UNCHANGED <<entries, changes, probed, readTo, table, index>>
        BY <1>3, Zenon DEF FetchMap, scanVars
    <2> QED BY <2>2, <2>3
<1>4. CASE WalkMap
    BY <1>4, WholeUnits DEF WalkMap
<1>5. CASE ScanEntry
    BY <1>5 DEF ScanEntry
<1>6. CASE ReadRsdp
    BY <1>6 DEF ReadRsdp
<1>7. CASE ReadXsdt
    BY <1>7 DEF ReadXsdt
<1>8. CASE ReadXsdtEntry
    BY <1>8 DEF ReadXsdtEntry, NextEntry
<1>9. CASE PrintSmbios
    BY <1>9 DEF PrintSmbios
<1>10. CASE CallbackChangesMap
    BY <1>10 DEF CallbackChangesMap
<1>11. CASE UNCHANGED vars
    BY <1>11 DEF vars
<1> QED BY <1>1, <1>2, <1>3, <1>4, <1>5, <1>6, <1>7, <1>8, <1>9, <1>10, <1>11
       DEF Next, AppNext

\* The block is read inside what the second call wrote, and freed.
LEMMA BlockStep ==
    ASSUME Types, MapBlock, [Next]_vars PROVE MapBlock'
<1> USE Sizes
    DEF Types, MapBlock, EarlyMap, AfterScan, Goto, Unavailable, FreeOnError,
        mapVars, scanVars, acpiVars
<1>1. CASE ProbeMap
    BY <1>1 DEF ProbeMap
<1>2. CASE AllocateMap
    BY <1>2 DEF AllocateMap
<1>3. CASE FetchMap
    <2>1. PICK size \in Nat : size = entries * DescSize
        BY UnitsAdd
    <2>2. \/ size <= mapSize /\ mapSize' = size /\ filled' = size /\ pc' = "walk"
             /\ UNCHANGED pool
          \/ mapSize' = size /\ pc' = "scan" /\ pool' = 0 /\ UNCHANGED filled
          \/ UNCHANGED <<mapSize, filled>> /\ pc' = "scan" /\ pool' = 0
        BY <1>3, <2>1, Zenon DEF FetchMap, Goto, Unavailable, FreeOnError
    <2>3. pc = "fetch"
          /\ UNCHANGED <<entries, changes, probed, readTo, table, index>>
        BY <1>3, Zenon DEF FetchMap, scanVars
    <2> QED BY <2>2, <2>3
<1>4. CASE WalkMap
    BY <1>4, WholeUnits DEF WalkMap
<1>5. CASE ScanEntry
    BY <1>5 DEF ScanEntry
<1>6. CASE ReadRsdp
    BY <1>6 DEF ReadRsdp
<1>7. CASE ReadXsdt
    BY <1>7 DEF ReadXsdt
<1>8. CASE ReadXsdtEntry
    BY <1>8 DEF ReadXsdtEntry
<1>9. CASE PrintSmbios
    BY <1>9 DEF PrintSmbios
<1>10. CASE CallbackChangesMap
    BY <1>10 DEF CallbackChangesMap
<1>11. CASE UNCHANGED vars
    BY <1>11 DEF vars
<1> QED BY <1>1, <1>2, <1>3, <1>4, <1>5, <1>6, <1>7, <1>8, <1>9, <1>10, <1>11
       DEF Next, AppNext

\* The second call wants more room only if the map has outgrown the headroom.
LEMMA GrowthStep ==
    ASSUME Types, Growth, [Next]_vars PROVE Growth'
<1> USE Sizes
    DEF Types, Growth, EarlyMap, AfterScan, Goto, Unavailable, None,
        mapVars, scanVars, acpiVars
<1>1. CASE ProbeMap
    <2>1. entries * DescSize + 2 * DescSize = (entries + 2) * DescSize
        <3>1. entries \in Nat /\ 2 \in Nat /\ DescSize \in Nat
            OBVIOUS
        <3> HIDE DEF Types, Growth
        <3> QED BY <3>1, UnitsAdd
    <2> QED BY <1>1, <2>1 DEF ProbeMap, Headroom
<1>2. CASE AllocateMap
    BY <1>2 DEF AllocateMap
<1>3. CASE FetchMap
    <2>1. CASE entries * DescSize > mapSize /\ Unavailable("too small")
        <3>1. entries * DescSize > (probed + 2) * DescSize
            BY <1>3, <2>1 DEF FetchMap
        <3>2. entries > probed + 2
            <4> HIDE DEF Growth
            <4>1. probed + 2 \in Nat /\ entries \in Nat
                OBVIOUS
            <4> QED BY <3>1, <4>1, MoreUnits
        <3> QED BY <1>3, <2>1, <3>2 DEF FetchMap
    <2>2. CASE pc' = "walk" /\ UNCHANGED mapResult
        BY <1>3, <2>2 DEF FetchMap
    <2>3. CASE Unavailable("fetch failed")
        BY <1>3, <2>3 DEF FetchMap
    <2> QED BY <1>3, <2>1, <2>2, <2>3 DEF FetchMap
<1>4. CASE WalkMap
    BY <1>4 DEF WalkMap
<1>5. CASE ScanEntry
    BY <1>5 DEF ScanEntry
<1>6. CASE ReadRsdp
    BY <1>6 DEF ReadRsdp
<1>7. CASE ReadXsdt
    BY <1>7 DEF ReadXsdt
<1>8. CASE ReadXsdtEntry
    BY <1>8 DEF ReadXsdtEntry
<1>9. CASE PrintSmbios
    BY <1>9 DEF PrintSmbios
<1>10. CASE CallbackChangesMap
    BY <1>10 DEF CallbackChangesMap
<1>11. CASE UNCHANGED vars
    BY <1>11 DEF vars
<1> QED BY <1>1, <1>2, <1>3, <1>4, <1>5, <1>6, <1>7, <1>8, <1>9, <1>10, <1>11
       DEF Next, AppNext

\* One more entry is one more GUID seen.
LEMMA SeenGrows ==
    ASSUME Types, index < Len(table), index' = index + 1, UNCHANGED table
    PROVE  /\ table[index + 1] \in Guids
           /\ Seen' = Seen \cup {table[index + 1]}
<1>1. index \in Nat /\ Len(table) \in Nat /\ table \in Seq(Guids)
    BY DEF Types
<1>2. 1..(index + 1) = (1..index) \cup {index + 1}
    BY <1>1
<1>3. index + 1 \in 1..Len(table)
    BY <1>1
<1>4. table[index + 1] \in Guids
    BY <1>1, <1>3
<1> QED BY <1>2, <1>4, Zenon DEF Seen

\* The newer GUID replaces and the older one fills a gap: whatever comes next,
\* the best of those seen so far is kept.
LEMMA PreferredKeepsBest ==
    ASSUME Chosen(Seen), NEW guid \in Guids, Preferred(guid),
           Seen' = Seen \cup {guid}
    PROVE  Chosen(Seen)'
<1>1. acpiRsdp' = Best(Seen', "Acpi20", "Acpi10")
    BY DEF Chosen, Best, Preferred, Guids, None
<1>2. smbiosEntry' = Best(Seen', "Smbios3", "Smbios")
    BY DEF Chosen, Best, Preferred, Guids, None
<1>3. smbiosIs64' <=> smbiosEntry' = "Smbios3"
    BY DEF Chosen, Preferred, Guids, None
<1> QED BY <1>1, <1>2, <1>3 DEF Chosen, Best

\* The scan keeps the best of what it has seen, and what it has seen is in
\* the end the whole table.
LEMMA ScannedStep ==
    ASSUME Types, Scanned, [Next]_vars PROVE Scanned'
<1>0. index \in Nat /\ Len(table) \in Nat /\ table \in Seq(Guids)
    BY DEF Types
<1>a. ASSUME UNCHANGED <<table, index, acpiRsdp, smbiosEntry, smbiosIs64>>,
             \/ pc \in EarlyMap /\ pc' \in EarlyMap \cup {"scan"}
             \/ pc \in AfterScan /\ pc' \in AfterScan
             \/ pc' = pc
      PROVE  Scanned'
    <2>1. Seen' = Seen /\ ToSet(table)' = ToSet(table)
        BY <1>a DEF Seen, ToSet
    <2>2. Chosen(Seen) => Chosen(Seen)'
        BY <1>a, <2>1 DEF Chosen, Best
    <2>3. Chosen(ToSet(table)) => Chosen(ToSet(table))'
        BY <1>a, <2>1 DEF Chosen, Best
    <2> QED BY <1>a, <2>2, <2>3 DEF Scanned, EarlyMap, AfterScan
<1> USE DEF Goto, Unavailable, EarlyMap, AfterScan, scanVars
<1>1. CASE ProbeMap
    BY <1>1, <1>a DEF ProbeMap
<1>2. CASE AllocateMap
    BY <1>2, <1>a DEF AllocateMap
<1>3. CASE FetchMap
    BY <1>3, <1>a DEF FetchMap
<1>4. CASE WalkMap
    BY <1>4, <1>a DEF WalkMap
<1>5. CASE ScanEntry
    <2>1. CASE index < Len(table)
        <3>1. /\ pc = "scan" /\ pc' = "scan" /\ UNCHANGED table
              /\ Preferred(table[index + 1]) /\ index' = index + 1
            BY <1>5, <2>1 DEF ScanEntry
        <3>2. Chosen(Seen)'
            BY <2>1, <3>1, SeenGrows, PreferredKeepsBest DEF Scanned
        <3>3. index' <= Len(table')
            BY <1>0, <2>1, <3>1
        <3> QED BY <3>1, <3>2, <3>3 DEF Scanned
    <2>2. CASE ~(index < Len(table))
        <3>1. /\ pc = "scan" /\ pc' \in {"smbios", "rsdp"}
              /\ UNCHANGED <<table, acpiRsdp, smbiosEntry, smbiosIs64>>
            BY <1>5, <2>2 DEF ScanEntry
        <3>2. index = Len(table)
            BY <1>0, <2>2, <3>1 DEF Scanned
        <3>3. DOMAIN table = 1..index
            BY <1>0, <3>2
        <3>4. Seen = ToSet(table) /\ ToSet(table)' = ToSet(table)
            BY <3>1, <3>3 DEF Seen, ToSet
        <3>5. Chosen(ToSet(table))'
            BY <3>1, <3>4 DEF Scanned, Chosen, Best
        <3> QED BY <3>1, <3>5 DEF Scanned
    <2> QED BY <2>1, <2>2
<1>6. CASE ReadRsdp
    BY <1>6, <1>a DEF ReadRsdp
<1>7. CASE ReadXsdt
    BY <1>7, <1>a DEF ReadXsdt
<1>8. CASE ReadXsdtEntry
    <2>1. /\ pc = "entries" /\ pc' \in AfterScan
          /\ UNCHANGED <<table, acpiRsdp, smbiosEntry, smbiosIs64>>
        BY <1>8 DEF ReadXsdtEntry, mapVars
    <2>2. ToSet(table)' = ToSet(table)
        BY <2>1 DEF ToSet
    <2>3. Chosen(ToSet(table))'
        BY <2>1, <2>2 DEF Scanned, Chosen, Best
    <2> QED BY <2>1, <2>3 DEF Scanned
<1>9. CASE PrintSmbios
    BY <1>9, <1>a DEF PrintSmbios
<1>10. CASE CallbackChangesMap
    BY <1>10, <1>a DEF CallbackChangesMap
<1>11. CASE UNCHANGED vars
    BY <1>11, <1>a DEF vars
<1> QED BY <1>1, <1>2, <1>3, <1>4, <1>5, <1>6, <1>7, <1>8, <1>9, <1>10, <1>11
       DEF Next, AppNext

\* EntryCount is a natural, and the true number of entries if Length is not
\* smaller than the header.
LEMMA CountOfEntries ==
    ASSUME XsdtRead
    PROVE  /\ EntryCount \in Nat
           /\ xsdt.length >= HeaderSize =>
                 HeaderSize + 8 * EntryCount \in (xsdt.length - 7)..xsdt.length
<1>1. xsdt.length \in Nat /\ xsdt.length < UINTN_MOD /\ UINTN_MOD \in Nat \ {0}
    BY Sizes DEF XsdtRead
<1>2. (xsdt.length - HeaderSize) % UINTN_MOD \in Nat
    BY <1>1 DEF HeaderSize
<1>3. EntryCount \in Nat
    BY <1>2 DEF EntryCount
<1>4. ASSUME xsdt.length >= HeaderSize
      PROVE  HeaderSize + 8 * EntryCount \in (xsdt.length - 7)..xsdt.length
    <2>1. xsdt.length - HeaderSize \in 0..(UINTN_MOD - 1)
        BY <1>1, <1>4 DEF HeaderSize
    <2>2. (xsdt.length - HeaderSize) % UINTN_MOD = xsdt.length - HeaderSize
        BY <1>1, <2>1, UnsignedDifference
    <2>3. EntryCount = (xsdt.length - HeaderSize) \div 8
        BY <2>2 DEF EntryCount
    <2> QED BY <1>1, <1>4, <2>3 DEF HeaderSize
<1> QED BY <1>3, <1>4

\* Entries are read one by one, and only behind three good checksums.
LEMMA XsdtStep ==
    ASSUME Types, XsdtRead, [Next]_vars PROVE XsdtRead'
<1>0. index \in Nat /\ EntryCount \in Nat
    BY CountOfEntries DEF Types
<1>a. ASSUME UNCHANGED <<index, rsdp, xsdt>>,
             \/ pc \in EarlyMap /\ pc' \in EarlyMap \cup {"scan"}
             \/ pc = "smbios" /\ pc' = "return"
             \/ pc' = pc
      PROVE  XsdtRead'
    BY <1>a DEF XsdtRead, EarlyMap, EntryCount
<1> USE DEF Goto, Unavailable, EarlyMap, AfterScan, mapVars, scanVars, acpiVars
<1>1. CASE ProbeMap
    BY <1>1, <1>a DEF ProbeMap
<1>2. CASE AllocateMap
    BY <1>2, <1>a DEF AllocateMap
<1>3. CASE FetchMap
    BY <1>3, <1>a DEF FetchMap
<1>4. CASE WalkMap
    BY <1>4, <1>a DEF WalkMap
<1>5. CASE ScanEntry
    BY <1>5 DEF ScanEntry, XsdtRead
<1>6. CASE ReadRsdp
    <2>1. PICK revision \in {0, 2}, v1 \in BOOLEAN, v2 \in BOOLEAN :
             rsdp' = [revision |-> revision, v1 |-> v1, v2 |-> revision >= 2 /\ v2]
        BY <1>6 DEF ReadRsdp
    <2>2. pc = "rsdp" /\ UNCHANGED <<index, xsdt>>
        BY <1>6 DEF ReadRsdp
    <2>3. \/ pc' = "xsdt" /\ rsdp'.revision >= 2 /\ rsdp'.v1 /\ rsdp'.v2
          \/ pc' = "smbios"
        BY <1>6 DEF ReadRsdp, RsdpValid
    <2> QED BY <2>2, <2>3 DEF XsdtRead
<1>7. CASE ReadXsdt
    <2>1. PICK length \in XsdtLengths, valid \in BOOLEAN :
             xsdt' = [length |-> length, valid |-> valid \/ length = 0]
        BY <1>7 DEF ReadXsdt
    <2>2. xsdt'.length \in 0..(UINTN_MOD - 1)
        BY <2>1, Sizes
    <2>3. pc = "xsdt" /\ UNCHANGED <<index, rsdp>>
        BY <1>7 DEF ReadXsdt
    <2>4. \/ pc' = "entries" /\ xsdt'.valid
          \/ pc' = "smbios" /\ ~xsdt'.valid
        BY <1>7, Zenon DEF ReadXsdt, Goto
    <2>5. EntryCount' \in Nat /\ index' = 0
        <3>1. (xsdt'.length - HeaderSize) % UINTN_MOD \in Nat
            BY <2>2, Sizes DEF HeaderSize
        <3> QED BY <2>3, <3>1 DEF XsdtRead, EntryCount
    <2> QED BY <2>2, <2>3, <2>4, <2>5 DEF XsdtRead
<1>8. CASE ReadXsdtEntry
    <2>1. pc = "entries" /\ UNCHANGED <<rsdp, xsdt>> /\ EntryCount' = EntryCount
        BY <1>8 DEF ReadXsdtEntry, EntryCount
    <2>2. CASE index < EntryCount
        <3>1. index' = index + 1 /\ (pc' = pc \/ (pc' = "fault" /\ ~EntryInside))
            BY <1>8, <2>2 DEF ReadXsdtEntry, NextEntry
        <3>2. ASSUME xsdt.length >= HeaderSize PROVE EntryInside
            <4>1. HeaderSize + 8 * EntryCount <= xsdt.length /\ xsdt.length \in Nat
                BY <3>2, CountOfEntries, Sizes DEF XsdtRead, HeaderSize
            <4> HIDE DEF EntryCount
            <4> QED BY <1>0, <2>2, <4>1 DEF EntryInside, HeaderSize
        <3> HIDE DEF EntryCount
        <3> QED BY <1>0, <2>1, <2>2, <3>1, <3>2 DEF XsdtRead
    <2>3. CASE ~(index < EntryCount)
        <3>1. pc' = "smbios" /\ index' = index
            BY <1>8, <2>3 DEF ReadXsdtEntry
        <3>2. index = EntryCount
            BY <1>0, <2>1, <2>3 DEF XsdtRead
        <3> QED BY <2>1, <3>1, <3>2 DEF XsdtRead
    <2> QED BY <2>2, <2>3
<1>9. CASE PrintSmbios
    BY <1>9, <1>a DEF PrintSmbios
<1>10. CASE CallbackChangesMap
    BY <1>10, <1>a DEF CallbackChangesMap
<1>11. CASE UNCHANGED vars
    BY <1>11, <1>a DEF vars
<1> QED BY <1>1, <1>2, <1>3, <1>4, <1>5, <1>6, <1>7, <1>8, <1>9, <1>10, <1>11
       DEF Next, AppNext

-----------------------------------------------------------------------------
(***************************************************************************)
(* The theorems.                                                           *)
(***************************************************************************)
\* At the start there is no block and nothing has been seen.
LEMMA UefiInit == Init => UefiInv
<1> SUFFICES ASSUME Init PROVE UefiInv
    OBVIOUS
<1>1. Types
    BY UefiAssumption DEF Init, Types, EarlyMap
<1>2. MapBlock /\ Growth
    BY DEF Init, MapBlock, Growth, EarlyMap, None
<1>3. Seen = {} /\ index <= Len(table)
    BY <1>1 DEF Init, Seen, Types
<1>4. Chosen(Seen)
    BY <1>3 DEF Init, Chosen, Best, None
<1>5. Scanned
    BY <1>3, <1>4 DEF Init, Scanned, EarlyMap, AfterScan
<1>6. XsdtRead
    BY Sizes DEF Init, XsdtRead, NoXsdt, EarlyMap
<1> QED BY <1>1, <1>2, <1>5, <1>6 DEF UefiInv

\* Every step keeps the invariant, of the application and of the callbacks.
LEMMA UefiStep == UefiInv /\ [Next]_vars => UefiInv'
<1> SUFFICES ASSUME UefiInv, [Next]_vars PROVE UefiInv'
    OBVIOUS
<1> USE DEF UefiInv
<1>1. Types' /\ MapBlock' /\ Growth'
    BY TypesStep, BlockStep, GrowthStep
<1>2. Scanned' /\ XsdtRead'
    BY ScannedStep, XsdtStep
<1> QED BY <1>1, <1>2

\* PrintMemoryMap reads only what was written into its block, and frees it,
\* however the map changes between the two calls.
THEOREM MapBlockSafe == Spec => []MapBlockUsedRight
<1>1. UefiInv => MapBlockUsedRight
    BY DEF UefiInv, MapBlock, MapBlockUsedRight
<1> QED BY <1>1, UefiInit, UefiStep, PTL DEF Spec

\* The map is given up for want of room only if it has grown by more than
\* two descriptors, for descriptors of any size.
THEOREM HeadroomCoversTwo == Spec => []HeadroomSuffices
<1>1. UefiInv => HeadroomSuffices
    BY DEF UefiInv, Growth, HeadroomSuffices
<1> QED BY <1>1, UefiInit, UefiStep, PTL DEF Spec

\* The newest tables are chosen in whatever order the configuration table
\* lists them, and however long it is.
THEOREM NewestIsChosen == Spec => []NewestTableChosen
<1>1. UefiInv => NewestTableChosen
    BY DEF UefiInv, Scanned, AfterScan, Chosen, Best, NewestTableChosen
<1> QED BY <1>1, UefiInit, UefiStep, PTL DEF Spec

\* XSDT entries are read behind three good checksums only, and of an XSDT
\* whose Length covers its header exactly the entries inside it are, with no
\* address from elsewhere, for a UINTN of any width.
THEOREM XsdtGuarded == Spec => []XsdtWalkGuarded
<1>1. ASSUME UefiInv PROVE XsdtWalkGuarded
    <2> USE <1>1 DEF UefiInv
    <2>1. pc \in {"entries", "fault"} =>
             rsdp.revision >= 2 /\ rsdp.v1 /\ rsdp.v2 /\ xsdt.valid
        BY DEF XsdtRead
    <2>2. ASSUME xsdt.valid, xsdt.length >= HeaderSize
          PROVE  /\ HeaderSize + 8 * index <= xsdt.length /\ pc # "fault"
                 /\ pc \in {"smbios", "return"} => ~EntryInside
        <3>1. /\ HeaderSize + 8 * EntryCount <= xsdt.length
              /\ HeaderSize + 8 * EntryCount > xsdt.length - 8
              /\ EntryCount \in Nat /\ xsdt.length \in Nat /\ index \in Nat
            BY <2>2, CountOfEntries, Sizes DEF XsdtRead, Types, HeaderSize
        <3>2. pc \in {"entries", "fault", "smbios", "return"}
            BY <2>2 DEF XsdtRead, Types, AfterScan
        <3>3. pc # "fault"
            BY <2>2 DEF XsdtRead
        <3>4. index <= EntryCount /\ (pc \in {"smbios", "return"} => index = EntryCount)
            <4>1. CASE pc \in {"smbios", "return"}
                BY <2>2, <3>1, <4>1 DEF XsdtRead
            <4>2. CASE pc = "entries"
                BY <4>2 DEF XsdtRead
            <4> QED BY <3>2, <3>3, <4>1, <4>2
        <3> HIDE DEF EntryCount
        <3> QED BY <3>1, <3>3, <3>4 DEF HeaderSize, EntryInside
    <2> QED BY <2>1, <2>2 DEF XsdtWalkGuarded
<1> QED BY <1>1, UefiInit, UefiStep, PTL DEF Spec
=============================================================================
