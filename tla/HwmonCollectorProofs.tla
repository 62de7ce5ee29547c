------------------------ MODULE HwmonCollectorProofs ------------------------
(***************************************************************************)
(* Proofs about the three collectors that run inside the program: what     *)
(* holds of cpu_id_collect for any processor, of cpu_telemetry_sample for  *)
(* counters of any width and any preemption, and of storage_enumerate for  *)
(* any drives and any descriptor.  Each part ends in the two facts that    *)
(* its invariant holds initially and is kept by every step.                *)
(***************************************************************************)
EXTENDS CpuIdentify, CpuTelemetry, StorageEnumerate, SequenceTheorems, TLAPS

(***************************************************************************)
(* cpu_id_collect.                                                         *)
(***************************************************************************)
CpuType ==
    [maxBasic : Nat, maxExtended : Nat \cup {-1}, logical : BOOLEAN,
     brand : BOOLEAN, avx : BOOLEAN, avx512f : BOOLEAN,
     invariant_tsc : BOOLEAN, osxsave : BOOLEAN, avxOs : BOOLEAN,
     avx512Os : BOOLEAN,
     topology : [available : BOOLEAN, smt : Nat, package : Nat]]

CpuTypes ==
    /\ cpuPc \in {"leaf0", "leaf1", "features", "xgetbv", "topology", "levels",
                  "widths", "os_count", "done"}
    /\ cpu \in CpuType
    /\ topo \in Topologies \cup {NoLevels} /\ leaf \in {0, 11, 31}
    /\ subleaf \in 0..(MAX_SUBLEAF + 1)
    /\ widths \in [smt : Nat, package : Nat]

\* What was executed, by the place; a leaf is executed once its maximum is
\* known, and neither maximum changes after that.
ExistingLeaf(e) ==
    \/ e[2] = 0
    \/ e[1] = "basic" /\ e[2] <= cpu.maxBasic
    \/ e[1] = "extended" /\ e[2] <= cpu.maxExtended

Executed ==
    /\ cpuPc = "leaf0" => executed = {}
    /\ cpuPc = "leaf1" => executed = {Basic(0)}
    /\ \A e \in executed : e = XGETBV \/ ExistingLeaf(e)
    /\ cpuPc \in {"leaf0", "leaf1", "features", "xgetbv"} =>
          XGETBV \notin executed /\ ~cpu.avx512Os
    /\ XGETBV \in executed => cpu.osxsave
    /\ cpu.avx512Os => cpu.avxOs /\ XGETBV \in executed
    /\ cpuPc = "leaf1" => cpu.maxBasic >= 1
    /\ cpuPc = "topology" => cpu.maxBasic >= 11

\* The width of the last SMT level among the first m.
LastSmt(m) ==
    LET smts == {k \in 1..m : topo[k].type = 1}
    IN IF smts = {} THEN 0
       ELSE topo[CHOOSE k \in smts : \A j \in smts : j <= k].width

LastPackage(m) == IF m = 0 THEN 0 ELSE topo[m].width

\* The number of levels the loop reads.
Cut == IF Len(topo) <= MAX_SUBLEAF + 1 THEN Len(topo) ELSE MAX_SUBLEAF + 1

\* A width that was read from an SMT level among the first m, if any was.
FromSmt(w, m) == w = 0 \/ \E k \in 1..m : topo[k].type = 1 /\ w = topo[k].width

LeafUsed ==
    /\ cpuPc \in {"leaf0", "leaf1", "features", "xgetbv"} => leaf = 0
    /\ cpuPc = "topology" => leaf \in {0, 31}
    /\ cpuPc \in {"levels", "widths"} => leaf # 0 /\ topo # <<>>
    /\ leaf = 31 /\ cpuPc # "topology" => topo # <<>>
    /\ leaf = 31 => Basic(31) \in executed
    /\ leaf = 11 /\ cpu.maxBasic >= 31 => Basic(31) \in executed

Topology ==
    /\ cpuPc \in {"leaf0", "leaf1", "features", "xgetbv", "topology"} =>
          subleaf = 0 /\ widths = NoWidths
    /\ cpuPc \notin {"os_count", "done"} => cpu.topology = NoTopology
    /\ cpuPc \in {"levels", "widths"} =>
          /\ subleaf <= Len(topo)
          /\ widths.smt = LastSmt(subleaf) /\ widths.package = LastPackage(subleaf)
          /\ FromSmt(widths.smt, subleaf)
    /\ cpuPc = "levels" => subleaf <= MAX_SUBLEAF
    /\ cpuPc = "widths" => subleaf = Cut
    /\ cpuPc \in {"os_count", "done"} /\ leaf # 0 =>
          /\ cpu.topology.available <=> LastPackage(Cut) > 0
          /\ cpu.topology.available =>
                /\ cpu.topology.package = LastPackage(Cut)
                /\ cpu.topology.smt = LastSmt(Cut) /\ FromSmt(cpu.topology.smt, Cut)

CpuInv == CpuTypes /\ Executed /\ LeafUsed /\ Topology

LevelType == [type : Nat \ {0}, width : Nat]

\* The levels that are walked are a nonempty list.
LEMMA LevelFacts ==
    ASSUME CpuTypes, LeafUsed, cpuPc \in {"levels", "widths"}
    PROVE  /\ topo \in Seq(LevelType) /\ Len(topo) \in Nat \ {0} /\ subleaf \in Nat
           /\ HasLevel(subleaf) => LevelAt(subleaf) \in LevelType
<1>1. topo \in Topologies /\ topo # <<>>
    BY DEF CpuTypes, LeafUsed, NoLevels
<1>2. topo \in Seq(LevelType)
    BY <1>1, CpuAssumption DEF TopologyType, LevelType
<1>3. Len(topo) \in Nat \ {0} /\ subleaf \in Nat
    BY <1>1, <1>2, CpuAssumption DEF CpuTypes
<1>4. HasLevel(subleaf) => LevelAt(subleaf) \in LevelType
    <2>1. HasLevel(subleaf) => subleaf + 1 \in 1..Len(topo)
        BY <1>3 DEF HasLevel
    <2> QED BY <1>2, <2>1 DEF LevelAt
<1> QED BY <1>2, <1>3, <1>4

\* Every step keeps the types.
LEMMA CpuTypesStep ==
    ASSUME CpuTypes, Executed, LeafUsed, Topology, CpuNext \/ UNCHANGED cpuVars
    PROVE  CpuTypes'
<1> USE CpuAssumption DEF CpuTypes, CpuGoto, topologyVars
<1>1. CASE ReadLeaf0
    BY <1>1 DEF ReadLeaf0, CpuType
<1>2. CASE ReadLeaf1
    <2>1. PICK n \in ExtendedLeaves, avx \in BOOLEAN, osxsave \in BOOLEAN :
             cpu' = [cpu EXCEPT !.maxExtended = n, !.avx = avx,
                                !.osxsave = osxsave,
                                !.brand = (collect_brand_string(n) # {})]
        BY <1>2, Zenon DEF ReadLeaf1
    <2>2. n \in Nat \cup {-1} /\ (collect_brand_string(n) # {}) \in BOOLEAN
        OBVIOUS
    <2>3. cpu' \in CpuType
        BY <2>1, <2>2 DEF CpuType
    <2> QED BY <1>2, <2>3 DEF ReadLeaf1
<1>3. CASE CollectFeatures
    <2>1. PICK a \in BOOLEAN, b \in BOOLEAN :
             cpu' = [cpu EXCEPT !.avx512f = cpu.maxBasic >= 7 /\ a,
                                !.invariant_tsc = cpu.maxExtended >= 7 /\ b]
        BY <1>3, Zenon DEF CollectFeatures
    <2>2. cpu' \in CpuType
        BY <2>1 DEF CpuType
    <2> QED BY <1>3, <2>2 DEF CollectFeatures
<1>4. CASE CollectXcr0
    <2>1. cpu' \in CpuType
        <3>1. CASE UNCHANGED cpu
            BY <3>1
        <3>2. ASSUME NEW ymm \in BOOLEAN, NEW zmm \in BOOLEAN,
                     cpu' = [cpu EXCEPT !.avxOs = ymm, !.avx512Os = ymm /\ zmm]
              PROVE  cpu' \in CpuType
            BY <3>2 DEF CpuType
        <3> QED BY <1>4, <3>1, <3>2 DEF CollectXcr0
    <2> QED BY <1>4, <2>1 DEF CollectXcr0
<1>5. CASE ConfirmLeaf
    BY <1>5 DEF ConfirmLeaf
<1>6. CASE ReadLevel
    <2>1. CASE HasLevel(subleaf)
        <3>1. LevelAt(subleaf).width \in Nat
            BY <1>6, <2>1, LevelFacts DEF ReadLevel, LevelType
        <3>2. widths' \in [smt : Nat, package : Nat]
            BY <1>6, <2>1, <3>1 DEF ReadLevel, SmtWidth
        <3>3. subleaf' \in 0..(MAX_SUBLEAF + 1)
            BY <1>6, <2>1 DEF ReadLevel, NextSubleaf, Topology
        <3> QED BY <1>6, <2>1, <3>2, <3>3 DEF ReadLevel
    <2>2. CASE ~HasLevel(subleaf)
        BY <1>6, <2>2 DEF ReadLevel
    <2> QED BY <2>1, <2>2
<1>7. CASE StoreTopology
    BY <1>7 DEF StoreTopology, CpuType
<1>8. CASE QueryOsCount
    BY <1>8 DEF QueryOsCount, CpuType
<1>9. CASE UNCHANGED cpuVars
    BY <1>9 DEF cpuVars
<1> QED BY <1>1, <1>2, <1>3, <1>4, <1>5, <1>6, <1>7, <1>8, <1>9 DEF CpuNext

\* No instruction is executed before the processor is known to have it.
LEMMA ExecutedStep ==
    ASSUME CpuTypes, Executed, CpuNext \/ UNCHANGED cpuVars
    PROVE  Executed'
<1> USE DEF Executed, CpuGoto, Execute, Basic, Extended, XGETBV
<1>0. cpu.maxBasic \in Nat /\ cpu.maxExtended \in Int
    BY DEF CpuTypes, CpuType
<1>1. CASE ReadLeaf0
    <2>1. PICK n \in BasicLeaves : cpu' = [cpu EXCEPT !.maxBasic = n]
        BY <1>1 DEF ReadLeaf0
    <2>2. cpu'.maxBasic = n /\ n \in Nat /\ cpu'.avx512Os = cpu.avx512Os
        BY <2>1, CpuAssumption DEF CpuTypes, CpuType
    <2>3. cpuPc = "leaf0" /\ cpuPc' \in {"done", "leaf1"}
          /\ (cpuPc' = "leaf1" => cpu'.maxBasic >= 1)
        BY <1>1, <2>2 DEF ReadLeaf0
    <2>4. executed' = {Basic(0)}
        BY <1>1 DEF ReadLeaf0
    <2> QED BY <2>2, <2>3, <2>4 DEF ExistingLeaf
<1>2. CASE ReadLeaf1
    <2>1. PICK n \in ExtendedLeaves, avx \in BOOLEAN, osxsave \in BOOLEAN :
             /\ cpu' = [cpu EXCEPT !.maxExtended = n, !.avx = avx,
                                   !.osxsave = osxsave,
                                   !.brand = (collect_brand_string(n) # {})]
             /\ Execute({Basic(1), Extended(0)} \cup collect_brand_string(n))
        BY <1>2, Zenon DEF ReadLeaf1
    <2>2. /\ cpu'.maxBasic = cpu.maxBasic /\ cpu'.maxExtended = n
          /\ n \in Int /\ cpu'.avx512Os = cpu.avx512Os
        BY <2>1, CpuAssumption DEF CpuTypes, CpuType
    <2>3. cpuPc = "leaf1" /\ cpuPc' = "features" /\ cpu.maxBasic >= 1
        BY <1>2 DEF ReadLeaf1
    <2>4. \A e \in collect_brand_string(n) :
             e[1] = "extended" /\ e[2] <= n /\ e # XGETBV
        BY <2>2 DEF collect_brand_string
    <2>5. \A e \in executed' : e # XGETBV /\ ExistingLeaf(e)'
        <3> SUFFICES ASSUME NEW e \in executed'
                     PROVE  e # XGETBV /\ ExistingLeaf(e)'
            OBVIOUS
        <3>1. CASE e \in collect_brand_string(n)
            BY <2>2, <2>4, <3>1 DEF ExistingLeaf
        <3>2. CASE e \in {Basic(0), Basic(1), Extended(0)}
            BY <1>0, <2>2, <2>3, <3>2 DEF ExistingLeaf
        <3> QED BY <2>1, <2>3, <3>1, <3>2
    <2> QED BY <2>2, <2>3, <2>5
<1>3. CASE CollectFeatures
    <2> DEFINE new == (IF cpu.maxBasic >= 7 THEN {Basic(7)} ELSE {})
                         \cup (IF cpu.maxExtended >= 1 THEN {Extended(1)} ELSE {})
                         \cup (IF cpu.maxExtended >= 7 THEN {Extended(7)} ELSE {})
    <2>1. PICK a \in BOOLEAN, b \in BOOLEAN :
             cpu' = [cpu EXCEPT !.avx512f = cpu.maxBasic >= 7 /\ a,
                                !.invariant_tsc = cpu.maxExtended >= 7 /\ b]
        BY <1>3, Zenon DEF CollectFeatures
    <2>2. /\ cpu'.maxBasic = cpu.maxBasic /\ cpu'.maxExtended = cpu.maxExtended
          /\ cpu'.avx512Os = cpu.avx512Os
        BY <2>1 DEF CpuTypes, CpuType
    <2>3. /\ cpuPc = "features" /\ cpuPc' = "xgetbv"
          /\ executed' = executed \cup new
        BY <1>3, Zenon DEF CollectFeatures, Execute, CpuGoto
    <2>4. \A e \in new : e # XGETBV /\ ExistingLeaf(e)
        BY <1>0 DEF ExistingLeaf
    <2>5. \A e : ExistingLeaf(e)' <=> ExistingLeaf(e)
        BY <2>2 DEF ExistingLeaf
    <2> HIDE DEF new
    <2> QED BY <2>2, <2>3, <2>4, <2>5
<1>4. CASE CollectXcr0
    <2>1. cpuPc = "xgetbv" /\ cpuPc' \in {"os_count", "topology"}
          /\ (cpuPc' = "topology" => cpu.maxBasic >= 11)
        <3>1. /\ cpuPc = "xgetbv"
              /\ cpuPc' = IF cpu.maxBasic < 11 THEN "os_count" ELSE "topology"
            BY <1>4, Zenon DEF CollectXcr0, CpuGoto
        <3> HIDE DEF Executed
        <3> QED BY <1>0, <3>1
    <2>2. CASE UNCHANGED <<cpu, executed>>
        BY <2>1, <2>2 DEF ExistingLeaf
    <2>3. ASSUME cpu.osxsave, executed' = executed \cup {XGETBV},
                 NEW ymm \in BOOLEAN, NEW zmm \in BOOLEAN,
                 cpu' = [cpu EXCEPT !.avxOs = ymm, !.avx512Os = ymm /\ zmm]
          PROVE  Executed'
        <3>1. /\ cpu'.maxBasic = cpu.maxBasic /\ cpu'.maxExtended = cpu.maxExtended
              /\ cpu'.osxsave = cpu.osxsave
            BY <2>3 DEF CpuTypes, CpuType
        <3>2. cpu'.avx512Os => cpu'.avxOs
            BY <2>3 DEF CpuTypes, CpuType
        <3>3. \A e : ExistingLeaf(e)' <=> ExistingLeaf(e)
            BY <3>1 DEF ExistingLeaf
        <3> QED BY <2>1, <2>3, <3>1, <3>2, <3>3
    <2> QED BY <1>4, <2>2, <2>3 DEF CollectXcr0, XcrReadable
<1>5. CASE ConfirmLeaf
    <2>1. /\ cpuPc = "topology" /\ cpuPc' \in {"levels", "topology", "os_count"}
          /\ UNCHANGED cpu /\ executed' = executed \cup {Basic(leaf')}
        BY <1>5 DEF ConfirmLeaf
    <2>2. leaf' \in {11, 31} /\ leaf' <= cpu.maxBasic
        BY <1>0, <1>5 DEF ConfirmLeaf
    <2>3. \A e : ExistingLeaf(e)' <=> ExistingLeaf(e)
        BY <2>1 DEF ExistingLeaf
    <2>4. ExistingLeaf(Basic(leaf')) /\ Basic(leaf') # XGETBV
        BY <2>2 DEF ExistingLeaf
    <2> QED BY <2>1, <2>3, <2>4
<1>6. CASE ReadLevel
    <2>1. /\ cpuPc = "levels" /\ cpuPc' \in {"widths", "levels"}
          /\ UNCHANGED <<cpu, executed>>
        BY <1>6 DEF ReadLevel
    <2> QED BY <2>1 DEF ExistingLeaf
<1>7. CASE StoreTopology
    <2>1. /\ cpuPc = "widths" /\ cpuPc' = "os_count" /\ UNCHANGED executed
          /\ cpu'.maxBasic = cpu.maxBasic /\ cpu'.maxExtended = cpu.maxExtended
          /\ cpu'.osxsave = cpu.osxsave /\ cpu'.avx512Os = cpu.avx512Os
          /\ cpu'.avxOs = cpu.avxOs
        BY <1>7 DEF StoreTopology, CpuTypes, CpuType
    <2> QED BY <2>1 DEF ExistingLeaf
<1>8. CASE QueryOsCount
    <2>1. /\ cpuPc = "os_count" /\ cpuPc' = "done" /\ UNCHANGED executed
          /\ cpu'.maxBasic = cpu.maxBasic /\ cpu'.maxExtended = cpu.maxExtended
          /\ cpu'.osxsave = cpu.osxsave /\ cpu'.avx512Os = cpu.avx512Os
          /\ cpu'.avxOs = cpu.avxOs
        BY <1>8 DEF QueryOsCount, CpuTypes, CpuType
    <2> QED BY <2>1 DEF ExistingLeaf
<1>9. CASE UNCHANGED cpuVars
    BY <1>9 DEF cpuVars, ExistingLeaf
<1> QED BY <1>1, <1>2, <1>3, <1>4, <1>5, <1>6, <1>7, <1>8, <1>9 DEF CpuNext

\* Leaf 1FH comes first if the processor has it, and 0BH only after it was
\* found empty.
LEMMA LeafStep ==
    ASSUME CpuTypes, Executed, LeafUsed, CpuNext \/ UNCHANGED cpuVars
    PROVE  LeafUsed'
<1> USE DEF LeafUsed, CpuGoto, Execute, topologyVars
<1>0. cpu.maxBasic \in Nat
    BY DEF CpuTypes, CpuType
<1>1. CASE ReadLeaf0
    BY <1>1 DEF ReadLeaf0
<1>2. CASE ReadLeaf1
    BY <1>2 DEF ReadLeaf1
<1>3. CASE CollectFeatures
    BY <1>3 DEF CollectFeatures
<1>4. CASE CollectXcr0
    <2>1. leaf' = 0 /\ cpuPc' \in {"os_count", "topology"}
        BY <1>4 DEF CollectXcr0
    <2> QED BY <2>1
<1>5. CASE ConfirmLeaf
    <2>1. /\ cpuPc = "topology" /\ leaf \in {0, 31} /\ UNCHANGED cpu
          /\ leaf' = IF leaf = 0 /\ cpu.maxBasic >= 31 THEN 31 ELSE 11
          /\ executed' = executed \cup {Basic(leaf')}
        BY <1>5 DEF ConfirmLeaf
    <2>2. \/ cpuPc' = "levels" /\ topo' # <<>>
          \/ cpuPc' = "topology" /\ topo' = <<>> /\ leaf' = 31
          \/ cpuPc' = "os_count" /\ topo' = <<>> /\ leaf' # 31
        BY <1>5 DEF ConfirmLeaf
    <2>3. leaf' \in {11, 31}
        BY <2>1
    <2>4. leaf' = 31 => Basic(31) \in executed'
        BY <2>1
    <2>5. leaf' = 11 /\ cpu'.maxBasic >= 31 => Basic(31) \in executed'
        BY <2>1
    <2> QED BY <2>2, <2>3, <2>4, <2>5
<1>6. CASE ReadLevel
    BY <1>6 DEF ReadLevel
<1>7. CASE StoreTopology
    <2>1. cpu'.maxBasic = cpu.maxBasic
        BY <1>7 DEF StoreTopology, CpuTypes, CpuType
    <2> QED BY <1>7, <2>1 DEF StoreTopology
<1>8. CASE QueryOsCount
    <2>1. cpu'.maxBasic = cpu.maxBasic
        BY <1>8 DEF QueryOsCount, CpuTypes, CpuType
    <2> QED BY <1>8, <2>1 DEF QueryOsCount
<1>9. CASE UNCHANGED cpuVars
    BY <1>9 DEF cpuVars
<1> QED BY <1>1, <1>2, <1>3, <1>4, <1>5, <1>6, <1>7, <1>8, <1>9 DEF CpuNext

\* The last SMT level among one more level.
LEMMA LastSmtNext ==
    ASSUME NEW m \in Nat
    PROVE  LastSmt(m + 1) = IF topo[m + 1].type = 1
                            THEN topo[m + 1].width ELSE LastSmt(m)
<1> DEFINE smts(k) == {j \in 1..k : topo[j].type = 1}
           Width(S) == IF S = {} THEN 0
                       ELSE topo[CHOOSE k \in S : \A j \in S : j <= k].width
<1>1. CASE topo[m + 1].type = 1
    <2> DEFINE last == CHOOSE k \in smts(m + 1) : \A j \in smts(m + 1) : j <= k
    <2>1. m + 1 \in smts(m + 1) /\ \A j \in smts(m + 1) : j \in Nat /\ j <= m + 1
        BY <1>1
    <2>2. last \in smts(m + 1) /\ \A j \in smts(m + 1) : j <= last
        <3> HIDE DEF smts
        <3> QED BY <2>1
    <2>3. last = m + 1
        <3>1. last \in Nat /\ last <= m + 1 /\ m + 1 <= last
            BY <2>1, <2>2
        <3> HIDE DEF last
        <3> QED BY <3>1
    <2>4. smts(m + 1) # {}
        BY <2>1
    <2> QED BY <1>1, <2>3, <2>4 DEF LastSmt
<1>2. CASE topo[m + 1].type # 1
    <2>1. smts(m + 1) = smts(m)
        BY <1>2
    <2>2. LastSmt(m + 1) = Width(smts(m + 1)) /\ LastSmt(m) = Width(smts(m))
        BY DEF LastSmt
    <2> HIDE DEF smts, Width
    <2> QED BY <1>2, <2>1, <2>2
<1> QED BY <1>1, <1>2

\* The widths are those of the levels read.
LEMMA LevelRead ==
    ASSUME CpuTypes, LeafUsed, Topology, ReadLevel, HasLevel(subleaf)
    PROVE  /\ widths'.smt = LastSmt(subleaf)' /\ widths'.package = LastPackage(subleaf)'
           /\ FromSmt(widths.smt, subleaf)'
           /\ subleaf' = subleaf + 1 /\ subleaf' <= Len(topo)
           /\ subleaf' > MAX_SUBLEAF => subleaf' = Cut'
           /\ UNCHANGED topo
<1>1. /\ cpuPc = "levels" /\ UNCHANGED topo
      /\ widths'.smt = SmtWidth(topo[subleaf + 1])
      /\ widths'.package = topo[subleaf + 1].width /\ subleaf' = subleaf + 1
    BY DEF ReadLevel, NextSubleaf, LevelAt
<1>2. /\ Len(topo) \in Nat /\ subleaf \in Nat /\ subleaf <= MAX_SUBLEAF
      /\ MAX_SUBLEAF \in Nat /\ subleaf < Len(topo)
    BY <1>1, CpuAssumption, LevelFacts DEF Topology, HasLevel
<1>3. widths.smt = LastSmt(subleaf) /\ FromSmt(widths.smt, subleaf)
    BY <1>1 DEF Topology
<1>4. widths'.smt = LastSmt(subleaf + 1)
    BY <1>1, <1>2, <1>3, LastSmtNext DEF SmtWidth
<1>5. widths'.package = LastPackage(subleaf + 1)
    BY <1>1, <1>2 DEF LastPackage
<1>6. LastSmt(subleaf)' = LastSmt(subleaf + 1)
      /\ LastPackage(subleaf)' = LastPackage(subleaf + 1)
    BY <1>1 DEF LastSmt, LastPackage
<1>7. FromSmt(widths'.smt, subleaf + 1)
    <2>1. CASE topo[subleaf + 1].type = 1
        <3>1. subleaf + 1 \in 1..(subleaf + 1)
            BY <1>2
        <3> QED BY <1>1, <2>1, <3>1 DEF FromSmt, SmtWidth
    <2>2. CASE topo[subleaf + 1].type # 1
        <3>1. widths'.smt = widths.smt /\ 1..subleaf \subseteq 1..(subleaf + 1)
            BY <1>1, <1>2, <2>2 DEF SmtWidth
        <3> QED BY <1>3, <3>1 DEF FromSmt
    <2> QED BY <2>1, <2>2
<1>8. FromSmt(widths.smt, subleaf)'
    BY <1>1, <1>7 DEF FromSmt
<1>9. subleaf' > MAX_SUBLEAF => subleaf' = Cut'
    BY <1>1, <1>2 DEF Cut
<1> QED BY <1>1, <1>2, <1>4, <1>5, <1>6, <1>8, <1>9

\* The topology is the one the levels describe.
LEMMA TopologyStep ==
    ASSUME CpuTypes, LeafUsed, Topology, CpuNext \/ UNCHANGED cpuVars
    PROVE  Topology'
<1> USE DEF Topology, CpuGoto, topologyVars
<1>0. cpu \in CpuType
    BY DEF CpuTypes
<1>1. CASE ReadLeaf0
    <2>1. cpu'.topology = cpu.topology /\ leaf = 0
        BY <1>0, <1>1 DEF ReadLeaf0, CpuType, LeafUsed
    <2> QED BY <1>1, <2>1 DEF ReadLeaf0
<1>2. CASE ReadLeaf1
    <2>1. cpu'.topology = cpu.topology
        BY <1>0, <1>2 DEF ReadLeaf1, CpuType
    <2> QED BY <1>2, <2>1 DEF ReadLeaf1
<1>3. CASE CollectFeatures
    <2>1. cpu'.topology = cpu.topology
        BY <1>0, <1>3 DEF CollectFeatures, CpuType
    <2> QED BY <1>3, <2>1 DEF CollectFeatures
<1>4. CASE CollectXcr0
    <2>1. cpu'.topology = cpu.topology /\ leaf = 0
        BY <1>0, <1>4 DEF CollectXcr0, CpuType, LeafUsed
    <2> QED BY <1>4, <2>1 DEF CollectXcr0
<1>5. CASE ConfirmLeaf
    <2>1. /\ cpuPc = "topology" /\ UNCHANGED <<cpu, subleaf, widths>>
          /\ subleaf = 0 /\ widths = NoWidths /\ cpu.topology = NoTopology
        BY <1>5 DEF ConfirmLeaf
    <2>2. CASE cpuPc' = "levels"
        <3>1. topo' \in Topologies /\ topo' # <<>>
            BY <1>5, <2>2 DEF ConfirmLeaf
        <3>2. Len(topo') \in Nat \ {0} /\ MAX_SUBLEAF \in Nat
            BY <3>1, CpuAssumption DEF TopologyType
        <3>3. LastSmt(subleaf)' = 0 /\ LastPackage(subleaf)' = 0
            BY <2>1 DEF LastSmt, LastPackage
        <3>4. FromSmt(widths.smt, subleaf)'
            BY <2>1 DEF FromSmt, NoWidths
        <3> QED BY <2>1, <2>2, <3>2, <3>3, <3>4 DEF NoWidths
    <2>3. CASE cpuPc' = "topology"
        BY <2>1, <2>3
    <2>4. CASE cpuPc' = "os_count"
        <3>1. topo' = <<>>
            BY <1>5, <2>4 DEF ConfirmLeaf
        <3>2. Cut' = 0
            BY <3>1, CpuAssumption DEF Cut
        <3>3. LastPackage(Cut)' = 0
            BY <3>2 DEF LastPackage
        <3> QED BY <2>1, <2>4, <3>3 DEF NoTopology
    <2> QED BY <1>5, <2>2, <2>3, <2>4 DEF ConfirmLeaf
<1>6. CASE ReadLevel
    <2>1. cpuPc = "levels" /\ cpuPc' \in {"levels", "widths"} /\ UNCHANGED cpu
        BY <1>6 DEF ReadLevel
    <2>2. CASE HasLevel(subleaf)
        <3>1. /\ cpuPc' = "widths" => subleaf' > MAX_SUBLEAF
              /\ cpuPc' = "levels" => ~(subleaf' > MAX_SUBLEAF)
            BY <1>6, <2>2 DEF ReadLevel
        <3>2. subleaf' \in Nat /\ MAX_SUBLEAF \in Nat
            BY <1>6, <2>2, LevelRead, CpuAssumption DEF CpuTypes
        <3> QED BY <1>6, <2>1, <2>2, <3>1, <3>2, LevelRead
    <2>3. CASE ~HasLevel(subleaf)
        <3>1. cpuPc' = "widths" /\ UNCHANGED <<widths, subleaf, topo>>
            BY <1>6, <2>3 DEF ReadLevel
        <3>2. subleaf = Len(topo) /\ subleaf = Cut
            <4>1. /\ subleaf <= MAX_SUBLEAF /\ subleaf <= Len(topo) /\ ~(subleaf < Len(topo))
                  /\ subleaf \in Nat /\ Len(topo) \in Nat /\ MAX_SUBLEAF \in Nat
                BY <2>1, <2>3, LevelFacts, CpuAssumption DEF HasLevel
            <4> QED BY <4>1 DEF Cut
        <3>3. /\ LastSmt(subleaf)' = LastSmt(subleaf)
              /\ LastPackage(subleaf)' = LastPackage(subleaf) /\ Cut' = Cut
              /\ FromSmt(widths.smt, subleaf) => FromSmt(widths.smt, subleaf)'
            BY <3>1 DEF LastSmt, LastPackage, Cut, FromSmt
        <3> QED BY <2>1, <3>1, <3>2, <3>3
    <2> QED BY <2>2, <2>3
<1>7. CASE StoreTopology
    <2>1. /\ cpuPc = "widths" /\ cpuPc' = "os_count" /\ UNCHANGED topo
          /\ widths.package = LastPackage(Cut) /\ widths.smt = LastSmt(Cut)
          /\ FromSmt(widths.smt, Cut) /\ cpu.topology = NoTopology
        BY <1>7 DEF StoreTopology
    <2>2. /\ LastSmt(Cut)' = LastSmt(Cut) /\ LastPackage(Cut)' = LastPackage(Cut)
          /\ \A w : FromSmt(w, Cut) => FromSmt(w, Cut)'
        BY <2>1 DEF LastSmt, LastPackage, Cut, FromSmt
    <2>3. CASE widths.package > 0
        <3>1. cpu'.topology = [available |-> TRUE, smt |-> widths.smt,
                               package |-> widths.package]
            BY <1>0, <1>7, <2>3 DEF StoreTopology, CpuType
        <3>2. FromSmt(cpu.topology.smt, Cut)'
            BY <2>1, <3>1 DEF FromSmt, Cut
        <3> QED BY <2>1, <2>2, <2>3, <3>1, <3>2
    <2>4. CASE ~(widths.package > 0)
        <3>1. cpu' = cpu
            BY <1>7, <2>4 DEF StoreTopology
        <3> QED BY <2>1, <2>2, <2>4, <3>1 DEF NoTopology
    <2> QED BY <2>3, <2>4
<1>8. CASE QueryOsCount
    <2>1. cpu'.topology = cpu.topology
        BY <1>0, <1>8 DEF QueryOsCount, CpuType
    <2>2. /\ LastSmt(Cut)' = LastSmt(Cut) /\ LastPackage(Cut)' = LastPackage(Cut)
          /\ FromSmt(cpu.topology.smt, Cut) => FromSmt(cpu.topology.smt, Cut)'
        BY <1>8, <2>1 DEF QueryOsCount, LastSmt, LastPackage, Cut, FromSmt
    <2> QED BY <1>8, <2>1, <2>2 DEF QueryOsCount
<1>9. CASE UNCHANGED cpuVars
    BY <1>9 DEF cpuVars, LastSmt, LastPackage, Cut, FromSmt
<1> QED BY <1>1, <1>2, <1>3, <1>4, <1>5, <1>6, <1>7, <1>8, <1>9 DEF CpuNext

\* cpu_id_collect starts in the invariant.
LEMMA CpuStart == ASSUME CpuInit PROVE CpuInv
<1>1. EmptyIdentity \in CpuType
    BY DEF EmptyIdentity, NoTopology, CpuType
<1>2. CpuTypes
    BY <1>1, CpuAssumption DEF CpuInit, CpuTypes, NoWidths
<1>3. Executed /\ LeafUsed
    BY DEF CpuInit, Executed, LeafUsed, EmptyIdentity, XGETBV
<1>4. Topology
    BY DEF CpuInit, Topology, EmptyIdentity
<1> QED BY <1>2, <1>3, <1>4 DEF CpuInv

\* It stays there.
LEMMA CpuStep ==
    ASSUME CpuInv, CpuNext \/ UNCHANGED cpuVars PROVE CpuInv'
BY CpuTypesStep, ExecutedStep, LeafStep, TopologyStep DEF CpuInv

\* The invariant implies what is promised of the instructions executed.
LEMMA CpuInstructions == CpuInv => InstructionsGuarded
<1> SUFFICES ASSUME CpuInv PROVE InstructionsGuarded
    OBVIOUS
<1>1. ASSUME NEW e \in executed \ {XGETBV}
      PROVE  e[2] = 0 \/ e[2] <= (IF e[1] = "basic" THEN cpu.maxBasic
                                                    ELSE cpu.maxExtended)
    BY DEF CpuInv, Executed, ExistingLeaf
<1> QED BY <1>1 DEF CpuInv, Executed, InstructionsGuarded

\* And what is promised of the topology.
LEMMA CpuTopology == CpuInv => TopologyFromLastLevel
<1> SUFFICES ASSUME CpuInv PROVE TopologyFromLastLevel
    OBVIOUS
<1> DEFINE n == Len(topo)
           smts == {k \in 1..n : topo[k].type = 1}
<1>1. subleaf <= MAX_SUBLEAF + 1
    BY CpuAssumption DEF CpuInv, CpuTypes
<1>2. ASSUME cpuPc = "done", leaf # 0
      PROVE  /\ leaf = 31 => n > 0
             /\ leaf = 11 /\ cpu.maxBasic >= 31 => Basic(31) \in executed
             /\ n <= MAX_SUBLEAF + 1 =>
                   /\ cpu.topology.available <=> n > 0 /\ topo[n].width > 0
                   /\ cpu.topology.available =>
                         /\ cpu.topology.package = topo[n].width
                         /\ cpu.topology.smt =
                               IF smts = {} THEN 0
                               ELSE topo[CHOOSE k \in smts :
                                            \A j \in smts : j <= k].width
             /\ n > MAX_SUBLEAF + 1 /\ cpu.topology.available =>
                   /\ \E k \in 1..(MAX_SUBLEAF + 1) :
                         cpu.topology.package = topo[k].width
                   /\ \/ cpu.topology.smt = 0
                      \/ \E k \in smts : /\ k <= MAX_SUBLEAF + 1
                                          /\ cpu.topology.smt = topo[k].width
    <2>1. n \in Nat /\ (topo # <<>> => n > 0) /\ MAX_SUBLEAF \in Nat
        <3>1. topo \in Seq(LevelType)
            <4>1. CASE topo = NoLevels
                BY <4>1 DEF NoLevels
            <4>2. CASE topo \in Topologies
                BY <4>2, CpuAssumption DEF TopologyType, LevelType
            <4> QED BY <4>1, <4>2 DEF CpuInv, CpuTypes
        <3> QED BY <3>1, CpuAssumption
    <2>2. leaf = 31 => n > 0
        BY <1>2, <2>1 DEF CpuInv, LeafUsed
    <2>3. leaf = 11 /\ cpu.maxBasic >= 31 => Basic(31) \in executed
        BY DEF CpuInv, LeafUsed
    <2>4. /\ cpu.topology.available <=> LastPackage(Cut) > 0
          /\ cpu.topology.available =>
                /\ cpu.topology.package = LastPackage(Cut)
                /\ cpu.topology.smt = LastSmt(Cut) /\ FromSmt(cpu.topology.smt, Cut)
        BY <1>2 DEF CpuInv, Topology
    <2>5. ASSUME n <= MAX_SUBLEAF + 1
          PROVE  /\ cpu.topology.available <=> n > 0 /\ topo[n].width > 0
                 /\ cpu.topology.available =>
                       /\ cpu.topology.package = topo[n].width
                       /\ cpu.topology.smt =
                             IF smts = {} THEN 0
                             ELSE topo[CHOOSE k \in smts :
                                          \A j \in smts : j <= k].width
        <3>1. Cut = n
            BY <2>5 DEF Cut
        <3>2. LastPackage(n) > 0 <=> n > 0 /\ topo[n].width > 0
            BY <2>1 DEF LastPackage
        <3>3. LastPackage(n) > 0 => LastPackage(n) = topo[n].width
            BY <2>1 DEF LastPackage
        <3>4. LastSmt(n) = IF smts = {} THEN 0
                           ELSE topo[CHOOSE k \in smts : \A j \in smts : j <= k].width
            BY DEF LastSmt
        <3> HIDE DEF n, smts
        <3> QED BY <2>4, <3>1, <3>2, <3>3, <3>4
    <2>6. ASSUME n > MAX_SUBLEAF + 1, cpu.topology.available
          PROVE  /\ \E k \in 1..(MAX_SUBLEAF + 1) :
                       cpu.topology.package = topo[k].width
                 /\ \/ cpu.topology.smt = 0
                    \/ \E k \in smts : /\ k <= MAX_SUBLEAF + 1
                                        /\ cpu.topology.smt = topo[k].width
        <3>1. Cut = MAX_SUBLEAF + 1 /\ Cut \in 1..(MAX_SUBLEAF + 1)
            BY <2>1, <2>6 DEF Cut
        <3>2. cpu.topology.package = topo[Cut].width
            BY <2>1, <2>4, <2>6, <3>1 DEF LastPackage
        <3>3. \A k \in 1..Cut : k \in 1..n /\ k <= MAX_SUBLEAF + 1
            BY <2>1, <2>6, <3>1
        <3>4. FromSmt(cpu.topology.smt, Cut)
            BY <2>4, <2>6
        <3> QED BY <3>1, <3>2, <3>3, <3>4 DEF FromSmt
    <2> HIDE DEF n, smts
    <2> QED BY <2>2, <2>3, <2>5, <2>6
<1> QED BY <1>1, <1>2 DEF TopologyFromLastLevel

-----------------------------------------------------------------------------
(***************************************************************************)
(* cpu_telemetry_sample.                                                   *)
(***************************************************************************)
CounterValue == 0..(COUNTER_MOD - 1)

TelType ==
    [utilization_available : BOOLEAN, busy : Nat, total : Nat,
     frequency_available : BOOLEAN, tscDelta : Nat, qpcDelta : Nat]

TelTypes ==
    /\ telPc \in {"times0", "times1", "calibrate", "first", "second", "third",
                  "done"}
    /\ times \in [Counters -> CounterValue] /\ spent \in [Counters -> Nat]
    /\ now \in Nat /\ ticks \in Nat
    /\ clocks \in [qpc0 : Nat, tsc0 : CounterValue, tsc1 : CounterValue]
    /\ tel \in TelType

\* No utilization before the second call.
Utilization ==
    /\ telPc \in {"times0", "times1"} => ~tel.utilization_available
    /\ UtilizationIsTrue

\* The TSC window lies inside the performance counter's.
Frequency(invariant_tsc) ==
    /\ telPc \in {"first", "second", "third"} => invariant_tsc
    /\ telPc # "done" => ~tel.frequency_available
    /\ telPc = "second" => ticks = 0 /\ clocks.qpc0 <= now
    /\ telPc = "third" =>
          /\ clocks.qpc0 <= now /\ ticks < COUNTER_MOD
          /\ ticks <= TscRate * (now - clocks.qpc0)
          /\ clocks.tsc1 = (clocks.tsc0 + ticks) % COUNTER_MOD
    /\ FrequencyNeverTooHigh(invariant_tsc)

TelInv(invariant_tsc) == TelTypes /\ Utilization /\ Frequency(invariant_tsc)

\* A value in range is its own remainder; one modulus more or less does not
\* change it.
LEMMA Remainder ==
    ASSUME NEW m \in Nat \ {0}, NEW a \in 0..(m - 1)
    PROVE  a % m = a /\ (a + m) % m = a /\ (a - m) % m = a
<1>1. a % m = a
    OBVIOUS
<1>2. (a + m) % m = a
    OBVIOUS
<1>3. (a - m) % m = a
    OBVIOUS
<1> QED BY <1>1, <1>2, <1>3

\* The unsigned difference of two readings is what passed between them.
LEMMA DifferenceAcrossWrap ==
    ASSUME NEW m \in Nat \ {0}, NEW a \in 0..(m - 1), NEW d \in 0..(m - 1)
    PROVE  (((a + d) % m) - a) % m = d
<1>1. CASE a + d < m
    <2>1. (a + d) % m = a + d
        BY <1>1, Remainder
    <2>2. a + d - a = d
        OBVIOUS
    <2> QED BY <2>1, <2>2, Remainder
<1>2. CASE ~(a + d < m)
    <2>1. a + d - m \in 0..(m - 1) /\ (a + d - m) + m = a + d
        BY <1>2
    <2>2. (a + d) % m = a + d - m
        BY <2>1, Remainder
    <2>3. (a + d - m) - a = d - m
        OBVIOUS
    <2> QED BY <2>2, <2>3, Remainder
<1> QED BY <1>1, <1>2

\* A longer time has no fewer ticks.
LEMMA TicksMonotone ==
    ASSUME NEW r \in Nat, NEW a \in Nat, NEW b \in Nat, a <= b
    PROVE  r * a \in Nat /\ r * a <= r * b
<1>1. b - a \in Nat
    OBVIOUS
<1>2. r * (b - a) \in Nat /\ r * a \in Nat
    BY <1>1
<1>3. r * b = r * a + r * (b - a)
    OBVIOUS
<1> QED BY <1>2, <1>3

\* The second call of GetSystemTimes: the deltas are the times that passed.
LEMMA SecondTimesRight ==
    ASSUME TelTypes, SecondTimes, spent' \in [Counters -> Elapsed],
           NEW total, total = spent'["kernel"] + spent'["user"],
           NEW busy, busy = IF total = 0 THEN 0 ELSE Busy(total, spent'["idle"]),
           tel' = [tel EXCEPT !.utilization_available = TRUE, !.total = total,
                              !.busy = busy]
    PROVE  tel' \in TelType /\ spent' \in [Counters -> Nat] /\ UtilizationIsTrue'
<1>1. spent' \in [Counters -> Nat]
    BY TelemetryAssumption
<1>2. spent'["kernel"] \in Nat /\ spent'["user"] \in Nat /\ spent'["idle"] \in Nat
    BY <1>1 DEF Counters
<1>3. total \in Nat /\ busy \in 0..total
      /\ (spent'["idle"] <= total => busy = total - spent'["idle"])
    BY <1>2 DEF Busy
<1>4. tel \in TelType /\ busy \in Nat
    BY <1>3 DEF TelTypes
<1>5. tel' \in TelType
    BY <1>3, <1>4 DEF TelType
<1>6. tel'.total = total /\ tel'.busy = busy
    BY <1>4 DEF TelType
<1> QED BY <1>1, <1>3, <1>5, <1>6 DEF UtilizationIsTrue

\* The unsigned arithmetic of the code gives these values although every
\* counter may wrap.
LEMMA DeltasAreTrue ==
    ASSUME TelTypes, NEW sp \in [Counters -> Elapsed]
    PROVE  LET delta == [c \in Counters |->
                            Delta(times[c], (times[c] + sp[c]) % COUNTER_MOD)]
           IN /\ delta["idle"] = sp["idle"]
              /\ (delta["kernel"] + delta["user"]) % COUNTER_MOD
                    = sp["kernel"] + sp["user"]
<1>1. ASSUME NEW c \in Counters
      PROVE  Delta(times[c], (times[c] + sp[c]) % COUNTER_MOD) = sp[c]
    <2>1. times[c] \in 0..(COUNTER_MOD - 1) /\ COUNTER_MOD \in Nat \ {0}
        BY TelemetryAssumption DEF TelTypes, CounterValue
    <2>2. sp[c] \in Nat /\ 2 * sp[c] < COUNTER_MOD
        BY TelemetryAssumption
    <2>3. sp[c] \in 0..(COUNTER_MOD - 1)
        BY <2>1, <2>2
    <2> QED BY <2>1, <2>3, DifferenceAcrossWrap DEF Delta
<1>2. /\ sp["kernel"] \in Nat /\ 2 * sp["kernel"] < COUNTER_MOD
      /\ sp["user"] \in Nat /\ 2 * sp["user"] < COUNTER_MOD
      /\ COUNTER_MOD \in Nat \ {0}
    BY TelemetryAssumption DEF Counters
<1>3. sp["kernel"] + sp["user"] \in 0..(COUNTER_MOD - 1)
    BY <1>2
<1>4. (sp["kernel"] + sp["user"]) % COUNTER_MOD = sp["kernel"] + sp["user"]
    BY <1>2, <1>3, Remainder
<1> QED BY <1>1, <1>4 DEF Counters

\* Every step of the sampling keeps types and utilization.
LEMMA TelTypesStep ==
    ASSUME NEW inv, TelTypes, Utilization, Frequency(inv),
           TelNext(inv) \/ UNCHANGED telVars
    PROVE  TelTypes' /\ Utilization'
<1> USE TelemetryAssumption DEF TelTypes, CounterValue, TelGoto, timesVars, clockVars
<1>a. ASSUME UNCHANGED <<spent, tel>>,
             telPc' \in {"times0", "times1"} => telPc \in {"times0", "times1"}
      PROVE  Utilization'
    BY <1>a DEF Utilization, UtilizationIsTrue
<1>1. CASE FirstTimes
    BY <1>1, <1>a DEF FirstTimes
<1>2. CASE SecondTimes
    <2>1. CASE UNCHANGED <<spent, tel>>
        BY <1>2, <1>a, <2>1 DEF SecondTimes
    <2>2. CASE ~UNCHANGED <<spent, tel>>
        <3> DEFINE delta == [c \in Counters |->
                               Delta(times[c], (times[c] + spent'[c]) % COUNTER_MOD)]
                   total == (delta["kernel"] + delta["user"]) % COUNTER_MOD
                   busy  == IF total = 0 THEN 0 ELSE Busy(total, delta["idle"])
        <3>1. /\ spent' \in [Counters -> Elapsed]
              /\ tel' = [tel EXCEPT !.utilization_available = TRUE,
                                    !.total = total, !.busy = busy]
            BY <1>2, <2>2, Zenon DEF SecondTimes
        <3>2. total = spent'["kernel"] + spent'["user"] /\ delta["idle"] = spent'["idle"]
            BY <3>1, DeltasAreTrue, Zenon
        <3> HIDE DEF delta, total
        <3>3. busy = IF total = 0 THEN 0 ELSE Busy(total, spent'["idle"])
            BY <3>2
        <3> HIDE DEF busy
        <3>4. tel' \in TelType /\ spent' \in [Counters -> Nat] /\ UtilizationIsTrue'
            BY <1>2, <3>1, <3>2, <3>3, SecondTimesRight
        <3>5. telPc' = "calibrate" /\ UNCHANGED <<times, now, clocks, ticks>>
            BY <1>2, Zenon DEF SecondTimes, TelGoto, clockVars
        <3> QED BY <3>4, <3>5 DEF Utilization
    <2> QED BY <2>1, <2>2
<1>3. CASE StartCalibration(inv)
    BY <1>3, <1>a DEF StartCalibration
<1>4. CASE FirstReadings
    <2>1. CASE UNCHANGED clockVars
        BY <1>4, <1>a, <2>1 DEF FirstReadings
    <2>2. ASSUME NEW d0 \in Delays, NEW d1 \in Delays, NEW tsc0 \in Starts,
                 now' = now + d0 + d1, ticks' = 0, telPc' = "second",
                 clocks' = [clocks EXCEPT !.qpc0 = now + d0, !.tsc0 = tsc0]
          PROVE  TelTypes' /\ Utilization'
        <3>1. now' \in Nat /\ now + d0 \in Nat /\ tsc0 \in CounterValue
            BY <2>2
        <3>2. clocks' \in [qpc0 : Nat, tsc0 : CounterValue, tsc1 : CounterValue]
            BY <2>2, <3>1
        <3>3. UNCHANGED <<times, spent, tel>>
            BY <1>4, Zenon DEF FirstReadings, timesVars
        <3> QED BY <1>a, <2>2, <3>1, <3>2, <3>3
    <2> QED BY <1>4, <2>1, <2>2 DEF FirstReadings
<1>5. CASE SecondTsc
    <2>1. PICK d \in Delays : /\ now' = now + d /\ ticks' = ticks + TscRate * d
                              /\ clocks' = [clocks EXCEPT
                                   !.tsc1 = (clocks.tsc0 + ticks') % COUNTER_MOD]
        BY <1>5 DEF SecondTsc
    <2>2. now' \in Nat /\ ticks' \in Nat
        BY <2>1, TicksMonotone
    <2>3. (clocks.tsc0 + ticks') % COUNTER_MOD \in CounterValue
        BY <2>2
    <2>4. clocks' \in [qpc0 : Nat, tsc0 : CounterValue, tsc1 : CounterValue]
        BY <2>1, <2>3
    <2>5. telPc = "second" /\ telPc' = "third" /\ UNCHANGED <<times, spent, tel>>
        BY <1>5, Zenon DEF SecondTsc, TelGoto, timesVars
    <2> QED BY <1>a, <2>2, <2>4, <2>5
<1>6. CASE SecondQpc
    <2>1. telPc = "third" /\ telPc' = "done" /\ UNCHANGED <<times, spent, clocks, ticks>>
        BY <1>6, Zenon DEF SecondQpc, TelGoto, timesVars
    <2>2. CASE UNCHANGED tel
        <3>1. now' = now \/ \E d \in Delays : now' = now + d
            BY <1>6, Zenon DEF SecondQpc
        <3>2. now' \in Nat
            BY <3>1
        <3> QED BY <1>a, <2>1, <2>2, <3>2
    <2>3. ASSUME NEW d \in Delays, now' = now + d, now + d - clocks.qpc0 > 0,
                 tel' = [tel EXCEPT !.frequency_available = TRUE,
                           !.qpcDelta = now + d - clocks.qpc0,
                           !.tscDelta = Delta(clocks.tsc0, clocks.tsc1)]
          PROVE  TelTypes' /\ Utilization'
        <3>1. Delta(clocks.tsc0, clocks.tsc1) \in Nat
            BY DEF Delta
        <3>2. now + d - clocks.qpc0 \in Nat
            BY <2>3
        <3>3. tel' \in TelType /\ tel'.utilization_available = tel.utilization_available
              /\ tel'.total = tel.total /\ tel'.busy = tel.busy
            BY <2>3, <3>1, <3>2 DEF TelType
        <3>4. UtilizationIsTrue'
            BY <2>1, <3>3 DEF Utilization, UtilizationIsTrue
        <3> QED BY <2>1, <2>3, <3>2, <3>3, <3>4 DEF Utilization
    <2>4. CASE ~UNCHANGED tel
        <3>1. PICK d \in Delays :
                 /\ now' = now + d
                 /\ tel' = IF now + d - clocks.qpc0 <= 0 THEN tel
                           ELSE [tel EXCEPT !.frequency_available = TRUE,
                                   !.qpcDelta = now + d - clocks.qpc0,
                                   !.tscDelta = Delta(clocks.tsc0, clocks.tsc1)]
            BY <1>6, <2>4, Zenon DEF SecondQpc
        <3>2. ~(now + d - clocks.qpc0 <= 0)
            BY <2>4, <3>1, Zenon
        <3>3. now + d - clocks.qpc0 > 0
            BY <3>2
        <3> QED BY <2>3, <3>1, <3>2, <3>3, Zenon
    <2> QED BY <2>2, <2>4, Zenon
<1>7. CASE UNCHANGED telVars
    BY <1>7, <1>a DEF telVars
<1> QED BY <1>1, <1>2, <1>3, <1>4, <1>5, <1>6, <1>7 DEF TelNext
\* Every step keeps the TSC window inside the performance counter's.
LEMMA FrequencyStep ==
    ASSUME NEW inv, TelTypes, Frequency(inv), TelNext(inv) \/ UNCHANGED telVars
    PROVE  Frequency(inv)'
<1> USE DEF TelGoto, timesVars, clockVars
<1>a. ASSUME UNCHANGED <<tel, ticks>>,
             telPc' \in {"first", "second", "third"} => inv,
             telPc' # "done" => telPc # "done",
             telPc' \notin {"second", "third"}
      PROVE  Frequency(inv)'
    BY <1>a DEF Frequency, FrequencyNeverTooHigh
<1>b. ASSUME UNCHANGED tel, telPc # "done"
      PROVE  FrequencyNeverTooHigh(inv)' /\ ~tel'.frequency_available
    BY <1>b DEF Frequency, FrequencyNeverTooHigh
<1>1. CASE FirstTimes
    BY <1>1, <1>a DEF FirstTimes
<1>2. CASE SecondTimes
    <2>1. /\ telPc = "times1" /\ telPc' = "calibrate" /\ UNCHANGED <<now, clocks, ticks>>
          /\ \/ UNCHANGED tel
             \/ \E total, busy : tel' = [tel EXCEPT !.utilization_available = TRUE,
                                           !.total = total, !.busy = busy]
        BY <1>2, Zenon DEF SecondTimes
    <2>2. tel'.frequency_available = tel.frequency_available
        BY <2>1 DEF TelTypes, TelType
    <2>3. ~tel'.frequency_available
        BY <2>1, <2>2 DEF Frequency
    <2> QED BY <2>1, <2>3 DEF Frequency, FrequencyNeverTooHigh
<1>3. CASE StartCalibration(inv)
    BY <1>3, <1>a DEF StartCalibration
<1>4. CASE FirstReadings
    <2>1. telPc = "first" /\ UNCHANGED tel
        BY <1>4, Zenon DEF FirstReadings
    <2>2. inv /\ FrequencyNeverTooHigh(inv)' /\ ~tel'.frequency_available
        BY <1>b, <2>1 DEF Frequency
    <2>3. CASE telPc' = "done"
        BY <2>2, <2>3 DEF Frequency
    <2>4. ASSUME NEW d0 \in Delays, NEW d1 \in Delays, NEW tsc0 \in Starts,
                 now' = now + d0 + d1, ticks' = 0, telPc' = "second",
                 clocks' = [clocks EXCEPT !.qpc0 = now + d0, !.tsc0 = tsc0]
          PROVE  Frequency(inv)'
        <3>1. clocks'.qpc0 = now + d0
            BY <2>4 DEF TelTypes
        <3>2. clocks'.qpc0 <= now'
            BY <2>4, <3>1, TelemetryAssumption DEF TelTypes
        <3> QED BY <2>2, <2>4, <3>2 DEF Frequency
    <2> QED BY <1>4, <2>3, <2>4, Zenon DEF FirstReadings
<1>5. CASE SecondTsc
    <2>1. telPc = "second" /\ telPc' = "third" /\ UNCHANGED tel
        BY <1>5, Zenon DEF SecondTsc
    <2>2. PICK d \in Delays :
             /\ now' = now + d
             /\ ticks' = ticks + TscRate * d
             /\ clocks' = [clocks EXCEPT
                             !.tsc1 = (clocks.tsc0 + ticks') % COUNTER_MOD]
        BY <1>5, Zenon DEF SecondTsc
    <2>3. ticks = 0 /\ clocks.qpc0 <= now /\ inv
        BY <2>1 DEF Frequency
    <2>4. /\ d \in Nat /\ TscRate \in Nat /\ TscRate * d < COUNTER_MOD
          /\ now \in Nat /\ clocks.qpc0 \in Nat
        BY TelemetryAssumption DEF TelTypes
    <2>5. /\ clocks'.qpc0 = clocks.qpc0 /\ clocks'.tsc0 = clocks.tsc0
          /\ clocks'.tsc1 = (clocks.tsc0 + ticks') % COUNTER_MOD
        BY <2>2 DEF TelTypes
    <2>6. now' - clocks'.qpc0 \in Nat /\ d <= now' - clocks'.qpc0
          /\ clocks'.qpc0 <= now'
        BY <2>2, <2>3, <2>4, <2>5
    <2>7. TscRate * d \in Nat /\ TscRate * d <= TscRate * (now' - clocks'.qpc0)
        BY <2>4, <2>6, TicksMonotone
    <2>8. ticks' = TscRate * d
        BY <2>2, <2>3, <2>7
    <2>9. ticks' < COUNTER_MOD /\ ticks' <= TscRate * (now' - clocks'.qpc0)
        BY <2>4, <2>7, <2>8, Zenon
    <2>10. FrequencyNeverTooHigh(inv)' /\ ~tel'.frequency_available
        BY <1>b, <2>1
    <2>11. clocks'.tsc1 = (clocks'.tsc0 + ticks') % COUNTER_MOD
        BY <2>5, Zenon
    <2> QED BY <2>1, <2>3, <2>6, <2>9, <2>10, <2>11 DEF Frequency
<1>6. CASE SecondQpc
    <2>1. telPc = "third" /\ telPc' = "done" /\ UNCHANGED <<clocks, ticks>>
        BY <1>6, Zenon DEF SecondQpc
    <2>2. CASE UNCHANGED tel
        BY <2>1, <2>2, <1>b DEF Frequency
    <2>3. CASE ~UNCHANGED tel
        <3>1. PICK d \in Delays :
                 tel' = IF now + d - clocks.qpc0 <= 0 THEN tel
                        ELSE [tel EXCEPT !.frequency_available = TRUE,
                                !.qpcDelta = now + d - clocks.qpc0,
                                !.tscDelta = Delta(clocks.tsc0, clocks.tsc1)]
            BY <1>6, <2>3, Zenon DEF SecondQpc
        <3>2. /\ ~(now + d - clocks.qpc0 <= 0)
              /\ tel' = [tel EXCEPT !.frequency_available = TRUE,
                           !.qpcDelta = now + d - clocks.qpc0,
                           !.tscDelta = Delta(clocks.tsc0, clocks.tsc1)]
            BY <2>3, <3>1, Zenon
        <3>3. /\ inv /\ clocks.qpc0 <= now /\ ticks < COUNTER_MOD
              /\ ticks <= TscRate * (now - clocks.qpc0)
              /\ clocks.tsc1 = (clocks.tsc0 + ticks) % COUNTER_MOD
            BY <2>1 DEF Frequency
        <3>4. /\ d \in Nat /\ TscRate \in Nat /\ COUNTER_MOD \in Nat \ {0}
              /\ now \in Nat /\ ticks \in Nat /\ clocks.qpc0 \in Nat
              /\ clocks.tsc0 \in 0..(COUNTER_MOD - 1)
            BY TelemetryAssumption DEF TelTypes, CounterValue
        <3>5. ticks \in 0..(COUNTER_MOD - 1)
            BY <3>3, <3>4
        <3>6. Delta(clocks.tsc0, clocks.tsc1) = ticks
            BY <3>3, <3>4, <3>5, DifferenceAcrossWrap DEF Delta
        <3>7. /\ now - clocks.qpc0 \in Nat /\ now + d - clocks.qpc0 \in Nat
              /\ now - clocks.qpc0 <= now + d - clocks.qpc0
              /\ now + d - clocks.qpc0 > 0
            BY <3>2, <3>3, <3>4
        <3>8. /\ TscRate * (now - clocks.qpc0) \in Nat
              /\ TscRate * (now + d - clocks.qpc0) \in Nat
              /\ TscRate * (now - clocks.qpc0) <= TscRate * (now + d - clocks.qpc0)
            BY <3>4, <3>7, TicksMonotone
        <3>9. ticks <= TscRate * (now + d - clocks.qpc0)
            <4> DEFINE a == TscRate * (now - clocks.qpc0)
                       b == TscRate * (now + d - clocks.qpc0)
            <4>1. a \in Nat /\ b \in Nat /\ a <= b /\ ticks <= a /\ ticks \in Nat
                BY <3>3, <3>4, <3>8
            <4> HIDE DEF a, b
            <4>2. ticks <= b
                BY <4>1
            <4> QED BY <4>2 DEF b
        <3>10. /\ tel'.qpcDelta = now + d - clocks.qpc0
               /\ tel'.tscDelta = ticks
            BY <3>2, <3>6 DEF TelTypes, TelType
        <3>11. /\ tel'.qpcDelta > 0 /\ tel'.tscDelta = ticks'
               /\ tel'.tscDelta <= TscRate * tel'.qpcDelta
            BY <2>1, <3>7, <3>9, <3>10, Zenon
        <3> QED BY <2>1, <3>3, <3>11 DEF Frequency, FrequencyNeverTooHigh
    <2> QED BY <2>2, <2>3
<1>7. CASE UNCHANGED telVars
    BY <1>7 DEF telVars, Frequency, FrequencyNeverTooHigh
<1> QED BY <1>1, <1>2, <1>3, <1>4, <1>5, <1>6, <1>7 DEF TelNext

\* The invariant of the sampling: it holds at the call and at every step.
LEMMA TelStart ==
    ASSUME NEW inv, TelInit
    PROVE  TelInv(inv)
<1>1. TelTypes
    BY TelemetryAssumption
    DEF TelInit, TelTypes, TelType, CounterValue, NoTimes, NoClocks, EmptyTelemetry
<1>2. ~tel.utilization_available /\ ~tel.frequency_available /\ telPc = "times0"
    BY DEF TelInit, EmptyTelemetry
<1> QED BY <1>1, <1>2
        DEF TelInv, Utilization, Frequency, UtilizationIsTrue, FrequencyNeverTooHigh

\* Each step of cpu_telemetry_sample keeps the invariant.
LEMMA TelStep ==
    ASSUME NEW inv, TelInv(inv), TelNext(inv) \/ UNCHANGED telVars
    PROVE  TelInv(inv)'
<1>1. TelTypes' /\ Utilization'
    BY TelTypesStep DEF TelInv
<1>2. Frequency(inv)'
    BY FrequencyStep DEF TelInv
<1> QED BY <1>1, <1>2 DEF TelInv
-----------------------------------------------------------------------------
(***************************************************************************)
(* storage_enumerate.                                                      *)
(***************************************************************************)
InQuery == {"query", "length", "length2", "close"}

StTypes ==
    /\ stPc \in {"start", "open", "done"} \cup InQuery
    /\ drives \subseteq Nat /\ drive \in 0..STORAGE_MAX_DEVICES
    /\ returned \in Nat /\ readTo \in Nat
    /\ devices \in Seq([index : Nat, capacity : BOOLEAN]) /\ capacity \in BOOLEAN

\* The open handles, by the place.
Handles == HandlesClosed /\ (stPc = "length2" => handles = {"h", "h2"})

\* The drives below the one looked at have been opened and are reported.
Listed ==
    /\ stPc = "start" => drive = 0
    /\ Len(devices) = drive
    /\ \A k \in 1..drive : devices[k].index = k - 1 /\ (k - 1) \in drives
    /\ stPc \in InQuery => drive < STORAGE_MAX_DEVICES /\ drive \in drives
    /\ stPc # "done" => refused = {}
    /\ stPc = "done" => ~(MoreDrives /\ drive \in drives) \/ drive \in refused

StInv == StTypes /\ Handles /\ StringsFromThisQuery /\ Listed

\* The largest of at most three numbers is one of them.
LEMMA MaxOfThree ==
    ASSUME NEW a \in Nat, NEW b \in Nat, NEW S, 0 \in S, S \subseteq {0, a, b}
    PROVE  Max(S) \in S
<1>1. \E x \in S : \A y \in S : x >= y
    <2>1. CASE a \in S /\ b \in S
        BY <2>1
    <2>2. CASE a \in S /\ b \notin S
        BY <2>2
    <2>3. CASE a \notin S /\ b \in S
        BY <2>3
    <2>4. CASE a \notin S /\ b \notin S
        BY <2>4
    <2> QED BY <2>1, <2>2, <2>3, <2>4
<1> QED BY <1>1, Zenon DEF Max

\* A string that starts inside the data delivered is read inside it.
LEMMA StringInside ==
    ASSUME NEW offset \in Nat, NEW nul \in Nat, returned' \in Nat,
           OffsetUsable(offset)
    PROVE  StringEnd(offset, nul) \in 0..returned'
<1>1. offset < returned'
    BY DEF OffsetUsable
<1>2. StringEnd(offset, nul) = IF nul \in offset..(returned' - 1) THEN nul + 1 ELSE returned'
    BY <1>1, Zenon DEF StringEnd
<1>3. \A r \in Nat : nul \in offset..(r - 1) => nul + 1 \in 0..r
    OBVIOUS
<1>4. returned' \in 0..returned'
    OBVIOUS
<1> QED BY <1>2, <1>3, <1>4, Zenon

\* The drive number and the array stay within STORAGE_MAX_DEVICES.
LEMMA StTypesStep ==
    ASSUME StTypes, Listed, StNext \/ UNCHANGED stVars
    PROVE  /\ stPc' \in {"start", "open", "done"} \cup InQuery
           /\ drives' \subseteq Nat /\ drive' \in 0..STORAGE_MAX_DEVICES
           /\ devices' \in Seq([index : Nat, capacity : BOOLEAN])
           /\ capacity' \in BOOLEAN
<1> USE StorageAssumption DEF StTypes, InQuery, StGoto, outVars
<1>1. CASE StartEnumeration
    <2>1. drives' \subseteq Nat
        BY <1>1 DEF StartEnumeration
    <2>2. stPc' = "open" /\ UNCHANGED <<drive, devices, capacity>>
        BY <1>1, Zenon DEF StartEnumeration
    <2> QED BY <2>1, <2>2
<1>2. CASE OpenDrive
    <2>1. stPc' \in {"query", "done"} /\ UNCHANGED <<drives, drive, devices, capacity>>
        BY <1>2, Zenon DEF OpenDrive
    <2> QED BY <2>1
<1>3. CASE QueryProperty
    BY <1>3, Zenon DEF QueryProperty
<1>4. CASE QueryLength
    BY <1>4, Zenon DEF QueryLength
<1>5. CASE QueryLengthAgain
    BY <1>5, Zenon DEF QueryLengthAgain
<1>6. CASE StoreDrive
    <2>1. drive < STORAGE_MAX_DEVICES
        BY <1>6 DEF StoreDrive, Listed
    <2>2. [index |-> drive, capacity |-> capacity] \in [index : Nat, capacity : BOOLEAN]
        OBVIOUS
    <2>3. devices' \in Seq([index : Nat, capacity : BOOLEAN])
        BY <1>6, <2>2 DEF StoreDrive
    <2>4. drive' = drive + 1 /\ stPc' = "open" /\ capacity' = FALSE /\ UNCHANGED drives
        BY <1>6, Zenon DEF StoreDrive
    <2>5. drive' \in 0..STORAGE_MAX_DEVICES
        BY <2>1, <2>4
    <2> QED BY <2>3, <2>4, <2>5, Zenon
<1>7. CASE UNCHANGED stVars
    BY <1>7, Zenon DEF stVars
<1> QED BY <1>1, <1>2, <1>3, <1>4, <1>5, <1>6, <1>7 DEF StNext

\* A drive's handles are open only during its own query.
LEMMA HandlesStep ==
    ASSUME Handles, StNext \/ UNCHANGED stVars
    PROVE  Handles'
<1> USE DEF Handles, HandlesClosed, StGoto, outVars
<1>1. CASE StartEnumeration
    BY <1>1, Zenon DEF StartEnumeration
<1>2. CASE OpenDrive
    BY <1>2 DEF OpenDrive
<1>3. CASE QueryProperty
    BY <1>3, Zenon DEF QueryProperty
<1>4. CASE QueryLength
    BY <1>4 DEF QueryLength
<1>5. CASE QueryLengthAgain
    BY <1>5 DEF QueryLengthAgain, CloseSecond, Close
<1>6. CASE StoreDrive
    BY <1>6 DEF StoreDrive, Close
<1>7. CASE UNCHANGED stVars
    BY <1>7, Zenon DEF stVars
<1> QED BY <1>1, <1>2, <1>3, <1>4, <1>5, <1>6, <1>7 DEF StNext

\* Strings are read inside the bytes this query returned.
LEMMA StringsStep ==
    ASSUME StTypes, StringsFromThisQuery, StNext \/ UNCHANGED stVars
    PROVE  returned' \in Nat /\ readTo' \in Nat /\ StringsFromThisQuery'
<1> USE DEF bufferVars
<1>0. ASSUME UNCHANGED bufferVars
      PROVE  returned' \in Nat /\ readTo' \in Nat /\ StringsFromThisQuery'
    BY <1>0 DEF StTypes, StringsFromThisQuery
<1>1. CASE QueryProperty
    <2>1. CASE UNCHANGED bufferVars
        BY <1>0, <2>1
    <2>2. ASSUME NEW product \in Offsets, NEW vendor \in Offsets, NEW other \in Offsets,
                 NEW nul \in Offsets, returned' \in ReturnedSizes,
                 NEW model \in Offsets,
                 readTo' = Max({0} \cup {StringEnd(o, nul) :
                                  o \in {p \in {model, other} : OffsetUsable(p)}})
          PROVE  returned' \in Nat /\ readTo' \in Nat /\ StringsFromThisQuery'
        <3> DEFINE used == {p \in {model, other} : OffsetUsable(p)}
                   ends == {0} \cup {StringEnd(o, nul) : o \in used}
        <3>1. /\ returned' \in Nat /\ returned' <= BufferSize
              /\ model \in Nat /\ other \in Nat /\ nul \in Nat
            BY <2>2, StorageAssumption
        <3>2. \A o \in used : StringEnd(o, nul) \in 0..returned'
            BY <3>1, StringInside
        <3>3. \A e \in ends : e \in 0..returned'
            BY <3>1, <3>2
        <3> DEFINE End(o) == IF o \in used THEN StringEnd(o, nul) ELSE 0
        <3>4. ends \subseteq {0, End(model), End(other)} /\ 0 \in ends
            BY Zenon
        <3>5. End(model) \in Nat /\ End(other) \in Nat
            BY <3>2, <3>1
        <3>6. readTo' = Max(ends)
            BY <2>2
        <3> HIDE DEF ends, End, used
        <3>7. Max(ends) \in ends
            BY <3>4, <3>5, MaxOfThree
        <3> QED BY <3>1, <3>3, <3>6, <3>7 DEF StringsFromThisQuery
    <2> QED BY <1>1, <2>1, <2>2, Zenon DEF QueryProperty
<1>2. CASE QueryLength
    <2>1. returned' = 0 /\ readTo' = 0
        BY <1>2 DEF QueryLength
    <2> QED BY <2>1, StorageAssumption DEF StringsFromThisQuery
<1>3. CASE StartEnumeration \/ OpenDrive \/ QueryLengthAgain \/ StoreDrive
    <2>1. UNCHANGED bufferVars
        BY <1>3, Zenon DEF StartEnumeration, OpenDrive, QueryLengthAgain, StoreDrive
    <2> QED BY <1>0, <2>1
<1>4. CASE UNCHANGED stVars
    BY <1>0, <1>4 DEF stVars
<1> QED BY <1>1, <1>2, <1>3, <1>4 DEF StNext

\* The devices listed are the drives below the number that is tried next.
LEMMA ListedStep ==
    ASSUME StTypes, Listed, StNext \/ UNCHANGED stVars
    PROVE  Listed'
<1> USE DEF InQuery, StGoto, outVars
<1>1. CASE StartEnumeration
    <2>1. stPc = "start" /\ stPc' = "open" /\ UNCHANGED <<refused, drive, devices>>
        BY <1>1, Zenon DEF StartEnumeration
    <2>2. drive = 0
        BY <2>1 DEF Listed
    <2>3. 1..0 = {}
        OBVIOUS
    <2> QED BY <2>1, <2>2, <2>3 DEF Listed
<1>2. CASE OpenDrive
    BY <1>2 DEF OpenDrive, Listed, MoreDrives
<1>3. CASE QueryProperty \/ QueryLength \/ QueryLengthAgain
    <2>1. stPc \in InQuery /\ stPc' \in InQuery /\ UNCHANGED <<drives, refused, drive, devices>>
        BY <1>3, Zenon DEF QueryProperty, QueryLength, QueryLengthAgain
    <2> QED BY <2>1 DEF Listed, MoreDrives
<1>4. CASE StoreDrive
    <2>1. /\ stPc = "close" /\ stPc' = "open" /\ drive' = drive + 1
          /\ UNCHANGED <<drives, refused>>
          /\ devices' = Append(devices, [index |-> drive, capacity |-> capacity])
        BY <1>4, Zenon DEF StoreDrive
    <2>2. /\ Len(devices) = drive /\ drive \in Nat /\ drive \in drives /\ refused = {}
          /\ \A k \in 1..drive : devices[k].index = k - 1 /\ (k - 1) \in drives
          /\ devices \in Seq([index : Nat, capacity : BOOLEAN])
        BY <2>1 DEF Listed, StTypes
    <2>3. /\ Len(devices') = drive'
          /\ \A k \in 1..drive : devices'[k] = devices[k]
          /\ devices'[drive + 1] = [index |-> drive, capacity |-> capacity]
        BY <2>1, <2>2
    <2>4. \A k \in 1..drive' : devices'[k].index = k - 1 /\ (k - 1) \in drives'
        BY <2>1, <2>2, <2>3
    <2> QED BY <2>1, <2>2, <2>3, <2>4 DEF Listed
<1>5. CASE UNCHANGED stVars
    BY <1>5 DEF stVars, Listed, MoreDrives
<1> QED BY <1>1, <1>2, <1>3, <1>4, <1>5 DEF StNext

\* The invariant of the enumeration.
LEMMA StStart ==
    ASSUME StInit
    PROVE  StInv
<1>1. StTypes
    <2>1. 0 \in 0..STORAGE_MAX_DEVICES /\ 0 \in Nat
        BY StorageAssumption
    <2>2. <<>> \in Seq([index : Nat, capacity : BOOLEAN])
        OBVIOUS
    <2> QED BY <2>1, <2>2, Zenon DEF StInit, StTypes
<1>2. Handles
    BY DEF StInit, Handles, HandlesClosed
<1>3. StringsFromThisQuery
    BY StorageAssumption DEF StInit, StringsFromThisQuery
<1>4. Listed
    BY DEF StInit, Listed, InQuery
<1> QED BY <1>1, <1>2, <1>3, <1>4 DEF StInv

\* Each step of storage_enumerate keeps the invariant.
LEMMA StStep ==
    ASSUME StInv, StNext \/ UNCHANGED stVars
    PROVE  StInv'
<1>1. StTypes'
    <2>1. returned' \in Nat /\ readTo' \in Nat
        BY StringsStep DEF StInv
    <2> QED BY <2>1, StTypesStep DEF StInv, StTypes
<1>2. Handles'
    BY HandlesStep DEF StInv
<1>3. StringsFromThisQuery'
    BY StringsStep DEF StInv
<1>4. Listed'
    BY ListedStep DEF StInv
<1> QED BY <1>1, <1>2, <1>3, <1>4 DEF StInv

\* The drives listed end where a number is missing, refused or too large.
LEMMA StDrives ==
    ASSUME StInv
    PROVE  DrivesReported
<1> SUFFICES ASSUME stPc = "done" PROVE DrivesReported
    BY DEF DrivesReported
<1> DEFINE reported == {devices[k].index : k \in DOMAIN devices}
<1>1. /\ DOMAIN devices = 1..drive /\ drive \in Nat /\ drive <= STORAGE_MAX_DEVICES
      /\ \A k \in 1..drive : devices[k].index = k - 1 /\ (k - 1) \in drives
    BY StorageAssumption DEF StInv, StTypes, Listed
<1>2. reported = 0..(drive - 1)
    <2>1. ASSUME NEW i \in 0..(drive - 1) PROVE i \in reported
        <3>1. i + 1 \in 1..drive /\ devices[i + 1].index = i
            BY <1>1
        <3> QED BY <1>1, <3>1
    <2>2. ASSUME NEW k \in 1..drive PROVE devices[k].index \in 0..(drive - 1)
        BY <1>1
    <2> QED BY <1>1, <2>1, <2>2
<1>3. reported \subseteq drives
    BY <1>1
<1>4. ASSUME NEW d \in drives \ reported, d < STORAGE_MAX_DEVICES
      PROVE  \E j \in 0..d : j \notin drives \/ j \in refused
    <2>1. ~(drive < STORAGE_MAX_DEVICES /\ drive \in drives) \/ drive \in refused
        BY DEF StInv, Listed, MoreDrives
    <2>2. d \in Nat
        BY StorageAssumption DEF StInv, StTypes
    <2>3. drive \in 0..d /\ drive < STORAGE_MAX_DEVICES
        <3> HIDE DEF reported
        <3> QED BY <1>1, <1>2, <1>4, <2>2, StorageAssumption
    <2> QED BY <2>1, <2>3
<1>5. \A k \in DOMAIN devices : devices[k].index = k - 1
    BY <1>1
<1> QED BY <1>3, <1>4, <1>5 DEF DrivesReported
=============================================================================
