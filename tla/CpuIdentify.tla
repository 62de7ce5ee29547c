---------------------------- MODULE CpuIdentify ----------------------------
(***************************************************************************)
(* cpu_id_collect (src/cpu/cpu_id.c): which CPUID leaves and which XGETBV  *)
(* it executes, and what it concludes about the topology and about the OS  *)
(* support for AVX.  The processor is external: each register is chosen    *)
(* when it is first read.  Strings, family, model and the feature bits no  *)
(* later decision depends on are left out.                                 *)
(***************************************************************************)
EXTENDS Integers, Sequences

CONSTANTS
    BasicLeaves,     \* what CPUID.0:EAX may say
    ExtendedLeaves,  \* CPUID.80000000H:EAX - 80000000H; -1 if bit 31 is clear
    Topologies,      \* what leaf 0BH or 1FH may describe, see TopologyType
    MAX_SUBLEAF      \* the last subleaf the code asks for (16)

\* The levels subleaves 0, 1, ... describe, level type 0 after the last one.
\* Of a list that never ends, or of any that has more than MAX_SUBLEAF + 1
\* levels, the code can see the first MAX_SUBLEAF + 1 only: every list longer
\* than that, whatever its levels are, stands for such a processor.
TopologyType == Seq([type : Nat \ {0}, width : Nat])

ASSUME CpuAssumption ==
    /\ BasicLeaves \subseteq Nat /\ ExtendedLeaves \subseteq Nat \cup {-1}
    /\ MAX_SUBLEAF \in Nat
    /\ Topologies \subseteq TopologyType

VARIABLES
    cpuPc,
    cpu,        \* *out
    topo,       \* what the topology leaf in use describes
    leaf,       \* that leaf
    subleaf,
    widths,     \* smt_width and package_width
    executed    \* the instructions executed so far (history)

cpuVars == <<cpuPc, cpu, topo, leaf, subleaf, widths, executed>>

NoTopology == [available |-> FALSE, smt |-> 0, package |-> 0]
NoLevels   == <<>>
NoWidths   == [smt |-> 0, package |-> 0]

\* avx stands for AVX and AVX2, which the report treats alike.
EmptyIdentity ==
    [maxBasic |-> 0, maxExtended |-> -1, logical |-> FALSE, brand |-> FALSE,
     avx |-> FALSE, avx512f |-> FALSE, invariant_tsc |-> FALSE,
     osxsave |-> FALSE, avxOs |-> FALSE, avx512Os |-> FALSE,
     topology |-> NoTopology]

CpuInit ==
    /\ cpuPc = "leaf0" /\ cpu = EmptyIdentity
    /\ topo = NoLevels /\ leaf = 0 /\ subleaf = 0 /\ widths = NoWidths
    /\ executed = {}

Basic(n)      == <<"basic", n>>
Extended(n)   == <<"extended", n>>
XGETBV        == <<"xgetbv", 0>>
Execute(set)  == executed' = executed \cup set
CpuGoto(l)    == cpuPc' = l
topologyVars  == <<topo, leaf, subleaf, widths>>

-----------------------------------------------------------------------------
ReadLeaf0 ==
    /\ cpuPc = "leaf0"
    /\ \E n \in BasicLeaves : cpu' = [cpu EXCEPT !.maxBasic = n]
    /\ Execute({Basic(0)})
    /\ CpuGoto(IF cpu'.maxBasic < 1 THEN "done" ELSE "leaf1")
    /\ UNCHANGED topologyVars

\* The leaves the brand string is read from, if the processor has them.
collect_brand_string(max) == IF max >= 4 THEN {Extended(k) : k \in 2..4} ELSE {}

\* Leaf 1, the extended maximum and the brand string.
ReadLeaf1 ==
    /\ cpuPc = "leaf1"
    /\ \E n \in ExtendedLeaves, avx, osxsave \in BOOLEAN :
          /\ cpu' = [cpu EXCEPT !.maxExtended = n, !.avx = avx,
                                !.osxsave = osxsave,
                                !.brand = (collect_brand_string(n) # {})]
          /\ Execute({Basic(1), Extended(0)} \cup collect_brand_string(n))
    /\ CpuGoto("features")
    /\ UNCHANGED topologyVars

\* collect_features: leaf 7 and the two extended leaves, if there are any.
CollectFeatures ==
    /\ cpuPc = "features"
    /\ LET leaf7 == cpu.maxBasic >= 7
           ext1  == cpu.maxExtended >= 1
           ext7  == cpu.maxExtended >= 7
       IN /\ \E avx512f, invariant \in BOOLEAN :
                cpu' = [cpu EXCEPT !.avx512f = leaf7 /\ avx512f,
                                   !.invariant_tsc = ext7 /\ invariant]
          /\ Execute((IF leaf7 THEN {Basic(7)} ELSE {})
                        \cup (IF ext1 THEN {Extended(1)} ELSE {})
                        \cup (IF ext7 THEN {Extended(7)} ELSE {}))
    /\ CpuGoto("xgetbv")
    /\ UNCHANGED topologyVars

\* MUTANT: the guard asks for the AVX bit instead of OSXSAVE.
XcrReadableIfAvx == cpu.avx

XcrReadable == cpu.osxsave

\* XCR0 as two facts: x87, SSE and AVX state; opmask and both ZMM states.
CollectXcr0 ==
    /\ cpuPc = "xgetbv"
    /\ IF XcrReadable
       THEN /\ \E ymm, zmm \in BOOLEAN :
                  cpu' = [cpu EXCEPT !.avxOs = ymm, !.avx512Os = ymm /\ zmm]
            /\ Execute({XGETBV})
       ELSE UNCHANGED <<cpu, executed>>
    /\ CpuGoto(IF cpu.maxBasic < 11 THEN "os_count" ELSE "topology")
    /\ UNCHANGED topologyVars

-----------------------------------------------------------------------------
(***************************************************************************)
(* collect_topology.                                                       *)
(***************************************************************************)
HasLevel(n) == n < Len(topo)
LevelAt(n)  == topo[n + 1]

\* Leaf 1FH is preferred; if its subleaf 0 is empty, 0BH is tried once.
ConfirmLeaf ==
    /\ cpuPc = "topology"
    /\ leaf' = IF leaf = 0 /\ cpu.maxBasic >= 31 THEN 31 ELSE 11
    /\ topo' \in Topologies
    /\ Execute({Basic(leaf')})
    /\ CpuGoto(IF topo' # <<>> THEN "levels"
               ELSE IF leaf' = 31 THEN "topology" ELSE "os_count")
    /\ UNCHANGED <<cpu, subleaf, widths>>

\* MUTANT: every level counts as the SMT level.
SmtWidthOfAnyLevel(level) == level.width

SmtWidth(level) == IF level.type = 1 THEN level.width ELSE widths.smt

\* MUTANT: the subleaf is not advanced.
NextSubleafForgotten == subleaf

NextSubleaf == subleaf + 1

ReadLevel ==
    /\ cpuPc = "levels"
    /\ IF HasLevel(subleaf)
       THEN /\ widths' = [smt |-> SmtWidth(LevelAt(subleaf)),
                          package |-> LevelAt(subleaf).width]
            /\ subleaf' = NextSubleaf
            /\ CpuGoto(IF subleaf' > MAX_SUBLEAF THEN "widths" ELSE "levels")
       ELSE CpuGoto("widths") /\ UNCHANGED <<widths, subleaf>>
    /\ UNCHANGED <<cpu, topo, leaf, executed>>

StoreTopology ==
    /\ cpuPc = "widths"
    /\ cpu' = IF widths.package > 0
              THEN [cpu EXCEPT !.topology = [available |-> TRUE,
                        smt |-> widths.smt, package |-> widths.package]]
              ELSE cpu
    /\ CpuGoto("os_count")
    /\ UNCHANGED <<topologyVars, executed>>

\* GetActiveProcessorCount, or GetSystemInfo if that fails.
QueryOsCount ==
    /\ cpuPc = "os_count"
    /\ cpu' = [cpu EXCEPT !.logical = TRUE]
    /\ CpuGoto("done")
    /\ UNCHANGED <<topologyVars, executed>>

CpuNext ==
    \/ ReadLeaf0 \/ ReadLeaf1 \/ CollectFeatures \/ CollectXcr0
    \/ ConfirmLeaf \/ ReadLevel \/ StoreTopology \/ QueryOsCount

CpuSpec == CpuInit /\ [][CpuNext]_cpuVars

-----------------------------------------------------------------------------
(***************************************************************************)
(* Properties.                                                             *)
(***************************************************************************)
\* README.md: capability bits are checked before any instruction that
\* depends on them.  Every CPUID leaf executed so far exists on this
\* processor, XGETBV was executed only with OSXSAVE set, and AVX-512 is
\* never called enabled where AVX is not.
InstructionsGuarded ==
    /\ \A e \in executed \ {XGETBV} :
          e[2] = 0 \/ e[2] <= (IF e[1] = "basic" THEN cpu.maxBasic
                                                ELSE cpu.maxExtended)
    /\ XGETBV \in executed => cpu.osxsave
    /\ cpu.avx512Os => cpu.avxOs /\ XGETBV \in executed

\* For every list of levels that ends, the topology reported is the one its
\* last level and its last SMT level describe, whichever of the two leaves
\* that was, and it is reported whenever there is one.  A list is never
\* followed beyond MAX_SUBLEAF + 1 subleaves; if it goes on, what is reported
\* was at least read from it.
TopologyFromLastLevel ==
    /\ subleaf <= MAX_SUBLEAF + 1
    /\ cpuPc = "done" /\ leaf # 0 =>
          LET n    == Len(topo)
              smts == {k \in 1..n : topo[k].type = 1}
          IN /\ leaf = 31 => n > 0
             /\ leaf = 11 /\ cpu.maxBasic >= 31 => Basic(31) \in executed
             /\ n <= MAX_SUBLEAF + 1 =>
                   /\ cpu.topology.available <=> n > 0 /\ topo[n].width > 0
                   /\ cpu.topology.available =>
                         /\ cpu.topology.package = topo[n].width
                         /\ cpu.topology.smt =
                               IF smts = {} THEN 0
                               ELSE topo[CHOOSE k \in smts :
                                            \A j \in smts : j <= k].width
             /\ n > MAX_SUBLEAF + 1 /\ cpu.topology.available =>
                   /\ \E k \in 1..(MAX_SUBLEAF + 1) :
                         cpu.topology.package = topo[k].width
                   /\ \/ cpu.topology.smt = 0
                      \/ \E k \in smts : /\ k <= MAX_SUBLEAF + 1
                                          /\ cpu.topology.smt = topo[k].width
=============================================================================
