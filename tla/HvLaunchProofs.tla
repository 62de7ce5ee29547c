--------------------------- MODULE HvLaunchProofs ---------------------------
(***************************************************************************)
(* Proofs about the VT-x skeleton, for any set of logical processors, any  *)
(* capability report, any number of calls, and whether or not the caller   *)
(* stays on one processor.                                                 *)
(***************************************************************************)
EXTENDS HvLaunch, TLAPS

(***************************************************************************)
(* Types.                                                                  *)
(***************************************************************************)
Pcs == {"idle", "detect", "allocate", "align", "vmxe", "capture", "free",
        "returned", "bugcheck"} \cup VmxInstructions

VmcsStates == {"none", "zeroed", "revision", "clear", "current", "launched"}
Rips       == {"none", "vmwrite", "os"} \X Nat

Exits == [lp : LPs \cup {"none"},
          reason : {"none", "ENTRY_FAILURE", "VMX_INSTRUCTION", "CPUID", "OTHER"},
          at : {"none", "save", "handle", "restore", "vmresume", "trap"}]

Types ==
    /\ lp \in LPs /\ calls \in 0..MaxCalls /\ pc \in Pcs
    /\ hvState \in BOOLEAN /\ allocated \in BOOLEAN
    /\ cr4vmxe \in [LPs -> BOOLEAN]
    /\ vmx \in [LPs -> {"off", "root", "guest", "exit"}]
    /\ vmcs \in [state : VmcsStates, rip : Rips, controls : SUBSET (0..31)]
    /\ ctxRip \in Rips
    /\ exit \in Exits
    /\ stack = <<>> \/ DOMAIN stack = 1..15
    /\ exit.at = "handle" => DOMAIN stack = 1..15

(***************************************************************************)
(* The inductive invariant.  Where the thread is decides which processors  *)
(* may be in VMX operation.  Never are two of them, although the thread    *)
(* may be moved at any time: on another processor every instruction after  *)
(* VMXON raises #UD.                                                       *)
(***************************************************************************)
\* Before VMXON and after VMXOFF.
OutsideVmx == {"idle", "detect", "allocate", "align", "vmxe", "vmxon", "free",
               "returned"}

OnlyOneInVmx ==
    /\ pc \in OutsideVmx => \A l \in LPs : vmx[l] = "off"
    /\ \A k, l \in LPs : vmx[k] # "off" /\ vmx[l] # "off" => k = l

BlockAllocated ==
    /\ hvState <=> allocated
    /\ allocated <=> pc \notin {"idle", "detect", "allocate", "returned"}

\* GUEST_RIP is the instruction after RtlCaptureContext until VMLAUNCH.
RipCaptured ==
    /\ pc \in {"vmwrite", "vmlaunch"} => ctxRip = Rip("vmwrite", 0)
    /\ pc = "vmlaunch" => vmcs.rip = Rip("vmwrite", 0)

\* A guest runs, and an exit is handled, on the one processor in VMX operation.
ExitOnOneProcessor ==
    /\ exit.at # "none" => exit.lp \in LPs /\ vmx[exit.lp] = "exit"
    /\ exit.at = "none" => exit.reason = "none"
    /\ exit.at \in {"restore", "vmresume"} => exit.reason = "CPUID"
    /\ (\E l \in LPs : vmx[l] = "guest") \/ exit.reason \in {"CPUID", "OTHER"}
          => pc \in {"vmwrite", "bugcheck"}

LaunchInv ==
    /\ Types /\ OnlyOneInVmx /\ BlockAllocated /\ RipCaptured
    /\ ExitOnOneProcessor

\* The places GUEST_RIP may hold.
LEMMA RipTypes ==
    /\ Rip("none", 0) \in Rips /\ Rip("vmwrite", 0) \in Rips
    /\ Rip("os", 0) \in Rips
    /\ \A r \in Rips : Rip(r[1], r[2] + CpuidLength) \in Rips
BY DEF Rip, Rips, CpuidLength

\* The controls written are bits of a 32-bit field.
LEMMA ControlsType ==
    ASSUME NEW cap \in Capabilities
    PROVE  AdjustControlValue(cap, {AddressSpaceSize}) \in SUBSET (0..31)
BY HvAssumption DEF AdjustControlValue

\* HvExitHandler pushes the fifteen registers other than RSP.
LEMMA PushCount == Len(PushOrder) = 15
BY DEF PushOrder

\* What HvHandleVmExit writes into the registers on the stack.
LEMMA AnswerCpuid ==
    ASSUME HvHandleVmExit, exit.reason = "CPUID"
    PROVE  LET leaf == stack[Field("rax")]
               sub  == stack[Field("rcx")]
           IN  stack' = [stack EXCEPT ![Field("rax")] = Cpuid(0, leaf, sub),
                                      ![Field("rbx")] = Cpuid(1, leaf, sub),
                                      ![Field("rcx")] = Cpuid(2, leaf, sub),
                                      ![Field("rdx")] = Cpuid(3, leaf, sub)]
BY DEF HvHandleVmExit

\* Before the first call no processor is in VMX operation.
LEMMA LaunchInit == Init => LaunchInv
<1> SUFFICES ASSUME Init PROVE LaunchInv
    OBVIOUS
<1>1. Types
    <2>1. vmcs \in [state : VmcsStates, rip : Rips, controls : SUBSET (0..31)]
        BY RipTypes DEF Init, VmcsStates
    <2>2. exit \in Exits
        BY DEF Init, Exits, NoExit
    <2>3. stack = <<>> /\ exit.at # "handle"
        BY DEF Init, NoExit
    <2>4. pc \in Pcs /\ ctxRip \in Rips
        BY RipTypes DEF Init, Pcs
    <2>5. lp \in LPs /\ calls \in 0..MaxCalls
        BY HvAssumption DEF Init
    <2>6. hvState \in BOOLEAN /\ allocated \in BOOLEAN
        BY Zenon DEF Init
    <2>7. /\ cr4vmxe \in [LPs -> BOOLEAN]
          /\ vmx \in [LPs -> {"off", "root", "guest", "exit"}]
        BY DEF Init
    <2> QED BY <2>1, <2>2, <2>3, <2>4, <2>5, <2>6, <2>7 DEF Types
<1>2. OnlyOneInVmx /\ RipCaptured /\ ExitOnOneProcessor
    BY DEF Init, OnlyOneInVmx, RipCaptured, ExitOnOneProcessor, NoExit
<1>3. BlockAllocated
    BY DEF Init, BlockAllocated
<1> QED BY <1>1, <1>2, <1>3 DEF LaunchInv

\* Every step of the thread, of the scheduler and of the exit handler keeps
\* the invariant.
LEMMA LaunchStep == LaunchInv /\ [Next]_vars => LaunchInv'
<1> SUFFICES ASSUME LaunchInv, [Next]_vars PROVE LaunchInv'
    OBVIOUS
<1> USE HvAssumption
    DEF LaunchInv, Types, OnlyOneInVmx, BlockAllocated, RipCaptured,
        ExitOnOneProcessor, Pcs, VmxInstructions, OutsideVmx, VmcsStates,
        Exits, Goto, Alive, threadVars, handlerVars
<1>1. CASE Call
    BY <1>1 DEF Call
<1>2. CASE Migrate
    BY <1>2 DEF Migrate
<1>3. CASE OsExit
    <2> PICK l \in LPs, why \in OsExits :
              /\ vmx[l] = "guest"
              /\ vmx' = [vmx EXCEPT ![l] = "exit"]
              /\ exit' = [lp |-> l, reason |-> why, at |-> "save"]
        BY <1>3 DEF OsExit
    <2>1. exit' \in Exits
        BY DEF Exits
    <2>2. vmcs' = [vmcs EXCEPT !.rip = Rip("os", 0)]
        BY <1>3 DEF OsExit
    <2>3. Types'
        BY <1>3, <2>1, <2>2, RipTypes DEF OsExit
    <2>4. pc \in {"vmwrite", "bugcheck"} /\ UNCHANGED <<pc, ctxRip>>
        BY <1>3 DEF OsExit
    <2>5. OnlyOneInVmx' /\ RipCaptured' /\ ExitOnOneProcessor'
        BY <2>4
    <2>6. BlockAllocated'
        BY <1>3, <2>4 DEF OsExit
    <2> QED BY <2>3, <2>5, <2>6
<1>4. CASE DetectVmx
    BY <1>4 DEF DetectVmx
<1>5. CASE AllocateState
    <2>1. CASE /\ hvState' = TRUE /\ allocated' = TRUE
               /\ vmcs' = [vmcs EXCEPT !.state = "zeroed"] /\ pc' = "align"
        BY <1>5, <2>1 DEF AllocateState
    <2>2. CASE /\ hvState' = FALSE /\ pc' = "returned"
               /\ UNCHANGED <<allocated, vmcs>>
        BY <1>5, <2>2 DEF AllocateState
    <2> QED BY <1>5, <2>1, <2>2, Zenon DEF AllocateState
<1>6. CASE CheckAlignment
    BY <1>6 DEF CheckAlignment
<1>7. CASE SetVmxe
    BY <1>7 DEF SetVmxe
<1>8. CASE Vmxon
    <2>1. CASE vmx' = [vmx EXCEPT ![lp] = "root"] /\ pc' = "vmclear"
        BY <1>8, <2>1 DEF Vmxon
    <2>2. CASE UNCHANGED vmx /\ pc' = "free"
        BY <1>8, <2>2 DEF Vmxon
    <2> QED BY <1>8, <2>1, <2>2 DEF Vmxon
<1>9. CASE Vmclear
    BY <1>9 DEF Vmclear
<1>10. CASE Vmptrld
    BY <1>10 DEF Vmptrld
<1>11. CASE CaptureContext
    BY <1>11, RipTypes DEF CaptureContext
<1>12. CASE WriteVmcsFields
    <2> PICK cap \in Capabilities :
              vmcs' = [vmcs EXCEPT !.rip = ctxRip,
                                   !.controls = AdjustControlValue(
                                                   cap, {AddressSpaceSize})]
        BY <1>12 DEF WriteVmcsFields
    <2> QED BY <1>12, RipTypes, ControlsType DEF WriteVmcsFields
<1>13. CASE VmlaunchEnters
    <2>1. pc' = "vmwrite"
        BY <1>13 DEF VmlaunchEnters, Rip
    <2>2. ctxRip = Rip("vmwrite", 0)
        BY <1>13 DEF VmlaunchEnters
    <2>3. Types'
        BY <1>13, <2>1 DEF VmlaunchEnters
    <2>4. OnlyOneInVmx' /\ RipCaptured' /\ ExitOnOneProcessor'
        BY <1>13, <2>1, <2>2 DEF VmlaunchEnters
    <2>5. BlockAllocated'
        BY <1>13, <2>1 DEF VmlaunchEnters
    <2> QED BY <2>3, <2>4, <2>5
<1>14. CASE VmlaunchFails
    BY <1>14 DEF VmlaunchFails
<1>15. CASE VmlaunchRejected
    BY <1>15 DEF VmlaunchRejected
<1>16. CASE ReadInstructionError
    BY <1>16 DEF ReadInstructionError
<1>17. CASE Vmxoff
    BY <1>17 DEF Vmxoff
<1>18. CASE FreeState
    BY <1>18 DEF FreeState
<1>19. CASE UndefinedOpcode
    BY <1>19 DEF UndefinedOpcode
<1>20. CASE CloneExits
    BY <1>20 DEF CloneExits
<1>21. CASE SaveRegisters
    <2>1. DOMAIN stack' = 1..15
        BY <1>21, PushCount DEF SaveRegisters
    <2>2. exit' = [exit EXCEPT !.at = "handle"]
        BY <1>21 DEF SaveRegisters
    <2>3. Types'
        BY <1>21, <2>1, <2>2 DEF SaveRegisters
    <2>4. OnlyOneInVmx' /\ RipCaptured' /\ ExitOnOneProcessor'
        BY <1>21, <2>2 DEF SaveRegisters
    <2>5. BlockAllocated'
        BY <1>21 DEF SaveRegisters
    <2> QED BY <2>3, <2>4, <2>5
<1>22. CASE HvHandleVmExit
    <2>1. CASE exit.reason # "CPUID"
        <3>1. exit' = [exit EXCEPT !.at = "trap"] /\ UNCHANGED <<stack, vmcs>>
            BY <1>22, <2>1 DEF HvHandleVmExit
        <3> QED BY <1>22, <3>1 DEF HvHandleVmExit
    <2>2. CASE exit.reason = "CPUID"
        <3>1. /\ exit' = [exit EXCEPT !.at = "restore"]
              /\ vmcs' = [vmcs EXCEPT !.rip = Rip(vmcs.rip[1],
                                                  vmcs.rip[2] + CpuidLength)]
            BY <1>22, <2>2 DEF HvHandleVmExit
        <3>2. DOMAIN stack' = DOMAIN stack
            BY <1>22, <2>2, AnswerCpuid
        <3>3. UNCHANGED <<threadVars, vmx>>
            BY <1>22 DEF HvHandleVmExit
        <3>4. Types'
            <4>1. stack' = <<>> \/ DOMAIN stack' = 1..15
                BY <1>22, <3>2 DEF HvHandleVmExit
            <4> QED BY <3>1, <3>3, <4>1, RipTypes
        <3>5. OnlyOneInVmx' /\ RipCaptured' /\ ExitOnOneProcessor'
            BY <2>2, <3>1, <3>3
        <3>6. BlockAllocated'
            BY <3>3
        <3> QED BY <3>4, <3>5, <3>6
    <2> QED BY <2>1, <2>2
<1>23. CASE RestoreRegisters
    BY <1>23 DEF RestoreRegisters
<1>24. CASE Vmresume
    <2>1. CASE vmcs.state = "launched"
        BY <1>24, <2>1 DEF Vmresume, NoExit
    <2>2. CASE vmcs.state # "launched"
        BY <1>24, <2>2 DEF Vmresume
    <2> QED BY <2>1, <2>2
<1>25. CASE UNCHANGED vars
    BY <1>25 DEF vars
<1> QED BY <1>1, <1>2, <1>3, <1>4, <1>5, <1>6, <1>7, <1>8, <1>9, <1>10, <1>11, <1>12, <1>13, <1>14, <1>15, <1>16, <1>17, <1>18, <1>19, <1>20, <1>21, <1>22, <1>23, <1>24, <1>25
    DEF Next, ThreadStep, HandlerStep

\* On every machine and for every capability report the state of the launch
\* and of the exit being handled keeps its type.
THEOREM LaunchTypeCorrect == Spec => []TypeOK
<1>1. LaunchInv => TypeOK
    <2> SUFFICES ASSUME LaunchInv PROVE TypeOK
        OBVIOUS
    <2>1. Len(stack) \in {0, Len(PushOrder)}
        <3>1. CASE stack = <<>>
            BY <3>1
        <3>2. CASE DOMAIN stack = 1..15
            BY <3>2, PushCount
        <3> QED BY <3>1, <3>2 DEF LaunchInv, Types
    <2>2. /\ vmcs.state \in VmcsStates
          /\ exit.at \in {"none", "save", "handle", "restore", "vmresume", "trap"}
        BY DEF LaunchInv, Types, Exits
    <2> QED BY <2>1, <2>2 DEF LaunchInv, Types, TypeOK, Pcs, VmcsStates
<1> QED BY <1>1, LaunchInit, LaunchStep, PTL DEF Spec

\* A HvTryLaunch that returned FALSE has left no processor in VMX operation
\* and no block allocated, on any number of processors, wherever a step failed
\* and wherever the scheduler moved the thread.
THEOREM FailureIsClean == Spec => []CleanOnFalse
<1>1. LaunchInv => CleanOnFalse
    BY DEF LaunchInv, OnlyOneInVmx, BlockAllocated, CleanOnFalse, OutsideVmx
<1> QED BY <1>1, LaunchInit, LaunchStep, PTL DEF Spec

\* The block with the VMXON region, the VMCS and the host stack is never freed
\* under a processor that is in VMX operation or handles an exit.
THEOREM BlockOutlivesVmx == Spec => []RegionsOutliveVmx
<1>1. LaunchInv => RegionsOutliveVmx
    BY DEF LaunchInv, OnlyOneInVmx, BlockAllocated, RegionsOutliveVmx, OutsideVmx
<1> QED BY <1>1, LaunchInit, LaunchStep, PTL DEF Spec

(***************************************************************************)
(* A pinned caller.  What the header says of the skeleton holds for a      *)
(* caller that stays on its processor: there every VMX instruction finds   *)
(* the processor in VMX operation.                                         *)
(***************************************************************************)
OnItsProcessor ==
    /\ pc \in {"vmclear", "vmptrld", "capture", "vmwrite", "vmlaunch", "vmread",
              "vmxoff"} => vmx[lp] # "off"
    /\ pc = "vmxon" => cr4vmxe[lp]
    /\ pc # "bugcheck"

\* A thread that is not moved stays on the processor it put into VMX operation.
LEMMA PinnedStep ==
    ASSUME CallerPinned
    PROVE  LaunchInv /\ OnItsProcessor /\ [Next]_vars => OnItsProcessor'
<1> SUFFICES ASSUME LaunchInv, OnItsProcessor, [Next]_vars PROVE OnItsProcessor'
    OBVIOUS
<1> USE DEF LaunchInv, Types, Pcs, VmxInstructions, RipCaptured,
        ExitOnOneProcessor, OnItsProcessor, Goto, Alive, threadVars, handlerVars
<1>1. CASE Call \/ DetectVmx \/ AllocateState \/ CheckAlignment
    BY <1>1 DEF Call, DetectVmx, AllocateState, CheckAlignment
<1>2. CASE SetVmxe \/ Vmxon \/ Vmxoff \/ FreeState
    BY <1>2 DEF SetVmxe, Vmxon, Vmxoff, FreeState
<1>3. CASE Vmclear \/ Vmptrld \/ CaptureContext \/ WriteVmcsFields
    BY <1>3 DEF Vmclear, Vmptrld, CaptureContext, WriteVmcsFields
<1>4. CASE VmlaunchEnters
    BY <1>4 DEF VmlaunchEnters, Rip
<1>5. CASE VmlaunchFails \/ VmlaunchRejected \/ ReadInstructionError
    BY <1>5 DEF VmlaunchFails, VmlaunchRejected, ReadInstructionError
<1>6. CASE UndefinedOpcode \/ Migrate
    BY <1>6 DEF UndefinedOpcode, Migrate
<1>7. CASE OsExit \/ CloneExits
    BY <1>7 DEF OsExit, CloneExits
<1>8. CASE HandlerStep
    BY <1>8 DEF HandlerStep, SaveRegisters, HvHandleVmExit, RestoreRegisters, Vmresume
<1>9. CASE UNCHANGED vars
    BY <1>9 DEF vars
<1> QED BY <1>1, <1>2, <1>3, <1>4, <1>5, <1>6, <1>7, <1>8, <1>9
    DEF Next, ThreadStep

\* hwmon_hv.h's claim, with what it takes: if the caller keeps HvTryLaunch on
\* one processor, no VMX instruction is ever executed on a processor outside
\* VMX operation.
THEOREM PinnedNeverFaults ==
    ASSUME CallerPinned
    PROVE  Spec => []NoUndefinedOpcode
<1>1. Init => OnItsProcessor
    BY DEF Init, OnItsProcessor
<1>2. OnItsProcessor => NoUndefinedOpcode
    BY DEF OnItsProcessor, NoUndefinedOpcode, Alive
<1> QED BY <1>1, <1>2, LaunchInit, LaunchStep, PinnedStep, PTL DEF Spec

(***************************************************************************)
(* The registers of a guest that executed CPUID, from its exit to the      *)
(* VMRESUME: in the processor, on the stack, with the four results in      *)
(* place of what RAX..RDX held.                                            *)
(***************************************************************************)
Leaf    == before.regs["rax"]
Subleaf == before.regs["rcx"]

\* What register r has to hold when the guest goes on.
Expected(r) ==
    IF r \in {"rax", "rbx", "rcx", "rdx"}
    THEN Cpuid(CASE r = "rax" -> 0 [] r = "rbx" -> 1 [] r = "rcx" -> 2
                 [] r = "rdx" -> 3, Leaf, Subleaf)
    ELSE before.regs[r]

RegistersKept ==
    /\ exit.at \in {"save", "handle"} /\ exit.reason = "CPUID" =>
          /\ \A r \in GPRs : regs[r] = before.regs[r]
          /\ vmcs.rip = before.rip
    /\ exit.at = "handle" /\ exit.reason = "CPUID" =>
          \A r \in GPRs : stack[Field(r)] = before.regs[r]
    /\ exit.at \in {"restore", "vmresume"} =>
          vmcs.rip = Rip(before.rip[1], before.rip[2] + CpuidLength)
    /\ exit.at = "restore" => \A r \in GPRs : stack[Field(r)] = Expected(r)
    /\ exit.at = "vmresume" => \A r \in GPRs : regs[r] = Expected(r)

\* The pushes of HvExitHandler, HV_GUEST_REGISTERS and its pops are one order:
\* the last register pushed is the structure's first field and the first pop.
LEMMA OneOrder ==
    /\ HV_GUEST_REGISTERS = PopOrder
    /\ DOMAIN PopOrder = 1..15
    /\ \A i \in 1..15 : PushOrder[16 - i] = PopOrder[i]
    /\ \A i, j \in 1..15 : PopOrder[i] = PopOrder[j] => i = j
BY DEF HV_GUEST_REGISTERS, PopOrder, PushOrder

\* Each register has a field of its own.
LEMMA FieldOfRegister ==
    /\ \A r \in GPRs : Field(r) \in 1..15 /\ PopOrder[Field(r)] = r
    /\ \A r \in GPRs : IndexOf(PopOrder, r) = Field(r)
<1>1. ASSUME NEW r \in GPRs
      PROVE  \E i \in DOMAIN HV_GUEST_REGISTERS : HV_GUEST_REGISTERS[i] = r
    <2>1. PICK k \in DOMAIN PushOrder : PushOrder[k] = r
        BY DEF GPRs
    <2>2. k \in 1..15
        BY <2>1, PushCount DEF PushOrder
    <2>3. 16 - k \in 1..15 /\ PopOrder[16 - k] = PushOrder[16 - (16 - k)]
        BY <2>2, OneOrder
    <2> QED BY <2>1, <2>2, <2>3, OneOrder
<1>2. ASSUME NEW r \in GPRs
      PROVE  Field(r) \in DOMAIN HV_GUEST_REGISTERS
             /\ HV_GUEST_REGISTERS[Field(r)] = r
    BY <1>1, Zenon DEF Field, IndexOf
<1> QED BY <1>2, OneOrder DEF Field

\* The names HvHandleVmExit uses are registers.
LEMMA OutputsAreRegisters == {"rax", "rbx", "rcx", "rdx"} \subseteq GPRs
BY DEF GPRs, PushOrder

\* No exit is being handled at first.
LEMMA RegistersInit == Init => RegistersKept
BY DEF Init, RegistersKept, NoExit

\* Each step of the handler keeps the guest's registers where the next one
\* looks for them, and while it runs nobody else touches them.
LEMMA RegistersStep ==
    LaunchInv /\ RegistersKept /\ [Next]_vars => RegistersKept'
<1> SUFFICES ASSUME LaunchInv, RegistersKept, [Next]_vars PROVE RegistersKept'
    OBVIOUS
<1> USE DEF LaunchInv, Types, Exits, ExitOnOneProcessor, OnlyOneInVmx
<1>1. CASE OsExit
    <2>1. exit'.at = "save" /\ before'.regs = regs' /\ before'.rip = vmcs'.rip
        BY <1>1 DEF OsExit
    <2> QED BY <2>1 DEF RegistersKept
<1>2. CASE CloneExits \/ VmlaunchRejected
    <2>1. exit'.at = "save" /\ exit'.reason # "CPUID"
        BY <1>2 DEF CloneExits, VmlaunchRejected
    <2> QED BY <2>1 DEF RegistersKept
<1>3. CASE SaveRegisters
    <2>1. /\ exit'.at = "handle" /\ exit'.reason = exit.reason /\ exit.at = "save"
          /\ UNCHANGED <<vmcs, regs, before>>
        BY <1>3 DEF SaveRegisters
    <2>2. \A i \in 1..15 : stack'[i] = regs[PopOrder[i]]
        BY <1>3, PushCount, OneOrder DEF SaveRegisters
    <2>3. \A r \in GPRs : stack'[Field(r)] = regs[r]
        BY <2>2, FieldOfRegister
    <2> QED BY <2>1, <2>3 DEF RegistersKept
<1>4. CASE HvHandleVmExit
    <2>1. CASE exit.reason # "CPUID"
        <3>1. exit'.at = "trap"
            BY <1>4, <2>1 DEF HvHandleVmExit
        <3> QED BY <3>1 DEF RegistersKept
    <2>2. CASE exit.reason = "CPUID"
        <3>1. /\ exit.at = "handle" /\ exit'.at = "restore" /\ UNCHANGED before
              /\ vmcs'.rip = Rip(vmcs.rip[1], vmcs.rip[2] + CpuidLength)
            BY <1>4, <2>2 DEF HvHandleVmExit
        <3>2. /\ stack[Field("rax")] = Leaf /\ stack[Field("rcx")] = Subleaf
              /\ vmcs.rip = before.rip
            BY <2>2, <3>1, OutputsAreRegisters DEF RegistersKept, Leaf, Subleaf
        <3>3. DOMAIN stack = 1..15
            BY <3>1
        <3>4. ASSUME NEW r \in GPRs PROVE stack'[Field(r)] = Expected(r)
            <4>1. stack' = [stack EXCEPT ![Field("rax")] = Cpuid(0, Leaf, Subleaf),
                                         ![Field("rbx")] = Cpuid(1, Leaf, Subleaf),
                                         ![Field("rcx")] = Cpuid(2, Leaf, Subleaf),
                                         ![Field("rdx")] = Cpuid(3, Leaf, Subleaf)]
                BY <1>4, <2>2, <3>2, AnswerCpuid
            <4>2. \A q \in GPRs : Field(q) = Field(r) => q = r
                BY FieldOfRegister
            <4>3. stack[Field(r)] = before.regs[r]
                BY <2>2, <3>1 DEF RegistersKept
            <4>4. Field(r) \in 1..15
                BY FieldOfRegister
            <4> QED BY <3>3, <4>1, <4>2, <4>3, <4>4, OutputsAreRegisters
                DEF Expected
        <3> QED BY <3>1, <3>2, <3>4 DEF RegistersKept, Expected, Leaf, Subleaf
    <2> QED BY <2>1, <2>2
<1>5. CASE RestoreRegisters
    BY <1>5, FieldOfRegister
       DEF RestoreRegisters, RegistersKept, Expected, Leaf, Subleaf
<1>6. CASE Vmresume
    BY <1>6 DEF Vmresume, RegistersKept, NoExit
<1>7. CASE vmcs'.rip = vmcs.rip /\ UNCHANGED handlerVars
    BY <1>7 DEF handlerVars, RegistersKept, Expected, Leaf, Subleaf
<1>8. CASE WriteVmcsFields
    <2>1. exit'.at = "none"
        BY <1>8 DEF WriteVmcsFields, handlerVars
    <2> QED BY <2>1 DEF RegistersKept
<1>9. CASE Call \/ Migrate \/ DetectVmx \/ CheckAlignment \/ Vmxon
           \/ CaptureContext \/ VmlaunchFails \/ ReadInstructionError \/ Vmxoff
           \/ UndefinedOpcode \/ UNCHANGED vars
    <2>1. UNCHANGED <<vmcs, handlerVars>>
        BY <1>9 DEF Call, Migrate, DetectVmx, CheckAlignment, Vmxon,
            CaptureContext, VmlaunchFails, ReadInstructionError, Vmxoff,
            UndefinedOpcode, vars
    <2> QED BY <1>7, <2>1
<1>10. CASE AllocateState \/ SetVmxe \/ Vmclear \/ Vmptrld \/ VmlaunchEnters
            \/ FreeState
    <2>1. UNCHANGED handlerVars
        BY <1>10 DEF AllocateState, SetVmxe, Vmclear, Vmptrld, VmlaunchEnters,
            FreeState
    <2>2. vmcs' = vmcs \/ \E st : vmcs' = [vmcs EXCEPT !.state = st]
        BY <1>10, Zenon DEF AllocateState, SetVmxe, Vmclear, Vmptrld,
            VmlaunchEnters, FreeState
    <2>3. vmcs'.rip = vmcs.rip
        BY <2>2
    <2> QED BY <1>7, <2>1, <2>3
<1> QED BY <1>1, <1>2, <1>3, <1>4, <1>5, <1>6, <1>8, <1>9, <1>10
    DEF Next, ThreadStep, HandlerStep

\* HvExitHandler and HvHandleVmExit change nothing of the guest but RAX..RDX,
\* which hold the results for its own leaf and subleaf, and GUEST_RIP, on any
\* number of processors and whatever the thread does meanwhile.
THEOREM CpuidExitTransparent == Spec => []GuestUntouched
<1>1. RegistersKept => GuestUntouched
    <2> SUFFICES ASSUME RegistersKept, exit.at = "vmresume" PROVE
            /\ \A r \in GPRs \ {"rax", "rbx", "rcx", "rdx"} :
                  regs[r] = before.regs[r]
            /\ \A i \in 0..3 : regs[<<"rax", "rbx", "rcx", "rdx">>[i + 1]]
                  = Cpuid(i, before.regs["rax"], before.regs["rcx"])
            /\ vmcs.rip = Rip(before.rip[1], before.rip[2] + CpuidLength)
        BY DEF GuestUntouched
    <2>1. \A r \in GPRs : regs[r] = Expected(r)
        BY DEF RegistersKept
    <2>2. \A r \in GPRs \ {"rax", "rbx", "rcx", "rdx"} : regs[r] = before.regs[r]
        BY <2>1 DEF Expected
    <2>3. /\ regs["rax"] = Cpuid(0, Leaf, Subleaf)
          /\ regs["rbx"] = Cpuid(1, Leaf, Subleaf)
          /\ regs["rcx"] = Cpuid(2, Leaf, Subleaf)
          /\ regs["rdx"] = Cpuid(3, Leaf, Subleaf)
        BY <2>1, OutputsAreRegisters DEF Expected
    <2>4. \A i \in 0..3 : regs[<<"rax", "rbx", "rcx", "rdx">>[i + 1]]
                           = Cpuid(i, Leaf, Subleaf)
        <3> SUFFICES ASSUME NEW i \in 0..3
                     PROVE  regs[<<"rax", "rbx", "rcx", "rdx">>[i + 1]]
                            = Cpuid(i, Leaf, Subleaf)
            OBVIOUS
        <3>1. i = 0 \/ i = 1 \/ i = 2 \/ i = 3
            OBVIOUS
        <3> QED BY <2>3, <3>1
    <2> QED BY <2>2, <2>4 DEF RegistersKept, Leaf, Subleaf
<1> QED BY <1>1, LaunchInit, LaunchStep, RegistersInit, RegistersStep, PTL
        DEF Spec
=============================================================================
