------------------------------ MODULE HvLaunch ------------------------------
(***************************************************************************)
(* The VT-x skeleton of driver/hv: HvTryLaunch (hwmon_hv.c) run by one     *)
(* kernel thread, the VM-exit path HvExitHandler (hwmon_hv_asm.asm) and    *)
(* HvHandleVmExit, on a machine with several logical processors.           *)
(*                                                                         *)
(* VMX operation is a mode of ONE logical processor, so the thread carries *)
(* the processor it runs on; CallerPinned says whether its caller keeps it *)
(* there.  What the VMX instructions do is external and follows the code's *)
(* use of them: each may fail, faults (#UD) outside VMX operation, and     *)
(* exits to HOST_RIP when executed by the guest.                           *)
(***************************************************************************)
EXTENDS Integers, Sequences

CONSTANTS
    LPs,           \* logical processors
    CallerPinned,  \* does the caller of HvTryLaunch keep it on one of them?
    OsExits,       \* reasons of VM exits that code other than the clone causes
    Capabilities,  \* what the VMX control capability MSRs may report
    MaxCalls       \* bound: how often HvTryLaunch is called

ASSUME HvAssumption ==
    /\ LPs # {} /\ CallerPinned \in BOOLEAN
    /\ OsExits \subseteq {"CPUID", "OTHER"}
    /\ \A c \in Capabilities : /\ c.allowed0 \subseteq c.allowed1
                               /\ c.allowed1 \subseteq 0..31
    /\ MaxCalls \in Nat

VARIABLES
    lp,          \* the processor the thread runs on
    pc,          \* where the thread is in HvTryLaunch
    calls,       \* how often it was called
    hvState,     \* g_HvState # NULL
    allocated,   \* is the contiguous block allocated?
    cr4vmxe,     \* cr4vmxe[l]: CR4.VMXE
    vmx,         \* vmx[l]: off, root, guest (non-root) or exit (handling one)
    vmcs,        \* launch state, GUEST_RIP, and controls of the one VMCS
    ctxRip,      \* Ctx.Rip of RtlCaptureContext
    exit,        \* the exit being handled: reason and handler location
    regs,        \* general-purpose registers of the processor that exited
    stack,       \* the host stack, from RSP upwards
    before       \* history: what the guest had when it exited

threadVars == <<lp, pc, calls, hvState, allocated, cr4vmxe, ctxRip>>
handlerVars == <<exit, regs, stack, before>>
vars == <<threadVars, vmx, vmcs, handlerVars>>

-----------------------------------------------------------------------------
\* HvExitHandler's pushes, HV_GUEST_REGISTERS' fields (lowest address first)
\* and HvExitHandler's pops, as the three sources list them.
PushOrder ==
    <<"rax", "rcx", "rdx", "rbx", "rbp", "rsi", "rdi", "r8", "r9", "r10",
      "r11", "r12", "r13", "r14", "r15">>

\* MUTANT: the structure lists rbx and rdx the other way round.
SwappedStructure ==
    <<"r15", "r14", "r13", "r12", "r11", "r10", "r9", "r8", "rdi", "rsi",
      "rbp", "rdx", "rbx", "rcx", "rax">>

HV_GUEST_REGISTERS ==
    <<"r15", "r14", "r13", "r12", "r11", "r10", "r9", "r8", "rdi", "rsi",
      "rbp", "rbx", "rdx", "rcx", "rax">>

PopOrder ==
    <<"r15", "r14", "r13", "r12", "r11", "r10", "r9", "r8", "rdi", "rsi",
      "rbp", "rbx", "rdx", "rcx", "rax">>

GPRs == {PushOrder[i] : i \in DOMAIN PushOrder}

\* Registers a Microsoft x64 callee such as HvHandleVmExit may destroy.
VolatileGPRs == {"rax", "rcx", "rdx", "r8", "r9", "r10", "r11"}

IndexOf(order, r) == CHOOSE i \in DOMAIN order : order[i] = r

GuestValue(r)       == <<"guest", r>>
Cpuid(i, leaf, sub) == <<"cpuid", i, leaf, sub>>
Junk                == <<"junk">>

\* A RIP: a place in the code and an offset from it.
Rip(place, offset) == <<place, offset>>
CpuidLength == 2

NoExit   == [lp |-> "none", reason |-> "none", at |-> "none"]
NoValues == [r \in GPRs |-> Junk]

Init ==
    /\ lp \in LPs
    /\ pc = "idle" /\ calls = 0
    /\ hvState = FALSE /\ allocated = FALSE
    /\ cr4vmxe = [l \in LPs |-> FALSE]
    /\ vmx = [l \in LPs |-> "off"]
    /\ vmcs = [state |-> "none", rip |-> Rip("none", 0), controls |-> {}]
    /\ ctxRip = Rip("none", 0)
    /\ exit = NoExit
    /\ regs = NoValues /\ stack = <<>>
    /\ before = [regs |-> NoValues, rip |-> Rip("none", 0)]

-----------------------------------------------------------------------------
(***************************************************************************)
(* HvTryLaunch up to VMXON.                                                *)
(***************************************************************************)
Alive == pc # "bugcheck"

Goto(l) == pc' = l

\* A caller; nothing in the repository calls HvTryLaunch (external).
Call ==
    /\ pc \in {"idle", "returned"} /\ calls < MaxCalls
    /\ calls' = calls + 1
    /\ Goto("detect")
    /\ UNCHANGED <<lp, hvState, allocated, cr4vmxe, ctxRip, vmx, vmcs,
                   handlerVars>>

\* The scheduler moves the thread, unless its caller prevents that.
Migrate ==
    /\ ~CallerPinned
    /\ pc \notin {"idle", "returned", "bugcheck"} /\ vmx[lp] # "exit"
    /\ \E l \in LPs \ {lp} : vmx[l] # "exit" /\ lp' = l
    /\ UNCHANGED <<pc, calls, hvState, allocated, cr4vmxe, ctxRip, vmx, vmcs,
                   handlerVars>>

\* VmxIsSupportedByCpuid and VmxIsEnabledByBios.
DetectVmx ==
    /\ pc = "detect"
    /\ \/ Goto("allocate")
       \/ Goto("returned")
    /\ UNCHANGED <<lp, calls, hvState, allocated, cr4vmxe, ctxRip, vmx, vmcs,
                   handlerVars>>

AllocateState ==
    /\ pc = "allocate"
    /\ \/ /\ hvState' = TRUE /\ allocated' = TRUE
          /\ vmcs' = [vmcs EXCEPT !.state = "zeroed"]
          /\ Goto("align")
       \/ /\ hvState' = FALSE
          /\ Goto("returned")
          /\ UNCHANGED <<allocated, vmcs>>
    /\ UNCHANGED <<lp, calls, cr4vmxe, ctxRip, vmx, handlerVars>>

\* The alignment check; a misaligned block is given back.
CheckAlignment ==
    /\ pc = "align"
    /\ \/ Goto("vmxe")
       \/ Goto("free")
    /\ UNCHANGED <<lp, calls, hvState, allocated, cr4vmxe, ctxRip, vmx, vmcs,
                   handlerVars>>

\* Revision identifiers, and CR4.VMXE of the processor it runs on now.
SetVmxe ==
    /\ pc = "vmxe"
    /\ vmcs' = [vmcs EXCEPT !.state = "revision"]
    /\ cr4vmxe' = [cr4vmxe EXCEPT ![lp] = TRUE]
    /\ Goto("vmxon")
    /\ UNCHANGED <<lp, calls, hvState, allocated, ctxRip, vmx, handlerVars>>

Vmxon ==
    /\ pc = "vmxon" /\ vmx[lp] = "off" /\ cr4vmxe[lp]
    /\ \/ vmx' = [vmx EXCEPT ![lp] = "root"] /\ Goto("vmclear")
       \/ UNCHANGED vmx /\ Goto("free")
    /\ UNCHANGED <<lp, calls, hvState, allocated, cr4vmxe, ctxRip, vmcs,
                   handlerVars>>

-----------------------------------------------------------------------------
(***************************************************************************)
(* From VMXON to VMLAUNCH, on a processor in VMX root operation.           *)
(***************************************************************************)
Vmclear ==
    /\ pc = "vmclear" /\ vmx[lp] = "root"
    /\ \/ vmcs' = [vmcs EXCEPT !.state = "clear"] /\ Goto("vmptrld")
       \/ UNCHANGED vmcs /\ Goto("vmxoff")
    /\ UNCHANGED <<lp, calls, hvState, allocated, cr4vmxe, ctxRip, vmx,
                   handlerVars>>

Vmptrld ==
    /\ pc = "vmptrld" /\ vmx[lp] = "root"
    /\ \/ vmcs' = [vmcs EXCEPT !.state = "current"] /\ Goto("capture")
       \/ UNCHANGED vmcs /\ Goto("vmxoff")
    /\ UNCHANGED <<lp, calls, hvState, allocated, cr4vmxe, ctxRip, vmx,
                   handlerVars>>

\* SetupVmcsFields up to RtlCaptureContext: Ctx.Rip is the instruction after
\* that call, the first __vmx_vmwrite.
CaptureContext ==
    /\ pc = "capture"
    /\ ctxRip' = Rip("vmwrite", 0)
    /\ Goto("vmwrite")
    /\ UNCHANGED <<lp, calls, hvState, allocated, cr4vmxe, vmx, vmcs,
                   handlerVars>>

\* Control bits as sets of bit numbers: (Desired | Allowed0) & Allowed1.
AdjustControlValue(cap, desired) ==
    (desired \cup cap.allowed0) \cap cap.allowed1

AddressSpaceSize == 9   \* x64 host (exit controls), IA-32e guest (entry)

\* MUTANT: GUEST_RIP is not written.
WriteAllButRip ==
    /\ pc = "vmwrite" /\ vmx[lp] = "root"
    /\ \E cap \in Capabilities :
          vmcs' = [vmcs EXCEPT !.controls = AdjustControlValue(
                                               cap, {AddressSpaceSize})]
    /\ Goto("vmlaunch")
    /\ UNCHANGED <<lp, calls, hvState, allocated, cr4vmxe, ctxRip, vmx,
                   handlerVars>>

\* The rest of SetupVmcsFields, which always returns TRUE.
WriteVmcsFields ==
    /\ pc = "vmwrite" /\ vmx[lp] = "root"
    /\ \E cap \in Capabilities :
          vmcs' = [vmcs EXCEPT !.rip = ctxRip,
                               !.controls = AdjustControlValue(
                                               cap, {AddressSpaceSize})]
    /\ Goto("vmlaunch")
    /\ UNCHANGED <<lp, calls, hvState, allocated, cr4vmxe, ctxRip, vmx,
                   handlerVars>>

\* VMLAUNCH: the clone runs from GUEST_RIP; or the instruction fails and the
\* thread falls through to the error path.
VmlaunchEnters ==
    /\ pc = "vmlaunch" /\ vmx[lp] = "root"
    /\ vmcs.state = "current" /\ AddressSpaceSize \in vmcs.controls
    /\ vmx' = [vmx EXCEPT ![lp] = "guest"]
    /\ vmcs' = [vmcs EXCEPT !.state = "launched"]
    /\ Goto(vmcs.rip[1])
    /\ UNCHANGED <<lp, calls, hvState, allocated, cr4vmxe, ctxRip, handlerVars>>

VmlaunchFails ==
    /\ pc = "vmlaunch" /\ vmx[lp] = "root"
    /\ Goto("vmread")
    /\ UNCHANGED <<lp, calls, hvState, allocated, cr4vmxe, ctxRip, vmx, vmcs,
                   handlerVars>>

\* ... or guest state is rejected: that is a VM exit, not a failure.
VmlaunchRejected ==
    /\ pc = "vmlaunch" /\ vmx[lp] = "root"
    /\ vmcs.state = "current" /\ AddressSpaceSize \in vmcs.controls
    /\ vmx' = [vmx EXCEPT ![lp] = "exit"]
    /\ exit' = [lp |-> lp, reason |-> "ENTRY_FAILURE", at |-> "save"]
    /\ UNCHANGED <<threadVars, vmcs, regs, stack, before>>

\* The error code of a failed VMLAUNCH.
ReadInstructionError ==
    /\ pc = "vmread" /\ vmx[lp] = "root"
    /\ Goto("vmxoff")
    /\ UNCHANGED <<lp, calls, hvState, allocated, cr4vmxe, ctxRip, vmx, vmcs,
                   handlerVars>>

-----------------------------------------------------------------------------
(***************************************************************************)
(* The failure paths end in VMXOFF, MmFreeContiguousMemory, return FALSE.  *)
(* CR4.VMXE is left set.                                                   *)
(***************************************************************************)
\* MUTANT: VMXOFF is missing from the failure path.
VmxoffForgotten ==
    /\ pc = "vmxoff" /\ vmx[lp] = "root"
    /\ Goto("free")
    /\ UNCHANGED <<lp, calls, hvState, allocated, cr4vmxe, ctxRip, vmx, vmcs,
                   handlerVars>>

Vmxoff ==
    /\ pc = "vmxoff" /\ vmx[lp] = "root"
    /\ vmx' = [vmx EXCEPT ![lp] = "off"]
    /\ Goto("free")
    /\ UNCHANGED <<lp, calls, hvState, allocated, cr4vmxe, ctxRip, vmcs,
                   handlerVars>>

\* MUTANT: g_HvState is cleared but the block is not freed.
FreeStateLeaks ==
    /\ pc = "free"
    /\ hvState' = FALSE
    /\ Goto("returned")
    /\ UNCHANGED <<lp, calls, allocated, cr4vmxe, ctxRip, vmx, vmcs,
                   handlerVars>>

FreeState ==
    /\ pc = "free"
    /\ allocated' = FALSE /\ hvState' = FALSE
    /\ vmcs' = [vmcs EXCEPT !.state = "none"]
    /\ Goto("returned")
    /\ UNCHANGED <<lp, calls, cr4vmxe, ctxRip, vmx, handlerVars>>

VmxInstructions == {"vmxon", "vmclear", "vmptrld", "vmwrite", "vmlaunch",
                    "vmread", "vmxoff"}

\* A VMX instruction on a processor that is not in VMX operation (for VMXON:
\* whose CR4.VMXE is clear) raises #UD in kernel mode.
UndefinedOpcode ==
    /\ pc \in VmxInstructions
    /\ vmx[lp] = "off" /\ ~(pc = "vmxon" /\ cr4vmxe[lp])
    /\ Goto("bugcheck")
    /\ UNCHANGED <<lp, calls, hvState, allocated, cr4vmxe, ctxRip, vmx, vmcs,
                   handlerVars>>

-----------------------------------------------------------------------------
(***************************************************************************)
(* VM exits.                                                               *)
(***************************************************************************)
\* VMX instructions always exit when the guest executes them.
CloneExits ==
    /\ pc \in VmxInstructions /\ vmx[lp] = "guest"
    /\ vmx' = [vmx EXCEPT ![lp] = "exit"]
    /\ exit' = [lp |-> lp, reason |-> "VMX_INSTRUCTION", at |-> "save"]
    /\ UNCHANGED <<threadVars, vmcs, regs, stack, before>>

\* Other code on the virtualised processor (an interrupt handler, another
\* thread) executes an instruction that exits.
OsExit ==
    /\ Alive
    /\ \E l \in LPs, why \in OsExits :
          /\ vmx[l] = "guest"
          /\ vmx' = [vmx EXCEPT ![l] = "exit"]
          /\ exit' = [lp |-> l, reason |-> why, at |-> "save"]
    /\ regs' = [r \in GPRs |-> GuestValue(r)]
    /\ vmcs' = [vmcs EXCEPT !.rip = Rip("os", 0)]
    /\ before' = [regs |-> regs', rip |-> Rip("os", 0)]
    /\ UNCHANGED <<threadVars, stack>>

\* HvExitHandler's pushes.
SaveRegisters ==
    /\ Alive /\ exit.at = "save"
    /\ stack' = [i \in 1..Len(PushOrder) |->
                    regs[PushOrder[Len(PushOrder) + 1 - i]]]
    /\ exit' = [exit EXCEPT !.at = "handle"]
    /\ UNCHANGED <<threadVars, vmx, vmcs, regs, before>>

\* Regs->Field for the pointer HvExitHandler passes.
Field(r) == IndexOf(HV_GUEST_REGISTERS, r)

\* MUTANT: zero means bail.
HandleBailsOnCpuid ==
    /\ Alive /\ exit.at = "handle"
    /\ exit' = [exit EXCEPT !.at = IF exit.reason = "CPUID" THEN "trap"
                                   ELSE "restore"]
    /\ UNCHANGED <<threadVars, vmx, vmcs, regs, stack, before>>

\* HvHandleVmExit and the test of its result.
HvHandleVmExit ==
    /\ Alive /\ exit.at = "handle"
    /\ regs' = [r \in GPRs |-> IF r \in VolatileGPRs THEN Junk ELSE regs[r]]
    /\ \/ /\ exit.reason # "CPUID"
          /\ exit' = [exit EXCEPT !.at = "trap"]
          /\ UNCHANGED <<stack, vmcs>>
       \/ /\ exit.reason = "CPUID"
          /\ LET Result(i) == Cpuid(i, stack[Field("rax")], stack[Field("rcx")])
             IN stack' = [stack EXCEPT ![Field("rax")] = Result(0),
                                       ![Field("rbx")] = Result(1),
                                       ![Field("rcx")] = Result(2),
                                       ![Field("rdx")] = Result(3)]
          /\ vmcs' = [vmcs EXCEPT !.rip = Rip(vmcs.rip[1],
                                              vmcs.rip[2] + CpuidLength)]
          /\ exit' = [exit EXCEPT !.at = "restore"]
    /\ UNCHANGED <<threadVars, vmx, before>>

\* HvExitHandler's pops.
RestoreRegisters ==
    /\ Alive /\ exit.at = "restore"
    /\ regs' = [r \in GPRs |-> stack[IndexOf(PopOrder, r)]]
    /\ stack' = <<>>
    /\ exit' = [exit EXCEPT !.at = "vmresume"]
    /\ UNCHANGED <<threadVars, vmx, vmcs, before>>

\* VMRESUME; if it fails (the VMCS was not launched) the handler traps.
Vmresume ==
    /\ Alive /\ exit.at = "vmresume"
    /\ vmx' = IF vmcs.state = "launched"
              THEN [vmx EXCEPT ![exit.lp] = "guest"] ELSE vmx
    /\ exit' = IF vmcs.state = "launched" THEN NoExit
               ELSE [exit EXCEPT !.at = "trap"]
    /\ UNCHANGED <<threadVars, vmcs, regs, stack, before>>

-----------------------------------------------------------------------------
ThreadStep ==
    \/ DetectVmx \/ AllocateState \/ CheckAlignment \/ SetVmxe \/ Vmxon
    \/ Vmclear \/ Vmptrld \/ CaptureContext \/ WriteVmcsFields
    \/ VmlaunchEnters \/ VmlaunchFails \/ VmlaunchRejected
    \/ ReadInstructionError \/ Vmxoff \/ FreeState
    \/ UndefinedOpcode \/ CloneExits

HandlerStep ==
    SaveRegisters \/ HvHandleVmExit \/ RestoreRegisters \/ Vmresume

Next == Call \/ Migrate \/ OsExit \/ ThreadStep \/ HandlerStep

Spec == Init /\ [][Next]_vars

\* The thread is scheduled as long as its processor is not busy with an exit,
\* and the exit handler runs to its end with interrupts off.
FairSpec == Spec /\ WF_vars(ThreadStep) /\ WF_vars(HandlerStep)

-----------------------------------------------------------------------------
(***************************************************************************)
(* Properties.                                                             *)
(***************************************************************************)
\* Types of the launch state and of the exit being handled.
TypeOK ==
    /\ lp \in LPs /\ calls \in 0..MaxCalls
    /\ pc \in {"idle", "detect", "allocate", "align", "vmxe", "capture", "free",
               "returned", "bugcheck"} \cup VmxInstructions
    /\ hvState \in BOOLEAN /\ allocated \in BOOLEAN
    /\ cr4vmxe \in [LPs -> BOOLEAN]
    /\ vmx \in [LPs -> {"off", "root", "guest", "exit"}]
    /\ vmcs.state \in {"none", "zeroed", "revision", "clear", "current",
                       "launched"}
    /\ exit.at \in {"none", "save", "handle", "restore", "vmresume", "trap"}
    /\ Len(stack) \in {0, Len(PushOrder)}

\* "Never partially leaves VMX operation active": a HvTryLaunch that returned
\* FALSE has taken every processor out of VMX operation and freed its block,
\* wherever the failure was and wherever the thread was moved to.
CleanOnFalse ==
    pc = "returned" =>
        ~hvState /\ ~allocated /\ \A l \in LPs : vmx[l] = "off"

\* The VMXON region, the VMCS and the host stack share one block: it stays
\* allocated as long as any processor is in VMX operation or handles an exit.
RegionsOutliveVmx ==
    (\E l \in LPs : vmx[l] # "off") => allocated /\ hvState

\* What HvExitHandler promises: across a CPUID exit the guest finds every
\* register as it was, except RAX..RDX which hold the results for ITS leaf
\* and subleaf, and continues after the CPUID instruction.
GuestUntouched ==
    exit.at = "vmresume" =>
        /\ \A r \in GPRs \ {"rax", "rbx", "rcx", "rdx"} :
              regs[r] = before.regs[r]
        /\ \A i \in 0..3 : regs[<<"rax", "rbx", "rcx", "rdx">>[i + 1]]
              = Cpuid(i, before.regs["rax"], before.regs["rcx"])
        /\ vmcs.rip = Rip(before.rip[1], before.rip[2] + CpuidLength)

\* Every CPUID exit is answered: the guest runs again (unless the machine
\* has stopped elsewhere).
CpuidExitResumes ==
    (exit.reason = "CPUID") ~> (exit.reason # "CPUID" \/ ~Alive)

\* hwmon_hv.h says the skeleton only ever runs on the processor that calls
\* HvTryLaunch: no VMX instruction is executed on one outside VMX operation.
NoUndefinedOpcode == Alive

\* The comment above __vmx_vmlaunch: after a successful VMLAUNCH the guest is
\* indistinguishable from a return of SetupVmcsFields, so it gets to the
\* statement after that call.
CloneReturnsFromSetup ==
    (vmx[lp] = "guest" /\ pc = "vmwrite") ~> (vmx[lp] = "guest" /\ pc = "vmlaunch")
=============================================================================
