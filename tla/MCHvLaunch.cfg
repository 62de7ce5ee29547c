CONSTANTS
    LPs = {l1, l2}
    CallerPinned = FALSE
    OsExits = {"CPUID", "OTHER"}
    Capabilities <- MCCapabilities
    MaxCalls = 2

SPECIFICATION FairSpec

\* INT 3 in the exit handler and #UD in the thread stop the machine.
CHECK_DEADLOCK FALSE

INVARIANTS
    TypeOK
    CleanOnFalse
    RegionsOutliveVmx
    GuestUntouched

PROPERTY
    CpuidExitResumes
