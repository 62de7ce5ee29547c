CONSTANTS
    ConfigurationTables <- MCConfigurationTables
    InitialEntries = {2}
    MaxChanges = 4
    DescSize = 48
    XsdtLengths = {0, 1, 35, 36, 43, 44, 52, 63}
    UINTN_MOD = 64

SPECIFICATION Spec

\* UefiMain returns, or the processor has stopped.
CHECK_DEADLOCK FALSE

INVARIANT
    XsdtWalkInside
