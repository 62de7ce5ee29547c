CONSTANTS
    Tables <- MCTables
    SMBIOS_MAX_MEMORY_DEVICES = 1
    SMBIOS_STR_MAX = 3
    MEMORY_MAX_REGIONS = 1

SPECIFICATION Spec

\* The two functions return.
CHECK_DEADLOCK FALSE

INVARIANTS
    TypeOK
    NoOverread
    HeapBalanced
    StringsAreOwn
    WalksAgree
