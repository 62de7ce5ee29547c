CONSTANTS
    EnumSizes = {0, 3, 8, 12}
    RawSizes = {35, 36, 45, 53, 77}
    HeaderLengths = {0, 20, 47, 48, 60, 76, 99}
    EntryTypes = {0, 1, 9}
    EntryLengths = {0, 1, 7, 8, 16}
    ACPI_MAX_DISCOVERED_TABLES = 2
    ACPI_MAX_PROCESSORS = 2
    ACPI_MAX_MCFG_ENTRIES = 1

SPECIFICATION FairSpec

\* acpi_collect ends.
CHECK_DEADLOCK FALSE

INVARIANTS
    TypeOK
    NoOverread
    HeapBalanced
    OnlyCheckedTablesReported

PROPERTY
    Terminates
