CONSTANTS
    BasicLeaves = {0, 1, 6, 7, 10, 11, 30, 31}
    ExtendedLeaves <- MCExtendedLeaves
    Topologies <- MCTopologies
    MAX_SUBLEAF = 3
    COUNTER_MOD = 16
    Starts = {0, 13}
    Elapsed = {0, 1, 4}
    Delays = {0, 1, 3}
    TscRate = 3
    PCI_MAX_DEVICES = 2
    PCI_MAX_RESOURCES = 2
    MaxPresent = 3
    MaxDescriptors = 3
    STORAGE_MAX_DEVICES = 2
    BufferSize = 64
    ReturnedSizes = {0, 8, 41}
    Offsets = {0, 7, 40, 64}

SPECIFICATION FairSpec

\* main returns.
CHECK_DEADLOCK FALSE

INVARIANTS
    InstructionsGuarded
    TopologyFromLastLevel
    UtilizationIsTrue
    FrequencyTrusted
    PciTypeOK
    NoHandleLeak
    EveryDeviceAccountedFor
    HandlesClosed
    StringsFromThisQuery
    DrivesReported
    ReportComplete

PROPERTY
    ProgramEnds
