CONSTANTS
    t1 = t1
    t2 = t2
    Threads <- MCThreads
    Requests <- MCRequests
    NoRequest = NoRequest
    Mcfg <- MCMcfg
    NoThread = NoThread
    NoPage = NoPage
    ImplementedMsrs = {16}
    OsUsesPorts = TRUE
    OsAddress <- MCOsAddress

SPECIFICATION FairSpec

INVARIANTS
    TypeOK
    AnswerIsOwn
    IrpHasDriver
    AbsentIsClean
    NoMappingOutlivesIoctl

PROPERTIES
    ImplementsService
    IrpCompletes
    PortPairNeverWedged
