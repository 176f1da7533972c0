\* Two programs at a time, four launches, one fault.
CONSTANTS
    None = None
    ProcCount = 2
    MaxRuns = 4
    MaxFaults = 1
    Migrations = 2
    MetaMigration = 1

SPECIFICATION FairSpec

INVARIANTS
    KeyOpensIdentity
    IdentityIsStable
    PrintedCodeWorks
    InFlightHavePool

PROPERTIES
    ShutdownCompletes

CHECK_DEADLOCK FALSE
