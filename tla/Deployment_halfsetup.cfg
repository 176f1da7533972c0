\* One program at a time: a bootstrap that is interrupted and run again.
CONSTANTS
    None = None
    ProcCount = 1
    MaxRuns = 4
    MaxFaults = 1
    Migrations = 2
    MetaMigration = 1

SPECIFICATION Spec

INVARIANT
    SchemaBeforeConnection

CHECK_DEADLOCK FALSE
