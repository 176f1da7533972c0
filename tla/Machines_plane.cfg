\* Two agents, three calls and two administrative acts; a column of one bit.
CONSTANTS
    a1 = a1
    a2 = a2
    m1 = m1
    m2 = m2
    None = None
    Agents = {a1, a2}
    MachineIds = {m1, m2}
    SlotCount = 2
    Batches <- OneBatch
    I64Max = 1
    ChannelSize = 1
    MaxCalls = 3
    MaxAdmin = 2

SPECIFICATION FairSpec

INVARIANTS
    TypeOK
    OneMachinePerKey
    AckedBatchIsStored
    ConfigIsFresh

PROPERTIES
    MachineKeepsItsRow
    GroupNeverGoesBack
    StreamTaskEnds
