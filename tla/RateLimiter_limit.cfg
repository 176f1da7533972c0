\* Three requests of one client in flight.
CONSTANTS
    Slots = {s1, s2, s3}
    Keys = {k1}
    Capacity = 4
    Unit = 2
    Rate = 1
    MaxNow = 4
    MaxFailures = 6
    NoBucket = NoBucket
SPECIFICATION Spec
INVARIANTS TypeOK ThrottledOnlyAfterBurst RefillAccrues InFlightBound
PROPERTIES TimeNeverRunsBack
