SPECIFICATION FairSpec
CONSTANTS
    Requests = {q1, q2}
    Readers = {warmer, client}
    Keys = {k1}
    ReportTTL = 3
    RecordTTL = 4
    MaxChanges = 2
    MaxFaults = 1
    None = None
INVARIANTS
    TypeOK
    ReplayIsReal
    OneWorkOrderPerKeyInSequence
    StaleAtMostTTL
    CurrentInCalm
PROPERTIES
    RightInTheEnd
