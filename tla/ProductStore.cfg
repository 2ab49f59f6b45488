SPECIFICATION FairSpec
CONSTANTS
    s1 = s1
    s2 = s2
    Skus = {s1, s2}
    Edits = {e1, e2}
    Ids = {1, 2, 3, 4}
    Requests = {q1, q2}
    Batches <- MCBatches
    MaxVersion = 3
INVARIANTS
    TypeOK
    UniqueSkus
    NoEditLost
PROPERTIES
    AllOrNothing
    EventuallyAnswered
