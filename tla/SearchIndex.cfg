SPECIFICATION FairSpec
CONSTANTS
    w1 = w1
    w2 = w2
    org1 = org1
    org2 = org2
    None = None
    WorkOrderIds <- MCWorkOrderIds
    Organizations = {org1, org2}
    OrgOf <- MCOrgOf
    Publishers = {p1}
    Rebuilds = {r1}
    ProcessOf <- MCProcessOf
    MaxOutbox = 2
    MaxFaults = 2
INVARIANTS
    TypeOK
    PublishedIsIndexed
    ShowsWhatHappened
    CompletionsShowInCalm
PROPERTIES
    RebuildsStayHome
    UnracedRebuildReaddsAll
    EventuallyPublished
