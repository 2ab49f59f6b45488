SPECIFICATION FairSpec
CONSTANTS
    WorkOrderIds = {w1, w2}
    Employees = {admin1, member1}
    Admins = {admin1}
    Slots = {c1, c2}
    MaxChanges = 2
    None = None
INVARIANTS
    TypeOK
    OpenedIsFound
    CreateIsForAdmins
    SignedInCalls
PROPERTIES
    ImplementsPages
    PagesSettle
