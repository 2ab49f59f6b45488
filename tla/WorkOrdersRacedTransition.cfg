SPECIFICATION Spec
CONSTANTS
    admin1 = admin1
    member1 = member1
    admin2 = admin2
    customer1 = customer1
    customer2 = customer2
    org1 = org1
    org2 = org2
    None = None
    Organizations <- MCOrganizations
    Employees <- MCEmployees
    Admins <- MCAdmins
    EmployeeOrg <- MCEmployeeOrg
    Customers <- MCCustomers
    CustomerOrg <- MCCustomerOrg
    WorkOrderIds = {w1}
    Requests = {r1, r2}
    Notes = {}
    MaxOutbox = 5
PROPERTIES
    TransitionsRequireState
