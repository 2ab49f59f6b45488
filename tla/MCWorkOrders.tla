----------------------------- MODULE MCWorkOrders -----------------------------
(* Instances of WorkOrders for TLC: two organizations, the first with an    *)
(* Admin and a Member as Program.cs seeds it, the second with an Admin.     *)
EXTENDS WorkOrders, TLC

CONSTANTS admin1, member1, admin2, customer1, customer2, org1, org2

MCOrganizations == {org1, org2}
MCEmployees     == {admin1, member1, admin2}
MCAdmins        == {admin1, admin2}
MCEmployeeOrg   == [e \in MCEmployees |-> IF e = admin2 THEN org2 ELSE org1]
MCCustomers     == {customer1, customer2}
MCCustomerOrg   == [c \in MCCustomers |-> IF c = customer2 THEN org2 ELSE org1]

\* Request slots are interchangeable, and so are notes: no definition tells
\* one from another.
SlotSymmetry == Permutations(Requests) \union Permutations(Notes)
=============================================================================
