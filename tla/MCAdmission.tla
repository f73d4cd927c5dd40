----------------------------- MODULE MCAdmission -----------------------------
\* Instances of Admission: two tenants with large and small requests.
EXTENDS Admission, TLC

CONSTANTS r1, r2, r3, a, b

TenantsOfRequests == r1 :> a @@ r2 :> a @@ r3 :> b
Large == [requests |-> 1, bytes |-> 2]
Small == [requests |-> 1, bytes |-> 1]
SizesOfRequests == r1 :> Large @@ r2 :> Small @@ r3 :> Large

\* Both limits bind: the total keeps r1 and r3 apart, the tenant's r1 and r2.
Wide == [total |-> [requests |-> 3, bytes |-> 3], tenant |-> [requests |-> 2, bytes |-> 2],
         queue |-> 3, tenantQueue |-> 2]
Narrow == [Wide EXCEPT !.total.requests = 1, !.tenant.bytes = 1, !.tenantQueue = 1]
TwoLimits == {Wide, Narrow}

LargeTwice == r1 :> 2 @@ r2 :> 1 @@ r3 :> 1
LargeOverride == [r \in Requests |-> IF r = r1 THEN {Wide} ELSE {}]
=============================================================================
