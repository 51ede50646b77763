\* Three events and a run of three tenants compete for the limits; one is put off, staff take one, contacts
\* are deleted, rows are locked by other transactions.
SPECIFICATION Spec
CONSTANTS
    a1 = a1  a2 = a2  a3 = a3  a4 = a4  b1 = b1  d1 = d1
    tA = tA  tB = tB  tD = tD  cA = cA  cC = cC
    NoContact = NoContact
    KindOf <- MCKind
    TenantOf <- MCTenant
    ContactOf <- MCContact
    Job = {a1, a4, b1, d1}
    Tenant = {tA, tB, tD}
    Contact = {cA, cC}
    Process = {1}
    GlobalCap = 2
    TenantCap = 1
    ClaimSize = 2
    Lockable = {b1}
    MaxDelays = 1
    MaxStalls = 0
    MaxFaults = 0
    MaxFences = 1
INVARIANTS GlobalBudget TenantBudget
PROPERTIES LeastRecentTenantsFirst
