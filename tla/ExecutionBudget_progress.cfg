\* Two processes drive an event and a run of one contact to their end through a stall, a
\* crash or a rejected pass, and the deletion of the contact.
SPECIFICATION FairSpec
CONSTANTS
    a1 = a1  a2 = a2  a3 = a3  a4 = a4  b1 = b1  d1 = d1
    tA = tA  tB = tB  tD = tD  cA = cA  cC = cC
    NoContact = NoContact
    KindOf <- MCKind
    TenantOf <- MCTenant
    ContactOf <- MCContact
    Job = {a1, a2}
    Tenant = {tA}
    Contact = {cA}
    Process = {1, 2}
    GlobalCap = 2
    TenantCap = 2
    ClaimSize = 2
    Lockable = {}
    MaxDelays = 0
    MaxStalls = 1
    MaxFaults = 1
    MaxFences = 0
INVARIANTS OneLeasePerScope ContactSerialized
PROPERTIES OnlyOwnerReleases EveryJobEnds
