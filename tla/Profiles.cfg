\* Two updates of one row for the categories, one of any number for the phones.
SPECIFICATION Spec

CONSTANTS
    m1 = m1
    r1 = r1
    r2 = r2
    Members <- MCMembers
    Requests <- MCRequests
    Concerns <- MCConcerns
    LegacyRows <- MCLegacyRows
    Forms <- MCForms
    Clients <- MCClients

INVARIANTS
    TypeOK
    CategoryRuleKept
    NoDeadEnd
    PhoneAgreesWithBackfill
    ResubmissionKeepsPhone

PROPERTIES
    NumberNeverWiped
