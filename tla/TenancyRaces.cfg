CONSTANTS
  Sessions = {s1, s2}
  TenantIds = {1, 2}
  Slugs = {slug}
  Emails = {e1, e2}
  CustomRoles = {clerk}
  CompanyIds = {company}
  Everywhere = everywhere
  Requires <- MCRequires
  Assignable = {clerk}
  Grantable = {"years"}
  First = 2027
  MaxTokens = 3
  MaxGrants = 2
  MaxRows = 8
  MaxYears = 3
SPECIFICATION Spec
SYMMETRY Alike
INVARIANTS
  TenantsAreOwned
  ExchangedOnce
  CalendarIsWhole
CHECK_DEADLOCK FALSE
