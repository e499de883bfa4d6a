\* Three users of two tenants, four leads, one walker through the pages; two
\* imports; three requests at a pool of one connection and a pool of one thread.
CONSTANTS
  User = {"admin", "staff", "other"}
  TenantOf <- Tenants
  RoleOf <- Roles
  Walker = {"staff"}
  LeadId = {1, 2, 3, 4}
  Raw <- Spellings
  Limit = {1, 2}
  JobId = {j1, j2}
  Request = {r1, r2, r3}
  DB_POOL_SIZE = 1
  THREADS = 1
  MEMORY = 1
  Caller = {c1, c2, c3}
  Program = {"class", "simple", "fastapi"}
  MaxWrites = 3
  MaxCrashes = 1
  Part = {"leads", "imports", "lab"}
SPECIFICATION FairSpec
INVARIANTS
  PagesComplete
  TenantsApart
  GaugesTrue
PROPERTIES
  ReportsNeverGoBack
  HealthAnswered
CHECK_DEADLOCK FALSE
