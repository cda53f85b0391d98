\* WAL check: Minio storage; four segments and pages of two, so a listing
\* takes up to three pages and segments arrive between them; one failed
\* object-store call and one failed port forward.  AppBinding check: two
\* values of each field, so each test of CheckAppBindingSpec can fail alone.
\* Three polls and one failed API call for each.
CONSTANTS
  Minio = TRUE
  MaxSegments = 4
  PageSize = 2
  MaxTunnelErrors = 1
  Nil = Nil
  PgName = "pg"
  PgSecret = "pg-auth"
  PostgresPort = 5432
  Names = {"pg", "other"}
  Ports = {5432, 5433}
  SecretNames = {"pg-auth", "other-auth"}
  MaxPolls = 3
  MaxErrors = 1
SPECIFICATION Spec
INVARIANTS
  TypeOK
  ListingCountsEverySegment
  TunnelClosed
  CheckVerdictExact
CHECK_DEADLOCK FALSE
