SPECIFICATION FairSpec
CONSTANTS
  Requests = {r1, r2}
  MaxMigrations = 2
  MaxTroubles = 2
INVARIANTS
  TypeOK
  MigratedOnce
PROPERTIES
  RequestsEnd
  ComesUp
