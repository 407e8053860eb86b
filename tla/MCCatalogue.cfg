SPECIFICATION CatalogueSpec
CONSTANTS
  c1 = c1
  c2 = c2
  k1 = k1
  k2 = k2
  r1 = r1
  Nobody = Nobody
  NoRow = NoRow
  Clerk <- MCClerk
  Key <- MCKey
  Reader <- MCReader
  Forms <- MCForms
  SeedStock <- MCSeedStock
  Loaded = 1
  Dialect = "postgresql"
  CacheKeys <- MCCacheKeys
  MaxId = 3
  MaxStock = 1
  Batches <- MCBatches
  MaxJobs = 2
  MaxSales = 1
  MaxTime = 1
  TTL = 1
INVARIANTS TypeOK TrailNamesItsRow StockKeepsSales
CHECK_DEADLOCK FALSE
PROPERTIES StaleDiesOut
