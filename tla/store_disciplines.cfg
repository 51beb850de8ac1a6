\* Two writers and a query under each of the three disciplines, with crashes.
SPECIFICATION MCSpec
CONSTANTS
  Writers = {w1, w2}
  Readers = {r1}
  Shards = {s1, s2}
  MaxOps = 3
  MaxSnap = 4
  MaxCrashes = 2
INVARIANTS TypeOK FilesExist HistoryKept RoutingNeverAhead StoreConverges
PROPERTY HistoryFinal ImplementsShardLog
