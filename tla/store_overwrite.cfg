\* Two appends to one shard at the same time, no crash.
SPECIFICATION Spec
CONSTANTS
  Writers = {w1, w2}
  Readers = {}
  Shards = {s1}
  MaxOps = 3
  MaxSnap = 4
  MaxCrashes = 0
PROPERTY SnapshotFilesImmutable
