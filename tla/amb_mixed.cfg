CONSTANTS
  Users = {u1}
  All = All
  Reqs = {r1}
  Active = {"preference", "fold"}
  Width = 1
  CorpusMax = 1
  CacheMax = 2
  NoBuild = NoBuild
  MaxIngests = 2
  MaxResets = 0
  MaxFailures = 0
SPECIFICATION Spec
INVARIANTS BuiltIsFresh
