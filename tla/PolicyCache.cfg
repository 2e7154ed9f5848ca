\* Callers write to a cell that a deep copy allocates anew, and to one it shares.
SPECIFICATION Spec
CONSTANTS
  Callers = {c1, c2}
  Keys <- MCKeys
  Labels = {"selected", "ignored"}
  Values = {"old", "new"}
  ServerPolicies <- MCServerPolicies
  Namespace = "team"
  Tweaked = {"selected"}
  ModifiedFields = {"replicas", "maxSurge"}
  Ids = {i1, i2, i3, i4, i5}
  MaxQueue = 2
SYMMETRY Symmetry
INVARIANTS
  TypeOK
  CacheFollowsServer
PROPERTY CopiesArePrivate
