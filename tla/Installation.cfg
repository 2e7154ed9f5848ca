\* The schedule of with-rbac.yaml and the defaults of cert-manager.
SPECIFICATION FairSpec
CONSTANTS
  Step = 24
  MonthLengths = {28, 29, 30, 31}
  Lifetime = 90
  RenewBefore = 30
INVARIANTS
  TypeOK
  ScheduleSuffices
PROPERTY BundlesAreFilled
