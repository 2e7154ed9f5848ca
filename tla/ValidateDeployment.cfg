\* Every input of MCDeployments against every policy of MCPolicySpecs.
\* A call ends, so its final states have no successor.
SPECIFICATION Spec
CONSTANTS
  Deployments <- MCDeployments
  PolicySpecs <- MCPolicySpecs
INVARIANTS
  TypeOK
  SummaryIsExact
  AcceptedIffAdheres
  RolloutStaysWithinPolicy
  DefaultPolicyGuarantee
  PercentagesCompareAsDeclared
CHECK_DEADLOCK FALSE
