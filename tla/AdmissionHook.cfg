\* The shipped build: one call, two policies in its namespace, one in another.
SPECIFICATION FairSpec
CONSTANTS
  Requests = {r1}
  PolicyKeys <- TwoInOneNamespace
  PolicySpecs <- MCPolicySpecs
  Deployments <- MCDeployments
  LoopVarPerIteration = FALSE
INVARIANTS
  TypeOK
  NothingAllowedUninitialized
  NeverAllowedUnjudged
  BrokenSelectorFailsClosed
PROPERTIES
  EveryCallEnds
  ContractSpec
