\* One dhap per iteration: the documented rule.
SPECIFICATION Spec
CONSTANTS
  Requests = {r1}
  PolicyKeys <- TwoInOneNamespace
  PolicySpecs <- DocumentedSpecs
  Deployments <- MCDeployments
  LoopVarPerIteration = TRUE
INVARIANT HighestWeightWins
PROPERTY ContractSpec
