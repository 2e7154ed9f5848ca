\* The shipped build: all iterations share one dhap.
SPECIFICATION Spec
CONSTANTS
  Requests = {r1}
  PolicyKeys <- TwoInOneNamespace
  PolicySpecs <- DocumentedSpecs
  Deployments <- MCDeployments
  LoopVarPerIteration = FALSE
INVARIANT HighestWeightWins
