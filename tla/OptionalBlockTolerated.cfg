SPECIFICATION Spec
CONSTANTS
  Deployments <- MCDeployments
  PolicySpecs <- MCPolicySpecs
INVARIANT OptionalBlockTolerated
CHECK_DEADLOCK FALSE
