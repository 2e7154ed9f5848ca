\* The shipped build and one policy in a namespace.  Two requests at a time; the
\* webhook, the policies and the objects change meanwhile.
SPECIFICATION FairSpec
CONSTANTS
  Requests = {r1, r2}
  PolicyKeys <- MCPolicyKeys
  PolicySpecs <- MCPolicySpecs
  Deployments <- MCDeployments
  Writes <- FewWrites
  WebhookDeployment <- MCWebhook
  LoopVarPerIteration = FALSE
INVARIANT TypeOK
PROPERTIES
  ExaminedAreAdhering
  WebhookCanComeBack
  EveryRequestEnds
