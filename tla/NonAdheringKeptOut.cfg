SPECIFICATION FairSpec
CONSTANTS
  Requests = {r1}
  PolicyKeys <- MCPolicyKeys
  PolicySpecs <- MCPolicySpecs
  Deployments <- MCDeployments
  Writes <- AllWrites
  WebhookDeployment <- MCWebhook
  LoopVarPerIteration = FALSE
PROPERTY NonAdheringKeptOut
