SPECIFICATION HostSpec
CONSTANTS
  a = a
  b = b
  c = c
  k = k
  l = l
  None = None
  Components = {a, b, c}
  Capabilities = {k, l}
  Configurations <- MCConfigurations
  Interfaces <- MCInterfaces
  AdviceInterface <- MCAdvice
  ConfigStore <- MCStore
  Kinds <- MCKinds
  Factories <- MCFactories
  Services <- MCServices
INVARIANT
  InterceptedHasNode
CHECK_DEADLOCK FALSE
