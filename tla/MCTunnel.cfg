SPECIFICATION FairSpec
CONSTANTS
  c1 = c1
  c2 = c2
  own = own
  Callers <- MCCallers
  Given <- MCGiven
  Proxies <- MCProxies
  NoCerts = NoCerts
  NoObject = NoObject
  MaxCalls = 2
  MaxPolls = 2
  MaxFaults = 1
  MaxCleanUps = 2
CHECK_DEADLOCK FALSE
INVARIANTS
  TypeOK
  OneCallPerNamespace
  DeploymentsCanStart
  SuccessIsTunnel
PROPERTY
  CallReturns
