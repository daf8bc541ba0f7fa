SPECIFICATION Spec
CONSTANTS
  Nodes <- TwoServers
  Image = {v1, v2}
  Asked = {v2}
  DefaultImage = v1
  Unset = unset
  FirstImage = unset
  MaxFaults = 1
INVARIANTS
  TypeOK
  OneDownAtATime
  TokensInPlay
  UndisturbedRollsSucceed
PROPERTIES
  NoStaleCert
  SuccessConverges
  ImplementsPins
