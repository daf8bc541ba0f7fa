SPECIFICATION Spec
CONSTANTS
  Nodes <- TwoServers
  Image = {v1, v2}
  Asked = {v2}
  DefaultImage = v1
  Unset = unset
  FirstImage = v1
  MaxFaults = 1
INVARIANTS
  RetryFindsContainer
