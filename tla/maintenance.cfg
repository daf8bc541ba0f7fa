SPECIFICATION FairSpec
CONSTANTS
  Nodes <- TheNodes
  Listings <- TheListings
  MaxFaults = 1
INVARIANTS
  MaintInv
  TypeOK
  Layered
  NoMixedData
  NoneOnOldCerts
  HelpersWorkAlone
  RestoreStartsVerified
PROPERTIES
  Success
  RepairRecovers
