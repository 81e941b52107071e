SPECIFICATION Spec
CONSTANTS
  MaxJwt = 2
  MaxTries = 2
  Endpoints = {e1, e2}
  NoEndpoint = NoEndpoint
  ApiEndpoint = ApiEndpoint
  MaxInbox = 1
  MaxRestarts = 1
SYMMETRY Symmetry
INVARIANTS
  TypeOK
  MachineFollowsTunnel
  RefusedOnlyWithoutTunnel
  ReadyzHonest
  LastJwtWins
  EndpointFollowsRotation
PROPERTIES
  RevokedIsFinal
  RevocationNotTakenBack
