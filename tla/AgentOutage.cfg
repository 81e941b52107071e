SPECIFICATION FairSpec
CONSTANTS
  MaxJwt = 1
  MaxTries = 2
  Endpoints = {}
  NoEndpoint = NoEndpoint
  ApiEndpoint = ApiEndpoint
  MaxInbox = 1
  MaxRestarts = 0
PROPERTIES
  OutageReported
