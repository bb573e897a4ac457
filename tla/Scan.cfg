SPECIFICATION ScannersSpec
CONSTANTS
  NoAddress = NoAddress
  NoId = NoId
  NoCredentials = NoCredentials
  NoService = NoService
  Host <- MCHost
  Services <- MCServices
  Offers <- MCOffers
  Proxy <- MCProxy
  Wanted = {"tv"}
  Identifiers = {"tv"}
  Timeout = 2
INVARIANTS EverythingHeardIsReported RecordsAreRead
PROPERTY ScanEnds
CHECK_DEADLOCK FALSE
