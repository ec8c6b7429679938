SPECIFICATION FairSpec
CONSTANTS
  Requests = {r1, r2}
  Streams = {r2}
  NoTask = none
  MaxDeaths = 2
INVARIANTS
  OneFetch
PROPERTIES
  EveryoneAnswered
  OwnFlightNeverBlocksRefresh
  RefinesCoalesce
