CONSTANTS
  u1 = u1
  u2 = u2
  old1 = old1
  old2 = old2
  old3 = old3
  Uploads = {u1, u2}
  MaxRuns = 2
  MaxCode = 5
  IdOrder <- MCIdOrder
  LegacyFiles <- MCLegacyFiles
  Connections <- MCConnections
  Start = 3
  MaxStops = 2
SPECIFICATION MarketSpec
INVARIANTS MarketTypeOK CodesIdentifyRuns BenchmarkIsTraceable
CHECK_DEADLOCK FALSE
