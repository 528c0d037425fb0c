SPECIFICATION FairSpec
CONSTANTS
  w1 = w1
  h1 = h1
  t1 = t1
  t2 = t2
  Waiters = {w1}
  NoHolder = NoHolder
  MaxOnline = 2
  Hosts = {h1}
  NoHost = NoHost
  Threads = {t1, t2}
  ApiLists <- MCApiLists
  MaxList = 2
  MaxReported = 1
  MaxHosts = 2
  MaxFail = 1
  HealthyAfter = 1
  TickPeriod = 2
INVARIANT TypeOK
INVARIANT CountersExact
INVARIANT OneThreadPerHost
INVARIANT HostsExact
PROPERTY CloseTerminates
PROPERTY RefillHappens
PROPERTY ShortConnectionsGiveUp
PROPERTY OnlineSpec
