SPECIFICATION VerifierSpec
CONSTANTS
  i1 = i1
  i2 = i2
  i3 = i3
  t1 = t1
  t2 = t2
  Ips = {i1, i2, i3}
  Threads = {t1, t2}
  NoJob = NoJob
  Hosts <- MCHosts
  FcrdnsSuffixes <- MCSuffixes
  Capacity = 2
  QueueSize = 1
  Ttl = 2
  MaxTime = 3
  MaxLookups = 3
  Families <- MCFamilies
  Width <- MCWidth
  MaxEntries = 2
  FeedDocs <- MCFeedDocs
  Documents <- MCDocuments
  Names = {"a", "b"}
  Clients <- MCClients
  Configs <- MCConfigs
  DefaultRefresh = 1
  DefaultStale = 2
  MaxUrls = 2
  MaxPeriod = 3
  Jitter = 1
  MaxInstant = 3
CHECK_DEADLOCK FALSE
INVARIANTS
  NoOrphanEntry
  ResolvedOnce
  ConfirmedRecently
  Exact
  ReportIsTrue
  RegistryOfCycle
PROPERTIES
  LiveVerdictsKept
  LateReplyIgnored
  EveryLookupEnds
