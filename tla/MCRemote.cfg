SPECIFICATION LiveSpec
CONSTANTS
  Parts = {"jobs", "tunnels", "opens", "sftp", "closing", "pages", "hops", "ssh"}
  TransferIDs = {t1}
  MaxJobs = 3
  MaxProgress = 1
  TunnelIDs = {u1}
  Modes = {"local", "remote", "dynamic"}
  Conns = {c1, c2}
  MaxTunnels = 2
  SftpSessions = {s1, s2}
  SftpCallers = {b1, b2}
  MaxSftpClients = 3
  Paths = {p1, p2, p3}
  Walkers = {w1, w2}
  Sizes = {2, 3}
  PageSize = 2
  CacheCap = 2
  MaxChanges = 1
  MaxHops = 2
INVARIANTS
  TypeOK OneRunPerID FinalEventOnce StopIsQuiet OpenedIsReachable NoClientBehindTheMap
  CacheIsLRU WalkCovers FailedBuildReleases FailureLeavesNothing
PROPERTIES ShutdownStopsOpening EveryJobReported StopsEnd HopKeepEnds SshKeepEnds
CHECK_DEADLOCK FALSE
