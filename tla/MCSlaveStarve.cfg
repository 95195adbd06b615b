CONSTANTS
  m1 = m1
  m2 = m2
  o1 = o1
  o2 = o2
  hm = hm
  f1 = f1
  f2 = f2
  NoThread = NoThread
  Mounts = {m1, m2}
  ValidMounts = {m1, m2}
  Origins = {o1, o2}
  MasterOrigin = o2
  StaticConfigs <- MCStaticConfigs
  MasterLists <- MCMasterLists
  MasterOnDemand = FALSE
  MasterConfigured = FALSE
  UpdateInterval = 2
  OverrideMounts = {}
  Threads = {1}
  FetchIds = {f1}
  MaxReloads = 1
  MaxTruncated = 1
  AllowShutdown = FALSE
  MaxMasterChanges = 0
  Hosts = {hm}
  MasterHost = hm
  MasterAdvertised = TRUE
SPECIFICATION Spec
CHECK_DEADLOCK FALSE
PROPERTY RefreshRecurs
