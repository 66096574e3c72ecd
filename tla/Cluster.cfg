SPECIFICATION ClusterSpec
CONSTANTS
  Names <- MCNames
  Announcements <- MCAnnouncements
  AgentOrder <- MCAgents
  Child = "c"
  RestartTopic = "restart"
  Channels <- MCChannels
  Configs <- MCConfigs
  Threshold = 2
  MaxRestarts = 2
  WorkerMax = 2
  MaxSpawns = 2
  MaxEvents = 1
  MaxInbox = 2
INVARIANTS Converged RouteExact
PROPERTIES RemoteCrashAnswered 
CHECK_DEADLOCK FALSE
