SPECIFICATION FairSpec
CONSTANTS
  w1 = w1
  Workers = {w1}
  HeartbeatSec = 1
  VisibilitySec = 4
  GraceSec = 4
  Latency = 1
INVARIANTS
  PunctualIsAlive
  DrainsInPeace
PROPERTIES
  Revived
  KillWorks
  ImplementsPresence
