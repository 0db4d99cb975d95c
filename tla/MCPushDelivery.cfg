CONSTANTS
  u1 = u1  u2 = u2  e1 = e1  e2 = e2
  User = {u1, u2}
  Endpoint = {e1, e2}
  UserOf <- OneEach
  Actor = u1
  ServedBefore = {{}, {e2}}
  Configs <- ThreeConfigs
  TTL = 2
  Midnight = 1
  Maximum = 1
  MaxChanges = 1
  MaxDisturb = 2
SPECIFICATION FairSpec
INVARIANT Sound
PROPERTIES SilencedStaysSilent NotificationEnds
CHECK_DEADLOCK FALSE
