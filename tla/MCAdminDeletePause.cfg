SPECIFICATION FairSpec
CONSTANTS
  Mode = {"real"}
  MaxOutside = 2
  MaxDisturb = 0
PROPERTIES PendingSettles
CHECK_DEADLOCK FALSE
