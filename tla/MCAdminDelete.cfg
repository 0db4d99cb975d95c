SPECIFICATION FairSpec
CONSTANTS
  Mode = {"dry", "blocked", "real"}
  MaxOutside = 1
  MaxDisturb = 1
INVARIANTS TypeOK AuthDeletedIsReal PendingIsServed
PROPERTIES TerminalIsFinal PendingSettles
CHECK_DEADLOCK FALSE
