SPECIFICATION FairSpec
CONSTANTS
  Mode = {"dry", "real"}
  MaxOutside = 0
  MaxDisturb = 2
PROPERTIES PromotionHappens
CHECK_DEADLOCK FALSE
