CONSTANTS
  v1 = v1  v2 = v2  often = often  once = once  fortnightly = fortnightly
  Venue = {v1}
  Rule = {often, once}
  Occurrence <- MCOccurrence
  FirstDay = 740404
  LastDay = 740405
  MaxEdits = 2
  MaxDisturb = 1
  SampleRule <- SampleRules
  SampleDay <- SampleDays
SPECIFICATION FairSpec
INVARIANTS EventsSound NextIsFirst
PROPERTY EventsServed
CHECK_DEADLOCK FALSE
