CONSTANTS
  v1 = v1  v2 = v2  often = often  once = once  fortnightly = fortnightly
  Venue = {v1}
  Rule = {fortnightly}
  Occurrence <- FortnightOccurrence
  FirstDay = 740384
  LastDay = 740398
  MaxEdits = 0
  MaxDisturb = 0
  SampleRule = {}
  SampleDay = {}
SPECIFICATION Spec
INVARIANT AdvanceConverges
CHECK_DEADLOCK FALSE
