CONSTANTS
  p1 = p1  a = a  b = b  u1 = u1  u2 = u2
  Poll = {p1}
  Venue = {a, b}
  User = {u1, u2}
  Organiser = {u1}
  Food = {a}
  Nobody = Nobody
  NoVenue = NoVenue
  MailingList = MailingList
  Subscribed <- OneOfEach
  LastTime = 2
  MaxVotes = 1
  MaxEdits = 1
  MaxDisturb = 1
SPECIFICATION FairSpec
INVARIANT PollsSound
PROPERTIES ManualWins PollsServed
CHECK_DEADLOCK FALSE
