CONSTANTS
  r1 = r1  r2 = r2  op1 = op1  op2 = op2  op3 = op3  f1 = f1  f2 = f2
  Recipient = {r1}
  Op = {op1, op2}
  Content <- SameContent
  FanoutID = {f1, f2}
  Workers = 2
  Settles = FALSE
  Event <- EveryEvent
  MaxSends = 2
  MaxDisturb = 2
SPECIFICATION Spec
SYMMETRY Interchangeable
PROPERTY EvidenceKept
