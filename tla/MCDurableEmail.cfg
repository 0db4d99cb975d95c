CONSTANTS
  r1 = r1  r2 = r2  op1 = op1  op2 = op2  op3 = op3  f1 = f1  f2 = f2
  Recipient = {r1, r2}
  Op = {op1, op2, op3}
  Content <- OneConflict
  FanoutID = {f1, f2}
  Workers = 1
  Settles = TRUE
  Event = {"Sent"}
  MaxSends = 3
  MaxDisturb = 2
SPECIFICATION FairSpec
INVARIANTS TypeOK NoDuplicate AcceptedIsReal WaitingIsVerified
PROPERTIES SuppressedStaysSilent EvidenceKept RecipientsSettle
