CONSTANTS
  u = u  e = e  v = v  q = q  test = test
  Doc = {u, e, v, q, test}
  PushTest = {test}
  StreamOf <- OneEach
  Groups <- ByProcess
  Content = {"on", "off"}
  Inactive = "off"
  MaxChanges = 2
  MaxDisturb = 2
SPECIFICATION FairSpec
INVARIANTS TypeOK ServesFresh CaughtUp
PROPERTY ListenerConverges
CHECK_DEADLOCK FALSE
