\* One engine order, cancelled at will, and one operator.
SPECIFICATION FairSpec
CONSTANTS
  RudderOrders = {}
  EngineOrders = {e1}
  Readers = {}
  Operators = {o1}
  Sessions = {s1, s2}
  Supervisor = Supervisor
  Nobody = Nobody
  NoSession = NoSession
  DeliveryFrames = 2
  WaitForSwallows = FALSE
INVARIANT CancellationContained
PROPERTIES OrdersAnswered DisconnectReturns SilenceNoticed LinkRecovers
CHECK_DEADLOCK TRUE
