\* An order whose confirmation raises stays staged.
SPECIFICATION Spec
CONSTANTS
  RudderOrders = {r1}
  EngineOrders = {}
  Readers = {}
  Operators = {o1}
  Sessions = {s1, s2}
  Supervisor = Supervisor
  Nobody = Nobody
  NoSession = NoSession
  DeliveryFrames = 2
  WaitForSwallows = TRUE
PROPERTY FailedOrderNeverFires
