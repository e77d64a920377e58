\* Two rudder orders and a reader race the supervisor and two operator calls.
SPECIFICATION Spec
CONSTANTS
  RudderOrders = {r1, r2}
  EngineOrders = {}
  Readers = {g1}
  Operators = {o1, o2}
  Sessions = {s1, s2}
  Supervisor = Supervisor
  Nobody = Nobody
  NoSession = NoSession
  DeliveryFrames = 2
  WaitForSwallows = TRUE
SYMMETRY Symmetry
INVARIANTS TypeOK NoOrphanSession ConnectedIsLive DisconnectedIsQuiet
PROPERTIES ImplementsHelm NoGhostOrder AckOnLiveSession
CHECK_DEADLOCK TRUE
