\* Three peers.
SPECIFICATION FairSpec
CONSTANTS
  Peers = {p1, p2, p3}
  NoPeer = NoPeer
INVARIANTS NoPipelineUnattended SimulatorClosedLast
PROPERTIES PipelineFollowsPeer InterruptEnds
\* The session ends.
CHECK_DEADLOCK FALSE
