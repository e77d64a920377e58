\* Two commands typed at any moment.
SPECIFICATION FairSpec
CONSTANTS
  Commands = {c1, c2}
  Assistant = Assistant
  NoText = NoText
INVARIANTS TypeOK NoHistoryAtRest SpacedCommandHeard OrdersInSequence DispatchedWasExecuted
PROPERTY CommandAnswered
\* Every command is typed once, and then nothing is left to do.
CHECK_DEADLOCK FALSE
