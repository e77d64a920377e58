\* Two commands typed in quick succession.
SPECIFICATION Spec
CONSTANTS
  Commands = {c1, c2}
  Assistant = Assistant
  NoText = NoText
INVARIANT EachCommandHeard
CHECK_DEADLOCK FALSE
