\* As ConfigAll: what the documentation says of variables the operator set.
SPECIFICATION Spec
CONSTANTS
  Custom = Custom
  Absent = Absent
  Blank = Blank
  None = None
  Torn = Torn
  NotSaved = NotSaved
  Secrets = {}
  Overrides = {"real", ""}
  Launches = {TRUE, FALSE}
  Editable = {"prompt", "backend"}
  MaxRelease = 2
INVARIANT OperatorWins
