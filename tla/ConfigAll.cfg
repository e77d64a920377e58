\* Two values of a variable, empty or not, launched from the checkout or elsewhere, one upgrade.
SPECIFICATION Spec
CONSTANTS
  Custom = Custom
  Absent = Absent
  Blank = Blank
  None = None
  Torn = Torn
  NotSaved = NotSaved
  Secrets = {}
  Overrides = {"real", ""}
  Launches = {TRUE, FALSE}
  Editable = {"prompt", "backend"}
  MaxRelease = 2
INVARIANTS ReloadRereadsDotenv OperatorVarsKept DefaultNeverFrozen
 
