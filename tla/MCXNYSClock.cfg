SPECIFICATION Spec
CONSTANTS
  None = None
  FirstSlot <- MCFirstSlot
  LastSlot <- MCLastSlot
INVARIANTS
  TablesAgreeWithTheRules
PROPERTIES
  DaysFollowEachOther
  SessionsKeepLocalHours
