SPECIFICATION ThreadSpec
CONSTANTS
  CoreIds <- MCCoreIds
  CPU_SETSIZE = 4
INVARIANTS
  FlagsTellProgress
  FlagsOutliveTheirUse
  OutcomeIsSetup
PROPERTY
  CallerGetsOutcome
CHECK_DEADLOCK FALSE
