SPECIFICATION Spec
CONSTANTS
  MaxRestarts = 2
  RestartWindow = 2
  Backoff = "EXPONENTIAL"
  BackoffBase = 4
  BackoffMax = 9
  MaxStepBack = 1
  MaxTime = 5
  MaxCrashes = 5
INVARIANTS RulingExact
PROPERTIES BackoffGrows ImplementsBudget
