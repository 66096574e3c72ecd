SPECIFICATION AskSpec
CONSTANTS
  InHandler = {"a"}
  Beside = {"b"}
  Forever = {}
  Configs <- MCConfigs
  Capacity = 1
  MaxAnswers = 2
  MaxFaults = 1
 
PROPERTIES  NeverDeaf
CHECK_DEADLOCK FALSE
