SPECIFICATION ClientsSpec
CONSTANTS
  hello = hello
  bye = bye
  default = default
  key = key
  None = None
  Inputs <- MCInputs
  DefaultInput = default
  SlyKeys <- MCSlyKeys
  MaxInput = 3
  MaxProgress = 1
  Samples = {1, 2, 3}
  TestCases <- MCTestCases
  NoValue = NoValue
INVARIANT ConversationGoesOn
INVARIANT VerdictIsTheRatio
PROPERTY ClientsLeave
CHECK_DEADLOCK FALSE
