SPECIFICATION ClientSpec
CONSTANTS
  MaxRuns = 2
  MaxTexts = 2
  MaxSteers = 2
  MaxGiveUps = 1
  MaxWire = 3
CHECK_DEADLOCK FALSE
INVARIANTS EachTextOnce ShowsTheEnd
