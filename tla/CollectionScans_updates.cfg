CONSTANTS
  c1 = c1  c2 = c2
  Collections <- OneCollection
  MaxScans = 1
  MaxPreflights = 1
  MaxChanges = 1
  MaxBreaks = 0
  MaxCommands = 1
  MaxFaults = 1
SPECIFICATION FairSpec
CHECK_DEADLOCK FALSE
PROPERTIES  ManualUpdatesEnd
