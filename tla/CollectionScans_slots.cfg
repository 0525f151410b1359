CONSTANTS
  c1 = c1  c2 = c2
  Collections <- TwoCollections
  MaxScans = 1
  MaxPreflights = 1
  MaxChanges = 1
  MaxBreaks = 1
  MaxCommands = 0
  MaxFaults = 1
SPECIFICATION Spec
CHECK_DEADLOCK FALSE
INVARIANTS SchedulersAreSound SlotsAreReturned
SYMMETRY Interchangeable
