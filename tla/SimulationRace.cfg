\* Two controllers, a poster and a deletion next to the ticks.
SPECIFICATION FairSpec
CONSTANTS
  a1 = a1  p1 = p1  c1 = c1  c2 = c2  None = None
  Accounts = {a1}
  Banks <- OneTenant
  Runners = {1, 2}
  Posters = {p1}
  Controllers = {c1, c2}
  MaxCommands = 3
  MaxEntries = 3
  MaxEvents = 2
  Limit = 2
INVARIANTS OneRunner EveryEntryRecorded 
PROPERTIES StopsReturn
CHECK_DEADLOCK FALSE
