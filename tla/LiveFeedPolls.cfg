\* Two polls at a time; more events than the deque holds, restarts and lost polls.
SPECIFICATION FairSpec
CONSTANTS
  MaxEvents = 3  Limit = 3
  MaxOutstanding = 2
  MaxRecorded = 5
  MaxRestarts = 2
  MaxLost = 2
INVARIANTS NothingSkipped
PROPERTIES ShownOnceInOrder PageCatchesUp
