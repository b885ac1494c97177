\* One request at a time next to the writers: every view of every protocol.
SPECIFICATION Spec
CONSTANTS
  b1 = b1  b2 = b2  c1 = c1  c2 = c2  c3 = c3  None = None
  Accounts = {1, 2, 3, 4, 8}
  Row <- Rows
  Home <- Homes
  Seed <- AtFirst
  Batch <- NewBatch
  External = {8}
  Sent = {50, 170, 370}
  FloatExact = 300
  Spacings = {1, 256}
  Precision = 1
  Times = {1, 2}
  DayLength = 2
  Windows <- SomeRanges
  Closing = {b1}
  MaxEntries = 2
  MaxReads = 1
INVARIANTS WhatWasSentIsShown StatementsAddUp ReadersSeeWholeBatches
PROPERTIES AnswersAreOfAMoment
