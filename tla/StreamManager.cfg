SPECIFICATION Spec
CONSTANTS
  Publishers = {p1, p2}
  Low = low
  Priorities = {low, critical}
  MaxLength = 2
  CriticalAt = 2
  DropMost = 2
  DropSlack = 2
  DropBatch = 2
  ReadMost = 2
  MaxEvents = 4
  MaxFailures = 1
CHECK_DEADLOCK FALSE
INVARIANTS OrphansAreFailures HandedIsSeenOrOpen
PROPERTIES MailboxSpec DropEnds
