\* Puts and faults are bounded, so a behaviour of the model ends.
CONSTANTS
  Writers = {w1}
  NodeKeys = {orphans}
  MaxPuts = 2
  MaxFaults = 2
SPECIFICATION FairSpec
INVARIANTS
  NoLostWakeup
  NewestReportKept
PROPERTY
  ReportsSent
CHECK_DEADLOCK FALSE
