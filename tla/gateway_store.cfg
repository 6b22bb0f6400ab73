\* Two log files of two records; the counter is saved at every other frame, and
\* it wraps at an odd one.
CONSTANTS
  Interval = 2
  Margin = 2
  Width = 5
  LOGFILEMAX = 2
  LOGFILEREC = 1
  Byte = 4
  MaxLogs = 6
SPECIFICATION Spec
INVARIANTS
  RecentLogsKept
PROPERTIES
  RestartsGoOn
