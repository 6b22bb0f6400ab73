\* The interval and the margin of the source.
CONSTANTS
  Interval = 10
  Margin = 10
  Width = 65536
  LOGFILEMAX = 2
  LOGFILEREC = 1
  Byte = 256
  MaxLogs = 6
SPECIFICATION Spec
INVARIANT
  NotSentAgain
