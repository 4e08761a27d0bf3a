\* Start-up with two accesses of main; a timer whose registers have 4 bits and whose
\* minutes, hours and days are 2, 3 and 2 long; every picture up to one beyond a screen
\* of 3 by 2.
CONSTANTS
  NULL = NULL
  MaxCalls = 2
  TimerModulus = 16
  MINUTE = 2
  HOUR = 3
  DAY = 2
  Years = {1970}
  Months = {0}
  Intervals = {0}
  MaxElapsed = 17
  SCREEN_WIDTH = 3
  SCREEN_HEIGHT = 2
  MaxArg = 4
  Modulus = 64
  Behind = 4
SPECIFICATION MCSpec
INVARIANTS
  StartedFirst
  BufferFits
  DrawnInside
PROPERTIES
  FailStops
  UptimeRight
  RtcKeepsTime
  DrawEnds
CHECK_DEADLOCK FALSE
