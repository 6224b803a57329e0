SPECIFICATION RebootSpec
CONSTANTS
  MinuteTicks = 3
  DayMinutes = 4
  Offsets = {0, 1}
INVARIANTS
  RebootsOnce
PROPERTY
  MinuteKept
