\* Two tasks of the main thread: one that hangs, one that goes on reporting.
SPECIFICATION SteadySpec
CONSTANTS
  MainTask = {t1, t2}
  IsrTask = {}
  Range = 8
  Timeout = 3
  MaxLag = 2
INVARIANT KickAlwaysJustified
