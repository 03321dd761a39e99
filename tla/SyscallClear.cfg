CONSTANTS
  Reps = 2
  TimePairs <- TestTimePairs
  Misses = {3}
SPECIFICATION LogSpec
INVARIANTS ClearSeriesClears
