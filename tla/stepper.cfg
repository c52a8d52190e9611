SPECIFICATION Spec
CONSTANTS
  Segments = 4
  Scale = 2
  Smoothing = {1, 2}
  x = x
  y = y
  Axes = {x, y}
  Blocks <- MCBlocks
INVARIANTS EventsExact PulsesMatch
PROPERTIES BlocksKept
