CONSTANTS
  Waiters = {w1, w2, w3}
  Local = {w1}
  Cancellers = {c1, c2}
SPECIFICATION QuietSpec
PROPERTY CancelWakes
