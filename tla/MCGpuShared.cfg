\* Two threads on the terminal of two cells.
SPECIFICATION Spec
CONSTANTS
  Threads = {t1, t2}
  Drawers = {t1, t2}
  Rows = 2
  Cols = 1
  Texts = {blank, a}
  Blank = blank
  Margin = margin
  Black = black
  Other = other
INVARIANT Coherent
CHECK_DEADLOCK FALSE
SYMMETRY ThreadSymmetry
