\* One thread on a terminal of two rows and columns.
SPECIFICATION Spec
CONSTANTS
  Threads = {t1}
  Drawers = {t1}
  Rows = 2
  Cols = 2
  Texts = {blank, a}
  Blank = blank
  Margin = margin
  Black = black
  Other = other
PROPERTIES TerminalSpec SyncShows
CONSTRAINT FewPainted
CHECK_DEADLOCK FALSE
