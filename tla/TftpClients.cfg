CONSTANTS
  Sessions = {s1, s2}
  Sizes = {0, 2, 3, 5}
  Wrap = 4
  Transfers = 2
  Networks = {{}, {"lose"}, {"lose", "repeat"}}
SPECIFICATION Spec
INVARIANTS TypeOK ServerClosed ReportedWhole
PROPERTIES Copies Ends BackToMenu
CHECK_DEADLOCK FALSE
