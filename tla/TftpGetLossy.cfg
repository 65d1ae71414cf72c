CONSTANTS
  Sessions = {s1}
  Sizes = {2}
  Wrap = 8
  Networks = {{"lose", "repeat"}}
SPECIFICATION Spec
PROPERTY EndsOverLossyNet
CHECK_DEADLOCK FALSE
