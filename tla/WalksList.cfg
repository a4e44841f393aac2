CONSTANTS
  Wrap = 5
  Rates = {1}
  Alarm = {a, b}
  ListHead = ListHead
  MaxInterval = 3
SPECIFICATION FreeSpec
INVARIANT WalksList
