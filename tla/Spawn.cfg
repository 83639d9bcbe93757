\* A command, its descendant and the deadline in every order.
CONSTANTS
  Timeouts = {1, 2, 3, 5}
  Second = 2
  Half = 4
  Horizon = 4
SPECIFICATION FairSpec
INVARIANTS NeverEarly NothingLeftRunning
PROPERTIES LoneCommandEnds
CHECK_DEADLOCK FALSE
