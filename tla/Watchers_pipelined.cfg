SPECIFICATION Spec
CONSTANTS
  Watched = {u1, u2}
  MaxCommands = 2
CHECK_DEADLOCK FALSE
INVARIANT ListReplaced
