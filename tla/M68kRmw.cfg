SPECIFICATION RmwSpec
CONSTANTS
  MaxFills = 3
  Size = 2
  None = None
INVARIANT AllUnbusied
