\* The allocator scaled from 16 to 6 bits, its base at three quarters of them;
\* enough sessions for the counter to wrap twice.
SPECIFICATION Spec
CONSTANTS
  Space = 64
  base_port_ = 48
  Count = 2
  Mine = 1
  Limit = 2
  MaxOpened = 80
INVARIANTS
  PortsInRange
  PortsKeptApart
