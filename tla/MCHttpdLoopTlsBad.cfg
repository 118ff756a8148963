CONSTANTS
  Clients = {c1, c2}
  Servers = {s1}
  IdleLimit = 2
  Tmout = 3
  MaxTime = 6
SPECIFICATION Spec
INVARIANT
  BadAreOpen
