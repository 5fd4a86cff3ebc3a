SPECIFICATION Spec
CONSTANTS
  Conns = {c1, c2}
  NoConn = NoConn
  MaxRestarts = 0
PROPERTIES
  OnlineOnlyIfStable
