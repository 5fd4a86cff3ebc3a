SPECIFICATION FairSpec
CONSTANTS
  Conns = {c1, c2, c3, c4}
  NoConn = NoConn
  MaxRestarts = 1
INVARIANTS
  InStep
PROPERTIES
  AlarmIsTrue
  AwayIsAnnounced
  BackIsAnnounced
