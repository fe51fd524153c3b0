SPECIFICATION Spec
CONSTANTS
  c1 = c1 c2 = c2 e1 = e1 e2 = e2 e3 = e3 k1 = k1 k2 = k2 k3 = k3
  NoMessage = NoMessage
  NoConn = NoConn
  Clients <- OneClient
  Restored <- OneClient
  Edges <- ThreeEdges
  Conns <- ThreeConns
  MaxConnections = 1
  MaxFaults = 1
  MaxRestarts = 1
SYMMETRY Symmetric
INVARIANTS ConnectionLimit  SavedStateConsistent
PROPERTY FeedsUntilRestart
CHECK_DEADLOCK FALSE
