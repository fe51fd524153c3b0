SPECIFICATION Spec
CONSTANTS
  c1 = c1 c2 = c2 e1 = e1 e2 = e2 e3 = e3 k1 = k1 k2 = k2 k3 = k3
  NoMessage = NoMessage
  NoConn = NoConn
  Clients <- TwoClients
  Restored <- TwoClients
  Edges <- TwoEdges
  Conns <- TwoConns
  MaxConnections = 2
  MaxFaults = 0
  MaxRestarts = 1
INVARIANT NoSampleMissed
CHECK_DEADLOCK FALSE
