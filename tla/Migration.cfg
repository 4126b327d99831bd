\* Two clients and three addresses, in any order.
CONSTANTS
  k1 = k1
  k2 = k2
  a1 = a1
  a2 = a2
  a3 = a3
  None = None
  Tokens = {k1, k2}
  Addresses = {a1, a2, a3}
  MaxPackets = 2
  MaxMoves = 2
SPECIFICATION Spec
INVARIANTS
  TablesAgree
  
CHECK_DEADLOCK FALSE
