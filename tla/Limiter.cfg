\* Three addresses for a table of two; a bucket that holds one handshake and a half
\* and refills by half a handshake per unit of time.
CONSTANTS
  Addrs = {a1, a2, a3}
  Unit = 2
  Rate = 1
  Burst = 3
  MaxEntries = 2
  Age = 2
  MaxTime = 5
SPECIFICATION Spec
INVARIANTS
  TablesAgree
  RateBound
  PacedIsAdmitted
