CONSTANTS
  t1 = t1  t2 = t2  t3 = t3
  NoThread = NoThread
  Threads = {t1, t2, t3}
  Amounts = {1}
  Profits <- MCProfits
  Marks = {0, 1}
  Capital = 2
  MaxBalance = 2
  MaxPnl = 1
  Admitted = {"stageOverlaps"}
SPECIFICATION Spec
SYMMETRY Symmetry
INVARIANT NoLostUpdate
