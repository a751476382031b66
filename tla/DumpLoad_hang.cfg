\* A dump whose two workers both raise: queue.join() never returns.
CONSTANTS
  Workers <- MCWorkers
  OrderFiles <- MCOrderFiles
  Vaults = Vaults
  Info = Info
  Idle = Idle
  Dead = Dead
  w1 = w1
  w2 = w2
  o2 = o2
  o3 = o3
SPECIFICATION Spec
PROPERTY DumpTerminates
\* Both tools exit at the end, and a dump whose workers all raised hangs;
\* the terminal states are real stops of the processes.
CHECK_DEADLOCK FALSE
