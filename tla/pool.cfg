CONSTANTS
  t1 = t1
  t2 = t2
  t3 = t3
  c1 = c1
  c2 = c2
  c3 = c3
  NoConn = NoConn
  Tasks <- MCTasks
  Scripts <- MCScripts
  Conns <- MCConns
  Size = 2
  Engine = "postgres"

SPECIFICATION FairSpec

INVARIANTS
  OneKeeper
  IdleIsQuiet
  NoLeftover
  CancelAimsAtOwn

PROPERTIES
  PromiseSpec
  PermitsComeBack

CHECK_DEADLOCK FALSE
