CONSTANTS
  c1 = c1
  c2 = c2
  c3 = c3
  w1 = w1
  w2 = w2
  Conn = {c1, c2, c3}
  Worker = {w1, w2}
  NoConn = NoConn
  Main = Main
  Nobody = Nobody
  QueueCapacity = 3
  SpuriousWakeups = TRUE
SPECIFICATION Spec
INVARIANTS SmallBurstFits
PROPERTIES EveryConnectionServed DispatchSpec
