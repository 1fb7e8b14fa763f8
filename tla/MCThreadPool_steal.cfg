CONSTANTS
  c1 = c1
  c2 = c2
  w1 = w1
  w2 = w2
  Conn = {c1, c2}
  Worker = {w1, w2}
  NoConn = NoConn
  Main = Main
  Nobody = Nobody
  QueueCapacity = 3
  SpuriousWakeups = FALSE
SPECIFICATION SafeSpec
SYMMETRY Symmetry
INVARIANTS AwakeMeansTask
