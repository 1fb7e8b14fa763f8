CONSTANTS
  c1 = c1
  c2 = c2
  c3 = c3
  c4 = c4
  w1 = w1
  w2 = w2
  w3 = w3
  Conn = {c1, c2, c3, c4}
  Worker = {w1, w2, w3}
  NoConn = NoConn
  Main = Main
  Nobody = Nobody
  QueueCapacity = 3
  SpuriousWakeups = TRUE
SPECIFICATION SafeSpec
SYMMETRY Symmetry
INVARIANTS TypeOK ControlInv OnePlace NoLostWakeup CheckedStaysNonEmpty
