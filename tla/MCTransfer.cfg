CONSTANTS
  x = x
  y = y
  d1 = d1
  d2 = d2
  f = f
  g = g
  Dir = {d1, d2}
  Name = {f, g}
  Byte = {x, y}
  LocalFile <- Uploads
  StoredFile <- OneStored
  BufSize = 2
  StreamCap = 2
  StaleSize <- AnySize
  MaxTransfers = 2
SPECIFICATION Spec
INVARIANTS TypeOK DiskHoldsSize StoredAsSent DownloadTrue SpinExplained
PROPERTIES ServerFreed
\* Two programs that wait for each other, or a client that no one uses, stop.
CHECK_DEADLOCK FALSE
