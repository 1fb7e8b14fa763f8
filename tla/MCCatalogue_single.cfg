CONSTANTS
  a = a
  b = b
  u1 = u1
  u2 = u2
  s1 = s1
  s2 = s2
  Session = {s1}
  User = {u1, u2}
  Name = {a, b}
  StoredFiles <- OneFile
  Garbage <- AnyCode
  Outages = {FALSE, TRUE}
  MaxCode = 3
  MaxDepth = 2
SPECIFICATION Spec
INVARIANTS TypeOK NoFileParent PwdTrue
PROPERTIES RemovedIsGone RemovesOwnKind
