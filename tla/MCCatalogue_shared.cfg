CONSTANTS
  a = a
  b = b
  u1 = u1
  u2 = u2
  s1 = s1
  s2 = s2
  Session = {s1, s2}
  User = {u1}
  Name = {a}
  StoredFiles <- OneFile
  Garbage <- AnyCode
  Outages = {FALSE}
  MaxCode = 3
  MaxDepth = 1
SPECIFICATION Spec
SYMMETRY Symmetry
INVARIANTS ParentsFirst PwdTrue
PROPERTIES DeletedIsGone
