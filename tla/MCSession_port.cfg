CONSTANTS
  s1 = s1
  s2 = s2
  Session = {s1, s2}
  Nobody = Nobody
  Lost = Lost
  FdLimit = 7
SPECIFICATION SafeSpec
SYMMETRY Symmetry
INVARIANTS NewPortForPasv
