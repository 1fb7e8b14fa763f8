CONSTANTS
  s1 = s1
  s2 = s2
  Session = {s1, s2}
  Nobody = Nobody
  Lost = Lost
  FdLimit = 4
SPECIFICATION Spec
INVARIANTS TypeOK OwnDescriptors NoConnectionLeaks
PROPERTIES PortSpec WorkerFreed
