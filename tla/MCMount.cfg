SPECIFICATION Spec
CONSTANTS
  p1 = p1
  p2 = p2
  Procs = {p1, p2}
  Devs = {"dk", "fl"}
  x1 = x1
  x2 = x2
  x3 = x3
  Pids = {x1, x2, x3}
  NMOUNT = 2

INVARIANTS
  TypeOK
  
PROPERTIES
  KillsOwn
SYMMETRY Perms
CONSTRAINT Explored
