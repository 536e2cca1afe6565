SPECIFICATION Spec
CONSTANTS
  Procs = {a, b, c}
  Inodes = {i1, i2}
  None = None
SYMMETRY Symmetry
CHECK_DEADLOCK FALSE
INVARIANT OneDaemon
