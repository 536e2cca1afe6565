SPECIFICATION Spec
CONSTANTS
  Procs = {a, b, c}
  Inodes = {i1, i2, i3}
  None = None
SYMMETRY Symmetry
CHECK_DEADLOCK FALSE
INVARIANTS TypeOK OneDaemonUnlessSignalled NoSignalInv NothingLeft
