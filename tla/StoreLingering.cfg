CONSTANTS
  Procs = {p1, p2}
  NoProc = NoProc
  Updates = {u1, u2}
  LingeringHandlers = TRUE
SPECIFICATION Spec
INVARIANTS OneWriter
