CONSTANTS
  Procs = {p1, p2}
  NoProc = NoProc
  Updates = {u1, u2}
  LingeringHandlers = FALSE
SPECIFICATION Spec
INVARIANTS TypeOK AckedSurvives AckedVisible OneWriter
PROPERTIES PromiseSpec
