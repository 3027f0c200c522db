SPECIFICATION Spec
CONSTANTS
  Jobs = {j1, j2}
  WorkerIds = {w1, w2}
  Commands = {c1, c2}
  Contents = {ok, failed}
  None = None
SYMMETRY Symmetry
INVARIANTS IdentityAgrees NoSilentContradiction
PROPERTY TerminalIsFinal
