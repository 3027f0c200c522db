SPECIFICATION AsyncSpec
CONSTANTS
  Jobs = {j1, j2}
  WorkerIds = {w1, w2}
  Commands = {c1}
  Contents = {ok, failed}
  None = None
  End = End
  Err = Err
  BadReply = BadReply
INVARIANTS NoFalseConflict CallIsHonest
PROPERTIES CallReturns KeepsPromise
CHECK_DEADLOCK FALSE
