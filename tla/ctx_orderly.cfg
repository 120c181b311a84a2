SPECIFICATION FairSpec
CONSTANTS
  w1 = w1  w2 = w2
  c1 = c1  c2 = c2  c3 = c3
  r1 = r1  r2 = r2
  Workers <- TwoWorkers
  Ctxs <- TwoCtxs
  Reqs <- MCReqs
  NoReq = NoReq
  Unborn = Unborn
  NoCtx = NoCtx
  NoToken = NoToken
  MaxDepth = 2
  MaxStreams = 1
  MaxPushes = 2
  NestedPushFails = FALSE
  Undisciplined = FALSE
INVARIANTS TeardownEvenOnError
PROPERTY PushedIsPopped
CHECK_DEADLOCK FALSE
