\* One process, two products, two worker runs: nobody waits for ever.
SPECIFICATION FairSpec
CONSTANTS
  Process = {p1}
  Barcode = {b1, b2}
  Visitor = {v1}
  Worker = {w1, w2}
  Op = {i1, i2}
  NoOp = NoOp
  NoSite = NoSite
  LockPool = 2
  DataPool = 1
PROPERTY EveryCallAnswered
