\* The comment of startWatchlistRun, when the run in charge lost its lock.
SPECIFICATION Spec
CONSTANTS
  Run = {r1, r2}
  NoRun = NoRun
  Product = {b1}
  NoProduct = NoProduct
  BatchLimit = 1
  MaxDeposed = 1
PROPERTY PreviousRunIsOver
