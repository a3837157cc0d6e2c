\* Two processes and three refreshes of one product: locks, joins and lost connections.
SPECIFICATION Spec
CONSTANTS
  Process = {p1, p2}
  Barcode = {b1}
  Visitor = {v1, v2}
  Worker = {w1}
  Op = {i1, i2, i3}
  NoOp = NoOp
  NoSite = NoSite
  LockPool = 2
  DataPool = 1
SYMMETRY Symmetry
INVARIANT TypeOK
INVARIANT OneRefreshPerProduct
INVARIANT WaitersShareRefresh
PROPERTY NewestCheckWins
