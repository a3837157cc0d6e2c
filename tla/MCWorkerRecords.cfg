\* Three runs, one of which at a time may lose its lock, and one product.
SPECIFICATION Spec
CONSTANTS
  Run = {r1, r2, r3}
  NoRun = NoRun
  Product = {b1}
  NoProduct = NoProduct
  BatchLimit = 1
  MaxDeposed = 1
SYMMETRY Symmetry
VIEW StatesOnly
INVARIANT OneRunningRow
