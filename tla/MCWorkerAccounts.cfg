\* One run after the other, with two of three products in a batch.
SPECIFICATION Spec
CONSTANTS
  Run = {r1, r2}
  NoRun = NoRun
  Product = {b1, b2, b3}
  NoProduct = NoProduct
  BatchLimit = 2
  MaxDeposed = 0
SYMMETRY Symmetry
INVARIANT CompleteMeansChecked
INVARIANT TypeOK
