\* One account, with two requests for links and two uses of a link under way.
\* One visitor asks for prices; two products share a cache of one entry.
SPECIFICATION SpecParts
CONSTANTS
  User = {u1}
  Request = {r1, r2}
  Confirmation = {c1, c2}
  Registration = {g1}
  Session = {s1}
  Call = {k1}
  None = None
  Visitor = {visitor}
  MaxAge = 1
  Barcode = {b1, b2}
  MaxEntries = 1
  SourceTTL = 1
  MissTTL = 1
  FailureTTL = 1
  MaxTime = 1
SYMMETRY Symmetry
INVARIANT LinksAreSound
INVARIANT FactsAreTrue
PROPERTY SessionsAreSound
PROPERTY PricesAreTrue
