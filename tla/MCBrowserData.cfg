\* A guest and two accounts use one tab, or a guest and one account two.
SPECIFICATION SpecParts
CONSTANTS
  Tab = {t1, t2}
  Barcode = {b1}
  Account = {a1, a2}
  Guest = Guest
  Loading = Loading
  Closed = Closed
  None = None
  MaxAt = 2
  Concurrency = 2
  MaxRev = 3
  MaxPosts = 2
  Hint = {"h1", "h2"}
  MaxSent = 3
  Field = {"sugar", "text"}
  Value = {"v1", "v2"}
  Blank = "blank"
  NoAmount = "no amount"
  Request = {q1, q2}
  Carried = {c1, c2}
  Dropped = {d1}
  MaxResponses = 4
SYMMETRY Symmetry
INVARIANT GuestDataIsKept
INVARIANT ScansBelong
INVARIANT SaidIsTrue
PROPERTY OfflineIsKept
