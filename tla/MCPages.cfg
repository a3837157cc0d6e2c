\* A guest and two accounts use one tab.  Bounds of the queue and the syncs are in MCPages.
SPECIFICATION SpecParts
CONSTANTS
  Account = {a1, a2}
  Guest = Guest
  MaxChanges = 2
  MaxScans = 2
  Barcode = {b1, b2}
  None = None
  Loading = Loading
  Closed = Closed
  Alert = {id1, id2}
  MaxLoads = 2
  MaxRemovals = 2
  MaxVisits = 2
  MaxTries = 2
  MaxChecks = 2
  MaxStarts = 2
  MaxAge = 1
  MaxTime = 2
  MaxLookups = 3
PROPERTY HistoryIsOwn
PROPERTY ListsAreTrue
PROPERTY CameraIsKnown
PROPERTY PanelIsTrue
PROPERTY PagesSettle
