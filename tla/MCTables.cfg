\* Three sessions save and remove the alert of a product with up to three rows,
\* or a run pages through four alerts, two to a page.  The bounds of the
\* paging are in MCTables.
SPECIFICATION SpecParts
CONSTANTS
  Session = {s1, s2, s3}
  Target = {t1, t2}
  None = None
  Remove = Remove
  MaxId = 3
  Text = {{}, {"e102", "e200"}, {"e322", "e330", "e412", "e440"}}
  Color = {"e102"}
  Preservative = {"e200"}
  Sugar = {20, 21}
  Mineral = {1, 2}
  Visitor = {v1, v2, v3}
  Limit = 2
  Window = 2
  Capacity = 1
  MaxTime = 4
INVARIANT RowsAreSound
PROPERTY RegisterSpec
PROPERTY PagingVisitsAll
PROPERTY ScoreIsHonest
PROPERTY BudgetsHold
