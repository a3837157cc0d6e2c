\* Two workers overlap on one alert: the safety of the claim row.
SPECIFICATION Spec
CONSTANTS
  Key = {1}
  Worker = {w1, w2}
  Token = {t1, t2, t3}
  NoToken = NoToken
  Price = {1, 2}
  Target = {3}
  Cooldown = 1
  RunTicks = 1
  PageSize = 2
SYMMETRY Symmetry
INVARIANT TypeOK
INVARIANT DeliveryOwnsClaim
INVARIANT NoDoubleDelivery
INVARIANT SentMeansMailed
PROPERTY ClaimsAreCurrent
PROPERTY OneMailPerClaim
PROPERTY NoticeSpec
CHECK_DEADLOCK TRUE
