\* One worker, two prices that alternate: the same price is mailed again.
SPECIFICATION SpecSpacing
CONSTANTS
  Key = {1}
  Worker = {w1}
  Token = {t1, t2}
  NoToken = NoToken
  Price = {1, 2}
  Target = {3}
  Cooldown = 1
  RunTicks = 1
  PageSize = 2
PROPERTY SamePriceSuppressed
