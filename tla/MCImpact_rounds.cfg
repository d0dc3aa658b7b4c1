CONSTANTS
  db = db
  app = app
  proxy = proxy
  vip = vip
  i1 = i1
  i2 = i2
  i3 = i3
  h1 = h1
  h2 = h2
  Services = {db, app, proxy}
  Routes = {vip}
  Instances = {i1, i2, i3}
  Hosts = {h1, h2}
  None = None
  MaxIterations = 20
  Estates <- MCEstates
  Networks <- MCNetworks
SPECIFICATION Spec
INVARIANTS RoundsAreExact ViaExplains RoundsBounded
PROPERTY AnswerNeverImproves
