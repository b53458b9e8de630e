CONSTANTS
  Parts = {"kicks", "requests", "waiting", "acknowledgement", "destroy", "material"}
  c1 = c1
  c2 = c2
  w1 = w1
  w2 = w2
  d1 = d1
  k1 = k1
  m1 = m1
  m2 = m2
  NoKey = NoKey
  NoManifest = NoManifest
  Nobody = Nobody
  UserKey = UserKey
  OperationKey = OperationKey
  Operators = {alice, bob}
  Reasons = {gone, lost}
  Callers = {c1, c2}
  MaxDeaths = 1
  MaxAnswers = 3
  None = None
SPECIFICATION FairSpec
INVARIANT RecordIsTheirs
PROPERTIES KicksSuffice CallersAnswered DeletionsEnd MaterialExpires
