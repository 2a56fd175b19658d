CONSTANTS
  Accounts = {u1, u2}
  Emails = {e1, e2}
  Subjects = {i1}
  Sessions = {s1, s2}
  Requests = {r1, r2}
  None = None
  OidcEnabled = TRUE
  AutoProvision = TRUE
  GroupMapping = TRUE
  Vehicles = {v1}
  MaxBoards = 2
  Contents = {c1, c2}
  Tokens = {t1, t2}
  Devices = {d1, d2}
  Operators = {o1}
  Hosts = {r1, r2}
  MaxVersion = 2
  Times = {1, 2}
  MaxPoints = 2
  Limit = 2
  MaxReadings = 3
  MaxSamples = 2
  MaxHooks = 1
  MaxRuns = 2
  Sources = {e1, e2}
  MaxRevision = 3
  u1 = u1
  u2 = u2
  e1 = e1
  e2 = e2
  i1 = i1
  s1 = s1
  s2 = s2
  r1 = r1
  r2 = r2
  v1 = v1
  c1 = c1
  c2 = c2
  t1 = t1
  t2 = t2
  d1 = d1
  d2 = d2
  o1 = o1
SYMMETRY Symmetry
SPECIFICATION ConsoleSpec
INVARIANTS OneFounder FirstLoginIsAlone OneDefault LayoutIsOwners PhotoIsThere NoFileLeft OneDevicePerToken RevokedStaysOut ChartInOrder PagesSkipNothing ExecutionFindsInputs CurrentRevisionIsLast
PROPERTIES NeverEmptied LastAdminOnlyInRace
CHECK_DEADLOCK FALSE
