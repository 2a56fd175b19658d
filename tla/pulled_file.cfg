CONSTANTS
  Agents = {a1}
  Operators = {o1}
  Profiles = {p1}
  NoProfile = NoProfile
  Cadences = {5, 30}
  MaxEdits = 1
  MaxFaults = 1
SPECIFICATION Spec
PROPERTIES RestartApplies
