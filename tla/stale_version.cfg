CONSTANTS
  Agents = {a1}
  Operators = {o1, o2}
  Profiles = {p1}
  NoProfile = NoProfile
  Cadences = {5, 30}
  MaxEdits = 2
  MaxFaults = 0
SPECIFICATION Spec
PROPERTIES EveryChangeIsVersioned
