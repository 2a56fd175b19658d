CONSTANTS
  Agents = {a1}
  Operators = {o1, o2}
  Profiles = {p1}
  NoProfile = NoProfile
  Cadences = {5, 30}
  MaxEdits = 2
  MaxFaults = 2
SPECIFICATION FairSpec
INVARIANTS SameVersionSameConfiguration
PROPERTIES OnlyOvertakenIsUnversioned OnlyAssignmentOfDeletedDangles Converges
