SPECIFICATION LifecycleSpec
CONSTANTS
  c1 = c1
  k1 = k1
  k2 = k2
  Consoles = {c1}
  Skills = {k1, k2}
  NoSkill = NoSkill
  MaxUploads = 2
  MaxSets = 3
  MaxRequests = 1
  MaxSkillFaults = 1
INVARIANTS FailureKeepsRuntime
SYMMETRY LifecycleSymmetry
CHECK_DEADLOCK FALSE
