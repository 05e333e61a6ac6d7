SPECIFICATION RegistrySpec
CONSTANTS
  s1 = s1
  s2 = s2
  s3 = s3
  k1 = k1
  k2 = k2
  a1 = a1
  a2 = a2
  b1 = b1
  SetIds = {s1, s2, s3}
  Skills = {k1, k2}
  Revisions = {a1, a2, b1}
  SkillOf <- MCSkillOf
  Requests = {q1, q2, q3, q4, q5}
  CandidateQuota = 2
  NoSet = NoSet
  NoRevision = NoRevision
SYMMETRY SetSymmetry
INVARIANTS
  RegistryTypeOK
  PointerMatchesStates
  ActiveSetIsCurrent
  EventsExplainStates
PROPERTIES
  ImplementsActivationLog
CHECK_DEADLOCK FALSE
