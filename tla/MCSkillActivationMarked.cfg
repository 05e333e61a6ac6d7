SPECIFICATION ActivationSpec
CONSTANTS
  k1 = k1
  a1 = a1
  SetIds = {s1, s2}
  Skills = {k1}
  Revisions = {a1}
  SkillOf <- MCSkillOf
  Requests <- MCRequests
  CandidateQuota = 2
  NoSet = NoSet
  NoRevision = NoRevision
  Runs = {r1}
  MaxRestarts = 1
PROPERTIES
  RefusedCandidatesAreMarked
CHECK_DEADLOCK FALSE
