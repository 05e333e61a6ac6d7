SPECIFICATION AdminSpec
CONSTANTS
  Consoles = {a1, a2}
  Skills = {e1, e2}
  NoSkill = NoSkill
  MaxUploads = 2
  MaxSets = 3
  MaxRequests = 2
  MaxSkillFaults = 1
  Staff = {a1, a2}
  Sessions = {e1, e2}
  NoSession = NoSession
  NoStaff = NoStaff
  MaxMutations = 2
  a1 = a1
  a2 = a2
  e1 = e1
  e2 = e2
  o1 = o1
  o2 = o2
  r1 = r1
  r2 = r2
  Applicants = {a1, a2}
  Emails = {e1, e2}
  Organizations = {o1, o2}
  Reviewers = {r1, r2}
  NoEmail = NoEmail
  NoOrganization = NoOrganization
  NoApplicant = NoApplicant
  MaximumAttempts = 1
INVARIANTS AdminTypeOK AnswersTookEffect NobodyIsLockedOut DisabledHaveNoSession OrganizationsAreLed
PROPERTIES OnlyTheNamedSkillChanges
CHECK_DEADLOCK FALSE
SYMMETRY AdminSymmetry
