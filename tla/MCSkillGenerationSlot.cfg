SPECIFICATION RunSpec
CONSTANTS
  SetIds = {s1, s2, s3}
  Runs = {r1, r2}
  NoSet = NoSet
  p1 = p1
  Calls = {1, 2, 3}
  Pages = {p1}
  NoCall = 0
  failureThreshold = 2
  MaximumAttempts = 1
  MaxParts = 1
  MaxVisits = 2
  MaxQuestions = 2
INVARIANTS RunTypeOK ReferencesAreLeases LeasedDirectoryPresent AcceptedGenerationPresent OneProbeAtATime AnswersAreWholeAndOwn
PROPERTIES RetiredIsReaped CloseStopsReaper
CHECK_DEADLOCK FALSE
