SPECIFICATION ModelSpec
CONSTANTS
  Providers = {p1, p2}
  Commands = {o1, o2}
  Calls = {c1}
  Boot = Boot
  NoModel = NoModel
  MaxRevision = 2
  MaxRestarts = 1
  Vendors = {v1, v2}
  FirstVendor = v1
  Contents = {p1, p2}
  NoContent = NoContent
  MaxDraft = 2
  MaxSubmissions = 1
  Editors = {o1, o2}
  TermLists = {none, t1}
  NoTerms = none
  MaxPuts = 3
SYMMETRY ModelSymmetry
INVARIANTS ModelTypeOK ServedModelIsActive ControlAnswersAreFinal PagesTellTheTruth
CHECK_DEADLOCK FALSE
