SPECIFICATION ContentSpec
CONSTANTS
  t1 = t1
  t2 = t2
  r1 = r1
  Nobody = Nobody
  Tabs = {t1, t2}
  Readers = {r1}
  MaxRevisions = 3
  MaxVersion = 4
  MaxFaults = 1
  d1 = d1
  d2 = d2
  s1 = s1
  s2 = s2
  Docs = {d1, d2}
  Slugs = {s1, s2}
  NoSlug = NoSlug
  Editors = {t1, t2}
  MaxDocRevision = 3
  MaxChanges = 6
INVARIANTS ContentTypeOK LiveFilesExist NothingLeftBehind RangeAnswersFit CatalogIsServable OldLinksArrive
CHECK_DEADLOCK FALSE
SYMMETRY ContentSymmetry
