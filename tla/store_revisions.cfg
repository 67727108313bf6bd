SPECIFICATION Spec
CONSTANTS
  Profiles = {b, p}
  NoProfile = none
  Pages = {g1}
  Buttons = {k1}
  Texts = {1, 2, 3}
  Editors = {e1, e2}
  Builtin = b
  BuiltinVersion = 2
  Fixture <- PlainFixtures
  Drafts <- UserDrafts
  NoContent = nocontent
  Untouched = untouched
  MaxRevision = 3
  MaxOrder = 0
SYMMETRY Symmetry
INVARIANTS ProfileTypeOK OneSelected HistoryComplete NoLostUpdate UserChoiceSurvives
PROPERTY StoreRefined
