SPECIFICATION Spec
CONSTANTS
  Profiles = {b}
  NoProfile = none
  Pages = {g1, g2, g3}
  Buttons = {k1, k2, k3}
  Texts = {1}
  Editors = {e1}
  Builtin = b
  BuiltinVersion = 1
  Fixture <- PlainFixtures
  Drafts <- AllDrafts
  NoContent = nocontent
  Untouched = untouched
  MaxRevision = 2
  MaxOrder = 3
INVARIANT PageOperationsSound
