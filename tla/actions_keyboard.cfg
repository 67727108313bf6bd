SPECIFICATION Spec
CONSTANTS
  ctrl = ctrl
  shift = shift
  s = s
  mute = mute
  Workers = {a, b, c}
  Keys = {ctrl, shift, s, mute}
  Chords <- SharedChords
  MaxSlots = 2
  MaxLeaks = 1
SYMMETRY Symmetry
INVARIANTS KeysAreOwed ChordsAreWhole SlotsAreReturned
