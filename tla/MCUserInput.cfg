\* Five keys, chords of up to three, two changes of the right button in a frame, a docked browser.
SPECIFICATION InputSpec
CONSTANTS
  Keys <- GermanKeys
  Scancode <- GermanScancode
  Letter <- German
  NoKey = NoKey
  MaxQueue = 2
  Ground = {ground}
  Sky = {sky}
  Elsewhere = {}
  Tile = tile
  Floating = FALSE
  Nowhere = Nowhere
CONSTRAINT ShortChords
INVARIANTS
  TypeOK
  HeldExactly
  UndoMeant
  RotatesInDrag
  AddedByDrag
PROPERTY
  GivenBack
