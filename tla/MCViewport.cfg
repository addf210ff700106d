SPECIFICATION Spec
CONSTANTS
  blank = blank
  typed = typed
  Text <- MCText
  EmptyLine = blank
  Inserts <- MCInserts
  FileLines = 6
  Late = 1
  Long = {3}
  MaxLen = 4
  Cut = cut
  chunk_size = 4
  margin = 2
  MaxDelete = 2
  MaxEdits = 2
INVARIANTS
  TypeOK
  WindowShows
PROPERTIES
  CursorLands
