SPECIFICATION Spec
CONSTANTS
  h1 = h1
  h2 = h2
  Handlers = {h1, h2}
  Projects = {p1, p2}
  MaxParts = 3
  Size <- LongAndShort
  None = None
INVARIANTS
  TypeOK
  ArchiveIsLastPut
  BuildsWhatWasStored
  BuildsOwnProject
  ToolIsWhole
SYMMETRY ProjectSymmetry
