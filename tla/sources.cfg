\* Separators of every kind, cuts at every size, reads of every length.
SPECIFICATION Spec
CONSTANTS
  s = s
  t = t
  x = x
  TextBytes <- MCBytes
  Texts <- MCTexts
  Separators <- MCSeparators
  newline = newline
  cr = cr
  object = object
  junk = junk
  Lines <- MCLines
  Targets = {1, 2, 3}
  Counts = {1, 3, 4}
  LongestText = 6
  LongestLines = 4
INVARIANTS
  NothingTorn
  SameDocuments
  StreamCuts
PROPERTIES
  SourceEnds
