\* The rest of a buffer that held a separator is dropped by the next call.
SPECIFICATION Spec
CONSTANTS
  s = s
  t = t
  x = x
  TextBytes <- MCBytes
  Texts <- MCTexts
  Separators <- MCSeparators
  newline = newline
  cr = cr
  object = object
  junk = junk
  Lines <- MCLines
  Targets = {1, 2, 3}
  Counts = {1, 3, 4}
  LongestText = 4
  LongestLines = 4
INVARIANT NothingDropped
