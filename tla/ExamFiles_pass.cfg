SPECIFICATION FilesSpec
CONSTANTS
  Codes = {c0, c1}
  NoCode = c0
  Bodies = {b0, b1}
  NoBody = b0
  Titles = {}
  NoOut = none
  NoFile = nofile
  MaxAdds = 2
INVARIANTS
  FilesTypeOK
  PaneMatchesExam
  InStepUnlessMoved
  NamesDistinct
PROPERTIES
  ImplementsFiledNotebook
CONSTRAINT OneKindOfText
