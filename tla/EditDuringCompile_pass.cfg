SPECIFICATION EditSpec
CONSTANTS
  Codes = {c0, c1}
  NoCode = c0
  Bodies = {b0}
  NoBody = b0
  Titles = {}
  NoOut = none
  MaxAdds = 2
INVARIANTS
  EditTypeOK
  OncePerTask
  
  OwnResults
PROPERTIES
  TextSurvivesCompiling
