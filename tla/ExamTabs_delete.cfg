SPECIFICATION Spec
CONSTANTS
  Codes = {c0}
  NoCode = c0
  Bodies = {b0}
  NoBody = b0
  Titles = {t1}
  NoOut = none
  MaxAdds = 2
PROPERTIES
  DeletesActiveTask
