SPECIFICATION InPlaceSpec
CONSTANTS
  Codes = {c0, c1}
  NoCode = c0
  Bodies = {b0, b1}
  NoBody = b0
  Titles = {t1}
  NoOut = none
  MaxAdds = 3
INVARIANTS
  TypeOK
  IdxIsSelected
  TabsMatchTasks
  ListenerArmed
  EditorShowsCurrent
  MenuOnSelectedOnly
  
PROPERTIES
  ImplementsNotebook
  DeletesActiveTask
CONSTRAINT OneKindOfText
