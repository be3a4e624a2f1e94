SPECIFICATION Spec
CONSTANTS
  Codes <- MCCodes
  NoCode <- MCNoCode
  MaxLines = 1
  MaxStored = 2
INVARIANTS
  TypeOK
  AnswersOfCode
  
  
  
  
