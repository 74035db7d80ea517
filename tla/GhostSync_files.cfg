SPECIFICATION Spec
CONSTANTS
  Names = {a, b}
  Data = {y}
  Before = {x}
  Changes = 3
INVARIANTS TypeOK InSync 
PROPERTIES Settles
CHECK_DEADLOCK FALSE
