SPECIFICATION Spec
CONSTANTS
  Byte = {x, y}
  Size = 4
  MaxBytes = 3
INVARIANTS TypeOK CountsAgree NoOverlap
PROPERTIES ImplementsFifo
