\* Four records with headers of two cells and two kills.
SPECIFICATION Spec
CONSTANTS
  Records = {r1, r2, r3, r4}
  Header = 2
  Size <- MCSize
  None = None
  MaxKills = 2
INVARIANT TypeOK
INVARIANT ReadBack
PROPERTY RecoversTail
