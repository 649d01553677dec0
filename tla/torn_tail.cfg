\* A record is cut short by a kill or a failing write, and another one written behind it.
SPECIFICATION Spec
CONSTANTS
  Records = {r1, r2, r3, r4}
  Header = 2
  Size <- MCSize
  None = None
  MaxKills = 2
PROPERTY RecoversAcked
