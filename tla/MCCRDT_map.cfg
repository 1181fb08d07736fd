SPECIFICATION CSpec
CONSTANTS
  CNodes = {1, 2}
  CTypes = {"LWWMap"}
  CTies = {"LWWMap"}
  CElements = {a}
  CKeys = {k}
  CNull = CNull
  CAmounts = {1}
  CMaxOps = 3
  CJumps = {0}
INVARIANTS
  MapsConverge
CHECK_DEADLOCK FALSE
