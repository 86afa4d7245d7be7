CONSTANTS
  s1 = s1  s2 = s2  w1 = w1  w2 = w2  w3 = w3  c1 = c1  None = None
  Servers = {s1, s2}
  Windows = {w1, w2}
  Calls = {c1}
  Faults = 0
SPECIFICATION Spec
PROPERTY OthersWindowsStand
CHECK_DEADLOCK FALSE
