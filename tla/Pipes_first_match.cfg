SPECIFICATION PipesSpec
CONSTANTS
  a = a  b = b  x = x  y = y  m1 = m1  m2 = m2
  Listener = {a, b, x, y}
  Matcher = {x, y}
  Message = {m1, m2}
  Match <- MCMatchAll
CHECK_DEADLOCK FALSE
PROPERTIES
  FirstMatch
