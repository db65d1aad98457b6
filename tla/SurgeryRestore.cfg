CONSTANTS
  c1 = c1
  c2 = c2
  main = main
  fork = fork
  copy = copy
  text = text
  call = call
  picture = picture
  rest = rest
  Client = {c1, c2}
  Branch = {main, fork}
  Occurrence = {text, picture, rest, call, copy}
  Contents <- MCContents
  Mutable = {text, picture, rest, copy}
  NonText = {picture}
  Container <- MCContainer
  Attempts = 2
  MaxRequests = 2
  MaxRestarts = 1
  MaxFailures = 1
SPECIFICATION Spec
SYMMETRY ClientSymmetry
INVARIANT AllRestorable
CHECK_DEADLOCK FALSE
