\* Two writes, two pages, two requests at a time; two mishaps: lost
\* connections, refusals, a failure of the server.
SPECIFICATION Spec
CONSTANTS
  c1 = c1  c2 = c2  p1 = p1  p2 = p2
  None = None
  Calls = {c1, c2}
  Accounts = {1}
  Orders <- MCOrders
  Openings = {2, 4}
  Threshold = 9
  Items = {1, 2}
  Plans <- Mixed
  Pages = {p1, p2}
  MaxAttempts = 2
  MaxSnags = 2
  MaxFaults = 1
CONSTRAINT FewMishaps
SYMMETRY Symmetry
INVARIANTS NoOverdraft AppliedOnce KeptInOrder
CHECK_DEADLOCK FALSE
