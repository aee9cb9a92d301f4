\* One write under /api/crm, one page, a lost connection, no failure of the server.
SPECIFICATION Spec
CONSTANTS
  c1 = c1  c2 = c2  p1 = p1  p2 = p2
  None = None
  Calls = {c1, c2}
  Accounts = {1}
  Orders <- MCOrders
  Openings = {2, 4}
  Threshold = 9
  Items = {1}
  Plans <- JustCreate
  Pages = {p1}
  MaxAttempts = 2
  MaxSnags = 1
  MaxFaults = 0
INVARIANTS ReplaySafe
CHECK_DEADLOCK FALSE
