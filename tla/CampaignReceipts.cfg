\* Two tests of two contacts, two receipts at a time, one who unsubscribes, one fault.
SPECIFICATION Spec
CONSTANTS
  p1 = p1  r1 = r1  a1 = a1  h1 = h1  h2 = h2
  None = None
  Contacts = {1, 2}
  Kinds <- Tests
  SplitPercents <- Halves
  Segments <- AllOrTwo
  Pollers = {p1}
  Resolvers = {r1}
  Admins = {a1}
  Hooks = {h1, h2}
  Ops = {"send"}
  Receipts = {"DELIVERED", "OPENED", "BOUNCED"}
  MaxRequests = 1
  MaxReceipts = 2
  MaxLeaves = 1
  MaxFaults = 1
SYMMETRY Symmetry
INVARIANTS OnceExplained LeaversNotMailed FairSample
PROPERTIES FunnelForward
CHECK_DEADLOCK FALSE
