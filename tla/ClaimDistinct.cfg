\* One user sends the same decision twice.
SPECIFICATION Spec
CONSTANTS
  author = author  ann = ann  bob = bob  cy = cy
  act1 = act1  act2 = act2  act3 = act3  gate1 = gate1  gate2 = gate2  cond = cond
  r1 = r1  r2 = r2  r3 = r3  a1 = a1  a2 = a2  a3 = a3  a4 = a4  c1 = c1
  none = none  ev = ev  sc = sc  rs = rs  p1 = p1  q1 = q1  q2 = q2
  Published <- OneQuorum
  Editions <- JustPublished
  StepIds <- MCStepIds
  Users = {author, ann, bob}
  Author = author
  Officers = {ann, bob}
  Delegations = {}
  RunIds = {r1}
  ApprovalIds = {a1, a2, a3, a4}
  ChainIds = {c1}
  None = none
  Threads = {ev, rs}
  Serves <- OneServes
  Processes = {p1}
  Host <- OneHost
  Requests = {q1, q2}
  MaxTriggers = 1
  MaxQueued = 1
  MaxFaults = 0
SYMMETRY Symmetry
INVARIANTS DistinctApprovers
CHECK_DEADLOCK FALSE
