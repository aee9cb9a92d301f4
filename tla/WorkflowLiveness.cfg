\* Two triggers of one rule on one record, handled by two consumers; no fault.
SPECIFICATION FairSpec
CONSTANTS
  author = author  ann = ann  bob = bob  cy = cy
  act1 = act1  act2 = act2  act3 = act3  gate1 = gate1  gate2 = gate2  cond = cond
  r1 = r1  r2 = r2  r3 = r3  a1 = a1  a2 = a2  a3 = a3  a4 = a4  c1 = c1
  none = none  ev = ev  sc = sc  rs = rs  p1 = p1  q1 = q1  q2 = q2
  Published <- BranchingGate
  Editions <- JustPublished
  StepIds <- MCStepIds
  Users = {author, ann}
  Author = author
  Officers = {ann}
  Delegations = {}
  RunIds = {r1, r2}
  ApprovalIds = {a1, a2}
  ChainIds = {}
  None = none
  Threads = {ev, sc, rs}
  Serves <- OneServes
  Processes = {p1}
  Host <- OneHost
  Requests = {q1, q2}
  MaxTriggers = 2
  MaxQueued = 1
  MaxFaults = 0
CONSTRAINT OneByOne
INVARIANTS OneActiveRunEach
PROPERTIES RunsSettle
CHECK_DEADLOCK FALSE
