\* One case, every second tick open, three requests or crashes, two requests at a time.
SPECIFICATION Spec
CONSTANTS
  u1 = u1  u2 = u2  q1 = q1  q2 = q2  d1 = d1  d2 = d2
  None = None
  Users = {u1, u2}
  Requests = {q1, q2}
  Mailers = {d1, d2}
  ApprovalIds = {1, 2}
  Cases <- OneOfEach
  Vias = {"status", "automation"}
  Target <- Targets
  EscalateAfter = 1
  Day = 2
  Hours = {0}
  Holidays = {}
  MaxTime = 3
  MaxEvents = 3
  MaxFaults = 1
SYMMETRY Symmetry
INVARIANTS SlaExact ClocksFollowCase BreachTold ClosureDecided MailedOnce
CHECK_DEADLOCK FALSE
