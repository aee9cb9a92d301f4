\* A once-per-record rule that two overlapping edits turn into a chaser, a
\* workflow or both, beside its scans, with outages and a fault.
SPECIFICATION FairSpec
CONSTANTS
  Records = {1, 2}
  Published <- OnceEveryTwo
  Changes <- ChaserOrWorkflow
  Editors = {e1, e2}
  Scanners = {s1}
  Cap = 1
  Cooldown = 1
  MaxPeriod = 2
  MaxEdits = 2
  MaxFaults = 1
  None = None
CONSTRAINT FewAndBrief
INVARIANTS TypeOK RepeatsSpaced AllMatchesOrNone NextRunFitsCadence
PROPERTIES HandledAtLast
