SPECIFICATION FairSpec
CONSTANTS
  None = None
  h1 = h1
  b1 = b1
  s1 = s1
  create = create
  Hostings = {h1}
  Browsers = {b1}
  Creation = create
  Submissions = {s1}
  MaxInputs = 1
  MaxCrashes = 1
  MaxFrames = 2
  MaxQueue = 1
  Faults = {"timeout", "io", "runner", "agent"}
INVARIANTS
  TypeOK
  PastedOnce
  NoTurnForgotten
PROPERTIES
  RemovedStaysRemoved
  SubmissionKeepsControl
  ControlIsSettled
\* Everybody may have left.
CHECK_DEADLOCK FALSE
