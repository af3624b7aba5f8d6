SPECIFICATION PartSpec
CONSTANTS
  MaxRetries = 1
  MaxSteps = 2
  Client = {c1, c2}
  Key = {good, bad}
  Accepted = {good}
  Garbled = Garbled
  Nobody = Nobody
  MaxBreaks = 2
  MaxRequests = 2
  MaxRequestRetries = 1
CHECK_DEADLOCK FALSE
INVARIANTS
  InspectionClosed
  PrintedIsRecorded
  PartsTypeOK
  OnlyAccepted
  StatusIsCurrent
  HumanForCause
PROPERTIES
  NoAttemptAfterVerdict
  LossEndsInspection
  ReportIsTrue
  PartsEnd
