SPECIFICATION SceneSpec
CONSTANTS
  s1 = s1
  r1 = r1
  SupervisorPid = {s1, s2}
  RunnerPid = {r1, r2}
  None = None
  MaxFaults = 1
  MaxRequests = 1
INVARIANTS
  InstanceRecorded
  NoStrangerKilled
PROPERTIES
  RunnerComesBack
  SwitchesObeyed
CHECK_DEADLOCK FALSE
