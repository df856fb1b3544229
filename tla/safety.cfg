SPECIFICATION Spec
CONSTANTS
  s1 = s1
  Monitor = Monitor
  Service = Service
  Safeties <- MCSafeties
  Kinds <- MCKinds
  SafetyInterval = 1
  HeartbeatLiveness = 2
  StartTimeout = 1
  Interval = 1
  CheckInterval = 1
  SafeInterval = 2
  MeasureTime = 1
  OpenTime = 1
  StopTime = 1
  MaxFaults <- MCFaults
  MaxStarts = 1
INVARIANTS  StopsWithoutTestbed NoFalseAlarm Recovers
