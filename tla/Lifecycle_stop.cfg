SPECIFICATION FairSpec
CONSTANTS
  RestClient = {r1, r2}
  EnvoyClient = {e1}
  MaxGauge = 3
CHECK_DEADLOCK FALSE
INVARIANTS
  TypeOK
  GaugeNeverLow
PROPERTIES
  RestRequestsFinish
  SignalEndsProcess
