\* Framing on TTL and CAN, request and reply on RS485.
SPECIFICATION FairSpec
CONSTANTS
  Protocols <- AllProtocols
  Axes = 2
  TTLBytes = 5
  CANBytes = 4
  Swallow = 2
  MaxBytes = 1
  MaxPort = 2
  MaxFaults = 2
INVARIANTS
  DamageIsLocal
  WrongNeedsCause
PROPERTIES
  HealsItself
  EveryRegisterIsPolled
