SPECIFICATION LifeSpec
CONSTANTS
  Drivers = {"trunner", "adc", "fcounter", "de2lcd"}
  IrqNumbers <- MCIrqNumbers
  u1 = u1
  u2 = u2
  Users <- MCUsers
  MaxLoads = 3
SYMMETRY Symmetry
INVARIANTS InUseIsMapped NothingHalfDone
CHECK_DEADLOCK FALSE
