SPECIFICATION FairSpec
CONSTANTS
  Machines = {"m1"}
  MaxTroubles = 1
INVARIANTS  MachinesAwake
PROPERTIES MachinesStart DeletionsEnd
CHECK_DEADLOCK FALSE
