SPECIFICATION Spec
CONSTANTS
  Machines = {"w", "cp"}
  ControlPlane = {"cp"}
  AZs = {"a", "b"}
  SubregionNames = {"a", "b"}
  LeastNodes = TRUE
  PublicIp = {}
  GPU = {}
  FailureDomain <- MCFailureDomain
  GpuAZs = {"a", "b"}
  NodeMode <- MCNodeMode
  LBDisabled = TRUE
  MaxMachines = 1
  MaxFaults = 1
INVARIANTS FinishedMachineHasProviderID
CHECK_DEADLOCK FALSE
