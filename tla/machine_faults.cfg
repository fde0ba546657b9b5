SPECIFICATION FairSpec
CONSTANTS
  Machines = {"w", "cp", "cp2"}
  ControlPlane = {"cp", "cp2"}
  AZs = {"a", "b"}
  SubregionNames = {"a", "b"}
  LeastNodes = TRUE
  PublicIp = {"w"}
  GPU = {"w"}
  FailureDomain <- MCFailureDomain
  GpuAZs = {"a", "b"}
  NodeMode <- MCNodeMode
  LBDisabled = FALSE
  MaxMachines = 1
  MaxFaults = 2
INVARIANTS TypeOK OneVm RecordedIsComplete VmsReleased IpsBounded BackendsAlive
PROPERTIES KeepsContract MachineSettles MachineDeletionCompletes
CHECK_DEADLOCK FALSE
