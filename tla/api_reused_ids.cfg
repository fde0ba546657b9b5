SPECIFICATION Spec
CONSTANTS
  Blocks <- MCBlocks
  Subregions = {"a", "b"}
  LoadBalancerNames = {"lb1", "lb2"}
  DeviceNames = {"/dev/xvdb"}
  Kinds = {"OscCluster"}
  Samples <- MCSamples
  MaxWrites = 1
  MaxFaults = 0
INVARIANTS ReusedIdsStored
CHECK_DEADLOCK FALSE
