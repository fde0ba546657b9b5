SPECIFICATION FairSpec
CONSTANTS
  Blocks <- MCBlocks
  Subregions = {"a", "b"}
  LoadBalancerNames = {"lb1", "lb2"}
  DeviceNames = {"/dev/xvdb"}
  Kinds = {"OscCluster", "OscClusterTemplate", "OscMachine", "OscMachineTemplate"}
  Samples <- MCSamples
  MaxWrites = 4
  MaxFaults = 1
INVARIANTS MachineIdentityKept RoundTripStable CreatedClusterFits
PROPERTIES CapacitySettles TemplateDeletionCompletes
CHECK_DEADLOCK FALSE
