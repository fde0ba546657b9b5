SPECIFICATION FairSpec
CONSTANTS
  Nats = {"n1", "n2"}
  Vms = {"v"}
  Fleets <- MCFleets
INVARIANTS IpsInUseKept
PROPERTIES PoolSettles PoolDeletionCompletes
CHECK_DEADLOCK FALSE
