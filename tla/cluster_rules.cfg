SPECIFICATION Spec
CONSTANTS
  KcpNames = {"kcp"}
  Networks <- MCNetworks
  GroupNames <- MCGroupNames
  MaxFaults = 1
  MaxEdits = 1
INVARIANTS
  RecordedRulesExact
  ControlPlanesReachable
  RouteTablesServeSubnets
PROPERTIES
  NodesKeepAccess
  RulesSettle
