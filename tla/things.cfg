SPECIFICATION FairSpec
CONSTANTS
  Methods <- MCMethods
  Stored <- MCStored
  MaxRequests = 2
  MaxFaults = 2
  MaxFails = 1
INVARIANTS
  TypeOK
  PanelFollowsSwitches
  DashboardAgrees
  HearsRequests
PROPERTIES
  StoreSpec
  DeadIsNoticed
  ClockGoesOn
