CONSTANTS
  Ports = {2, 3}
  Controls <- MCControls
SPECIFICATION FairSpec
INVARIANT EdgesOwed
PROPERTY EdgesDelivered
