\* Three clients, both builds; the third client finds no descriptor
CONSTANTS
  Clients = {c1, c2, c3}
  MaxFds = 2
  Backlog = 1
  MaxData = 1
  CbSizes = {8, 16}
  None = None
SPECIFICATION FairSpec
INVARIANTS CallsDoNotBlock SlotsAreConnections
PROPERTIES ClosedAreReleased SendersProceed
