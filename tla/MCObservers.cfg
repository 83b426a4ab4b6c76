SPECIFICATION FairSpec
CONSTANTS
  l1 = l1
  Listener <- OneListener
  MaxBlocks = 5
INVARIANTS InOrder ListenersOpen
PROPERTIES NotBlocked Delivered
CHECK_DEADLOCK FALSE
