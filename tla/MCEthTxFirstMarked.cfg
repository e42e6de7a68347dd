SPECIFICATION Spec
CONSTANTS
  Threads = 3
  LinkThread = 2
  ETH_TX_DESC_CNT = 4
  Lengths = {1, 3}
INVARIANT FirstMarked
CONSTRAINT NoOverlapYet
