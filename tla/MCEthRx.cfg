SPECIFICATION FairSpec
CONSTANTS
  ETH_RX_DESC_CNT = 4
  Frame = {1, 2}
INVARIANTS TypeOK DeliveredIntact NoLostWakeup RingReady
PROPERTY FrameTaken
CONSTRAINT Bounded
