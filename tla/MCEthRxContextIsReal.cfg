SPECIFICATION Spec
CONSTANTS
  ETH_RX_DESC_CNT = 4
  Frame = {1, 2}
INVARIANT ContextIsReal
