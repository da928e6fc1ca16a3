SPECIFICATION FairSpec
CONSTANTS
  Loops = {l1, l2}
  PoPs = {p1, p2}
  Default = p1
  None = None
PROPERTY ComesBack
