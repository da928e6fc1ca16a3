SPECIFICATION Spec
CONSTANTS
  Loops = {l1, l2, l3}
  PoPs = {p1, p2}
  Default = p1
  None = None
SYMMETRY Symmetry
INVARIANT TypeOK
INVARIANT OneOwner
 
INVARIANT ReadyMeansRegistered
 
