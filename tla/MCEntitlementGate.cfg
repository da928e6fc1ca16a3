SPECIFICATION Spec
CONSTANTS
  Calls = {k1, k2}
SYMMETRY Symmetry
INVARIANT TypeOK
INVARIANT RevokeSticks
 
INVARIANT ConnectNeedsApproval
INVARIANT OverQuotaHolds
