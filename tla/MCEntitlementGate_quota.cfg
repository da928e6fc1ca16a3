SPECIFICATION Spec
CONSTANTS
  Calls = {k1, k2}
SYMMETRY Symmetry
INVARIANT OverQuotaCutsNextRequest
