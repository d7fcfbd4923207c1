SPECIFICATION Spec
CONSTANTS
  Core = {c1, c2}
  Setups <- Every
  StaleNext <- Anything
  MaxLive = 4
SYMMETRY Symmetric
INVARIANT HeapSound
INVARIANT NothingLost
