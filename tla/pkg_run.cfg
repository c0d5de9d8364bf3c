SPECIFICATION Spec
CONSTANTS
  Bases = {"mini", "smu", "tar"}
  Subs = {"1.0.0", "1.1.0"}
  None = None
  Known = {"mini", "smu"}
  Pkgs <- SomePkgs
  Lists <- SomeLists
INVARIANT PInv
INVARIANT Fulfilled
INVARIANT NeverActive
INVARIANT OwnNames
