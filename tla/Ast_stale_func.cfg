CONSTANTS
  Inputs <- TwoScopesInputs
  FuncSlot = {"stale"}
SPECIFICATION Spec
INVARIANT NoSecondFree
