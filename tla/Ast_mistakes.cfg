CONSTANTS
  Inputs <- MistakeInputs
  FuncSlot = {"null"}
SPECIFICATION Spec
INVARIANT MistakesReported
