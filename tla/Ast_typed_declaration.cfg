CONSTANTS
  Inputs <- TypedInputs
  FuncSlot = {"null"}
SPECIFICATION Spec
INVARIANT TypedDeclarationPrinted
