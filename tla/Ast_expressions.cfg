CONSTANTS
  Inputs <- ExpressionInputs
  FuncSlot = {"null", "garbage"}
SPECIFICATION Spec
INVARIANTS SourceOrder OperatorsSettled NodesOwnedOnce AcceptsExpressions
