CONSTANTS
  Inputs <- StatementInputs
  FuncSlot = {"null", "garbage"}
SPECIFICATION FairSpec
INVARIANTS TypeOK StringsNotShared StringsNotLost NodesOwnedOnce MemoryReturned NothingDropped FreshTokens AcceptsStatements
PROPERTIES StringsInCustody Termination
