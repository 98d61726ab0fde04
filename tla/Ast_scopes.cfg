CONSTANTS
  Inputs <- ScopeInputs
  FuncSlot = {"null", "garbage", "stale"}
SPECIFICATION FairSpec
INVARIANTS CursorInWindow MemoryReturned ErrorsAccounted
PROPERTY Termination
