\* The same instance.
CONSTANTS
  Feature = {"simd", "hw-bound-check", "bulk-memory"}
  Defaults = {"bulk-memory", "aot", "interp"}
  Unit <- MCUnit
  Environment <- MCEnvironment
  Host = "host"
  MaxChanges = 2
SPECIFICATION Spec
INVARIANT PinnedCommit
