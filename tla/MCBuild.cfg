\* Two changes of the sources: one before or during a run, and one after it.
CONSTANTS
  Feature = {"simd", "hw-bound-check", "bulk-memory"}
  Defaults = {"bulk-memory", "aot", "interp"}
  Unit <- MCUnit
  Environment <- MCEnvironment
  Host = "host"
  MaxChanges = 2
SPECIFICATION Spec
INVARIANTS Configured UpToSources LinkSound
