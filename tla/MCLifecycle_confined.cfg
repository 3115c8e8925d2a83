\* The claim of lib.rs that the runtime is single-threaded.
CONSTANTS
  t1 = t1
  t2 = t2
  e1 = e1
  e2 = e2
  Thread = {t1, t2}
  Inner = {e1, e2}
  Home <- TwoThreads
  Linker = {l1, l2}
  Slot = {k1}
  Module = {m1, m2}
  Instance = {i1}
  NoInner = NoInner
  NoLinker = NoLinker
  NoModule = NoModule
  NoEntry = NoEntry
  MaxDepth = 1
SPECIFICATION SafeSpec
SYMMETRY Perms
INVARIANT ThreadConfined
