\* One thread that mixes two engines, two linkers, two modules and two
\* instances, with host functions that call back two deep.
CONSTANTS
  t1 = t1
  t2 = t2
  e1 = e1
  e2 = e2
  Thread = {t1}
  Inner = {e1, e2}
  Home <- OneThread
  Linker = {l1, l2}
  Slot = {k1, k2}
  Module = {m1, m2}
  Instance = {i1, i2}
  NoInner = NoInner
  NoLinker = NoLinker
  NoModule = NoModule
  NoEntry = NoEntry
  MaxDepth = 2
SPECIFICATION SafeSpec
SYMMETRY OneThreadPerms
INVARIANTS IInv RuntimeCovers Backed RegistryBacked OwnFuncsAlive NoLeak
