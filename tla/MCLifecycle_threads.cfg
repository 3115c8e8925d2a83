\* Two threads, one engine each, that share the registry of the process.  No
\* symmetry: LettingGoStops is a liveness property.
CONSTANTS
  t1 = t1
  t2 = t2
  e1 = e1
  e2 = e2
  Thread = {t1, t2}
  Inner = {e1, e2}
  Home <- TwoThreads
  Linker = {l1, l2}
  Slot = {k1}
  Module = {m1, m2}
  Instance = {i1}
  NoInner = NoInner
  NoLinker = NoLinker
  NoModule = NoModule
  NoEntry = NoEntry
  MaxDepth = 1
SPECIFICATION Spec
INVARIANTS RuntimeCovers OwnFuncsAlive NoLeak
PROPERTY LettingGoStops
