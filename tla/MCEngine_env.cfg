\* The contract of thread.rs on the environment of the running thread.
CONSTANTS
  Thread = {t1, t2}
  Inner = {e1, e2}
  NoThread = NoThread
  NoInner = NoInner
  MaxClones = 1
SPECIFICATION SafeSpec
SYMMETRY Perms
INVARIANT EnvReady
