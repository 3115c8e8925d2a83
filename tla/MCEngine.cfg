\* Three threads: two can race a last drop against a first Engine::new while a
\* third holds or waits.  No symmetry: the refinement has a liveness part.
CONSTANTS
  Thread = {t1, t2, t3}
  Inner = {e1, e2, e3}
  NoThread = NoThread
  NoInner = NoInner
  MaxClones = 2
SPECIFICATION Spec
INVARIANTS IInv CountExact UpWhileHeld InitOnlyWhenDown
PROPERTIES IdleAtTeardown ImplementsLifetimeSafety ImplementsLifetime
