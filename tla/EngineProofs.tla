---------------------------- MODULE EngineProofs ----------------------------
(***************************************************************************)
(* Machine-checked proofs about Engine.tla, for every finite number of     *)
(* threads and of engine objects and every bound on clones.  The inductive *)
(* invariant is IInv; CountExact and UpInv are its core: the counter is    *)
(* the number of engine objects at every step, and the runtime is up       *)
(* exactly while the counter is positive or a thread is in the two short   *)
(* windows of the critical section in which it lags behind.                *)
(***************************************************************************)
EXTENDS Engine, FiniteSetTheorems, TLAPS

(* The engine objects counted form a finite set.                           *)
LEMMA HoldersFinite == IsFiniteSet(Holders)
  BY InnerAssumption, FS_Subset DEF Holders

(* A positive counter and a non-empty set of engine objects are the same.  *)
LEMMA CountPositive ==
  ASSUME CountExact
  PROVE  count > 0 <=> Holders # {}
  BY HoldersFinite, FS_CardinalityType, FS_EmptySet DEF CountExact

(* A step that neither counts nor changes an owner keeps the count exact.  *)
LEMMA CountUntouched ==
  ASSUME CountExact, count' = count, owner' = owner
  PROVE  CountExact'
  BY DEF CountExact, Holders

(* A step that leaves the engines, the mutex and the drops alone keeps     *)
(* every part of the invariant but its types and RunningInv.               *)
LEMMA EnginesUntouched ==
  ASSUME IInv, UNCHANGED <<lock, count, up, rc, owner, dying, pc>>
  PROVE  /\ CountExact' /\ MutexInv' /\ DyingInv' /\ HeldInv'
         /\ OnlyLastInv' /\ UpInv'
  BY DEF IInv, CountExact, Holders, MutexInv, DyingInv, HeldInv, OnlyLastInv, UpInv

(* The initial state satisfies the invariant.                              *)
LEMMA InitInv == Init => IInv
  <1> SUFFICES ASSUME Init PROVE IInv
    OBVIOUS
  <1> USE DEF Init
  <1>1. TypeOK
    <2>1. 0 \in 0 .. MaxClones
      BY ClonesAssumption
    <2>2. QED
      BY <2>1 DEF TypeOK, NewSteps, DropSteps
  <1>2. CountExact
    <2>1. Holders = {}
      BY DEF Holders
    <2>2. QED
      BY <2>1, FS_EmptySet DEF CountExact
  <1>3. MutexInv /\ DyingInv /\ HeldInv /\ OnlyLastInv /\ UpInv /\ RunningInv
    BY ThreadAssumption
    DEF MutexInv, DyingInv, HeldInv, OnlyLastInv, UpInv, RunningInv, Critical
  <1>4. QED
    BY <1>1, <1>2, <1>3 DEF IInv

-----------------------------------------------------------------------------
(* Engine::new keeps the invariant.                                        *)

LEMMA NewKeepsInv ==
  ASSUME IInv, NEW t \in Thread,
         NewLock(t) \/ NewInit(t) \/ NewInitFail(t) \/ NewSkipInit(t)
  PROVE  IInv'
  <1> USE ThreadAssumption
  <1>1. CountExact'
    BY CountUntouched
    DEF IInv, NewLock, NewInit, NewInitFail, NewSkipInit
  <1>2. CASE NewLock(t)
    <2> USE <1>2 DEF NewLock
    <2>1. TypeOK'
      BY DEF IInv, TypeOK, NewSteps, DropSteps
    <2>2. MutexInv' /\ DyingInv' /\ HeldInv' /\ OnlyLastInv' /\ RunningInv'
      BY DEF IInv, TypeOK, MutexInv, DyingInv, HeldInv, OnlyLastInv, RunningInv, Critical
    <2>3. UpInv'
      BY DEF IInv, TypeOK, UpInv
    <2>4. QED
      BY <1>1, <2>1, <2>2, <2>3 DEF IInv
  <1>3. CASE NewInit(t)
    <2> USE <1>3 DEF NewInit, FullInit
    <2>1. TypeOK'
      BY DEF IInv, TypeOK, NewSteps, DropSteps
    <2>2. MutexInv' /\ DyingInv' /\ HeldInv' /\ OnlyLastInv' /\ RunningInv'
      BY DEF IInv, TypeOK, MutexInv, DyingInv, HeldInv, OnlyLastInv, RunningInv, Critical
    <2>3. UpInv'
      BY DEF IInv, TypeOK, UpInv
    <2>4. QED
      BY <1>1, <2>1, <2>2, <2>3 DEF IInv
  <1>4. CASE NewInitFail(t)
    <2> USE <1>4 DEF NewInitFail
    <2>1. TypeOK'
      BY DEF IInv, TypeOK, NewSteps, DropSteps
    <2>2. MutexInv' /\ DyingInv' /\ HeldInv' /\ OnlyLastInv' /\ RunningInv'
      BY DEF IInv, TypeOK, MutexInv, DyingInv, HeldInv, OnlyLastInv, RunningInv, Critical
    <2>3. UpInv'
      BY DEF IInv, TypeOK, UpInv
    <2>4. QED
      BY <1>1, <2>1, <2>2, <2>3 DEF IInv
  <1>5. CASE NewSkipInit(t)
    <2> USE <1>5 DEF NewSkipInit
    <2>1. TypeOK'
      BY DEF IInv, TypeOK, NewSteps, DropSteps
    <2>2. MutexInv' /\ DyingInv' /\ HeldInv' /\ OnlyLastInv' /\ RunningInv'
      BY DEF IInv, TypeOK, MutexInv, DyingInv, HeldInv, OnlyLastInv, RunningInv, Critical
    <2>3. UpInv'
      BY DEF IInv, TypeOK, UpInv
    <2>4. QED
      BY <1>1, <2>1, <2>2, <2>3 DEF IInv
  <1>6. QED
    BY <1>2, <1>3, <1>4, <1>5

LEMMA NewFinishKeepsInv ==
  ASSUME IInv, NEW t \in Thread, NewFinish(t)
  PROVE  IInv'
  <1> USE ThreadAssumption, InnerAssumption DEF NewFinish
  <1> PICK e \in Inner \ Holders : /\ rc' = [rc EXCEPT ![e] = 1]
                                  /\ owner' = [owner EXCEPT ![e] = t]
    OBVIOUS
  <1>1. TypeOK'
    <2>1. 1 \in 0 .. MaxClones
      BY ClonesAssumption
    <2>2. rc' \in [Inner -> 0 .. MaxClones]
      BY <2>1 DEF IInv, TypeOK
    <2>3. QED
      BY <2>2 DEF IInv, TypeOK, NewSteps, DropSteps
  <1>2. CountExact'
    <2>1. Holders' = Holders \union {e}
      BY DEF IInv, TypeOK, Holders
    <2>2. Cardinality(Holders \union {e}) = Cardinality(Holders) + 1
      BY HoldersFinite, FS_AddElement
    <2>3. QED
      BY <2>1, <2>2 DEF IInv, CountExact
  <1>3. MutexInv' /\ HeldInv' /\ OnlyLastInv'
    BY DEF IInv, TypeOK, MutexInv, HeldInv, OnlyLastInv, Critical
  <1>4. DyingInv' /\ RunningInv'
    BY DEF IInv, TypeOK, DyingInv, RunningInv, Holders
  <1>5. UpInv'
    BY DEF IInv, TypeOK, UpInv
  <1>6. QED
    BY <1>1, <1>2, <1>3, <1>4, <1>5 DEF IInv

-----------------------------------------------------------------------------
(* Clones, and the drop of the last one, keep the invariant.               *)

LEMMA CloneKeepsInv ==
  ASSUME IInv, NEW t \in Thread, NEW e \in Inner, Clone(t, e)
  PROVE  IInv'
  <1> USE ThreadAssumption, ClonesAssumption DEF Clone
  <1>1. TypeOK'
    <2>1. rc[e] + 1 \in 0 .. MaxClones
      OBVIOUS
    <2>2. rc' \in [Inner -> 0 .. MaxClones]
      BY <2>1 DEF IInv, TypeOK
    <2>3. QED
      BY <2>2 DEF IInv, TypeOK, NewSteps, DropSteps
  <1>2. CountExact'
    BY CountUntouched DEF IInv
  <1>3. MutexInv' /\ DyingInv' /\ HeldInv' /\ OnlyLastInv' /\ UpInv' /\ RunningInv'
    BY DEF IInv, TypeOK, MutexInv, DyingInv, HeldInv, OnlyLastInv, UpInv, RunningInv
  <1>4. QED
    BY <1>1, <1>2, <1>3 DEF IInv

LEMMA DropHandleKeepsInv ==
  ASSUME IInv, NEW t \in Thread, NEW e \in Inner, DropHandle(t, e)
  PROVE  IInv'
  <1> USE ThreadAssumption, InnerAssumption, ClonesAssumption DEF DropHandle
  <1>1. rc[e] \in 1 .. MaxClones
    BY DEF IInv, TypeOK
  <1>2. TypeOK'
    <2>1. rc[e] - 1 \in 0 .. MaxClones
      BY <1>1
    <2>2. rc' \in [Inner -> 0 .. MaxClones]
      BY <2>1 DEF IInv, TypeOK
    <2>3. QED
      BY <2>2 DEF IInv, TypeOK, NewSteps, DropSteps
  <1>3. CountExact'
    BY CountUntouched DEF IInv
  <1>4. MutexInv' /\ OnlyLastInv' /\ UpInv'
    BY DEF IInv, TypeOK, MutexInv, OnlyLastInv, UpInv, Critical
  <1>5. HeldInv'
    BY <1>1 DEF IInv, TypeOK, HeldInv
  <1>6. RunningInv'
    <2> SUFFICES ASSUME NEW u \in Thread, NEW f \in running[u]
                 PROVE  owner[f] = u /\ rc'[f] > 0
      BY DEF RunningInv
    <2>1. f \in Inner /\ owner[f] = u /\ rc[f] > 0
      BY DEF IInv, TypeOK, RunningInv
    <2>2. QED
      BY <1>1, <2>1 DEF IInv, TypeOK
  <1>7. DyingInv'
    <2>1. CASE rc[e] = 1
      BY <2>1 DEF IInv, TypeOK, DyingInv
    <2>2. CASE rc[e] # 1
      BY <1>1, <2>2 DEF IInv, TypeOK, DyingInv
    <2>3. QED
      BY <2>1, <2>2
  <1>8. QED
    BY <1>2, <1>3, <1>4, <1>5, <1>6, <1>7 DEF IInv

LEMMA DropLockKeepsInv ==
  ASSUME IInv, NEW t \in Thread, DropLock(t)
  PROVE  IInv'
  <1> USE ThreadAssumption DEF DropLock
  <1>1. TypeOK'
    BY DEF IInv, TypeOK, NewSteps, DropSteps
  <1>2. CountExact'
    BY CountUntouched DEF IInv
  <1>3. MutexInv' /\ DyingInv' /\ HeldInv' /\ OnlyLastInv' /\ RunningInv'
    BY DEF IInv, TypeOK, MutexInv, DyingInv, HeldInv, OnlyLastInv, RunningInv, Critical
  <1>4. UpInv'
    BY DEF IInv, TypeOK, UpInv
  <1>5. QED
    BY <1>1, <1>2, <1>3, <1>4 DEF IInv

(* The engine that is dying is one of those counted, so the decrement      *)
(* neither underflows nor loses a count.                                   *)
LEMMA DropDecrementKeepsInv ==
  ASSUME IInv, NEW t \in Thread, DropDecrement(t)
  PROVE  IInv'
  <1> DEFINE d == dying[t]
  <1> USE ThreadAssumption, InnerAssumption DEF DropDecrement
  <1>1. d \in Inner /\ owner[d] = t /\ rc[d] = 0
    BY DEF IInv, TypeOK, DyingInv
  <1>2. d \in Holders
    BY <1>1 DEF Holders
  <1>3. count \in Nat /\ count > 0
    BY <1>2, CountPositive DEF IInv, TypeOK
  <1>4. TypeOK'
    <2>1. count' \in Nat
      BY <1>3
    <2>2. QED
      BY <2>1, <1>1 DEF IInv, TypeOK, NewSteps, DropSteps
  <1>5. CountExact'
    <2>1. Holders' = Holders \ {d}
      BY <1>1 DEF IInv, TypeOK, Holders
    <2>2. Cardinality(Holders \ {d}) = Cardinality(Holders) - 1
      BY <1>2, HoldersFinite, FS_RemoveElement
    <2>3. QED
      BY <2>1, <2>2 DEF IInv, CountExact
  <1>6. MutexInv'
    BY DEF IInv, TypeOK, MutexInv, Critical
  <1>7. DyingInv'
    BY <1>1 DEF IInv, TypeOK, DyingInv
  <1>8. HeldInv' /\ RunningInv'
    BY <1>1 DEF IInv, TypeOK, HeldInv, RunningInv
  <1>9. OnlyLastInv'
    BY <1>3 DEF IInv, TypeOK, MutexInv, OnlyLastInv, Critical
  <1>10. UpInv'
    <2>1. up
      BY <1>3 DEF IInv, UpInv
    <2>2. up'
      BY <2>1
    <2>3. count' > 0 \/ \E u \in Thread : pc'[u] \in {"newReady", "dropLast"}
      BY <1>3 DEF IInv, TypeOK
    <2>4. QED
      BY <2>2, <2>3 DEF UpInv
  <1>11. QED
    BY <1>4, <1>5, <1>6, <1>7, <1>8, <1>9, <1>10 DEF IInv

LEMMA DropDestroyKeepsInv ==
  ASSUME IInv, NEW t \in Thread, DropDestroy(t)
  PROVE  IInv'
  <1> USE ThreadAssumption DEF DropDestroy, RuntimeDestroy
  <1>1. TypeOK'
    BY DEF IInv, TypeOK, NewSteps, DropSteps
  <1>2. CountExact'
    BY CountUntouched DEF IInv
  <1>3. MutexInv' /\ DyingInv' /\ HeldInv' /\ OnlyLastInv' /\ RunningInv'
    BY DEF IInv, TypeOK, MutexInv, DyingInv, HeldInv, OnlyLastInv, RunningInv, Critical
  <1>4. UpInv'
    <2>1. count = 0
      BY DEF IInv, OnlyLastInv
    <2>2. \A u \in Thread : pc'[u] \notin {"newReady", "dropLast"}
      BY DEF IInv, TypeOK, MutexInv, Critical
    <2>3. QED
      BY <2>1, <2>2 DEF UpInv
  <1>5. QED
    BY <1>1, <1>2, <1>3, <1>4 DEF IInv

-----------------------------------------------------------------------------
(* Running Wasm and the end of a thread keep the invariant.                *)

LEMMA WasmKeepsInv ==
  ASSUME IInv, NEW t \in Thread, NEW e \in Inner,
         EnterWasm(t, e) \/ LeaveWasm(t, e)
  PROVE  IInv'
  <1>1. UNCHANGED <<lock, count, up, rc, owner, dying, pc>>
    BY DEF EnterWasm, LeaveWasm
  <1>2. TypeOK'
    <2>1. running' \in [Thread -> SUBSET Inner]
      BY DEF IInv, TypeOK, EnterWasm, LeaveWasm
    <2>2. guard' \in [Thread -> BOOLEAN] /\ env' \in [Thread -> BOOLEAN]
      BY DEF IInv, TypeOK, EnterWasm, LeaveWasm
    <2>3. QED
      BY <1>1, <2>1, <2>2 DEF IInv, TypeOK
  <1>3. RunningInv'
    BY DEF IInv, TypeOK, RunningInv, EnterWasm, LeaveWasm
  <1>4. QED
    BY <1>1, <1>2, <1>3, EnginesUntouched DEF IInv

LEMMA ThreadExitKeepsInv ==
  ASSUME IInv, NEW t \in Thread, ThreadExit(t)
  PROVE  IInv'
  <1> USE DEF ThreadExit, engineVars
  <1>1. TypeOK'
    BY DEF IInv, TypeOK, NewSteps, DropSteps
  <1>2. RunningInv'
    BY DEF IInv, RunningInv
  <1>3. QED
    BY <1>1, <1>2, EnginesUntouched DEF IInv

(* IInv is inductive.                                                      *)
LEMMA StepInv ==
  ASSUME IInv, [Next]_vars
  PROVE  IInv'
  <1>1. ASSUME NEW t \in Thread, Progress(t)
        PROVE  IInv'
    BY <1>1, NewKeepsInv, NewFinishKeepsInv, DropLockKeepsInv,
       DropDecrementKeepsInv, DropDestroyKeepsInv
    DEF Progress
  <1>2. ASSUME NEW t \in Thread, UserStep(t)
        PROVE  IInv'
    BY <1>2, NewKeepsInv, CloneKeepsInv, DropHandleKeepsInv, WasmKeepsInv,
       ThreadExitKeepsInv
    DEF UserStep
  <1>3. CASE UNCHANGED vars
    <2>1. TypeOK' /\ RunningInv'
      BY <1>3 DEF vars, IInv, TypeOK, RunningInv
    <2>2. QED
      BY <1>3, <2>1, EnginesUntouched DEF vars, IInv
  <1>4. QED
    BY <1>1, <1>2, <1>3 DEF Next

-----------------------------------------------------------------------------
(* The theorems                                                            *)

(* IInv holds in every reachable state, whatever the scheduling of the     *)
(* threads between the steps of Engine::new and EngineInner::drop.         *)
THEOREM InvHolds == SafeSpec => []IInv
  <1>1. Init => IInv
    BY InitInv
  <1>2. IInv /\ [Next]_vars => IInv'
    BY StepInv
  <1>3. QED
    BY <1>1, <1>2, PTL DEF SafeSpec

(* The counter behind the mutex never loses or gains a count: it is the    *)
(* number of EngineInner objects of all threads (engine.rs:8-18, 62).      *)
THEOREM CountIsExact == SafeSpec => []CountExact
  <1>1. IInv => CountExact
    BY DEF IInv
  <1>2. QED
    BY <1>1, InvHolds, PTL

(* A thread that can reach an Engine finds the runtime up: the guarantee   *)
(* every unsafe call of the crate relies on (engine.rs:29-30).             *)
THEOREM RuntimeUpWhileHeld == SafeSpec => []UpWhileHeld
  <1>1. IInv => UpWhileHeld
    <2> SUFFICES ASSUME IInv, NEW e \in Inner, rc[e] > 0
                 PROVE  up
      BY DEF UpWhileHeld
    <2>1. e \in Holders
      BY ThreadAssumption DEF IInv, HeldInv, Holders
    <2>2. QED
      BY <2>1, CountPositive DEF IInv, UpInv
  <1>2. QED
    BY <1>1, InvHolds, PTL

(* The runtime is never initialised twice without being destroyed between  *)
(* (engine.rs:50-57).                                                      *)
LEMMA DownWhenUncounted == IInv => InitOnlyWhenDown
  <1> SUFFICES ASSUME IInv, NEW t \in Thread, pc[t] = "newLocked", count = 0
               PROVE  ~up
    BY DEF InitOnlyWhenDown
  <1>1. lock = t
    BY DEF IInv, MutexInv, Critical
  <1>2. \A u \in Thread : pc[u] \notin {"newReady", "dropLast"}
    BY <1>1 DEF IInv, MutexInv, Critical
  <1>3. QED
    BY <1>2 DEF IInv, UpInv

THEOREM InitialisedOnce == SafeSpec => []InitOnlyWhenDown
  BY DownWhenUncounted, InvHolds, PTL

(* The only step that takes the runtime down is the destroy of the last    *)
(* engine's drop, when no engine object is left.                           *)
LEMMA OnlyDestroyTakesDown ==
  ASSUME IInv, [Next]_vars, up, ~up'
  PROVE  /\ \E t \in Thread : DropDestroy(t)
         /\ Holders = {}
  <1>1. PICK t \in Thread : DropDestroy(t)
    BY DEF Next, Progress, UserStep, vars, NewLock, NewInit, FullInit, NewInitFail,
       NewSkipInit, NewFinish, Clone, DropHandle, DropLock, DropDecrement,
       EnterWasm, LeaveWasm, ThreadExit, engineVars
  <1>2. count = 0
    BY <1>1 DEF DropDestroy, IInv, OnlyLastInv
  <1>3. QED
    BY <1>1, <1>2, CountPositive DEF IInv

(* The runtime is destroyed only when it is idle: no engine is alive and   *)
(* no thread runs Wasm (the SAFETY comment, engine.rs:20-21).              *)
THEOREM TeardownIdle == SafeSpec => IdleAtTeardown
  <1> DEFINE Idle == /\ \A e \in Inner : rc[e] = 0
                     /\ \A t \in Thread : running[t] = {}
  <1>1. IInv /\ [Next]_vars => [up /\ ~up' => Idle]_vars
    <2> SUFFICES ASSUME IInv, [Next]_vars, up, ~up'
                 PROVE  Idle
      OBVIOUS
    <2>1. Holders = {}
      BY OnlyDestroyTakesDown
    <2>2. \A e \in Inner : ~(rc[e] > 0)
      BY <2>1, ThreadAssumption DEF IInv, HeldInv, Holders
    <2>3. \A e \in Inner : rc[e] = 0
      BY <2>2, ClonesAssumption DEF IInv, TypeOK
    <2>4. \A t \in Thread : running[t] = {}
      BY <2>2 DEF IInv, TypeOK, RunningInv
    <2>5. QED
      BY <2>3, <2>4
  <1>2. QED
    BY <1>1, InvHolds, PTL DEF SafeSpec, IdleAtTeardown

(* Engine.tla implements the safety of RuntimeLifetime.tla: Engine::new    *)
(* boots the runtime or finds it up and then acquires it, a drop releases  *)
(* it, the last one shuts it down, and every other step is a stutter.      *)
THEOREM ImplementsLifetimeSafely == SafeSpec => ImplementsLifetimeSafety
  <1> USE DEF Lifetime!vars
  <1>1. Init => Lifetime!Init
    BY DEF Init, Lifetime!Init, Holders
  <1>2. IInv /\ [Next]_vars => [Lifetime!Next]_Lifetime!vars
    <2> SUFFICES ASSUME IInv, [Next]_vars
                 PROVE  Lifetime!Next \/ UNCHANGED <<Holders, up>>
      OBVIOUS
    <2>1. ASSUME UNCHANGED <<owner, up>>
          PROVE  UNCHANGED <<Holders, up>>
      BY <2>1 DEF Holders
    <2>2. ASSUME NEW t \in Thread, NewInit(t)
          PROVE  Lifetime!Boot
      <3>1. ~up
        BY <2>2, DownWhenUncounted DEF NewInit, InitOnlyWhenDown
      <3>2. QED
        BY <2>2, <3>1 DEF NewInit, FullInit, Lifetime!Boot, Holders
    <2>3. ASSUME NEW t \in Thread, NewFinish(t)
          PROVE  \E e \in Inner : Lifetime!Acquire(e)
      <3>1. PICK e \in Inner \ Holders : owner' = [owner EXCEPT ![e] = t]
        BY <2>3 DEF NewFinish
      <3>2. Holders' = Holders \union {e}
        BY <3>1, ThreadAssumption DEF IInv, TypeOK, Holders
      <3>3. up /\ up'
        BY <2>3 DEF NewFinish, IInv, UpInv
      <3>4. QED
        BY <3>1, <3>2, <3>3 DEF Lifetime!Acquire
    <2>4. ASSUME NEW t \in Thread, DropDecrement(t)
          PROVE  \E e \in Inner : Lifetime!Release(e)
      <3> DEFINE d == dying[t]
      <3>1. d \in Inner /\ owner[d] = t
        BY <2>4 DEF DropDecrement, IInv, DyingInv
      <3>2. d \in Holders /\ Holders' = Holders \ {d}
        BY <2>4, <3>1, ThreadAssumption DEF DropDecrement, IInv, TypeOK, Holders
      <3>3. up' = up
        BY <2>4 DEF DropDecrement
      <3>4. QED
        BY <3>1, <3>2, <3>3 DEF Lifetime!Release
    <2>5. ASSUME NEW t \in Thread, DropDestroy(t)
          PROVE  Lifetime!Shutdown
      <3>1. count = 0 /\ up
        BY <2>5 DEF DropDestroy, IInv, OnlyLastInv, UpInv
      <3>2. Holders = {} /\ Holders' = Holders
        BY <2>5, <3>1, CountPositive DEF DropDestroy, IInv, Holders
      <3>3. QED
        BY <2>5, <3>1, <3>2 DEF DropDestroy, RuntimeDestroy, Lifetime!Shutdown
    <2>6. CASE UNCHANGED <<owner, up>>
      BY <2>1, <2>6
    <2>7. CASE ~UNCHANGED <<owner, up>>
      <3>1. \E t \in Thread : NewInit(t) \/ NewFinish(t) \/ DropDecrement(t) \/ DropDestroy(t)
        BY <2>7
        DEF Next, Progress, UserStep, vars, NewLock, NewInitFail, NewSkipInit,
            Clone, DropHandle, DropLock, EnterWasm, LeaveWasm, ThreadExit, engineVars
      <3>2. QED
        BY <3>1, <2>2, <2>3, <2>4, <2>5 DEF Lifetime!Next
    <2>8. QED
      BY <2>6, <2>7
  <1>3. QED
    BY <1>1, <1>2, InvHolds, PTL
    DEF SafeSpec, ImplementsLifetimeSafety, Lifetime!SafeSpec

=============================================================================
