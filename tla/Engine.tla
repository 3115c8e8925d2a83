------------------------------- MODULE Engine -------------------------------
(***************************************************************************)
(* The Engine handle (src/crates/wamrx/src/engine.rs) and the per-thread   *)
(* execution environment (src/crates/wamrx/src/thread.rs).                 *)
(*                                                                         *)
(* The WAMR runtime is one per process.  Every Engine::new makes an Rc of  *)
(* a fresh EngineInner; a counter behind a mutex counts the EngineInners   *)
(* of all threads, the first initialises the runtime and the last one      *)
(* dropped destroys it.  The steps taken while the mutex is held are       *)
(* separate actions here, so that what other threads can see of a          *)
(* half-done Engine::new or drop is part of the model.                     *)
(***************************************************************************)
EXTENDS Naturals, FiniteSets

CONSTANTS
  Thread,      (* operating-system threads of the host program              *)
  Inner,       (* identities of EngineInner objects, reused once dropped    *)
  NoThread,    (* "no thread"                                               *)
  NoInner,     (* "no EngineInner"                                          *)
  MaxClones    (* bound: clones of one Rc<EngineInner> alive at a time      *)

ASSUME ThreadAssumption == IsFiniteSet(Thread) /\ NoThread \notin Thread
ASSUME InnerAssumption == IsFiniteSet(Inner) /\ NoInner \notin Inner
ASSUME ClonesAssumption == MaxClones \in Nat \ {0}

VARIABLES
  lock,        (* holder of the RUNTIME_REFCOUNT mutex                      *)
  count,       (* the usize behind it                                       *)
  up,          (* external: between wasm_runtime_full_init and _destroy     *)
  rc,          (* strong count of each Rc<EngineInner>: its Engine clones   *)
  owner,       (* thread of each EngineInner: Rc is neither Send nor Sync   *)
  dying,       (* the EngineInner whose Drop each thread is in              *)
  pc,          (* where each thread is in Engine::new or EngineInner::drop  *)
  running,     (* engines of the Wasm calls in progress on each thread      *)
  guard,       (* THREAD_ENV, the thread-local guard, is initialised        *)
  env          (* external: WAMR's execution environment of each thread     *)

engineVars == <<lock, count, up, rc, owner, dying, pc, running>>
vars == <<lock, count, up, rc, owner, dying, pc, running, guard, env>>

NewSteps  == {"newLocked", "newReady"}
DropSteps == {"dropWait", "dropLocked", "dropLast"}
Critical  == {"newLocked", "newReady", "dropLocked", "dropLast"}

TypeOK ==
  /\ lock \in Thread \union {NoThread}
  /\ count \in Nat
  /\ up \in BOOLEAN
  /\ rc \in [Inner -> 0 .. MaxClones]
  /\ owner \in [Inner -> Thread \union {NoThread}]
  /\ dying \in [Thread -> Inner \union {NoInner}]
  /\ pc \in [Thread -> {"idle"} \union NewSteps \union DropSteps]
  /\ running \in [Thread -> SUBSET Inner]
  /\ guard \in [Thread -> BOOLEAN]
  /\ env \in [Thread -> BOOLEAN]

(* The EngineInners the counter stands for, those in their Drop included.  *)
Holders == {e \in Inner : owner[e] # NoThread}

Init ==
  /\ lock = NoThread
  /\ count = 0
  /\ up = FALSE
  /\ rc = [e \in Inner |-> 0]
  /\ owner = [e \in Inner |-> NoThread]
  /\ dying = [t \in Thread |-> NoInner]
  /\ pc = [t \in Thread |-> "idle"]
  /\ running = [t \in Thread |-> {}]
  /\ guard = [t \in Thread |-> FALSE]
  /\ env = [t \in Thread |-> FALSE]

-----------------------------------------------------------------------------
(* Engine::new                                                             *)

(* Bound: an identity is left for the engine about to be made.             *)
InnerAvailable == Inner \ Holders # {}

(* RUNTIME_REFCOUNT.lock().                                                *)
NewLock(t) ==
  /\ pc[t] = "idle"
  /\ InnerAvailable
  /\ lock = NoThread
  /\ lock' = t
  /\ pc' = [pc EXCEPT ![t] = "newLocked"]
  /\ UNCHANGED <<count, up, rc, owner, dying, running, guard, env>>

(* External: wasm_runtime_full_init, which also sets up the environment    *)
(* of the thread that calls it.                                            *)
FullInit(t) == up' = TRUE /\ env' = [env EXCEPT ![t] = TRUE]

(* The counter is zero: initialise the runtime.                            *)
NewInit(t) ==
  /\ pc[t] = "newLocked"
  /\ count = 0
  /\ FullInit(t)
  /\ pc' = [pc EXCEPT ![t] = "newReady"]
  /\ UNCHANGED <<lock, count, rc, owner, dying, running, guard>>

(* wasm_runtime_full_init fails: Err(RuntimeInit), and the guard of the    *)
(* mutex is dropped on the way out.                                        *)
NewInitFail(t) ==
  /\ pc[t] = "newLocked"
  /\ count = 0
  /\ lock' = NoThread
  /\ pc' = [pc EXCEPT ![t] = "idle"]
  /\ UNCHANGED <<count, up, rc, owner, dying, running, guard, env>>

(* The counter is positive: the runtime is up already.                     *)
NewSkipInit(t) ==
  /\ pc[t] = "newLocked"
  /\ count > 0
  /\ pc' = [pc EXCEPT ![t] = "newReady"]
  /\ UNCHANGED <<lock, count, up, rc, owner, dying, running, guard, env>>

(* Mutant: the engine is handed out without being counted.                 *)
NewFinishUncounted(t) ==
  /\ pc[t] = "newReady"
  /\ \E e \in Inner \ Holders :
       /\ rc' = [rc EXCEPT ![e] = 1]
       /\ owner' = [owner EXCEPT ![e] = t]
  /\ lock' = NoThread
  /\ pc' = [pc EXCEPT ![t] = "idle"]
  /\ UNCHANGED <<count, up, dying, running, guard, env>>

(* Count the new engine, build its Rc and leave the critical section.      *)
NewFinish(t) ==
  /\ pc[t] = "newReady"
  /\ count' = count + 1
  /\ \E e \in Inner \ Holders :
       /\ rc' = [rc EXCEPT ![e] = 1]
       /\ owner' = [owner EXCEPT ![e] = t]
  /\ lock' = NoThread
  /\ pc' = [pc EXCEPT ![t] = "idle"]
  /\ UNCHANGED <<up, dying, running, guard, env>>

-----------------------------------------------------------------------------
(* Clones of an Engine, and the Drop of its EngineInner                    *)

(* #[derive(Clone)]: Rc::clone, no counting in RUNTIME_REFCOUNT.           *)
Clone(t, e) ==
  /\ pc[t] = "idle"
  /\ owner[e] = t
  /\ rc[e] \in 1 .. MaxClones - 1
  /\ rc' = [rc EXCEPT ![e] = @ + 1]
  /\ UNCHANGED <<lock, count, up, owner, dying, pc, running, guard, env>>

(* Mutant: every handle dropped ends the EngineInner.                      *)
DropHandleUnshared(t, e) ==
  /\ pc[t] = "idle"
  /\ owner[e] = t
  /\ rc[e] > 0
  /\ rc[e] = 1 => e \notin running[t]
  /\ rc' = [rc EXCEPT ![e] = @ - 1]
  /\ pc' = [pc EXCEPT ![t] = "dropWait"]
  /\ dying' = [dying EXCEPT ![t] = e]
  /\ UNCHANGED <<lock, count, up, owner, running, guard, env>>

(* A clone of the handle is dropped; the last one runs EngineInner::drop.  *)
(* A call in progress borrows its instance, and with it a clone.           *)
DropHandle(t, e) ==
  /\ pc[t] = "idle"
  /\ owner[e] = t
  /\ rc[e] > 0
  /\ rc[e] = 1 => e \notin running[t]
  /\ rc' = [rc EXCEPT ![e] = @ - 1]
  /\ IF rc[e] = 1
     THEN pc' = [pc EXCEPT ![t] = "dropWait"] /\ dying' = [dying EXCEPT ![t] = e]
     ELSE UNCHANGED <<pc, dying>>
  /\ UNCHANGED <<lock, count, up, owner, running, guard, env>>

DropLock(t) ==
  /\ pc[t] = "dropWait"
  /\ lock = NoThread
  /\ lock' = t
  /\ pc' = [pc EXCEPT ![t] = "dropLocked"]
  /\ UNCHANGED <<count, up, rc, owner, dying, running, guard, env>>

(* Mutant: the mutex is released before the runtime is destroyed.          *)
DropDecrementUnlocks(t) ==
  /\ pc[t] = "dropLocked"
  /\ count' = count - 1
  /\ owner' = [owner EXCEPT ![dying[t]] = NoThread]
  /\ dying' = [dying EXCEPT ![t] = NoInner]
  /\ lock' = NoThread
  /\ pc' = [pc EXCEPT ![t] = IF count' = 0 THEN "dropLast" ELSE "idle"]
  /\ UNCHANGED <<up, rc, running, guard, env>>

(* *count -= 1; a counter that is not zero ends the Drop.                  *)
DropDecrement(t) ==
  /\ pc[t] = "dropLocked"
  /\ count' = count - 1
  /\ owner' = [owner EXCEPT ![dying[t]] = NoThread]
  /\ dying' = [dying EXCEPT ![t] = NoInner]
  /\ IF count' = 0
     THEN pc' = [pc EXCEPT ![t] = "dropLast"] /\ UNCHANGED lock
     ELSE pc' = [pc EXCEPT ![t] = "idle"] /\ lock' = NoThread
  /\ UNCHANGED <<up, rc, running, guard, env>>

(* Mutant: the last engine goes and the runtime stays.                     *)
DropKeepsRuntime(t) ==
  /\ pc[t] = "dropLast"
  /\ lock' = NoThread
  /\ pc' = [pc EXCEPT ![t] = "idle"]
  /\ UNCHANGED <<count, up, rc, owner, dying, running, guard, env>>

(* External: wasm_runtime_destroy, undoing wasm_runtime_full_init, on the  *)
(* thread that drops the last engine.                                      *)
RuntimeDestroy(t) == up' = FALSE /\ env' = [env EXCEPT ![t] = FALSE]

DropDestroy(t) ==
  /\ pc[t] = "dropLast"
  /\ RuntimeDestroy(t)
  /\ lock' = NoThread
  /\ pc' = [pc EXCEPT ![t] = "idle"]
  /\ UNCHANGED <<count, rc, owner, dying, running, guard>>

-----------------------------------------------------------------------------
(* thread.rs                                                               *)

(* Instance::new and Func::call start with ensure_thread_env: the guard of *)
(* the thread is built, and WAMR's environment with it, unless the thread  *)
(* built it before.  Then Wasm runs on the thread.  Its host functions may *)
(* make and drop engines and start further calls.                          *)
EnterWasm(t, e) ==
  /\ pc[t] = "idle"
  /\ owner[e] = t
  /\ rc[e] > 0
  /\ e \notin running[t]
  /\ guard' = [guard EXCEPT ![t] = TRUE]
  /\ IF guard[t] THEN UNCHANGED env ELSE env' = [env EXCEPT ![t] = TRUE]
  /\ running' = [running EXCEPT ![t] = @ \union {e}]
  /\ UNCHANGED <<lock, count, up, rc, owner, dying, pc>>

LeaveWasm(t, e) ==
  /\ pc[t] = "idle"
  /\ e \in running[t]
  /\ running' = [running EXCEPT ![t] = @ \ {e}]
  /\ UNCHANGED <<lock, count, up, rc, owner, dying, pc, guard, env>>

(* The thread ends, its engines gone, and ThreadEnvGuard::drop tears its   *)
(* environment down.  A later thread may take the same identity.           *)
ThreadExit(t) ==
  /\ pc[t] = "idle"
  /\ \A e \in Inner : owner[e] # t
  /\ guard[t] \/ env[t]
  /\ guard' = [guard EXCEPT ![t] = FALSE]
  /\ env' = [env EXCEPT ![t] = FALSE]
  /\ UNCHANGED engineVars

-----------------------------------------------------------------------------
(* The steps a thread takes without waiting for its user's next call.      *)
Progress(t) ==
  \/ NewInit(t) \/ NewInitFail(t) \/ NewSkipInit(t) \/ NewFinish(t)
  \/ DropLock(t) \/ DropDecrement(t) \/ DropDestroy(t)

UserStep(t) ==
  \/ NewLock(t)
  \/ \E e \in Inner : \/ Clone(t, e) \/ DropHandle(t, e)
                      \/ EnterWasm(t, e) \/ LeaveWasm(t, e)
  \/ ThreadExit(t)

Next == \E t \in Thread : Progress(t) \/ UserStep(t)

(* A runnable thread is scheduled, and a free mutex is eventually granted  *)
(* to a thread that keeps waiting for it; a mutex that others keep taking  *)
(* is not (std::sync::Mutex promises no order), so weak fairness it is.    *)
Fairness == \A t \in Thread : WF_vars(Progress(t))

SafeSpec == Init /\ [][Next]_vars
Spec == SafeSpec /\ Fairness

-----------------------------------------------------------------------------
(* Properties                                                              *)

(* The counter behind the mutex is the number of EngineInner objects of    *)
(* all threads at every step, inside a Drop or an Engine::new included: a  *)
(* race between the last drop of one thread and the first engine of        *)
(* another may not lose a count (engine.rs:8-11).                          *)
CountExact == count = Cardinality(Holders)

(* Whoever can reach a live Engine finds the runtime up, whatever other    *)
(* threads are doing with theirs (engine.rs:20, 29-30).                    *)
UpWhileHeld == \A e \in Inner : rc[e] > 0 => up

(* wasm_runtime_full_init runs only on a runtime that is down: a thread    *)
(* past the lock that finds the counter at zero does not initialise the    *)
(* runtime a second time (engine.rs:50-57).                                *)
InitOnlyWhenDown ==
  \A t \in Thread : pc[t] = "newLocked" /\ count = 0 => ~up

(* wasm_runtime_destroy runs on an idle runtime only: no engine is alive   *)
(* on any thread and none runs Wasm (the SAFETY comment, engine.rs:20-21). *)
IdleAtTeardown ==
  [][up /\ ~up' => /\ \A e \in Inner : rc[e] = 0
                   /\ \A t \in Thread : running[t] = {}]_vars

(* Engine.tla implements the promise of RuntimeLifetime.tla, its liveness  *)
(* included: the runtime is never left running with nobody holding it.     *)
Lifetime == INSTANCE RuntimeLifetime WITH holders <- Holders
ImplementsLifetime == Lifetime!Spec

(* The safety part of it, as an action property.                           *)
ImplementsLifetimeSafety == Lifetime!SafeSpec

(* The contract of thread.rs:3-5 and 40: a thread that runs Wasm has its   *)
(* WAMR environment initialised.                                           *)
EnvReady == \A t \in Thread : running[t] # {} => env[t]

(* What ensures UpWhileHeld and the rest; it is inductive.                 *)
MutexInv ==
  \A t \in Thread : lock = t <=> pc[t] \in Critical

DyingInv ==
  \A t \in Thread :
    IF pc[t] \in {"dropWait", "dropLocked"}
    THEN dying[t] \in Inner /\ owner[dying[t]] = t /\ rc[dying[t]] = 0
    ELSE dying[t] = NoInner

HeldInv == \A e \in Inner : rc[e] > 0 => owner[e] \in Thread

OnlyLastInv == \A t \in Thread : pc[t] = "dropLast" => count = 0

UpInv ==
  up <=> \/ count > 0
         \/ \E t \in Thread : pc[t] \in {"newReady", "dropLast"}

RunningInv ==
  \A t \in Thread : \A e \in running[t] : owner[e] = t /\ rc[e] > 0

IInv ==
  /\ TypeOK
  /\ CountExact
  /\ MutexInv
  /\ DyingInv
  /\ HeldInv
  /\ OnlyLastInv
  /\ UpInv
  /\ RunningInv

=============================================================================
