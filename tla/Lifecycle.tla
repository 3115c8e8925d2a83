------------------------------ MODULE Lifecycle ------------------------------
(***************************************************************************)
(* Who keeps what alive: engines, linkers, modules, instances and the host *)
(* functions they call (src/crates/wamrx/src/module.rs, linker.rs,         *)
(* instance.rs, on top of engine.rs).                                      *)
(*                                                                         *)
(* Each Rust object owns objects of the C runtime.  Dropping one runs its  *)
(* Drop and then the drop glue of its fields, in the order they are        *)
(* declared; every step of that is an action here, and the thread does     *)
(* nothing else until the last one.  The runtime itself is the one of      *)
(* RuntimeLifetime.tla, which Engine.tla implements.                       *)
(*                                                                         *)
(* Host functions are kept in a registry of the whole process.  All of     *)
(* them are registered here under the one name that modules import: the    *)
(* import of a module is resolved when the module is loaded, to an entry   *)
(* that is registered at that time, whichever linker or thread it is from. *)
(***************************************************************************)
EXTENDS Naturals, Sequences, FiniteSets

CONSTANTS
  Thread,      (* threads that use the crate                               *)
  Inner,       (* reference-counted engines (EngineInner)                  *)
  Home,        (* the thread of each engine, and of all that is made of it *)
  Linker,      (* LinkerState objects                                      *)
  Slot,        (* bound: host functions of one linker                      *)
  Module,
  Instance,
  NoInner, NoLinker, NoModule, NoEntry,
  MaxDepth     (* bound: host functions in progress on one thread          *)

ASSUME HomeAssumption == Home \in [Inner -> Thread]
ASSUME NoneAssumption ==
  NoInner \notin Inner /\ NoLinker \notin Linker /\ NoModule \notin Module
ASSUME EntryAssumption == NoEntry \notin Linker \X Slot
ASSUME DepthAssumption == MaxDepth \in Nat

(* A NativeEntry, named by the LinkerState that stores it.                 *)
Entry == Linker \X Slot
LinkerOf(x) == x[1]

VARIABLES
  holders, up,   (* the engines alive and the runtime: RuntimeLifetime.tla  *)
  user,          (* engines of which the program holds an Engine            *)
  handle,        (* linkers of which the program holds the Linker           *)
  lkSt, lkEng,   (* LinkerState: phase, and the engine in _engine           *)
  stored,        (* entries whose storage is allocated                      *)
  modSt, modEng, (* Module: phase, and its engine                           *)
  bytes,         (* modules whose _bytes are allocated                      *)
  inSt,          (* Instance: phase                                         *)
  inMod, inLk,   (* its _module and _linker_state                           *)
  frames,        (* instances whose host call is in progress, per thread    *)
  registry,      (* external: entries registered with WAMR                  *)
  loaded,        (* external: modules loaded in WAMR                        *)
  resolved,      (* external: the entry the import of a module is bound to  *)
  insts, envs    (* external: module instances, execution environments      *)

runtimeVars == <<holders, up>>
linkerVars == <<handle, lkSt, lkEng, stored, registry>>
moduleVars == <<modSt, modEng, bytes, loaded, resolved>>
instanceVars == <<inSt, inMod, inLk, insts, envs>>
vars == <<runtimeVars, user, linkerVars, moduleVars, instanceVars, frames>>

ModuleDrops == {"unload", "bytes", "engine"}
LinkerDrops == {"unregister", "engine", "entries"}
InstanceDrops == {"exec_env", "module_inst", "linker"}

TypeOK ==
  /\ holders \subseteq Inner /\ up \in BOOLEAN /\ user \subseteq Inner
  /\ handle \subseteq Linker
  /\ lkSt \in [Linker -> {"none", "live"} \union LinkerDrops]
  /\ lkEng \in [Linker -> Inner \union {NoInner}]
  /\ stored \subseteq Entry /\ registry \subseteq Entry
  /\ modSt \in [Module -> {"none", "user", "moved"} \union ModuleDrops]
  /\ modEng \in [Module -> Inner \union {NoInner}]
  /\ bytes \subseteq Module /\ loaded \subseteq Module
  /\ resolved \in [Module -> Entry \union {NoEntry}]
  /\ inSt \in [Instance -> {"none", "starting", "ready"} \union InstanceDrops]
  /\ inMod \in [Instance -> Module \union {NoModule}]
  /\ inLk \in [Instance -> Linker \union {NoLinker}]
  /\ insts \subseteq Instance /\ envs \subseteq Instance
  /\ frames \in [Thread -> Seq(Instance)]

Init ==
  /\ holders = {} /\ up = FALSE /\ user = {}
  /\ handle = {}
  /\ lkSt = [l \in Linker |-> "none"] /\ lkEng = [l \in Linker |-> NoInner]
  /\ stored = {} /\ registry = {}
  /\ modSt = [m \in Module |-> "none"] /\ modEng = [m \in Module |-> NoInner]
  /\ bytes = {} /\ loaded = {} /\ resolved = [m \in Module |-> NoEntry]
  /\ inSt = [i \in Instance |-> "none"]
  /\ inMod = [i \in Instance |-> NoModule] /\ inLk = [i \in Instance |-> NoLinker]
  /\ insts = {} /\ envs = {}
  /\ frames = [t \in Thread |-> <<>>]

-----------------------------------------------------------------------------
(* Threads                                                                 *)

(* All objects are neither Send nor Sync: they stay on one thread.         *)
LinkerOn(l, t) == lkEng[l] \in Inner /\ Home[lkEng[l]] = t
ModuleOn(m, t) == modEng[m] \in Inner /\ Home[modEng[m]] = t
InstanceOn(i, t) == inLk[i] \in Linker /\ LinkerOn(inLk[i], t)

InFrame(i, t) == \E k \in DOMAIN frames[t] : frames[t][k] = i

ModuleDropping(t) == \E m \in Module : modSt[m] \in ModuleDrops /\ ModuleOn(m, t)

(* Thread t is inside a Drop or the drop glue after it.                    *)
Dropping(t) ==
  \/ ModuleDropping(t)
  \/ \E l \in Linker : lkSt[l] \in LinkerDrops /\ LinkerOn(l, t)
  \/ \E i \in Instance : inSt[i] \in InstanceDrops /\ InstanceOn(i, t)

(* Thread t runs the start function of i.                                  *)
Starting(i, t) == inSt[i] = "starting" /\ InstanceOn(i, t) /\ ~InFrame(i, t)

(* Thread t runs the program's own code, in a host function or outside.    *)
Free(t) == ~Dropping(t) /\ \A i \in Instance : ~Starting(i, t)

(* Instance::new borrows the Linker while it runs the start function.      *)
Borrowed(l) == \E i \in Instance : inSt[i] = "starting" /\ inLk[i] = l

-----------------------------------------------------------------------------
(* Engines                                                                 *)

Runtime == INSTANCE RuntimeLifetime

(* Mutant: only the program's own handles count.                           *)
ReferencedByUser(e) == e \in user

(* Rc<EngineInner>: the clones of the program, of modules and of linkers.  *)
Referenced(e) ==
  \/ e \in user
  \/ \E m \in Module : modEng[m] = e
  \/ \E l \in Linker : lkEng[l] = e /\ lkSt[l] # "entries"

(* A clone of engine e is dropped, and EngineInner::drop runs if it was    *)
(* the last.                                                               *)
DropEngineClone(e) ==
  IF Referenced(e)' THEN UNCHANGED runtimeVars ELSE Runtime!Release(e)

(* An identity is free for a new engine once nothing mentions the old one. *)
NewEngine(e) ==
  /\ Free(Home[e])
  /\ \A l \in Linker : lkEng[l] # e
  /\ Runtime!Acquire(e)
  /\ user' = user \union {e}
  /\ UNCHANGED <<linkerVars, moduleVars, instanceVars, frames>>

DropEngine(e) ==
  /\ e \in user /\ Free(Home[e])
  /\ user' = user \ {e}
  /\ UNCHANGED <<linkerVars, moduleVars, instanceVars, frames>>
  /\ DropEngineClone(e)

(* module.engine().clone(), for a module the program has not given away.   *)
CloneEngineOfModule(m) ==
  /\ modSt[m] = "user" /\ Free(Home[modEng[m]])
  /\ user' = user \union {modEng[m]}
  /\ UNCHANGED <<runtimeVars, linkerVars, moduleVars, instanceVars, frames>>

(* What Engine.tla does of its own accord, inside Engine::new and drop.    *)
RuntimeStep ==
  /\ Runtime!Boot \/ Runtime!Shutdown
  /\ UNCHANGED <<user, linkerVars, moduleVars, instanceVars, frames>>

-----------------------------------------------------------------------------
(* Linkers                                                                 *)

(* A new identity: no loaded module is bound to a host function of the     *)
(* LinkerState that had it before.                                         *)
NewLinker(l, e) ==
  /\ e \in user /\ Free(Home[e])
  /\ lkSt[l] = "none"
  /\ \A m \in loaded : resolved[m] \in Entry => LinkerOf(resolved[m]) # l
  /\ handle' = handle \union {l}
  /\ lkSt' = [lkSt EXCEPT ![l] = "live"]
  /\ lkEng' = [lkEng EXCEPT ![l] = e]
  /\ UNCHANGED <<runtimeVars, user, stored, registry, moduleVars, instanceVars, frames>>

(* NativeEntry::register: the entry is built and registered with WAMR.  A  *)
(* registration that fails leaves nothing behind.                          *)
Register(x) == stored' = stored \union {x} /\ registry' = registry \union {x}

(* define_func; the entry stays where it is when it is pushed.             *)
DefineFunc(x) ==
  LET l == LinkerOf(x) IN
  /\ l \in handle /\ Free(Home[lkEng[l]]) /\ ~Borrowed(l)
  /\ x \notin stored
  /\ Register(x)
  /\ UNCHANGED <<runtimeVars, user, handle, lkSt, lkEng, moduleVars, instanceVars, frames>>

(* Mutant: instances do not share the LinkerState.                         *)
LinkerHeldByHandle(l) == l \in handle

(* Rc<LinkerState>: the Linker and the instances made with it.             *)
LinkerHeld(l) == l \in handle \/ \E i \in Instance : inLk[i] = l

(* The Linker is dropped; the LinkerState goes with it unless instances    *)
(* still hold it.                                                          *)
DropLinker(l) ==
  /\ l \in handle /\ Free(Home[lkEng[l]]) /\ ~Borrowed(l)
  /\ handle' = handle \ {l}
  /\ UNCHANGED inLk
  /\ lkSt' = IF LinkerHeld(l)' THEN lkSt ELSE [lkSt EXCEPT ![l] = "unregister"]
  /\ UNCHANGED <<runtimeVars, user, lkEng, stored, registry, moduleVars,
                 inSt, inMod, insts, envs, frames>>

(* Mutant: the loop over the entries stops after the first.                *)
UnregisterOne(l) ==
  /\ lkSt[l] = "unregister"
  /\ \E x \in Entry : LinkerOf(x) = l /\ registry' = registry \ {x}
  /\ lkSt' = [lkSt EXCEPT ![l] = "engine"]
  /\ UNCHANGED <<runtimeVars, user, handle, lkEng, stored, moduleVars, instanceVars, frames>>

(* The loop of LinkerState::drop, one entry at a time.                     *)
Unregister(l) ==
  /\ lkSt[l] = "unregister"
  /\ \/ \E x \in stored \intersect registry :
          /\ LinkerOf(x) = l
          /\ registry' = registry \ {x}
          /\ UNCHANGED lkSt
     \/ /\ \A x \in stored \intersect registry : LinkerOf(x) # l
        /\ lkSt' = [lkSt EXCEPT ![l] = "engine"]
        /\ UNCHANGED registry
  /\ UNCHANGED <<runtimeVars, user, handle, lkEng, stored, moduleVars, instanceVars, frames>>

(* Its fields follow: _engine ...                                          *)
DropLinkerEngine(l) ==
  /\ lkSt[l] = "engine"
  /\ lkSt' = [lkSt EXCEPT ![l] = "entries"]
  /\ UNCHANGED <<user, handle, lkEng, stored, registry, moduleVars, instanceVars, frames>>
  /\ \E e \in {lkEng[l]} : DropEngineClone(e)

(* ... and entries.                                                        *)
FreeEntries(l) ==
  /\ lkSt[l] = "entries"
  /\ stored' = {x \in stored : LinkerOf(x) # l}
  /\ lkSt' = [lkSt EXCEPT ![l] = "none"]
  /\ lkEng' = [lkEng EXCEPT ![l] = NoInner]
  /\ UNCHANGED <<runtimeVars, user, handle, registry, moduleVars, instanceVars, frames>>

-----------------------------------------------------------------------------
(* Modules                                                                 *)

(* Module::new.  The import is bound to a registered entry; NoEntry stands *)
(* for a module without import, or with one that is not found.  A module   *)
(* that does not load leaves nothing behind.                               *)
NewModule(m, e) ==
  /\ e \in user /\ Free(Home[e])
  /\ modSt[m] = "none"
  /\ bytes' = bytes \union {m}
  /\ loaded' = loaded \union {m}
  /\ \E x \in registry \union {NoEntry} : resolved' = [resolved EXCEPT ![m] = x]
  /\ modSt' = [modSt EXCEPT ![m] = "user"]
  /\ modEng' = [modEng EXCEPT ![m] = e]
  /\ UNCHANGED <<runtimeVars, user, linkerVars, instanceVars, frames>>

DropModule(m) ==
  /\ modSt[m] = "user" /\ Free(Home[modEng[m]])
  /\ modSt' = [modSt EXCEPT ![m] = "unload"]
  /\ UNCHANGED <<runtimeVars, user, linkerVars, modEng, bytes, loaded, resolved,
                 instanceVars, frames>>

(* Module::drop ...                                                        *)
Unload(m) ==
  /\ modSt[m] = "unload"
  /\ loaded' = loaded \ {m}
  /\ resolved' = [resolved EXCEPT ![m] = NoEntry]
  /\ modSt' = [modSt EXCEPT ![m] = "bytes"]
  /\ UNCHANGED <<runtimeVars, user, linkerVars, modEng, bytes, instanceVars, frames>>

(* ... and its fields: _bytes ...                                          *)
FreeBytes(m) ==
  /\ modSt[m] = "bytes"
  /\ bytes' = bytes \ {m}
  /\ modSt' = [modSt EXCEPT ![m] = "engine"]
  /\ UNCHANGED <<runtimeVars, user, linkerVars, modEng, loaded, resolved, instanceVars, frames>>

(* ... and engine.                                                         *)
DropModuleEngine(m) ==
  /\ modSt[m] = "engine"
  /\ modSt' = [modSt EXCEPT ![m] = "none"]
  /\ modEng' = [modEng EXCEPT ![m] = NoInner]
  /\ UNCHANGED <<user, linkerVars, bytes, loaded, resolved, instanceVars, frames>>
  /\ \E e \in {modEng[m]} : DropEngineClone(e)

-----------------------------------------------------------------------------
(* Instances                                                               *)

(* instantiate_with, Instance::new: the module moves in, the LinkerState   *)
(* is shared, and WAMR makes the instance and runs its start function.     *)
Instantiate(i, m, l) ==
  /\ inSt[i] = "none"
  /\ modSt[m] = "user" /\ l \in handle
  /\ Home[modEng[m]] = Home[lkEng[l]] /\ Free(Home[lkEng[l]])
  /\ modSt' = [modSt EXCEPT ![m] = "moved"]
  /\ inSt' = [inSt EXCEPT ![i] = "starting"]
  /\ inMod' = [inMod EXCEPT ![i] = m]
  /\ inLk' = [inLk EXCEPT ![i] = l]
  /\ insts' = insts \union {i}
  /\ UNCHANGED <<runtimeVars, user, linkerVars, modEng, bytes, loaded, resolved, envs, frames>>

(* The execution environment is made, and the Instance handed out.         *)
InstanceReady(i, t) ==
  /\ Starting(i, t) /\ ~Dropping(t)
  /\ inSt' = [inSt EXCEPT ![i] = "ready"]
  /\ envs' = envs \union {i}
  /\ UNCHANGED <<runtimeVars, user, linkerVars, moduleVars, inMod, inLk, insts, frames>>

(* Instance::new returns Err: the module it was given is dropped, and its  *)
(* share of the LinkerState, which the borrowed Linker outlives.           *)
Abandon(i) ==
  /\ inSt' = [inSt EXCEPT ![i] = "none"]
  /\ modSt' = [modSt EXCEPT ![inMod[i]] = "unload"]
  /\ inMod' = [inMod EXCEPT ![i] = NoModule]
  /\ inLk' = [inLk EXCEPT ![i] = NoLinker]
  /\ UNCHANGED <<runtimeVars, user, linkerVars, modEng, bytes, loaded, resolved, envs, frames>>

(* wasm_runtime_instantiate fails, its start function included: WAMR has   *)
(* taken the instance back.                                                *)
InstantiateFails(i, t) ==
  /\ Starting(i, t) /\ ~Dropping(t)
  /\ insts' = insts \ {i}
  /\ Abandon(i)

(* Mutant: the error path forgets the instance.                            *)
ExecEnvFailsLeaks(i, t) ==
  /\ Starting(i, t) /\ ~Dropping(t)
  /\ UNCHANGED insts
  /\ Abandon(i)

(* wasm_runtime_create_exec_env fails: the instance is deinstantiated.     *)
ExecEnvFails(i, t) ==
  /\ Starting(i, t) /\ ~Dropping(t)
  /\ insts' = insts \ {i}
  /\ Abandon(i)

(* The program drops an Instance that no call borrows.                     *)
DropInstance(i, t) ==
  /\ inSt[i] = "ready" /\ InstanceOn(i, t) /\ ~InFrame(i, t) /\ Free(t)
  /\ inSt' = [inSt EXCEPT ![i] = "exec_env"]
  /\ UNCHANGED <<runtimeVars, user, linkerVars, moduleVars, inMod, inLk, insts, envs, frames>>

(* Instance::drop ...                                                      *)
DestroyExecEnv(i) ==
  /\ inSt[i] = "exec_env"
  /\ envs' = envs \ {i}
  /\ inSt' = [inSt EXCEPT ![i] = "module_inst"]
  /\ UNCHANGED <<runtimeVars, user, linkerVars, moduleVars, inMod, inLk, insts, frames>>

(* Mutant: the instance is left to the module.                             *)
DeinstantiateForgotten(i) ==
  /\ inSt[i] = "module_inst"
  /\ inSt' = [inSt EXCEPT ![i] = "linker"]
  /\ modSt' = [modSt EXCEPT ![inMod[i]] = "unload"]
  /\ inMod' = [inMod EXCEPT ![i] = NoModule]
  /\ UNCHANGED <<runtimeVars, user, linkerVars, modEng, bytes, loaded, resolved, inLk, insts,
                 envs, frames>>

(* ... to its end; the field _module is dropped next ...                   *)
Deinstantiate(i) ==
  /\ inSt[i] = "module_inst"
  /\ insts' = insts \ {i}
  /\ inSt' = [inSt EXCEPT ![i] = "linker"]
  /\ modSt' = [modSt EXCEPT ![inMod[i]] = "unload"]
  /\ inMod' = [inMod EXCEPT ![i] = NoModule]
  /\ UNCHANGED <<runtimeVars, user, linkerVars, modEng, bytes, loaded, resolved, inLk, envs, frames>>

(* Mutant: only the drop of a Linker ends its LinkerState.                 *)
DropLinkerShareKeeps(i, t) ==
  /\ inSt[i] = "linker" /\ InstanceOn(i, t) /\ ~ModuleDropping(t)
  /\ inSt' = [inSt EXCEPT ![i] = "none"]
  /\ inLk' = [inLk EXCEPT ![i] = NoLinker]
  /\ UNCHANGED <<runtimeVars, user, linkerVars, moduleVars, inMod, insts, envs, frames>>

(* ... and, the module gone, _linker_state, perhaps the last share of it.  *)
DropLinkerShare(i, t) ==
  /\ inSt[i] = "linker" /\ InstanceOn(i, t) /\ ~ModuleDropping(t)
  /\ inSt' = [inSt EXCEPT ![i] = "none"]
  /\ inLk' = [inLk EXCEPT ![i] = NoLinker]
  /\ UNCHANGED handle
  /\ \E l \in {inLk[i]} :
       lkSt' = IF LinkerHeld(l)' THEN lkSt ELSE [lkSt EXCEPT ![l] = "unregister"]
  /\ UNCHANGED <<runtimeVars, user, lkEng, stored, registry, moduleVars, inMod, insts, envs, frames>>

-----------------------------------------------------------------------------
(* Host functions                                                          *)

(* Wasm of instance i calls its import, from an exported function that the *)
(* program called or from the start function: the trampoline finds the     *)
(* entry by the attachment WAMR bound at load time.                        *)
CallHost(i, t) ==
  /\ \/ inSt[i] = "ready" /\ InstanceOn(i, t) /\ Free(t)
     \/ Starting(i, t) /\ ~Dropping(t)
  /\ resolved[inMod[i]] # NoEntry
  /\ Len(frames[t]) < MaxDepth
  /\ frames' = [frames EXCEPT ![t] = Append(@, i)]
  /\ UNCHANGED <<runtimeVars, user, linkerVars, moduleVars, instanceVars>>

(* The innermost host function returns; a panic of it is caught and        *)
(* returns as well.                                                        *)
HostReturns(t) ==
  /\ frames[t] # <<>> /\ Free(t)
  /\ frames' = [frames EXCEPT ![t] = SubSeq(@, 1, Len(@) - 1)]
  /\ UNCHANGED <<runtimeVars, user, linkerVars, moduleVars, instanceVars>>

-----------------------------------------------------------------------------
(* The steps thread t takes of its own accord, in a Drop and its glue.     *)
DropStep(t) ==
  \/ \E l \in Linker : LinkerOn(l, t) /\ (Unregister(l) \/ DropLinkerEngine(l) \/ FreeEntries(l))
  \/ \E m \in Module : ModuleOn(m, t) /\ (Unload(m) \/ FreeBytes(m) \/ DropModuleEngine(m))
  \/ \E i \in Instance : \/ InstanceOn(i, t) /\ (DestroyExecEnv(i) \/ Deinstantiate(i))
                         \/ DropLinkerShare(i, t)

(* The end of Instance::new, once its start function has returned.         *)
NewEnds(t) ==
  \E i \in Instance : InstanceReady(i, t) \/ InstantiateFails(i, t) \/ ExecEnvFails(i, t)

UserStep ==
  \/ \E e \in Inner : \/ NewEngine(e) \/ DropEngine(e)
                      \/ \E l \in Linker : NewLinker(l, e)
                      \/ \E m \in Module : NewModule(m, e)
  \/ \E l \in Linker : DropLinker(l)
  \/ \E x \in Entry : DefineFunc(x)
  \/ \E m \in Module : CloneEngineOfModule(m) \/ DropModule(m)
  \/ \E i \in Instance, m \in Module, l \in Linker : Instantiate(i, m, l)

WasmStep(t) ==
  \/ \E i \in Instance : DropInstance(i, t) \/ CallHost(i, t)
  \/ HostReturns(t)

Next ==
  \/ RuntimeStep
  \/ UserStep
  \/ \E t \in Thread : DropStep(t) \/ NewEnds(t) \/ WasmStep(t)

(* A thread in a Drop runs on, and a runtime nobody holds is torn down,    *)
(* which is what Engine.tla guarantees.                                    *)
Fairness ==
  /\ \A t \in Thread : WF_vars(DropStep(t))
  /\ WF_vars(RuntimeStep /\ Runtime!Shutdown)

SafeSpec == Init /\ [][Next]_vars
Spec == SafeSpec /\ Fairness

-----------------------------------------------------------------------------
(* Properties                                                              *)

(* No object of the C runtime outlives the runtime: it is up while a       *)
(* module is loaded, an instance or an execution environment exists or a   *)
(* host function is registered, through every order of drops               *)
(* (engine.rs:20-21, module.rs:19-20, linker.rs:110).                      *)
RuntimeCovers == loaded # {} \/ insts # {} \/ envs # {} \/ registry # {} => up

(* Each object of the C runtime is torn down before what it points into:   *)
(* the execution environment before the instance, the instance before the  *)
(* module, the module before its bytes (module.rs:12-20, instance.rs:23,   *)
(* 166-168).                                                               *)
InstanceModule(i) == inMod[i] \in loaded
Backed ==
  /\ envs \subseteq insts
  /\ \A i \in insts : InstanceModule(i)
  /\ loaded \subseteq bytes

(* WAMR's registry points only into entries that are still allocated       *)
(* (linker.rs:82-83, 118-119).                                             *)
RegistryBacked == registry \subseteq stored

(* A host function of the linker an instance was made with stays allocated *)
(* as long as the instance, or its start function, can call it, whatever   *)
(* becomes of the Linker (instance.rs:25-26, linker.rs:107-108).           *)
Callable(i) == inSt[i] \in {"starting", "ready"} /\ resolved[inMod[i]] # NoEntry
OwnFuncsAlive ==
  \A i \in Instance :
    Callable(i) /\ LinkerOf(resolved[inMod[i]]) = inLk[i] => resolved[inMod[i]] \in stored

(* Nothing is left of the C runtime's objects, and no engine is counted,   *)
(* once the program has dropped all it had and the drops are over.         *)
NothingHeld ==
  /\ user = {} /\ handle = {}
  /\ \A m \in Module : modSt[m] # "user"
  /\ \A i \in Instance : inSt[i] \notin {"starting", "ready"}
NoLeak ==
  NothingHeld /\ (\A t \in Thread : ~Dropping(t)) =>
    /\ holders = {}
    /\ stored = {} /\ registry = {}
    /\ loaded = {} /\ bytes = {} /\ insts = {} /\ envs = {}

(* What ensures the invariants above; it is inductive.                     *)

(* The engines that RuntimeLifetime counts are those that clones exist of. *)
EngineInv ==
  /\ holders # {} => up
  /\ holders = {e \in Inner : Referenced(e)}

(* A LinkerState lives while it is shared; its entries go in two steps.    *)
LinkerInv ==
  \A l \in Linker :
    /\ lkSt[l] = "none" <=> lkEng[l] = NoInner
    /\ lkSt[l] = "live" <=> LinkerHeld(l)

EntryInv ==
  /\ \A x \in stored : lkSt[LinkerOf(x)] # "none"
  /\ \A x \in registry : x \in stored /\ lkSt[LinkerOf(x)] \in {"live", "unregister"}

(* The phase of a module says which of its parts are left, and one in an   *)
(* instance is in that one only.                                           *)
ModuleInv ==
  \A m \in Module :
    /\ modSt[m] = "none" <=> modEng[m] = NoInner
    /\ m \in loaded <=> modSt[m] \in {"user", "moved", "unload"}
    /\ m \in bytes <=> modSt[m] \in {"user", "moved", "unload", "bytes"}
    /\ modSt[m] = "moved" <=> \E i \in Instance : inMod[i] = m
    /\ \A i, j \in Instance : inMod[i] = m /\ inMod[j] = m => i = j

InstanceInv ==
  \A i \in Instance :
    /\ inSt[i] = "none" <=> inLk[i] = NoLinker
    /\ inMod[i] \in Module <=> inSt[i] \in {"starting", "ready", "exec_env", "module_inst"}
    /\ i \in insts <=> inMod[i] \in Module
    /\ i \in envs <=> inSt[i] \in {"ready", "exec_env"}

(* The Linker is there until Instance::new returns.                        *)
BorrowInv == \A i \in Instance : inSt[i] = "starting" => inLk[i] \in handle

(* A module that is bound to a LinkerState still alive is bound to one of  *)
(* its entries, and not to an earlier object of the same identity.         *)
BoundInv ==
  \A m \in loaded :
    resolved[m] \in Entry /\ lkSt[LinkerOf(resolved[m])] = "live" => resolved[m] \in stored

IInv ==
  /\ TypeOK
  /\ EngineInv
  /\ LinkerInv
  /\ EntryInv
  /\ ModuleInv
  /\ InstanceInv
  /\ BorrowInv
  /\ BoundInv

(* A program that lets go of everything for good gets the runtime torn     *)
(* down, through whatever chain of owners the last handle was dropped.     *)
LettingGoStops == <>[]NothingHeld => []<>~up

(* linker.rs:192-193: the attachment outlives every call, because the      *)
(* owning LinkerState is kept alive by live instances.                     *)
AttachmentOutlivesCall ==
  \A t \in Thread : \A k \in DOMAIN frames[t] : resolved[inMod[frames[t][k]]] \in stored

(* lib.rs:38: single-threaded: a host function runs on the thread that     *)
(* defined it.                                                             *)
ThreadConfined ==
  \A t \in Thread : \A k \in DOMAIN frames[t] :
    LET x == resolved[inMod[frames[t][k]]]
    IN  x \in stored => LinkerOn(LinkerOf(x), t)

=============================================================================
