-------------------------- MODULE LifecycleProofs --------------------------
(***************************************************************************)
(* Machine-checked proofs about Lifecycle.tla, for any sets of threads,    *)
(* engines, linkers, modules, instances and host functions.  The inductive *)
(* invariant is IInv.  Most steps touch one or two of its parts: the       *)
(* lemmas of the first section say which variables each part depends on.   *)
(***************************************************************************)
EXTENDS Lifecycle, SequenceTheorems, TLAPS

(* Parts of the invariant that a step leaves alone.                        *)
LEMMA EngineKept ==
  ASSUME EngineInv, UNCHANGED <<holders, up, user, modEng, lkSt, lkEng>>
  PROVE  EngineInv'
  BY DEF EngineInv, Referenced

LEMMA LinkerKept ==
  ASSUME LinkerInv, UNCHANGED <<handle, lkSt, lkEng, inLk>>
  PROVE  LinkerInv'
  BY DEF LinkerInv, LinkerHeld

LEMMA EntryKept ==
  ASSUME EntryInv, UNCHANGED <<lkSt, stored, registry>>
  PROVE  EntryInv'
  BY DEF EntryInv, LinkerOf

LEMMA ModuleKept ==
  ASSUME ModuleInv, UNCHANGED <<modSt, modEng, bytes, loaded, inMod>>
  PROVE  ModuleInv'
  BY DEF ModuleInv

LEMMA InstanceKept ==
  ASSUME InstanceInv, UNCHANGED <<inSt, inMod, inLk, insts, envs>>
  PROVE  InstanceInv'
  BY DEF InstanceInv

LEMMA BorrowKept ==
  ASSUME BorrowInv, UNCHANGED <<handle, inSt, inLk>>
  PROVE  BorrowInv'
  BY DEF BorrowInv

LEMMA BoundKept ==
  ASSUME BoundInv, UNCHANGED <<loaded, resolved, lkSt, stored>>
  PROVE  BoundInv'
  BY DEF BoundInv, LinkerOf

(* The initial state satisfies the invariant.                              *)
LEMMA InitInv == Init => IInv
  <1> SUFFICES ASSUME Init PROVE IInv
    OBVIOUS
  <1> USE NoneAssumption DEF Init
  <1>1. TypeOK
    <2>1. <<>> \in Seq(Instance)
      OBVIOUS
    <2>2. frames \in [Thread -> Seq(Instance)]
      BY <2>1
    <2>3. QED
      BY <2>2 DEF TypeOK
  <1>2. EngineInv
    BY DEF EngineInv, Referenced
  <1>3. LinkerInv /\ EntryInv /\ BoundInv
    BY DEF LinkerInv, LinkerHeld, EntryInv, BoundInv
  <1>4. ModuleInv /\ InstanceInv /\ BorrowInv
    BY DEF ModuleInv, InstanceInv, BorrowInv
  <1>5. QED
    BY <1>1, <1>2, <1>3, <1>4 DEF IInv

-----------------------------------------------------------------------------
(* Engines                                                                 *)

LEMMA RuntimeStepKeeps ==
  ASSUME IInv, RuntimeStep
  PROVE  IInv'
  <1> USE DEF IInv, RuntimeStep, linkerVars, moduleVars, instanceVars
  <1>1. TypeOK'
    BY DEF TypeOK, Runtime!Boot, Runtime!Shutdown
  <1>2. EngineInv'
    BY DEF EngineInv, Referenced, Runtime!Boot, Runtime!Shutdown
  <1>3. QED
    BY <1>1, <1>2, BorrowKept, LinkerKept, EntryKept, ModuleKept, InstanceKept, BoundKept

LEMMA NewEngineKeeps ==
  ASSUME IInv, NEW e \in Inner, NewEngine(e)
  PROVE  IInv'
  <1> USE DEF IInv, NewEngine, linkerVars, moduleVars, instanceVars
  <1>1. TypeOK'
    BY DEF TypeOK, Runtime!Acquire
  <1>2. EngineInv'
    BY DEF EngineInv, Referenced, Runtime!Acquire
  <1>3. QED
    BY <1>1, <1>2, BorrowKept, LinkerKept, EntryKept, ModuleKept, InstanceKept, BoundKept

(* The runtime follows the clones of the engine that one was dropped of.   *)
LEMMA CloneDropped ==
  ASSUME EngineInv, NEW e \in Inner, DropEngineClone(e),
         e \in holders,
         \A f \in Inner \ {e} : Referenced(f)' <=> Referenced(f)
  PROVE  EngineInv' /\ holders' \subseteq Inner /\ (up \in BOOLEAN => up' \in BOOLEAN)
  <1>1. CASE Referenced(e)'
    BY <1>1 DEF DropEngineClone, EngineInv, runtimeVars
  <1>2. CASE ~Referenced(e)'
    <2>1. holders' = holders \ {e}
      BY <1>2 DEF DropEngineClone, Runtime!Release
    <2>2. holders' # {} => up' = up
      BY <1>2 DEF DropEngineClone, Runtime!Release
    <2>3. up \in BOOLEAN => up' \in BOOLEAN
      BY <1>2 DEF DropEngineClone, Runtime!Release
    <2>4. QED
      BY <1>2, <2>1, <2>2, <2>3 DEF EngineInv
  <1>3. QED
    BY <1>1, <1>2

LEMMA DropEngineKeeps ==
  ASSUME IInv, NEW e \in Inner, DropEngine(e)
  PROVE  IInv'
  <1> USE DEF IInv, DropEngine, linkerVars, moduleVars, instanceVars
  <1>1. e \in holders
    BY DEF EngineInv, Referenced
  <1>2. \A f \in Inner \ {e} : Referenced(f)' <=> Referenced(f)
    BY DEF Referenced
  <1>3. EngineInv' /\ holders' \subseteq Inner /\ (up \in BOOLEAN => up' \in BOOLEAN)
    BY <1>1, <1>2, CloneDropped
  <1>4. TypeOK'
    BY <1>3 DEF TypeOK
  <1>5. QED
    BY <1>3, <1>4, BorrowKept, LinkerKept, EntryKept, ModuleKept, InstanceKept, BoundKept

LEMMA CloneEngineOfModuleKeeps ==
  ASSUME IInv, NEW m \in Module, CloneEngineOfModule(m)
  PROVE  IInv'
  <1> USE DEF IInv, CloneEngineOfModule, linkerVars, moduleVars, instanceVars, runtimeVars
  <1>1. modEng[m] \in Inner
    BY DEF TypeOK, ModuleInv
  <1>2. TypeOK'
    BY <1>1 DEF TypeOK
  <1>3. EngineInv'
    BY <1>1 DEF EngineInv, Referenced
  <1>4. QED
    BY <1>2, <1>3, BorrowKept, LinkerKept, EntryKept, ModuleKept, InstanceKept, BoundKept

-----------------------------------------------------------------------------
(* Linkers                                                                 *)

LEMMA NewLinkerKeeps ==
  ASSUME IInv, NEW l \in Linker, NEW e \in Inner, NewLinker(l, e)
  PROVE  IInv'
  <1> USE NoneAssumption DEF IInv, NewLinker, runtimeVars, moduleVars, instanceVars
  <1>1. TypeOK'
    BY DEF TypeOK
  <1>2. EngineInv'
    BY DEF TypeOK, EngineInv, Referenced, LinkerInv
  <1>3. LinkerInv'
    BY DEF TypeOK, LinkerInv, LinkerHeld
  <1>4. EntryInv'
    BY DEF TypeOK, EntryInv
  <1>5. BoundInv'
    BY DEF TypeOK, BoundInv
  <1>6. BorrowInv'
    BY DEF TypeOK, BorrowInv
  <1>7. QED
    BY <1>6, <1>1, <1>2, <1>3, <1>4, <1>5, ModuleKept, InstanceKept

LEMMA DefineFuncKeeps ==
  ASSUME IInv, NEW x \in Entry, DefineFunc(x)
  PROVE  IInv'
  <1> USE DEF IInv, DefineFunc, Register, runtimeVars, moduleVars, instanceVars
  <1>1. LinkerOf(x) \in Linker /\ lkSt[LinkerOf(x)] = "live"
    BY DEF Entry, LinkerOf, LinkerInv, LinkerHeld
  <1>2. TypeOK'
    BY DEF TypeOK
  <1>3. EntryInv'
    BY <1>1 DEF EntryInv
  <1>4. BoundInv'
    BY DEF BoundInv
  <1>5. QED
    BY <1>2, <1>3, <1>4, BorrowKept, EngineKept, LinkerKept, ModuleKept, InstanceKept

(* A LinkerState that is no longer shared goes into its Drop.              *)
LEMMA LinkerLetGo ==
  ASSUME IInv, NEW l \in Linker, lkSt[l] = "live",
         lkSt' = IF LinkerHeld(l)' THEN lkSt ELSE [lkSt EXCEPT ![l] = "unregister"],
         \A k \in Linker \ {l} : LinkerHeld(k)' <=> LinkerHeld(k),
         UNCHANGED <<runtimeVars, user, lkEng, stored, registry, modEng, loaded, resolved>>
  PROVE  EngineInv' /\ LinkerInv' /\ EntryInv' /\ BoundInv'
  <1> USE DEF IInv, TypeOK, runtimeVars
  <1>1. EngineInv'
    BY DEF EngineInv, Referenced
  <1>2. LinkerInv'
    BY DEF LinkerInv
  <1>3. EntryInv'
    BY DEF EntryInv
  <1>4. BoundInv'
    BY DEF BoundInv
  <1>5. QED
    BY <1>1, <1>2, <1>3, <1>4

LEMMA DropLinkerKeeps ==
  ASSUME IInv, NEW l \in Linker, DropLinker(l)
  PROVE  IInv'
  <1> USE DEF IInv, DropLinker, runtimeVars, moduleVars
  <1>1. lkSt[l] = "live"
    BY DEF LinkerInv, LinkerHeld
  <1>2. \A k \in Linker \ {l} : LinkerHeld(k)' <=> LinkerHeld(k)
    BY DEF LinkerHeld
  <1>3. EngineInv' /\ LinkerInv' /\ EntryInv' /\ BoundInv'
    BY <1>1, <1>2, LinkerLetGo
  <1>4. TypeOK'
    BY DEF TypeOK, LinkerDrops
  <1>5. BorrowInv'
    BY DEF TypeOK, BorrowInv, Borrowed
  <1>6. QED
    BY <1>5, <1>3, <1>4, ModuleKept, InstanceKept

LEMMA UnregisterKeeps ==
  ASSUME IInv, NEW l \in Linker, Unregister(l)
  PROVE  IInv'
  <1> USE DEF IInv, Unregister, runtimeVars, moduleVars, instanceVars
  <1>1. TypeOK'
    BY DEF TypeOK, LinkerDrops
  <1>2. EngineInv'
    BY DEF TypeOK, EngineInv, Referenced
  <1>3. LinkerInv'
    BY DEF TypeOK, LinkerInv, LinkerHeld
  <1>4. CASE lkSt' = lkSt
    <2>1. registry' \subseteq registry /\ UNCHANGED <<stored, loaded, resolved>>
      OBVIOUS
    <2>2. EntryInv' /\ BoundInv'
      BY <1>4, <2>1 DEF EntryInv, BoundInv, LinkerOf
    <2>3. QED
      BY <1>1, <1>2, <1>3, <2>2, BorrowKept, ModuleKept, InstanceKept
  <1>5. CASE lkSt' = [lkSt EXCEPT ![l] = "engine"] /\ UNCHANGED registry
    <2>1. \A x \in registry : LinkerOf(x) # l \/ lkSt' = lkSt
      BY DEF EntryInv
    <2>2. EntryInv'
      BY <1>5, <2>1 DEF TypeOK, EntryInv
    <2>3. BoundInv'
      BY <1>5 DEF TypeOK, BoundInv
    <2>4. QED
      BY <1>1, <1>2, <1>3, <2>2, <2>3, BorrowKept, ModuleKept, InstanceKept
  <1>6. QED
    BY <1>4, <1>5

LEMMA DropLinkerEngineKeeps ==
  ASSUME IInv, NEW l \in Linker, DropLinkerEngine(l)
  PROVE  IInv'
  <1> USE DEF IInv, DropLinkerEngine, moduleVars, instanceVars
  <1>1. lkEng[l] \in Inner
    BY DEF TypeOK, LinkerInv
  <1>2. PICK e \in {lkEng[l]} : DropEngineClone(e)
    OBVIOUS
  <1>3. e \in holders
    BY <1>1 DEF EngineInv, Referenced
  <1>4. \A f \in Inner \ {e} : Referenced(f)' <=> Referenced(f)
    BY DEF Referenced, TypeOK
  <1>5. EngineInv' /\ holders' \subseteq Inner /\ (up \in BOOLEAN => up' \in BOOLEAN)
    BY <1>1, <1>2, <1>3, <1>4, CloneDropped
  <1>6. TypeOK'
    BY <1>5 DEF TypeOK, LinkerDrops
  <1>7. LinkerInv'
    BY DEF TypeOK, LinkerInv, LinkerHeld
  <1>8. EntryInv'
    BY DEF TypeOK, EntryInv
  <1>9. BoundInv'
    BY DEF TypeOK, BoundInv
  <1>10. QED
    BY <1>5, <1>6, <1>7, <1>8, <1>9, BorrowKept, ModuleKept, InstanceKept

LEMMA FreeEntriesKeeps ==
  ASSUME IInv, NEW l \in Linker, FreeEntries(l)
  PROVE  IInv'
  <1> USE NoneAssumption DEF IInv, FreeEntries, runtimeVars, moduleVars, instanceVars
  <1>1. TypeOK'
    BY DEF TypeOK
  <1>2. EngineInv'
    BY DEF TypeOK, EngineInv, Referenced
  <1>3. LinkerInv'
    BY DEF TypeOK, LinkerInv, LinkerHeld
  <1>4. EntryInv'
    BY DEF TypeOK, EntryInv
  <1>5. BoundInv'
    BY DEF TypeOK, BoundInv
  <1>6. QED
    BY <1>1, <1>2, <1>3, <1>4, <1>5, BorrowKept, ModuleKept, InstanceKept

-----------------------------------------------------------------------------
(* Modules                                                                 *)

LEMMA NewModuleKeeps ==
  ASSUME IInv, NEW m \in Module, NEW e \in Inner, NewModule(m, e)
  PROVE  IInv'
  <1> USE NoneAssumption DEF IInv, NewModule, runtimeVars, linkerVars, instanceVars
  <1>1. TypeOK'
    BY DEF TypeOK
  <1>2. EngineInv'
    BY DEF TypeOK, EngineInv, Referenced, ModuleInv
  <1>3. ModuleInv'
    BY DEF TypeOK, ModuleInv
  <1>4. BoundInv'
    BY EntryAssumption DEF TypeOK, BoundInv, EntryInv, Entry
  <1>5. QED
    BY <1>1, <1>2, <1>3, <1>4, BorrowKept, LinkerKept, EntryKept, InstanceKept

LEMMA DropModuleKeeps ==
  ASSUME IInv, NEW m \in Module, DropModule(m)
  PROVE  IInv'
  <1> USE DEF IInv, DropModule, runtimeVars, linkerVars, instanceVars
  <1>1. TypeOK'
    BY DEF TypeOK, ModuleDrops
  <1>2. ModuleInv'
    BY DEF TypeOK, ModuleInv
  <1>3. QED
    BY <1>1, <1>2, BorrowKept, EngineKept, LinkerKept, EntryKept, InstanceKept, BoundKept

LEMMA UnloadKeeps ==
  ASSUME IInv, NEW m \in Module, Unload(m)
  PROVE  IInv'
  <1> USE DEF IInv, Unload, runtimeVars, linkerVars, instanceVars
  <1>1. TypeOK'
    BY DEF TypeOK, ModuleDrops
  <1>2. ModuleInv'
    BY DEF TypeOK, ModuleInv
  <1>3. BoundInv'
    BY DEF TypeOK, BoundInv
  <1>4. QED
    BY <1>1, <1>2, <1>3, BorrowKept, EngineKept, LinkerKept, EntryKept, InstanceKept

LEMMA FreeBytesKeeps ==
  ASSUME IInv, NEW m \in Module, FreeBytes(m)
  PROVE  IInv'
  <1> USE DEF IInv, FreeBytes, runtimeVars, linkerVars, instanceVars
  <1>1. TypeOK'
    BY DEF TypeOK, ModuleDrops
  <1>2. ModuleInv'
    BY DEF TypeOK, ModuleInv
  <1>3. QED
    BY <1>1, <1>2, BorrowKept, EngineKept, LinkerKept, EntryKept, InstanceKept, BoundKept

LEMMA DropModuleEngineKeeps ==
  ASSUME IInv, NEW m \in Module, DropModuleEngine(m)
  PROVE  IInv'
  <1> USE NoneAssumption DEF IInv, DropModuleEngine, linkerVars, instanceVars
  <1>1. modEng[m] \in Inner
    BY DEF TypeOK, ModuleInv
  <1>2. PICK e \in {modEng[m]} : DropEngineClone(e)
    OBVIOUS
  <1>3. e \in holders
    BY <1>1 DEF EngineInv, Referenced
  <1>4. \A f \in Inner \ {e} : Referenced(f)' <=> Referenced(f)
    BY DEF Referenced, TypeOK
  <1>5. EngineInv' /\ holders' \subseteq Inner /\ (up \in BOOLEAN => up' \in BOOLEAN)
    BY <1>1, <1>2, <1>3, <1>4, CloneDropped
  <1>6. TypeOK'
    BY <1>5 DEF TypeOK
  <1>7. ModuleInv'
    BY DEF TypeOK, ModuleInv
  <1>8. QED
    BY <1>5, <1>6, <1>7, BorrowKept, LinkerKept, EntryKept, InstanceKept, BoundKept

-----------------------------------------------------------------------------
(* Instances                                                               *)

LEMMA InstantiateKeeps ==
  ASSUME IInv, NEW i \in Instance, NEW m \in Module, NEW l \in Linker,
         Instantiate(i, m, l)
  PROVE  IInv'
  <1> USE NoneAssumption DEF IInv, Instantiate, runtimeVars
  <1>1. TypeOK' /\ UNCHANGED <<handle, lkSt, lkEng, stored, registry>>
    BY DEF TypeOK, linkerVars
  <1>2. LinkerInv'
    <2>1. \A k \in Linker : LinkerHeld(k)' <=> LinkerHeld(k)
      BY <1>1 DEF TypeOK, InstanceInv, LinkerHeld
    <2>2. QED
      BY <1>1, <2>1 DEF LinkerInv
  <1>3. \A j \in Instance : inMod[j] # m
    BY DEF ModuleInv
  <1>4. inMod[i] \notin Module
    BY DEF InstanceInv
  <1>5. ModuleInv'
    BY <1>3, <1>4 DEF TypeOK, ModuleInv
  <1>6. InstanceInv'
    BY DEF TypeOK, InstanceInv
  <1>7. BorrowInv'
    BY <1>1 DEF TypeOK, BorrowInv
  <1>8. QED
    BY <1>7, <1>1, <1>2, <1>5, <1>6, EngineKept, EntryKept, BoundKept

LEMMA InstanceReadyKeeps ==
  ASSUME IInv, NEW i \in Instance, NEW t \in Thread, InstanceReady(i, t)
  PROVE  IInv'
  <1> USE DEF IInv, InstanceReady, Starting, runtimeVars, linkerVars, moduleVars
  <1>1. TypeOK'
    BY DEF TypeOK
  <1>2. InstanceInv'
    BY DEF TypeOK, InstanceInv
  <1>3. BorrowInv'
    BY DEF TypeOK, BorrowInv
  <1>4. QED
    BY <1>3, <1>1, <1>2, EngineKept, LinkerKept, EntryKept, ModuleKept, BoundKept

(* The two failures of Instance::new.                                      *)
LEMMA AbandonKeeps ==
  ASSUME IInv, NEW i \in Instance, inSt[i] = "starting",
         insts' = insts \ {i}, Abandon(i)
  PROVE  IInv'
  <1> USE NoneAssumption DEF IInv, Abandon, runtimeVars, linkerVars
  <1>1. inMod[i] \in Module /\ modSt[inMod[i]] = "moved" /\ inLk[i] \in handle
    BY DEF TypeOK, InstanceInv, ModuleInv, BorrowInv
  <1>2. TypeOK'
    BY DEF TypeOK, ModuleDrops
  <1>3. LinkerInv'
    BY <1>1 DEF TypeOK, LinkerInv, LinkerHeld
  <1>4. ModuleInv'
    BY <1>1 DEF TypeOK, ModuleInv
  <1>5. InstanceInv'
    BY DEF TypeOK, InstanceInv
  <1>6. BorrowInv'
    BY DEF TypeOK, BorrowInv
  <1>7. QED
    BY <1>6, <1>2, <1>3, <1>4, <1>5, EngineKept, EntryKept, BoundKept

LEMMA DropInstanceKeeps ==
  ASSUME IInv, NEW i \in Instance, NEW t \in Thread, DropInstance(i, t)
  PROVE  IInv'
  <1> USE DEF IInv, DropInstance, runtimeVars, linkerVars, moduleVars
  <1>1. TypeOK'
    BY DEF TypeOK, InstanceDrops
  <1>2. InstanceInv'
    BY DEF TypeOK, InstanceInv
  <1>3. BorrowInv'
    BY DEF TypeOK, BorrowInv
  <1>4. QED
    BY <1>3, <1>1, <1>2, EngineKept, LinkerKept, EntryKept, ModuleKept, BoundKept

LEMMA DestroyExecEnvKeeps ==
  ASSUME IInv, NEW i \in Instance, DestroyExecEnv(i)
  PROVE  IInv'
  <1> USE DEF IInv, DestroyExecEnv, runtimeVars, linkerVars, moduleVars
  <1>1. TypeOK'
    BY DEF TypeOK, InstanceDrops
  <1>2. InstanceInv'
    BY DEF TypeOK, InstanceInv
  <1>3. BorrowInv'
    BY DEF TypeOK, BorrowInv
  <1>4. QED
    BY <1>1, <1>2, <1>3, EngineKept, LinkerKept, EntryKept, ModuleKept, BoundKept

LEMMA DeinstantiateKeeps ==
  ASSUME IInv, NEW i \in Instance, Deinstantiate(i)
  PROVE  IInv'
  <1> USE NoneAssumption DEF IInv, Deinstantiate, runtimeVars, linkerVars
  <1>1. inMod[i] \in Module /\ modSt[inMod[i]] = "moved"
    BY DEF TypeOK, InstanceInv, ModuleInv
  <1>2. TypeOK'
    BY DEF TypeOK, ModuleDrops, InstanceDrops
  <1>3. ModuleInv'
    BY <1>1 DEF TypeOK, ModuleInv
  <1>4. InstanceInv'
    BY DEF TypeOK, InstanceInv
  <1>5. BorrowInv'
    BY DEF TypeOK, BorrowInv
  <1>6. QED
    BY <1>2, <1>3, <1>4, <1>5, EngineKept, LinkerKept, EntryKept, BoundKept

LEMMA LinkerShareDropKeeps ==
  ASSUME IInv, NEW i \in Instance, NEW t \in Thread, DropLinkerShare(i, t)
  PROVE  IInv'
  <1> USE NoneAssumption DEF IInv, DropLinkerShare, runtimeVars, moduleVars
  <1>1. PICK l \in {inLk[i]} :
          lkSt' = IF LinkerHeld(l)' THEN lkSt ELSE [lkSt EXCEPT ![l] = "unregister"]
    OBVIOUS
  <1>2. l \in Linker /\ lkSt[l] = "live"
    BY DEF TypeOK, InstanceInv, LinkerInv, LinkerHeld
  <1>3. \A k \in Linker \ {l} : LinkerHeld(k)' <=> LinkerHeld(k)
    BY DEF TypeOK, LinkerHeld
  <1>4. EngineInv' /\ LinkerInv' /\ EntryInv' /\ BoundInv'
    BY <1>1, <1>2, <1>3, LinkerLetGo
  <1>5. TypeOK'
    BY <1>1, <1>2 DEF TypeOK, LinkerDrops
  <1>6. InstanceInv'
    BY DEF TypeOK, InstanceInv
  <1>7. BorrowInv'
    BY DEF TypeOK, BorrowInv
  <1>8. QED
    BY <1>7, <1>4, <1>5, <1>6, ModuleKept

-----------------------------------------------------------------------------
(* Host functions                                                          *)

LEMMA CallHostKeeps ==
  ASSUME IInv, NEW i \in Instance, NEW t \in Thread, CallHost(i, t)
  PROVE  IInv'
  <1> USE DEF IInv, CallHost, runtimeVars, linkerVars, moduleVars, instanceVars
  <1>1. Append(frames[t], i) \in Seq(Instance)
    BY DEF TypeOK
  <1>2. TypeOK'
    BY <1>1 DEF TypeOK
  <1>3. QED
    BY <1>2, BorrowKept, EngineKept, LinkerKept, EntryKept, ModuleKept, InstanceKept, BoundKept

LEMMA HostReturnsKeeps ==
  ASSUME IInv, NEW t \in Thread, HostReturns(t)
  PROVE  IInv'
  <1> USE DEF IInv, HostReturns, runtimeVars, linkerVars, moduleVars, instanceVars
  <1>1. SubSeq(frames[t], 1, Len(frames[t]) - 1) \in Seq(Instance)
    BY DEF TypeOK
  <1>2. TypeOK'
    BY <1>1 DEF TypeOK
  <1>3. QED
    BY <1>2, BorrowKept, EngineKept, LinkerKept, EntryKept, ModuleKept, InstanceKept, BoundKept

-----------------------------------------------------------------------------
(* The invariant is kept by every step, and so holds of every behaviour.   *)
LEMMA StutterKeeps == ASSUME IInv, UNCHANGED vars PROVE IInv'
  <1> USE DEF IInv, vars, runtimeVars, linkerVars, moduleVars, instanceVars
  <1>1. TypeOK'
    BY DEF TypeOK
  <1>2. QED
    BY <1>1, BorrowKept, EngineKept, LinkerKept, EntryKept, ModuleKept, InstanceKept, BoundKept

LEMMA UserStepKeeps == ASSUME IInv, UserStep PROVE IInv'
  <1>1. CASE \E e \in Inner : NewEngine(e) \/ DropEngine(e)
    BY <1>1, NewEngineKeeps, DropEngineKeeps
  <1>2. CASE \E e \in Inner : \/ \E l \in Linker : NewLinker(l, e)
                              \/ \E m \in Module : NewModule(m, e)
    BY <1>2, NewLinkerKeeps, NewModuleKeeps
  <1>3. CASE \/ \E l \in Linker : DropLinker(l)
             \/ \E x \in Entry : DefineFunc(x)
             \/ \E m \in Module : CloneEngineOfModule(m) \/ DropModule(m)
    BY <1>3, DropLinkerKeeps, DefineFuncKeeps, CloneEngineOfModuleKeeps, DropModuleKeeps
  <1>4. CASE \E i \in Instance, m \in Module, l \in Linker : Instantiate(i, m, l)
    BY <1>4, InstantiateKeeps
  <1>5. QED
    BY <1>1, <1>2, <1>3, <1>4 DEF UserStep

LEMMA ThreadStepKeeps ==
  ASSUME IInv, NEW t \in Thread, DropStep(t) \/ NewEnds(t) \/ WasmStep(t)
  PROVE  IInv'
  <1>1. CASE DropStep(t)
    BY <1>1, UnregisterKeeps, DropLinkerEngineKeeps, FreeEntriesKeeps, UnloadKeeps,
       FreeBytesKeeps, DropModuleEngineKeeps, DestroyExecEnvKeeps, DeinstantiateKeeps,
       LinkerShareDropKeeps
    DEF DropStep
  <1>2. CASE NewEnds(t)
    BY <1>2, InstanceReadyKeeps, AbandonKeeps
    DEF NewEnds, InstantiateFails, ExecEnvFails, Starting
  <1>3. CASE WasmStep(t)
    BY <1>3, DropInstanceKeeps, CallHostKeeps, HostReturnsKeeps DEF WasmStep
  <1>4. QED
    BY <1>1, <1>2, <1>3

LEMMA NextKeeps == IInv /\ [Next]_vars => IInv'
  BY RuntimeStepKeeps, UserStepKeeps, ThreadStepKeeps, StutterKeeps DEF Next

(* The invariant of Lifecycle.tla holds of every behaviour, type           *)
(* correctness included.                                                   *)
THEOREM InvHolds == SafeSpec => []IInv
  <1>1. QED
    BY InitInv, NextKeeps, PTL DEF SafeSpec

-----------------------------------------------------------------------------
(* What it implies                                                         *)

(* A loaded module, and what holds an engine clone besides, is counted.    *)
LEMMA LoadedCounted ==
  ASSUME IInv, NEW m \in loaded
  PROVE  modEng[m] \in Inner /\ modEng[m] \in holders
  BY DEF IInv, TypeOK, ModuleInv, EngineInv, Referenced

LEMMA RegisteredCounted ==
  ASSUME IInv, NEW x \in registry
  PROVE  lkEng[LinkerOf(x)] \in Inner /\ lkEng[LinkerOf(x)] \in holders
  <1>1. LinkerOf(x) \in Linker
    BY DEF IInv, TypeOK, Entry, LinkerOf
  <1>2. lkSt[LinkerOf(x)] \in {"live", "unregister"}
    BY DEF IInv, EntryInv
  <1>3. lkEng[LinkerOf(x)] \in Inner
    BY <1>1, <1>2 DEF IInv, TypeOK, LinkerInv
  <1>4. QED
    BY <1>1, <1>2, <1>3 DEF IInv, EngineInv, Referenced

LEMMA InstanceLoaded ==
  ASSUME IInv, NEW i \in insts
  PROVE  inMod[i] \in loaded
  BY DEF IInv, TypeOK, InstanceInv, ModuleInv

LEMMA InvImpliesRuntimeCovers == IInv => RuntimeCovers
  <1> SUFFICES ASSUME IInv PROVE RuntimeCovers
    OBVIOUS
  <1>1. envs \subseteq insts
    BY DEF IInv, TypeOK, InstanceInv
  <1>2. loaded # {} => up
    BY LoadedCounted DEF IInv, EngineInv
  <1>3. registry # {} => up
    BY RegisteredCounted DEF IInv, EngineInv
  <1>4. QED
    BY <1>1, <1>2, <1>3, InstanceLoaded DEF RuntimeCovers

LEMMA InvImpliesBacked == IInv => Backed
  <1> SUFFICES ASSUME IInv PROVE Backed
    OBVIOUS
  <1>1. envs \subseteq insts
    BY DEF IInv, TypeOK, InstanceInv
  <1>2. loaded \subseteq bytes
    BY DEF IInv, TypeOK, ModuleInv
  <1>3. QED
    BY <1>1, <1>2, InstanceLoaded DEF Backed, InstanceModule

LEMMA InvImpliesRegistryBacked == IInv => RegistryBacked
  BY DEF IInv, EntryInv, RegistryBacked

(* The module of an instance that can call is loaded, the LinkerState it   *)
(* shares is alive, and BoundInv does the rest.                            *)
LEMMA InvImpliesOwnFuncsAlive == IInv => OwnFuncsAlive
  <1> SUFFICES ASSUME IInv, NEW i \in Instance, Callable(i),
                      LinkerOf(resolved[inMod[i]]) = inLk[i]
               PROVE  resolved[inMod[i]] \in stored
    BY DEF OwnFuncsAlive
  <1>1. inMod[i] \in loaded
    BY InstanceLoaded DEF IInv, InstanceInv, Callable
  <1>2. resolved[inMod[i]] \in Entry
    BY <1>1 DEF IInv, TypeOK, Callable
  <1>3. inLk[i] \in Linker /\ lkSt[inLk[i]] = "live"
    BY DEF IInv, TypeOK, InstanceInv, LinkerInv, LinkerHeld, Callable
  <1>4. QED
    BY <1>1, <1>2, <1>3 DEF IInv, BoundInv

LEMMA InvImpliesNoLeak == IInv => NoLeak
  <1> SUFFICES ASSUME IInv, NothingHeld, \A t \in Thread : ~Dropping(t)
               PROVE  /\ holders = {} /\ stored = {} /\ registry = {}
                      /\ loaded = {} /\ bytes = {} /\ insts = {} /\ envs = {}
    BY DEF NoLeak
  <1> USE HomeAssumption, NoneAssumption DEF IInv
  <1>1. \A l \in Linker : lkEng[l] \in Inner => lkSt[l] \notin LinkerDrops
    BY DEF Dropping, LinkerOn
  <1>2. \A i \in Instance : inSt[i] = "none"
    <2> SUFFICES ASSUME NEW i \in Instance, inSt[i] # "none" PROVE FALSE
      OBVIOUS
    <2>1. inSt[i] \in InstanceDrops
      BY DEF TypeOK, NothingHeld
    <2>2. inLk[i] \in Linker /\ lkSt[inLk[i]] = "live"
      BY DEF TypeOK, InstanceInv, LinkerInv, LinkerHeld
    <2>3. lkEng[inLk[i]] \in Inner
      BY <2>2 DEF TypeOK, LinkerInv
    <2>4. Dropping(Home[lkEng[inLk[i]]])
      BY <2>1, <2>2, <2>3 DEF Dropping, InstanceOn, LinkerOn
    <2>5. QED
      BY <2>3, <2>4
  <1>3. \A l \in Linker : lkSt[l] = "none"
    <2> SUFFICES ASSUME NEW l \in Linker, lkSt[l] # "none" PROVE FALSE
      OBVIOUS
    <2>1. lkEng[l] \in Inner
      BY DEF TypeOK, LinkerInv
    <2>2. lkSt[l] # "live"
      BY <1>2 DEF NothingHeld, LinkerInv, LinkerHeld, InstanceInv
    <2>3. QED
      BY <1>1, <2>1, <2>2 DEF TypeOK
  <1>4. \A m \in Module : modSt[m] = "none"
    <2> SUFFICES ASSUME NEW m \in Module, modSt[m] # "none" PROVE FALSE
      OBVIOUS
    <2>1. modEng[m] \in Inner
      BY DEF TypeOK, ModuleInv
    <2>2. modSt[m] \notin ModuleDrops
      BY <2>1 DEF Dropping, ModuleDropping, ModuleOn
    <2>3. modSt[m] = "moved"
      BY <2>2 DEF TypeOK, NothingHeld
    <2>4. PICK i \in Instance : inMod[i] = m
      BY <2>3 DEF ModuleInv
    <2>5. QED
      BY <1>2, <2>4 DEF InstanceInv
  <1>5. loaded = {} /\ bytes = {}
    BY <1>4 DEF TypeOK, ModuleInv
  <1>6. insts = {} /\ envs = {}
    BY <1>2 DEF TypeOK, InstanceInv
  <1>7. stored = {} /\ registry = {}
    BY <1>3 DEF TypeOK, EntryInv, Entry, LinkerOf
  <1>8. holders = {}
    BY <1>3, <1>4 DEF EngineInv, Referenced, NothingHeld, ModuleInv, LinkerInv
  <1>9. QED
    BY <1>5, <1>6, <1>7, <1>8

-----------------------------------------------------------------------------
(* The theorems                                                            *)

(* No module, instance, execution environment or registration outlives the *)
(* runtime (engine.rs:20-21, linker.rs:110).                               *)
THEOREM RuntimeOutlivesObjects == SafeSpec => []RuntimeCovers
  <1>1. QED
    BY InvHolds, InvImpliesRuntimeCovers, PTL

(* Objects of the C runtime are torn down before what they point into      *)
(* (module.rs:12-20, instance.rs:166-168).                                 *)
THEOREM TornDownInOrder == SafeSpec => []Backed
  <1>1. QED
    BY InvHolds, InvImpliesBacked, PTL

(* WAMR's registry points into live entries only (linker.rs:118-119).      *)
THEOREM RegistryPointsToEntries == SafeSpec => []RegistryBacked
  <1>1. QED
    BY InvHolds, InvImpliesRegistryBacked, PTL

(* An instance finds the host functions of its own linker alive            *)
(* (instance.rs:25-26).                                                    *)
THEOREM OwnFunctionsStayAlive == SafeSpec => []OwnFuncsAlive
  <1>1. QED
    BY InvHolds, InvImpliesOwnFuncsAlive, PTL

(* A program that lets go of everything leaves nothing behind, and no      *)
(* engine counted.                                                         *)
THEOREM NothingLeaks == SafeSpec => []NoLeak
  <1>1. QED
    BY InvHolds, InvImpliesNoLeak, PTL

=============================================================================
