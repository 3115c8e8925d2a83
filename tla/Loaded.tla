------------------------------- MODULE Loaded -------------------------------
(***************************************************************************)
(* A module from its bytes to its use: Module::new scans the binary for    *)
(* the type of its memory (MemoryType.tla), the instance hands out that    *)
(* type and the memory that WAMR made from the same binary (Exports.tla).  *)
(* What a file holds besides its memory section is given with it, as use;  *)
(* a binary that WAMR refuses has none.                                    *)
(***************************************************************************)
EXTENDS MemoryType, Exports

vars == <<file, pos, out, liveVars>>

Init == ScanInit /\ LiveInit

Scan == ScanNext /\ UNCHANGED liveVars

(* The memory that the module has, by its section or by its import.        *)
MemoryOf(f, use) ==
  {[type |-> t, imported |-> FALSE, grows |-> use.grows] : t \in Declared(f)}
  \union {[type |-> t, imported |-> TRUE, grows |-> use.grows] : t \in use.import}

(* The module that a file makes, with what the scan found.                 *)
ModuleOf(f, use, found) ==
  [exports |-> use.exports, globals |-> use.globals, memory |-> MemoryOf(f, use),
   memory_type |-> found]

(* WAMR loads well-formed modules only.                                    *)
ASSUME LoaderAssumption ==
  \A f \in Files : \A use \in f.use : ModuleOf(f, use, Declared(f)) \in Module

ModuleNew ==
  /\ \E result \in out, use \in file.use : Load(ModuleOf(file, use, result))
  /\ UNCHANGED scanVars

Live == LiveNext /\ UNCHANGED scanVars

Next == Scan \/ ModuleNew \/ Live

Spec == Init /\ [][Next]_vars /\ WF_scanVars(ScanNext)

=============================================================================
