--------------------------- MODULE RuntimeLifetime ---------------------------
(***************************************************************************)
(* What the engine promises about the process-wide WAMR runtime, with no   *)
(* mention of the mutex, the counter or the threads: the runtime is        *)
(* brought up before anyone holds it, stays up while anyone does, and is   *)
(* torn down once nobody does.  Engine.tla and Lifecycle.tla implement it. *)
(***************************************************************************)

CONSTANT Inner      (* the reference-counted engine objects (EngineInner)  *)

VARIABLES
  holders,          (* the engine objects that keep the runtime alive      *)
  up                (* the runtime is initialised                          *)

vars == <<holders, up>>

Init == holders = {} /\ up = FALSE

(* The runtime is initialised, before the engine that asked for it exists. *)
Boot == /\ ~up
        /\ up' = TRUE
        /\ UNCHANGED holders

(* A new engine object; the first one may bring the runtime up itself.     *)
Acquire(e) ==
  /\ e \notin holders
  /\ up \/ holders = {}
  /\ up' = TRUE
  /\ holders' = holders \union {e}

(* An engine object goes away; only the last may take the runtime along.   *)
Release(e) ==
  /\ e \in holders
  /\ holders' = holders \ {e}
  /\ \/ up' = up
     \/ holders' = {} /\ up' = FALSE

(* The runtime is torn down, with nobody holding it.                       *)
Shutdown == /\ up
            /\ holders = {}
            /\ up' = FALSE
            /\ UNCHANGED holders

Next == \/ Boot
        \/ Shutdown
        \/ \E e \in Inner : Acquire(e) \/ Release(e)

(* A runtime that nobody holds is not left running.                        *)
Spec == Init /\ [][Next]_vars /\ WF_vars(Shutdown)

(* Safety part of Spec.                                                    *)
SafeSpec == Init /\ [][Next]_vars

=============================================================================
