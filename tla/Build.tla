-------------------------------- MODULE Build --------------------------------
(***************************************************************************)
(* The build script of wamrx-sys (src/crates/wamrx-sys/build.rs): when     *)
(* cargo runs it again, and what its runs leave for the crate to be linked *)
(* with, while the sources and the environment change, also during a run,  *)
(* and runs fail halfway or are interrupted.                               *)
(*                                                                         *)
(* Cargo, CMake with WAMR's build, and bindgen are external.  Cargo keeps  *)
(* an output directory for each choice of features and target.             *)
(***************************************************************************)
EXTENDS Naturals

CONSTANTS
  Feature,     (* features of the crate                                     *)
  Defaults,    (* toggles that WAMR turns on when nothing is defined        *)
  Unit,        (* choices of features and target: [features, os, arch]      *)
  Environment, (* the variables of users: WAMR_BUILD_PLATFORM and           *)
               (* WAMR_BUILD_TARGET, each a set of at most one value, and   *)
               (* whether there is DOCS_RS: [platform, target, docs]        *)
  Host,        (* the platform or the target that WAMR detects              *)
  MaxChanges   (* bound: changes of the sources                             *)

(* Toggles that are not features of the crate.                             *)
Fixed == {"interp", "fast-interp", "aot", "jit", "fast-jit", "simde", "no-hw-bound-check"}

ASSUME FeatureAssumption == Feature \intersect Fixed = {}
ASSUME UnitAssumption == \A u \in Unit : u.features \subseteq Feature
ASSUME EnvironmentAssumption ==
  \A e \in Environment :
    e = [platform |-> e.platform, target |-> e.target, docs |-> e.docs] /\ e.docs \in BOOLEAN
ASSUME BoundAssumption == MaxChanges \in Nat

VARIABLES
  tree,        (* the sources: is the submodule there, its commit, the      *)
               (* commit that last wrote its CMakeLists.txt, wrapper.h      *)
  env,         (* the environment                                           *)
  unit,        (* what cargo is asked to build                              *)
  out,         (* the output directory of each unit                         *)
  script       (* the run of the script                                     *)

vars == <<tree, env, unit, out, script>>

(* stamp: what cargo noted when the last run that ended well began.        *)
NoOut == [stamp |-> {}, library |-> {}, bindings |-> {}, link |-> {}]

Idle == [at |-> "idle", env |-> [platform |-> {}, target |-> {}, docs |-> FALSE], seen |-> {}, link |-> {}]

Init ==
  /\ tree = [present |-> TRUE, rev |-> 0, cmake |-> 0, wrapper |-> 0]
  /\ env \in Environment /\ unit \in Unit
  /\ out = [u \in Unit |-> NoOut]
  /\ script = Idle

-----------------------------------------------------------------------------
(* The environment of a build                                              *)

CanChange == tree.rev + tree.wrapper < MaxChanges

(* The pinned commit changes; its CMakeLists.txt need not.                 *)
UpdateSubmodule ==
  /\ CanChange /\ tree.present
  /\ \E cmake \in {tree.cmake, tree.rev + 1} :
       tree' = [tree EXCEPT !.rev = @ + 1, !.cmake = cmake]
  /\ UNCHANGED <<env, unit, out, script>>

RemoveSubmodule ==
  /\ tree.present /\ tree' = [tree EXCEPT !.present = FALSE]
  /\ UNCHANGED <<env, unit, out, script>>

InitSubmodule ==
  /\ CanChange /\ ~tree.present
  /\ tree' = [tree EXCEPT !.present = TRUE, !.rev = @ + 1, !.cmake = tree.rev + 1]
  /\ UNCHANGED <<env, unit, out, script>>

EditWrapper ==
  /\ CanChange /\ tree' = [tree EXCEPT !.wrapper = @ + 1]
  /\ UNCHANGED <<env, unit, out, script>>

Choose ==
  /\ script.at = "idle"
  /\ env' \in Environment /\ unit' \in Unit
  /\ UNCHANGED <<tree, out, script>>

-----------------------------------------------------------------------------
(* The configuration                                                       *)

flag(features, f) == IF f \in features THEN "1" ELSE "0"

wamr_platform(os) ==
  CASE os = "macos" -> {"darwin"}
    [] os \in {"linux", "windows", "android", "freebsd"} -> {os}
    [] OTHER -> {}

wamr_target(arch) ==
  CASE arch = "x86_64" -> {"X86_64"} [] arch = "x86" -> {"X86_32"}
    [] arch = "aarch64" -> {"AARCH64"} [] arch = "arm" -> {"ARM"}
    [] arch = "riscv64" -> {"RISCV64"} [] arch = "riscv32" -> {"RISCV32"}
    [] OTHER -> {}

(* Toggles of WAMR: one for each feature, under its name, but for the      *)
(* inverted one, and those of the running mode and of the SIMD backend.    *)
Toggle == (Feature \ {"hw-bound-check"}) \union Fixed

(* Mutant: a feature that is off is left undefined.                        *)
DefinesEnabled(features) ==
  [t \in (features \ {"hw-bound-check"}) \union {"interp", "fast-interp"} |-> "1"]

(* What build_wamr defines for CMake.                                      *)
Defines(features) ==
  [t \in Toggle |->
     CASE t \in {"interp", "fast-interp"} -> "1"
       [] t \in {"aot", "jit", "fast-jit"} -> "0"
       [] t = "simde" -> flag(features, "simd")
       [] t = "no-hw-bound-check" -> IF flag(features, "hw-bound-check") = "1" THEN "0" ELSE "1"
       [] OTHER -> flag(features, t)]

(* External: what CMake builds.  What is not defined keeps its default.    *)
Built(defines) ==
  {t \in Toggle : IF t \in DOMAIN defines THEN defines[t] = "1" ELSE t \in Defaults}

(* What the user ever gives.                                               *)
Platforms == UNION {e.platform : e \in Environment}
Targets == UNION {e.target : e \in Environment}

(* Mutant: the target is asked before the environment.                     *)
GivenMapped(variable, mapped, cached) ==
  CASE mapped # {} -> mapped [] mapped = {} /\ variable # {} -> variable
    [] OTHER -> cached \union {Host}

(* The variable wins, then the map from the target; or nothing is defined, *)
(* and CMake detects the host, or remembers what an earlier run defined.   *)
Given(variable, mapped, cached) ==
  CASE variable # {} -> variable [] variable = {} /\ mapped # {} -> mapped
    [] OTHER -> cached \union {Host}

link_system_libs(os) ==
  CASE os \in {"linux", "android", "freebsd"} -> {"m", "dl", "pthread"}
    [] os = "windows" -> {"ntdll", "ws2_32"}
    [] OTHER -> {}

-----------------------------------------------------------------------------
(* Cargo and the script                                                    *)

(* Mutant: DOCS_RS is not among the variables.                             *)
TrackedNoDocs == [cmake |-> tree.cmake, wrapper |-> tree.wrapper, platform |-> env.platform,
                  target |-> env.target]

(* Mutant: wrapper.h is not among the files.                               *)
TrackedNoWrapper == [cmake |-> tree.cmake, platform |-> env.platform, target |-> env.target,
                     docs |-> env.docs]

(* What the rerun-if lines make cargo compare, but for build.rs itself and *)
(* WAMR_SHARED_PLATFORM_CONFIG, which the script does not read.            *)
Tracked ==
  [cmake |-> tree.cmake, wrapper |-> tree.wrapper,
   platform |-> env.platform, target |-> env.target, docs |-> env.docs]

(* External: cargo takes the script's last run for good.  A file that is   *)
(* missing has changed.                                                    *)
Ready == script.at = "idle" /\ tree.present /\ out[unit].stamp = {Tracked}

(* External: cargo runs the script; until it ends well, it is to run again.*)
(* The run keeps the environment that it began with.                       *)
Cargo ==
  /\ script.at = "idle" /\ ~Ready
  /\ script' = [at |-> "main", env |-> env, seen |-> {Tracked}, link |-> {}]
  /\ out' = [out EXCEPT ![unit].stamp = {}]
  /\ UNCHANGED <<tree, env, unit>>

(* A panic: CMake, bindgen or the check of the sources fails; or the run   *)
(* is interrupted.                                                         *)
Fail ==
  /\ script.at # "idle" /\ script' = Idle
  /\ UNCHANGED <<tree, env, unit, out>>

main ==
  /\ script.at = "main" /\ tree.present
  /\ script' = [script EXCEPT !.at = IF script.env.docs THEN "generate_bindings" ELSE "build_wamr"]
  /\ UNCHANGED <<tree, env, unit, out>>

build_wamr ==
  /\ script.at = "build_wamr" /\ tree.present
  /\ \E platform \in Given(script.env.platform, wamr_platform(unit.os), Platforms),
        target \in Given(script.env.target, wamr_target(unit.arch), Targets) :
       out' = [out EXCEPT ![unit].library =
                 {[rev |-> tree.rev, on |-> Built(Defines(unit.features)),
                   platform |-> platform, target |-> target]}]
  /\ script' = [script EXCEPT !.at = "generate_bindings",
                              !.link = {"iwasm"} \union link_system_libs(unit.os)]
  /\ UNCHANGED <<tree, env, unit>>

generate_bindings ==
  /\ script.at = "generate_bindings" /\ tree.present
  /\ out' = [out EXCEPT ![unit].bindings = {[rev |-> tree.rev, wrapper |-> tree.wrapper]}]
  /\ script' = [script EXCEPT !.at = "end"]
  /\ UNCHANGED <<tree, env, unit>>

(* The script ends; cargo keeps its link directives.                       *)
End ==
  /\ script.at = "end"
  /\ out' = [out EXCEPT ![unit].stamp = script.seen, ![unit].link = script.link]
  /\ script' = Idle
  /\ UNCHANGED <<tree, env, unit>>

Next ==
  \/ UpdateSubmodule \/ RemoveSubmodule \/ InitSubmodule \/ EditWrapper \/ Choose
  \/ Cargo \/ Fail \/ main \/ build_wamr \/ generate_bindings \/ End

Spec == Init /\ [][Next]_vars

-----------------------------------------------------------------------------
(* Properties                                                              *)

(* A library of exactly the features of u and of the fast interpreter, for *)
(* the platform and the target that e names, or else those of u.           *)
Asked(lib, u, e) ==
  /\ lib.on = (u.features \ {"hw-bound-check"})
              \union {"interp", "fast-interp"}
              \union (IF "simd" \in u.features THEN {"simde"} ELSE {})
              \union (IF "hw-bound-check" \in u.features THEN {} ELSE {"no-hw-bound-check"})
  /\ e.platform # {} => lib.platform \in e.platform
  /\ e.platform = {} /\ wamr_platform(u.os) # {} => lib.platform \in wamr_platform(u.os)
  /\ e.target # {} => lib.target \in e.target
  /\ e.target = {} /\ wamr_target(u.arch) # {} => lib.target \in wamr_target(u.arch)

(* What is linked is what is asked for now, whatever WAMR's defaults and   *)
(* whatever was built before, for other features or with other variables   *)
(* (build.rs:93-160).                                                      *)
Configured ==
  Ready /\ ~env.docs => \E lib \in out[unit].library : Asked(lib, unit, env)

(* The bindings are those of wrapper.h, and neither they nor the library   *)
(* is older than WAMR's CMakeLists.txt, though either may have changed in  *)
(* the middle of a run, or a run have failed (build.rs:66-76).             *)
UpToSources ==
  Ready =>
    /\ \E b \in out[unit].bindings : b.wrapper = tree.wrapper /\ b.rev >= tree.cmake
    /\ ~env.docs => \E lib \in out[unit].library : lib.rev >= tree.cmake

(* The crate links the library, and what it needs, exactly when the script *)
(* has built it: not on docs.rs, and again after (build.rs:61-86).         *)
LinkSound ==
  Ready =>
    IF env.docs THEN out[unit].link = {}
    ELSE out[unit].library # {} /\ out[unit].link = {"iwasm"} \union link_system_libs(unit.os)

(* build.rs:75, of the line that tracks CMakeLists.txt: "Rebuild if the    *)
(* pinned submodule commit changes."                                       *)
PinnedCommit ==
  Ready /\ ~env.docs => \E lib \in out[unit].library : lib.rev = tree.rev

=============================================================================
