----------------------------- MODULE BuildProofs -----------------------------
(***************************************************************************)
(* Proofs about Build.tla, for every set of features, of targets and of    *)
(* environments, whatever WAMR's defaults.                                 *)
(***************************************************************************)
EXTENDS Build, TLAPS

-----------------------------------------------------------------------------
(* What the steps preserve.  A run that ended well left, for what it saw   *)
(* when it began, a library and bindings that are not older; a run under   *)
(* way has no stamp, and has left what it has passed.                      *)
Needs(u) == {"iwasm"} \union link_system_libs(u.os)

GoodLibrary(u, s) == \E lib \in out[u].library : lib.rev >= s.cmake /\ Asked(lib, u, s)
GoodBindings(u, s) ==
  \E b \in out[u].bindings :
    b.rev >= s.cmake /\ b.wrapper >= s.wrapper /\ b.wrapper <= tree.wrapper

Seen == [cmake : 0 .. tree.cmake, wrapper : 0 .. tree.wrapper,
         platform : {e.platform : e \in Environment}, target : {e.target : e \in Environment},
         docs : BOOLEAN]

Mapped == UNION {wamr_platform(u.os) \union wamr_target(u.arch) : u \in Unit}
Names == {Host} \union Platforms \union Targets \union Mapped
Links == UNION {Needs(u) : u \in Unit}

Library == [rev : Nat, on : SUBSET Toggle, platform : Names, target : Names]
Bindings == [rev : Nat, wrapper : Nat]
Output == [stamp : SUBSET Seen, library : SUBSET Library, bindings : SUBSET Bindings,
           link : SUBSET Links]

Run == [at : {"idle", "main", "build_wamr", "generate_bindings", "end"},
        env : [platform : SUBSET Names, target : SUBSET Names, docs : BOOLEAN],
        seen : SUBSET Seen, link : SUBSET Links]

OutInv ==
  \A u \in Unit : \A s \in out[u].stamp :
    /\ s \in Seen /\ GoodBindings(u, s)
    /\ ~s.docs => GoodLibrary(u, s) /\ out[u].link = Needs(u)
    /\ s.docs => out[u].link = {}

ScriptInv ==
  script.at # "idle" =>
    /\ out[unit].stamp = {}
    /\ \E s \in Seen :
         /\ script.seen = {s}
         /\ script.env.platform = s.platform /\ script.env.target = s.target
         /\ script.env.docs = s.docs
         /\ script.at \in {"main", "build_wamr"} => script.link = {}
         /\ script.at = "build_wamr" => ~s.docs
         /\ s.docs => script.link = {}
         /\ script.at \in {"generate_bindings", "end"} /\ ~s.docs =>
              GoodLibrary(unit, s) /\ script.link = Needs(unit)
         /\ script.at = "end" => GoodBindings(unit, s)

TypeOK ==
  /\ tree \in [present : BOOLEAN, rev : Nat, cmake : Nat, wrapper : Nat] /\ tree.cmake <= tree.rev
  /\ unit \in Unit /\ env \in Environment
  /\ out \in [Unit -> Output]
  /\ script \in Run

IInv == TypeOK /\ OutInv /\ ScriptInv

-----------------------------------------------------------------------------
(* The configuration                                                       *)

(* The script's definitions leave no toggle to its default.                *)
LEMMA DefinesExact ==
  ASSUME NEW features, features \subseteq Feature
  PROVE  Built(Defines(features)) =
           (features \ {"hw-bound-check"})
           \union {"interp", "fast-interp"}
           \union (IF "simd" \in features THEN {"simde"} ELSE {})
           \union (IF "hw-bound-check" \in features THEN {} ELSE {"no-hw-bound-check"})
<1> DEFINE Wanted == (features \ {"hw-bound-check"})
                     \union {"interp", "fast-interp"}
                     \union (IF "simd" \in features THEN {"simde"} ELSE {})
                     \union (IF "hw-bound-check" \in features THEN {} ELSE {"no-hw-bound-check"})
<1>1. \A t \in Toggle : (t \in Built(Defines(features)) <=> Defines(features)[t] = "1")
  BY DEF Built, Defines
<1>2. Built(Defines(features)) \subseteq Toggle /\ Wanted \subseteq Toggle
  BY DEF Built, Toggle, Fixed
<1>3. \A t \in Fixed : Defines(features)[t] = "1" <=> t \in Wanted
  <2>1. \A t \in Fixed : t \notin features
    BY FeatureAssumption
  <2>2. QED
    BY <2>1 DEF Defines, Toggle, Fixed, flag
<1>4. \A t \in Feature \ {"hw-bound-check"} : Defines(features)[t] = "1" <=> t \in Wanted
  <2>1. \A t \in Feature : t \notin Fixed
    BY FeatureAssumption
  <2>2. \A t \in Feature \ {"hw-bound-check"} : Defines(features)[t] = flag(features, t)
    BY <2>1 DEF Defines, Toggle, Fixed
  <2>3. \A t \in Feature \ {"hw-bound-check"} : t \in Wanted <=> t \in features
    BY <2>1 DEF Fixed
  <2>4. QED
    BY <2>2, <2>3 DEF flag
<1>5. \A t \in Toggle : t \in Fixed \/ t \in Feature \ {"hw-bound-check"}
  BY DEF Toggle
<1> HIDE DEF Wanted
<1>6. Built(Defines(features)) = Wanted
  BY <1>1, <1>2, <1>3, <1>4, <1>5
<1>7. QED
  BY <1>6 DEF Wanted

-----------------------------------------------------------------------------
(* The invariant                                                           *)

LEMMA NamesOf ==
  /\ \A e \in Environment : e.platform \subseteq Names /\ e.target \subseteq Names
  /\ Platforms \subseteq Names /\ Targets \subseteq Names
  /\ \A u \in Unit : wamr_platform(u.os) \subseteq Names /\ wamr_target(u.arch) \subseteq Names
  /\ Host \in Names
<1>1. Platforms \subseteq Names /\ Targets \subseteq Names /\ Mapped \subseteq Names /\ Host \in Names
  BY DEF Names
<1>2. \A e \in Environment : e.platform \subseteq Platforms /\ e.target \subseteq Targets
  BY DEF Platforms, Targets
<1>3. \A u \in Unit : wamr_platform(u.os) \subseteq Mapped /\ wamr_target(u.arch) \subseteq Mapped
  BY DEF Mapped
<1>4. QED
  BY <1>1, <1>2, <1>3

LEMMA InitIInv == Init => IInv
<1> SUFFICES ASSUME Init PROVE IInv
  OBVIOUS
<1>1. TypeOK
  <2>1. NoOut \in Output
    BY DEF NoOut, Output
  <2>2. out \in [Unit -> Output]
    BY <2>1 DEF Init
  <2>3. QED
    BY <2>2 DEF Init, TypeOK, Idle, Run
<1>2. OutInv /\ ScriptInv
  BY DEF Init, OutInv, ScriptInv, Idle, NoOut
<1>3. QED
  BY <1>1, <1>2 DEF IInv

LEMMA TreeTyped ==
  ASSUME NEW t \in [present : BOOLEAN, rev : Nat, cmake : Nat, wrapper : Nat], NEW c \in Nat
  PROVE  [t EXCEPT !.rev = @ + 1, !.cmake = c]
           \in [present : BOOLEAN, rev : Nat, cmake : Nat, wrapper : Nat]
<1>1. t.rev + 1 \in Nat
  OBVIOUS
<1>2. QED
  BY <1>1

LEMMA TreeThere ==
  ASSUME NEW t \in [present : BOOLEAN, rev : Nat, cmake : Nat, wrapper : Nat]
  PROVE  [t EXCEPT !.present = TRUE, !.rev = @ + 1, !.cmake = t.rev + 1]
           \in [present : BOOLEAN, rev : Nat, cmake : Nat, wrapper : Nat]
<1>1. t.rev + 1 \in Nat
  OBVIOUS
<1>2. QED
  BY <1>1

(* A change of the sources leaves everything as old as it was, or older.   *)
LEMMA SourcesStep ==
  ASSUME IInv, UpdateSubmodule \/ RemoveSubmodule \/ InitSubmodule \/ EditWrapper
  PROVE  IInv'
<1>1. UNCHANGED <<env, unit, out, script>>
  BY DEF UpdateSubmodule, RemoveSubmodule, InitSubmodule, EditWrapper
<1> DEFINE Tree == [present : BOOLEAN, rev : Nat, cmake : Nat, wrapper : Nat]
<1>2. tree' \in Tree /\ tree'.cmake <= tree'.rev
      /\ tree.cmake <= tree'.cmake /\ tree.wrapper <= tree'.wrapper
  <2>1. /\ tree \in Tree /\ tree.cmake <= tree.rev
        /\ tree.cmake \in Nat /\ tree.rev \in Nat /\ tree.wrapper \in Nat
    BY DEF IInv, TypeOK
  <2>2. CASE UpdateSubmodule
    <3>1. PICK cmake \in {tree.cmake, tree.rev + 1} :
            tree' = [tree EXCEPT !.rev = @ + 1, !.cmake = cmake]
      BY <2>2 DEF UpdateSubmodule
    <3>2. cmake \in Nat /\ cmake <= tree.rev + 1 /\ tree.cmake <= cmake
      BY <2>1, <3>1
    <3>3. tree' \in Tree
      BY <2>1, <3>1, <3>2, TreeTyped
    <3>4. tree'.rev = tree.rev + 1 /\ tree'.cmake = cmake /\ tree'.wrapper = tree.wrapper
      BY <2>1, <3>1
    <3>5. QED
      BY <2>1, <3>2, <3>3, <3>4
  <2>3. CASE RemoveSubmodule
    <3>1. tree' \in Tree
      BY <2>1, <2>3 DEF RemoveSubmodule
    <3>2. tree'.rev = tree.rev /\ tree'.cmake = tree.cmake /\ tree'.wrapper = tree.wrapper
      BY <2>1, <2>3 DEF RemoveSubmodule
    <3>3. QED
      BY <2>1, <3>1, <3>2
  <2>4. CASE InitSubmodule
    <3>1. tree' \in Tree
      BY <2>1, <2>4, TreeThere DEF InitSubmodule
    <3>2. tree'.rev = tree.rev + 1 /\ tree'.cmake = tree.rev + 1 /\ tree'.wrapper = tree.wrapper
      BY <2>1, <2>4 DEF InitSubmodule
    <3>3. QED
      BY <2>1, <3>1, <3>2
  <2>5. CASE EditWrapper
    <3>1. tree' \in Tree
      BY <2>1, <2>5 DEF EditWrapper
    <3>2. tree'.rev = tree.rev /\ tree'.cmake = tree.cmake /\ tree'.wrapper = tree.wrapper + 1
      BY <2>1, <2>5 DEF EditWrapper
    <3>3. QED
      BY <2>1, <3>1, <3>2
  <2>6. QED
    BY <2>2, <2>3, <2>4, <2>5
<1>3. tree.cmake \in Nat /\ tree.wrapper \in Nat
  BY DEF IInv, TypeOK
<1>4. Seen \subseteq Seen'
  BY <1>2, <1>3 DEF Seen
<1>5. \A s \in Seen : s.cmake \in Nat /\ s.wrapper \in Nat
  BY <1>3 DEF Seen
<1>6. TypeOK'
  <2>1. Output \subseteq Output' /\ Run \subseteq Run'
    BY <1>4 DEF Output, Run
  <2>2. out' \in [Unit -> Output'] /\ script' \in Run'
    BY <1>1, <2>1 DEF IInv, TypeOK
  <2>3. QED
    BY <1>1, <1>2, <2>2 DEF IInv, TypeOK
<1>7. \A u \in Unit : \A b \in out[u].bindings : b.wrapper \in Nat
  BY DEF IInv, TypeOK, Output, Bindings
<1>8. \A u \in Unit, s \in Seen : GoodBindings(u, s) => GoodBindings(u, s)'
  BY <1>1, <1>2, <1>3, <1>7 DEF GoodBindings
<1>9. \A u \in Unit, s \in Seen : GoodLibrary(u, s) => GoodLibrary(u, s)'
  BY <1>1 DEF GoodLibrary
<1>10. OutInv'
  BY <1>1, <1>4, <1>8, <1>9 DEF IInv, OutInv, Needs
<1>11. ScriptInv'
  <2>1. unit \in Unit
    BY DEF IInv, TypeOK
  <2>2. QED
    BY <1>1, <1>4, <1>8, <1>9, <2>1 DEF IInv, ScriptInv, Needs
<1>12. QED
  BY <1>6, <1>10, <1>11 DEF IInv

(* Another unit or another environment is chosen between two runs.         *)
LEMMA ChooseStep ==
  ASSUME IInv, Choose
  PROVE  IInv'
<1>1. /\ UNCHANGED <<tree, out, script>> /\ script.at = "idle"
      /\ env' \in Environment /\ unit' \in Unit
  BY DEF Choose
<1>2. Seen' = Seen /\ Output' = Output /\ Run' = Run
  BY <1>1 DEF Seen, Output, Run
<1>3. TypeOK' /\ ScriptInv'
  BY <1>1, <1>2 DEF IInv, TypeOK, ScriptInv
<1>4. OutInv'
  BY <1>1, <1>2 DEF IInv, OutInv, GoodLibrary, GoodBindings
<1>5. QED
  BY <1>3, <1>4 DEF IInv

LEMMA CargoStep ==
  ASSUME IInv, Cargo
  PROVE  IInv'
<1>1. /\ UNCHANGED <<tree, env, unit>>
      /\ script' = [at |-> "main", env |-> env, seen |-> {Tracked}, link |-> {}]
      /\ out' = [out EXCEPT ![unit].stamp = {}]
  BY DEF Cargo
<1>2. Seen' = Seen /\ Output' = Output /\ Run' = Run
  BY <1>1 DEF Seen, Output, Run
<1>3. TypeOK
  BY DEF IInv
<1>4. /\ out' \in [Unit -> Output] /\ out'[unit].stamp = {}
      /\ \A u \in Unit : u # unit => out'[u] = out[u]
  BY <1>1, <1>3 DEF TypeOK, Output
<1>5. Tracked \in Seen
  BY <1>3, EnvironmentAssumption DEF TypeOK, Tracked, Seen
<1>6. TypeOK'
  <2>1. env.platform \subseteq Names /\ env.target \subseteq Names /\ env.docs \in BOOLEAN
    <3>1. env \in Environment
      BY <1>3 DEF TypeOK
    <3>2. QED
      BY <3>1, EnvironmentAssumption, NamesOf
  <2>2. env = [platform |-> env.platform, target |-> env.target, docs |-> env.docs]
    <3>1. env \in Environment
      BY <1>3 DEF TypeOK
    <3>2. QED
      BY <3>1, EnvironmentAssumption
  <2>3. script' \in Run
    BY <1>1, <1>5, <2>1, <2>2 DEF Run
  <2>4. QED
    BY <1>1, <1>2, <1>3, <1>4, <2>3 DEF TypeOK
<1>7. OutInv'
  BY <1>1, <1>2, <1>3, <1>4 DEF IInv, TypeOK, OutInv, GoodLibrary, GoodBindings, Needs
<1>8. ScriptInv'
  BY <1>1, <1>2, <1>4, <1>5 DEF ScriptInv, Tracked
<1>9. QED
  BY <1>6, <1>7, <1>8 DEF IInv

(* A step of a run changes the output of its unit only, which has no       *)
(* stamp, and so disturbs no other.                                        *)
LEMMA RunKeepsOut ==
  ASSUME IInv, UNCHANGED <<tree, env, unit>>,
         out' \in [Unit -> Output], out'[unit].stamp = {},
         \A u \in Unit : u # unit => out'[u] = out[u],
         script' \in Run, ScriptInv'
  PROVE  IInv'
<1>1. Seen' = Seen /\ Output' = Output /\ Run' = Run
  BY DEF Seen, Output, Run
<1>2. TypeOK'
  BY <1>1 DEF IInv, TypeOK
<1>3. OutInv'
  BY <1>1 DEF IInv, TypeOK, OutInv, GoodLibrary, GoodBindings, Needs
<1>4. QED
  BY <1>2, <1>3 DEF IInv

LEMMA FailStep ==
  ASSUME IInv, Fail
  PROVE  IInv'
<1>1. script' = Idle /\ UNCHANGED <<tree, env, unit, out>> /\ script.at # "idle"
  BY DEF Fail
<1>2. ScriptInv' /\ script' \in Run
  BY <1>1 DEF ScriptInv, Idle, Run
<1>3. out \in [Unit -> Output] /\ out[unit].stamp = {}
  BY <1>1 DEF IInv, TypeOK, ScriptInv
<1>4. QED
  BY <1>1, <1>2, <1>3, RunKeepsOut

(* What a run saw when it began.                                           *)
LEMMA RunSaw ==
  ASSUME IInv, script.at # "idle"
  PROVE  \E s \in Seen :
           /\ script.seen = {s}
           /\ script.env.platform = s.platform /\ script.env.target = s.target
           /\ script.env.docs = s.docs
           /\ script.at \in {"main", "build_wamr"} => script.link = {}
           /\ script.at = "build_wamr" => ~s.docs
           /\ s.docs => script.link = {}
           /\ script.at \in {"generate_bindings", "end"} /\ ~s.docs =>
                GoodLibrary(unit, s) /\ script.link = Needs(unit)
           /\ script.at = "end" => GoodBindings(unit, s)
BY DEF IInv, ScriptInv

LEMMA MainStep ==
  ASSUME IInv, main
  PROVE  IInv'
<1>1. /\ UNCHANGED <<tree, env, unit, out>> /\ script.at = "main"
      /\ script' = [script EXCEPT !.at = IF script.env.docs THEN "generate_bindings"
                                         ELSE "build_wamr"]
  BY DEF main
<1>2. script \in Run /\ out \in [Unit -> Output] /\ out[unit].stamp = {}
  BY <1>1 DEF IInv, TypeOK, ScriptInv
<1>3. /\ script' \in Run
      /\ script'.at = IF script.env.docs THEN "generate_bindings" ELSE "build_wamr"
      /\ script'.env = script.env /\ script'.seen = script.seen /\ script'.link = script.link
  BY <1>1, <1>2 DEF Run
<1>4. PICK s \in Seen :
        /\ script.seen = {s}
        /\ script.env.platform = s.platform /\ script.env.target = s.target
        /\ script.env.docs = s.docs /\ script.link = {}
  BY <1>1, RunSaw
<1>5. Seen' = Seen /\ s.docs \in BOOLEAN
  BY <1>1 DEF Seen
<1>6. ScriptInv'
  BY <1>1, <1>2, <1>3, <1>4, <1>5 DEF ScriptInv
<1>7. QED
  BY <1>1, <1>2, <1>3, <1>6, RunKeepsOut

LEMMA BuildStep ==
  ASSUME IInv, build_wamr
  PROVE  IInv'
<1>1. PICK platform \in Given(script.env.platform, wamr_platform(unit.os), Platforms),
           target \in Given(script.env.target, wamr_target(unit.arch), Targets) :
        out' = [out EXCEPT ![unit].library =
                  {[rev |-> tree.rev, on |-> Built(Defines(unit.features)),
                    platform |-> platform, target |-> target]}]
  BY DEF build_wamr
<1>2. /\ UNCHANGED <<tree, env, unit>> /\ script.at = "build_wamr"
      /\ script' = [script EXCEPT !.at = "generate_bindings",
                                  !.link = {"iwasm"} \union link_system_libs(unit.os)]
  BY DEF build_wamr
<1> DEFINE lib == [rev |-> tree.rev, on |-> Built(Defines(unit.features)),
                   platform |-> platform, target |-> target]
<1>3. script \in Run /\ out \in [Unit -> Output] /\ out[unit].stamp = {} /\ unit \in Unit
      /\ tree.rev \in Nat /\ tree.cmake \in Nat /\ tree.cmake <= tree.rev
  BY <1>2 DEF IInv, TypeOK, ScriptInv
<1>4. PICK s \in Seen :
        /\ script.seen = {s}
        /\ script.env.platform = s.platform /\ script.env.target = s.target
        /\ script.env.docs = s.docs /\ ~s.docs
  BY <1>2, RunSaw
<1>5. lib \in Library
  <2>1. script.env.platform \subseteq Names /\ script.env.target \subseteq Names
    BY <1>3 DEF Run
  <2>2. platform \in Names
    <3>1. CASE script.env.platform # {}
      BY <2>1, <3>1 DEF Given
    <3>2. CASE script.env.platform = {} /\ wamr_platform(unit.os) # {}
      BY <1>3, <3>2, NamesOf DEF Given
    <3>3. CASE script.env.platform = {} /\ wamr_platform(unit.os) = {}
      <4>1. platform \in Platforms \union {Host}
        BY <3>3 DEF Given
      <4>2. QED
        BY <4>1, NamesOf
    <3>4. QED
      BY <3>1, <3>2, <3>3
  <2>3. target \in Names
    <3>1. CASE script.env.target # {}
      BY <2>1, <3>1 DEF Given
    <3>2. CASE script.env.target = {} /\ wamr_target(unit.arch) # {}
      BY <1>3, <3>2, NamesOf DEF Given
    <3>3. CASE script.env.target = {} /\ wamr_target(unit.arch) = {}
      <4>1. target \in Targets \union {Host}
        BY <3>3 DEF Given
      <4>2. QED
        BY <4>1, NamesOf
    <3>4. QED
      BY <3>1, <3>2, <3>3
  <2>6. Built(Defines(unit.features)) \subseteq Toggle
    BY DEF Built
  <2>7. QED
    BY <1>3, <2>2, <2>3, <2>6 DEF Library
<1>6. Asked(lib, unit, s)
  <2>1. unit.features \subseteq Feature
    BY <1>3, UnitAssumption
  <2>2. lib.on = Built(Defines(unit.features)) /\ lib.platform = platform /\ lib.target = target
    OBVIOUS
  <2>3. platform \in Given(s.platform, wamr_platform(unit.os), Platforms)
        /\ target \in Given(s.target, wamr_target(unit.arch), Targets)
    BY <1>4
  <2> HIDE DEF lib
  <2>4. /\ s.platform # {} => lib.platform \in s.platform
        /\ s.platform = {} /\ wamr_platform(unit.os) # {} => lib.platform \in wamr_platform(unit.os)
        /\ s.target # {} => lib.target \in s.target
        /\ s.target = {} /\ wamr_target(unit.arch) # {} => lib.target \in wamr_target(unit.arch)
    BY <2>2, <2>3 DEF Given
  <2>5. QED
    BY <2>1, <2>2, <2>4, DefinesExact DEF Asked
<1>7. lib.rev >= s.cmake
  BY <1>3 DEF Seen
<1> HIDE DEF lib
<1>8. /\ out' \in [Unit -> Output] /\ out'[unit].stamp = {} /\ out'[unit].library = {lib}
      /\ \A u \in Unit : u # unit => out'[u] = out[u]
  BY <1>1, <1>3, <1>5 DEF Output, lib
<1>9. GoodLibrary(unit, s)'
  BY <1>2, <1>6, <1>7, <1>8 DEF GoodLibrary, Asked
<1>10. /\ script' \in Run /\ script'.at = "generate_bindings" /\ script'.link = Needs(unit)
       /\ script'.env = script.env /\ script'.seen = script.seen
  <2>1. Needs(unit) \subseteq Links
    BY <1>3 DEF Links
  <2>2. QED
    BY <1>2, <1>3, <2>1 DEF Run, Needs
<1>11. Seen' = Seen /\ Needs(unit)' = Needs(unit)
  BY <1>2 DEF Seen, Needs
<1>12. ScriptInv'
  BY <1>2, <1>4, <1>8, <1>9, <1>10, <1>11 DEF ScriptInv
<1>13. QED
  BY <1>2, <1>8, <1>10, <1>12, RunKeepsOut

LEMMA BindingsStep ==
  ASSUME IInv, generate_bindings
  PROVE  IInv'
<1>1. /\ UNCHANGED <<tree, env, unit>> /\ script.at = "generate_bindings"
      /\ out' = [out EXCEPT ![unit].bindings = {[rev |-> tree.rev, wrapper |-> tree.wrapper]}]
      /\ script' = [script EXCEPT !.at = "end"]
  BY DEF generate_bindings
<1>2. script \in Run /\ out \in [Unit -> Output] /\ out[unit].stamp = {} /\ unit \in Unit
      /\ tree.rev \in Nat /\ tree.cmake \in Nat /\ tree.cmake <= tree.rev /\ tree.wrapper \in Nat
  BY <1>1 DEF IInv, TypeOK, ScriptInv
<1>3. PICK s \in Seen :
        /\ script.seen = {s}
        /\ script.env.platform = s.platform /\ script.env.target = s.target
        /\ script.env.docs = s.docs /\ (s.docs => script.link = {})
        /\ ~s.docs => GoodLibrary(unit, s) /\ script.link = Needs(unit)
  BY <1>1, RunSaw
<1>4. [rev |-> tree.rev, wrapper |-> tree.wrapper] \in Bindings
  BY <1>2 DEF Bindings
<1>5. /\ out' \in [Unit -> Output] /\ out'[unit].stamp = {}
      /\ out'[unit].library = out[unit].library
      /\ out'[unit].bindings = {[rev |-> tree.rev, wrapper |-> tree.wrapper]}
      /\ \A u \in Unit : u # unit => out'[u] = out[u]
  BY <1>1, <1>2, <1>4 DEF Output
<1>6. GoodBindings(unit, s)'
  <2>1. s.cmake <= tree.rev /\ s.wrapper <= tree.wrapper
    BY <1>2 DEF Seen
  <2> DEFINE b == [rev |-> tree.rev, wrapper |-> tree.wrapper]
  <2>2. b.rev = tree.rev /\ b.wrapper = tree.wrapper /\ tree' = tree
    BY <1>1
  <2> HIDE DEF b
  <2>3. out'[unit].bindings = {b} /\ unit' = unit
    BY <1>1, <1>5 DEF b
  <2>4. QED
    BY <1>2, <2>1, <2>2, <2>3 DEF GoodBindings
<1>7. GoodLibrary(unit, s) => GoodLibrary(unit, s)'
  BY <1>1, <1>5 DEF GoodLibrary, Asked
<1>8. /\ script' \in Run /\ script'.at = "end" /\ script'.link = script.link
      /\ script'.env = script.env /\ script'.seen = script.seen
  BY <1>1, <1>2 DEF Run
<1>9. Seen' = Seen /\ Needs(unit)' = Needs(unit)
  BY <1>1 DEF Seen, Needs
<1>10. ScriptInv'
  BY <1>1, <1>3, <1>5, <1>6, <1>7, <1>8, <1>9 DEF ScriptInv
<1>11. QED
  BY <1>1, <1>5, <1>8, <1>10, RunKeepsOut

LEMMA EndStep ==
  ASSUME IInv, End
  PROVE  IInv'
<1>1. /\ UNCHANGED <<tree, env, unit>> /\ script.at = "end" /\ script' = Idle
      /\ out' = [out EXCEPT ![unit].stamp = script.seen, ![unit].link = script.link]
  BY DEF End
<1>2. script \in Run /\ out \in [Unit -> Output] /\ unit \in Unit
  BY <1>1 DEF IInv, TypeOK
<1>3. PICK s \in Seen :
        /\ script.seen = {s} /\ (s.docs => script.link = {})
        /\ ~s.docs => GoodLibrary(unit, s) /\ script.link = Needs(unit)
        /\ GoodBindings(unit, s)
  BY <1>1, RunSaw
<1>4. /\ out' \in [Unit -> Output] /\ out'[unit].stamp = {s} /\ out'[unit].link = script.link
      /\ out'[unit].library = out[unit].library /\ out'[unit].bindings = out[unit].bindings
      /\ \A u \in Unit : u # unit => out'[u] = out[u]
  BY <1>1, <1>2, <1>3 DEF Output, Run
<1>5. Seen' = Seen /\ Output' = Output /\ Run' = Run
  BY <1>1 DEF Seen, Output, Run
<1>6. TypeOK' /\ ScriptInv'
  BY <1>1, <1>2, <1>4, <1>5 DEF IInv, TypeOK, ScriptInv, Idle, Run
<1>7. ASSUME NEW u \in Unit, NEW t \in out'[u].stamp
      PROVE  /\ t \in Seen /\ GoodBindings(u, t)'
             /\ ~t.docs => GoodLibrary(u, t)' /\ out'[u].link = Needs(u)
             /\ t.docs => out'[u].link = {}
  <2>1. CASE u = unit
    BY <1>1, <1>3, <1>4, <1>7, <2>1 DEF GoodBindings, GoodLibrary
  <2>2. CASE u # unit
    BY <1>1, <1>4, <1>7, <2>2 DEF IInv, OutInv, GoodBindings, GoodLibrary
  <2>3. QED
    BY <2>1, <2>2
<1>8. OutInv'
  BY <1>1, <1>5, <1>7 DEF OutInv, Needs
<1>9. QED
  BY <1>6, <1>8 DEF IInv

LEMMA NextIInv == IInv /\ [Next]_vars => IInv'
<1> SUFFICES ASSUME IInv, [Next]_vars PROVE IInv'
  OBVIOUS
<1>1. CASE UNCHANGED vars
  BY <1>1 DEF vars, IInv, TypeOK, OutInv, ScriptInv, Seen, Output, Run, GoodLibrary,
              GoodBindings, Needs
<1>2. CASE Next
  BY <1>2, SourcesStep, ChooseStep, CargoStep, FailStep, MainStep, BuildStep, BindingsStep,
     EndStep DEF Next
<1>3. QED
  BY <1>1, <1>2

-----------------------------------------------------------------------------
(* Theorems                                                                *)

(* What each output directory holds, and what a run has left so far, in    *)
(* every reachable state.                                                  *)
THEOREM BuildInvariant == Spec => []IInv
BY InitIInv, NextIInv, PTL DEF Spec

(* The stamp of a unit that is ready.                                      *)
LEMMA ReadyStamp ==
  ASSUME IInv, Ready
  PROVE  /\ GoodBindings(unit, Tracked)
         /\ ~env.docs => GoodLibrary(unit, Tracked) /\ out[unit].link = Needs(unit)
         /\ env.docs => out[unit].link = {}
         /\ tree.wrapper \in Nat
         /\ \A b \in out[unit].bindings : b.wrapper \in Nat
<1>1. Tracked \in out[unit].stamp /\ unit \in Unit /\ Tracked.docs = env.docs
  BY DEF Ready, IInv, TypeOK, Tracked
<1>2. tree.wrapper \in Nat /\ \A b \in out[unit].bindings : b.wrapper \in Nat
  BY DEF IInv, TypeOK, Output, Bindings
<1>3. QED
  BY <1>1, <1>2 DEF IInv, OutInv

(* Whatever was built before, what is linked is what is asked for now      *)
(* (build.rs:93-160).                                                      *)
THEOREM AlwaysConfigured == Spec => []Configured
<1>1. IInv => Configured
  BY ReadyStamp DEF Configured, GoodLibrary, Asked, Tracked
<1>2. QED
  BY <1>1, BuildInvariant, PTL

(* A changed wrapper.h or CMakeLists.txt is never missed, also when it     *)
(* changes during a run, or when a run fails (build.rs:66-76).             *)
THEOREM AlwaysUpToSources == Spec => []UpToSources
<1>1. IInv => UpToSources
  BY ReadyStamp DEF UpToSources, GoodBindings, GoodLibrary, Tracked
<1>2. QED
  BY <1>1, BuildInvariant, PTL

(* The link directives are those of the library that was built             *)
(* (build.rs:61-86, 166-189).                                              *)
THEOREM LinksAlwaysSound == Spec => []LinkSound
<1>1. IInv => LinkSound
  BY ReadyStamp DEF LinkSound, GoodLibrary, Needs
<1>2. QED
  BY <1>1, BuildInvariant, PTL

=============================================================================
