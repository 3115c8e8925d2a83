------------------------------- MODULE MCBuild -------------------------------
(* A target that WAMR knows, with features that it has off, and one that   *)
(* it has on left out; and a target that it does not know.                 *)
EXTENDS Build

MCUnit ==
  {[features |-> {"simd", "hw-bound-check"}, os |-> "linux", arch |-> "x86_64"],
   [features |-> {"bulk-memory"}, os |-> "ios", arch |-> "wasm64"]}

Variables(platform, target, docs) == [platform |-> platform, target |-> target, docs |-> docs]

MCEnvironment ==
  {Variables({}, {}, FALSE), Variables({}, {}, TRUE),
   Variables({"nuttx"}, {"XTENSA"}, FALSE)}

=============================================================================
