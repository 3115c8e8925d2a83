------------------------------- MODULE MCCall -------------------------------
(* Instances of Call.tla: functions with values, called one at a time, and *)
(* functions without, nested in each other.                                *)
EXTENDS Call, TLC

Sig(p, r) == [params |-> p, results |-> r]
Func(p, r, import) == [params |-> p, results |-> r, import |-> import]
None == Sig(<<>>, <<>>)

(* Host functions defined under one name; an import takes the one of its   *)
(* type.                                                                   *)
Hosts == {None, Sig(<<"f32">>, <<"i32">>), Sig(<<"f64">>, <<"i64">>), Sig(<<"i64">>, <<"i64">>)}

Plain == {Func(<<>>, <<>>, None)}
Funcs == Plain \union
  {Func(<<"i32">>, <<"i64">>, Sig(<<"f32">>, <<"i32">>)),
   Func(<<"f64">>, <<"f32", "i32">>, Sig(<<"i64">>, <<"i64">>))}

HostVals == {v \in Val : v.ty \in {"i32", "i64"} /\ v.v \in {-2, 1}}
ArgLists == {<<>>} \union {<<v>> : v \in {w \in Val : w.ty \in {"i32", "f64"} /\ w.v \in {-2, 1, 5}}}

(* No values but the results of Wasm.                                      *)
PlainArgs == {<<>>}
PlainHosts == {None}

(* Reference-typed results.                                                *)
RefFuncs == {Func(<<>>, <<"ref">>, None)}

Perms == Permutations(Instance)

=============================================================================
