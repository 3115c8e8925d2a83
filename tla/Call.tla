-------------------------------- MODULE Call --------------------------------
(***************************************************************************)
(* Calls across the border, in both directions and nested: Func::call      *)
(* (src/crates/wamrx/src/func.rs) from the program into Wasm, and the      *)
(* trampoline (src/crates/wamrx/src/linker.rs) from Wasm into a host       *)
(* function, which may call back in.  One thread; a stack of the calls of  *)
(* Func::call in progress, of which all but the top one are inside a host  *)
(* function.                                                               *)
(*                                                                         *)
(* WAMR's side is external and left as free as the bindings leave it: Wasm *)
(* calls, traps and returns as it likes; the unused half of a slot holds   *)
(* anything; an exception recorded on an instance makes the call that is   *)
(* running on it fail; whether a later call starts by clearing an old      *)
(* exception is open, as nothing in the bindings does it.                  *)
(***************************************************************************)
EXTENDS Value, FiniteSets, SequencesExt

CONSTANTS
  Instance,
  FuncType,    (* types of the exported functions, and of the import each  *)
               (* of them calls                                            *)
  HostType,    (* types of the host functions defined under the import's   *)
               (* name                                                     *)
  Matching,    (* external: what of its signature WAMR compares with the   *)
               (* type of an import before it binds a host function: the   *)
               (* letters, or, as value.rs:288-290 has it, the shape only  *)
  HostVal,     (* bound: what a host function may leave in its result      *)
  Args,        (* bound: argument lists the program passes                 *)
  Nested,      (* bound: functions whose calls are nested in each other    *)
  MaxResults,  (* bound: length of the results slice the program passes    *)
  MaxDepth     (* bound: calls of Func::call nested in each other          *)

ASSUME TypeAssumption ==
  /\ FuncType \subseteq [params : Seq(ValType), results : Seq(Kind), import : FuncTypes]
  /\ HostType \subseteq FuncTypes
  /\ HostVal \subseteq Val /\ Args \subseteq Seq(Val)
(* Host functions have at most one result (linker.rs:22-24).               *)
ASSUME OneResultAssumption == \A sig \in FuncType : Len(sig.import.results) <= 1
ASSUME MatchingAssumption == Matching \in {"letters", "shape"}
ASSUME BoundAssumption == MaxResults \in Nat /\ MaxDepth \in Nat

VARIABLES
  stack,       (* calls of Func::call in progress, innermost last           *)
  exc,         (* external: an exception is recorded on the instance        *)
  raised,      (* history: instances on which one ever was                  *)
  last         (* history: the call that returned in the last step, if any  *)

vars == <<stack, exc, raised, last>>

(* Where a call is: in Wasm, in a host function, or failing.               *)
Place == {"wasm", "host", "unwind"}

Top == Last(stack)
NoReport == [res |-> "none"]

(* Wasm calls its import with the values sent; seen is what the closure    *)
(* gets, out the trampoline's results, argv the slots.                     *)
NoHost == [sent |-> <<>>, seen |-> <<>>, out |-> <<>>, argv |-> <<>>]

(* The values that the last host function left, and that Wasm then read.   *)
NoBack == [wrote |-> <<>>, got |-> <<>>]

Host == [sent : Seq(Val), seen : Seq(Val), out : Seq(Val), argv : Seq(Slot)]
Back == [wrote : Seq(Val), got : Seq(Val)]

Frame ==
  [inst : Instance, sig : FuncType, args : Seq(Val), locals : Seq(Val), results : Seq(Val),
   at : Place, failed : BOOLEAN, host : Host, back : Back]

Report ==
  [res : {"Ok", "Trap", "SignatureMismatch"}, inst : Instance, sig : FuncType, args : Seq(Val),
   failed : BOOLEAN, before : Seq(Val), after : Seq(Val), raw : Seq(WasmVal)]

TypeOK ==
  /\ stack \in Seq(Frame)
  /\ exc \in [Instance -> BOOLEAN]
  /\ raised \subseteq Instance
  /\ last \in Report \union {NoReport}

Init ==
  /\ stack = <<>>
  /\ exc = [i \in Instance |-> FALSE]
  /\ raised = {}
  /\ last = NoReport

(* The innermost call is at place p.                                       *)
In(p) == stack # <<>> /\ Top.at = p

SetTop(frame) == stack' = [stack EXCEPT ![Len(stack)] = frame]

TypesOf(vals) == [k \in DOMAIN vals |-> vals[k].ty]

-----------------------------------------------------------------------------
(* Func::call                                                              *)

(* A zeroed value of each type: what the program's results slice holds.    *)
Blank(n) == [k \in 1 .. n |-> default_value("i32")]

(* The program's code runs: outside of any call, or in a host function.    *)
ProgramRuns == stack # <<>> => Top.at = "host"

(* results is too short: Err(SignatureMismatch), nothing is called.        *)
CallRefused(i, sig, args, n) ==
  /\ ProgramRuns
  /\ n < Len(sig.results)
  /\ last' = [res |-> "SignatureMismatch", inst |-> i, sig |-> sig, args |-> args,
              failed |-> FALSE, before |-> Blank(n), after |-> Blank(n), raw |-> <<>>]
  /\ UNCHANGED <<stack, exc, raised>>

(* The arguments are encoded and handed to wasm_runtime_call_wasm_a, which *)
(* (external) gives them to the function as its locals, or fails when      *)
(* their number is wrong.  Arguments of the right number have the right    *)
(* types: what WAMR does of others is not modelled.                        *)
Call(i, sig, args, n) ==
  /\ ProgramRuns /\ Len(stack) < MaxDepth
  /\ stack # <<>> => sig \in Nested /\ Top.sig \in Nested
  /\ n >= Len(sig.results)
  /\ LET raw == [k \in DOMAIN args |-> to_wasm_val(args[k])]
         miscounted == Len(args) # Len(sig.params)
     IN  /\ miscounted \/ TypesOf(args) = sig.params
         /\ stack' = Append(stack,
              [inst |-> i, sig |-> sig, args |-> args,
               locals |-> [k \in DOMAIN raw |->
                             [ty |-> raw[k].kind, v |-> Member(raw[k].kind, raw[k].of)]],
               results |-> Blank(n), at |-> IF miscounted THEN "unwind" ELSE "wasm",
               failed |-> miscounted, host |-> NoHost, back |-> NoBack])
         /\ \E kept \in {exc[i], FALSE} : exc' = [exc EXCEPT ![i] = kept \/ miscounted]
         /\ raised' = IF miscounted THEN raised \union {i} ELSE raised
  /\ last' = NoReport

(* The call returns to the program, with the results slice as it is then.  *)
Return(res, after, raw) ==
  /\ stack' = Front(stack)
  /\ last' = [res |-> res, inst |-> Top.inst, sig |-> Top.sig, args |-> Top.args,
              failed |-> Top.failed, before |-> Top.results, after |-> after, raw |-> raw]
  /\ UNCHANGED <<exc, raised>>

(* ok is false: Err(Trap), results untouched.                              *)
CallFails ==
  /\ In("unwind")
  /\ Return("Trap", Top.results, <<>>)

(* What the function may return: any value of each of its result types.    *)
RawOf(kind) == {w \in WasmVal : w.kind = kind /\ (kind \in ValType => w.of < 2 * Half(kind))}
RawResults(sig) ==
  {r \in [DOMAIN sig.results -> UNION {RawOf(kind) : kind \in Range(sig.results)}] :
     \A k \in DOMAIN sig.results : r[k].kind = sig.results[k]}

(* Mutant: the slots after the results are cleared.                        *)
DecodedCleared(results, raw) ==
  [k \in DOMAIN results |->
     IF k \in DOMAIN raw THEN from_wasm_val(raw[k]) ELSE default_value("i64")]

(* results.iter_mut().zip(raw_results): the slots after them stay.         *)
Decoded(results, raw) ==
  [k \in DOMAIN results |-> IF k \in DOMAIN raw THEN from_wasm_val(raw[k]) ELSE results[k]]

(* The function returns, and ok says whether an exception is recorded.     *)
WasmReturns ==
  /\ In("wasm")
  /\ IF exc[Top.inst]
     THEN Return("Trap", Top.results, <<>>)
     ELSE \E raw \in RawResults(Top.sig) : Return("Ok", Decoded(Top.results, raw), raw)

(* External: Wasm traps.                                                   *)
WasmTraps ==
  /\ In("wasm")
  /\ exc' = [exc EXCEPT ![Top.inst] = TRUE]
  /\ raised' = raised \union {Top.inst}
  /\ SetTop([Top EXCEPT !.at = "unwind", !.failed = TRUE])
  /\ last' = NoReport

-----------------------------------------------------------------------------
(* raw_trampoline                                                          *)

(* External: the slots in which WAMR passes a value.                       *)
SlotsOf(val) == {s \in Slot : s % (2 * Half(val.ty)) = Unsign(val.v, Half(val.ty))}

(* External: what WAMR reads back from the slots: slot 0, as the result    *)
(* type of the import.                                                     *)
Reads(types, argv) == [k \in DOMAIN types |-> [ty |-> types[k], v |-> Member(types[k], argv[1])]]

(* External: WAMR binds the import to a host function of its name.         *)
Binds(host, import) ==
  /\ Len(host.params) = Len(import.params) /\ Len(host.results) = Len(import.results)
  /\ Matching = "letters" => Spells(signature_cstring(host), import)

(* Wasm calls its import, if a host function is bound to it: the arguments *)
(* are decoded by the type of the host function, the results made with     *)
(* their defaults, and the closure starts.                                 *)
WasmCallsHost ==
  /\ In("wasm")
  /\ \E host \in HostType, sent \in [DOMAIN Top.sig.import.params -> Val] :
       /\ Binds(host, Top.sig.import)
       /\ TypesOf(sent) = Top.sig.import.params
       /\ \E argv \in [1 .. Len(sent) -> Slot] :
            /\ \A k \in DOMAIN sent : argv[k] \in SlotsOf(sent[k])
            /\ SetTop([Top EXCEPT
                 !.at = "host",
                 !.back = NoBack,
                 !.host = [sent |-> sent,
                           seen |-> [k \in DOMAIN host.params |->
                                       from_raw_slot(host.params[k], argv[k])],
                           out  |-> [k \in DOMAIN host.results |->
                                       default_value(host.results[k])],
                           argv |-> argv]])
  /\ last' = NoReport
  /\ UNCHANGED <<exc, raised>>

(* The closure writes its result, of whatever type.                        *)
HostWrites ==
  /\ In("host")
  /\ \E k \in DOMAIN Top.host.out, val \in HostVal :
       SetTop([Top EXCEPT !.host.out[k] = val])
  /\ last' = NoReport
  /\ UNCHANGED <<exc, raised>>

(* WAMR takes over again, and looks whether an exception was recorded.     *)
BackInWasm(frame) ==
  SetTop([frame EXCEPT !.at = IF exc'[frame.inst] THEN "unwind" ELSE "wasm",
                       !.host = NoHost])

(* Mutant: a result of the type's default is not written back.             *)
HostReturnsSparse ==
  /\ In("host")
  /\ UNCHANGED <<exc, raised>>
  /\ LET out == Top.host.out
         argv == IF out = <<>> \/ out[1].v = 0 THEN Top.host.argv
                 ELSE [Top.host.argv EXCEPT ![1] = to_raw_slot(out[1])]
         got == Reads(Top.sig.import.results, argv)
     IN  BackInWasm([Top EXCEPT !.back = [wrote |-> out, got |-> got]])
  /\ last' = NoReport

(* The closure returns: the first result, if there is one, goes to slot 0. *)
HostReturns ==
  /\ In("host")
  /\ UNCHANGED <<exc, raised>>
  /\ LET out == Top.host.out
         argv == IF out = <<>> THEN Top.host.argv ELSE <<to_raw_slot(out[1])>>
         got == Reads(Top.sig.import.results, argv)
     IN  BackInWasm([Top EXCEPT !.back = [wrote |-> out, got |-> got]])
  /\ last' = NoReport

(* Mutant: the panic is swallowed.                                         *)
HostPanicsUnseen ==
  /\ In("host")
  /\ UNCHANGED <<exc, raised>>
  /\ BackInWasm([Top EXCEPT !.failed = TRUE])
  /\ last' = NoReport

(* Mutant: the exception goes to the instance of the outermost call.       *)
HostPanicsOutermost ==
  /\ In("host")
  /\ exc' = [exc EXCEPT ![stack[1].inst] = TRUE]
  /\ raised' = raised \union {Top.inst}
  /\ BackInWasm([Top EXCEPT !.failed = TRUE])
  /\ last' = NoReport

(* The closure panics: catch_unwind, and an exception on the instance.     *)
HostPanics ==
  /\ In("host")
  /\ exc' = [exc EXCEPT ![Top.inst] = TRUE]
  /\ raised' = raised \union {Top.inst}
  /\ BackInWasm([Top EXCEPT !.failed = TRUE])
  /\ last' = NoReport

-----------------------------------------------------------------------------
Next ==
  \/ \E i \in Instance, sig \in FuncType, args \in Args, n \in 0 .. MaxResults :
       CallRefused(i, sig, args, n) \/ Call(i, sig, args, n)
  \/ CallFails \/ WasmReturns \/ WasmTraps
  \/ WasmCallsHost \/ HostWrites \/ HostReturns \/ HostPanics

Spec == Init /\ [][Next]_vars

-----------------------------------------------------------------------------
(* Properties                                                              *)

(* A call in which Wasm trapped or one of its own host functions panicked  *)
(* never returns Ok, whatever was called, and failed or cleared, in        *)
(* between (func.rs:105-108, linker.rs:206-222).                           *)
NoFalseOk == last.res = "Ok" => ~last.failed

(* A call returns Err(Trap) only on an instance where something went       *)
(* wrong: a failure that a host function met in a nested call on another   *)
(* instance stays there (linker.rs:219-221).                               *)
TrapConfined == last.res = "Trap" => last.inst \in raised

(* The closure sees the values Wasm sent, whatever the unused half of the  *)
(* slots holds, and the function the values the program passed             *)
(* (linker.rs:196-203, value.rs:96-97, func.rs:88).  That takes a WAMR     *)
(* which compares the letters of signatures, and letters that tell any two *)
(* types apart, where value.rs:288-290 has it that the shape is enough.    *)
ArgsArrive ==
  \A k \in DOMAIN stack :
    /\ stack[k].host.seen = stack[k].host.sent
    /\ stack[k].locals = stack[k].args

(* Wasm reads the result that the closure left, the default included, if   *)
(* it is of the declared type; it never reads an argument left in slot 0   *)
(* (linker.rs:204, 213-217).                                               *)
HostResultArrives ==
  \A k \in DOMAIN stack :
    LET back == stack[k].back
    IN  TypesOf(back.wrote) = TypesOf(back.got) => back.got = back.wrote

(* On Ok the first results are the returned values, and slots beyond them  *)
(* are as they were; on Err all of them are (func.rs:71-72, 105-114).      *)
WrittenOnlyOnOk ==
  last.res # "none" =>
    \A k \in DOMAIN last.before :
      IF last.res = "Ok" /\ k \in DOMAIN last.sig.results
      THEN last.after[k] = [ty |-> last.raw[k].kind,
                            v |-> Member(last.raw[k].kind, last.raw[k].of)]
      ELSE last.after[k] = last.before[k]

(* What ensures these; it is inductive.                                    *)

(* The function has its arguments, and a host function those of Wasm if it *)
(* was bound by its letters.  A call that failed is on its way out, one on *)
(* its way out is on an instance where something went wrong, and the       *)
(* results of a host function in progress are as many as its import's.     *)
FrameInv(f) ==
  /\ f.locals = f.args
  /\ Matching = "letters" => f.host.seen = f.host.sent
  /\ f.failed => f.at = "unwind"
  /\ f.at = "unwind" => f.inst \in raised
  /\ f.at = "host" => Len(f.host.out) = Len(f.sig.import.results)

IInv ==
  /\ TypeOK
  /\ HostResultArrives
  /\ \A k \in DOMAIN stack : FrameInv(stack[k])
  /\ \A k \in DOMAIN stack : k < Len(stack) => stack[k].at = "host"
  /\ \A i \in Instance : exc[i] => i \in raised
  /\ NoFalseOk
  /\ TrapConfined

(* value.rs:144: the union member read is that of the reported kind.       *)
MemberMatchesKind ==
  last.res = "Ok" => \A k \in DOMAIN last.raw : last.after[k].ty = last.raw[k].kind

=============================================================================
