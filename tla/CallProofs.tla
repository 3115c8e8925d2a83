----------------------------- MODULE CallProofs -----------------------------
(***************************************************************************)
(* Proofs about Call.tla, for every width, every set of functions and      *)
(* instances and every depth of nesting.                                   *)
(***************************************************************************)
EXTENDS Call, ValueProofs

-----------------------------------------------------------------------------
(* Steps of the stack                                                      *)

(* All that IInv says of a call, r being the instances where something     *)
(* went wrong.                                                             *)
Good(f, r) ==
  /\ f \in Frame
  /\ Matching = "letters" => f.host.seen = f.host.sent
  /\ f.locals = f.args
  /\ TypesOf(f.back.wrote) = TypesOf(f.back.got) => f.back.got = f.back.wrote
  /\ f.failed => f.at = "unwind"
  /\ f.at = "unwind" => f.inst \in r
  /\ f.at = "host" => Len(f.host.out) = Len(f.sig.import.results)

(* The rest of IInv.                                                       *)
Rest ==
  /\ exc \in [Instance -> BOOLEAN]
  /\ raised \subseteq Instance
  /\ \A i \in Instance : exc[i] => i \in raised
  /\ last \in Report \union {NoReport}
  /\ NoFalseOk
  /\ TrapConfined

Below == \A k \in 1 .. Len(stack) : k < Len(stack) => stack[k].at = "host"

LEMMA IInvShape ==
  IInv <=> /\ stack \in Seq(Frame)
           /\ \A k \in 1 .. Len(stack) : Good(stack[k], raised)
           /\ Below
           /\ Rest
<1>1. stack \in Seq(Frame) =>
        /\ DOMAIN stack = 1 .. Len(stack)
        /\ \A k \in 1 .. Len(stack) : stack[k] \in Frame
  OBVIOUS
<1>2. QED
  BY <1>1 DEF IInv, TypeOK, HostResultArrives, FrameInv, Good, Rest, Below

LEMMA IInvShapeNext ==
  /\ stack' \in Seq(Frame)
  /\ \A k \in 1 .. Len(stack') : Good(stack'[k], raised')
  /\ Below'
  /\ Rest'
  => IInv'
<1>1. stack' \in Seq(Frame) =>
        /\ DOMAIN stack' = 1 .. Len(stack')
        /\ \A k \in 1 .. Len(stack') : stack'[k] \in Frame
  OBVIOUS
<1>2. QED
  BY <1>1 DEF IInv, TypeOK, HostResultArrives, FrameInv, Good, Rest, Below

LEMMA GoodStays ==
  ASSUME NEW f, NEW r, NEW s, r \subseteq s, Good(f, r)
  PROVE  Good(f, s)
BY DEF Good

LEMMA NoReportIsFine == last' = NoReport => last' \in Report' \union {NoReport} /\ NoFalseOk' /\ TrapConfined'
BY DEF NoReport, NoFalseOk, TrapConfined

(* The innermost call.                                                     *)
LEMMA TopFrame ==
  ASSUME IInv, stack # <<>>
  PROVE  /\ Len(stack) \in Nat \ {0}
         /\ Top = stack[Len(stack)]
         /\ Good(Top, raised)
<1>1. stack \in Seq(Frame) /\ \A k \in 1 .. Len(stack) : Good(stack[k], raised)
  BY IInvShape
<1>2. Len(stack) \in Nat \ {0} /\ Len(stack) \in 1 .. Len(stack)
  BY <1>1
<1>3. Top = stack[Len(stack)]
  BY DEF Top, Last
<1>4. QED
  BY <1>1, <1>2, <1>3

(* The innermost call goes on.                                             *)
LEMMA SetTopKeeps ==
  ASSUME IInv, stack # <<>>, NEW f, SetTop(f), Good(f, raised'),
         raised \subseteq raised', Rest'
  PROVE  IInv'
<1>1. /\ stack \in Seq(Frame)
      /\ \A k \in 1 .. Len(stack) : Good(stack[k], raised)
      /\ Below
  BY IInvShape
<1>2. Len(stack) \in 1 .. Len(stack) /\ f \in Frame
  BY <1>1, TopFrame DEF Good
<1>3. /\ stack' \in Seq(Frame)
      /\ Len(stack') = Len(stack)
      /\ \A k \in 1 .. Len(stack) : stack'[k] = IF k = Len(stack) THEN f ELSE stack[k]
  BY <1>1, <1>2, ExceptSeq DEF SetTop
<1>4. \A k \in 1 .. Len(stack') : Good(stack'[k], raised')
  BY <1>1, <1>3, GoodStays
<1>5. Below'
  <2>1. SUFFICES ASSUME NEW k \in 1 .. Len(stack), k < Len(stack)
                 PROVE  stack'[k].at = "host"
    BY <1>3 DEF Below
  <2>2. stack'[k] = stack[k]
    BY <1>1, <1>3, <2>1
  <2>3. QED
    BY <1>1, <2>1, <2>2 DEF Below
<1>6. QED
  BY <1>3, <1>4, <1>5, IInvShapeNext

(* A call starts in a call that is at a host function.                     *)
LEMMA AppendKeeps ==
  ASSUME IInv, ProgramRuns, NEW f, stack' = Append(stack, f), Good(f, raised'),
         raised \subseteq raised', Rest'
  PROVE  IInv'
<1>1. /\ stack \in Seq(Frame)
      /\ \A k \in 1 .. Len(stack) : Good(stack[k], raised)
      /\ Below
      /\ Len(stack) \in Nat
  BY IInvShape
<1>2. f \in Frame
  BY DEF Good
<1>3. /\ stack' \in Seq(Frame)
      /\ Len(stack') = Len(stack) + 1
      /\ \A k \in 1 .. Len(stack) : stack'[k] = stack[k]
      /\ stack'[Len(stack) + 1] = f
  BY <1>1, <1>2, AppendProperties
<1>4. \A k \in 1 .. Len(stack') : k \in 1 .. Len(stack) \/ k = Len(stack) + 1
  BY <1>1, <1>3
<1>5. \A k \in 1 .. Len(stack') : Good(stack'[k], raised')
  BY <1>1, <1>3, <1>4, GoodStays
<1>6. Below'
  <2>2. \A k \in 1 .. Len(stack) : stack[k].at = "host"
    <3>1. TAKE k \in 1 .. Len(stack)
    <3>2. CASE k < Len(stack)
      BY <1>1, <3>2 DEF Below
    <3>3. CASE k = Len(stack)
      <4>1. stack # <<>>
        BY <1>1, <3>3
      <4>2. QED
        BY <3>3, <4>1, TopFrame DEF ProgramRuns
    <3>4. QED
      BY <1>1, <3>2, <3>3
  <2>3. \A k \in 1 .. Len(stack') : k < Len(stack') => k \in 1 .. Len(stack)
    BY <1>1, <1>3
  <2>4. QED
    BY <1>3, <2>2, <2>3 DEF Below
<1>7. QED
  BY <1>3, <1>5, <1>6, IInvShapeNext

(* The innermost call returns.                                             *)
LEMMA FrontKeeps ==
  ASSUME IInv, stack # <<>>, stack' = Front(stack), raised' = raised, Rest'
  PROVE  IInv'
<1>1. /\ stack \in Seq(Frame)
      /\ \A k \in 1 .. Len(stack) : Good(stack[k], raised)
      /\ Below
      /\ Len(stack) \in Nat \ {0}
  BY IInvShape, TopFrame
<1>2. /\ stack' \in Seq(Frame)
      /\ Len(stack') = Len(stack) - 1
      /\ \A k \in 1 .. Len(stack') : stack'[k] = stack[k]
  <2>1. stack' = SubSeq(stack, 1, Len(stack) - 1)
    BY DEF Front
  <2>2. \A k \in 1 .. Len(stack) - 1 : stack[k] \in Frame
    BY <1>1
  <2>3. 1 \in Int /\ Len(stack) - 1 \in Int
    BY <1>1
  <2> DEFINE n == Len(stack) - 1
             t == SubSeq(stack, 1, n)
  <2>4. /\ t \in Seq(Frame)
        /\ Len(t) = IF 1 <= n THEN n - 1 + 1 ELSE 0
        /\ \A k \in 1 .. n - 1 + 1 : t[k] = stack[1 + k - 1]
    BY <2>2, <2>3, SubSeqProperties
  <2> HIDE DEF t
  <2>5. n \in Nat /\ n - 1 + 1 = n /\ \A k \in 1 .. n : 1 + k - 1 = k
    BY <1>1
  <2> HIDE DEF n
  <2>6. Len(t) = n
    BY <2>4, <2>5
  <2>7. \A k \in 1 .. n : t[k] = stack[k]
    BY <2>4, <2>5
  <2>8. QED
    BY <2>1, <2>4, <2>6, <2>7 DEF t, n
<1>3. \A k \in 1 .. Len(stack') : k \in 1 .. Len(stack) /\ k < Len(stack)
  BY <1>1, <1>2
<1>4. \A k \in 1 .. Len(stack') : Good(stack'[k], raised')
  BY <1>1, <1>2, <1>3
<1>5. Below'
  BY <1>1, <1>2, <1>3 DEF Below
<1>6. QED
  BY <1>2, <1>4, <1>5, IInvShapeNext

-----------------------------------------------------------------------------
(* The actions                                                             *)

(* What is not touched, or only ever reports a call that did not return.   *)
LEMMA RestStays ==
  ASSUME IInv, exc' = exc, raised' = raised, last' = NoReport
  PROVE  Rest'
BY NoReportIsFine DEF IInv, TypeOK, Rest

LEMMA RestOfFailure ==
  ASSUME IInv, NEW i \in Instance, exc' = [exc EXCEPT ![i] = TRUE],
         raised' = raised \union {i}, last' = NoReport
  PROVE  Rest'
BY NoReportIsFine DEF IInv, TypeOK, Rest

LEMMA Signature ==
  ASSUME NEW sig \in FuncType
  PROVE  /\ sig.params \in Seq(ValType) /\ sig.results \in Seq(Kind)
         /\ Len(sig.results) \in Nat /\ DOMAIN sig.results = 1 .. Len(sig.results)
         /\ sig.import \in FuncTypes
         /\ sig.import.params \in Seq(ValType) /\ sig.import.results \in Seq(ValType)
         /\ Len(sig.import.results) \in 0 .. 1
<1>1. /\ sig.params \in Seq(ValType) /\ sig.results \in Seq(Kind) /\ sig.import \in FuncTypes
      /\ Len(sig.import.results) <= 1
  BY TypeAssumption, OneResultAssumption
<1>2. sig.import.params \in Seq(ValType) /\ sig.import.results \in Seq(ValType)
  BY <1>1 DEF FuncTypes
<1>3. Len(sig.import.results) \in Nat /\ Len(sig.results) \in Nat
  BY <1>1, <1>2
<1>4. DOMAIN sig.results = 1 .. Len(sig.results)
  BY <1>1, LenProperties
<1> DEFINE n == Len(sig.import.results)
<1>5. n \in Nat /\ n <= 1
  BY <1>1, <1>3
<1> HIDE DEF n
<1>6. n \in 0 .. 1
  BY <1>5
<1>7. QED
  BY <1>1, <1>2, <1>3, <1>4, <1>6 DEF n

LEMMA BlankTyped ==
  ASSUME NEW n \in Nat
  PROVE  Blank(n) \in Seq(Val) /\ DOMAIN Blank(n) = 1 .. n
<1>1. "i32" \in ValType
  BY DEF ValType
<1>2. Blank(n) \in [1 .. n -> Val]
  BY <1>1, ValShape DEF Blank
<1>3. QED
  BY <1>2, FunctionIsSeq

LEMMA CallRefusedKeeps ==
  ASSUME IInv, NEW i \in Instance, NEW sig \in FuncType, NEW args \in Args,
         NEW n \in 0 .. MaxResults, CallRefused(i, sig, args, n)
  PROVE  IInv'
<1>1. n \in Nat /\ args \in Seq(Val)
  BY BoundAssumption, TypeAssumption
<1>2. Blank(n) \in Seq(Val) /\ <<>> \in Seq(WasmVal)
  BY <1>1, BlankTyped
<1>3. last' \in Report /\ last'.res = "SignatureMismatch"
  BY <1>1, <1>2 DEF CallRefused, Report
<1>4. Rest'
  BY <1>3, IInvShape DEF CallRefused, Rest, NoFalseOk, TrapConfined
<1>5. stack' = stack /\ raised' = raised
  BY DEF CallRefused
<1>6. QED
  BY <1>4, <1>5, IInvShape, IInvShapeNext DEF Below

(* Encoded as wasm_val_t and read back by WAMR, the arguments are the same.*)
LEMMA ArgumentsArrive ==
  ASSUME NEW args \in Seq(Val)
  PROVE  LET raw == [k \in DOMAIN args |-> to_wasm_val(args[k])]
         IN  [k \in DOMAIN raw |-> [ty |-> raw[k].kind, v |-> Member(raw[k].kind, raw[k].of)]]
               = args
<1> DEFINE raw == [k \in DOMAIN args |-> to_wasm_val(args[k])]
           locals == [k \in DOMAIN raw |->
                        [ty |-> raw[k].kind, v |-> Member(raw[k].kind, raw[k].of)]]
<1>1. DOMAIN locals = DOMAIN args
  OBVIOUS
<1>2. \A k \in DOMAIN args : args[k] \in Val
  OBVIOUS
<1>3. \A k \in DOMAIN args : locals[k] = args[k]
  <2>1. TAKE k \in DOMAIN args
  <2>2. locals[k] = [ty |-> to_wasm_val(args[k]).kind,
                     v |-> Member(to_wasm_val(args[k]).kind, to_wasm_val(args[k]).of)]
    OBVIOUS
  <2>3. QED
    BY <1>2, <2>2, UnionRoundTrip
<1>4. args = [k \in DOMAIN args |-> args[k]] /\ locals = [k \in DOMAIN args |-> locals[k]]
  OBVIOUS
<1>5. QED
  BY <1>1, <1>3, <1>4

LEMMA CallKeeps ==
  ASSUME IInv, NEW i \in Instance, NEW sig \in FuncType, NEW args \in Args,
         NEW n \in 0 .. MaxResults, Call(i, sig, args, n)
  PROVE  IInv'
<1> DEFINE raw == [k \in DOMAIN args |-> to_wasm_val(args[k])]
           locals == [k \in DOMAIN raw |->
                        [ty |-> raw[k].kind, v |-> Member(raw[k].kind, raw[k].of)]]
           miscounted == Len(args) # Len(sig.params)
           f == [inst |-> i, sig |-> sig, args |-> args, locals |-> locals,
                 results |-> Blank(n), at |-> IF miscounted THEN "unwind" ELSE "wasm",
                 failed |-> miscounted, host |-> NoHost, back |-> NoBack]
<1>1. n \in Nat /\ args \in Seq(Val)
  BY BoundAssumption, TypeAssumption
<1>2. locals = args
  BY <1>1, ArgumentsArrive
<1>3. /\ stack' = Append(stack, f)
      /\ ProgramRuns
      /\ \E kept \in {exc[i], FALSE} : exc' = [exc EXCEPT ![i] = kept \/ miscounted]
      /\ raised' = IF miscounted THEN raised \union {i} ELSE raised
      /\ last' = NoReport
  BY DEF Call
<1> HIDE DEF locals, raw
<1>4. NoHost \in Host /\ NoBack \in Back /\ NoHost.seen = NoHost.sent /\ NoBack.got = NoBack.wrote
  BY DEF NoHost, NoBack, Host, Back
<1>5. f \in Frame
  BY <1>1, <1>2, <1>4, BlankTyped DEF Frame, Place
<1>6. Good(f, raised')
  BY <1>2, <1>3, <1>4, <1>5 DEF Good
<1>7. Rest'
  BY <1>3, NoReportIsFine DEF IInv, TypeOK, Rest
<1>8. QED
  BY <1>3, <1>6, <1>7, AppendKeeps

LEMMA TrapTyped ==
  ASSUME IInv, stack # <<>>, Return("Trap", Top.results, <<>>), Top.inst \in raised
  PROVE  IInv'
<1>1. Good(Top, raised)
  BY TopFrame
<1>2. last' \in Report /\ last'.res = "Trap" /\ last'.inst \in raised
  <2>1. <<>> \in Seq(WasmVal)
    OBVIOUS
  <2>2. QED
    BY <1>1, <2>1 DEF Return, Report, Good, Frame
<1>3. Rest'
  BY <1>2, IInvShape DEF Return, Rest, NoFalseOk, TrapConfined
<1>4. QED
  BY <1>3, FrontKeeps DEF Return

LEMMA CallFailsKeeps ==
  ASSUME IInv, CallFails
  PROVE  IInv'
<1>1. stack # <<>> /\ Top.at = "unwind" /\ Return("Trap", Top.results, <<>>)
  BY DEF CallFails, In
<1>2. Top.inst \in raised
  BY <1>1, TopFrame DEF Good
<1>3. QED
  BY <1>1, <1>2, TrapTyped

(* What the function returns, decoded into the slice of the program.       *)
LEMMA RawTyped ==
  ASSUME NEW sig \in FuncType, NEW raw \in RawResults(sig)
  PROVE  /\ raw \in Seq(WasmVal)
         /\ DOMAIN raw = 1 .. Len(sig.results)
         /\ \A k \in DOMAIN raw : raw[k].kind = sig.results[k]
<1>1. Len(sig.results) \in Nat /\ DOMAIN sig.results = 1 .. Len(sig.results)
  BY Signature
<1>2. raw \in [1 .. Len(sig.results) -> WasmVal]
  BY <1>1 DEF RawResults, RawOf
<1>3. \A k \in 1 .. Len(sig.results) : raw[k].kind = sig.results[k]
  BY <1>1 DEF RawResults
<1>4. QED
  BY <1>1, <1>2, <1>3, FunctionIsSeq

LEMMA DecodedTyped ==
  ASSUME NEW results \in Seq(Val), NEW raw \in Seq(WasmVal)
  PROVE  /\ Decoded(results, raw) \in Seq(Val)
         /\ DOMAIN Decoded(results, raw) = DOMAIN results
         /\ \A k \in DOMAIN results :
              Decoded(results, raw)[k] = IF k \in DOMAIN raw THEN from_wasm_val(raw[k])
                                         ELSE results[k]
<1>1. Len(results) \in Nat /\ DOMAIN results = 1 .. Len(results)
  OBVIOUS
<1>2. \A k \in DOMAIN raw : raw[k] \in WasmVal
  OBVIOUS
<1>3. \A k \in DOMAIN results : results[k] \in Val
  OBVIOUS
<1>4. Decoded(results, raw) \in [1 .. Len(results) -> Val]
  BY <1>1, <1>2, <1>3, UnionRead DEF Decoded
<1>5. QED
  BY <1>1, <1>4, FunctionIsSeq DEF Decoded

LEMMA WasmReturnsKeeps ==
  ASSUME IInv, WasmReturns
  PROVE  IInv'
<1>1. stack # <<>> /\ Top.at = "wasm"
  BY DEF WasmReturns, In
<1>2. Good(Top, raised) /\ Rest
  BY <1>1, TopFrame, IInvShape
<1>3. Top.inst \in Instance /\ Top.sig \in FuncType /\ Top.results \in Seq(Val) /\ Top.failed = FALSE
      /\ Top.args \in Seq(Val)
  BY <1>1, <1>2 DEF Good, Frame
<1>4. CASE exc[Top.inst]
  BY <1>1, <1>2, <1>3, <1>4, TrapTyped DEF WasmReturns, Rest
<1>5. CASE ~exc[Top.inst]
  <2>1. PICK raw \in RawResults(Top.sig) : Return("Ok", Decoded(Top.results, raw), raw)
    BY <1>5 DEF WasmReturns
  <2>2. raw \in Seq(WasmVal) /\ Decoded(Top.results, raw) \in Seq(Val)
    BY <1>3, RawTyped, DecodedTyped
  <2>3. last' \in Report /\ last'.res = "Ok" /\ ~last'.failed
    BY <1>3, <2>1, <2>2 DEF Return, Report
  <2>4. Rest'
    BY <1>2, <2>1, <2>3 DEF Return, Rest, NoFalseOk, TrapConfined
  <2>5. QED
    BY <1>1, <2>1, <2>4, FrontKeeps DEF Return
<1>6. QED
  BY <1>4, <1>5

LEMMA WasmTrapsKeeps ==
  ASSUME IInv, WasmTraps
  PROVE  IInv'
<1> DEFINE f == [Top EXCEPT !.at = "unwind", !.failed = TRUE]
<1>1. stack # <<>> /\ Top.at = "wasm" /\ SetTop(f)
      /\ exc' = [exc EXCEPT ![Top.inst] = TRUE] /\ raised' = raised \union {Top.inst}
      /\ last' = NoReport
  BY DEF WasmTraps, In
<1>2. Good(Top, raised)
  BY <1>1, TopFrame
<1>3. Good(f, raised')
  BY <1>1, <1>2 DEF Good, Frame, Place
<1>4. Rest'
  BY <1>1, <1>2, RestOfFailure DEF Good, Frame
<1>5. QED
  BY <1>1, <1>3, <1>4, SetTopKeeps

(* A host function bound to an import has its arity, and its type if WAMR  *)
(* compares the letters.                                                   *)
LEMMA BoundHostShape ==
  ASSUME NEW hostFunc \in FuncTypes, NEW import \in FuncTypes, Binds(hostFunc, import)
  PROVE  /\ Len(hostFunc.params) = Len(import.params)
         /\ Len(hostFunc.results) = Len(import.results)
         /\ Matching = "letters" => hostFunc = import
BY BoundHostHasImportsType DEF Binds

(* The closure of a host function bound to the import gets values, those   *)
(* that were sent if it has the type of the import, and its results start  *)
(* as many as the import's.                                                *)
LEMMA ClosureStarts ==
  ASSUME NEW sig \in FuncType, NEW hostFunc \in HostType,
         NEW sent \in [DOMAIN sig.import.params -> Val],
         NEW argv \in [1 .. Len(sent) -> Slot],
         Binds(hostFunc, sig.import),
         TypesOf(sent) = sig.import.params,
         \A k \in DOMAIN sent : argv[k] \in SlotsOf(sent[k])
  PROVE  LET started == [sent |-> sent,
                         seen |-> [k \in DOMAIN hostFunc.params |->
                                     from_raw_slot(hostFunc.params[k], argv[k])],
                         out  |-> [k \in DOMAIN hostFunc.results |->
                                     default_value(hostFunc.results[k])],
                         argv |-> argv]
         IN  /\ started \in Host
             /\ Matching = "letters" => started.seen = started.sent
             /\ Len(started.out) = Len(sig.import.results)
<1> DEFINE params == sig.import.params
           decoded == hostFunc.params
           results == hostFunc.results
           seen == [k \in DOMAIN decoded |-> from_raw_slot(decoded[k], argv[k])]
           out == [k \in DOMAIN results |-> default_value(results[k])]
<1>1. hostFunc \in FuncTypes /\ sig.import \in FuncTypes
  BY Signature, TypeAssumption
<1>2. /\ Len(decoded) = Len(params) /\ Len(results) = Len(sig.import.results)
      /\ Matching = "letters" => decoded = params
  BY <1>1, BoundHostShape
<1>3. params \in Seq(ValType) /\ decoded \in Seq(ValType) /\ results \in Seq(ValType)
  BY <1>1 DEF FuncTypes
<1>4. /\ Len(params) \in Nat /\ DOMAIN params = 1 .. Len(params)
      /\ DOMAIN decoded = DOMAIN params
      /\ Len(results) \in Nat /\ DOMAIN results = 1 .. Len(results)
      /\ \A k \in DOMAIN params : params[k] \in ValType /\ decoded[k] \in ValType
      /\ \A k \in DOMAIN results : results[k] \in ValType
  BY <1>2, <1>3
<1>5. sent \in Seq(Val) /\ Len(sent) = Len(params) /\ DOMAIN sent = DOMAIN params
  BY <1>4, FunctionIsSeq
<1>6. argv \in Seq(Slot)
  BY <1>4, <1>5, FunctionIsSeq
<1>7. \A k \in DOMAIN params : from_raw_slot(params[k], argv[k]) = sent[k]
  <2>1. TAKE k \in DOMAIN params
  <2>2. sent[k] \in Val /\ params[k] \in ValType
    BY <1>4
  <2>3. sent[k].ty = params[k]
    BY <1>5, <2>1 DEF TypesOf
  <2>4. argv[k] \in Slot /\ argv[k] % (2 * Half(sent[k].ty)) = Unsign(sent[k].v, Half(sent[k].ty))
    BY <1>4, <1>5 DEF SlotsOf
  <2>5. Member(params[k], argv[k]) = sent[k].v
    BY <2>2, <2>3, <2>4, MemberOf
  <2>6. from_raw_slot(params[k], argv[k]) = [ty |-> sent[k].ty, v |-> sent[k].v]
    BY <2>2, <2>3, <2>4, <2>5, SlotRead
  <2>7. QED
    BY <2>2, <2>6, ValShape
<1>8. seen \in Seq(Val)
  <2>1. \A k \in DOMAIN decoded : from_raw_slot(decoded[k], argv[k]) \in Val
    <3>1. TAKE k \in DOMAIN decoded
    <3>2. decoded[k] \in ValType /\ argv[k] \in Slot
      BY <1>4, <1>5
    <3>3. QED
      BY <3>2, SlotRead, MemberTyped, ValShape
  <2>2. seen \in [1 .. Len(params) -> Val]
    BY <1>4, <2>1
  <2> HIDE DEF seen
  <2>3. QED
    BY <1>4, <2>2, FunctionIsSeq
<1>9. Matching = "letters" => seen = sent
  <2>1. SUFFICES ASSUME Matching = "letters"
                 PROVE  seen = sent
    OBVIOUS
  <2>2. seen = [k \in DOMAIN params |-> from_raw_slot(params[k], argv[k])]
    BY <1>2, <2>1
  <2>3. sent = [k \in DOMAIN params |-> sent[k]]
    OBVIOUS
  <2>4. QED
    BY <1>7, <2>2, <2>3
<1>10. out \in Seq(Val) /\ Len(out) = Len(results)
  <2>1. out \in [1 .. Len(results) -> Val]
    BY <1>4, ValShape
  <2>2. Len(results) \in Nat
    BY <1>4
  <2> HIDE DEF out, results
  <2>3. QED
    BY <2>1, <2>2, FunctionIsSeq
<1>11. QED
  BY <1>2, <1>5, <1>6, <1>8, <1>9, <1>10 DEF Host

LEMMA WasmCallsHostKeeps ==
  ASSUME IInv, WasmCallsHost
  PROVE  IInv'
<1>1. stack # <<>> /\ Top.at = "wasm" /\ exc' = exc /\ raised' = raised /\ last' = NoReport
  BY DEF WasmCallsHost, In
<1>2. Good(Top, raised)
  BY <1>1, TopFrame
<1>3. Top \in Frame /\ Top.sig \in FuncType
  BY <1>2 DEF Good, Frame
<1>4. PICK hostFunc \in HostType, sent \in [DOMAIN Top.sig.import.params -> Val] :
        /\ Binds(hostFunc, Top.sig.import)
        /\ TypesOf(sent) = Top.sig.import.params
        /\ \E argv \in [1 .. Len(sent) -> Slot] :
             /\ \A k \in DOMAIN sent : argv[k] \in SlotsOf(sent[k])
             /\ SetTop([Top EXCEPT
                  !.at = "host",
                  !.back = NoBack,
                  !.host = [sent |-> sent,
                            seen |-> [k \in DOMAIN hostFunc.params |->
                                        from_raw_slot(hostFunc.params[k], argv[k])],
                            out  |-> [k \in DOMAIN hostFunc.results |->
                                        default_value(hostFunc.results[k])],
                            argv |-> argv]])
  BY DEF WasmCallsHost
<1>5. PICK argv \in [1 .. Len(sent) -> Slot] :
             /\ \A k \in DOMAIN sent : argv[k] \in SlotsOf(sent[k])
             /\ SetTop([Top EXCEPT
                  !.at = "host",
                  !.back = NoBack,
                  !.host = [sent |-> sent,
                            seen |-> [k \in DOMAIN hostFunc.params |->
                                        from_raw_slot(hostFunc.params[k], argv[k])],
                            out  |-> [k \in DOMAIN hostFunc.results |->
                                        default_value(hostFunc.results[k])],
                            argv |-> argv]])
  BY <1>4
<1> DEFINE started == [sent |-> sent,
                       seen |-> [k \in DOMAIN hostFunc.params |->
                                   from_raw_slot(hostFunc.params[k], argv[k])],
                       out  |-> [k \in DOMAIN hostFunc.results |->
                                   default_value(hostFunc.results[k])],
                       argv |-> argv]
           f == [Top EXCEPT !.at = "host", !.back = NoBack, !.host = started]
<1>6. SetTop(f)
  BY <1>5
<1>7. /\ started \in Host
      /\ Matching = "letters" => started.seen = started.sent
      /\ Len(started.out) = Len(Top.sig.import.results)
  <2>1. /\ Binds(hostFunc, Top.sig.import)
        /\ TypesOf(sent) = Top.sig.import.params
        /\ \A k \in DOMAIN sent : argv[k] \in SlotsOf(sent[k])
    BY <1>4, <1>5
  <2>2. QED
    BY <1>3, <2>1, ClosureStarts
<1> HIDE DEF started
<1>8. NoBack \in Back /\ NoBack.got = NoBack.wrote
  BY DEF NoBack, Back
<1>9. Good(f, raised')
  BY <1>1, <1>2, <1>3, <1>7, <1>8 DEF Good, Frame, Place
<1> HIDE DEF f
<1>10. QED
  BY <1>1, <1>6, <1>9, RestStays, SetTopKeeps

LEMMA HostWritesKeeps ==
  ASSUME IInv, HostWrites
  PROVE  IInv'
<1>1. stack # <<>> /\ Top.at = "host" /\ exc' = exc /\ raised' = raised /\ last' = NoReport
  BY DEF HostWrites, In
<1>2. Good(Top, raised)
  BY <1>1, TopFrame
<1>3. PICK k \in DOMAIN Top.host.out, val \in HostVal : SetTop([Top EXCEPT !.host.out[k] = val])
  BY DEF HostWrites
<1> DEFINE out == [Top.host.out EXCEPT ![k] = val]
           f == [Top EXCEPT !.host.out[k] = val]
<1>4. Top \in Frame /\ Top.host \in Host /\ Top.host.out \in Seq(Val)
  BY <1>2 DEF Good, Frame, Host
<1>5. out \in Seq(Val) /\ Len(out) = Len(Top.host.out)
  <2>1. k \in 1 .. Len(Top.host.out)
    BY <1>4
  <2>2. val \in Val
    BY TypeAssumption
  <2>3. QED
    BY <1>4, <2>1, <2>2, ExceptSeq
<1>6. f = [Top EXCEPT !.host = [Top.host EXCEPT !.out = out]]
  OBVIOUS
<1> HIDE DEF out
<1>7. [Top.host EXCEPT !.out = out] \in Host
  BY <1>4, <1>5 DEF Host
<1>8. Good([Top EXCEPT !.host = [Top.host EXCEPT !.out = out]], raised')
  BY <1>1, <1>2, <1>4, <1>5, <1>7 DEF Good, Frame, Host
<1>9. QED
  BY <1>1, <1>3, <1>6, <1>8, RestStays, SetTopKeeps

(* WAMR goes on after a host function, whose results reach it.             *)
LEMMA BackInWasmKeeps ==
  ASSUME IInv, stack # <<>>, Top.at = "host",
         NEW back \in Back, TypesOf(back.wrote) = TypesOf(back.got) => back.got = back.wrote,
         exc' = exc, raised' = raised, last' = NoReport,
         BackInWasm([Top EXCEPT !.back = back])
  PROVE  IInv'
<1> DEFINE frame == [Top EXCEPT !.back = back]
           place == IF exc'[frame.inst] THEN "unwind" ELSE "wasm"
           f == [frame EXCEPT !.at = place, !.host = NoHost]
<1>1. Good(Top, raised) /\ Top \in Frame
  BY TopFrame DEF Good
<1>2. frame \in Frame /\ frame.inst = Top.inst /\ frame.inst \in Instance /\ frame.failed = Top.failed
  BY <1>1 DEF Frame
<1>3. Top.failed = FALSE
  BY <1>1 DEF Good, Frame
<1>4. place \in {"unwind", "wasm"} /\ (place = "unwind" => Top.inst \in raised')
  BY <1>2 DEF IInv
<1>5. SetTop(f)
  BY DEF BackInWasm
<1>6. NoHost \in Host /\ NoHost.seen = NoHost.sent
  BY DEF NoHost, Host
<1> HIDE DEF place
<1>7. f \in Frame
  BY <1>1, <1>4, <1>6 DEF Frame, Place
<1>8. /\ f.host = NoHost /\ f.back = back /\ f.at = place /\ f.failed = FALSE
      /\ f.inst = Top.inst /\ f.locals = Top.locals /\ f.args = Top.args
  BY <1>1, <1>3 DEF Frame
<1>9. Good(f, raised')
  BY <1>1, <1>4, <1>6, <1>7, <1>8 DEF Good
<1> HIDE DEF f
<1>10. QED
  BY <1>5, <1>9, RestStays, SetTopKeeps

LEMMA NotEmpty == \A s : Len(s) = 1 => s # <<>>
<1>1. Len(<<>>) = 0
  OBVIOUS
<1>2. QED
  BY <1>1

(* What Wasm reads is what the closure left, if it left the type declared. *)
LEMMA ResultsRead ==
  ASSUME NEW types \in Seq(ValType), Len(types) \in 0 .. 1,
         NEW out \in Seq(Val), Len(out) = Len(types),
         NEW argv0 \in Seq(Slot)
  PROVE  LET argv == IF out = <<>> THEN argv0 ELSE <<to_raw_slot(out[1])>>
             got == Reads(types, argv)
         IN  /\ got \in Seq(Val)
             /\ TypesOf(out) = TypesOf(got) => got = out
<1> DEFINE argv == IF out = <<>> THEN argv0 ELSE <<to_raw_slot(out[1])>>
           got == Reads(types, argv)
           n == Len(types)
<1>1. /\ n \in 0 .. 1 /\ DOMAIN types = 1 .. n /\ DOMAIN out = 1 .. n
      /\ \A k \in 1 .. n : types[k] \in ValType
      /\ \A k \in 1 .. n : out[k] \in Val
  OBVIOUS
<1>2. got = [k \in 1 .. n |-> [ty |-> types[k], v |-> Member(types[k], argv[1])]]
  BY <1>1 DEF Reads
<1>3. n = 1 => argv[1] = to_raw_slot(out[1]) /\ argv[1] \in Slot
  <2>1. SUFFICES ASSUME n = 1
                 PROVE  argv[1] = to_raw_slot(out[1]) /\ argv[1] \in Slot
    OBVIOUS
  <2>2. Len(out) = 1
    BY <2>1
  <2>3. out # <<>>
    BY <2>2, NotEmpty
  <2>4. 1 \in 1 .. Len(out)
    BY <2>2
  <2>5. out[1] \in Val
    BY <2>4, ElementOfSeq
  <2>6. argv = <<to_raw_slot(out[1])>>
    BY <2>3
  <2> HIDE DEF argv
  <2>7. argv[1] = to_raw_slot(out[1])
    BY <2>6
  <2>8. QED
    BY <2>5, <2>7, SlotWritten
<1> HIDE DEF argv, got
<1>4. \A k \in 1 .. n : k = 1 /\ n = 1
  BY <1>1
<1>5. \A k \in 1 .. n : [ty |-> types[k], v |-> Member(types[k], argv[1])] \in Val
  <2>1. TAKE k \in 1 .. n
  <2>2. types[k] \in ValType /\ argv[1] \in Slot
    BY <1>1, <1>3, <1>4
  <2>3. QED
    BY <2>2, MemberTyped, ValShape
<1>6. got \in [1 .. n -> Val]
  BY <1>2, <1>5
<1>7. n \in Nat
  BY <1>1
<1>8. got \in Seq(Val) /\ Len(got) = n /\ DOMAIN got = 1 .. n
  BY <1>6, <1>7, FunctionIsSeq
<1>9. ASSUME TypesOf(out) = TypesOf(got)
      PROVE  got = out
  <2>1. \A k \in 1 .. n : got[k] = out[k]
    <3>1. TAKE k \in 1 .. n
    <3>2. k = 1 /\ n = 1
      BY <1>4
    <3>3. out[k] \in Val
      BY <1>1
    <3>4. got[k] = [ty |-> types[k], v |-> Member(types[k], argv[1])]
      BY <1>2
    <3>5. TypesOf(out)[k] = out[k].ty /\ TypesOf(got)[k] = got[k].ty
      BY <1>1, <1>8 DEF TypesOf
    <3>6. out[k].ty = types[k]
      BY <1>9, <3>4, <3>5
    <3>7. argv[1] = Unsign(out[k].v, Half(out[k].ty)) /\ argv[1] \in Slot
      BY <1>3, <3>2, <3>3, SlotWritten
    <3>8. Member(out[k].ty, argv[1]) = out[k].v
      BY <3>3, <3>7, EncodingFits, MemberOf
    <3>9. got[k] = [ty |-> out[k].ty, v |-> out[k].v]
      BY <3>4, <3>6, <3>8
    <3>10. QED
      BY <3>3, <3>9, ValShape
  <2>2. Len(out) = n
    OBVIOUS
  <2>3. QED
    BY <1>8, <2>1, <2>2, SeqEqual
<1>10. QED
  BY <1>8, <1>9 DEF argv, got

LEMMA HostReturnsKeeps ==
  ASSUME IInv, HostReturns
  PROVE  IInv'
<1> DEFINE out == Top.host.out
           argv == IF out = <<>> THEN Top.host.argv ELSE <<to_raw_slot(out[1])>>
           got == Reads(Top.sig.import.results, argv)
           back == [wrote |-> out, got |-> got]
<1>1. /\ stack # <<>> /\ Top.at = "host" /\ exc' = exc /\ raised' = raised /\ last' = NoReport
      /\ BackInWasm([Top EXCEPT !.back = back])
  BY DEF HostReturns, In
<1>2. Good(Top, raised)
  BY <1>1, TopFrame
<1>3. /\ Top.sig \in FuncType /\ out \in Seq(Val) /\ Top.host.argv \in Seq(Slot)
      /\ Len(out) = Len(Top.sig.import.results)
  BY <1>1, <1>2 DEF Good, Frame, Host
<1>4. Top.sig.import.results \in Seq(ValType) /\ Len(Top.sig.import.results) \in 0 .. 1
  BY <1>3, Signature
<1>5. got \in Seq(Val) /\ (TypesOf(out) = TypesOf(got) => got = out)
  BY <1>3, <1>4, ResultsRead
<1> HIDE DEF got
<1>6. back \in Back /\ (TypesOf(back.wrote) = TypesOf(back.got) => back.got = back.wrote)
  BY <1>3, <1>5 DEF Back
<1> HIDE DEF back
<1>7. QED
  BY <1>1, <1>6, BackInWasmKeeps

LEMMA HostPanicsKeeps ==
  ASSUME IInv, HostPanics
  PROVE  IInv'
<1> DEFINE f == [Top EXCEPT !.failed = TRUE, !.at = "unwind", !.host = NoHost]
<1>1. /\ stack # <<>> /\ Top.at = "host"
      /\ exc' = [exc EXCEPT ![Top.inst] = TRUE] /\ raised' = raised \union {Top.inst}
      /\ last' = NoReport
      /\ BackInWasm([Top EXCEPT !.failed = TRUE])
  BY DEF HostPanics, In
<1>2. Good(Top, raised) /\ Top \in Frame /\ Top.inst \in Instance
  BY <1>1, TopFrame DEF Good, Frame
<1>3. exc \in [Instance -> BOOLEAN]
  BY IInvShape DEF Rest
<1>4. SetTop(f)
  BY <1>1, <1>2, <1>3 DEF BackInWasm, Frame
<1>5. NoHost \in Host /\ NoHost.seen = NoHost.sent
  BY DEF NoHost, Host
<1>6. Good(f, raised')
  BY <1>1, <1>2, <1>5 DEF Good, Frame, Place
<1> HIDE DEF f
<1>7. Rest'
  BY <1>1, <1>2, RestOfFailure
<1>8. QED
  BY <1>1, <1>4, <1>6, <1>7, SetTopKeeps

-----------------------------------------------------------------------------
(* Theorems                                                                *)

LEMMA InitIInv == Init => IInv
<1>1. SUFFICES ASSUME Init
               PROVE  IInv
  OBVIOUS
<1>2. stack = <<>> /\ stack \in Seq(Frame) /\ Len(stack) = 0
  BY <1>1 DEF Init
<1>3. Rest
  BY <1>1 DEF Init, Rest, NoReport, NoFalseOk, TrapConfined
<1>4. QED
  BY <1>2, <1>3, IInvShape DEF Below

LEMMA NextIInv == IInv /\ [Next]_vars => IInv'
<1>1. SUFFICES ASSUME IInv, [Next]_vars
               PROVE  IInv'
  OBVIOUS
<1>2. CASE UNCHANGED vars
  BY <1>1, <1>2 DEF vars, IInv, TypeOK, HostResultArrives, FrameInv, NoFalseOk, TrapConfined
<1>3. CASE Next
  BY <1>1, <1>3, CallRefusedKeeps, CallKeeps, CallFailsKeeps, WasmReturnsKeeps, WasmTrapsKeeps,
     WasmCallsHostKeeps, HostWritesKeeps, HostReturnsKeeps, HostPanicsKeeps DEF Next
<1>4. QED
  BY <1>1, <1>2, <1>3

(* Values keep their types on the stack, in the results and in the reports,*)
(* and the rest of the invariant, in every reachable state.                *)
THEOREM CallInvariant == Spec => []IInv
BY InitIInv, NextIInv, PTL DEF Spec

THEOREM CallTypes == Spec => []TypeOK
<1>1. IInv => TypeOK
  BY DEF IInv
<1>2. QED
  BY <1>1, CallInvariant, PTL

(* Arguments arrive unchanged in both directions, in every slot width, and *)
(* for every host function that WAMR binds to an import by the letters of  *)
(* its signature (linker.rs:196-203, func.rs:88).  Bound by its shape alone*)
(* it may decode them as another type.                                     *)
THEOREM ArgumentsAlwaysArrive ==
  ASSUME Matching = "letters"
  PROVE  Spec => []ArgsArrive
<1>1. IInv => ArgsArrive
  BY DEF IInv, FrameInv, ArgsArrive
<1>2. QED
  BY <1>1, CallInvariant, PTL

(* So does the result of a host function that leaves the type it declares  *)
(* (linker.rs:204, 213-217).                                               *)
THEOREM HostResultAlwaysArrives == Spec => []HostResultArrives
<1>1. IInv => HostResultArrives
  BY DEF IInv
<1>2. QED
  BY <1>1, CallInvariant, PTL

(* No call that met a trap or a panic returns Ok, at any depth of nesting  *)
(* (func.rs:105-108, linker.rs:206-222).                                   *)
THEOREM NeverFalseOk == Spec => []NoFalseOk
<1>1. IInv => NoFalseOk
  BY DEF IInv
<1>2. QED
  BY <1>1, CallInvariant, PTL

(* A failure never reports a trap of an instance where nothing went wrong  *)
(* (linker.rs:219-221).                                                    *)
THEOREM TrapsConfined == Spec => []TrapConfined
<1>1. IInv => TrapConfined
  BY DEF IInv
<1>2. QED
  BY <1>1, CallInvariant, PTL

(* For functions of numeric results, the only ones these bindings model, a *)
(* call writes nothing but its results, each the value returned, and       *)
(* nothing at all when it fails (func.rs:71-72, 105-114).                  *)
THEOREM WritesOnlyOnOk ==
  ASSUME \A sig \in FuncType : sig.results \in Seq(ValType)
  PROVE  Spec => []WrittenOnlyOnOk
<1>1. Init => WrittenOnlyOnOk
  BY DEF Init, WrittenOnlyOnOk, NoReport
<1>2. IInv /\ WrittenOnlyOnOk /\ [Next]_vars => WrittenOnlyOnOk'
  <2>1. SUFFICES ASSUME IInv, WrittenOnlyOnOk, [Next]_vars
                 PROVE  WrittenOnlyOnOk'
    OBVIOUS
  <2>2. last' = NoReport => WrittenOnlyOnOk'
    BY DEF WrittenOnlyOnOk, NoReport
  <2>3. ASSUME NEW i \in Instance, NEW sig \in FuncType, NEW args \in Args,
               NEW n \in 0 .. MaxResults, CallRefused(i, sig, args, n)
        PROVE  WrittenOnlyOnOk'
    BY <2>3 DEF CallRefused, WrittenOnlyOnOk
  <2>4. Return("Trap", Top.results, <<>>) => WrittenOnlyOnOk'
    BY DEF Return, WrittenOnlyOnOk
  <2>5. CASE WasmReturns
    <3>1. stack # <<>>
      BY <2>5 DEF WasmReturns, In
    <3>2. Top.sig \in FuncType /\ Top.results \in Seq(Val)
      BY <2>1, <3>1, TopFrame DEF Good, Frame
    <3>3. ASSUME NEW raw \in RawResults(Top.sig),
                 Return("Ok", Decoded(Top.results, raw), raw)
          PROVE  WrittenOnlyOnOk'
      <4>1. /\ raw \in Seq(WasmVal)
            /\ DOMAIN raw = 1 .. Len(Top.sig.results)
            /\ \A k \in DOMAIN raw : raw[k].kind = Top.sig.results[k]
        BY <3>2, RawTyped
      <4>2. DOMAIN raw = DOMAIN Top.sig.results
        BY <3>2, <4>1, Signature
      <4>3. \A k \in DOMAIN raw : raw[k] \in WasmVal /\ raw[k].kind \in ValType
        BY <3>2, <4>1, <4>2
      <4>4. \A k \in DOMAIN Top.results :
              Decoded(Top.results, raw)[k] = IF k \in DOMAIN raw THEN from_wasm_val(raw[k])
                                             ELSE Top.results[k]
        BY <3>2, <4>1, DecodedTyped
      <4>5. \A k \in DOMAIN raw :
              from_wasm_val(raw[k]) = [ty |-> raw[k].kind, v |-> Member(raw[k].kind, raw[k].of)]
        BY <4>3, UnionRead
      <4>6. /\ last'.before = Top.results /\ last'.sig = Top.sig /\ last'.res = "Ok"
            /\ last'.raw = raw /\ last'.after = Decoded(Top.results, raw)
        BY <3>3 DEF Return
      <4>7. QED
        BY <4>2, <4>4, <4>5, <4>6 DEF WrittenOnlyOnOk
    <3>4. QED
      BY <2>4, <2>5, <3>3 DEF WasmReturns
  <2>6. CASE UNCHANGED vars
    BY <2>1, <2>6 DEF vars, WrittenOnlyOnOk
  <2>7. ASSUME NEW i \in Instance, NEW sig \in FuncType, NEW args \in Args,
               NEW n \in 0 .. MaxResults, Call(i, sig, args, n)
        PROVE  WrittenOnlyOnOk'
    BY <2>2, <2>7 DEF Call
  <2>8. CallFails => WrittenOnlyOnOk'
    BY <2>4 DEF CallFails
  <2>9. WasmTraps \/ WasmCallsHost \/ HostWrites \/ HostReturns \/ HostPanics => WrittenOnlyOnOk'
    BY <2>2 DEF WasmTraps, WasmCallsHost, HostWrites, HostReturns, HostPanics
  <2>10. QED
    BY <2>1, <2>3, <2>5, <2>6, <2>7, <2>8, <2>9 DEF Next
<1>3. QED
  BY <1>1, <1>2, CallInvariant, PTL DEF Spec

=============================================================================
