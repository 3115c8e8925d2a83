----------------------------- MODULE ValueProofs -----------------------------
(***************************************************************************)
(* Lemmas about Value.tla: what the conversions preserve at every width,   *)
(* and which host functions WAMR binds to an import.                       *)
(***************************************************************************)
EXTENDS Value, SequenceTheorems, TLAPS

(* A function on 1 .. n is a sequence.                                     *)
LEMMA FunctionIsSeq ==
  ASSUME NEW S, NEW n \in Nat, NEW f \in [1 .. n -> S]
  PROVE  f \in Seq(S) /\ Len(f) = n /\ DOMAIN f = 1 .. n
<1>1. f \in Seq(S)
  BY SeqDef
<1>2. DOMAIN f = 1 .. n /\ DOMAIN f = 1 .. Len(f) /\ Len(f) \in Nat
  BY <1>1, LenProperties
<1>3. QED
  BY <1>1, <1>2

-----------------------------------------------------------------------------
(* Conversions                                                             *)

LEMMA Remainder ==
  ASSUME NEW d \in Nat \ {0}, NEW n \in Int
  PROVE  /\ n % d \in 0 .. d - 1
         /\ n \in 0 .. d - 1 => n % d = n
         /\ n \in -d .. -1 => n % d = n + d
OBVIOUS

LEMMA Residue ==
  ASSUME NEW h \in Nat \ {0}, NEW n \in Int
  PROVE  /\ n % (2 * h) \in 0 .. 2 * h - 1
         /\ n \in 0 .. 2 * h - 1 => n % (2 * h) = n
         /\ n \in -(2 * h) .. -1 => n % (2 * h) = n + 2 * h
<1>1. 2 * h \in Nat \ {0}
  OBVIOUS
<1>2. QED
  BY <1>1, Remainder

LEMMA SignUnsign ==
  ASSUME NEW h \in Nat \ {0}, NEW n \in Signed(h)
  PROVE  /\ Unsign(n, h) \in Bits(h)
         /\ Sign(Unsign(n, h), h) = n
<1>1. n \in Int /\ 2 * h \in Nat \ {0}
  BY DEF Signed
<1>2. CASE n >= 0
  <2>1. n % (2 * h) = n
    BY <1>1, <1>2, Residue DEF Signed
  <2>2. QED
    BY <2>1, <1>2 DEF Signed, Unsign, Sign, Bits
<1>3. CASE n < 0
  <2>0. n \in -(2 * h) .. -1
    BY <1>1, <1>3 DEF Signed
  <2>1. n % (2 * h) = n + 2 * h
    BY <1>1, <2>0, Residue
  <2>2. QED
    BY <2>1, <1>3 DEF Signed, Unsign, Sign, Bits
<1>4. QED
  BY <1>1, <1>2, <1>3

(* A value is a type and a payload of that type.                           *)
LEMMA ValShape ==
  /\ \A val \in Val : /\ val.ty \in ValType /\ val.v \in Payload(val.ty)
                      /\ val = [ty |-> val.ty, v |-> val.v]
  /\ \A ty \in ValType : \A v \in Payload(ty) : [ty |-> ty, v |-> v] \in Val
  /\ \A ty \in ValType : /\ Half(ty) \in Nat \ {0}
                         /\ Half(ty) <= Wide
                         /\ 0 \in Payload(ty)
  /\ \A ty \in ValType : default_value(ty) \in Val
<1>1. \A ty \in ValType : /\ Half(ty) \in Nat \ {0}
                          /\ Half(ty) <= Wide
                          /\ 0 \in Payload(ty)
  BY WidthAssumption DEF ValType, Half, Payload, Bits, Signed
<1>2. QED
  BY <1>1 DEF Val, default_value

(* A member of the union, or of a slot, is a value of its type, and the    *)
(* value whose bits are there.                                             *)
LEMMA MemberTyped ==
  ASSUME NEW ty \in ValType, NEW of \in Slot
  PROVE  Member(ty, of) \in Payload(ty)
<1> DEFINE h == Half(ty)
<1>1. h \in Nat \ {0} /\ of \in Int
  BY ValShape DEF Slot, Bits
<1>2. of % (2 * h) \in 0 .. 2 * h - 1
  BY <1>1, Residue
<1>3. QED
  BY <1>1, <1>2 DEF Member, Payload, Signed, Bits, Sign

LEMMA MemberOf ==
  ASSUME NEW val \in Val, NEW of \in Slot,
         of % (2 * Half(val.ty)) = Unsign(val.v, Half(val.ty))
  PROVE  Member(val.ty, of) = val.v
<1> DEFINE h == Half(val.ty)
<1>1. h \in Nat \ {0} /\ val.ty \in ValType /\ val.v \in Payload(val.ty)
  BY ValShape
<1>2. CASE val.ty \in {"i32", "i64"}
  <2>1. val.v \in Signed(h)
    BY <1>1, <1>2 DEF Payload
  <2>2. Sign(Unsign(val.v, h), h) = val.v
    BY <1>1, <2>1, SignUnsign
  <2>3. QED
    BY <1>2, <2>2 DEF Member
<1>3. CASE val.ty \notin {"i32", "i64"}
  <2>1. val.v \in 0 .. 2 * h - 1
    BY <1>1, <1>3 DEF Payload, Bits
  <2>2. val.v % (2 * h) = val.v
    BY <1>1, <2>1, Residue
  <2>3. QED
    BY <1>3, <2>2 DEF Member, Unsign
<1>4. QED
  BY <1>2, <1>3

(* What is in a slot in its unused half does not matter to the reader.     *)
LEMMA EncodingFits ==
  ASSUME NEW val \in Val
  PROVE  /\ Unsign(val.v, Half(val.ty)) \in Slot
         /\ Unsign(val.v, Half(val.ty)) % (2 * Half(val.ty)) = Unsign(val.v, Half(val.ty))
<1> DEFINE h == Half(val.ty)
<1>1. h \in Nat \ {0} /\ h <= Wide /\ val.v \in Int
  BY ValShape DEF Payload, Signed, Bits
<1>2. Unsign(val.v, h) \in 0 .. 2 * h - 1
  BY <1>1, Residue DEF Unsign
<1>3. Unsign(val.v, h) % (2 * h) = Unsign(val.v, h)
  BY <1>1, <1>2, Residue
<1>4. QED
  BY <1>1, <1>2, <1>3, WidthAssumption DEF Slot, Bits

(* to_wasm_val, read back as its kind, is the value.                       *)
LEMMA UnionRoundTrip ==
  ASSUME NEW val \in Val
  PROVE  LET raw == to_wasm_val(val)
         IN  /\ raw \in WasmVal
             /\ [ty |-> raw.kind, v |-> Member(raw.kind, raw.of)] = val
BY EncodingFits, MemberOf, ValShape DEF to_wasm_val, WasmVal, Kind

(* from_wasm_val reads the member of the kind, if it is a numeric one.     *)
LEMMA UnionRead ==
  ASSUME NEW raw \in WasmVal
  PROVE  /\ from_wasm_val(raw) \in Val
         /\ raw.kind \in ValType =>
              from_wasm_val(raw) = [ty |-> raw.kind, v |-> Member(raw.kind, raw.of)]
BY MemberTyped, ValShape DEF from_wasm_val, WasmVal, ValType

(* from_raw_slot reads the member of its type.                             *)
LEMMA SlotRead ==
  ASSUME NEW ty \in ValType, NEW slot \in Slot
  PROVE  from_raw_slot(ty, slot) = [ty |-> ty, v |-> Member(ty, slot)]
<1>1. slot \in 0 .. 2 * Wide - 1 /\ Wide \in Nat \ {0}
  BY WidthAssumption DEF Slot, Bits
<1>2. slot % (2 * Wide) = slot
  BY <1>1, Residue
<1>3. QED
  BY <1>2 DEF ValType, from_raw_slot, Member, Half

(* to_raw_slot fills the slot with the bits of the value.                  *)
LEMMA SlotWritten ==
  ASSUME NEW val \in Val
  PROVE  /\ to_raw_slot(val) \in Slot
         /\ to_raw_slot(val) = Unsign(val.v, Half(val.ty))
<1>1. val.ty \in ValType /\ val.v \in Payload(val.ty) /\ Half(val.ty) \in Nat \ {0}
  BY ValShape
<1>2. CASE val.ty \in {"f32", "f64"}
  <2>1. val.v \in 0 .. 2 * Half(val.ty) - 1
    BY <1>1, <1>2 DEF Payload, Bits
  <2>2. val.v % (2 * Half(val.ty)) = val.v
    BY <1>1, <2>1, Residue
  <2>3. QED
    BY <1>2, <2>2, EncodingFits DEF to_raw_slot, Unsign
<1>3. CASE val.ty \in {"i32", "i64"}
  BY <1>3, EncodingFits DEF to_raw_slot, Half
<1>4. QED
  BY <1>1, <1>2, <1>3 DEF ValType

-----------------------------------------------------------------------------
(* Signature strings                                                       *)

(* The characters a signature is made of.                                  *)
Glyph == {"(", ")", "i", "I", "f", "F"}

LEMMA CharsShape ==
  ASSUME NEW types \in Seq(ValType)
  PROVE  /\ Chars(types) \in Seq(Glyph)
         /\ Len(Chars(types)) = Len(types)
         /\ \A k \in 1 .. Len(types) : Chars(types)[k] = signature_char(types[k])
<1>1. /\ Len(types) \in Nat /\ DOMAIN types = 1 .. Len(types)
      /\ \A k \in 1 .. Len(types) : types[k] \in ValType
  OBVIOUS
<1>2. \A ty \in ValType : signature_char(ty) \in Glyph
  BY DEF signature_char, ValType, Glyph
<1>3. Chars(types) = [k \in 1 .. Len(types) |-> signature_char(types[k])]
  BY <1>1 DEF Chars
<1>4. Chars(types) \in [1 .. Len(types) -> Glyph]
  BY <1>1, <1>2, <1>3
<1>5. Chars(types) \in Seq(Glyph)
  BY <1>1, <1>4, SeqDef
<1>6. QED
  BY <1>1, <1>3, <1>5

LEMMA SignatureShape ==
  ASSUME NEW ft \in FuncTypes
  PROVE  LET s == signature_cstring(ft)
             n == Len(ft.params)
         IN  /\ Len(s) = n + Len(ft.results) + 2
             /\ n \in Nat /\ Len(ft.results) \in Nat
             /\ \A k \in 1 .. n : s[k + 1] = signature_char(ft.params[k])
             /\ s[n + 2] = ")"
             /\ \A k \in 1 .. Len(ft.results) : s[n + 2 + k] = signature_char(ft.results[k])
<1> DEFINE p == Chars(ft.params)
           r == Chars(ft.results)
<1>1. /\ ft.params \in Seq(ValType) /\ ft.results \in Seq(ValType)
      /\ Len(ft.params) \in Nat /\ Len(ft.results) \in Nat
  BY DEF FuncTypes
<1>2. /\ p \in Seq(Glyph) /\ Len(p) = Len(ft.params)
      /\ \A k \in 1 .. Len(p) : p[k] = signature_char(ft.params[k])
  BY <1>1, CharsShape
<1>3. /\ r \in Seq(Glyph) /\ Len(r) = Len(ft.results)
      /\ \A k \in 1 .. Len(r) : r[k] = signature_char(ft.results[k])
  BY <1>1, CharsShape
<1> DEFINE a == <<"(">> \o p
           b == a \o <<")">>
           s == b \o r
<1> HIDE DEF p, r
<1>4. <<"(">> \in Seq(Glyph) /\ <<")">> \in Seq(Glyph)
      /\ Len(<<"(">>) = 1 /\ Len(<<")">>) = 1 /\ <<")">>[1] = ")"
  BY DEF Glyph
<1>5. /\ a \in Seq(Glyph) /\ Len(a) = 1 + Len(p)
      /\ \A k \in 1 .. 1 + Len(p) : a[k] = IF k <= 1 THEN <<"(">>[k] ELSE p[k - 1]
  BY <1>2, <1>4, ConcatProperties
<1> HIDE DEF a
<1>6. /\ b \in Seq(Glyph) /\ Len(b) = Len(a) + 1
      /\ \A k \in 1 .. Len(a) + 1 : b[k] = IF k <= Len(a) THEN a[k] ELSE <<")">>[k - Len(a)]
  BY <1>4, <1>5, ConcatProperties
<1> HIDE DEF b
<1>7. /\ Len(s) = Len(b) + Len(r)
      /\ \A k \in 1 .. Len(b) + Len(r) : s[k] = IF k <= Len(b) THEN b[k] ELSE r[k - Len(b)]
  <2>1. b \in Seq(Glyph) /\ r \in Seq(Glyph)
    BY <1>3, <1>6
  <2> HIDE DEF s
  <2>2. s = b \o r
    BY DEF s
  <2>3. QED
    BY <2>1, <2>2, ConcatProperties
<1>8. signature_cstring(ft) = s
  BY DEF signature_cstring, s, b, a, p, r
<1> HIDE DEF s
<1>9. Len(p) \in Nat /\ Len(r) \in Nat
  BY <1>1, <1>2, <1>3
<1>10. \A k \in 1 .. Len(p) : s[k + 1] = p[k]
  <2>1. TAKE k \in 1 .. Len(p)
  <2>2. k + 1 <= Len(a) /\ k + 1 <= Len(b) /\ ~(k + 1 <= 1) /\ (k + 1) - 1 = k
        /\ k + 1 \in 1 .. 1 + Len(p) /\ k + 1 \in 1 .. Len(a) + 1
        /\ k + 1 \in 1 .. Len(b) + Len(r)
    BY <1>5, <1>6, <1>9
  <2>3. QED
    BY <2>2, <1>5, <1>6, <1>7
<1>11. s[Len(p) + 2] = ")"
  <2>1. Len(p) + 2 <= Len(b) /\ ~(Len(p) + 2 <= Len(a)) /\ (Len(p) + 2) - Len(a) = 1
        /\ Len(p) + 2 \in 1 .. Len(a) + 1 /\ Len(p) + 2 \in 1 .. Len(b) + Len(r)
    BY <1>5, <1>6, <1>9
  <2>2. s[Len(p) + 2] = b[Len(p) + 2]
    BY <2>1, <1>7
  <2>3. b[Len(p) + 2] = <<")">>[1]
    BY <2>1, <1>6
  <2>4. QED
    BY <2>2, <2>3, <1>4
<1>12. \A k \in 1 .. Len(r) : s[Len(p) + 2 + k] = r[k]
  <2>1. TAKE k \in 1 .. Len(r)
  <2>2. ~(Len(p) + 2 + k <= Len(b)) /\ (Len(p) + 2 + k) - Len(b) = k
        /\ Len(p) + 2 + k \in 1 .. Len(b) + Len(r)
    BY <1>5, <1>6, <1>9
  <2>3. QED
    BY <2>2, <1>7
<1>13. Len(s) = Len(p) + Len(r) + 2
  BY <1>5, <1>6, <1>7, <1>9
<1>14. QED
  BY <1>1, <1>2, <1>3, <1>8, <1>10, <1>11, <1>12, <1>13

(* A host function that WAMR binds to an import is of the import's type:   *)
(* the letters tell the four types apart.                                  *)
LEMMA BoundHostHasImportsType ==
  ASSUME NEW host \in FuncTypes, NEW imp \in FuncTypes, Spells(signature_cstring(host), imp)
  PROVE  host = imp
<1> DEFINE s == signature_cstring(host)
           n == Len(imp.params)
           m == Len(host.params)
<1>1. /\ imp.params \in Seq(ValType) /\ imp.results \in Seq(ValType)
      /\ host.params \in Seq(ValType) /\ host.results \in Seq(ValType)
      /\ imp = [params |-> imp.params, results |-> imp.results]
      /\ host = [params |-> host.params, results |-> host.results]
      /\ n \in Nat /\ m \in Nat /\ Len(imp.results) \in Nat /\ Len(host.results) \in Nat
  BY DEF FuncTypes
<1>2. \A ty \in ValType : /\ signature_char(ty) # ")"
                          /\ signature_char(ty) \in DOMAIN Letter
                          /\ Letter[signature_char(ty)] = ty
  BY DEF signature_char, Letter, ValType
<1>3. ")" \notin DOMAIN Letter
  BY DEF Letter
<1>4. /\ Len(s) = m + Len(host.results) + 2
      /\ \A k \in 1 .. m : s[k + 1] = signature_char(host.params[k])
      /\ s[m + 2] = ")"
      /\ \A k \in 1 .. Len(host.results) : s[m + 2 + k] = signature_char(host.results[k])
  BY SignatureShape
<1>5. /\ Len(s) = n + Len(imp.results) + 2
      /\ s[n + 2] = ")"
      /\ \A k \in 1 .. n : s[k + 1] \in DOMAIN Letter /\ Letter[s[k + 1]] = imp.params[k]
      /\ \A k \in 1 .. Len(imp.results) :
           s[n + 2 + k] \in DOMAIN Letter /\ Letter[s[n + 2 + k]] = imp.results[k]
  BY <1>1 DEF Spells
<1> HIDE DEF s
<1>6. n = m
  <2>1. CASE n < m
    <3>1. n + 1 \in 1 .. m /\ host.params[n + 1] \in ValType /\ (n + 1) + 1 = n + 2
      BY <1>1, <2>1
    <3>2. s[n + 2] = signature_char(host.params[n + 1])
      BY <1>4, <3>1
    <3>3. QED
      BY <3>1, <3>2, <1>2, <1>5
  <2>2. CASE m < n
    <3>1. m + 1 \in 1 .. n /\ (m + 1) + 1 = m + 2
      BY <1>1, <2>2
    <3>2. s[m + 2] \in DOMAIN Letter
      BY <1>5, <3>1
    <3>3. QED
      BY <3>2, <1>3, <1>4
  <2>3. QED
    BY <1>1, <2>1, <2>2
<1>7. \A k \in 1 .. n : host.params[k] = imp.params[k]
  BY <1>1, <1>2, <1>4, <1>5, <1>6
<1>8. Len(host.results) = Len(imp.results)
  BY <1>1, <1>4, <1>5, <1>6
<1>9. \A k \in 1 .. Len(imp.results) : host.results[k] = imp.results[k]
  BY <1>1, <1>2, <1>4, <1>5, <1>6, <1>8
<1>10. host.params = imp.params /\ host.results = imp.results
  BY <1>1, <1>6, <1>7, <1>8, <1>9, SeqEqual
<1>11. QED
  BY <1>1, <1>10

=============================================================================
