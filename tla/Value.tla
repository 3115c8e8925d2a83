-------------------------------- MODULE Value --------------------------------
(***************************************************************************)
(* Typed Wasm values and their two encodings at the border to WAMR         *)
(* (src/crates/wamrx/src/value.rs): the 64-bit slots of host functions and *)
(* the tagged union wasm_val_t of exported ones.  i32 and f32 have 2*Narrow *)
(* values, i64 and f64 2*Wide: Narrow is 2^31 and Wide 2^63 in the code.   *)
(* Integers are signed, a float is its bit pattern.                        *)
(*                                                                         *)
(* And the types of functions, with the signature string under which WAMR  *)
(* matches a host function with an import.                                 *)
(***************************************************************************)
EXTENDS Integers, Sequences

CONSTANTS Narrow, Wide

ASSUME WidthAssumption == Narrow \in Nat \ {0} /\ Wide \in Nat /\ Narrow <= Wide

ValType == {"i32", "i64", "f32", "f64"}

(* Every wasm_valkind_t: "ref" is any kind but the four numeric ones.      *)
Kind == ValType \union {"ref"}

from_valkind(kind) == {kind} \intersect ValType

(* Half the number of values of a type.                                    *)
Half(ty) == IF ty \in {"i32", "f32"} THEN Narrow ELSE Wide

Bits(h) == 0 .. 2 * h - 1
Signed(h) == -h .. h - 1

Slot == Bits(Wide)

(* What a Val of a type holds.                                             *)
Payload(ty) == IF ty \in {"i32", "i64"} THEN Signed(Half(ty)) ELSE Bits(Half(ty))

Val == UNION {[ty : {ty}, v : Payload(ty)] : ty \in ValType}

default_value(ty) == [ty |-> ty, v |-> 0]

-----------------------------------------------------------------------------
(* Casts between signed and unsigned integers: two's complement.           *)
Unsign(n, h) == n % (2 * h)
Sign(b, h) == IF b >= h THEN b - 2 * h ELSE b

to_raw_slot(val) ==
  CASE val.ty = "i32" -> Unsign(val.v, Narrow)
    [] val.ty = "i64" -> Unsign(val.v, Wide)
    [] val.ty \in {"f32", "f64"} -> val.v

(* Mutant: a narrow value is read from the whole slot.                     *)
from_raw_slot_whole(ty, slot) ==
  [ty |-> ty,
   v |-> IF ty \in {"i32", "i64"} THEN Sign(slot, Half(ty)) ELSE slot]

from_raw_slot(ty, slot) ==
  [ty |-> ty,
   v |-> CASE ty = "i32" -> Sign(slot % (2 * Narrow), Narrow)
           [] ty = "i64" -> Sign(slot, Wide)
           [] ty = "f32" -> slot % (2 * Narrow)
           [] ty = "f64" -> slot]

-----------------------------------------------------------------------------
(* wasm_val_t: a kind, and a union whose members share the same bytes, the *)
(* narrow ones the low half of them.                                       *)
WasmVal == [kind : Kind, of : Slot]

Member(ty, of) ==
  LET b == of % (2 * Half(ty))
  IN  IF ty \in {"i32", "i64"} THEN Sign(b, Half(ty)) ELSE b

(* The union is zeroed and then the member of the type is written.         *)
to_wasm_val(val) == [kind |-> val.ty, of |-> Unsign(val.v, Half(val.ty))]

(* Any kind that is not one of the first three is read as an f64.          *)
from_wasm_val(raw) ==
  LET ty == IF raw.kind \in {"i32", "i64", "f32"} THEN raw.kind ELSE "f64"
  IN  [ty |-> ty, v |-> Member(ty, raw.of)]

-----------------------------------------------------------------------------
(* Function types and their signature strings, "(ii)i".                    *)
FuncTypes == [params : Seq(ValType), results : Seq(ValType)]

(* Mutant: upper case for both wide types.                                 *)
signature_char_wide(ty) ==
  CASE ty = "i32" -> "i" [] ty = "f32" -> "f" [] ty \in {"i64", "f64"} -> "I"

signature_char(ty) ==
  CASE ty = "i32" -> "i" [] ty = "i64" -> "I" [] ty = "f32" -> "f" [] ty = "f64" -> "F"

Chars(types) == [k \in DOMAIN types |-> signature_char(types[k])]

signature_cstring(ft) == <<"(">> \o Chars(ft.params) \o <<")">> \o Chars(ft.results)

(* External: what WAMR takes a letter for.  It binds an import to a host   *)
(* function of the name only if its signature spells the type of the       *)
(* import, and the trampoline, which decodes by its own type, relies on it.*)
Letter == [i |-> "i32", I |-> "i64", f |-> "f32", F |-> "f64"]
Spells(sig, ft) ==
  LET n == Len(ft.params)
  IN  /\ Len(sig) = n + Len(ft.results) + 2
      /\ sig[1] = "(" /\ sig[n + 2] = ")"
      /\ \A k \in DOMAIN ft.params : sig[k + 1] \in DOMAIN Letter /\ Letter[sig[k + 1]] = ft.params[k]
      /\ \A k \in DOMAIN ft.results :
           sig[n + 2 + k] \in DOMAIN Letter /\ Letter[sig[n + 2 + k]] = ft.results[k]

=============================================================================
