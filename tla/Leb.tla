--------------------------------- MODULE Leb ---------------------------------
(***************************************************************************)
(* read_leb_u32 (src/crates/wamrx/src/module.rs): unsigned LEB128, the     *)
(* number format of Wasm binaries.  A byte has a continuation bit above a  *)
(* group of GroupBits bits (7 in the code); groups come lowest first and   *)
(* the result is Width bits wide (32 in the code).                         *)
(***************************************************************************)
EXTENDS Integers, Sequences, FiniteSetsExt

CONSTANTS GroupBits, Width

ASSUME LebAssumption ==
  GroupBits \in Nat \ {0} /\ Width \in Nat \ {0} /\ GroupBits <= Width

(* 1 << n.                                                                 *)
Pow2[n \in Nat] == IF n = 0 THEN 1 ELSE 2 * Pow2[n - 1]

Group(byte) == byte % Pow2[GroupBits]           (* byte & 0x7f              *)
Continues(byte) == byte >= Pow2[GroupBits]      (* byte & 0x80              *)
Byte == 0 .. Pow2[GroupBits + 1] - 1

None == {}
Some(x) == {x}

(* The loop from a turn on: pos counts from 0, and the byte there is the   *)
(* next.  checked_shl drops the bits that leave the Width, and the bits it *)
(* adds are not in result yet, so that | is +.                             *)
Turn == [pos : Nat, result : Nat, shift : Nat]

LebLoop(buf) ==
  LET loop[t \in Turn] ==
        IF t.pos >= Len(buf) THEN None
        ELSE LET byte == buf[t.pos + 1]
                 sum  == t.result + ((Group(byte) * Pow2[t.shift]) % Pow2[Width])
             IN  IF ~Continues(byte) THEN Some([value |-> sum, pos |-> t.pos + 1])
                 ELSE IF t.shift + GroupBits >= Width THEN None
                 ELSE loop[[pos |-> t.pos + 1, result |-> sum, shift |-> t.shift + GroupBits]]
  IN  loop

Start(at) == [pos |-> at, result |-> 0, shift |-> 0]

(* Mutant: the last group that fits is refused.                            *)
read_leb_u32_short(buf, at) ==
  {r \in LebLoop(buf)[Start(at)] : (r.pos - at) * GroupBits < Width}

(* The value at position at and the position after it, or None.            *)
read_leb_u32(buf, at) == LebLoop(buf)[Start(at)]

-----------------------------------------------------------------------------
(* What the format says.                                                   *)

(* The positions, from 0, of the bytes of the number that starts at at;    *)
(* none if it does not end.                                                *)
LebSpan(buf, at) ==
  LET ends == {p \in at .. Len(buf) - 1 : ~Continues(buf[p + 1])}
  IN  IF ends = {} THEN {} ELSE at .. Min(ends)

(* The first group and, if there are more, 2^GroupBits times the number    *)
(* that they spell.                                                        *)
LebValue(buf) ==
  LET value[p \in Nat] ==
        IF p >= Len(buf) THEN 0
        ELSE IF ~Continues(buf[p + 1]) THEN Group(buf[p + 1])
        ELSE Group(buf[p + 1]) + Pow2[GroupBits] * value[p + 1]
  IN  value

MaxGroups == (Width + GroupBits - 1) \div GroupBits

(* A number ends there, within the groups that a u32 may have.             *)
Ends(buf, at) == LebSpan(buf, at) # {} /\ Cardinality(LebSpan(buf, at)) <= MaxGroups
Overflows(buf, at) == LebValue(buf)[at] >= Pow2[Width]

(* read_leb_u32 at any position: the number there and its end, or None.    *)
(* The format has no number that overflows; see OverflowsAreCut.           *)
Decodes(buf) ==
  \A at \in 0 .. Len(buf) :
    /\ Ends(buf, at) /\ ~Overflows(buf, at) =>
         read_leb_u32(buf, at) = Some([value |-> LebValue(buf)[at],
                                       pos |-> at + Cardinality(LebSpan(buf, at))])
    /\ ~Ends(buf, at) => read_leb_u32(buf, at) = None

(* One that overflows is not None: the bits that do not fit are dropped.   *)
OverflowsAreCut(buf) ==
  \A at \in 0 .. Len(buf) :
    Ends(buf, at) /\ Overflows(buf, at) =>
      read_leb_u32(buf, at) = Some([value |-> LebValue(buf)[at] % Pow2[Width],
                                    pos |-> at + Cardinality(LebSpan(buf, at))])

=============================================================================
