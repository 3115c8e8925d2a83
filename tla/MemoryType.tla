----------------------------- MODULE MemoryType -----------------------------
(***************************************************************************)
(* parse_memory_type (src/crates/wamrx/src/module.rs): the page limits a   *)
(* Wasm binary declares for its memory, found by a scan over its sections. *)
(* The binaries are given by their sections, and encoded here, so that     *)
(* what the scan finds can be compared with what was declared.             *)
(***************************************************************************)
EXTENDS Leb, SequencesExt

CONSTANTS
  Files        (* bound: binaries, each [magic, sections, cut], and what   *)
               (* use makes of one (Loaded.tla)                            *)

(* The id of the memory section.                                           *)
MemoryId == 5

VARIABLES
  file,        (* the binary                                                *)
  pos,         (* the scan is at this byte, after the 8 of the preamble     *)
  out          (* NotYet, or the Option<MemoryType> that is returned, as a *)
               (* set of one                                                *)

scanVars == <<file, pos, out>>

NotYet == {}

-----------------------------------------------------------------------------
(* Binaries                                                                *)

(* n in LEB128, on exactly len bytes.                                      *)
Encode(n, len) ==
  [k \in 1 .. len |->
     Group(n \div Pow2[GroupBits * (k - 1)]) + (IF k < len THEN Pow2[GroupBits] ELSE 0)]

(* A u32, and how many bytes it may be spelled with.                       *)
U32 == 0 .. Pow2[Width] - 1
Lengths(n) == {len \in 1 .. MaxGroups : n \in U32 /\ n < Pow2[GroupBits * len]}
Number(n) == {Encode(n, len) : len \in Lengths(n)}

LimitsType == [minimum : U32, maximum : {None} \union {Some(n) : n \in U32}]

(* The payload of a memory section: no memory, or one with its limits.  The*)
(* low bit of the flags says that there is a maximum; the next, that the   *)
(* memory is shared.                                                       *)
MemoryPayload(payload, limits) ==
  IF limits = <<>> THEN payload \in Number(0)
  ELSE LET l == Head(limits)
           bounded == IF l.maximum = None THEN 0 ELSE 1
       IN  \E count \in Number(1), flags \in Number(bounded) \union Number(2 + bounded),
              minimum \in Number(l.minimum),
              maximum \in IF l.maximum = None THEN {<<>>} ELSE UNION {Number(n) : n \in l.maximum} :
                payload = count \o flags \o minimum \o maximum

(* A section: its id, the length of the encoding of its size, which need   *)
(* not be the shortest, its payload, and the limits that this stands for.  *)
WasmSection ==
  {s \in [id : Byte, sizeLen : Nat, payload : Seq(Byte), limits : Seq(LimitsType)] :
     /\ s.sizeLen \in Lengths(Len(s.payload))
     /\ s.id = MemoryId => Len(s.limits) <= 1 /\ MemoryPayload(s.payload, s.limits)
     /\ s.id # MemoryId => s.limits = <<>>}

EncodeSection(s) == <<s.id>> \o Encode(Len(s.payload), s.sizeLen) \o s.payload

EncodeAll(sections) == FlattenSeq([k \in DOMAIN sections |-> EncodeSection(sections[k])])

(* Binaries as the format has them, except that they may be cut short; with*)
(* one memory section at most.                                             *)
ASSUME FilesAssumption ==
  \A f \in Files :
    /\ f.magic \in BOOLEAN /\ f.sections \in Seq(WasmSection)
    /\ f.cut \in 0 .. Len(EncodeAll(f.sections))
    /\ \A j, k \in DOMAIN f.sections :
         f.sections[j].id = MemoryId /\ f.sections[k].id = MemoryId => j = k

(* What parse_memory_type is given, without the preamble; the file may be  *)
(* cut short.                                                              *)
Bytes(f) == SubSeq(EncodeAll(f.sections), 1, f.cut)

-----------------------------------------------------------------------------
(* The scan                                                                *)

ScanInit == file \in Files /\ pos = 0 /\ out = NotYet

Finish(result) == out' = {result} /\ UNCHANGED <<file, pos>>

(* x?: None ends the function, Some(x) goes on.                            *)
Bind(option, Rest(_)) == UNION {Rest(x) : x \in option}

(* Mutant: that the binary has all of the section is not looked at.        *)
SectionUnchecked(buf) ==
  Bind(read_leb_u32(buf, pos + 1),
       LAMBDA size : Some([id |-> buf[pos + 1], start |-> size.pos,
                           end |-> size.pos + size.value]))

(* The header of the section at pos: its id, and where its payload is.     *)
Section(buf) ==
  Bind(read_leb_u32(buf, pos + 1),
       LAMBDA size : IF size.pos + size.value > Len(buf) THEN None
                     ELSE Some([id |-> buf[pos + 1], start |-> size.pos,
                                end |-> size.pos + size.value]))

(* The first of the limits in a memory section whose payload is at at.     *)
Limits(buf, at) ==
  Bind(read_leb_u32(buf, at), LAMBDA count :
  IF count.value = 0 THEN None ELSE
  Bind(read_leb_u32(buf, count.pos), LAMBDA flags :
  Bind(read_leb_u32(buf, flags.pos), LAMBDA minimum :
    IF flags.value % 2 = 0
    THEN Some([minimum |-> minimum.value, maximum |-> None])
    ELSE Bind(read_leb_u32(buf, minimum.pos), LAMBDA maximum :
              Some([minimum |-> minimum.value, maximum |-> Some(maximum.value)])))))

(* Too short, or not the preamble of a Wasm binary.                        *)
BadPreamble == out = NotYet /\ ~file.magic /\ Finish(None)

Scanning == out = NotYet /\ file.magic

NoMoreSections == Scanning /\ pos >= Len(Bytes(file)) /\ Finish(None)

BadSection ==
  /\ Scanning /\ pos < Len(Bytes(file))
  /\ Section(Bytes(file)) = None
  /\ Finish(None)

MemorySection ==
  /\ Scanning /\ pos < Len(Bytes(file))
  /\ \E s \in Section(Bytes(file)) :
       s.id = MemoryId /\ Finish(Limits(Bytes(file), s.start))

(* Mutant: the scan goes on from the start of the payload.                 *)
EnterSection ==
  /\ Scanning /\ pos < Len(Bytes(file))
  /\ \E s \in Section(Bytes(file)) : s.id # MemoryId /\ pos' = s.start
  /\ UNCHANGED <<file, out>>

(* Mutant: a section whose payload is empty is not left.                   *)
SkipSectionStuck ==
  /\ Scanning /\ pos < Len(Bytes(file))
  /\ \E s \in Section(Bytes(file)) :
       s.id # MemoryId /\ pos' = IF s.end = s.start THEN pos ELSE s.end
  /\ UNCHANGED <<file, out>>

SkipSection ==
  /\ Scanning /\ pos < Len(Bytes(file))
  /\ \E s \in Section(Bytes(file)) : s.id # MemoryId /\ pos' = s.end
  /\ UNCHANGED <<file, out>>

(* A function of one thread that runs to its end.                          *)
ScanNext == BadPreamble \/ NoMoreSections \/ BadSection \/ MemorySection \/ SkipSection

-----------------------------------------------------------------------------
(* Properties                                                              *)

(* The section that declares the memory, if any, and what it declares.     *)
Declares(s) == s.id = MemoryId /\ s.limits # <<>>
EndOf(f, k) == Len(EncodeAll(SubSeq(f.sections, 1, k)))

Declared(f) ==
  {Head(f.sections[k].limits) : k \in {j \in DOMAIN f.sections :
     f.magic /\ Declares(f.sections[j]) /\ EndOf(f, j) <= f.cut}}

(* The scan returns the limits the binary declares, exactly when it        *)
(* declares them and is not cut before: it never takes a payload that      *)
(* looks like a memory section for one, and reads sizes of any encoding    *)
(* (module.rs:73-79).                                                      *)
DeclaredFound == out # NotYet => out = {Declared(file)}

(* The scan stays in step with the sections: until it returns, it is at    *)
(* the end of one, and has left none that is of memory behind, whatever a  *)
(* payload looks like (module.rs:86-99).                                   *)
InStep ==
  out = NotYet => \E k \in 0 .. Len(file.sections) :
    /\ pos = EndOf(file, k) /\ pos <= file.cut
    /\ \A j \in 1 .. k : file.sections[j].id # MemoryId

(* What holds after every turn.                                            *)
ScanInv == file \in Files /\ InStep /\ DeclaredFound

(* A number that fits in a u32 is read to its last byte, whatever the      *)
(* encoding; one that the end of the file cuts, or of too many groups, is  *)
(* None, wherever in the file it is (module.rs:117-134).                   *)
LebDecodes == Decodes(Bytes(file))

(* A number whose last group does not fit is read as what fits of all its  *)
(* groups, and up to its last byte (module.rs:125); the comment of         *)
(* module.rs:118 has it that it is None.                                   *)
OverflowIsCut == OverflowsAreCut(Bytes(file))

(* Every turn takes the scan forward, and not past the end of the binary,  *)
(* empty sections included (module.rs:75-99).                              *)
ScanAdvances ==
  [][out' = NotYet => pos < pos' /\ pos' <= Len(Bytes(file))]_scanVars

(* The scan ends, empty sections and cut binaries included (module.rs:86). *)
ScanEnds == <>(out # NotYet)

=============================================================================
