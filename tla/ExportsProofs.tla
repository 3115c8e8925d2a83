---------------------------- MODULE ExportsProofs ----------------------------
(***************************************************************************)
(* Proofs about Exports.tla, for every module, every width that fills two  *)
(* cells, every page size and every bound on the pages.                    *)
(***************************************************************************)
EXTENDS Exports, ValueProofs, FiniteSetTheorems

-----------------------------------------------------------------------------
(* Cells                                                                   *)

LEMMA MonotoneProduct ==
  ASSUME NEW w \in Nat \ {0}, NEW a \in Nat, w * a < w * w
  PROVE  a < w
OBVIOUS

LEMMA Division ==
  ASSUME NEW w \in Nat, w > 0, NEW b \in Nat
  PROVE  b = w * (b \div w) + (b % w) /\ b \div w \in Nat /\ b % w \in 0 .. w - 1
OBVIOUS

LEMMA Squares == \A n \in Nat : 2 * (2 * n * n) = (2 * n) * (2 * n)
BY SMTT(30)

(* A wide value is cut into two cells and put together again.              *)
LEMMA TwoCells ==
  ASSUME NEW w \in Nat \ {0}, NEW b \in Nat, b < w * w
  PROVE  /\ b % w \in 0 .. w - 1
         /\ b \div w \in 0 .. w - 1
         /\ (b % w) + w * (b \div w) = b
<1>1. b % w \in 0 .. w - 1 /\ b \div w \in Nat /\ b = w * (b \div w) + (b % w)
  BY Division
<1>2. w * (b \div w) < w * w
  <2> DEFINE q == b \div w
             r == b % w
  <2>1. r \in Nat /\ b = w * q + r /\ w * q \in Int /\ w * w \in Int
    BY <1>1
  <2> HIDE DEF q, r
  <2>2. QED
    BY <2>1 DEF q
<1>3. b \div w < w
  BY <1>1, <1>2, MonotoneProduct
<1>4. QED
  BY <1>1, <1>3

(* How many cells a type takes.                                            *)
Span(kind) == IF IsWide(kind) THEN 2 ELSE 1

LEMMA BitsFit ==
  ASSUME NEW val \in Val
  PROVE  LET bits == Unsign(val.v, Half(val.ty))
             w == 2 * Narrow
         IN  /\ w \in Nat \ {0} /\ bits \in Nat
             /\ IsWide(val.ty) => bits < w * w
             /\ ~IsWide(val.ty) => bits \in 0 .. w - 1 /\ bits % w = bits
<1> DEFINE h == Half(val.ty)
           bits == Unsign(val.v, h)
           w == 2 * Narrow
<1>1. h \in Nat \ {0} /\ val.ty \in ValType /\ val.v \in Int
  BY ValShape DEF Payload, Signed, Bits
<1>2. bits \in 0 .. 2 * h - 1
  BY <1>1, Residue DEF Unsign
<1> HIDE DEF bits
<1>3. w \in Nat \ {0} /\ Narrow \in Nat
  BY WidthAssumption
<1>4. ASSUME IsWide(val.ty)
      PROVE  bits < w * w
  <2>1. h = 2 * Narrow * Narrow
    BY <1>1, <1>4, CellAssumption DEF IsWide, Half
  <2>2. 2 * h = w * w
    BY <1>3, <2>1, Squares
  <2> HIDE DEF h, w
  <2>3. h \in Nat /\ w * w = 2 * h
    BY <1>1, <2>2
  <2>4. QED
    BY <1>2, <2>3
<1>5. ASSUME ~IsWide(val.ty)
      PROVE  bits \in 0 .. w - 1 /\ bits % w = bits
  <2>1. h = Narrow
    BY <1>1, <1>5 DEF IsWide, Half, ValType
  <2>2. bits \in 0 .. w - 1
    BY <1>2, <2>1
  <2> HIDE DEF w
  <2>3. QED
    BY <1>3, <2>2, Remainder
<1>6. QED
  BY <1>1, <1>2, <1>3, <1>4, <1>5 DEF bits

(* What is written is read back.                                           *)
LEMMA ReadsWritten ==
  ASSUME NEW n \in Nat, NEW store \in [1 .. n -> Cell], NEW val \in Val,
         NEW at \in 1 .. n, at + Span(val.ty) - 1 <= n
  PROVE  /\ Write(store, val, at) \in [1 .. n -> Cell]
         /\ Read(Write(store, val, at), val.ty, at) = val
<1> DEFINE h == Half(val.ty)
           bits == Unsign(val.v, h)
           w == 2 * Narrow
           new == Write(store, val, at)
<1>1. /\ w \in Nat \ {0} /\ bits \in Nat
      /\ IsWide(val.ty) => bits < w * w
      /\ ~IsWide(val.ty) => bits \in 0 .. w - 1 /\ bits % w = bits
  BY BitsFit
<1>2. val.ty \in ValType /\ val.v \in Payload(val.ty) /\ val = [ty |-> val.ty, v |-> val.v]
      /\ h \in Nat \ {0}
  BY ValShape
<1>3. /\ new = [c \in 1 .. n |-> CASE c = at -> bits % w
                                  [] c = at + 1 /\ IsWide(val.ty) -> bits \div w
                                  [] OTHER -> store[c]]
      /\ bits % w \in Cell
      /\ IsWide(val.ty) => bits \div w \in Cell
  <2>1. DOMAIN store = 1 .. n
    OBVIOUS
  <2>2. /\ bits % w \in 0 .. w - 1
        /\ IsWide(val.ty) => bits \div w \in 0 .. w - 1
    <3> HIDE DEF bits, w
    <3>1. QED
      BY <1>1, Remainder, TwoCells
  <2>3. QED
    BY <2>1, <2>2 DEF Write, Cell
<1> HIDE DEF bits, w, h
<1>4. new \in [1 .. n -> Cell]
  BY <1>3
<1>5. new[at] = bits % w
  BY <1>3
<1>6. (IF IsWide(val.ty) THEN new[at] + w * new[at + 1] ELSE new[at]) = bits
  <2>1. CASE IsWide(val.ty)
    <3>1. at + 1 \in 1 .. n /\ at + 1 # at
      BY <2>1 DEF Span
    <3>2. new[at + 1] = bits \div w
      BY <1>3, <2>1, <3>1
    <3>3. QED
      BY <1>1, <1>5, <2>1, <3>2, TwoCells
  <2>2. CASE ~IsWide(val.ty)
    BY <1>1, <1>5, <2>2
  <2>3. QED
    BY <2>1, <2>2
<1>7. (IF val.ty \in {"i32", "i64"} THEN Sign(bits, h) ELSE bits) = val.v
  <2>1. CASE val.ty \in {"i32", "i64"}
    BY <1>2, <2>1, SignUnsign DEF Payload, bits, h
  <2>2. CASE val.ty \notin {"i32", "i64"}
    <3>1. val.v \in 0 .. 2 * h - 1
      BY <1>2, <2>2 DEF Payload, Bits, h
    <3>2. QED
      BY <1>2, <2>2, <3>1, Residue DEF Unsign, bits
  <2>3. QED
    BY <2>1, <2>2
<1>8. Read(new, val.ty, at) = [ty |-> val.ty, v |-> IF val.ty \in {"i32", "i64"}
                                                   THEN Sign(bits, h) ELSE bits]
  BY <1>6 DEF Read, w, h
<1>9. QED
  BY <1>2, <1>4, <1>7, <1>8

(* A write elsewhere is not seen.                                          *)
LEMMA ReadsOthers ==
  ASSUME NEW n \in Nat, NEW store \in [1 .. n -> Cell], NEW val \in Val, NEW at \in Nat,
         NEW kind, NEW other \in Nat, other \in 1 .. n, other + Span(kind) - 1 <= n,
         \/ at + Span(val.ty) <= other
         \/ other + Span(kind) <= at
  PROVE  Read(Write(store, val, at), kind, other) = Read(store, kind, other)
<1> DEFINE new == Write(store, val, at)
<1>1. Span(kind) \in {1, 2} /\ Span(val.ty) \in {1, 2}
      /\ (IsWide(kind) <=> Span(kind) = 2) /\ (IsWide(val.ty) <=> Span(val.ty) = 2)
  BY DEF Span
<1>2. \A c \in 1 .. n : c # at /\ ~(c = at + 1 /\ IsWide(val.ty)) => new[c] = store[c]
  BY DEF Write
<1> HIDE DEF new
<1>3. new[other] = store[other]
  BY <1>1, <1>2
<1>4. IsWide(kind) => new[other + 1] = store[other + 1]
  <2>1. SUFFICES ASSUME IsWide(kind)
                 PROVE  new[other + 1] = store[other + 1]
    OBVIOUS
  <2>2. other + 1 \in 1 .. n /\ other + 1 # at /\ ~(other + 1 = at + 1 /\ IsWide(val.ty))
    BY <1>1, <2>1
  <2>3. QED
    BY <1>2, <2>2
<1>5. QED
  BY <1>3, <1>4 DEF Read, new

(* What is read is a value of the type.                                    *)
LEMMA ReadTyped ==
  ASSUME NEW n \in Nat, NEW store \in [1 .. n -> Cell], NEW ty \in ValType,
         NEW at \in 1 .. n, at + Span(ty) - 1 <= n
  PROVE  Read(store, ty, at) \in Val /\ Read(store, ty, at).ty = ty
<1> DEFINE h == Half(ty)
           w == 2 * Narrow
           bits == IF IsWide(ty) THEN store[at] + w * store[at + 1] ELSE store[at]
<1>1. w \in Nat \ {0} /\ Narrow \in Nat \ {0} /\ h \in Nat \ {0}
  BY WidthAssumption, ValShape
<1>2. bits \in 0 .. 2 * h - 1
  <2>1. CASE IsWide(ty)
    <3>1. at + 1 \in 1 .. n
      BY <2>1 DEF Span
    <3>2. store[at] \in 0 .. w - 1 /\ store[at + 1] \in 0 .. w - 1
      BY <3>1 DEF Cell
    <3>3. 2 * h = w * w
      BY <1>1, <2>1, CellAssumption DEF IsWide, Half
    <3>4. \A a \in 0 .. w - 1, b \in 0 .. w - 1 : a + w * b \in 0 .. w * w - 1
      <4>1. TAKE a \in 0 .. w - 1, b \in 0 .. w - 1
      <4>2. w * b \in Nat /\ w * b <= w * (w - 1) /\ w * (w - 1) = w * w - w
        BY <1>1
      <4>3. QED
        BY <1>1, <4>2
    <3>5. QED
      BY <2>1, <3>2, <3>3, <3>4
  <2>2. CASE ~IsWide(ty)
    <3>1. h = Narrow
      BY <2>2 DEF IsWide, Half, ValType
    <3>2. QED
      BY <2>2, <3>1 DEF Cell
  <2>3. QED
    BY <2>1, <2>2
<1> HIDE DEF bits
<1>3. (IF ty \in {"i32", "i64"} THEN Sign(bits, h) ELSE bits) \in Payload(ty)
  BY <1>1, <1>2 DEF Sign, Payload, Signed, Bits
<1>4. Read(store, ty, at) = [ty |-> ty, v |-> IF ty \in {"i32", "i64"} THEN Sign(bits, h) ELSE bits]
  BY DEF Read, bits
<1>5. QED
  BY <1>3, <1>4, ValShape

-----------------------------------------------------------------------------
(* Where the globals are                                                   *)

LEMMA OffsetInNat ==
  ASSUME NEW decls, NEW k \in Nat
  PROVE  /\ Offset(decls, k) \in Nat /\ k <= Offset(decls, k)
         /\ IsFiniteSet({j \in 1 .. k - 1 : IsWide(decls[j].kind)})
<1> DEFINE W == {j \in 1 .. k - 1 : IsWide(decls[j].kind)}
<1>1. IsFiniteSet(1 .. k - 1)
  BY FS_Interval
<1>2. IsFiniteSet(W)
  BY <1>1, FS_Subset
<1>3. Cardinality(W) \in Nat
  BY <1>2, FS_CardinalityType
<1>4. QED
  BY <1>2, <1>3 DEF Offset

(* No two globals overlap, and they are in the order of their indices.     *)
LEMMA Packed ==
  ASSUME NEW decls, NEW j \in Nat \ {0}, NEW k \in Nat, j < k
  PROVE  Offset(decls, j) + Span(decls[j].kind) <= Offset(decls, k)
<1> DEFINE Before(n) == {i \in 1 .. n - 1 : IsWide(decls[i].kind)}
           Self == IF IsWide(decls[j].kind) THEN {j} ELSE {}
<1>1. IsFiniteSet(Before(j)) /\ IsFiniteSet(Before(k))
  BY OffsetInNat
<1>2. Before(j) \union Self \subseteq Before(k)
  OBVIOUS
<1>3. j \notin Before(j)
  OBVIOUS
<1>4. /\ Offset(decls, j) = j + Cardinality(Before(j))
      /\ Offset(decls, k) = k + Cardinality(Before(k))
  BY DEF Offset
<1> HIDE DEF Before
<1>5. Cardinality(Before(j)) \in Nat /\ Cardinality(Before(k)) \in Nat
  BY <1>1, FS_CardinalityType
<1>6. CASE IsWide(decls[j].kind)
  <2>1. Before(j) \union {j} \subseteq Before(k)
    BY <1>2, <1>6
  <2>2. Cardinality(Before(j) \union {j}) = Cardinality(Before(j)) + 1
    BY <1>1, <1>3, FS_AddElement
  <2>3. Cardinality(Before(j) \union {j}) <= Cardinality(Before(k))
    BY <1>1, <2>1, FS_Subset
  <2>4. QED
    BY <1>4, <1>5, <1>6, <2>2, <2>3 DEF Span
<1>7. CASE ~IsWide(decls[j].kind)
  <2>1. Cardinality(Before(j)) <= Cardinality(Before(k))
    BY <1>1, <1>2, <1>7, FS_Subset
  <2>2. QED
    BY <1>4, <1>5, <1>7, <2>1 DEF Span
<1>8. QED
  BY <1>6, <1>7

(* A global lies within the storage, apart from every other.               *)
LEMMA GlobalPlace ==
  ASSUME NEW decls \in Seq(GlobalDecl), NEW k \in Numeric(decls)
  PROVE  LET n == Offset(decls, Len(decls) + 1) - 1
             at == Offset(decls, k)
         IN  /\ n \in Nat /\ Cells(decls) = 1 .. n
             /\ at \in 1 .. n /\ at + Span(decls[k].kind) - 1 <= n
             /\ decls[k].kind \in ValType
             /\ \A j \in Numeric(decls) :
                  j # k => \/ at + Span(decls[k].kind) <= Offset(decls, j)
                           \/ Offset(decls, j) + Span(decls[j].kind) <= at
<1>1. Len(decls) \in Nat /\ DOMAIN decls = 1 .. Len(decls)
  BY LenProperties
<1>2. \A j \in Numeric(decls) : j \in Nat \ {0} /\ j < Len(decls) + 1
  BY <1>1 DEF Numeric
<1>3. Offset(decls, k) + Span(decls[k].kind) <= Offset(decls, Len(decls) + 1)
  BY <1>1, <1>2, Packed
<1>4. /\ Offset(decls, k) \in Nat /\ 0 < Offset(decls, k)
      /\ Offset(decls, Len(decls) + 1) \in Nat
  <2>1. k \in Nat /\ 0 < k /\ Len(decls) + 1 \in Nat
    BY <1>1, <1>2
  <2>2. Offset(decls, k) \in Nat /\ k <= Offset(decls, k)
    BY <2>1, OffsetInNat
  <2>3. Offset(decls, Len(decls) + 1) \in Nat
    BY <2>1, OffsetInNat
  <2>4. QED
    BY <2>1, <2>2, <2>3
<1>5. Span(decls[k].kind) \in {1, 2}
  BY DEF Span
<1>6. ASSUME NEW j \in Numeric(decls), j # k
      PROVE  \/ Offset(decls, k) + Span(decls[k].kind) <= Offset(decls, j)
             \/ Offset(decls, j) + Span(decls[j].kind) <= Offset(decls, k)
  <2>1. j < k \/ k < j
    BY <1>2, <1>6
  <2>2. QED
    BY <1>2, <2>1, Packed
<1>7. decls[k].kind \in ValType
  BY DEF Numeric
<1> DEFINE n == Offset(decls, Len(decls) + 1) - 1
           at == Offset(decls, k)
<1>8. n \in Nat /\ Cells(decls) = 1 .. n
  BY <1>3, <1>4, <1>5 DEF Cells
<1>9. at \in 1 .. n /\ at + Span(decls[k].kind) - 1 <= n
  BY <1>3, <1>4, <1>5
<1>10. QED
  BY <1>6, <1>7, <1>8, <1>9

(* Two numeric globals at one place are one.                               *)
LEMMA PlaceDetermines ==
  ASSUME NEW decls \in Seq(GlobalDecl), NEW j \in Numeric(decls), NEW k \in Numeric(decls),
         Offset(decls, j) = Offset(decls, k)
  PROVE  j = k
<1>1. Span(decls[j].kind) \in {1, 2} /\ Span(decls[k].kind) \in {1, 2}
  BY DEF Span
<1>2. Offset(decls, k) \in Int
  BY GlobalPlace
<1>3. QED
  BY <1>1, <1>2, GlobalPlace

(* A write of one global of its type gives it the value and no other.      *)
LEMMA WriteOne ==
  ASSUME NEW decls \in Seq(GlobalDecl), NEW k \in Numeric(decls),
         NEW store \in [Cells(decls) -> Cell], NEW val \in Val, val.ty = decls[k].kind
  PROVE  LET new == Write(store, val, Offset(decls, k))
         IN  /\ new \in [Cells(decls) -> Cell]
             /\ \A j \in Numeric(decls) :
                  Read(new, decls[j].kind, Offset(decls, j)) =
                    IF j = k THEN val ELSE Read(store, decls[j].kind, Offset(decls, j))
<1> DEFINE n == Offset(decls, Len(decls) + 1) - 1
           at == Offset(decls, k)
           new == Write(store, val, at)
<1>1. n \in Nat /\ Cells(decls) = 1 .. n /\ at \in 1 .. n /\ at + Span(val.ty) - 1 <= n
  BY GlobalPlace
<1>2. store \in [1 .. n -> Cell]
  BY <1>1
<1> HIDE DEF n, at
<1>3. new \in [1 .. n -> Cell] /\ Read(new, val.ty, at) = val
  BY <1>1, <1>2, ReadsWritten
<1>4. ASSUME NEW j \in Numeric(decls), j # k
      PROVE  Read(new, decls[j].kind, Offset(decls, j)) = Read(store, decls[j].kind, Offset(decls, j))
  <2> DEFINE other == Offset(decls, j)
             kind == decls[j].kind
  <2>1. other \in 1 .. n /\ other + Span(kind) - 1 <= n
    BY GlobalPlace DEF n
  <2>2. at + Span(val.ty) <= other \/ other + Span(kind) <= at
    BY <1>4, GlobalPlace DEF at
  <2> HIDE DEF other, kind
  <2>3. Read(Write(store, val, at), kind, other) = Read(store, kind, other)
    BY <1>1, <1>2, <2>1, <2>2, ReadsOthers
  <2>4. QED
    BY <2>3 DEF other, kind
<1>5. QED
  BY <1>1, <1>3, <1>4 DEF at, n

LEMMA ReadGlobal ==
  ASSUME NEW decls \in Seq(GlobalDecl), NEW k \in Numeric(decls),
         NEW store \in [Cells(decls) -> Cell]
  PROVE  LET val == Read(store, decls[k].kind, Offset(decls, k))
         IN  val \in Val /\ val.ty = decls[k].kind
<1> DEFINE n == Offset(decls, Len(decls) + 1) - 1
           at == Offset(decls, k)
           ty == decls[k].kind
<1>1. n \in Nat /\ Cells(decls) = 1 .. n /\ at \in 1 .. n /\ at + Span(ty) - 1 <= n
      /\ ty \in ValType
  BY GlobalPlace
<1>2. store \in [1 .. n -> Cell]
  BY <1>1
<1> HIDE DEF n, at, ty
<1>3. Read(store, ty, at) \in Val /\ Read(store, ty, at).ty = ty
  BY <1>1, <1>2, ReadTyped
<1>4. QED
  BY <1>3 DEF at, ty

-----------------------------------------------------------------------------
(* The invariant                                                           *)

LEMMA ModuleFacts ==
  ASSUME NEW m \in Module
  PROVE  /\ m.globals \in Seq(GlobalDecl)
         /\ m.memory \in Option(WasmMemory)
         /\ m.memory_type = {d.type : d \in {e \in m.memory : ~e.imported}}
         /\ \A n \in Name : \A x, y \in m.exports[n] : x = y
         /\ \A n \in Name : \A e \in m.exports[n] :
              /\ e.kind = "global" => e.index \in DOMAIN m.globals
              /\ e.kind = "memory" => m.memory # {}
         /\ \A d \in m.memory :
              /\ d.type.minimum \in Nat /\ d.grows \in BOOLEAN
              /\ \A n \in d.type.maximum : n \in Nat /\ d.type.minimum <= n
<1>1. /\ m.globals \in Seq(GlobalDecl)
      /\ m.memory \in Option(WasmMemory)
      /\ m.exports \in [Name -> Option(Export)]
      /\ m.memory_type = {d.type : d \in {e \in m.memory : ~e.imported}}
      /\ \A d \in m.memory : \A n \in d.type.maximum : d.type.minimum <= n
      /\ \A n \in Name : \A e \in m.exports[n] :
           /\ e.kind = "global" => e.index \in DOMAIN m.globals
           /\ e.kind = "memory" => m.memory # {}
  BY DEF Module
<1>2. \A n \in Name : \A x, y \in m.exports[n] : x = y
  BY <1>1 DEF Option
<1>3. \A d \in m.memory : d.type.minimum \in Nat /\ d.grows \in BOOLEAN
                          /\ \A n \in d.type.maximum : n \in Nat
  BY <1>1 DEF Option, WasmMemory, MemoryTypes
<1>4. QED
  BY <1>1, <1>2, <1>3

(* The module, once there is one.                                          *)
LEMMA TheModule ==
  ASSUME ModuleInv, NEW m \in module
  PROVE  module = {m} /\ m \in Module
BY DEF ModuleInv, Option

LEMMA LiveInvInit == LiveInit => LiveInv
<1> SUFFICES ASSUME LiveInit PROVE LiveInv
  OBVIOUS
<1>1. ModuleInv
  BY DEF LiveInit, ModuleInv, Option
<1>2. MemoryInv
  BY PageAssumption DEF LiveInit, MemoryInv, Option
<1>3. ViewsInv /\ GlobalsInv
  BY DEF LiveInit, ViewsInv, GlobalsInv
<1>4. QED
  BY <1>1, <1>2, <1>3 DEF LiveInv

LEMMA LoadStep ==
  ASSUME LiveInv, NEW m \in Module, Load(m)
  PROVE  LiveInv'
<1> USE DEF Load
<1>1. ModuleInv /\ ~running /\ module' = {m}
  BY DEF LiveInv, ModuleInv
<1>2. memories = {} /\ globals = {} /\ views = {} /\ memory = {}
  BY <1>1 DEF ModuleInv
<1>3. ModuleInv'
  BY <1>1, <1>2 DEF ModuleInv, Option
<1>4. MemoryInv'
  BY <1>1, <1>2 DEF LiveInv, MemoryInv
<1>5. ViewsInv' /\ GlobalsInv'
  BY <1>1, <1>2 DEF ViewsInv, GlobalsInv
<1>6. QED
  BY <1>3, <1>4, <1>5 DEF LiveInv

LEMMA InstantiateStep ==
  ASSUME LiveInv, Instantiate
  PROVE  LiveInv'
<1>1. PICK m \in module :
        /\ \A d \in m.memory : d.type.minimum <= MaxPages
        /\ running' = TRUE
        /\ memory' \in {{}} \union {{l} : l \in UNION {Layouts(d) : d \in m.memory}}
        /\ memory' = {} <=> m.memory = {}
        /\ size' \in {0} \union {d.type.minimum : d \in m.memory}
        /\ \A d \in m.memory : size' = d.type.minimum
        /\ cells' \in [Cells(m.globals) -> Cell]
        /\ values' = [k \in Numeric(m.globals) |->
                        Read(cells', m.globals[k].kind, Offset(m.globals, k))]
  BY DEF Instantiate
<1>2. UNCHANGED <<module, memories, globals, views, answer>> /\ ~running
  BY DEF Instantiate
<1>3. memories = {} /\ globals = {} /\ views = {}
  BY <1>2 DEF LiveInv, ModuleInv
<1>4. module = {m} /\ m \in Module
  BY TheModule DEF LiveInv
<1>5. ModuleInv'
  BY <1>1, <1>2, <1>4 DEF LiveInv, ModuleInv
<1>6. MemoryInv'
  <2>1. m.memory \in Option(WasmMemory)
        /\ \A d \in m.memory : d.type.minimum \in Nat
                               /\ \A n \in d.type.maximum : n \in Nat /\ d.type.minimum <= n
    BY <1>4, ModuleFacts
  <2>2. size' \in 0 .. MaxPages
    BY <1>1, <2>1, PageAssumption
  <2>3. ASSUME NEW l \in memory'
        PROVE  /\ memory' = {l}
               /\ l \in [base : Address \union {Null}, pages : Nat, bytesPerPage : Nat]
               /\ l.pages * l.bytesPerPage = size' * PageSize
               /\ size' # 0 => l.base # Null
               /\ \A d \in m.memory : d.grows => l.bytesPerPage = PageSize
    <3>1. memory' = {l} /\ \E d \in m.memory : l \in Layouts(d)
      BY <1>1, <2>3
    <3>2. PICK d \in m.memory : l \in Layouts(d)
      BY <3>1
    <3>3. size' = d.type.minimum /\ d.type.minimum \in Nat /\ PageSize \in Nat
          /\ d.type.minimum * PageSize \in Nat
      BY <1>1, <2>1, PageAssumption
    <3>4. /\ l \in [base : Address \union {Null}, pages : Nat, bytesPerPage : Nat]
          /\ size' # 0 => l.base # Null
          /\ \/ l.pages = size' /\ l.bytesPerPage = PageSize
             \/ l.pages = 1 /\ l.bytesPerPage = size' * PageSize /\ ~d.grows
      BY <3>2, <3>3 DEF Layouts
    <3>5. l.pages * l.bytesPerPage = size' * PageSize
      BY <3>3, <3>4
    <3>6. \A e \in m.memory : e = d
      BY <2>1 DEF Option
    <3>7. QED
      BY <3>1, <3>4, <3>5, <3>6
  <2>4. memory' \in Option([base : Address \union {Null}, pages : Nat, bytesPerPage : Nat])
    BY <2>3 DEF Option
  <2>5. \A d \in m.memory : d.type.minimum <= size' /\ \A n \in d.type.maximum : size' <= n
    BY <1>1, <2>1
  <2>6. QED
    BY <1>1, <1>2, <1>3, <1>4, <2>2, <2>3, <2>4, <2>5 DEF MemoryInv
<1>7. ViewsInv'
  BY <1>2, <1>3 DEF ViewsInv
<1>8. GlobalsInv'
  BY <1>1, <1>2, <1>3, <1>4 DEF GlobalsInv
<1>9. QED
  BY <1>5, <1>6, <1>7, <1>8 DEF LiveInv

(* The handle that a lookup of a global returns is one of the global.      *)
LEMMA GetGlobalStep ==
  ASSUME LiveInv, NEW n \in Name, get_global(n)
  PROVE  LiveInv'
<1>1. UNCHANGED <<module, running, memory, cells, memories, views, size, values>>
  BY DEF get_global
<1>2. PICK m \in module :
        /\ Of(m)
        /\ \/ globals' = globals
           \/ \E k \in Exported(m, "global", n) : globals' = globals \union Handles(m, k)
  BY DEF get_global
<1>3. module = {m} /\ m \in Module /\ running
  BY <1>2, TheModule DEF LiveInv, Of
<1>4. ModuleInv'
  BY <1>1, <1>3 DEF LiveInv, ModuleInv
<1>5. MemoryInv' /\ ViewsInv'
  BY <1>1 DEF LiveInv, MemoryInv, ViewsInv
<1>6. \A k \in Exported(m, "global", n) :
        from_valkind(m.globals[k].kind) # {} =>
          k \in Numeric(m.globals) /\ from_valkind(m.globals[k].kind) = {m.globals[k].kind}
  BY <1>3, ModuleFacts DEF Exported, Numeric, from_valkind
<1>7. GlobalsInv'
  <2>1. \A h \in globals' : h \in globals \/
          \E k \in Numeric(m.globals) :
            h = [content |-> m.globals[k].kind, data |-> Offset(m.globals, k),
                 mutability |-> IF m.globals[k].mutable THEN "Mutable" ELSE "Const"]
    BY <1>2, <1>6 DEF Handles
  <2>2. QED
    BY <1>1, <1>3, <2>1 DEF LiveInv, GlobalsInv
<1>8. QED
  BY <1>4, <1>5, <1>7 DEF LiveInv

LEMMA LookupStep ==
  ASSUME LiveInv, NEW n \in Name, get_func(n) \/ get_memory(n)
  PROVE  LiveInv'
<1>1. UNCHANGED <<module, running, memory, cells, globals, views, size, values>>
  BY DEF get_func, get_memory
<1>2. PICK m \in module : Of(m) /\ memories' \subseteq memories \union m.memory_type
  BY DEF get_func, get_memory
<1>3. module = {m} /\ running
  BY <1>2, TheModule DEF LiveInv, Of
<1>4. QED
  BY <1>1, <1>2, <1>3 DEF LiveInv, ModuleInv, MemoryInv, ViewsInv, GlobalsInv

(* A saturated product of pages and bytes is that product.                 *)
LEMMA ByteLen ==
  ASSUME LiveInv, NEW mem \in memory
  PROVE  /\ byte_len(mem) = size * PageSize /\ size * PageSize \in Nat
         /\ pages_of(mem) = size
<1> DEFINE bytes == size * PageSize
<1>1. mem.pages * mem.bytesPerPage = bytes /\ size \in Nat /\ size <= MaxPages
  BY PageAssumption DEF LiveInv, MemoryInv
<1>2. bytes \in Nat /\ bytes <= MaxPages * PageSize /\ bytes \div PageSize = size
  <2>1. PageSize \in Nat \ {0} /\ MaxPages \in Nat
    BY PageAssumption
  <2>2. \A p \in Nat \ {0}, s \in Nat, t \in Nat :
          s <= t => s * p \in Nat /\ s * p <= t * p /\ (s * p) \div p = s
    BY SMTT(30)
  <2>3. QED
    BY <1>1, <2>1, <2>2
<1>3. bytes < Usize /\ bytes <= U64Max /\ Usize \in Nat /\ U64Max \in Nat
  <2>1. MaxPages * PageSize \in Nat
    BY PageAssumption
  <2> HIDE DEF bytes
  <2>2. QED
    BY <1>2, <2>1, PageAssumption
<1> HIDE DEF bytes
<1>4. Usize > 0 /\ bytes % Usize = bytes
  <2>1. Usize \in Nat \ {0} /\ bytes \in 0 .. Usize - 1
    BY <1>2, <1>3
  <2>2. QED
    BY <2>1, Remainder
<1>5. byte_len(mem) = bytes
  BY <1>1, <1>2, <1>3, <1>4 DEF byte_len
<1>6. QED
  BY <1>2, <1>5 DEF pages_of, bytes

LEMMA DataStep ==
  ASSUME LiveInv, Data
  PROVE  LiveInv'
<1>1. UNCHANGED <<module, running, memory, cells, memories, globals, size, values>>
  BY DEF Data
<1>2. PICK mem \in memory : views' = views \union {slice(mem)}
  BY DEF Data
<1>3. /\ memory = {mem} /\ mem.base \in Address \union {Null}
      /\ size # 0 => mem.base # Null
      /\ running
  BY <1>2 DEF LiveInv, ModuleInv, MemoryInv, Option
<1>4. byte_len(mem) = size * PageSize /\ size * PageSize \in Nat
  BY ByteLen
<1> DEFINE bytes == size * PageSize
           new == slice(mem)
<1>5. /\ new \in [base : Address \union {Empty}, len : Nat, grown : BOOLEAN]
      /\ new.len = bytes /\ (new.len # 0 => new.base = mem.base)
  <2>1. CASE mem.base = Null
    <3>1. size = 0 /\ bytes = 0
      BY <1>3, <2>1, PageAssumption
    <3>2. new = [base |-> Empty, len |-> 0, grown |-> FALSE]
      BY <2>1 DEF slice, View
    <3>3. QED
      BY <3>1, <3>2
  <2>2. CASE mem.base # Null
    <3>1. new = [base |-> mem.base, len |-> bytes, grown |-> FALSE] /\ bytes \in Nat
      BY <1>4, <2>2 DEF slice, View
    <3> HIDE DEF bytes, new
    <3>2. QED
      BY <1>3, <2>2, <3>1
  <2>3. QED
    BY <2>1, <2>2
<1>6. ViewsInv'
  <2>1. bytes' = bytes /\ memory' = {mem} /\ views' = views \union {new}
    BY <1>1, <1>2, <1>3
  <2>2. /\ views \subseteq [base : Address \union {Empty}, len : Nat, grown : BOOLEAN]
        /\ \A v \in views : ~v.grown => v.len = bytes /\ (v.len # 0 => v.base = mem.base)
    BY <1>3 DEF LiveInv, ViewsInv
  <2>3. SUFFICES /\ views' \subseteq [base : Address \union {Empty}, len : Nat, grown : BOOLEAN]
                 /\ \A v \in views' : ~v.grown =>
                      v.len = bytes' /\ \A x \in memory' : v.len # 0 => v.base = x.base
    BY DEF ViewsInv
  <2> HIDE DEF bytes, new
  <2>4. QED
    BY <1>5, <2>1, <2>2
<1>7. QED
  BY <1>1, <1>3, <1>6 DEF LiveInv, ModuleInv, MemoryInv, GlobalsInv

(* Memories of one size grow to one size.                                  *)
LEMMA MoreOf ==
  ASSUME NEW a \in Nat, NEW b \in Nat, NEW c \in Nat, NEW p \in Nat, a * p = b * p
  PROVE  (a + c) * p = (b + c) * p
<1>1. (a + c) * p = a * p + c * p /\ (b + c) * p = b * p + c * p
  OBVIOUS
<1>2. QED
  BY <1>1

LEMMA WasmGrowsStep ==
  ASSUME LiveInv, WasmGrows
  PROVE  LiveInv'
<1>1. UNCHANGED <<module, running, cells, memories, globals, values>>
      /\ views' = {[v EXCEPT !.grown = TRUE] : v \in views}
  BY DEF WasmGrows
<1>2. PICK m \in module, mem \in memory, more \in 1 .. MaxPages :
        /\ \E d \in m.memory : d.grows /\ \A n \in d.type.maximum : size + more <= n
        /\ size + more <= MaxPages
        /\ size' = size + more
        /\ \E base \in Address : memory' = {[mem EXCEPT !.base = base, !.pages = @ + more]}
  BY DEF WasmGrows
<1>3. module = {m} /\ m \in Module
  BY TheModule DEF LiveInv
<1>4. running
  BY <1>2 DEF LiveInv, ModuleInv
<1>5. PICK d \in m.memory : d.grows /\ \A n \in d.type.maximum : size + more <= n
  BY <1>2
<1>6. m.memory = {d} /\ d.type.minimum \in Nat
  BY <1>3, ModuleFacts DEF Option
<1>7. /\ memory = {mem}
      /\ mem \in [base : Address \union {Null}, pages : Nat, bytesPerPage : Nat]
      /\ mem.pages * PageSize = size * PageSize /\ mem.bytesPerPage = PageSize
      /\ d.type.minimum <= size /\ size \in Nat
  BY <1>3, <1>4, <1>5, PageAssumption DEF LiveInv, MemoryInv, Option
<1>8. PICK base \in Address : memory' = {[mem EXCEPT !.base = base, !.pages = @ + more]}
  BY <1>2
<1> DEFINE new == [mem EXCEPT !.base = base, !.pages = @ + more]
<1>9. /\ new \in [base : Address \union {Null}, pages : Nat, bytesPerPage : Nat]
      /\ new.base = base /\ new.pages = mem.pages + more /\ new.bytesPerPage = PageSize
  <2>1. mem.pages + more \in Nat
    BY <1>7, PageAssumption
  <2>2. QED
    BY <1>7, <2>1
<1>10. (mem.pages + more) * PageSize = (size + more) * PageSize
  <2>1. mem.pages \in Nat /\ size \in Nat /\ more \in Nat /\ PageSize \in Nat
    BY <1>7, PageAssumption
  <2>2. mem.pages * PageSize = size * PageSize
    BY <1>7
  <2>3. QED
    BY <2>1, <2>2, MoreOf
<1>11. MemoryInv'
  <2>1. size' \in 0 .. MaxPages
    BY <1>2, <1>7, PageAssumption
  <2>2. new.pages * new.bytesPerPage = size' * PageSize /\ new.base # Null
    BY <1>2, <1>9, <1>10, AddressAssumption
  <2>3. d.type.minimum <= size' /\ \A n \in d.type.maximum : size' <= n
    BY <1>2, <1>5, <1>6, <1>7
  <2> HIDE DEF new
  <2>4. memory' = {new}
    BY <1>8 DEF new
  <2>5. memory' \in Option([base : Address \union {Null}, pages : Nat, bytesPerPage : Nat])
    BY <1>9, <2>4 DEF Option
  <2>6. memories \subseteq m.memory_type
    BY DEF LiveInv, MemoryInv
  <2>7. QED
    BY <1>1, <1>3, <1>6, <1>9, <2>1, <2>2, <2>3, <2>4, <2>5, <2>6 DEF MemoryInv
<1>12. ModuleInv'
  BY <1>1, <1>4 DEF LiveInv, ModuleInv
<1>13. ViewsInv'
  <2>1. \A v \in views' :
          /\ v \in [base : Address \union {Empty}, len : Nat, grown : BOOLEAN]
          /\ v.grown = TRUE
    BY <1>1 DEF LiveInv, ViewsInv
  <2>2. QED
    BY <2>1 DEF ViewsInv
<1>14. GlobalsInv'
  BY <1>1 DEF LiveInv, GlobalsInv
<1>15. QED
  BY <1>11, <1>12, <1>13, <1>14 DEF LiveInv

(* The value that a global is given is the value it has then.              *)
LEMMA StoreStep ==
  ASSUME LiveInv, running, NEW m \in module, NEW k \in Numeric(m.globals),
         NEW val \in Val, val.ty = m.globals[k].kind,
         cells' = Write(cells, val, Offset(m.globals, k)), values' = Now({k}, val),
         UNCHANGED <<module, running, memory, memories, globals, views, size>>
  PROVE  LiveInv'
<1>1. module = {m} /\ m \in Module /\ m.globals \in Seq(GlobalDecl)
  BY TheModule, ModuleFacts DEF LiveInv
<1>2. /\ cells \in [Cells(m.globals) -> Cell] /\ DOMAIN values = Numeric(m.globals)
      /\ \A j \in Numeric(m.globals) :
           Read(cells, m.globals[j].kind, Offset(m.globals, j)) = values[j]
  BY DEF LiveInv, GlobalsInv
<1>3. /\ cells' \in [Cells(m.globals) -> Cell]
      /\ \A j \in Numeric(m.globals) :
           Read(cells', m.globals[j].kind, Offset(m.globals, j)) =
             IF j = k THEN val ELSE Read(cells, m.globals[j].kind, Offset(m.globals, j))
  BY <1>1, <1>2, WriteOne
<1>4. DOMAIN values' = Numeric(m.globals)
      /\ \A j \in Numeric(m.globals) : values'[j] = IF j = k THEN val ELSE values[j]
  BY <1>2 DEF Now
<1>5. \A h \in globals : \E j \in Numeric(m.globals) :
        /\ h.data = Offset(m.globals, j) /\ h.content = m.globals[j].kind
        /\ h.mutability = IF m.globals[j].mutable THEN "Mutable" ELSE "Const"
  BY DEF LiveInv, GlobalsInv
<1>6. \A j \in Numeric(m.globals) :
        Read(cells', m.globals[j].kind, Offset(m.globals, j)) = values'[j]
  BY <1>2, <1>3, <1>4
<1>7. GlobalsInv'
  <2>1. module' = {m} /\ globals' = globals
    BY <1>1
  <2>2. SUFFICES
          /\ cells' \in [Cells(m.globals) -> Cell]
          /\ DOMAIN values' = Numeric(m.globals)
          /\ \A j \in Numeric(m.globals) :
               Read(cells', m.globals[j].kind, Offset(m.globals, j)) = values'[j]
          /\ \A h \in globals : \E j \in Numeric(m.globals) :
               /\ h.data = Offset(m.globals, j) /\ h.content = m.globals[j].kind
               /\ h.mutability = IF m.globals[j].mutable THEN "Mutable" ELSE "Const"
    BY <2>1, Zenon DEF GlobalsInv
  <2>3. QED
    BY <1>3, <1>4, <1>5, <1>6
<1>8. QED
  BY <1>7 DEF LiveInv, ModuleInv, MemoryInv, ViewsInv

(* A handle is a handle of exactly one global.                             *)
LEMMA HandleOfOne ==
  ASSUME LiveInv, NEW m \in module, NEW h \in globals
  PROVE  /\ running
         /\ \E k \in Numeric(m.globals) :
              /\ GlobalOf(m, h) = {k} /\ h.data = Offset(m.globals, k)
              /\ h.content = m.globals[k].kind
              /\ h.mutability = IF m.globals[k].mutable THEN "Mutable" ELSE "Const"
<1>1. running
  BY DEF LiveInv, ModuleInv
<1>2. m.globals \in Seq(GlobalDecl)
  BY TheModule, ModuleFacts DEF LiveInv
<1>3. PICK k \in Numeric(m.globals) :
        /\ h.data = Offset(m.globals, k) /\ h.content = m.globals[k].kind
        /\ h.mutability = IF m.globals[k].mutable THEN "Mutable" ELSE "Const"
  BY <1>1 DEF LiveInv, GlobalsInv
<1>4. GlobalOf(m, h) = {k}
  BY <1>2, <1>3, PlaceDetermines DEF GlobalOf
<1>5. QED
  BY <1>1, <1>3, <1>4

LEMMA SetStep ==
  ASSUME LiveInv, NEW h \in globals, NEW val \in Val, Set(h, val)
  PROVE  LiveInv'
<1>1. UNCHANGED <<module, running, memory, memories, globals, views, size>>
  BY DEF Set
<1>2. PICK m \in module :
        \/ UNCHANGED <<cells, values>>
        \/ val.ty = h.content /\ Store(m, h, val)
  BY DEF Set
<1>3. CASE UNCHANGED <<cells, values>>
  BY <1>1, <1>3 DEF LiveInv, ModuleInv, MemoryInv, ViewsInv, GlobalsInv
<1>4. CASE val.ty = h.content /\ Store(m, h, val)
  <2>1. PICK k \in Numeric(m.globals) :
          /\ GlobalOf(m, h) = {k} /\ h.data = Offset(m.globals, k)
          /\ h.content = m.globals[k].kind
    BY HandleOfOne
  <2>2. running /\ val.ty = m.globals[k].kind
        /\ cells' = Write(cells, val, Offset(m.globals, k)) /\ values' = Now({k}, val)
    BY <1>4, <2>1, HandleOfOne DEF Store
  <2>3. QED
    BY <1>1, <2>2, StoreStep
<1>5. QED
  BY <1>2, <1>3, <1>4

LEMMA WasmSetsStep ==
  ASSUME LiveInv, NEW k, NEW val \in Val, WasmSets(k, val)
  PROVE  LiveInv'
<1>1. UNCHANGED <<module, running, memory, memories, globals, views, size>>
      /\ values' = Now({k}, val)
  BY DEF WasmSets
<1>2. PICK m \in module :
        /\ Of(m) /\ k \in Numeric(m.globals)
        /\ m.globals[k].kind = val.ty
        /\ cells' = Write(cells, val, Offset(m.globals, k))
  BY DEF WasmSets
<1>3. QED
  BY <1>1, <1>2, StoreStep DEF Of

LEMMA LiveInvStep ==
  LiveInv /\ [LiveNext \/ \E m \in Module : Load(m)]_liveVars => LiveInv'
<1> SUFFICES ASSUME LiveInv, [LiveNext \/ \E m \in Module : Load(m)]_liveVars
             PROVE  LiveInv'
  OBVIOUS
<1>1. CASE UNCHANGED liveVars
  BY <1>1 DEF liveVars, LiveInv, ModuleInv, MemoryInv, ViewsInv, GlobalsInv
<1>2. CASE \E m \in Module : Load(m)
  BY <1>2, LoadStep
<1>3. CASE LiveNext
  BY <1>3, InstantiateStep, LookupStep, GetGlobalStep, DataStep, WasmGrowsStep, SetStep,
     WasmSetsStep DEF LiveNext
<1>4. QED
  BY <1>1, <1>2, <1>3

-----------------------------------------------------------------------------
(* Theorems                                                                *)

(* Types, the sizes of the memory, the views and the places of the handles *)
(* in every reachable state.                                               *)
THEOREM LiveInvariant == LiveSpec => []LiveInv
BY LiveInvInit, LiveInvStep, PTL DEF LiveSpec

(* The size that Memory computes from WAMR's two counts is the size that   *)
(* Wasm sees, within the declared limits, whatever was folded or grown     *)
(* (memory.rs:45-60).                                                      *)
THEOREM SizeAlwaysAgrees == LiveSpec => []SizeAgrees
<1>1. LiveInv => SizeAgrees
  <2>1. SUFFICES ASSUME LiveInv PROVE SizeAgrees
    OBVIOUS
  <2>2. \A mem \in memory : pages_of(mem) = size /\ byte_len(mem) = size * PageSize
    BY <2>1, ByteLen
  <2>3. ASSUME NEW t \in memories
        PROVE  t.minimum <= size /\ \A n \in t.maximum : size <= n
    <3>1. PICK m \in module : module = {m} /\ m \in Module /\ running
      BY <2>1, <2>3, TheModule DEF LiveInv, ModuleInv
    <3>2. t \in m.memory_type
      BY <2>1, <2>3, <3>1 DEF LiveInv, MemoryInv
    <3>3. PICK d \in m.memory : t = d.type
      BY <3>1, <3>2, ModuleFacts
    <3>4. QED
      BY <2>1, <3>1, <3>3 DEF LiveInv, MemoryInv
  <2>4. QED
    BY <2>2, <2>3 DEF SizeAgrees
<1>2. QED
  BY <1>1, LiveInvariant, PTL

(* A slice is exactly the memory until it grows, and never null            *)
(* (memory.rs:62-89).                                                      *)
THEOREM ViewsAlwaysExact == LiveSpec => []ViewsExact
<1>1. LiveInv => ViewsExact
  <2>1. SUFFICES ASSUME LiveInv, NEW v \in views
                 PROVE  v.base # Null
    BY DEF LiveInv, ViewsInv, ViewsExact
  <2>2. v.base \in Address \union {Empty}
    BY <2>1 DEF LiveInv, ViewsInv
  <2>3. QED
    BY <2>2, AddressAssumption
<1>2. QED
  BY <1>1, LiveInvariant, PTL

(* A handle reads what its global holds in Wasm, and no write disturbs a   *)
(* neighbour, for any layout of narrow and wide globals (global.rs:40-83). *)
THEOREM GlobalsAlwaysHold == LiveSpec => []GlobalsHold
<1>1. LiveInv => GlobalsHold
  <2>1. SUFFICES ASSUME LiveInv, NEW m \in module
                 PROVE  /\ running => \A k \in Numeric(m.globals) :
                             Read(cells, m.globals[k].kind, Offset(m.globals, k)) = values[k]
                        /\ \A h \in globals : GlobalOf(m, h) # {}
                                              /\ \A k \in GlobalOf(m, h) : get(h) = values[k]
    BY DEF GlobalsHold
  <2>2. running => \A k \in Numeric(m.globals) :
          Read(cells, m.globals[k].kind, Offset(m.globals, k)) = values[k]
    BY <2>1 DEF LiveInv, GlobalsInv
  <2>3. ASSUME NEW h \in globals
        PROVE  GlobalOf(m, h) # {} /\ \A k \in GlobalOf(m, h) : get(h) = values[k]
    <3>1. running
      BY <2>1, <2>3, HandleOfOne
    <3>2. PICK k \in Numeric(m.globals) :
            /\ GlobalOf(m, h) = {k} /\ h.data = Offset(m.globals, k)
            /\ h.content = m.globals[k].kind
      BY <2>1, <2>3, HandleOfOne
    <3>3. QED
      BY <2>2, <3>1, <3>2 DEF get
  <2>4. QED
    BY <2>2, <2>3
<1>2. QED
  BY <1>1, LiveInvariant, PTL

(* A const global is never written, by a handle or a neighbour's handle    *)
(* (global.rs:61-63).                                                      *)
THEOREM ConstGlobalsStay == LiveSpec => ConstStays
<1> DEFINE Stay ==
      running => \A m \in module : \A k \in Numeric(m.globals) :
        ~m.globals[k].mutable =>
          LET at == Offset(m.globals, k) ty == m.globals[k].kind
          IN  Read(cells', ty, at) = Read(cells, ty, at)
<1>1. LiveInv /\ [LiveNext \/ \E m \in Module : Load(m)]_liveVars => [Stay]_liveVars
  <2>1. SUFFICES ASSUME LiveInv, LiveNext \/ \E m \in Module : Load(m), running,
                        NEW m \in module, NEW k \in Numeric(m.globals), ~m.globals[k].mutable
                 PROVE  Read(cells', m.globals[k].kind, Offset(m.globals, k)) =
                          Read(cells, m.globals[k].kind, Offset(m.globals, k))
    OBVIOUS
  <2>2. m.globals \in Seq(GlobalDecl) /\ cells \in [Cells(m.globals) -> Cell] /\ module = {m}
    BY <2>1, TheModule, ModuleFacts DEF LiveInv, GlobalsInv
  <2>3. ASSUME NEW j \in Numeric(m.globals), m.globals[j].mutable, NEW val \in Val,
               val.ty = m.globals[j].kind, cells' = Write(cells, val, Offset(m.globals, j))
        PROVE  Read(cells', m.globals[k].kind, Offset(m.globals, k)) =
                 Read(cells, m.globals[k].kind, Offset(m.globals, k))
    BY <2>1, <2>2, <2>3, WriteOne
  <2>4. CASE cells' = cells
    BY <2>4
  <2>5. ASSUME NEW h \in globals, NEW val \in Val, Set(h, val), cells' # cells
        PROVE  Read(cells', m.globals[k].kind, Offset(m.globals, k)) =
                 Read(cells, m.globals[k].kind, Offset(m.globals, k))
    <3>1. h.mutability # "Const" /\ val.ty = h.content /\ cells' = Write(cells, val, h.data)
      BY <2>5 DEF Set, Store
    <3>2. PICK j \in Numeric(m.globals) :
            /\ h.data = Offset(m.globals, j) /\ h.content = m.globals[j].kind
            /\ h.mutability = IF m.globals[j].mutable THEN "Mutable" ELSE "Const"
      BY <2>1, HandleOfOne
    <3>3. QED
      BY <2>3, <3>1, <3>2
  <2>6. ASSUME NEW j, NEW val \in Val, WasmSets(j, val)
        PROVE  Read(cells', m.globals[k].kind, Offset(m.globals, k)) =
                 Read(cells, m.globals[k].kind, Offset(m.globals, k))
    BY <2>2, <2>3, <2>6 DEF WasmSets
  <2>7. ~Instantiate
    BY <2>1 DEF Instantiate
  <2>8. ASSUME NEW n, get_func(n) \/ get_global(n) \/ get_memory(n)
        PROVE  cells' = cells
    BY <2>8 DEF get_func, get_global, get_memory
  <2>9. (Data \/ WasmGrows \/ \E x \in Module : Load(x)) => cells' = cells
    BY DEF Data, WasmGrows, Load
  <2>10. QED
    BY <2>1, <2>4, <2>5, <2>6, <2>7, <2>8, <2>9 DEF LiveNext
<1>2. QED
  BY <1>1, LiveInvariant, PTL DEF LiveSpec, ConstStays

(* Every handle that a lookup returns is of what is exported under the     *)
(* name, and a memory that the module defines and exports is found         *)
(* (instance.rs:86-135).  Nothing is asked before there is an instance.    *)
THEOREM FoundAlwaysExported == LiveSpec => []FoundIsExported
<1> DEFINE Quiet == ~running => answer = NoAnswer
           LInv == FoundIsExported /\ Quiet
<1>1. LiveInit => LInv
  BY DEF LiveInit, FoundIsExported, NoAnswer
<1>2. LiveInv /\ LiveInv' /\ LInv /\ [LiveNext \/ \E m \in Module : Load(m)]_liveVars => LInv'
  <2>1. SUFFICES ASSUME LiveInv, LiveInv', LInv, [LiveNext \/ \E m \in Module : Load(m)]_liveVars
                 PROVE  LInv'
    OBVIOUS
  <2>2. answer'.asked \notin {"global", "memory"} => FoundIsExported'
    BY DEF FoundIsExported
  <2>3. NoAnswer.asked \notin {"global", "memory"}
    BY DEF NoAnswer
  <2>4. CASE UNCHANGED liveVars
    BY <2>1, <2>4 DEF liveVars, FoundIsExported, get
  <2>5. ASSUME NEW m \in Module, Load(m)
        PROVE  LInv'
    <3>1. ~running /\ running' = running /\ answer' = answer
      BY <2>1, <2>5 DEF Load, LiveInv, ModuleInv
    <3>2. QED
      BY <2>1, <2>2, <2>3, <3>1
  <2>6. CASE Instantiate
    <3>1. ~running /\ running' = TRUE /\ answer' = answer
      BY <2>6 DEF Instantiate
    <3>2. QED
      BY <2>1, <2>2, <2>3, <3>1
  <2>7. CASE Data \/ WasmGrows
    <3>1. running /\ running' = running /\ answer' = NoAnswer
      BY <2>1, <2>7 DEF Data, WasmGrows, LiveInv, ModuleInv
    <3>2. QED
      BY <2>2, <2>3, <3>1
  <2>8. ASSUME NEW h \in globals, NEW val \in Val, Set(h, val)
        PROVE  LInv'
    <3>1. PICK res \in {"GlobalImmutable", "TypeMismatch", "Ok"} :
            answer' = [asked |-> "set", name |-> "", res |-> res, found |-> {}]
      BY <2>8 DEF Set, Answer
    <3>2. running /\ running' = running
      <4>1. running' = running
        BY <2>8 DEF Set
      <4>2. globals # {} => running
        BY <2>1 DEF LiveInv, ModuleInv
      <4>3. QED
        BY <2>8, <4>1, <4>2
    <3>3. answer'.asked = "set"
      BY <3>1
    <3>4. QED
      BY <2>2, <3>2, <3>3
  <2>9. ASSUME NEW k, NEW val \in Val, WasmSets(k, val)
        PROVE  LInv'
    <3>1. running /\ running' = running /\ answer' = NoAnswer
      BY <2>9 DEF WasmSets, Of
    <3>2. QED
      BY <2>2, <2>3, <3>1
  <2>10. ASSUME NEW n \in Name, get_func(n) \/ get_global(n) \/ get_memory(n)
         PROVE  LInv'
    <3>1. PICK m \in module : running /\ running' = running /\ module' = module
      BY <2>10 DEF get_func, get_global, get_memory, Of
    <3>2. module = {m} /\ m \in Module /\ module' = {m}
      BY <2>1, <3>1, TheModule DEF LiveInv
    <3>3. \A kind : \A x, y \in Exported(m, kind, n) : x = y
      BY <3>2, ModuleFacts DEF Exported
    <3> DEFINE exported(kind) == Exported(m, kind, n)
               Exact(a) ==
                 /\ a.asked = "global" =>
                      \A h \in a.found : \E k \in exported("global") :
                        Read(cells', h.content, h.data) = values'[k]
                 /\ a.asked = "memory" =>
                      /\ a.found # {} =>
                           exported("memory") # {} /\ a.found = {d.type : d \in m.memory}
                      /\ a.found = {} /\ exported("memory") # {} => \A d \in m.memory : d.imported
    <3>4. answer'.name = n /\ Exact(answer') => LInv'
      BY <3>1, <3>2 DEF FoundIsExported, get
    <3>5. CASE get_func(n)
      <4>1. answer'.asked = "func"
        BY <3>2, <3>5 DEF get_func, Answer
      <4>2. QED
        BY <2>2, <3>1, <4>1
    <3>6. CASE get_global(n)
      <4>1. answer'.name = n /\ answer'.asked = "global"
        BY <3>2, <3>6 DEF get_global, Answer
      <4>2. \A h \in answer'.found : \E k \in exported("global") :
              /\ h.content = m.globals[k].kind /\ h.data = Offset(m.globals, k)
              /\ k \in Numeric(m.globals)
        <5>1. \A k \in exported("global") : k \in DOMAIN m.globals
          BY <3>2, ModuleFacts DEF Exported
        <5>2. answer'.found = {} \/ \E k \in exported("global") : answer'.found = Handles(m, k)
          BY <3>2, <3>6 DEF get_global, Answer
        <5>3. \A k : \A h \in Handles(m, k) :
                /\ h.content = m.globals[k].kind /\ h.data = Offset(m.globals, k)
                /\ m.globals[k].kind \in ValType
          BY DEF Handles, from_valkind
        <5>4. QED
          BY <5>1, <5>2, <5>3 DEF Numeric
      <4>3. \A k \in Numeric(m.globals) :
              Read(cells', m.globals[k].kind, Offset(m.globals, k)) = values'[k]
        BY <2>1, <3>1, <3>2 DEF LiveInv, GlobalsInv
      <4>4. QED
        BY <3>4, <4>1, <4>2, <4>3
    <3>7. CASE get_memory(n)
      <4>1. answer' = IF has_exported_memory(m, n) /\ memory # {} /\ m.memory_type # {}
                      THEN [asked |-> "memory", name |-> n, res |-> "Ok", found |-> m.memory_type]
                      ELSE [asked |-> "memory", name |-> n, res |-> "MemoryNotFound", found |-> {}]
        BY <3>2, <3>7 DEF get_memory, Answer
      <4>2. has_exported_memory(m, n) => memory # {}
        <5>1. has_exported_memory(m, n) => m.memory # {}
          BY <3>2, ModuleFacts DEF has_exported_memory, Exported
        <5>2. memory = {} <=> m.memory = {}
          BY <2>1, <3>1, <3>2 DEF LiveInv, MemoryInv
        <5>3. QED
          BY <5>1, <5>2
      <4>3. /\ m.memory_type = {d.type : d \in {e \in m.memory : ~e.imported}}
            /\ \A d, e \in m.memory : d = e
        BY <3>2, ModuleFacts DEF Option
      <4>4. /\ m.memory_type # {} => m.memory_type = {d.type : d \in m.memory}
            /\ m.memory_type = {} => \A d \in m.memory : d.imported
        BY <4>3
      <4>5. answer'.name = n /\ Exact(answer')
        BY <4>1, <4>2, <4>4 DEF has_exported_memory
      <4>6. QED
        BY <3>4, <4>5
    <3>8. QED
      BY <2>10, <3>5, <3>6, <3>7
  <2>11. QED
    BY <2>1, <2>4, <2>5, <2>6, <2>7, <2>8, <2>9, <2>10 DEF LiveNext
<1>3. QED
  BY <1>1, <1>2, LiveInvariant, PTL DEF LiveSpec

=============================================================================
