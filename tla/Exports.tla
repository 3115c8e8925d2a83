------------------------------- MODULE Exports -------------------------------
(***************************************************************************)
(* What an instance hands out (src/crates/wamrx/src/instance.rs): the      *)
(* lookups of exported functions, globals and memories, and the handles    *)
(* they return, Memory (memory.rs) and Global (global.rs), which read and  *)
(* write, through raw pointers, storage that Wasm changes between any two  *)
(* uses of them.  One thread, one instance.                                *)
(*                                                                         *)
(* WAMR is external: how it lays out the memory and the globals, what it   *)
(* looks up, and that it may move the memory when it grows.                *)
(***************************************************************************)
EXTENDS Value, FiniteSets

CONSTANTS
  Name,        (* names of exports; one with a NUL byte is refused with the *)
               (* answer for a name that nothing has                        *)
  Address,     (* where WAMR may put a memory                               *)
  Null, Empty, (* the null pointer, and where the slice &[] points          *)
  PageSize,    (* WASM_PAGE_SIZE, 65536 in the code                         *)
  Usize,       (* number of values of usize: 2^64, or 2^32                  *)
  U64Max,      (* u64::MAX                                                  *)
  MaxPages     (* bound: pages a memory may have                            *)

(* A wide global takes two cells of 4 bytes, the others one.               *)
ASSUME CellAssumption == Wide = 2 * Narrow * Narrow
(* Memories fit in the address space.                                      *)
ASSUME PageAssumption ==
  /\ PageSize \in Nat \ {0} /\ MaxPages \in Nat /\ Usize \in Nat /\ U64Max \in Nat
  /\ MaxPages * PageSize < Usize /\ MaxPages * PageSize <= U64Max
ASSUME AddressAssumption == Null \notin Address \union {Empty}

VARIABLES
  module,      (* the module that was loaded, as a set of at most one       *)
  running,     (* the instance was made                                     *)
  memory,      (* external: WAMR's memory instance, as a set of at most one *)
  cells,       (* external: the storage of the globals                      *)
  memories,    (* Memory handles: the types they captured                   *)
  globals,     (* Global handles                                            *)
  views,       (* slices of the memory that the program holds               *)
  answer,      (* history: what the last step returned                      *)
  size,        (* history: what memory.size says in Wasm                    *)
  values       (* history: the values of the numeric globals in Wasm        *)

liveVars ==
  <<module, running, memory, cells, memories, globals, views, answer, size, values>>

Option(S) == {s \in SUBSET S : \A x, y \in s : x = y}

(* The memory of a module, whose code may grow it or not.  One that is     *)
(* imported is not in the memory section, where memory_type comes from.    *)
MemoryTypes == [minimum : Nat, maximum : Option(Nat)]
WasmMemory == [type : MemoryTypes, imported : BOOLEAN, grows : BOOLEAN]
GlobalDecl == [kind : Kind, mutable : BOOLEAN]
Export == [kind : {"func", "global", "memory"}, index : Nat]

(* Modules that WAMR loads; names of exports are unique.                   *)
Module ==
  {m \in [exports : [Name -> Option(Export)], globals : Seq(GlobalDecl),
          memory : Option(WasmMemory), memory_type : Option(MemoryTypes)] :
     /\ \A d \in m.memory : \A n \in d.type.maximum : d.type.minimum <= n
     /\ m.memory_type = {d.type : d \in {e \in m.memory : ~e.imported}}
     /\ \A n \in Name : \A e \in m.exports[n] :
          /\ e.kind = "global" => e.index \in DOMAIN m.globals
          /\ e.kind = "memory" => m.memory # {}}

NoAnswer == [asked |-> "nothing", name |-> "", res |-> "none", found |-> {}]

-----------------------------------------------------------------------------
(* Storage of globals                                                      *)

IsWide(kind) == kind \in {"i64", "f64"}
Cell == 0 .. 2 * Narrow - 1

(* Where the k-th global starts: they are packed.                          *)
Offset(decls, k) == k + Cardinality({j \in 1 .. k - 1 : IsWide(decls[j].kind)})
Cells(decls) == 1 .. Offset(decls, Len(decls) + 1) - 1

Numeric(decls) == {k \in DOMAIN decls : decls[k].kind \in ValType}

(* Unaligned reads and writes of a value of a type.                        *)
Read(store, ty, at) ==
  LET bits == IF IsWide(ty) THEN store[at] + 2 * Narrow * store[at + 1] ELSE store[at]
  IN  [ty |-> ty, v |-> IF ty \in {"i32", "i64"} THEN Sign(bits, Half(ty)) ELSE bits]

Write(store, val, at) ==
  LET bits == Unsign(val.v, Half(val.ty))
  IN  [c \in DOMAIN store |->
         CASE c = at -> bits % (2 * Narrow)
           [] c = at + 1 /\ IsWide(val.ty) -> bits \div (2 * Narrow)
           [] OTHER -> store[c]]

-----------------------------------------------------------------------------
LiveInit ==
  /\ module = {} /\ running = FALSE /\ memory = {} /\ cells = <<>>
  /\ memories = {} /\ globals = {} /\ views = {}
  /\ answer = NoAnswer /\ size = 0 /\ values = <<>>

Load(m) ==
  /\ module = {} /\ module' = {m}
  /\ UNCHANGED <<running, memory, cells, memories, globals, views, answer, size, values>>

(* External: wasm_runtime_instantiate lays out the memory.  One that never *)
(* grows may be folded into one page; one of no bytes may have no address. *)
Layouts(d) ==
  LET n == d.type.minimum
  IN  {l \in [base : Address \union {Null}, pages : {n, 1}, bytesPerPage : {PageSize, n * PageSize}] :
         /\ n # 0 => l.base # Null
         /\ \/ l.pages = n /\ l.bytesPerPage = PageSize
            \/ l.pages = 1 /\ l.bytesPerPage = n * PageSize /\ n # 0 /\ ~d.grows}

Instantiate ==
  /\ ~running
  /\ \E m \in module :
       /\ \A d \in m.memory : d.type.minimum <= MaxPages
       /\ running' = TRUE
       /\ memory' \in {{}} \union {{l} : l \in UNION {Layouts(d) : d \in m.memory}}
       /\ memory' = {} <=> m.memory = {}
       /\ size' \in {0} \union {d.type.minimum : d \in m.memory}
       /\ \A d \in m.memory : size' = d.type.minimum
       /\ cells' \in [Cells(m.globals) -> Cell]
       /\ values' = [k \in Numeric(m.globals) |->
                       Read(cells', m.globals[k].kind, Offset(m.globals, k))]
  /\ UNCHANGED <<module, memories, globals, views, answer>>

(* The instance is there, and m is its module.                             *)
Of(m) == running /\ m \in module

-----------------------------------------------------------------------------
(* Lookups                                                                 *)

(* The indices that the module exports under the name and as that kind.    *)
Exported(m, kind, n) == {e.index : e \in {x \in m.exports[n] : x.kind = kind}}

Answer(asked, n, res, found) ==
  answer' = [asked |-> asked, name |-> n, res |-> res, found |-> found]

get_func(n) ==
  /\ \E m \in module :
       /\ Of(m)
       /\ IF Exported(m, "func", n) # {}
          THEN Answer("func", n, "Ok", Exported(m, "func", n))
          ELSE Answer("func", n, "FuncNotFound", {})
  /\ UNCHANGED <<module, running, memory, cells, memories, globals, views, size, values>>

(* The handle of global k, if it is numeric.                               *)
Handles(m, k) ==
  {[content |-> content, data |-> Offset(m.globals, k),
    mutability |-> IF m.globals[k].mutable THEN "Mutable" ELSE "Const"] :
   content \in from_valkind(m.globals[k].kind)}

get_global(n) ==
  /\ \E m \in module :
       /\ Of(m)
       /\ \/ /\ Exported(m, "global", n) = {}
             /\ Answer("global", n, "GlobalNotFound", {}) /\ UNCHANGED globals
          \/ \E k \in Exported(m, "global", n) :
               /\ Answer("global", n,
                         IF Handles(m, k) = {} THEN "UnsupportedType" ELSE "Ok", Handles(m, k))
               /\ globals' = globals \union Handles(m, k)
  /\ UNCHANGED <<module, running, memory, cells, memories, views, size, values>>

has_exported_memory(m, n) == Exported(m, "memory", n) # {}

(* Mutant: the name is left to WAMR, which ignores it.                     *)
get_memory_any(n) ==
  /\ \E m \in module :
       /\ Of(m)
       /\ IF memory # {} /\ m.memory_type # {}
          THEN Answer("memory", n, "Ok", m.memory_type) /\ memories' = memories \union m.memory_type
          ELSE Answer("memory", n, "MemoryNotFound", {}) /\ UNCHANGED memories
  /\ UNCHANGED <<module, running, memory, cells, globals, views, size, values>>

(* wasm_runtime_lookup_memory returns the only memory, whatever its name;  *)
(* the type is that of the memory section, which the module may not have.  *)
get_memory(n) ==
  /\ \E m \in module :
       /\ Of(m)
       /\ IF has_exported_memory(m, n) /\ memory # {} /\ m.memory_type # {}
          THEN Answer("memory", n, "Ok", m.memory_type) /\ memories' = memories \union m.memory_type
          ELSE Answer("memory", n, "MemoryNotFound", {}) /\ UNCHANGED memories
  /\ UNCHANGED <<module, running, memory, cells, globals, views, size, values>>

-----------------------------------------------------------------------------
(* Memory                                                                  *)

(* Mutant: WAMR's count is taken for pages of Wasm.                        *)
byte_len_pages(mem) == (mem.pages * PageSize) % Usize

(* saturating_mul, as usize.                                               *)
byte_len(mem) ==
  LET product == mem.pages * mem.bytesPerPage
  IN  (IF product > U64Max THEN U64Max ELSE product) % Usize

pages_of(mem) == byte_len(mem) \div PageSize

View(base, len) == [base |-> base, len |-> len, grown |-> FALSE]

(* Mutant: a null base makes a slice, too.                                 *)
slice_unchecked(mem) == View(mem.base, byte_len(mem))

(* What data and data_mut return.                                          *)
slice(mem) == IF mem.base = Null THEN View(Empty, 0) ELSE View(mem.base, byte_len(mem))

Data ==
  /\ memories # {}
  /\ \E mem \in memory : views' = views \union {slice(mem)}
  /\ answer' = NoAnswer
  /\ UNCHANGED <<module, running, memory, cells, memories, globals, size, values>>

(* External: Wasm grows the memory, in place or to another place.          *)
WasmGrows ==
  /\ \E m \in module, mem \in memory, more \in 1 .. MaxPages :
       /\ \E d \in m.memory : d.grows /\ \A n \in d.type.maximum : size + more <= n
       /\ size + more <= MaxPages
       /\ size' = size + more
       /\ \E base \in Address :
            memory' = {[mem EXCEPT !.base = base, !.pages = @ + more]}
  /\ views' = {[v EXCEPT !.grown = TRUE] : v \in views}
  /\ answer' = NoAnswer
  /\ UNCHANGED <<module, running, cells, memories, globals, values>>

-----------------------------------------------------------------------------
(* Global                                                                  *)

get(h) == Read(cells, h.content, h.data)

(* The global of which h is a handle.                                      *)
GlobalOf(m, h) == {k \in Numeric(m.globals) : Offset(m.globals, k) = h.data}

(* Wasm, or a set that is Ok, gives the globals ks a value.                *)
Now(ks, val) == [k \in DOMAIN values |-> IF k \in ks THEN val ELSE values[k]]

Store(m, h, val) ==
  /\ cells' = Write(cells, val, h.data)
  /\ values' = Now(GlobalOf(m, h), val)

(* Mutant: the type of the value is not looked at.                         *)
SetUntyped(h, val) ==
  /\ h \in globals
  /\ \E m \in module :
       IF h.mutability = "Const"
       THEN Answer("set", "", "GlobalImmutable", {}) /\ UNCHANGED <<cells, values>>
       ELSE Answer("set", "", "Ok", {}) /\ Store(m, h, val)
  /\ UNCHANGED <<module, running, memory, memories, globals, views, size>>

(* Mutant: a const global is written.                                      *)
SetAny(h, val) ==
  /\ h \in globals
  /\ \E m \in module :
       IF val.ty # h.content
       THEN Answer("set", "", "TypeMismatch", {}) /\ UNCHANGED <<cells, values>>
       ELSE Answer("set", "", "Ok", {}) /\ Store(m, h, val)
  /\ UNCHANGED <<module, running, memory, memories, globals, views, size>>

Set(h, val) ==
  /\ h \in globals
  /\ \E m \in module :
       IF h.mutability = "Const"
       THEN Answer("set", "", "GlobalImmutable", {}) /\ UNCHANGED <<cells, values>>
       ELSE IF val.ty # h.content
       THEN Answer("set", "", "TypeMismatch", {}) /\ UNCHANGED <<cells, values>>
       ELSE Answer("set", "", "Ok", {}) /\ Store(m, h, val)
  /\ UNCHANGED <<module, running, memory, memories, globals, views, size>>

(* External: Wasm sets a mutable global.                                   *)
WasmSets(k, val) ==
  /\ \E m \in module :
       /\ Of(m) /\ k \in Numeric(m.globals)
       /\ m.globals[k].mutable /\ m.globals[k].kind = val.ty
       /\ cells' = Write(cells, val, Offset(m.globals, k))
  /\ values' = Now({k}, val)
  /\ answer' = NoAnswer
  /\ UNCHANGED <<module, running, memory, memories, globals, views, size>>

-----------------------------------------------------------------------------
LiveNext ==
  \/ Instantiate
  \/ \E n \in Name : get_func(n) \/ get_global(n) \/ get_memory(n)
  \/ Data \/ WasmGrows
  \/ \E h \in globals, val \in Val : Set(h, val)
  \/ \E k \in DOMAIN values, val \in Val : WasmSets(k, val)

(* Any module may be loaded.                                               *)
LiveSpec == LiveInit /\ [][LiveNext \/ \E m \in Module : Load(m)]_liveVars

-----------------------------------------------------------------------------
(* Properties                                                              *)

(* The types, and what holds of the memory, the views and the globals after*)
(* every step: WAMR's two counts multiply to the size of the memory, which *)
(* has an address once it has a byte; each handle is at the place, of the  *)
(* type and of the mutability of a numeric global of the module.           *)
ModuleInv ==
  /\ module \in Option(Module) /\ running \in BOOLEAN
  /\ running => module # {}
  /\ ~running => memory = {} /\ memories = {} /\ globals = {} /\ views = {}

MemoryInv ==
  /\ size \in 0 .. MaxPages
  /\ memory \in Option([base : Address \union {Null}, pages : Nat, bytesPerPage : Nat])
  /\ \A mem \in memory :
       /\ mem.pages * mem.bytesPerPage = size * PageSize
       /\ size # 0 => mem.base # Null
       /\ \A m \in module : \A d \in m.memory : d.grows => mem.bytesPerPage = PageSize
  /\ \A m \in module :
       /\ memories \subseteq m.memory_type
       /\ running => (memory = {} <=> m.memory = {})
       /\ running => \A d \in m.memory :
            d.type.minimum <= size /\ \A n \in d.type.maximum : size <= n

ViewsInv ==
  /\ views \subseteq [base : Address \union {Empty}, len : Nat, grown : BOOLEAN]
  /\ \A v \in views : ~v.grown =>
       /\ v.len = size * PageSize
       /\ \A mem \in memory : v.len # 0 => v.base = mem.base

GlobalsInv ==
  running => \A m \in module :
    /\ cells \in [Cells(m.globals) -> Cell]
    /\ DOMAIN values = Numeric(m.globals)
    /\ \A k \in Numeric(m.globals) :
         Read(cells, m.globals[k].kind, Offset(m.globals, k)) = values[k]
    /\ \A h \in globals : \E k \in Numeric(m.globals) :
         /\ h.data = Offset(m.globals, k) /\ h.content = m.globals[k].kind
         /\ h.mutability = IF m.globals[k].mutable THEN "Mutable" ELSE "Const"

LiveInv == ModuleInv /\ MemoryInv /\ ViewsInv /\ GlobalsInv

(* Memory::size is what memory.size says in Wasm, however WAMR counts      *)
(* pages and however often the memory grew, and is within the limits that  *)
(* every handle captured (memory.rs:45-60).                                *)
SizeAgrees ==
  /\ \A mem \in memory : pages_of(mem) = size /\ byte_len(mem) = size * PageSize
  /\ \A t \in memories : t.minimum <= size /\ \A n \in t.maximum : size <= n

(* A slice shows the whole memory and nothing else, where it is, until the *)
(* memory grows; none is made from a null pointer (memory.rs:62-89).       *)
ViewsExact ==
  \A v \in views :
    /\ v.base # Null
    /\ ~v.grown => /\ v.len = size * PageSize
                   /\ \A mem \in memory : v.len # 0 => v.base = mem.base

(* Every handle reads the value its global has in Wasm, whoever wrote it   *)
(* last, and no write disturbs a neighbour (global.rs:40-83).              *)
GlobalsHold ==
  \A m \in module :
    /\ running => \A k \in Numeric(m.globals) :
         Read(cells, m.globals[k].kind, Offset(m.globals, k)) = values[k]
    /\ \A h \in globals : GlobalOf(m, h) # {} /\ \A k \in GlobalOf(m, h) : get(h) = values[k]

(* A const global keeps its value for the life of the instance             *)
(* (global.rs:61-63).                                                      *)
ConstStays ==
  [][running => \A m \in module : \A k \in Numeric(m.globals) :
       ~m.globals[k].mutable =>
         LET at == Offset(m.globals, k) ty == m.globals[k].kind
         IN  Read(cells', ty, at) = Read(cells, ty, at)]_liveVars

(* The handle that a lookup returns is of what the module exports under    *)
(* the name: one of a global reads the value that this global has in Wasm; *)
(* one of a memory is given under a name of the memory only, which WAMR's  *)
(* own lookup ignores, and has the limits from which WAMR made the memory, *)
(* which the scan read elsewhere.  A memory that the module defines and    *)
(* exports is found (instance.rs:86-135).                                  *)
FoundIsExported ==
  \A m \in module :
    LET exported(kind) == Exported(m, kind, answer.name)
    IN  /\ answer.asked = "global" =>
             \A h \in answer.found : \E k \in exported("global") : get(h) = values[k]
        /\ answer.asked = "memory" =>
             /\ answer.found # {} =>
                  exported("memory") # {} /\ answer.found = {d.type : d \in m.memory}
             /\ answer.found = {} /\ exported("memory") # {} => \A d \in m.memory : d.imported

(* instance.rs:112: MemoryNotFound says that no exported memory has the    *)
(* name.                                                                   *)
NotFoundIsNotExported ==
  \A m \in module :
    answer.res = "MemoryNotFound" => Exported(m, "memory", answer.name) = {}

=============================================================================
