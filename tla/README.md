# wamrx in TLA+

`wamrx` is a safe Rust interface to the C runtime WAMR. Its own logic is small
and almost all of it is about order: which C object may be touched while which
Rust object is alive, on which thread, before or after which other call. This
directory models that logic, checks it with TLC and proves parts of it with
TLAPS. Paths below are relative to `src/crates/wamrx/src/`; `build.rs` is that of
`src/crates/wamrx-sys/`.

## 1. Inventory

| Part | State | Operations | Talks to | Correct when | Model |
|---|---|---|---|---|---|
| Engine (`engine.rs`) | `RUNTIME_REFCOUNT` (a mutex around a counter), one `Rc<EngineInner>` per `Engine::new` | `new`, `clone`, drop of the last clone | WAMR `full_init`/`destroy`; every other object holds a clone | counter exact under every race; runtime up for every holder; torn down idle, once, and eventually | `Engine`, `RuntimeLifetime` |
| Thread environment (`thread.rs`) | a thread-local guard | `ensure_thread_env`, drop at thread exit | WAMR's per-thread environment; called by `Instance::new` and `Func::call` | a thread that runs Wasm has its environment | `Engine` |
| Module (`module.rs`) | WAMR handle, bytes, engine clone | `new`, `engine`, move into an instance, drop | WAMR load/unload; binds imports from the registry | unloaded before its bytes and its engine go | `Lifecycle` |
| Memory type parser (`module.rs`) | none: a scan over bytes | `parse_memory_type`, `read_leb_u32` | result kept by the module for `get_memory` | finds what is declared and nothing else; ends | `Leb`, `MemoryType`, `Loaded` |
| Linker (`linker.rs`) | `Rc<LinkerState>`: engine clone, entries | `new`, `define_func`, `instantiate`, drop | WAMR's process-wide registry; shared by instances | entries outlive their registration and the instances made with the linker | `Lifecycle` |
| Trampoline (`linker.rs`) | none of its own | `raw_trampoline` | called by WAMR, calls the closure, records exceptions | values arrive unchanged; a panic becomes a trap of the right call | `Call`, `Value` |
| Instance (`instance.rs`) | instance and exec-env handles, its module, a share of the LinkerState | `new` (two failure paths), drop | WAMR instantiate/deinstantiate, start function | parts torn down in order, also after a failure | `Lifecycle` |
| Func (`func.rs`) | borrows an instance | `call`, `ty` | WAMR `call_wasm_a` | Ok only without a failure; results written only on Ok | `Call` |
| Value (`value.rs`) | none | conversions to slots and to `wasm_val_t`; signature strings | used by Func, Global and the trampoline; WAMR matches imports by the strings | round trips at every width; a string spells its type | `Value` |
| Export lookup (`instance.rs`) | none | `get_func`, `get_global`, `get_memory` | WAMR lookups, `memory_type` of the module | finds what is exported under the name, and as what it is exported | `Exports`, `Loaded` |
| Memory (`memory.rs`) | raw pointer into the instance, declared type | `size`, `data`, `data_mut` | WAMR's two counts and base address; Wasm grows it at any time | size and views match the memory at the time of use | `Exports` |
| Global (`global.rs`) | raw pointer into the instance, type, mutability | `get`, `set` | storage shared with running Wasm and other handles | reads what was written last; writes no neighbour and no constant | `Exports` |
| Build script (`build.rs`) | the output directory: library, bindings, link directives | `main`, `build_wamr`, `generate_bindings` | cargo decides when it runs; CMake and bindgen do the work | what is linked is what is asked for now, from the sources of now | `Build` |
| Config, errors, helpers, example | none at run time | - | - | - | not modelled |

How they interact: ownership (a module, a LinkerState and through them an
instance hold engine clones; an instance holds its module and a share of the
LinkerState), callbacks (Wasm calls host functions, which may use the whole
interface again, nested calls of the same instance included), and two pieces
of state of the whole process: the counter behind the mutex, which is guarded,
and WAMR's registry of host functions, which is not per linker or per thread.

What makes it hard:

- a last drop on one thread races a first `Engine::new` on another;
- drops are chains: dropping one instance can run nine steps, half of them
  written as `Drop`, half only as the order of fields;
- host functions run in the middle of another call and may drop, define and
  instantiate there;
- imports are bound when a module is loaded, but kept alive by what it is
  instantiated with;
- failures on the way: the runtime, the load, the instantiation with its start
  function, the execution environment, traps, panics of a closure;
- storage that Wasm grows, moves and writes behind the handles that Rust holds;
- builds that fail halfway, or whose sources change in the middle.

`PROJECT.json` lists every hazard at its line with the properties that cover it.

## 2. Modules

**`RuntimeLifetime.tla`** is the abstract promise: a set of holders and whether
the runtime is up; it comes up before the first holder, is torn down with none,
and does not stay up for ever with none. It has no mutex, counter or thread.

**`Engine.tla`** is `engine.rs` and `thread.rs` step by step. `lock` and `count`
are `RUNTIME_REFCOUNT`; `rc` and `owner` stand for the `Rc`s; `pc` and `dying`
say where a thread is in `Engine::new` (`newLocked`, `newReady`) or in the drop
(`dropWait`, `dropLocked`, `dropLast`). What happens under the mutex is split,
so that other threads can be anywhere in between. The `SAFETY` comments become
`UpWhileHeld` and `IdleAtTeardown`; `ImplementsLifetime` is the refinement of
`RuntimeLifetime` with `holders <- Holders`, the EngineInners that the counter
stands for. `guard` is the thread-local, `env` what WAMR keeps for the thread.

**`Lifecycle.tla`** puts modules, linkers, instances and host functions on top,
with the runtime as `RuntimeLifetime` (which `Engine` implements), so that all
steps of one engine operation are one step here. Each object has a phase that
names the C call or the field that is dropped next; a thread that is in such a
phase (`Dropping`) or in a start function (`Starting`) does nothing else, all
other threads go on between any two steps. `frames` are the host functions in
progress on a thread: inside one the program may do everything (`Free`), except
what the borrow checker forbids: dropping an instance that is being called, or
a linker that is instantiating. The drop glue is in the order of the
fields: `Module`: unload, bytes, engine; `LinkerState`: unregister all, engine,
entries; `Instance`: exec env, instance, module, share of the LinkerState.
`registry`, `loaded`, `resolved`, `insts` and `envs` are WAMR's (external).

**`Value.tla`** has the conversions as operators on integers of widths `Narrow`
and `Wide` (32 and 64 in the code). A slot or a union is `Wide` bits; a narrow
value in it leaves the upper half unspecified. Floats are their bit pattern.

A signature string is a sequence of letters; `Spells` is what WAMR takes it for.

**`Call.tla`** is `Func::call` and the trampoline over a stack of calls, each in
Wasm, in a host function, or failing. WAMR is as free as the bindings leave it:
it traps when it likes, and whether it clears an exception that an earlier call
left is open. Several host functions are defined under the name that an import
asks for, and WAMR takes one that `Binds` to it: with `Matching = "letters"`, which
is what WAMR is taken to do, one whose signature spells the type of the import;
with `Matching = "shape"`, which is all that `value.rs:288-290` asks for, any with as
many parameters and results. The trampoline then decodes by its own type. The runs
have `"letters"`; the proofs hold of both, but for the one of `ArgsArrive`. `last` reports the call that returned in
the last step. The functions in `Nested` call each other to `MaxDepth`; the others,
which carry the values, are called one at a time.

**`Leb.tla`**, **`MemoryType.tla`** are `read_leb_u32` and `parse_memory_type`, at
groups of `GroupBits` bits and results of `Width` bits. `Files` are binaries as the
format has them (`FilesAssumption`): sections of `WasmSection`, whose sizes may be
padded, one memory section at most, whose payload is a `MemoryPayload`; what the
other sections hold is any bytes, and the whole may be cut anywhere. They are
encoded, scanned, and the result is compared with what was declared. `Decodes` says
what `read_leb_u32` owes at a place of a buffer: a number that fits, or `None` where
one is cut or too long; `OverflowsAreCut` what it does with one that overflows.
The recursion
over a buffer is a recursive function in each (`LebLoop`, `LebValue`), for the
proofs' sake.

**`Exports.tla`** is what an instance hands out. `memory` is WAMR's memory instance,
with a base that is null for a memory of no bytes and with two counts, which for
a memory that never grows may be folded into one page; `cells` is the storage of
the globals in cells of 4 bytes (`Narrow` and `Wide` of `Value` as powers of the same
cell), in which a 64-bit global need not be aligned. `memories`, `globals`, `views`
are the handles and slices of the program. `size` and `values` are what Wasm sees,
kept by the steps of Wasm and by a `set` that is `Ok`; the properties compare them
with what the handles would say. `WasmGrows` and `WasmSets` come between any two
steps. A handle is never taken away: the borrow of the instance ends all of them
at once.

**`Loaded.tla`** composes the two: `Module::new` scans the bytes, and the instance
gives the scanned type to whoever asks for the memory, while WAMR makes the
memory from its own reading of the same bytes (`ModuleOf`, `MemoryOf`). What a file
holds besides its memory is given as its `use`, and a binary that WAMR refuses has
none. `LoaderAssumption` is what WAMR's validation is relied on for: the module that
a file declares is well formed.

**`Build.tla`** is `build.rs` under cargo. `tree` is the submodule and `wrapper.h`,
`env` and `unit` what a user asks for, `out` the output directory of each unit with
the `stamp` of what cargo noted when the last run that ended well began, `script`
the run in progress. `Fail` ends a run anywhere. `Ready` is cargo's judgement that
nothing has to run; the properties say what may be relied on then.

**`EngineProofs.tla`**, **`LifecycleProofs.tla`**, **`ValueProofs.tla`** (lemmas on the
conversions), **`CallProofs.tla`**, **`ExportsProofs.tla`**, **`LebProofs.tla`**, **`LoadedProofs.tla`** (with the scan of
`MemoryType`), **`BuildProofs.tla`** prove.
**`MC*.tla`** give constants and symmetry.

`ensure_thread_env` is a step of `Engine` only: `Instance::new` and `Func::call`
run it in `Lifecycle` and `Call` as well, where nothing depends on it.

## 3. Runs

| Run | Shows | Bounds, and why they are enough |
|---|---|---|
| `engine` | `IInv`, `CountExact`, `UpWhileHeld`, `InitOnlyWhenDown`, `IdleAtTeardown`, `ImplementsLifetimeSafety`, `ImplementsLifetime` | 3 threads, 3 EngineInners, 2 clones: a last drop against a first new while a third thread holds or waits. The safety part is proved for every bound |
| `engine_env` | `EnvReady` does not hold | 2 threads, 2 engines |
| `lifecycle_thread` | `IInv`, `RuntimeCovers`, `Backed`, `RegistryBacked`, `OwnFuncsAlive`, `NoLeak` | 1 thread, 2 of everything, host calls 2 deep: objects of one engine mixed with those of another, a module of one linker instantiated by the other, two entries to unregister. All of it is proved for every bound |
| `lifecycle_threads` | `RuntimeCovers`, `OwnFuncsAlive`, `NoLeak`, `LettingGoStops` | 2 threads with an engine each, 2 linkers, 2 modules, 1 instance: the chains of drops of two threads interleave |
| `lifecycle_attachment` | `AttachmentOutlivesCall` does not hold | 1 thread, 2 linkers |
| `lifecycle_confined` | `ThreadConfined` does not hold | 2 threads |
| `call` | `IInv`, `ArgsArrive`, `HostResultArrives`, `WrittenOnlyOnOk`, `NoFalseOk`, `TrapConfined` | 4 and 8 values per width, every content of the unused half, each type through one of the encodings at least and integers of both widths through both, four host functions under one name and `Matching = "letters"`, results slices of 0 to 2 for functions of none to 2 results; 2 instances, 3 calls deep: a call can be re-entered on its own instance, with another in between. All of it is proved for every bound, and for all types both ways |
| `call_refs` | `MemberMatchesKind` does not hold | one reference-typed result |
| `loaded` | `InStep`, `DeclaredFound`, `LebDecodes`, `OverflowIsCut`, `ScanAdvances`, `ScanEnds`; `LiveInv`, `SizeAgrees`, `ViewsExact`, `GlobalsHold`, `ConstStays`, `FoundIsExported` | groups of 2 bits and results of 5: three groups fit, the last in part, like five groups of 7 in 32. Up to four sections, padded sizes, three cuts; and every four bytes. Instances with a memory of 0 to 2 pages of their own, folded or not, one that is imported, three packed globals of every mix of widths. All of it but `ScanEnds` is proved for every bound |
| `loaded_imported` | `NotFoundIsNotExported` does not hold | one imported memory, exported again |
| `build` | `Configured`, `UpToSources`, `LinkSound` | a target that the maps know and one that they do not, features on and off against WAMR's defaults; no variables, `DOCS_RS`, both WAMR variables; 2 changes of the sources: one during a run and one after it. Proved for every bound |
| `build_submodule` | `PinnedCommit` does not hold | as `build` |

Bounds in the modules: `MaxClones` and the set `Inner` (`Engine`), `Slot` and
`MaxDepth` (`Lifecycle`), `HostVal`, `Args`, `Nested`, `MaxResults`,
`MaxDepth` (`Call`), `Files` (`MemoryType`), `MaxPages` (`Exports`), `MaxChanges` (`Build`). Every action fires in the passing runs.

### Where code and comments disagree

- `AttachmentOutlivesCall` (`linker.rs:192`): "it outlives every call because the
  owning LinkerState is kept alive by live instances". An instance keeps the
  linker it was *made with*; the import was bound, at load time, to a linker that
  may be another. `OwnFuncsAlive` is what does hold: host functions of the
  linker the instance was made with are safe.
- `ThreadConfined` (`lib.rs:38`): "The runtime is single-threaded". Each thread may
  have an engine, and a module loaded on one thread binds to closures of another.
- `EnvReady` (`thread.rs:40`): the guard is never renewed, so a thread can be left
  without its environment when it destroyed the runtime and another thread made
  the next one. This takes WAMR's destroy to undo what its init does for the
  thread, and matters with `hw-bound-check`, which is off by default
  (`README.md:112`, against `thread.rs:3`).
- `MemberMatchesKind` (`value.rs:144`): every other kind is read as an `f64`.
- `PinnedCommit` (`build.rs:75`): "Rebuild if the pinned submodule commit changes".
  `CMakeLists.txt` alone is tracked; a commit that leaves it as it was is not built.
  `UpToSources` is what does hold.
- `NotFoundIsNotExported` (`instance.rs:112`, `error.rs:30`): `get_memory` also says
  `MemoryNotFound` for a memory that is imported and exported again, for the module
  has no memory section from which its type could be. `FoundIsExported` is what
  holds: what is found is right, and a memory of the module's own is found.

Two comments are contradicted by properties that hold:

- `ArgsArrive` (`value.rs:288`): "only the arity/shape needs to be well-formed here",
  because the layout of the arguments is that of the import. The trampoline decodes
  by the type given to `define_func`: what keeps an `i32` from being read as an `f64`
  is that WAMR compares the letters of the signature with the import, as the run
  takes it to, and that every letter tells its type. With letters that do not, as in
  the mutant of this property, values of one shape arrive as others.
- `OverflowIsCut` (`module.rs:118`): "Returns `None` if [...] the value overflows 32
  bits". The bits of the fifth group that do not fit are dropped instead: 2^32 is read
  as 0. The function reads binaries that `wasm_runtime_load` has accepted, so that no
  such number reaches it.

And one that no run shows, for it is WAMR that counts arguments: `error.rs:21` has a
wrong number of arguments be a `SignatureMismatch`. `Func::call` compares the number
of results only (`func.rs:79`); a wrong number of arguments is a `Trap`.

## 4. Fairness

`Engine`: weak fairness of each thread's own steps inside `Engine::new` and the
drop, which it takes without waiting for its user. A `std::sync::Mutex` promises
no order among waiters, so no strong fairness is assumed for taking the lock; the
liveness checked needs none: a runtime nobody holds is torn down by a thread that
has the lock already. Users never have to do anything, and a `ThreadExit` or a
new engine never has to happen.
`Lifecycle`: the same for the steps of a drop, and for the teardown of a runtime
with no holder, which is what `Engine` guarantees. `LettingGoStops` has the
program's part as a hypothesis.
`Loaded`: the scan, a loop in one function, runs on (`WF_scanVars(ScanNext)`). Nothing
else has to happen: a file that is only scanned ends there, which is why this run
does not check for deadlock.
`Call`, `Build`: safety only; no fairness.

## 5. Proofs

`EngineProofs.tla` proves, for every number of threads, EngineInners and clones,
from `ThreadAssumption`, `InnerAssumption` and `ClonesAssumption`: `CountExact`,
`UpWhileHeld`, `InitOnlyWhenDown`, `IdleAtTeardown` and the safety part of the
refinement. None is inductive alone. `IInv` adds that the holder of the mutex is
the thread in a critical step and the only one (`MutexInv`), that the object in
its drop is its thread's and has no clones left (`DyingInv`), that the last drop
found the counter at zero and it stays there (`OnlyLastInv`), and exactly when
the runtime is up (`UpInv`): with engines counted, or between the initialisation
and the count, or between the last decrement and the destroy. `RunningInv` says
that a call in progress borrows its engine; `IdleAtTeardown` needs it. The
cardinality steps rest on the library's theorems about finite sets.

`LifecycleProofs.tla` proves, for any sets of threads, engines, linkers, modules,
instances and host functions, from `HomeAssumption`, `NoneAssumption` and
`EntryAssumption`: `RuntimeCovers`, `Backed`, `RegistryBacked`, `OwnFuncsAlive` and
`NoLeak`. They follow from `IInv`, which says of each object, by its phase, what
is left of it and who holds it: the engines counted are exactly those with a
clone (`EngineInv`), a LinkerState is alive exactly while it is shared
(`LinkerInv`), an entry is registered only before its linker's engine goes
(`EntryInv`), a module is in exactly one instance or in none (`ModuleInv`,
`InstanceInv`), the Linker is there until `Instance::new` returns (`BorrowInv`,
why its error paths need not end a LinkerState), and a module bound to a live
LinkerState is bound to one of its entries (`BoundInv`, why `OwnFuncsAlive`
holds although registration and loading are far apart). The proof has a lemma
per action and a first section that says which variables each part depends on.

`CallProofs.tla` proves, for any functions, values, argument lists, widths and
depth of nesting, from `TypeAssumption`, `OneResultAssumption`, `BoundAssumption`,
`MatchingAssumption` and `WidthAssumption`: `HostResultArrives`, `NoFalseOk`,
`TrapConfined` and `WrittenOnlyOnOk`, for either way of matching imports, and
`ArgsArrive` for a WAMR that compares letters (`Matching = "letters"`). `IInv` adds that a call that failed is unwinding, that one
that unwinds is on an instance in `raised`, that every exception recorded is,
that all calls but the innermost are inside a host function, and that a host
function in progress has as many results as its import: with
`OneResultAssumption`, slot 0 is written exactly when Wasm reads it. The values
rest on `ValueProofs.tla`: the round trips through slots and unions at every
width, and that a host function which WAMR binds to an import by its signature
string has the type of the import.

`ExportsProofs.tla` proves `SizeAgrees`, `ViewsExact`, `GlobalsHold`, `ConstStays` and
`FoundIsExported` of `LiveSpec`, in which any `Module` may be loaded; that `Loaded` loads
only such modules is proved below. `CellAssumption` makes
a wide value two cells, `PageAssumption` says that a memory fits in `usize`. `LiveInv`
adds that WAMR's two counts multiply to the size, that a memory with a byte has
an address, that a folded one is never grown, and that each handle is at the
place and of the type of a numeric global. The core is about packing: two
globals of a module share no cell, so a write at one reads back there and
leaves all others.

`BuildProofs.tla` proves `Configured`, `UpToSources` and `LinkSound` for any features
(none of them named like a toggle that is no feature, `FeatureAssumption`), units,
environments and number of changes. Its `IInv`, which TLC was also run on with the
constants of `build`, says of every stamp that the output is at least as new as
what the stamp saw and made under its variables, and of a run in progress what
it has already left; a run takes the stamp away before it touches anything.

`LebProofs.tla` proves that `read_leb_u32` reads, at every place of every buffer of
bytes, the number that the format says is there if it fits in the result, and that
it is `None` where a number is cut or has too many groups (`EveryBufferDecodes`), for
all widths with `LebAssumption`. A number that overflows is cut to the width
(`EveryOverflowIsCut`). The loop runs from the front with a shift, the
format is defined from the back, so that the proof is an induction over the
distance to the last byte of a number; that `%` at each turn may be put off to
the end is the arithmetic of it. The induction theorems of the library take an
operator and cannot be used, but induction over a *set* of naturals can be
stated (`SetInduction`): a counterexample would map a finite set onto itself without
one element. From it follow the existence of recursive functions
(`PrimitiveRecursion`, and `MeasuredRecursion` for functions that recur where a
measure is smaller), which says that `Pow2`, `LebLoop` and `LebValue` are what their
definitions say, and the induction that the rest needs.

`LoadedProofs.tla` proves, for every set of binaries with `FilesAssumption`,
`DeclaredFound`, `LebDecodes`, `OverflowIsCut`, `InStep` and `ScanAdvances`. `DeclaredFound` is not inductive:
it says nothing of where the scan is before it returns. `ScanInv` adds `InStep`: the
scan is at the end of section `k` for some `k`, none of the first `k` is of memory, and
all of them are in the part that is not cut. The first lemmas are about the layout of
a binary (`FlattenPrefix`, `Layout`: section `k` is where `EndOf` says, and no two ends
coincide); `ReadNumber` says that a number written with `Encode` on any length is
read back, with the position after it; `SectionRead` and `LimitsRead` do the same for
the header of a section and for the limits. Then there is a lemma for each action;
the hardest is `BadSectionStep`: a header is refused only when the cut is in this
section, in its size or in its payload, so that neither it nor anything after it
counts as declared.

With `LoaderAssumption`, `LoadedImplementsExports` shows that `Loaded` implements
`LiveSpec`: what the scan found is what the loader read, so that the module is in
`Module`. All theorems of `ExportsProofs` so hold of an instance from the bytes of
its module on (`InstanceOfABinary`, `ConstGlobalsOfABinaryStay`). TLC evaluates `LebAssumption`,
`FilesAssumption` and `LoaderAssumption` on the binaries of `loaded`.

Only model-checked: liveness (`ImplementsLifetime`, `LettingGoStops`, `ScanEnds`), which
takes `ENABLED` and fairness, out of the prover's reach. For `ScanEnds`, `ScanAdvances` is the
part that can be proved: the scan has no more turns than the binary has bytes.

## 6. Not modelled

- What WAMR does inside: validation, execution, the app heap in a memory. The external
  definitions (marked in `PROJECT.json`) say only what the bindings rely on.
- Names of modules and functions: all host functions share one name and an
  import may bind to any registered one, which is the least the registry
  promises.
- What closures capture: one that owns an engine, a module or an instance is a
  user of its own, and may close a cycle of owners that is never dropped.
- Failed loads and failed registrations leave nothing behind and are no steps.
- Whether WAMR clears an exception before the next call. If it does not, a later call
  on the same instance may fail for the old one: `TrapConfined` says only that it
  does not come from another instance.
- `byte_len` saturates and is cast to `usize`: `PageAssumption`, that a memory fits in
  both, leaves this out, as a memory that WAMR has allocated does.
- The share of the LinkerState is dropped after the module (`instance.rs:25-27`), and
  `Lifecycle` has it so, but no property needs that order: host functions must stay
  until the instance is gone.
- Changes of files that cargo does not track, other than those of `PinnedCommit`.
- Arguments of a wrong type, and results a host function leaves in a wrong
  type, as far as WAMR's reading of them goes.
- Mutex poisoning: nothing between lock and unlock panics.
- The bytes of a memory, and two mutable views of them through two handles
  (`memory.rs:80`), which is undefined behaviour of Rust's that no state shows.
- Threads in `Exports`: an `Instance` is neither `Send` nor `Sync`.
- `Func::ty`, `len_params`, `len_results`: queries of WAMR that change nothing.
- What CMake keeps in its cache: on a target that the maps do not know, `Build`
  allows the host's platform and any that a variable ever gave.
- `Config`, error texts, `Debug`, and the generated bindings: no state and no order
  of their own. The calls that `NativeEntry` refuses for a NUL byte in a name, and
  host functions of more than one result, which `linker.rs:153` rules out.

## 7. Plan

1. (done) `RuntimeLifetime`, `Engine` with the thread environment, `EngineProofs`.
2. (done) `Lifecycle`, `LifecycleProofs`; `Value` and `Call`; `Leb` and `MemoryType`.
3. (done) `Exports` and `Loaded` with `ExportsProofs`; `ValueProofs` and `CallProofs`;
   `Build` with `BuildProofs`.
4. Composition: `Lifecycle` over `Engine` in place of `RuntimeLifetime`, to check
   the thread environment and the chains of drops together. `Engine` implements
   what `Lifecycle` uses (`ImplementsLifetimeSafety`), so this would add the
   thread environment only, at a large number of states.
5. Host functions with names, late and repeated definitions in `Lifecycle`, if WAMR's
   choice among entries of one name becomes something that `src/` relies on.
6. (done) `LebProofs`, `LoadedProofs`: the scan, and `Loaded` as an implementation of
   `Exports`.
