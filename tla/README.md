# TLA+ models of wasmfxtime

This directory holds TLA+ specifications of parts of this repository and the
TLC configurations that check them. Every module is translated from the code
under `src/`. `PROJECT.json` maps each definition to the source lines it
models.

## 1. The system and its parts

| Part | Source | State it keeps | Operations |
|---|---|---|---|
| AArch64 PCC verifier | `cranelift/codegen/src/isa/aarch64/pcc.rs` | none of its own; reads and writes the fact store | `check` (one arm per instruction shape), `check_addr`, `check_load`, `check_store`, `check_load_addr`, `check_store_addr`, pair checks, the helpers `check_output`, `check_unop`, `check_binop`, `check_constant`, `check_subsumes`, `extend_fact` |
| Fact algebra (`FactContext`) | `ir/pcc.rs`, not in `src/`; written from `spec.md` 3 and 4.1 | none (pure) | `add`, `offset`, `scale`, `shl`, `uextend`, `sextend`, `subsumes`, `load`, `store` |
| Per-register fact store and driver | VCode, not in `src/`; `spec.md` 2 and 5 | vreg to optional fact; first failure stops the function | `vreg_fact`, `set_vreg_fact`, visit in program order |
| wasi-nn handle table | `crates/wasi-nn/src/ctx.rs` | `entries`, `next_key: u32` | `insert`, `get_mut`, `use_next_key` |
| Module code builder | `crates/wasmtime/src/compile/code_builder.rs` | `wasm`, `wasm_path`, `wat` | `new`, `wasm`, `wat`, `wasm_file`, `wasm_binary`, `compile_*_serialized` |
| C API values | `crates/c-api/src/val.rs` | boxed references owned by `wasm_val_t` / `wasmtime_val_t` | `from_val`, `to_val`, `Clone`, `Drop`, `*_val_copy`, `*_val_delete` |
| ExternRef | `crates/wasmtime/src/runtime/gc/enabled.rs` | a GC root index into the store | `new`, `new_manually_rooted`, `data`, `data_mut`, `to_vm_extern_ref`, `try_to_vm_extern_ref`, `from_vm_extern_ref`, `to_raw`, `from_raw` |
| Not modelled | `tests/disas.rs`, `crates/wasi-http/src/lib.rs`, `HashedEngineCompileEnv` | see section 6 | |

How the PCC parts interact: the compilation pipeline lowers a function to
AArch64 instructions over virtual registers (vregs), attaches upstream
("stated") facts to some vregs, and calls `check` once per instruction in
program order. `check` reads operand facts from the fact store and derives
facts through the algebra. It either checks a derived fact against the
stated one or installs it, and answers `Ok` or a `PccError`. The first error
aborts the function.

## 2. Modules

### PccFacts (spec-modelled)

The fact algebra. A fact is a record `[kind, bw, ty, min, max]`: a range of
width `bw` (Constant and MaxRange are ranges), a Mem fact (an offset range
into region `ty`), or `NoFact` (the absent `Option`). `Holds(f, v)` is the
reference semantics: the machine values a fact admits.

Widths are scaled. `XLen` bits stand for 64 (`XLen = 8` in every run), half
of it for 32, and so on. Every wraparound of the real machine then happens at
values TLC can enumerate. Byte footprints of accesses keep their real sizes
(1, 2, 4, 8, 16 bytes).

An earlier run that checked these operators alone against the machine
caught a slip in writing `offset` from the spec: it ignored the width of a
Mem fact. Like `add`, `offset` now derives a pointer fact only at 64 bits.
The operators are now checked only through `PccAArch64`, where each one is
exercised by the arm of `check` that calls it.

### PccAArch64

The verifier and its fact store, run alongside the machine.

Variables:
- `fact[r]`: the fact store.
- `vty[r]`: the vreg's type, used by `get_fact_or_default`.
- `val[r]`: the value the machine puts in `r`.
- `ndef`, `ninst`: vregs defined and instructions checked.
- `status`: `"ok"` or the first `PccError`.
- `badAccess`: an accepted, checked, register-based access touched memory
  outside every region.
- `badStore`: an accepted store wrote a value that breaks a region's element
  constraint.
- `lastInst`: the shape of the last instruction, for traces.

Each step appends one single-assignment instruction over the vregs defined so
far (`spec.md` 2 and 5 guarantee this order). The step picks the upstream
fact on the destination from `DeclFacts` and applies the matching arm of
`check` as one action. That action covers the whole arm: the operand reads,
the derivation, `check_output`'s three-way policy, installing the fact, and
the verdict. The same step computes the machine value.

| Action | Code |
|---|---|
| `CheckArgs` | `Inst::Args`; argument facts are axioms |
| `CheckAddRRR`, `CheckAddRRImm12`, `CheckAddRRRShift`, `CheckAddRRRExtend`, `CheckLslImm`, `CheckExtend` | the Add/Lsl/Extend arms, each with its `has_fact` guard falling back to the ALU fallback arm |
| `CheckAluOther` | the ALU fallback arm (Sub and the other ops) |
| `CheckMovZ`, `CheckMovN`, `CheckMovK` | the MovWide and MovK arms with `check_constant` |
| `CheckOther` | `inst_defines_facts` and `_ => Ok` |
| `CheckLoad`, `CheckFpuLoad`, `CheckStore`, `CheckFpuStore` | `check_load` / `check_store` over every `AMode` |
| `CheckPair` | `check_load_pair` / `check_store_pair` |
| `CheckLoadAddr`, `CheckStoreAddr` | `check_load_addr` / `check_store_addr` |

Environment assumptions. Each one is also in a comment in the module:
- Upstream states no fact on the result of an unchecked load.
- A fact on a load through a trusted mode (label or stack) is an ABI axiom:
  the register value the load produces (after sign extension, for an SLoad)
  satisfies it.

The machine value of each instruction is computed from the ISA, not from the
checker's operators: `MovNValue` is the NOT of the shifted chunk within the
operand size, written independently of the checker's `MovNConst`.
- A scaled amode's type is the access type.
- Memory holds values that meet the region's element fact until a store
  breaks it.

### WasiNnTable

`Table<K, V>` of `crates/wasi-nn/src/ctx.rs`. The variables are:
- `entries`: the `HashMap`;
- `nextKey`: `next_key`;
- `handles`: the keys `insert` has returned, with their values;
- `panicked`: an insert panicked.

`next_key` is a `u32` scaled to `KeyBits` bits. `OverflowChecks` picks the build:
- with overflow checks, `+= 1` at the maximum panics before the map is touched (`InsertPanics`);
- in a release build it wraps to 0.

`Insert` is `insert` with `use_next_key`, and `GetMut` is `get_mut`.

### CodeBuilder

`CodeBuilder` of `crates/wasmtime/src/compile/code_builder.rs`.
- Byte strings are model values with a `Kind`: binary module, binary component, module text, or junk.
- `watFeature` is `cfg!(feature = "wat")`. It is chosen once in `Init`.
- `sources` records every source the builder accepted. It exists only to state the set-once property.

`Wasm`, `Wat`, `WasmFile` and `Compile` each model one method, including its early error returns. `Compile` includes `wasm_binary` and the kind check of `build_artifacts`.

### CApiVal

Ownership in `crates/c-api/src/val.rs`, composed with the externref API of `crates/wasmtime/src/runtime/gc/enabled.rs`.

The C caller owns `Slots` (`wasmtime_val_t`) and `WSlots` (`wasm_val_t`). Each is a record:
- `kind`;
- `box`: the id of the box it owns, where 0 is a null pointer;
- `bits`: the `(store_id, index)` of a `wasmtime_val_t` funcref.

A `wasmtime_val_t` boxes two reference kinds (`RefKinds`): anyref and externref. Each non-null one owns a box holding a manual root, and both take the same arms in `from_val`, `to_val` and `wasmtime_val_delete`. Host handles carry their kind (`ty`).

`Funcs` are model values. `FuncBits` gives the bits `mem::transmute` produces for each one. A store id is never 0, because `StoreId` is nonzero. Numbers own nothing and are abstracted to their kind.

Boxes and manual roots are sets of ids drawn from one counter. `from_val` creates root n and box n together, so box n holds root n. `wref` records the function a `wasm_ref_t` box names.

The host side:
- `ExternRefNew` (`ExternRef::new`) roots a fresh object in the innermost scope.
- `NewManuallyRooted` (`ExternRef::new_manually_rooted`) gives the host a manual root.
- `Data` (`data` and `data_mut`) lends out the host data of a handle whose scope is still open, and fails with `?` otherwise. The loan is recorded in `lastData`. The borrow is tied to the store, so the next operation ends it (`EndBorrow`).

The environment:
- `EnterScope` and `ExitScope` nest RootScopes.
- `HostToRooted` and `HostUnroot` are the `ManuallyRooted` methods.
- `HostAnyRef` hands the host a `Rooted<AnyRef>` in the innermost scope. Such values come from `anyref.rs` or from wasm, neither in `src/`.
- `Collect` reclaims every object that nothing references: no manual root, no Rooted handle of an open scope, no VMExternRef clone held by wasm (`vmRefs`) and no entry of the activations table (`activations`). A reference count can drop to zero at any step, so `Collect` may run at any time.
- `GcSweep` is a GC of the store. It empties the activations table, because no wasm frame is live while the host runs. By the contract that the doc comments of `to_raw` and `from_raw` state, raw values from before a GC are not used after it, so `raws` is emptied too.
- `WasmDropRef` is wasm dropping a reference it holds.

`rooting.rs` is not in `src/`. The environment actions follow the contract `enabled.rs` documents, and they are not mapped.

Externrefs crossing into wasm, and raw values:
- `ToVmExternRef` is `to_vm_extern_ref` and `try_to_vm_extern_ref`. A handle whose scope has exited gives None or the "unrooted" error; otherwise wasm receives a VMExternRef clone.
- `FromVmExternRef` is `from_vm_extern_ref`: a clone wasm holds moves into a new Rooted of the innermost scope.
- `ToRaw` is `to_raw`. It fails on an unrooted handle; otherwise it puts a clone in the activations table and hands the host the raw pointer (`raws`).
- `FromRaw` is `from_raw`. A null pointer gives None; otherwise the object becomes a new Rooted.

The C API actions:
- `FromVal`, `FromValFunc` and `FromValPlain` are the arms of `wasmtime_val_t::from_val`.
  - `BoxRef` models `to_manually_rooted(cx).ok()?`: a stale handle becomes a null pointer.
  - `FuncSlot` is the funcref encoding, where None is (0, 0).
- `ToValOf` and `FuncRefOf` are `to_val`. `ToVal` is the host calling it, which adds a Rooted.
- `ValCopy` is `to_val` then `from_val`.
- `ValDelete` unroots an anyref or externref, then runs `Drop` (`DropVal`), which frees the box.
- The `wasm_val_t` operations:
  - `WasmFromVal` and `WasmFromValPlain` (`from_val`);
  - `WVal` (`val`);
  - `WasmValCopy` (deep `Clone`);
  - `WasmValDelete` (`Drop`).

`given` and `wgiven` are observation variables. They hold the Val each value was made from, and a copy inherits its source's.

## 3. Runs

| Run | Config | Expect | Shows |
|---|---|---|---|
| `pcc_core` | `MC_PccAArch64.cfg` | pass | `TypeOK`, `MemorySafety` and `FactsHold` hold for every two-instruction program over two arguments, every addressing mode and every instruction shape |
| `pcc_movk_after_movn` | `MC_PccMovK.cfg` | violation | MOVK's or-merge installs a false Constant fact: after MOVZ #3, a 64-bit MOVK #1 at shift 0 leaves 1 in the register, but the fact says 3 |
| `pcc_sload_sign` | `MC_PccSLoad.cfg` | violation | SLoad is checked as ULoad: a checked SLoad8 of a byte with its sign bit set is accepted against a small stated range, but the register holds the sign-extended all-ones value |
| `pcc_acquire_result` | `MC_PccAcquire.cfg` | violation | LoadAcquire ignores the destination's stated fact |
| `pcc_mem_placeholder` | `MC_PccMemPlaceholder.cfg` | violation | a stated Mem fact is never checked, so checked loads escape the heap |
| `pcc_store_unfactored` | `MC_PccStoreUnfactored.cfg` | violation | stores without a stored fact break a region's element constraint |
| `nn_table_debug` | `MC_WasiNnTable.cfg` | pass | with overflow checks (2-bit keys, 6 inserts), every handle returned keeps naming its value; the table panics at the maximum |
| `nn_table_release_wrap` | `MC_WasiNnTableWrap.cfg` | violation | in a release build `next_key` wraps, and the fifth insert overwrites the first handle's value |
| `code_builder` | `MC_CodeBuilder.cfg` | pass | over four calls, in builds with and without `wat`, at most one source is ever accepted, and failed calls change nothing |
| `c_api_val` | `MC_CApiVal.cfg` | pass | over seven operations (about 3.5M states, 55 s), whatever scopes exit and collections run: every box and manual root has exactly one live owner (`OwnershipExact`); no anyref or externref in a `wasmtime_val_t` is reclaimed (`NoDanglingRef`); every value converts back to the Val it was made from, with a reference allowed to come back only as None (`RoundTrip`); `data`/`data_mut` never lend a reclaimed object (`DataNeverFreed`); a raw externref from `to_raw` stays valid until the next GC even after its handle is unrooted (`RawValidUntilGc`); and no VMExternRef wasm holds names a reclaimed object (`NoDanglingVmRef`) |

Bounds of `pcc_core`:
- One 16-byte heap at address 16 of an 8-bit address space.
- Two arguments, each with facts drawn from {pointer to heap start, index
  0..3, none}.
- Two instructions after `Args`.
- Immediates and offsets chosen so that:
  - in-bounds and out-of-bounds accesses both occur;
  - 32-bit wraparound occurs;
  - a scaled 8-byte index leaves the heap.
- Extend operators `UXTW`, `SXTW` and `SXTX`: a zero extension, a sign
  extension whose fact must be widened correctly, and the one that is never
  derivable. `UXTX` is used by every register addressing mode.

`MovKOnZero` limits MOVK to registers whose target chunk is zero (the MOVZ,
MOVK idiom of `spec.md` 8). Without it the known MOVK bug is reported on
every path.

Bounds of the other runs:
- **Table.** Two-bit keys make the counter reach its maximum after four inserts. Six inserts get past it, so both the panic and the wrap happen.
- **CodeBuilder.** Four calls allow a second `wasm` after a first, and a failed `wasm_file` followed by a successful one.
- **CApiVal.** Seven steps allow the shortest stale-handle path (enter a scope, create an object, exit, collect, `from_val`). They also allow a copy followed by deletes of both values. Two values per API make sharing between copies observable. The one function sits at index 0 of store 1, so a null test on only one half of its bits would misread it.

Fairness: none is assumed. Every property is a safety property. The verifier is single-threaded and terminates (`spec.md` 5). The other components are driven by whatever their callers do next. Every run says
`CHECK_DEADLOCK FALSE` because each system really stops: verification stops at the first error, and the other components stop when their caller stops calling. In the model, each also stops at its step bound.

## 4. Hazards

`PROJECT.json` lists each hazard at its source line, with the properties that
cover it.

## 5. Plan

Order of work, most important first:
1. PCC verifier and algebra (done): core pass run and the five findings.
2. wasi-nn `Table` (done).
3. `CodeBuilder` (done).
4. (done) C API values and ExternRef rooting: box ownership through clone, copy and
   delete, and roots released exactly once. This is a composition of
   `val.rs` with an abstract root set.
5. An abstract specification of the fact store, with `PccAArch64` shown to
   refine it, is open. It needs a property the checker could break: one
   that involves more than re-stating `FactsHold` and `MemorySafety`.

## 6. Not modelled

- `tests/disas.rs` is a test harness that reads files and runs a
  disassembler: pure I/O.
- `crates/wasi-http/src/lib.rs` is bindgen-generated bindings and a
  constructor for a DNS error value.
- `HashedEngineCompileEnv` hashes configuration. Its only property is which
  fields are hashed, and that is not a behaviour TLC can check.
- Reference counting of `VMExternRef`, the activations table and rooting (`rooting.rs`) are outside `src/`. They enter `CApiVal` only through the contract that `enabled.rs` documents: an object is reclaimed once nothing references it, and a raw value is valid until the next GC.
