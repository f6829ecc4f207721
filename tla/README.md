# TLA+ models of rustlantis' place table, abstract memory, place selector and statement generator

These modules model the stateful components of the generator under
`src/`. The TLC configurations check the properties that keep those
components consistent while a random program is being built.

## The system

- **Place Table** (`src/fuzz/src/ptable.rs`) holds:
  - the call stack of frames; each frame maps MIR locals to place nodes and records the call's return destination;
  - a graph of places, with projection edges (field, constant index) and deref edges from pointers to their pointees;
  - per-place data: dataflow, moved flag, known literal, pointer offset;
  - a cache `index_candidates` from a literal to the locals holding it.

  It owns a `BasicMemory`. Every sized leaf of a local has a run pointer into that memory, and initialization lives in the memory's bytes. `enter_fn` and `exit_fn` are the composite handlers:
  - `enter_fn` allocates the callee's locals and copies or assigns the arguments. Then it deallocates and marks moved each `Move` operand.
  - `exit_fn` copies the return place into the caller's destination, then deallocates the callee's locals.
- **Abstract Memory** (`src/generate/src/mem/mod.rs`) keeps allocations made of runs. Each run has bytes and a per-byte borrow stack of tagged Raw/Shared/Exclusive borrows with a protected flag. A side table maps each tag to the run pointers it still borrows.
- **Place Selector** (`src/fuzz/src/place_select.rs`):
  - It filters the table's reachable paths: live, of the wanted types, not overlapping excluded places or pending return destinations, and initialized unless the usage allows otherwise.
  - It weights each path by its usage, then draws from a `WeightedIndex`.
  - The draw fails (Exhausted) when the list is empty or the total weight is 0.

- **Generator** (`src/fuzz/src/generation.rs`):
  - `generate` draws a signature (argc, argument types, return type via `choose_ty`) and a statement count, then calls `choose_statement` that many times.
  - `choose_statement` picks a statement kind. Only `Assign` is implemented; the others are `todo!()`. It `unwrap()`s the result.
  - `generate_assign` picks a mutable local as the left-hand side. `generate_rvalue` matches on a draw from `self.rng.borrow_mut()` to pick Use, UnaryOp, BinaryOp or CheckedBinaryOp; `choose_operand` would fill the operand holes from a `PlaceSelector`.
  - It is written against an older selector API (`crate::place`, not in this repository) and never calls the place table.

Spec §5 says the components are single-threaded, sequential and synchronous. The hazards are therefore orderings of calls, stale caches and boundaries, not concurrency.

## Modules

| Module | Models | State | Actions |
|---|---|---|---|
| `PlaceTable` | `ptable.rs` and the allocation/byte half of `mem/mod.rs` | `pt`: `frames`, `places`, `live`, `runs` (bytes), `cands`, `fault`; `act`: the last operation (a history read only by action properties) | `DoAllocateLocal`, `DoDeallocateLocal`, `DoMarkInit`, `DoMarkUninit`, `DoUpdateDataflow`, `DoAssignLiteral`, `DoCopyPlace`, `DoSetRef`, `DoOffsetPtr`, `DoEnterFn`, `DoExitFn` |
| `BorrowStack` | the borrow-stack half of `mem/mod.rs` | `st`: per-byte `stacks`, side table `ptrs`, `fault`; `next` is the next fresh tag; `last` is the previous call's result (history) | `DoAddRef`, `DoRemoveTag`, `DoRemoveTagRunPtr`, `DoRemoveTagsAbove`, `DoMarkProtected` |
| `PlaceSelect` | `place_select.rs` over `PlaceTable` | none (a selection changes nothing) | operators `IntoIterPath`, `Weight`, `Select` |
| `Generator` | `generation.rs` | `phase` (init, gen, done, panic), `decls` (the current body's local_decls), `left` (loop iterations to run), `cause` (why it panicked) | `DoGenerate`, `DoAbort`, `DoFinish`; operators `ChooseStatement`, `GenerateAssign`, `GenerateRvalue`, `GenerateArm` |
| `CallStack` | what `ptable.rs` promises about frames and allocations (abstract) | `frames` (local → allocation per frame), `live`, `count`, `moved` (allocations passed to a call by `Move`) | `Declare`, `Kill`, `Call`, `Return` |
| `MC_PlaceTable`, `MC_PlaceSelect`, `MC_BorrowStack`, `MC_Generator` | model constants and the `VIEW`s | | |

### How the modules follow the code

- **Methods as operators.** Every method of `PlaceTable` and `BasicMemory` is an operator from table to table, under the method's own name. A handler that calls others is their composition in the code's order: `EnterFn` calls `AllocateLocal`, `CopyPlace`, `AssignLiteral` and `MoveOut`. A failed `assert!` or `expect` sets `fault`, and every action is guarded by `Ok`.
- **Memory.** Each primitive and each pointer is one abstract byte.
  - An array shares one run with its elements (`ElemRunPtr`).
  - A tuple gives each field its own run.
  - `ty_size` is `TySize`.
- **Types.** The mir crate's type oracle is not part of this repository. It is a fixed universe of five types, one per branch of `add_place` (spec-modelled):
  - two primitives, `I` (i8) and `U` (usize);
  - an array `A = [i8; 2]`;
  - a tuple `T = (i8, [i8; 2])`;
  - a raw pointer `P = *mut T`.
- **Places named by the client.** A place the client names is one the generator could select: `Named` is the selector's filter, from `into_iter_path`.
  - A `Move` argument is always a current local.
  - A moved argument overlaps no other operand and not the destination (`MovesDisjoint`, from spec §7).
- **Borrow stacks.** `BorrowStack` has one allocation with two runs of sizes 3 and 1. `RangeOverlap` and `Subtract` translate `RangeExt` exactly, including its inclusive end points. `RunPtrOverlap` adds the same-run test of `RunPointer::overlap`, which is what `derange` calls.
  - No code under `src/` calls this API, so its client is any sequence of calls with fresh tags (`next`).
  - `Exclusive` is left out: no operation tells it apart from `Raw`.

- **Random draws as outcome sets.** In `Generator`, each handler is the set of its possible outcomes. Every outcome of `choose_statement` is a panic, the terminal phase `panic` (`DoAbort`), with its cause: `todo` (a `todo!()`), `NoPossibleOp` (the `unwrap()` of that error) or `BorrowMutError`.
  - `generate_rvalue`'s scrutinee `self.rng.borrow_mut().gen_range(..)` creates a `RefMut` temporary that lives until the end of the `match`. Every arm that borrows `rng` again (`choose_operand` for Use, `.choose(&mut *self.rng.borrow_mut())` in the op arms) therefore panics with `BorrowMutError`. The checked arm returns `NoPossibleOp` without borrowing when the lhs is not an `(_, bool)` pair (`GenerateArm`). The mir `Ty` (`Kind`, `PairOf`) and `Body::new` are modelled from their interface.
  - The type universe has a bool, a char, two ints, a usize, a float, two raw-pointer types, a pair `(i8, bool)` and an `Adt`, on which `choose_ty` panics.
  - `Body::new` makes `_0` mutable, so `generate_assign` always finds a mutable local. The `declare_new_var` branch is in `GenerateAssign` but unreachable.

## Runs

Passing runs:

| Run | Checks | Shows |
|---|---|---|
| `pt_tree` (`PT_tree.cfg`, on `MC_PlaceSelect`) | `TypeOK`, `DataflowIsMax`, `IndexCacheCoherent`, `LhsNeverStarved`, `InitLocality` | Within one frame over an array and a tuple: a composite's dataflow is the max of its children's; the index cache agrees with the locals' values; initializing, uninitializing or copying a place changes no disjoint place. Over the same tables, a left-hand-side selection is never Exhausted while a candidate exists. |
| `pt_call` (`PT_call.cfg`) | `NoFault`, `ImplementsCallStack` | Calls with a copied, moved or constant argument, and their returns, never touch dead bytes; the table implements the abstract call stack, in which a call kills exactly the caller allocations it marks moved (see Refinement). |
| `pt_ptr` (`PT_ptr.cfg`) | `PointerCopyFaithful` | Copying a pointer that has a pointee carries both the pointee and the offset, even though `set_ref` resets the offset. |
| `bs_sound` (`BS_sound.cfg`) | `TypeOK`, `SideTableSound` | Every range in the side table is held by its tag on every byte, after any sequence of retags, protections and removals. |

Violation runs, one property each. Each has a finding in `PROJECT.json`:

| Run | Property | What TLC finds |
|---|---|---|
| `pt_cache` | `IndexCacheCoherent` | `exit_fn` empties the index cache and never refills it. After a call returns, the caller's local holding an index no longer makes the array element reachable (spec §4.1). |
| `pt_copyptr` | `CopyMirrorsPointee` | `copy_place` from a pointer without a pointee leaves the destination's old Deref edge. |
| `gen_unwrap` | `ErrorsRecoverable` | `generate_checked_binary_op` returns `NoPossibleOp` when the lhs is not an `(_, bool)` pair (`generation.rs:234`), and `choose_statement` `unwrap()`s it (`generation.rs:318`): `fn() -> bool` with one statement panics, although spec §7 says NoPossibleOp is recoverable. |
| `gen_borrow` | `RngNeverDoubleBorrowed` | The `RefMut` of `rng` held by `generate_rvalue`'s match scrutinee (`generation.rs:251`) makes every arm that borrows `rng` panic with `BorrowMutError`, so no statement is ever generated. |
| `bs_gone` | `RemovedTagsGone` | `remove_tags_above` deranges each removed tag by the whole range. A tag that still holds bytes outside that range is reported gone, and it is dropped from the side table. |
| `bs_canwrite` | `CanWriteHonoursProtection` | `can_write_with` ignores a protected borrow that sits below the first Shared one (spec §8). |
| `bs_protect` | `ProtectedNeverPopped` | `remove_all_above` pops protected borrows without the assertion `remove_borrow` has. |

Every property of a passing run has a mutant in `PROJECT.json`: a plausible bug in the mapped definition, which TLC catches under that run's cfg.

## Bounds, and why they are enough

**PlaceTable**
- `MaxAllocs` (3–4) bounds the allocations.
- `MaxFrames` (1–2) bounds the call depth.
- `Lits = {0,1}` and `Flows = {1600}` are the inputs. 1600 exceeds the cap, so the capping branch of `update_dataflow` is always taken.
- `Offsets = {1,-1}` with `IsizeBits = 2`: `offset_ptr` adds with `isize::wrapping_add` (`ptable.rs:736`). The model keeps the wrap and scales the width down to 2 bits, so offsets range over -2..1. Two offsets of +1 wrap round to -2, and going on reaches 0 again. So the checked runs include a pointer that counts as round-tripped only because its offset wrapped. That agrees with the address arithmetic, where a wrapped address is the same address. The runs without pointers use `IsizeBits = 1`.
- The configurations are split so each finishes in under 2.5 minutes with coverage on:
  - tree shapes in one frame;
  - calls with one `U` argument and an array return destination;
  - pointers.
- Each configuration still reaches the cases its properties are about:
  - an array element indexed through a local;
  - a moved argument, a copied one and a constant one, each in its own call (every signature has one argument);
  - a pointer to a tuple, with and without a pointee and with a nonzero offset.

**BorrowStack**
- With runs `<<3, 1>>` and two tags, the checks reach:
  - partial overlap;
  - adjacent ranges, where the inclusive overlap applies;
  - ranges that span both runs.
- Three tags are needed for the protection traces, which is why the violation runs use them.

**Generator**
- `GEN_unwrap.cfg` has `MaxArgs = 2`, `MaxStmts = 2` and `GEN_borrow.cfg` `MaxArgs = 1`, `MaxStmts = 1`, against 16 and 128 in the code. Every statement ends the process, so one statement shows every outcome; the argument lets the lhs be any local.

**VIEW.** The `VIEW`s fingerprint states without the history variables `act` and `last`. This is sound because only action properties read those variables, and they read them in the step that sets them.

## Refinement

`CallStack` is the abstract call stack. Each frame binds locals to allocations, and a set records which allocations are live. Only four steps change it:
- `Declare` (`allocate_local`) binds a new local of the top frame to a fresh allocation.
- `Kill` (`deallocate_local`) kills one allocation of the top frame.
- `Call` (`enter_fn`) pushes a frame whose locals `0..k` sit on fresh allocations. It kills some live allocations of the caller's top frame, the moved arguments, and adds exactly those to `moved`.
- `Return` (`exit_fn`) pops the top frame and kills all its allocations.

`PlaceTable` instantiates it as `CS` with this mapping:
- `frames[i]` is `FrameAllocs(pt, i)`: each local of frame `i` mapped to the allocation of its place.
- `live` is the set of live allocations in the memory.
- `count` is the number of allocations made.
- `moved` is the set of allocations of places whose moved flag is set.

`pt_call` checks `ImplementsCallStack == CS!Spec` as a `PROPERTY`. The table's other methods are stuttering steps of `CallStack`. The property catches two bugs that no invariant of the table sees:
- a call killing a caller allocation that it does not mark moved, or marking one moved that stays live (`MoveOutNoDealloc`, the mutant);
- a return that kills the caller's locals (`exit_fn` walking the frame left on top after the pop) or leaves a callee's local live.

The abstract actions start with a cheap conjunct on `count` or `live`, so the many stuttering steps are rejected early. Under coverage TLC re-evaluates the mapping at every reference.

## Fairness and liveness

- **PlaceTable, BorrowStack, PlaceSelect: none.** Every operation is a synchronous call that returns. There is no waiting, retry or message, and TLC checks each call as one step. The PlaceTable runs check deadlock. `BS_sound.cfg` sets `CHECK_DEADLOCK FALSE`: a failed assertion aborts the process, so the model really stops there.
- **Generator: none.** Every path of `generate` ends in a return or a panic within a bounded number of steps; nothing blocks. The `GEN_*` configurations set `CHECK_DEADLOCK FALSE` because both of those end the process.

## Not modelled

- **`generation.rs` as the tables' client.** It is written against an older selector API and never calls the place table. The tables' client is instead any call sequence that keeps the spec §7 contract. `Generator` models it on its own.
- **`choose_operand` and the operand filters.** Every path into it passes the held `RefMut` and panics at its first `borrow_mut` (`generation.rs:42`), so the code after that is unreachable and not modelled.
- **`generate_literal`, and the arity of tuples in `choose_ty`.** `generate_literal` is never called and builds a value it throws away. One pair type stands for the tuples of 1 to 16 fields.
- **Enums/ADTs in `add_place`.** The type universe has no variants.
- **`HasDataflow` for rvalues** (`ptable.rs:913-947`). It is a sum of the operands' dataflow. No code in the repository calls it, so it is represented only by the values `update_dataflow` is given.
- **The mir crate's types.** `TyKind`, `Literal` and `Place` are not in this repository. They are a fixed universe taken from the spec, which is why the Type oracle is only partly modelled: only `ty_size` is translated.
- **`Debug` impls, the `#[cfg(test)]` modules and the benches.** They change no state of the tables.
- **Larger instances.** `pt_call`, `pt_ptr` and `pt_tree` already take 2 to 3 minutes each. `bs_sound` with 3 tags exceeds 900,000 states. So nested calls of depth 3 and more tags are out of reach of a 5-minute run.
- **The random draw itself.** It is the set of paths with positive weight.
- **The ordering of `locals_ordered`.** Sets replace the heap.
- **The `Exclusive` borrow kind.** No operation tells it apart from `Raw`.
- **Re-declaring a deallocated local.** It panics (FIXME at `ptable.rs:229`), but the generator always uses fresh locals.
- **Constant arguments.** For a constant argument, `enter_fn` calls only `assign_literal` (`ptable.rs:192`). That sets the literal (`ptable.rs:682-683`) but neither initializes the argument's bytes nor gives it dataflow. Spec §4.1 says each argument place is populated from its snapshot. The model does what the code does: such an argument stays uninitialized, so the selector never offers it as an operand. This loses precision and nothing more, because no byte is read uninitialized. So it is a note here, not a violation run.
- **The initialized flag of a pending return destination.** `enter_fn` only forgets the destination's literal (`ptable.rs:172`), while spec §4.1 says the destination is pre-marked uninitialized. The selector excludes pending return destinations from every selection, so nothing reads the stale flag during the call, and no run checks it.
