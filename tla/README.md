# TLA+ models of Nulloc

This directory holds TLA+ models of the Nulloc allocator (`src/src`) and the
TLC configurations that check them. The core of the allocator is the paged,
lock-free, reference-counted stack in `src/src/collections/lflist.rs`. Every
free list and object pool is built on it, so it is modelled first and in the
most detail.

## 1. The system

| Part | Source | State | Operations |
|---|---|---|---|
| `List` | lflist.rs 26-271 | `head` (newest page), `count`, `buffer_cap` | `new`, `push`, `exclusive_push`, `pop`, `drop_out_all`, `prepend_with`, `count`, `Drop` (unrefs every page of the chain) |
| `BufferMeta` (a page) | lflist.rs 18-24, 273-349 | `head` (slot cursor), `next`, `refs`, flag words, payload words | `new`, `borrow`, `unref` (calls `gc` at refs 1 -> 0), `flush_buffer` |
| `BufferRef` | lflist.rs 351-367 | the page pointer | `Drop` calls `unref` |
| `WordList` / `ObjectList` | lflist.rs 369-442 | an inner `List` | `WordList` adds 5 to each word (`SLOT_DATA_OFFSET`); `ObjectList` tags every item `!0` |
| C API | api.rs 16-41 | none of its own (delegates to `generic_heap`, which is not in the repository) | `nu_malloc`, `nu_free`, `nu_calloc`, `nu_realloc` |
| `NullocAllocator` | api.rs 43-79 | `RUST_ADDR_MAPPING`: aligned address -> base address | `alloc`, `dealloc` |
| BIBOP heap | bibop_heap.rs | none | every method is `unimplemented!()` |

How the parts interact:
- A list is a chain of pages, newest first, linked by `next`.
- `push` reserves a slot by a CAS on the page cursor, then publishes the item
  by a CAS of the slot's flag from `EMPTY_SLOT` (0) to the tag.
- When the page is full, `push` allocates a new page linked to the old head and
  CASes it in as the new head.
- `pop` works on the head page. An empty head page with a successor is retired
  by a CAS of `List.head` to the next page.
- Each page's `refs` is 1 for the chain plus 1 per `BufferRef`. The thread that
  takes it from 1 to 0 flushes and deallocates the page.
- `drop_out_all` swaps a fresh page in and walks the detached chain. It waits
  for each page to reach `refs == 2`, CASes it to `1 << 8`, flushes it and
  unrefs it.
- `prepend_with` swaps the other list's chain out, waits on each page's
  `refs <= 2` to find its tail, CASes this list's head to the other chain and
  links the tail to the old head.

What makes this code hard to get right:
- Every shared access is a separate atomic step, and all of them are Relaxed.
- A head pointer is loaded first and borrowed in a later step.
- Reclamation relies on counted references that other threads may still be
  about to take.
- Retries allocate pages.
- A drain and a splice race pushers that hold stale head pointers.

What must hold for the stack to be correct:
- No page is touched after it is freed.
- The chains are null-terminated, contain only live pages, and are disjoint.
- No pushed item is lost.
- `pop` returns only pushed values.
- `count` matches the number of items held.
- No assertion fires.
- Every call returns.
- Every page that leaves a chain is freed, and once the lists are dropped
  no page is left allocated.

What the allocator API must do:
- A Rust allocation is aligned and lies inside the block it was carved from.
- `RUST_ADDR_MAPPING` maps every live Rust allocation to its block's base.
- `nu_free` only frees live blocks.
- `nu_calloc` returns null or as many zeroed bytes as were asked for.

## 2. Modules

- **`LFList.tla`** models `List`, `BufferMeta`, `BufferRef` and the `WordList`
  calls. It is a thread-level model: each thread runs one `List` method at a
  time. The state is:
  - `lhead[l]` and `lcount[l]` for each list.
  - For each page id: `bstate` ("unused", "live" or "freed"), `bhead` (the
    cursor), `bnext`, `brefs`, and `bflags`. `bflags` has indices
    `0..Cap-1` for the flag array plus index `Cap`, the word just past it. That
    word starts as `EMPTY_SLOT` or `Garbage`: it is whatever memory held.
  - `th[t]` for each thread: the step it is at (`pc`) and the Rust locals of
    the running method (`hp` = `head_ptr`, `page`, `slot`, `nxt`, `aux` =
    the new head or `this_head`, `res`, `taken` = `other_count`).
  - `alive`: the lists their owners have not dropped yet.
  - History variables for the properties: `pushed`, `delivered`, `oob` (some
    access went past a flag array), `oom`, `calls`, and `discarded` (the
    items a list held when its owner dropped it).

  The actions:
  - There is one action per atomic load, store, CAS, `fetch_add` or
    `fetch_sub`, named after the method: `Push*`, `X*` (for
    `exclusive_push`), `Pop*`, `Drop*` and `Prep*`.
  - `Release` is the drop of a `BufferRef` at the end of a loop iteration or a
    method. Its `unref` runs `gc` when `refs` goes from 1 to 0.
  - Allocating a page takes an unused id. When none is left, the process
    aborts (`oom`), as `alloc_mem` failure does.
  - Freed ids are never reused, so a stale pointer stays detectably stale.
  - `Start` is a `WordList` call with a fresh item. The item stands for the
    encoded word; the offset is abstracted.
  - The busy-wait loops of `drop_out_all` and `prepend_with` are explicit `Spin`
    steps that change nothing.
  - `pop`, `push` and `prepend_with` retry by returning to their load step.
  - `ListDrop(l)` is `impl Drop for List`, taken only when `"drop"` is in
    `Ops`. It takes `&mut self`, so no call holds `l`, as self or as
    `prepend_with`'s other (`InCall`); calls on the other list go on. Lists
    do share pages: a push that loaded its head just before a splice moved
    that page holds a pointer into the receiving list. It is one step that unrefs every page of
    the chain once (`UnrefAll`); the chain is a path, so this is the code's
    walk. Owners need never drop a list, so it has no fairness.

  Each mutated definition (`NewBufferUnlinked`, `UnrefEarly`, ...) sits just
  before the definition it replaces.
- **`ListPool.tla`** is the abstract specification of what `push` and
  `prepend_with` promise together. The lists hold one pool of items (`pool`).
  A push call is `pending` until its item joins the pool in one step
  (`Effect`), then `effective` until it returns. A splice moves items between
  lists, so at this level it changes nothing. When no call runs, an owner
  may drop a list, and its items leave the pool (`Discard`). That guard is
  the single-list case of `ListDrop`'s: `PoolRefined` is checked with owner
  drops on one list (push) and on two lists without them (push_prepend).
  With two lists and drops, a drop can free a page that a push on the other
  list still points to, so the push never takes effect (see section 3). Both `Effect`
  and `Return` are weakly fair, so every call takes effect and returns.

  `LFList` implements it (`PoolRefined == Pool!Spec`, where
  `Pool == INSTANCE ListPool WITH ...`). The refinement mapping:
  - `pool` is `PoolHeld`: the items below the cursor of every page in a
    list's chain, plus the pages of the chain a running `prepend_with` holds
    outside both lists (`InFlight`). That chain is `other_head`'s until the
    head CAS, then `this_head`'s until the tail is linked.
  - A push is `effective` once its flag is published (`Published`).
  - Every other call is `effective` from its start.
- **`Api.tla`** models `src/src/api.rs`:
  - Addresses are `W`-bit words (`Addr`), and size arithmetic wraps at
    `2^W` as `usize` does.
  - `heap` is the set of live blocks of `generic_heap`. That heap is not in
    the repository, so it is its contract (`MallocResults`, `HeapFree`):
    `malloc` returns null or a fresh block disjoint from the live ones, and
    `free` releases a live block. Freeing anything else sets `badFree`.
  - `amap` is `RUST_ADDR_MAPPING`.
  - `held[t]` is what the caller on thread `t` holds.
  - `th[t]` is the step of a `NullocAllocator` call.
  - Actions:
    - `CMalloc`, `Calloc`, `CRealloc` and `CFree` are the C functions, each
      one step. `CRealloc` resizes a block the caller holds, or passes null.
      `generic_heap::realloc` is the C17 contract (`ReallocResults`): null
      with the block kept, or a block anywhere outside the other live blocks
      with the old one released and its first bytes kept.
    - `GlobalAlloc::alloc` is two steps: `AllocMalloc`
      (`nu_malloc(size + align - 1)`), then `AllocMap` (padding, map
      insert, return). `Alloc::alloc`'s unwrap is `AllocReturn`: it panics
      on a null address.
    - `dealloc` is `DeallocRemove` (map remove), then `DeallocFree`
      (`nu_free` of the base).
  - `AlignPadding` is the meaning of `utils::align_padding`, which is not in
    the repository.
- **`MC_LFList.tla`** defines the model values and the sets the `.cfg` files
  assign: threads, lists, items, pages, and a symmetry set over threads and
  items. Page ids are not symmetric, because `Fresh` picks one with `CHOOSE`.
- **`MC_Api.tla`** defines two threads, two `Layout`s (one that needs
  padding, one that does not), the `nu_calloc` element counts, and a symmetry
  set over the threads.

## 3. Runs

The `LFList` runs use:
- `Cap = 2`: two slots per page, so the third push overflows (the push run
  uses `Cap = 1`, see below);
- three items and four page ids;
- `CountMod = 8` for the wrap of `count`;
- a release build (`DebugBuild = FALSE`).

Passing runs:

| Run (cfg) | Threads / lists / calls | Properties | What it shows |
|---|---|---|---|
| push (`MC_push.cfg`) | 2 / 1 / 3 push, `Cap = 1`, list drop | NoUseAfterFree, ChainsWellFormed, NoLostItem, CountMatches, NoPanic, FreedAtExit, PoolRefined | Concurrent pushes are correct. The slot CAS race and the race of two overflowing pushes to install their pages are safe; the loser gives its page back. Each push adds its item exactly once and returns, and once the list is dropped no page is left. |
| push_drop (`MC_push_drop.cfg`) | 2 / 1 / 4 push or drop_out_all | NoUseAfterFree, ChainsWellFormed, CallsReturn | Stale pushers never touch freed memory during a drain, and the drain's wait ends. Both only because drained pages are never freed (see FreedAtExit below). |
| push_prepend (`MC_push_prepend.cfg`) | 2 / 2 / 3 push or prepend_with, no list drop | NoUseAfterFree, ChainsWellFormed, NoLostItem, PoolRefined | The splice borrows each page it walks before giving up the previous one, so it never touches a freed page. It keeps chains disjoint and null-terminated. push with prepend_with refines ListPool: no step loses or invents an item, and every call returns. Owner drops are left out: with them NoUseAfterFree fails (below). |
| push_pop (`MC_push_pop.cfg`) | 2 / 2 / 4 push, pop or prepend_with, list drops | ChainsWellFormed, FreedAtExit | pop's retirement of a head page, racing new pages and a splice of one list onto the other, keeps both chains well formed; every page that leaves a chain reaches refs 0, and each list's own pages sit at refs 1, so dropping both lists frees everything. A list is dropped as soon as no call holds it, while calls on the other list run. NoLostItem is not checked here: pop's unpublished-slot read (pop_uaf) breaks it on one list already. |
| all_ops (`MC_all_ops.cfg`) | 2 / 2 / 3, every method, no list drop | TypeOK | The whole state keeps its shape. The cursor stays in `0..Cap` and no refcount goes below 0. |
| api (`MC_Api`, `MC_api.cfg`) | 2 threads / 3 calls, `W = 4` | TypeOK, RustAllocBacked, NoInvalidFree | C (malloc, calloc, realloc, free) and Rust allocations interleave. Every Rust allocation is aligned, inside its block and mapped to the block's base, and every free hits a live block. |

Violation runs. Each checks one property, and the finding is in `PROJECT.json`:

| Run | Property | What the code does |
|---|---|---|
| pop_past_flags | NoPhantomDelivery | pop indexes `flags[slot]`, not `flags[slot-1]`. On a full page it reads and returns the word past the flag array. After one push the same defect makes it spin forever. |
| pop_uaf | NoUseAfterFree | A thread borrows a head page that pop retired and freed after the thread loaded it. |
| xpush_head | ChainsWellFormed | exclusive_push stores its new head, then its own CAS fails and it frees that head. Dropping the list later frees it a second time, which is why all_ops leaves list drops out. |
| drop_lost | NoLostItem | A stale pusher publishes into a drained page. |
| prepend_count | CountMatches | A push on the source list is counted on the wrong list. |
| api_calloc (`MC_Api`) | CallocZeroed | `nu_calloc(9, 2)` in 4-bit words allocates `18 mod 16 = 2` bytes. |

Reached while modelling but not kept as runs (each is a configuration change
of a run above, recorded in the hazards of `PROJECT.json`):
- NoPanic fails in `DropFlush` with `DebugBuild = TRUE`: flush's
  `debug_assert!` fires on every drain.
- FreedAtExit fails with one thread calling push, then drop_out_all, then
  dropping the list: the drained page keeps `refs = 254` and is never freed.
- NoPanic fails in push_drop: a stale push into a flushed page hits
  `assert_eq!`.
- NoUseAfterFree fails when push_prepend's `Ops` include `"drop"`, in three
  calls. t2 pushes on L2, and t1's push on L2 loads head b2 (line 46). t2
  runs `L1.prepend_with(&L2)`, which moves b2 into L1. The owner drops L1,
  which needs only `&mut L1`, so b2 is freed. t1 then borrows b2 (line 47).
  This is safe Rust reaching a use-after-free. All twelve run slots are
  taken, so this is kept as a hazard rather than a run.

**Bounds.**
- Every `LFList` race needs at most two threads and four calls:
  - two pushes fill a page, so a third overflows it;
  - one stale pusher plus one drain or splice;
  - a pop between a head load and its borrow.
- Four page ids leave room for the initial pages, one overflow and one lost
  head CAS. Running out of ids is the abort path and is reached.
- The push run uses one-slot pages. With two-slot pages, two pushes racing
  to install a page need two earlier pushes, so four calls: that run took
  over three minutes. With one slot, three calls reach the losing head CAS
  (a mutant that forgets its unref breaks FreedAtExit there).
- `Api` uses `W = 4`: 16 addresses.
  - The `Layout`s `(2, align 4)` and `(3, align 1)` need `5` and `3` bytes.
  - Three calls by two threads reach every order of alloc, dealloc and a
    second alloc that reuses a freed base.
  - `nu_calloc(9, 2)` wraps.
- The passing runs together fire every action of both next-state relations.

**Fairness.** In `LFList` each thread's `Step` is weakly fair:
- A thread runs on its own OS thread, and nothing in the code blocks, so a
  runnable thread is eventually scheduled.
- A spin changes no state, so fairness never forces a spin to end. A liveness
  property (CallsReturn, or the liveness part of PoolRefined) therefore fails
  exactly when a loop can spin forever.

`ListPool`'s `Effect` and `Return` are weakly fair: a call takes effect and
returns. `Api` has no liveness property and no fairness.

## 4. Not modelled, and why

- **Weak memory.** The Relaxed orderings are not modelled. The model is
  sequentially consistent, so every race it finds also exists on real
  hardware.
- **`ObjectList`.** It forwards to `List` with every flag `!0` and the
  object in a payload array, written before the flag and read after pop's
  flag CAS. Modelling it needs a payload cell per slot and a payload
  identity per item, as flags no longer tell items apart. That doubles the
  state of every page for a flag protocol already checked through
  `WordList`.
- **`WordList`'s `+5`/`-5` encoding.** Items are abstract flags. The
  collision with `EMPTY_SLOT`/`SENTINEL_SLOT` takes a word within 5 of
  `2^64`, a single-call arithmetic fact with no interleaving in it, and no
  caller in the repository passes such a word.
- **`nu_realloc` with size 0.** `nu_realloc` skips the size-0 rule of
  `nu_malloc`; what `generic_heap::realloc(p, 0)` does is not in the
  repository and C17 leaves it implementation-defined.
- **pop and drop_out_all in `ListPool`.** pop reads past the flag array and
  drop_out_all loses stale pushes (both findings), so neither has an
  abstract counterpart yet.
- **The size `gc` frees.** `BufferMeta::gc` passes `*SYS_PAGE_SIZE` to
  `dealloc_mem`, while `BufferMeta::new` allocated
  `meta + cap*8 + cap*size_of::<T>()` bytes. This is one size computation
  per call with no interleaving in it, and the `alloc_mem`/`dealloc_mem`
  contract is outside the repository; it is a hazard in `PROJECT.json`.
- **bibop_heap.rs.** Every method is a stub.

## 5. Open work

1. **Drains racing a splice.** push_pop races pops and drops with
   `prepend_with`; drop_out_all during a splice is reached only in all_ops,
   which checks TypeOK alone.
2. **`ListPool` removal.** Extend it with pop and drain once their defects
   can be configured away.
