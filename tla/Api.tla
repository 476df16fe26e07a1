-------------------------------- MODULE Api ---------------------------------
(***************************************************************************)
(* The allocation entry points of src/src/api.rs: the C functions         *)
(* nu_malloc, nu_free, nu_calloc and nu_realloc, and NullocAllocator,      *)
(* which serves Rust allocations with an alignment by over-allocating      *)
(* through nu_malloc and recording aligned address -> base address in the  *)
(* lock-free map RUST_ADDR_MAPPING.  Addresses are W-bit words, so size    *)
(* arithmetic wraps as usize does.  generic_heap (not in the repository)   *)
(* is its contract: malloc returns null or a fresh block disjoint from the *)
(* live ones, free releases a live block, realloc moves or keeps one.  A   *)
(* map insert or remove is one atomic step.                                *)
(***************************************************************************)
EXTENDS Integers, FiniteSets

CONSTANTS
    Threads,    \* threads calling the allocator
    W,          \* bits of usize
    CSizes,     \* sizes passed to nu_malloc and to nu_calloc
    RSizes,     \* sizes passed to nu_realloc
    Nmembs,     \* element counts passed to nu_calloc
    Layouts,    \* the core::alloc::Layout values Rust allocates with
    MaxCalls    \* bound on the number of calls in a behaviour

Addr == 0 .. 2^W - 1
NULL_PTR == 0
NoEntry == -1
\* Layout::from_size_align: size rounded up to align stays <= isize::MAX
IsizeMax == 2^(W - 1) - 1

ASSUME /\ CSizes \subseteq Addr /\ Nmembs \subseteq Addr /\ RSizes \subseteq Addr \ {0}
       /\ \A lay \in Layouts :
            /\ lay.size \in 1 .. IsizeMax
            /\ lay.align \in {2^k : k \in 0 .. W - 1}
            /\ lay.size + lay.align - 1 <= IsizeMax

VARIABLES
    heap,    \* generic_heap's live blocks: [base, len, zeroed] (zeroed: leading zero bytes)
    amap,    \* RUST_ADDR_MAPPING: aligned address -> base address, or NoEntry
    th,      \* per thread: the step of a NullocAllocator call and its locals
    held,    \* per thread: the blocks the caller got back and has not freed
    badFree, \* generic_heap::free was given a pointer that is not a live block
    calls    \* number of calls made so far

vars == <<heap, amap, th, held, badFree, calls>>

Idle == [pc |-> "idle", via |-> "none", size |-> 0, align |-> 1, base |-> NULL_PTR]

-----------------------------------------------------------------------------
(* generic_heap: the contract of the heap the C functions delegate to *)

\* a block of n bytes at b fits in the address space and overlaps no block of H
FitsIn(H, b, n) ==
    /\ b # NULL_PTR /\ b + n <= 2^W
    /\ \A k \in H : b + n <= k.base \/ k.base + k.len <= b
Fits(b, n) == FitsIn(heap, b, n)

\* generic_heap::malloc(n): null, or the base of a fresh block of n bytes
MallocResults(n) == {NULL_PTR} \cup {b \in Addr : Fits(b, n)}

\* generic_heap::free(p): releases the live block at p
HeapFree(p) ==
    IF \E k \in heap : k.base = p
      THEN heap' = {k \in heap : k.base # p} /\ UNCHANGED badFree
      ELSE badFree' = TRUE /\ UNCHANGED heap

\* generic_heap::realloc(p, n) of the live block k, as C17 7.22.3.5 has it:
\* null with k left alive, or a block of n bytes anywhere outside the other
\* live blocks (at k's own base too) holding k's first min(len, n) bytes,
\* k being released
ReallocResults(k, n) ==
    {[ptr |-> NULL_PTR, heap |-> heap]} \cup
    {[ptr |-> b, heap |-> (heap \ {k}) \cup {[base |-> b, len |-> n,
                           zeroed |-> IF k.zeroed < n THEN k.zeroed ELSE n]}] :
        b \in {a \in Addr : FitsIn(heap \ {k}, a, n)}}

\* utils::align_padding(addr, align): bytes from addr up to a multiple of align
AlignPadding(a, align) == (align - (a % align)) % align

-----------------------------------------------------------------------------
(* The C API *)

\* Faulty variant: size 0 is passed on to generic_heap::malloc.
NuMallocResultsAnySize(n) == MallocResults(n)

\* nu_malloc(size): size 0 gives null (C17 7.22.3/1), else generic_heap::malloc
NuMallocResults(n) == IF n = 0 THEN {NULL_PTR} ELSE MallocResults(n)
NuMalloc(n, p, z) ==
    heap' = IF p = NULL_PTR THEN heap ELSE heap \cup {[base |-> p, len |-> n, zeroed |-> z]}

\* nu_free(ptr): null is ignored, else generic_heap::free
NuFree(p) == IF p = NULL_PTR THEN UNCHANGED <<heap, badFree>> ELSE HeapFree(p)

Begin(t) == th[t].pc = "idle" /\ calls < MaxCalls /\ calls' = calls + 1

\* a C caller allocates size bytes
CMalloc(t) ==
    /\ Begin(t)
    /\ \E n \in CSizes : \E p \in NuMallocResults(n) :
         /\ NuMalloc(n, p, 0)
         /\ held' = [held EXCEPT ![t] = IF p = NULL_PTR THEN @
                                       ELSE @ \cup {[api |-> "c", ptr |-> p, want |-> n, align |-> 1]}]
    /\ UNCHANGED <<amap, th, badFree>>

\* nu_calloc(nmemb, size): total_size = nmemb * size wraps at 2^W; a non-null
\* block is memset to zero over total_size bytes.  The caller asked for
\* nmemb * size zeroed bytes.
Calloc(t) ==
    /\ Begin(t)
    /\ \E m \in Nmembs, n \in CSizes :
         LET total == (m * n) % 2^W IN
         \E p \in NuMallocResults(total) :
           /\ NuMalloc(total, p, total)
           /\ held' = [held EXCEPT ![t] = IF p = NULL_PTR THEN @
                                   ELSE @ \cup {[api |-> "calloc", ptr |-> p, want |-> m * n, align |-> 1]}]
    /\ UNCHANGED <<amap, th, badFree>>

\* a C caller frees a block it holds, or null
CFree(t) ==
    /\ Begin(t)
    /\ \/ NuFree(NULL_PTR) /\ UNCHANGED held
       \/ \E h \in held[t] : h.api # "rust" /\ NuFree(h.ptr) /\ held' = [held EXCEPT ![t] = @ \ {h}]
    /\ UNCHANGED <<amap, th>>

\* nu_realloc(ptr, size) is generic_heap::realloc(ptr, size): a C caller
\* resizes a block it holds, or passes null and gets a fresh block.  On
\* null the caller keeps its old block.
CRealloc(t) ==
    /\ Begin(t)
    /\ \E n \in RSizes :
         \/ \E p \in MallocResults(n) :
              /\ NuMalloc(n, p, 0)
              /\ held' = [held EXCEPT ![t] = IF p = NULL_PTR THEN @
                                    ELSE @ \cup {[api |-> "c", ptr |-> p, want |-> n, align |-> 1]}]
         \/ \E h \in held[t], k \in heap :
              /\ h.api # "rust" /\ k.base = h.ptr
              /\ \E r \in ReallocResults(k, n) :
                   /\ heap' = r.heap
                   /\ held' = [held EXCEPT ![t] = IF r.ptr = NULL_PTR THEN @
                                 ELSE (@ \ {h}) \cup {[api |-> "c", ptr |-> r.ptr, want |-> n, align |-> 1]}]
    /\ UNCHANGED <<amap, th, badFree>>

-----------------------------------------------------------------------------
(* NullocAllocator: GlobalAlloc::alloc, and Alloc::alloc which unwraps it *)

\* Faulty variant: the over-allocation is one byte short (size + align - 2).
AllocMallocShort(t) ==
    /\ Begin(t)
    /\ \E lay \in Layouts, via \in {"global", "alloc"} :
         LET actual == (lay.size + lay.align - 2) % 2^W IN
         \E p \in NuMallocResults(actual) :
           /\ NuMalloc(actual, p, 0)
           /\ th' = [th EXCEPT ![t] = [pc |-> "alloc_map", via |-> via, size |-> lay.size,
                                       align |-> lay.align, base |-> p]]
    /\ UNCHANGED <<amap, held, badFree>>

\* actual_size = size + align - 1; base_addr = nu_malloc(actual_size)
AllocMalloc(t) ==
    /\ Begin(t)
    /\ \E lay \in Layouts, via \in {"global", "alloc"} :
         LET actual == (lay.size + lay.align - 1) % 2^W IN
         \E p \in NuMallocResults(actual) :
           /\ NuMalloc(actual, p, 0)
           /\ th' = [th EXCEPT ![t] = [pc |-> "alloc_map", via |-> via, size |-> lay.size,
                                       align |-> lay.align, base |-> p]]
    /\ UNCHANGED <<amap, held, badFree>>

\* Alloc::alloc: Ok(NonNull::new(GlobalAlloc::alloc(layout)).unwrap()), which
\* panics on a null address; GlobalAlloc::alloc returns the address as is
AllocReturn(r, via) == IF r = NULL_PTR /\ via = "alloc" THEN [Idle EXCEPT !.pc = "panicked"] ELSE Idle

\* rust_addr = base_addr + align_padding; RUST_ADDR_MAPPING.insert(rust_addr,
\* base_addr); return rust_addr to the caller
AllocMap(t) ==
    /\ th[t].pc = "alloc_map"
    /\ LET b == th[t].base
           r == (b + AlignPadding(b, th[t].align)) % 2^W
       IN /\ amap' = [amap EXCEPT ![r] = b]
          /\ th' = [th EXCEPT ![t] = AllocReturn(r, th[t].via)]
          /\ held' = [held EXCEPT ![t] = IF r = NULL_PTR THEN @
                         ELSE @ \cup {[api |-> "rust", ptr |-> r, want |-> th[t].size,
                                       align |-> th[t].align]}]
    /\ UNCHANGED <<heap, badFree, calls>>

\* Faulty variant: the aligned address itself is passed to nu_free.
DeallocRemoveAddr(t) ==
    /\ Begin(t)
    /\ \E h \in held[t] :
         /\ h.api = "rust"
         /\ amap' = [amap EXCEPT ![h.ptr] = NoEntry]
         /\ held' = [held EXCEPT ![t] = @ \ {h}]
         /\ th' = [th EXCEPT ![t] = IF amap[h.ptr] = NoEntry THEN Idle
                                    ELSE [Idle EXCEPT !.pc = "dealloc_free", !.base = h.ptr]]
    /\ UNCHANGED <<heap, badFree>>

\* GlobalAlloc::dealloc (Alloc::dealloc calls it): if let Some(base_addr) =
\* RUST_ADDR_MAPPING.remove(addr), then nu_free(base_addr)
DeallocRemove(t) ==
    /\ Begin(t)
    /\ \E h \in held[t] :
         /\ h.api = "rust"
         /\ amap' = [amap EXCEPT ![h.ptr] = NoEntry]
         /\ held' = [held EXCEPT ![t] = @ \ {h}]
         /\ th' = [th EXCEPT ![t] = IF amap[h.ptr] = NoEntry THEN Idle
                                    ELSE [Idle EXCEPT !.pc = "dealloc_free", !.base = amap[h.ptr]]]
    /\ UNCHANGED <<heap, badFree>>

DeallocFree(t) ==
    /\ th[t].pc = "dealloc_free"
    /\ NuFree(th[t].base)
    /\ th' = [th EXCEPT ![t] = Idle]
    /\ UNCHANGED <<amap, held, calls>>

-----------------------------------------------------------------------------

Init ==
    /\ heap = {}
    /\ amap = [a \in Addr |-> NoEntry]
    /\ th = [t \in Threads |-> Idle]
    /\ held = [t \in Threads |-> {}]
    /\ badFree = FALSE
    /\ calls = 0

Step(t) ==
    \/ CMalloc(t) \/ Calloc(t) \/ CFree(t) \/ CRealloc(t)
    \/ AllocMalloc(t) \/ AllocMap(t) \/ DeallocRemove(t) \/ DeallocFree(t)

\* every call has returned or panicked and the call budget is spent
Done ==
    /\ calls = MaxCalls \/ \E t \in Threads : th[t].pc = "panicked"
    /\ \A t \in Threads : th[t].pc \in {"idle", "panicked"}
    /\ UNCHANGED vars

Next == (\E t \in Threads : Step(t)) \/ Done

Spec == Init /\ [][Next]_vars

-----------------------------------------------------------------------------
(* Properties *)

TypeOK ==
    \* generic_heap is never asked for an empty block
    /\ \A k \in heap : k.base \in Addr /\ k.len \in Addr \ {0} /\ k.zeroed \in Addr
    /\ amap \in [Addr -> Addr \cup {NoEntry}]
    /\ \A t \in Threads :
         /\ th[t].pc \in {"idle", "alloc_map", "dealloc_free", "panicked"}
         /\ th[t].base \in Addr
    /\ badFree \in BOOLEAN
    /\ calls \in 0 .. MaxCalls

\* Every Rust allocation NullocAllocator has handed out and not yet taken
\* back is aligned as its Layout asks, RUST_ADDR_MAPPING maps it to the base
\* of a live block, and its size bytes lie inside that block: the padding
\* and the over-allocation of alloc agree, and dealloc's remove-then-free of
\* one allocation never disturbs another thread's entry.
RustAllocBacked ==
    \A t \in Threads : \A h \in held[t] : h.api = "rust" =>
        /\ h.ptr % h.align = 0
        /\ \E k \in heap : /\ amap[h.ptr] = k.base
                           /\ k.base <= h.ptr
                           /\ h.ptr + h.want <= k.base + k.len

\* nu_free, from C callers and from NullocAllocator::dealloc, only ever
\* passes generic_heap a pointer to a live block: no double free and no free
\* of an address that malloc did not return.
NoInvalidFree == ~badFree

\* nu_calloc(nmemb, size) returns null or a block holding at least
\* nmemb * size zeroed bytes, as C17 7.22.3.2 requires of calloc.
CallocZeroed ==
    \A t \in Threads : \A h \in held[t] : h.api = "calloc" =>
        \E k \in heap : k.base = h.ptr /\ k.zeroed >= h.want

=============================================================================
