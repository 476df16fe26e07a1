------------------------------- MODULE LFList -------------------------------
(***************************************************************************)
(* The paged lock-free stack of src/src/collections/lflist.rs, as used by  *)
(* WordList (payload type (), so an item is its slot flag).  Every atomic  *)
(* load, store, CAS and fetch_add/fetch_sub of the Rust code is one step   *)
(* of a thread; a thread's locals are the Rust locals of the running       *)
(* method.  Memory is sequentially consistent (the Relaxed orderings of    *)
(* the code are not modelled).  A buffer id is never reused after          *)
(* deallocation, so a stale pointer to a freed buffer is detected, not     *)
(* silently redirected to a new buffer.  An owner's drop of a list (impl *)
(* Drop for List) is one step, taken while no call holds that list.        *)
(***************************************************************************)
EXTENDS Integers, FiniteSets, Sequences

CONSTANTS
    Threads,      \* the threads calling the list
    Lists,        \* the List instances (two are needed for prepend_with)
    Items,        \* flags pushed by callers: never EMPTY_SLOT or SENTINEL_SLOT
    Buf,          \* buffer ids (addresses of BufferMeta pages)
    Cap,          \* buffer_cap
    Null,         \* the null pointer
    Garbage,      \* content of the word just past a buffer's flag array
    Ops,          \* the List methods the threads call, and "drop" if owners drop lists
    MaxOps,       \* bound on the number of method calls in a behaviour
    CountMod,     \* 2^(bits of usize) for List.count, kept small
    DebugBuild    \* whether debug_assert! is compiled in

EMPTY_SLOT == 0
SENTINEL_SLOT == 1
\* size_of::<usize>() on a 64-bit target, the constants of drop_out_all
WordSize == 8
DropFlag == 2^WordSize
DropLimit == DropFlag * 2^(WordSize \div 2)

ASSUME /\ Cap \in Nat \ {0}
       /\ Items \cap {EMPTY_SLOT, SENTINEL_SLOT, Garbage} = {}
       /\ Null \notin Buf
       /\ Cardinality(Buf) >= Cardinality(Lists)
       /\ Ops \subseteq {"push", "exclusive_push", "pop", "drop_out_all", "prepend_with", "drop"}
       /\ DebugBuild \in BOOLEAN

FlagVal == {EMPTY_SLOT, SENTINEL_SLOT, Garbage} \cup Items
\* flag index Cap is the word after the flag array, read out of bounds by pop
Idx == 0 .. Cap

VARIABLES
    lhead,      \* List.head: the newest buffer of each list
    lcount,     \* List.count
    bstate,     \* per buffer id: "unused", "live" (allocated) or "freed"
    bhead,      \* BufferMeta.head: the slot cursor
    bnext,      \* BufferMeta.next
    brefs,      \* BufferMeta.refs
    bflags,     \* the flag words of each buffer, index Cap is past the array
    th,         \* per thread: step, return step, running call and its locals
    pushed,     \* the items whose push has been called
    delivered,  \* how many times each value was returned by pop or drop_out_all
    oob,        \* some pop has accessed the word past a flag array
    oom,        \* a buffer allocation failed (the process aborts)
    calls,      \* number of List methods called so far
    alive,      \* the lists not yet dropped by their owner
    discarded   \* the items held by a list when it was dropped

ownVars == <<alive, discarded>>
listVars == <<lhead, lcount, ownVars>>
bufVars == <<bstate, bhead, bnext, brefs, bflags>>
histVars == <<pushed, delivered, oob, oom, calls>>
vars == <<listVars, bufVars, th, histVars>>

Idle == [pc |-> "idle", ret |-> "idle", op |-> "none", l |-> Null, arg |-> Null,
         hp |-> Null, page |-> Null, slot |-> 0, nxt |-> Null, flag |-> EMPTY_SLOT,
         res |-> {}, taken |-> 0, aux |-> Null]

-----------------------------------------------------------------------------
(* BufferMeta *)

\* Faulty variant: the new page's next pointer is never stored.
NewBufferUnlinked(b, nxt, w) ==
    /\ bstate' = [bstate EXCEPT ![b] = "live"]
    /\ bhead' = [bhead EXCEPT ![b] = 0]
    /\ bnext' = [bnext EXCEPT ![b] = Null]
    /\ brefs' = [brefs EXCEPT ![b] = 1]
    /\ bflags' = [bflags EXCEPT ![b] = [i \in Idx |-> IF i = Cap THEN w ELSE EMPTY_SLOT]]

\* BufferMeta::new: zeroed flags, head 0, next null, refs 1.  The word after
\* the flag array is not written: it holds whatever memory held (w).
NewBuffer(b, nxt, w) ==
    /\ bstate' = [bstate EXCEPT ![b] = "live"]
    /\ bhead' = [bhead EXCEPT ![b] = 0]
    /\ bnext' = [bnext EXCEPT ![b] = nxt]
    /\ brefs' = [brefs EXCEPT ![b] = 1]
    /\ bflags' = [bflags EXCEPT ![b] = [i \in Idx |-> IF i = Cap THEN w ELSE EMPTY_SLOT]]

FreeBufs == {b \in Buf : bstate[b] = "unused"}
Fresh == CHOOSE b \in FreeBufs : TRUE

\* alloc_mem finds no memory: the allocation failure aborts the process
AllocFails ==
    /\ FreeBufs = {}
    /\ oom' = TRUE
    /\ UNCHANGED <<listVars, bufVars, th, pushed, delivered, oob, calls>>

\* alloc_mem returns the page Fresh, made by BufferMeta::new
Alloc(nxt) == FreeBufs # {} /\ \E w \in {EMPTY_SLOT, Garbage} : NewBuffer(Fresh, nxt, w)

\* BufferMeta::borrow: refs.fetch_add(1)
Borrow(b) == brefs' = [brefs EXCEPT ![b] = @ + 1]

\* Faulty variant: gc once no borrower is left (refs 2 -> 1).
UnrefEarly(b) ==
    /\ brefs' = [brefs EXCEPT ![b] = @ - 1]
    /\ IF brefs[b] <= 2
         THEN /\ bstate' = [bstate EXCEPT ![b] = "freed"]
              /\ bhead' = [bhead EXCEPT ![b] = 0]
         ELSE UNCHANGED <<bstate, bhead>>

\* BufferMeta::unref: refs.fetch_sub(1); the caller that takes refs from 1
\* to 0 runs gc: flush_buffer drops the items and resets head, then dealloc.
Unref(b) ==
    /\ brefs' = [brefs EXCEPT ![b] = @ - 1]
    /\ IF brefs[b] = 1
         THEN /\ bstate' = [bstate EXCEPT ![b] = "freed"]
              /\ bhead' = [bhead EXCEPT ![b] = 0]
         ELSE UNCHANGED <<bstate, bhead>>

-----------------------------------------------------------------------------
(* Steps shared by the methods *)

\* no thread moves once an allocation failure has aborted the process
At(t, p) == ~oom /\ th[t].pc = p
Go(t, p) == th' = [th EXCEPT ![t].pc = p]
\* the loop body or the method ends: its BufferRef is dropped, then r
Leave(t, r) == th' = [th EXCEPT ![t].pc = "release", ![t].ret = r]
\* a step that only reads shared memory into the thread's locals
Local(u) == th' = u /\ UNCHANGED <<listVars, bufVars, histVars>>
\* Backoff::spin() of a busy-wait loop that has seen nothing change
Spin == UNCHANGED vars
Deliver(S) ==
    delivered' = [v \in DOMAIN delivered |-> delivered[v] + IF v \in S THEN 1 ELSE 0]

\* impl Drop for BufferRef: unref(self.ptr); a returning method's locals go
Release(t) ==
    /\ At(t, "release")
    /\ Unref(th[t].page)
    /\ th' = [th EXCEPT ![t] = IF @.ret = "idle" THEN Idle
                                ELSE [@ EXCEPT !.page = Null, !.pc = th[t].ret]]
    /\ UNCHANGED <<listVars, bnext, bflags, histVars>>

\* let head_ptr = self.head.load(Relaxed)
LoadHead(t, from, to) ==
    At(t, from) /\ Local([th EXCEPT ![t].hp = lhead[th[t].l], ![t].pc = to])

\* Faulty variant: the page is used without borrow's fetch_add.
BorrowHeadNoRef(t, from, to) ==
    /\ At(t, from)
    /\ th' = [th EXCEPT ![t].page = th[t].hp, ![t].pc = to]
    /\ UNCHANGED <<listVars, bufVars, histVars>>

\* let page = BufferMeta::borrow(head_ptr)
BorrowHead(t, from, to) ==
    /\ At(t, from)
    /\ Borrow(th[t].hp)
    /\ th' = [th EXCEPT ![t].page = th[t].hp, ![t].pc = to]
    /\ UNCHANGED <<listVars, bstate, bhead, bnext, bflags, histVars>>

\* Faulty variant: the overflow test is slot > buffer_cap.
CheckSlotLate(t, from, full, room) ==
    /\ At(t, from)
    /\ LET s == bhead[th[t].page] IN
       \/ /\ s > Cap
          /\ \/ AllocFails
             \/ /\ Alloc(th[t].hp)
                /\ th' = [th EXCEPT ![t].aux = Fresh, ![t].pc = full]
                /\ UNCHANGED <<listVars, histVars>>
       \/ s <= Cap /\ Local([th EXCEPT ![t].slot = s, ![t].pc = room])

\* let slot = page.head.load(); if slot + 1 > buffer_cap a new buffer with
\* next = head_ptr is made (then `full`), else slot is to be taken (`room`)
CheckSlot(t, from, full, room) ==
    /\ At(t, from)
    /\ LET s == bhead[th[t].page] IN
       \/ /\ s + 1 > Cap
          /\ \/ AllocFails
             \/ /\ Alloc(th[t].hp)
                /\ th' = [th EXCEPT ![t].aux = Fresh, ![t].pc = full]
                /\ UNCHANGED <<listVars, histVars>>
       \/ s + 1 <= Cap /\ Local([th EXCEPT ![t].slot = s, ![t].pc = room])

\* Faulty variant: the unref of new_head is not under the failed-CAS test.
InstallHeadAlwaysUnref(t, from, again) ==
    /\ At(t, from)
    /\ IF lhead[th[t].l] = th[t].hp
         THEN lhead' = [lhead EXCEPT ![th[t].l] = th[t].aux]
         ELSE UNCHANGED lhead
    /\ Unref(th[t].aux)
    /\ Leave(t, again)
    /\ UNCHANGED <<lcount, ownVars, bnext, bflags, histVars>>

\* Faulty variant: compare_and_swap with current and new swapped.
InstallHeadSwapped(t, from, again) ==
    /\ At(t, from)
    /\ IF lhead[th[t].l] = th[t].aux
         THEN lhead' = [lhead EXCEPT ![th[t].l] = th[t].hp] /\ UNCHANGED bufVars
         ELSE Unref(th[t].aux) /\ UNCHANGED <<lhead, bnext, bflags>>
    /\ Leave(t, again)
    /\ UNCHANGED <<lcount, ownVars, histVars>>

\* self.head.compare_and_swap(head_ptr, new_head) != head_ptr =>
\* BufferMeta::unref(new_head); in either case retry
InstallHead(t, from, again) ==
    /\ At(t, from)
    /\ IF lhead[th[t].l] = th[t].hp
         THEN lhead' = [lhead EXCEPT ![th[t].l] = th[t].aux] /\ UNCHANGED bufVars
         ELSE Unref(th[t].aux) /\ UNCHANGED <<lhead, bnext, bflags>>
    /\ Leave(t, again)
    /\ UNCHANGED <<lcount, ownVars, histVars>>

\* self.count.fetch_add(n), then return (dropping the BufferRef)
AddCount(t, from, n) ==
    /\ At(t, from)
    /\ lcount' = [lcount EXCEPT ![th[t].l] = (@ + n) % CountMod]
    /\ Leave(t, "idle")
    /\ UNCHANGED <<lhead, ownVars, bufVars, histVars>>

\* if <list>.count.load() == 0 { return }
CountGate(t, from, l, to) ==
    At(t, from) /\ Local([th EXCEPT ![t] = IF lcount[l] = 0 THEN Idle ELSE [@ EXCEPT !.pc = to]])

-----------------------------------------------------------------------------
(* List::push *)

PushLoad(t) == LoadHead(t, "push_load", "push_borrow")
PushBorrow(t) == BorrowHead(t, "push_borrow", "push_check")
PushCheck(t) == CheckSlot(t, "push_check", "push_install", "push_reserve")
PushInstall(t) == InstallHead(t, "push_install", "push_load")

\* Faulty variant: the slot is reserved by a plain store, as in exclusive_push.
PushReserveNoCas(t) ==
    /\ At(t, "push_reserve")
    /\ bhead' = [bhead EXCEPT ![th[t].page] = th[t].slot + 1]
    /\ Go(t, "push_publish")
    /\ UNCHANGED <<listVars, bstate, bnext, brefs, bflags, histVars>>

\* page.head.compare_and_swap(slot_pos, next_pos) == slot_pos, else retry
PushReserve(t) ==
    /\ At(t, "push_reserve")
    /\ IF bhead[th[t].page] = th[t].slot
         THEN bhead' = [bhead EXCEPT ![th[t].page] = th[t].slot + 1] /\ Go(t, "push_publish")
         ELSE Leave(t, "push_load") /\ UNCHANGED bhead
    /\ UNCHANGED <<listVars, bstate, bnext, brefs, bflags, histVars>>

\* Faulty variant: push returns before count.fetch_add.
PushPublishNoCount(t) ==
    /\ At(t, "push_publish")
    /\ IF bflags[th[t].page][th[t].slot] = EMPTY_SLOT
         THEN bflags' = [bflags EXCEPT ![th[t].page][th[t].slot] = th[t].arg]
              /\ Leave(t, "idle")
         ELSE Leave(t, "panicked") /\ UNCHANGED bflags
    /\ UNCHANGED <<listVars, bstate, bhead, bnext, brefs, histVars>>

\* assert_eq!(atomic_cxchg_relaxed(slot_ptr, EMPTY_SLOT, flag).0, EMPTY_SLOT):
\* a failed assertion panics and unwinding drops the BufferRef
PushPublish(t) ==
    /\ At(t, "push_publish")
    /\ IF bflags[th[t].page][th[t].slot] = EMPTY_SLOT
         THEN bflags' = [bflags EXCEPT ![th[t].page][th[t].slot] = th[t].arg]
              /\ Go(t, "push_count")
         ELSE Leave(t, "panicked") /\ UNCHANGED bflags
    /\ UNCHANGED <<listVars, bstate, bhead, bnext, brefs, histVars>>

PushCount(t) == AddCount(t, "push_count", 1)

-----------------------------------------------------------------------------
(* List::exclusive_push: its caller ensures no other push on the list *)

XLoad(t) == LoadHead(t, "x_load", "x_borrow")
XBorrow(t) == BorrowHead(t, "x_borrow", "x_check")
XCheck(t) == CheckSlot(t, "x_check", "x_store", "x_bump")

\* self.head.store(new_head), before the compare_and_swap below
XStore(t) ==
    /\ At(t, "x_store")
    /\ lhead' = [lhead EXCEPT ![th[t].l] = th[t].aux]
    /\ Go(t, "x_install")
    /\ UNCHANGED <<lcount, ownVars, bufVars, histVars>>

XInstall(t) == InstallHead(t, "x_install", "x_load")

\* page.head.store(next_slot)
XBump(t) ==
    /\ At(t, "x_bump")
    /\ bhead' = [bhead EXCEPT ![th[t].page] = th[t].slot + 1]
    /\ Go(t, "x_publish")
    /\ UNCHANGED <<listVars, bstate, bnext, brefs, bflags, histVars>>

\* atomic_store_relaxed(slot_ptr, flag)
XPublish(t) ==
    /\ At(t, "x_publish")
    /\ bflags' = [bflags EXCEPT ![th[t].page][th[t].slot] = th[t].arg]
    /\ Go(t, "x_count")
    /\ UNCHANGED <<listVars, bstate, bhead, bnext, brefs, histVars>>

XCount(t) == AddCount(t, "x_count", 1)

-----------------------------------------------------------------------------
(* List::pop *)

PopStart(t) == CountGate(t, "pop_start", th[t].l, "pop_load")
PopLoad(t) == LoadHead(t, "pop_load", "pop_borrow")
PopBorrow(t) == BorrowHead(t, "pop_borrow", "pop_slot")

\* let slot = page.head.load()
PopSlot(t) ==
    At(t, "pop_slot") /\ Local([th EXCEPT ![t].slot = bhead[th[t].page], ![t].pc = "pop_next"])

\* let next_buffer_ptr = page.next.load(); slot == 0 with no next buffer
\* returns None, slot == 0 with one retires the head buffer
PopNext(t) ==
    /\ At(t, "pop_next")
    /\ LET n == bnext[th[t].page]
           s == th[t].slot
       IN Local([th EXCEPT ![t].nxt = n, ![t].ret = "idle",
                           ![t].pc = CASE s = 0 /\ n = Null -> "release"
                                       [] s = 0 -> "pop_retire"
                                       [] OTHER -> "pop_flag"])

\* self.head.compare_and_swap(head_ptr, next_buffer_ptr) == head_ptr =>
\* BufferMeta::unref(head_ptr); continue
PopRetire(t) ==
    /\ At(t, "pop_retire")
    /\ IF lhead[th[t].l] = th[t].hp
         THEN lhead' = [lhead EXCEPT ![th[t].l] = th[t].nxt] /\ Go(t, "pop_unref")
         ELSE Leave(t, "pop_load") /\ UNCHANGED lhead
    /\ UNCHANGED <<lcount, ownVars, bufVars, histVars>>

\* Faulty variant: the next buffer, not the retired one, is unreferenced.
PopUnrefNext(t) ==
    /\ At(t, "pop_unref")
    /\ Unref(th[t].nxt)
    /\ Leave(t, "pop_load")
    /\ UNCHANGED <<listVars, bnext, bflags, histVars>>

\* Faulty variant: the retired buffer keeps the list's reference.
PopUnrefSkip(t) ==
    /\ At(t, "pop_unref")
    /\ Leave(t, "pop_load")
    /\ UNCHANGED <<listVars, bufVars, histVars>>

PopUnref(t) ==
    /\ At(t, "pop_unref")
    /\ Unref(th[t].hp)
    /\ Leave(t, "pop_load")
    /\ UNCHANGED <<listVars, bnext, bflags, histVars>>

\* let slot_flag = atomic_load_relaxed(slot_ptr), where slot_ptr is
\* lower_bound + slot * size_of::<usize>(): the flag AT the cursor, past the
\* flag array when slot == buffer_cap.  A zero flag means back off and retry.
PopFlag(t) ==
    /\ At(t, "pop_flag")
    /\ LET f == bflags[th[t].page][th[t].slot] IN
       IF f # EMPTY_SLOT THEN th' = [th EXCEPT ![t].flag = f, ![t].pc = "pop_take"]
                         ELSE Leave(t, "pop_load")
    /\ oob' = (oob \/ th[t].slot = Cap)
    /\ UNCHANGED <<listVars, bufVars, pushed, delivered, oom, calls>>

\* atomic_cxchg_relaxed(slot_ptr, slot_flag, EMPTY_SLOT).1, else retry
PopTake(t) ==
    /\ At(t, "pop_take")
    /\ IF bflags[th[t].page][th[t].slot] = th[t].flag
         THEN bflags' = [bflags EXCEPT ![th[t].page][th[t].slot] = EMPTY_SLOT]
              /\ Go(t, "pop_dec")
         ELSE Leave(t, "pop_load") /\ UNCHANGED bflags
    /\ UNCHANGED <<listVars, bstate, bhead, bnext, brefs, histVars>>

\* page.head.compare_and_swap(slot, slot - 1): on success a non-sentinel
\* flag is returned and a sentinel retried; on failure the slot becomes a hole
PopDec(t) ==
    /\ At(t, "pop_dec")
    /\ LET s == th[t].slot
           f == th[t].flag
       IN IF bhead[th[t].page] = s
            THEN /\ bhead' = [bhead EXCEPT ![th[t].page] = s - 1]
                 /\ IF f # SENTINEL_SLOT
                      THEN Leave(t, "idle") /\ Deliver({f})
                      ELSE Leave(t, "pop_load") /\ UNCHANGED delivered
            ELSE Go(t, "pop_hole") /\ UNCHANGED <<bhead, delivered>>
    /\ UNCHANGED <<listVars, bstate, bnext, brefs, bflags, pushed, oob, oom, calls>>

\* atomic_store_relaxed(slot_ptr, SENTINEL_SLOT); the value taken is dropped
\* and the loop goes on
PopHole(t) ==
    /\ At(t, "pop_hole")
    /\ bflags' = [bflags EXCEPT ![th[t].page][th[t].slot] = SENTINEL_SLOT]
    /\ Leave(t, "pop_load")
    /\ UNCHANGED <<listVars, bstate, bhead, bnext, brefs, histVars>>

-----------------------------------------------------------------------------
(* List::drop_out_all *)

DropStart(t) == CountGate(t, "drop_start", th[t].l, "drop_swap")

\* let mut buffer_ptr = self.head.swap(BufferMeta::new(self.buffer_cap))
DropSwap(t) ==
    /\ At(t, "drop_swap")
    /\ \/ AllocFails
       \/ /\ Alloc(Null)
          /\ lhead' = [lhead EXCEPT ![th[t].l] = Fresh]
          /\ th' = [th EXCEPT ![t].hp = lhead[th[t].l], ![t].pc = "drop_loop"]
          /\ UNCHANGED <<lcount, ownVars, histVars>>

\* while buffer_ptr != null { let buffer = BufferMeta::borrow(buffer_ptr)
DropLoop(t) ==
    \/ At(t, "drop_loop") /\ th[t].hp = Null /\ Local([th EXCEPT ![t].pc = "drop_count"])
    \/ th[t].hp # Null /\ BorrowHead(t, "drop_loop", "drop_next")

\* let next_ptr = buffer.next.load()
DropNext(t) ==
    At(t, "drop_next") /\ Local([th EXCEPT ![t].nxt = bnext[th[t].page], ![t].pc = "drop_mark"])

\* Faulty variant: refs is compared with 2 and left at 2 (no mark).
DropMarkNoFlag(t) ==
    /\ At(t, "drop_mark")
    /\ LET r == brefs[th[t].page] IN
       \/ r = 2 /\ Go(t, "drop_flush") /\ UNCHANGED <<listVars, bufVars, histVars>>
       \/ (r >= DropLimit \/ r <= 1) /\ Leave(t, "drop_count") /\ UNCHANGED <<listVars, bufVars, histVars>>
       \/ 2 < r /\ r < DropLimit /\ Spin

\* Faulty variant: quiescence is taken to be refs == 1.
DropMarkOne(t) ==
    /\ At(t, "drop_mark")
    /\ LET r == brefs[th[t].page] IN
       \/ /\ r = 1 /\ brefs' = [brefs EXCEPT ![th[t].page] = DropFlag] /\ Go(t, "drop_flush")
          /\ UNCHANGED <<listVars, bstate, bhead, bnext, bflags, histVars>>
       \/ /\ r >= DropLimit \/ r < 1
          /\ Leave(t, "drop_count") /\ UNCHANGED <<listVars, bufVars, histVars>>
       \/ 1 < r /\ r < DropLimit /\ Spin

\* buffer.refs.compare_and_swap(2, flag), spinning until it returns 2 (then
\* flush) or a value >= flag << (word_size >> 1) or <= 1 (then break 'main)
DropMark(t) ==
    /\ At(t, "drop_mark")
    /\ LET r == brefs[th[t].page] IN
       \/ /\ r = 2 /\ brefs' = [brefs EXCEPT ![th[t].page] = DropFlag] /\ Go(t, "drop_flush")
          /\ UNCHANGED <<listVars, bstate, bhead, bnext, bflags, histVars>>
       \/ /\ r >= DropLimit \/ r <= 1
          /\ Leave(t, "drop_count") /\ UNCHANGED <<listVars, bufVars, histVars>>
       \/ 2 < r /\ r < DropLimit /\ Spin

\* BufferMeta::flush_buffer(&*buffer, Some(&mut res)): its debug_assert!
\* (refs <= 2) panics in a debug build; the flags below head other than
\* EMPTY_SLOT and SENTINEL_SLOT are retained, then head.store(0)
DropFlush(t) ==
    /\ At(t, "drop_flush")
    /\ LET b == th[t].page
           got == {bflags[b][k] : k \in 0 .. bhead[b] - 1} \ {EMPTY_SLOT, SENTINEL_SLOT}
       IN IF DebugBuild /\ brefs[b] > 2
            THEN Leave(t, "panicked") /\ UNCHANGED bhead
            ELSE /\ bhead' = [bhead EXCEPT ![b] = 0]
                 /\ th' = [th EXCEPT ![t].res = @ \cup got, ![t].pc = "drop_unref"]
    /\ UNCHANGED <<listVars, bstate, bnext, brefs, bflags, histVars>>

\* BufferMeta::unref(buffer_ptr); buffer_ptr = next_ptr; the BufferRef drops
DropUnref(t) ==
    /\ At(t, "drop_unref")
    /\ Unref(th[t].page)
    /\ th' = [th EXCEPT ![t].hp = th[t].nxt, ![t].pc = "release", ![t].ret = "drop_loop"]
    /\ UNCHANGED <<listVars, bnext, bflags, histVars>>

\* self.count.fetch_sub(res.len()); return Some(res)
DropCount(t) ==
    /\ At(t, "drop_count")
    /\ lcount' = [lcount EXCEPT ![th[t].l] = (@ - Cardinality(th[t].res)) % CountMod]
    /\ Deliver(th[t].res)
    /\ th' = [th EXCEPT ![t] = Idle]
    /\ UNCHANGED <<lhead, ownVars, bufVars, pushed, oob, oom, calls>>

-----------------------------------------------------------------------------
(* List::prepend_with: self is th[t].l, other is th[t].arg *)

PrepStart(t) == CountGate(t, "prep_start", th[t].arg, "prep_swap")

\* let other_head = other.head.swap(BufferMeta::new(self.buffer_cap))
PrepSwap(t) ==
    /\ At(t, "prep_swap")
    /\ \/ AllocFails
       \/ /\ Alloc(Null)
          /\ lhead' = [lhead EXCEPT ![th[t].arg] = Fresh]
          /\ th' = [th EXCEPT ![t].hp = lhead[th[t].arg], ![t].pc = "prep_count"]
          /\ UNCHANGED <<lcount, ownVars, histVars>>

\* let other_count = other.count.swap(0)
PrepCount(t) ==
    /\ At(t, "prep_count")
    /\ lcount' = [lcount EXCEPT ![th[t].arg] = 0]
    /\ th' = [th EXCEPT ![t].taken = lcount[th[t].arg], ![t].pc = "prep_borrow"]
    /\ UNCHANGED <<lhead, ownVars, bufVars, histVars>>

\* Faulty variant: other_tail is taken without a borrow.
PrepBorrowNoRef(t) == BorrowHeadNoRef(t, "prep_borrow", "prep_wait")

\* let mut other_tail = BufferMeta::borrow(other_head)
PrepBorrow(t) == BorrowHead(t, "prep_borrow", "prep_wait")

\* Faulty variant: the wait spins while refs > 1.
PrepWaitOne(t) ==
    /\ At(t, "prep_wait")
    /\ IF brefs[th[t].page] > 1 THEN Spin ELSE Local([th EXCEPT ![t].pc = "prep_next"])

\* while other_tail.refs.load() > 2 {}
PrepWait(t) ==
    /\ At(t, "prep_wait")
    /\ IF brefs[th[t].page] > 2 THEN Spin ELSE Local([th EXCEPT ![t].pc = "prep_next"])

\* let next_ptr = other_tail.next.load(); null means the tail is found
PrepNext(t) ==
    /\ At(t, "prep_next")
    /\ LET n == bnext[th[t].page] IN
       Local([th EXCEPT ![t].nxt = n, ![t].pc = IF n = Null THEN "prep_load" ELSE "prep_step"])

\* other_tail = BufferMeta::borrow(next_ptr): the new reference is taken,
\* then the old BufferRef is dropped
PrepStep(t) ==
    /\ At(t, "prep_step")
    /\ Borrow(th[t].nxt)
    /\ Go(t, "prep_drop")
    /\ UNCHANGED <<listVars, bstate, bhead, bnext, bflags, histVars>>

PrepDrop(t) ==
    /\ At(t, "prep_drop")
    /\ Unref(th[t].page)
    /\ th' = [th EXCEPT ![t].page = th[t].nxt, ![t].pc = "prep_wait"]
    /\ UNCHANGED <<listVars, bnext, bflags, histVars>>

\* let this_head = self.head.load()
PrepLoad(t) == At(t, "prep_load") /\ Local([th EXCEPT ![t].aux = lhead[th[t].l], ![t].pc = "prep_cas"])

\* self.head.compare_and_swap(this_head, other_head), retried until it succeeds
PrepCas(t) ==
    /\ At(t, "prep_cas")
    /\ IF lhead[th[t].l] = th[t].aux
         THEN lhead' = [lhead EXCEPT ![th[t].l] = th[t].hp] /\ Go(t, "prep_link")
         ELSE Go(t, "prep_load") /\ UNCHANGED lhead
    /\ UNCHANGED <<lcount, ownVars, bufVars, histVars>>

\* Faulty variant: the tail is linked to other_head instead of this_head.
PrepLinkSelf(t) ==
    /\ At(t, "prep_link")
    /\ bnext' = [bnext EXCEPT ![th[t].page] = th[t].hp]
    /\ Go(t, "prep_add")
    /\ UNCHANGED <<listVars, bstate, bhead, brefs, bflags, histVars>>

\* Faulty variant: the tail's next store is missing.
PrepLinkNone(t) ==
    /\ At(t, "prep_link")
    /\ Go(t, "prep_add")
    /\ UNCHANGED <<listVars, bufVars, histVars>>

\* other_tail.next.store(this_head)
PrepLink(t) ==
    /\ At(t, "prep_link")
    /\ bnext' = [bnext EXCEPT ![th[t].page] = th[t].aux]
    /\ Go(t, "prep_add")
    /\ UNCHANGED <<listVars, bstate, bhead, brefs, bflags, histVars>>

\* self.count.fetch_add(other_count); other_tail drops on return
PrepAdd(t) == AddCount(t, "prep_add", th[t].taken)

-----------------------------------------------------------------------------
(* impl Drop for List *)

\* the buffers reachable from a list's head, newest first
RECURSIVE ChainFrom(_, _)
ChainFrom(b, fuel) ==
    IF b = Null \/ fuel = 0 THEN <<>> ELSE <<b>> \o ChainFrom(bnext[b], fuel - 1)
Chain(l) == ChainFrom(lhead[l], Cardinality(Buf) + 1)
InChain(l) == {Chain(l)[i] : i \in DOMAIN Chain(l)}

\* the items a buffer holds: its flags below the cursor
Contents(b) == {bflags[b][k] : k \in 0 .. bhead[b] - 1} \cap Items

\* the items a list holds: those of the buffers reachable from its head
Stored(l) == UNION {Contents(b) : b \in InChain(l)}

Quiescent == \A t \in Threads : th[t].pc = "idle"

\* a call of thread t holds a shared reference to list l: l is its self, or
\* the other list of prepend_with; a panicked call has unwound and holds none
InCall(t, l) == th[t].pc \notin {"idle", "panicked"} /\ l \in {th[t].l, th[t].arg}

\* unreference every buffer of C once; the caller taking a buffer's refs
\* from 1 to 0 runs gc, which resets head and deallocates it
UnrefAll(C) ==
    /\ brefs' = [b \in Buf |-> IF b \in C THEN brefs[b] - 1 ELSE brefs[b]]
    /\ bstate' = [b \in Buf |-> IF b \in C /\ brefs[b] = 1 THEN "freed" ELSE bstate[b]]
    /\ bhead' = [b \in Buf |-> IF b \in C /\ brefs[b] = 1 THEN 0 ELSE bhead[b]]

\* Faulty variant: only the head buffer is unreferenced (no walk).
ListDropHeadOnly(l) ==
    /\ "drop" \in Ops /\ ~oom /\ l \in alive /\ \A t \in Threads : ~InCall(t, l)
    /\ UnrefAll({lhead[l]})
    /\ alive' = alive \ {l}
    /\ discarded' = discarded \cup Stored(l)
    /\ UNCHANGED <<lhead, lcount, bnext, bflags, th, histVars>>

\* impl Drop for List: the owner drops l when no call holds l (drop takes
\* &mut self of l only; calls on other lists go on, and may hold pointers to
\* pages a splice moved into l); the drop walks the chain from head, loading
\* next before each BufferMeta::unref.  The chain is a path
\* (ChainsWellFormed), so the walk unreferences each of its buffers once.
ListDrop(l) ==
    /\ "drop" \in Ops /\ ~oom /\ l \in alive /\ \A t \in Threads : ~InCall(t, l)
    /\ UnrefAll(InChain(l))
    /\ alive' = alive \ {l}
    /\ discarded' = discarded \cup Stored(l)
    /\ UNCHANGED <<lhead, lcount, bnext, bflags, th, histVars>>

-----------------------------------------------------------------------------
(* Callers *)

Pushing(l) == {u \in Threads : th[u].op \in {"push", "exclusive_push"} /\ th[u].l = l}
Call(t, op, l, a, p) == th' = [th EXCEPT ![t] = [Idle EXCEPT !.op = op, !.l = l, !.arg = a, !.pc = p]]

\* an idle thread calls a method of Ops on a list; exclusive_push only while
\* no other push runs on that list, as its callers guarantee
Start(t) ==
    /\ At(t, "idle")
    /\ calls < MaxOps
    /\ calls' = calls + 1
    /\ \E l \in alive :
         \/ /\ "push" \in Ops
            /\ \A u \in Pushing(l) : th[u].op = "push"
            /\ \E i \in Items \ pushed : Call(t, "push", l, i, "push_load") /\ pushed' = pushed \cup {i}
         \/ /\ "exclusive_push" \in Ops
            /\ Pushing(l) = {}
            /\ \E i \in Items \ pushed : Call(t, "exclusive_push", l, i, "x_load") /\ pushed' = pushed \cup {i}
         \/ "pop" \in Ops /\ Call(t, "pop", l, Null, "pop_start") /\ UNCHANGED pushed
         \/ "drop_out_all" \in Ops /\ Call(t, "drop_out_all", l, Null, "drop_start") /\ UNCHANGED pushed
         \/ /\ "prepend_with" \in Ops
            /\ \E o \in alive \ {l} : Call(t, "prepend_with", l, o, "prep_start")
            /\ UNCHANGED pushed
    /\ UNCHANGED <<listVars, bufVars, delivered, oob, oom>>

\* List::new for each list: one page each
InitHead == CHOOSE f \in [Lists -> Buf] : \A a, b \in Lists : a # b => f[a] # f[b]

Init ==
    /\ lhead = InitHead
    /\ lcount = [l \in Lists |-> 0]
    /\ bstate = [b \in Buf |-> IF \E l \in Lists : InitHead[l] = b THEN "live" ELSE "unused"]
    /\ bhead = [b \in Buf |-> 0]
    /\ bnext = [b \in Buf |-> Null]
    /\ brefs = [b \in Buf |-> IF bstate[b] = "live" THEN 1 ELSE 0]
    /\ \E w \in [Buf -> {EMPTY_SLOT, Garbage}] :
         bflags = [b \in Buf |-> [i \in Idx |-> IF i = Cap THEN w[b] ELSE EMPTY_SLOT]]
    /\ th = [t \in Threads |-> Idle]
    /\ pushed = {}
    /\ delivered = [v \in Items \cup {Garbage} |-> 0]
    /\ oob = FALSE
    /\ oom = FALSE
    /\ calls = 0
    /\ alive = Lists
    /\ discarded = {}

Step(t) ==
    \/ Start(t) \/ Release(t)
    \/ PushLoad(t) \/ PushBorrow(t) \/ PushCheck(t) \/ PushInstall(t)
    \/ PushReserve(t) \/ PushPublish(t) \/ PushCount(t)
    \/ XLoad(t) \/ XBorrow(t) \/ XCheck(t) \/ XStore(t) \/ XInstall(t)
    \/ XBump(t) \/ XPublish(t) \/ XCount(t)
    \/ PopStart(t) \/ PopLoad(t) \/ PopBorrow(t) \/ PopSlot(t) \/ PopNext(t)
    \/ PopRetire(t) \/ PopUnref(t) \/ PopFlag(t) \/ PopTake(t) \/ PopDec(t) \/ PopHole(t)
    \/ DropStart(t) \/ DropSwap(t) \/ DropLoop(t) \/ DropNext(t) \/ DropMark(t)
    \/ DropFlush(t) \/ DropUnref(t) \/ DropCount(t)
    \/ PrepStart(t) \/ PrepSwap(t) \/ PrepCount(t) \/ PrepBorrow(t) \/ PrepWait(t)
    \/ PrepNext(t) \/ PrepStep(t) \/ PrepDrop(t) \/ PrepLoad(t) \/ PrepCas(t)
    \/ PrepLink(t) \/ PrepAdd(t)

\* every call has returned or panicked, or the process has aborted
Done ==
    /\ oom \/ \A t \in Threads : th[t].pc \in {"idle", "panicked"}
    /\ UNCHANGED vars

Next == (\E t \in Threads : Step(t)) \/ (\E l \in Lists : ListDrop(l)) \/ Done

\* the OS schedules every runnable thread; a spinning thread keeps retrying.
\* An owner need never drop its list: ListDrop has no fairness.
Spec == Init /\ [][Next]_vars /\ \A t \in Threads : WF_vars(Step(t))


-----------------------------------------------------------------------------
(* Properties *)

Ptr == Buf \cup {Null}
Steps == {"idle", "release", "panicked",
          "push_load", "push_borrow", "push_check", "push_install", "push_reserve",
          "push_publish", "push_count",
          "x_load", "x_borrow", "x_check", "x_store", "x_install", "x_bump",
          "x_publish", "x_count",
          "pop_start", "pop_load", "pop_borrow", "pop_slot", "pop_next", "pop_retire",
          "pop_unref", "pop_flag", "pop_take", "pop_dec", "pop_hole",
          "drop_start", "drop_swap", "drop_loop", "drop_next", "drop_mark",
          "drop_flush", "drop_unref", "drop_count",
          "prep_start", "prep_swap", "prep_count", "prep_borrow", "prep_wait",
          "prep_next", "prep_step", "prep_drop", "prep_load", "prep_cas",
          "prep_link", "prep_add"}

TypeOK ==
    /\ lhead \in [Lists -> Buf]
    /\ lcount \in [Lists -> 0 .. CountMod - 1]
    /\ bstate \in [Buf -> {"unused", "live", "freed"}]
    /\ bhead \in [Buf -> 0 .. Cap]
    /\ bnext \in [Buf -> Ptr]
    /\ brefs \in [Buf -> Nat]
    /\ bflags \in [Buf -> [Idx -> FlagVal]]
    /\ \A t \in Threads :
         /\ th[t].pc \in Steps /\ th[t].ret \in Steps
         /\ {th[t].hp, th[t].page, th[t].nxt, th[t].aux} \subseteq Ptr
         /\ th[t].slot \in Idx /\ th[t].flag \in FlagVal /\ th[t].res \subseteq Items
    /\ pushed \subseteq Items
    /\ delivered \in [Items \cup {Garbage} -> Nat]
    /\ calls \in 0 .. MaxOps

\* the buffer the next step of thread t dereferences
Deref(t) ==
    LET p == th[t].pc IN
    CASE p \in {"push_borrow", "x_borrow", "pop_borrow", "prep_borrow", "pop_unref",
                "drop_loop"} -> th[t].hp
      [] p = "prep_step" -> th[t].nxt
      [] p \in {"release", "push_check", "push_reserve", "push_publish", "x_check",
                "x_bump", "x_publish", "pop_slot", "pop_next", "pop_flag", "pop_take",
                "pop_dec", "pop_hole", "drop_next", "drop_mark", "drop_flush",
                "drop_unref", "prep_wait", "prep_next", "prep_drop", "prep_link"}
            -> th[t].page
      [] OTHER -> Null

\* Reference counting (borrow before use, unref after) must keep every
\* buffer a thread touches allocated: no load, store, CAS or refcount update
\* of push, pop, drop_out_all or prepend_with lands on a page that gc has
\* already deallocated.
NoUseAfterFree ==
    \A t \in Threads : Deref(t) # Null => bstate[Deref(t)] # "freed"

\* Every list's chain of next pointers, as installed by push's overflow
\* path, pop's retirement of empty heads and prepend_with's splice, ends in
\* null, holds only allocated buffers, and no buffer is in two lists.
ChainsWellFormed ==
    /\ \A l \in alive :
         /\ Len(Chain(l)) <= Cardinality(Buf)
         /\ \A b \in InChain(l) : bstate[b] = "live"
    /\ \A l, m \in alive : l # m => InChain(l) \cap InChain(m) = {}

\* pop returns only values that were pushed: it never reads a flag word
\* outside a buffer's flag array (pop indexes the flags with the cursor).
NoPhantomDelivery ==
    /\ delivered[Garbage] = 0
    /\ ~oob

\* No lost updates: once every call has returned, each pushed item has
\* been returned by pop or drop_out_all, is still held by some list, or
\* went with a list its owner dropped.
NoLostItem ==
    Quiescent =>
        \A i \in pushed : delivered[i] > 0 \/ i \in discarded \/ \E l \in alive : i \in Stored(l)

\* List.count, kept by push, drop_out_all and prepend_with, equals the
\* number of items the list holds once every call has returned.
CountMatches ==
    Quiescent => \A l \in alive : lcount[l] = Cardinality(Stored(l))

\* push's assert_eq! on the flag it publishes (EMPTY_SLOT expected) never
\* fires, and no debug_assert! of flush_buffer does.
NoPanic == \A t \in Threads : th[t].pc # "panicked"

\* Every call of a List method returns: the backoff loops of push, pop,
\* drop_out_all and prepend_with end under fair scheduling.
CallsReturn ==
    \A t \in Threads : th[t].pc # "idle" ~> th[t].pc \in {"idle", "panicked"}

\* Every reference is given back: once all lists are dropped and every call
\* has returned, no buffer is left allocated.  Each borrow needs its unref,
\* push's losing overflow page, pop's retired head and the pages a drain or
\* splice took out must reach refs 0, and a list's own pages must sit at
\* refs 1 for List::drop to free them.
FreedAtExit ==
    (alive = {} /\ Quiescent) => \A b \in Buf : bstate[b] # "live"

-----------------------------------------------------------------------------
(* Refinement of ListPool *)

\* the chain a running prepend_with holds outside both lists: other_head's
\* chain until self.head is swung to it, then this_head's chain until the
\* tail of the first is linked to it
InFlight(t) ==
    LET p == th[t].pc IN
    CASE th[t].op # "prepend_with" -> <<>>
      [] p \in {"prep_count", "prep_borrow", "prep_wait", "prep_next", "prep_step",
               "prep_drop", "prep_load", "prep_cas"} -> ChainFrom(th[t].hp, Cardinality(Buf) + 1)
      [] p = "prep_link" -> ChainFrom(th[t].aux, Cardinality(Buf) + 1)
      [] OTHER -> <<>>

Tracked ==
    UNION {InChain(l) : l \in alive} \cup UNION {{InFlight(t)[i] : i \in DOMAIN InFlight(t)} : t \in Threads}

\* the pool: every item some list or some running splice holds
PoolHeld == UNION {Contents(b) : b \in Tracked}

\* a push takes effect when its flag is published into the slot
Published(t) ==
    th[t].pc \in {"push_count", "x_count"} \/ (th[t].pc = "release" /\ th[t].ret = "idle")

PoolCall ==
    [t \in Threads |->
        CASE th[t].pc = "idle" -> [st |-> "idle", item |-> Null]
          [] th[t].op \in {"push", "exclusive_push"} ->
               [st |-> IF Published(t) THEN "effective" ELSE "pending", item |-> th[t].arg]
          [] OTHER -> [st |-> "effective", item |-> Null]]

Pool == INSTANCE ListPool WITH pool <- PoolHeld, call <- PoolCall, NoItem <- Null

\* push and prepend_with implement ListPool: every push adds its item to
\* the pool exactly once, between its call and its return, and eventually;
\* no step of a push, of a splice's swap, walk, CAS and link, or of a
\* buffer's unref ever drops an item from the pool or adds a foreign one.
PoolRefined == Pool!Spec

=============================================================================
