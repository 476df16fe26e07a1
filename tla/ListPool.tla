------------------------------ MODULE ListPool ------------------------------
(***************************************************************************)
(* What a family of lists promises about the items it holds, seen as one  *)
(* pool: each push call adds its item to the pool in one instant between  *)
(* its call and its return, and does so exactly once; prepend_with moves   *)
(* items from one list to another and so leaves the pool as it is.  No     *)
(* other step adds or removes an item, except that an owner may drop a    *)
(* list, with its items, while no call runs (the one-list case of Drop).   *)
(* The calls that take items out (pop and drop_out_all) are not part of   *)
(* this view.                                                              *)
(***************************************************************************)
EXTENDS FiniteSets

CONSTANTS Threads, Items, NoItem

VARIABLES
    pool,    \* the items held by the lists together
    pushed,  \* the items whose push has been called
    call     \* per thread: its call ("idle", "pending", "effective") and item

vars == <<pool, pushed, call>>

Init ==
    /\ pool = {}
    /\ pushed = {}
    /\ call = [t \in Threads |-> [st |-> "idle", item |-> NoItem]]

\* a push of a new item is called
Invoke(t) ==
    /\ call[t].st = "idle"
    /\ \E i \in Items \ pushed :
         /\ pushed' = pushed \cup {i}
         /\ call' = [call EXCEPT ![t] = [st |-> "pending", item |-> i]]
    /\ UNCHANGED pool

\* prepend_with is called: it moves items between lists, not into the pool
InvokeSplice(t) ==
    /\ call[t].st = "idle"
    /\ call' = [call EXCEPT ![t] = [st |-> "effective", item |-> NoItem]]
    /\ UNCHANGED <<pool, pushed>>

\* the push takes effect: its item joins the pool
Effect(t) ==
    /\ call[t].st = "pending"
    /\ pool' = pool \cup {call[t].item}
    /\ call' = [call EXCEPT ![t].st = "effective"]
    /\ UNCHANGED pushed

Return(t) ==
    /\ call[t].st = "effective"
    /\ call' = [call EXCEPT ![t] = [st |-> "idle", item |-> NoItem]]
    /\ UNCHANGED <<pool, pushed>>

\* an owner drops a list while no call runs: the items it holds leave the
\* pool (with one list, Drop's &mut self means exactly that no call runs)
Discard ==
    /\ \A t \in Threads : call[t].st = "idle"
    /\ pool' \subseteq pool
    /\ UNCHANGED <<pushed, call>>

Next == (\E t \in Threads : Invoke(t) \/ InvokeSplice(t) \/ Effect(t) \/ Return(t)) \/ Discard

\* every call that has been made takes effect and returns
Spec == Init /\ [][Next]_vars /\ \A t \in Threads : WF_vars(Effect(t)) /\ WF_vars(Return(t))

=============================================================================
