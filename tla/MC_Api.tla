------------------------------- MODULE MC_Api -------------------------------
(* Instances of the Api module for TLC: 4-bit addresses, two threads.      *)
EXTENDS Api, TLC

CONSTANTS t1, t2

TwoThreads == {t1, t2}
\* a Layout with padding (align 4) and one without (align 1)
TwoLayouts == {[size |-> 2, align |-> 4], [size |-> 3, align |-> 1]}
\* 9 * 2 = 18 wraps to 2 in 4 bits
CallocCounts == {1, 9}
\* the threads are interchangeable: none is distinguished by the code
Symm == Permutations(TwoThreads)
=============================================================================
