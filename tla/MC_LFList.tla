----------------------------- MODULE MC_LFList -----------------------------
(* Instances of LFList for TLC: the constants each .cfg gives by name.   *)
EXTENDS LFList, TLC

CONSTANTS t1, t2, t3, L1, L2, i1, i2, i3, i4, b1, b2, b3, b4, b5

ThreeThreads == {t1, t2, t3}
OneThread == {t1}
TwoThreads == {t1, t2}
OneList == {L1}
TwoLists == {L1, L2}
ThreeItems == {i1, i2, i3}
TwoItems == {i1, i2}
FourItems == {i1, i2, i3, i4}
FourBufs == {b1, b2, b3, b4}
FiveBufs == {b1, b2, b3, b4, b5}

\* threads and items are interchangeable: symmetry for safety-only runs
Symm == Permutations(TwoThreads) \cup Permutations(ThreeItems)
=============================================================================
