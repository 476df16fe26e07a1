\* Concurrent push with page overflow: two threads, three pushes on one
\* list of one-slot pages, so the slot CAS races and two overflowing pushes
\* race to install their pages (the loser unrefs its own); then List::drop.
CONSTANTS
    t1 = t1  t2 = t2  t3 = t3  L1 = L1  L2 = L2
    i1 = i1  i2 = i2  i3 = i3  i4 = i4
    b1 = b1  b2 = b2  b3 = b3  b4 = b4  b5 = b5
    Null = Null  Garbage = Garbage
    Items <- ThreeItems
    Buf <- FourBufs
    Cap = 1
    CountMod = 8
    Threads <- TwoThreads
    Lists <- OneList
    Ops = {"push", "drop"}
    MaxOps = 3
    DebugBuild = FALSE
SPECIFICATION Spec
INVARIANT NoUseAfterFree ChainsWellFormed NoLostItem CountMatches NoPanic FreedAtExit
PROPERTY PoolRefined
