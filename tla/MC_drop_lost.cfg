\* push racing drop_out_all, release build.
CONSTANTS
    t1 = t1  t2 = t2  t3 = t3  L1 = L1  L2 = L2
    i1 = i1  i2 = i2  i3 = i3  i4 = i4
    b1 = b1  b2 = b2  b3 = b3  b4 = b4  b5 = b5
    Null = Null  Garbage = Garbage
    Items <- ThreeItems
    Buf <- FourBufs
    Cap = 2
    CountMod = 8
    Threads <- TwoThreads
    Lists <- OneList
    Ops = {"push", "drop_out_all"}
    MaxOps = 3
    DebugBuild = FALSE
SPECIFICATION Spec
INVARIANT NoLostItem
