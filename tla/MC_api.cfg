CONSTANTS
    t1 = t1
    t2 = t2
    Threads <- TwoThreads
    W = 4
    CSizes = {0, 2}
    RSizes = {3}
    Nmembs <- CallocCounts
    Layouts <- TwoLayouts
    MaxCalls = 3
SPECIFICATION Spec
SYMMETRY Symm
INVARIANT TypeOK RustAllocBacked NoInvalidFree
