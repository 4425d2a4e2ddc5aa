SPECIFICATION FairSpec
CONSTANTS
    t1 = t1
    t2 = t2
    a = a
    b = b
    c = c
    d = d
    e = e
    Empty = Empty
    Threads <- MCThreads
    Documents <- Readable
    Room <- MCRoom
INVARIANT ReadsAgree
INVARIANT CyclesAreReal
INVARIANT ValuesAreExact
INVARIANT ProjectionsHeal
PROPERTY EveryReadEnds
