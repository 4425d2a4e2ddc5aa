SPECIFICATION Spec
CONSTANTS
    t1 = t1
    t2 = t2
    a = a
    b = b
    c = c
    d = d
    e = e
    Empty = Empty
    Threads <- MCThreads
    Documents <- Hanging
    Room <- MCRoom
INVARIANT NobodyHangs
