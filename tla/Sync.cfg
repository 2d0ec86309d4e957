CONSTANTS
    w1 = w1  w2 = w2  p1 = p1  p2 = p2  r1 = r1  r2 = r2  r3 = r3
    c1 = c1  c2 = c2  c3 = c3
    Waiter = {w1, w2}
    Poster = {p1, p2}
    Num = 1
    Reader = {r1, r2, r3}
    Writer = {w1, w2}
    MaxReaders = 4
    NoWriter = NoWriter
    Consumer = {c1, c2, c3}
    Producer = {p1, p2}
    NoOwner = NoOwner
SPECIFICATION Spec
INVARIANTS ListExclusive Exclusion WaitersKept
PROPERTIES SemImplements AllReturn NeitherStarves AllServed
CHECK_DEADLOCK FALSE
