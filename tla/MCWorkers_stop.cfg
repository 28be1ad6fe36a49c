SPECIFICATION Spec
CONSTANTS
    w1 = w1  w2 = w2  w3 = w3
    t1 = t1  t2 = t2
    i1 = i1  i2 = i2  i3 = i3
    s1 = s1  s2 = s2  s3 = s3  s4 = s4
    Worker = {w1, w2, w3}
    Table = {t1, t2}
    Inode = {i1, i2, i3}
    Key = {i1, i2, i3}
    KeyOf <- Colliding
    SemId = {s1, s2, s3, s4}
    TableOp = {"update", "delete"}
    Recycle = FALSE
    Faults = {"stop", "kill"}
    None = None
SYMMETRY Interchangeable
INVARIANT FileExclusion
INVARIANT NothingLost
PROPERTY FrozenAfterStop
