SPECIFICATION Spec
CONSTANTS
    w1 = w1  w2 = w2
    t1 = t1  t2 = t2
    i1 = i1  i2 = i2  i3 = i3  i4 = i4
    s1 = s1  s2 = s2  s3 = s3  s4 = s4
    Worker = {w1, w2}
    Table = {t1, t2}
    Inode = {i1, i2, i3, i4}
    Key = {i1, i2, i3, i4}
    KeyOf <- OneToOne
    SemId = {s1, s2, s3, s4}
    TableOp = {"select", "insert", "update"}
    Recycle = FALSE
    Faults = {"fpe", "stop", "ctrlc", "kill"}
    None = None
SYMMETRY InterchangeableAll
INVARIANT TypeOK
INVARIANT SemaphoresHeldOnce
INVARIANT FileExclusion
INVARIANT HolderFindsWholeFile
PROPERTY TableLocksKept
CHECK_DEADLOCK FALSE
