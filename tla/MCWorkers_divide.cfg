SPECIFICATION FairSpec
CONSTANTS
    w1 = w1  w2 = w2
    t1 = t1
    i1 = i1  i2 = i2
    s1 = s1  s2 = s2
    Worker = {w1, w2}
    Table = {t1}
    Inode = {i1, i2}
    Key = {i1, i2}
    KeyOf <- OneToOne
    SemId = {s1, s2}
    TableOp = {"update"}
    Recycle = FALSE
    Faults = {"fpe"}
    None = None
PROPERTY Answered
CHECK_DEADLOCK FALSE
