SPECIFICATION FairSpec
CONSTANTS
    w1 = w1  w2 = w2
    t1 = t1
    i1 = i1  i2 = i2  i3 = i3
    s1 = s1  s2 = s2  s3 = s3
    Worker = {w1, w2}
    Table = {t1}
    Inode = {i1, i2, i3}
    Key = {i1, i2, i3}
    KeyOf <- OneToOne
    SemId = {s1, s2, s3}
    TableOp = {"update"}
    Recycle = FALSE
    Faults = {"stop"}
    None = None
INVARIANT CatalogAgrees
PROPERTY Answered
