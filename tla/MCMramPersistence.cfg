SPECIFICATION Spec
CONSTANTS
    e1 = e1
    e2 = e2
    e3 = e3
    Entry = {e1, e2, e3}
    Size <- MCSize
    HeaderSize = 1
    MaxSize = 3
    MramSize = 8
INVARIANTS
    TypeOK
    ReadsWholeEntries
    AppendsAtMark
PROPERTY
    ImplementsAppendLog
