\* Two writers and a reader, in every order; writes may fail.
SPECIFICATION Spec
CONSTANTS
    supervisor = supervisor
    disable = disable
    stopped = stopped
    running = running
    i1 = i1
    i2 = i2
    i3 = i3
    i4 = i4
    None = None
    Hole = Hole
    Writer <- Writers
    Value <- Values
    Size <- Sizes
    Inode <- Inodes
SYMMETRY SameInodes
INVARIANTS
    TypeOK
    RegisterUnlessClash
PROPERTY LoneWriteMends
CHECK_DEADLOCK FALSE
