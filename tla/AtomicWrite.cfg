\* Two writers that overlap and both finish.
SPECIFICATION SpecNoGiveUp
CONSTANTS
    supervisor = supervisor
    disable = disable
    stopped = stopped
    running = running
    i1 = i1
    i2 = i2
    i3 = i3
    i4 = i4
    None = None
    Hole = Hole
    Writer <- Writers
    Value <- Values
    Size <- Sizes
    Inode <- Inodes
SYMMETRY SameInodes
INVARIANT AtomicWrite
CHECK_DEADLOCK FALSE
