CONSTANTS
    b1 = b1
    b2 = b2
    Tasks = {t1, t2, t3}
    NULL = NULL
    Bits = {b1, b2}
    Masks <- WaitMasks
    COUNT_MOD = 4
    MaxPosts = 2
SPECIFICATION LockedSpec
INVARIANT NoTaskLost
