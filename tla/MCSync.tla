------------------------------- MODULE MCSync -------------------------------
EXTENDS Sync

CONSTANTS b1, b2
WaitMasks == {{b1}, {b1, b2}}

\* Callers of os_cond_wait hold the mutex, as its comment asks.
CallersLock == \A t \in Tasks : pc[t] = "cond_unlock" => mutex = t
LockedSpec == Init /\ [][Next /\ CallersLock']_vars
=============================================================================
