---------------------------- MODULE MCClientLocks -----------------------------
EXTENDS ClientLocks

CONSTANTS t1, t2
MCCallers == {t1, t2}
=============================================================================
