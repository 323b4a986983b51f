\* LDST restores the complete processor status: not t0, t1 and t6.
SPECIFICATION Spec
CONSTANTS
    Cpus = {0, 1}
INVARIANT RestoresCompletely
\* every core may have called HALT
CHECK_DEADLOCK FALSE
