SPECIFICATION Spec
CONSTANTS
    Threads = {t1, t2}
    Mutexes = {m1, m2}
    Conds = {c}
    Reals = {r1, r2, r3}
    Slots = 2
    Zero = Zero
    Recursive = Recursive
    Garbage = Garbage
    None = None
    Forgetful = TRUE
INVARIANTS
    UsableServed
CHECK_DEADLOCK FALSE
