SPECIFICATION Spec
CONSTANTS
    t1 = t1
    w = w
    f1 = f1
    f2 = f2
    u1 = u1
    c = c
    L = L
    Nil = Nil
    Tabs = {t1, w}
    WeakTabs = {w}
    Funs = {f1}
    Upvs = {u1}
    Strs = {c}
    Slots = {1, 2}
    MAX_OBJECTS = 3
INVARIANTS
    TypeOK
    NoDangling
