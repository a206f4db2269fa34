SPECIFICATION Spec
CONSTANTS
    t1 = t1
    w = w
    f1 = f1
    f2 = f2
    u1 = u1
    c = c
    L = L
    Nil = Nil
    Tabs = {t1}
    WeakTabs = {}
    Funs = {f1, f2}
    Upvs = {u1}
    Strs = {}
    Slots = {1, 2}
    MAX_OBJECTS = 3
PROPERTIES
    GarbageIsFreed
    CycleEnds
