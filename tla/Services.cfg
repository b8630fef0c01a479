SPECIFICATION Spec
CONSTANTS
    t1 = t1
    t2 = t2
    r1 = r1
    r2 = r2
    r3 = r3
    k1 = k1
    k2 = k2
    e1 = e1
    e2 = e2
    s1 = s1
    s2 = s2
    None = None
INVARIANTS LssRight PdoRight EmcyRight
PROPERTIES TicksRight  ServicesProceed
