SPECIFICATION Spec
CONSTANTS
    t1 = t1
    t2 = t2
    s1 = s1
    s2 = s2
    c1 = c1
    w1 = w1
    w2 = w2
    Thread <- MCThread
    Screen <- MCScreen
    Cand <- MCCand
    Window <- MCWindow
    MaxRegistry = 1
    MaxSessions = 1
    MaxLeases = 1
    MaxIds = 2
    MaxGen = 2
    MaxOrdinal = 2
SYMMETRY Alike
INVARIANT BridgeInv
PROPERTY OneObservationPerSession
CHECK_DEADLOCK FALSE
