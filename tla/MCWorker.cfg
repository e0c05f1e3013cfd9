SPECIFICATION Spec
CONSTANTS
    Agents = {a1, a2}
    Main = a1
    Objects = {o1, o2}
    Threads = {t1, t2}
    Handles = {h1}
    MaxRefs = 2
CHECK_DEADLOCK FALSE
INVARIANTS
    JoinedOnce
    EntryKeepsItsThread
    OneOwner
    LoopClosedOnce
    CloseIsHonest
    CapturesAreGood
PROPERTIES
    JoinsReturn
