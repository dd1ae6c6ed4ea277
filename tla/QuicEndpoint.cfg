SPECIFICATION Spec
CONSTANTS
    d1 = d1
    l1 = l1
    i1 = i1
    a1 = a1
    t1 = t1
    Dialled = {d1}
    Lent = {l1}
    Incoming = {i1}
    Acceptors = {a1}
    Takers = {t1}
    Scenes <- TheScenes
    Passes = 2
    MaxAnswers = 2
    MaxTicks = 1
INVARIANTS NobodySleepsOnIt OneOwner KeptUntilTaken
